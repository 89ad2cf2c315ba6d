------------------------ MODULE LeaseManagerProofs ------------------------
(***************************************************************************)
(* Proofs about LeaseManager for any clusters, keys, tasks, timings and     *)
(* faults that its assumptions allow: type correctness, and then that a     *)
(* lease is exclusive.                                                      *)
(***************************************************************************)
EXTENDS LeaseManager, FiniteSetTheorems, TLAPS

(* An executor that is down has nothing in memory, so time does not touch it. *)
DownIsEmpty ==
  \A c \in Clusters \ up :
    /\ op[c].pc = "idle"
    /\ \A k \in Keys : held[c][k] = NotHeld
    /\ \A t \in Tasks : spawn[c][t].pc = "idle"

(* A method that will use its key or its task has them. *)
OpShape ==
  \A c \in Clusters :
    /\ op[c].pc \in {"acquire", "readBack"} =>
         op[c].task \in Tasks /\ op[c].key = KeyOf[op[c].task]
    /\ op[c].pc \in {"fenceBeforeRead", "renewReadBack"} => op[c].key \in Keys

TypeInv == TypeOK /\ DownIsEmpty /\ OpShape

-----------------------------------------------------------------------------
(* Values and records.                                                      *)

\* The constants' arithmetic: the caps the timers are clipped at are natural numbers.
LEMMA Numbers ==
  /\ LeaseDuration \in Nat /\ RenewInterval \in Nat /\ FenceMargin \in Nat
  /\ FenceLead \in Nat /\ TakeoverGrace \in Nat /\ JoblessGrace \in Nat
  /\ JoblessCheckInterval \in Nat /\ SuccessGracePeriod \in Nat /\ TickGap \in Nat
  /\ OpTime \in Nat /\ SpawnTime \in Nat /\ CheckAgeCap \in Nat
<1>1. Cardinality(Keys) \in Nat \ {0}
  BY FS_CardinalityType, FS_EmptySet, ConstantsAssumption
<1>2. Cardinality(Keys) - 1 \in Nat
  BY <1>1
<1>3. TickGap \in Nat /\ JoblessCheckInterval \in Nat
  BY TimingAssumption
<1>4. TickGap * (Cardinality(Keys) - 1) \in Nat
  BY <1>2, <1>3
<1>5. CheckAgeCap \in Nat
  BY <1>3, <1>4 DEF CheckAgeCap
<1> QED
  BY <1>5, TimingAssumption

\* storeClaim, repairOrAdoptSingle and recoverFenceGroup build well-formed held claims.
LEMMA NewHeldType ==
  ASSUME NEW t \in Tasks, NEW token \in Tokens, NEW left \in Lefts, NEW r \in 0 .. RenewInterval
  PROVE  NewHeld(t, token, left, r) \in HeldClaim
BY Numbers DEF NewHeld, HeldClaim, None

\* The single-field updates of the release, fence, hold and recheck paths.
LEMMA HeldUpdates ==
  ASSUME NEW h \in HeldClaim
  PROVE  /\ [h EXCEPT !.releasePending = TRUE] \in HeldClaim
         /\ FencePending(h) \in HeldClaim
         /\ [h EXCEPT !.pendingDeletion = "lost"] \in HeldClaim
         /\ [h EXCEPT !.needsRunningCheck = FALSE] \in HeldClaim
         /\ \A x \in None .. SuccessGracePeriod : [h EXCEPT !.hold = x] \in HeldClaim
         /\ \A token \in Tokens, left \in Lefts :
              [h EXCEPT !.token = token, !.left = left] \in HeldClaim
BY Numbers DEF HeldClaim, FencePending, None

\* Elapse keeps a held claim well formed.
LEMMA AgedType ==
  ASSUME NEW h \in HeldClaim
  PROVE  Aged(h) \in HeldClaim
<1>1. Nearer(h.left) \in Lefts
  BY Numbers DEF HeldClaim, Lefts, Nearer, AtLeast
<1>2. AtMost(h.renewAge + 1, RenewInterval) \in 0 .. RenewInterval
  BY Numbers DEF HeldClaim, AtMost
<1>3. (IF h.hold = None THEN None ELSE AtLeast(h.hold - 1, 0)) \in None .. SuccessGracePeriod
  BY Numbers DEF HeldClaim, AtLeast, None
<1>4. Older(h.jobless, JoblessGrace) \in None .. JoblessGrace
  BY Numbers DEF HeldClaim, Older, AtMost, None
<1>5. Older(h.checkAge, CheckAgeCap) \in None .. CheckAgeCap
  BY Numbers DEF HeldClaim, Older, AtMost, None
<1> QED
  BY <1>1, <1>2, <1>3, <1>4, <1>5 DEF Aged, HeldClaim

-----------------------------------------------------------------------------
(* The pieces the actions are made of.                                      *)

StoreType == store \in [Keys -> Claim \cup {Free}]
HeldType == held \in [Clusters -> [Keys -> HeldClaim \cup {NotHeld}]]
OpType == op \in [Clusters -> Op]
SpawnType == spawn \in [Clusters -> [Tasks -> SpawnState]]
JobsType == jobs \in [Clusters -> SUBSET Tasks] /\ stray \in [Clusters -> SUBSET Tasks]
RestType ==
  /\ doneAge \in [Clusters -> [Tasks -> None .. SuccessGracePeriod]]
  /\ parked \subseteq Tasks
  /\ up \subseteq Clusters
  /\ recovered \subseteq Clusters
  /\ fenceAge \in [Clusters -> 0 .. TickGap]

\* What an action leaves alone keeps its type.
LEMMA UnchangedType ==
  ASSUME TypeOK
  PROVE  /\ UNCHANGED store => StoreType'
         /\ UNCHANGED held => HeldType'
         /\ UNCHANGED op => OpType'
         /\ UNCHANGED spawn => SpawnType'
         /\ UNCHANGED <<jobs, stray>> => JobsType'
         /\ UNCHANGED <<doneAge, parked, up, recovered, fenceAge>> => RestType'
BY DEF TypeOK, StoreType, HeldType, OpType, SpawnType, JobsType, RestType

\* Nothing of the executors other than c changes.
OthersKeep(c) ==
  \A d \in Clusters \ {c} : op'[d] = op[d] /\ held'[d] = held[d] /\ spawn'[d] = spawn[d]

\* The method records GoTo and RenewPass build.
LEMMA PhaseType ==
  ASSUME TypeOK, NEW c \in Clusters, NEW pc \in TickPhases, NEW todo \in SUBSET Keys
  PROVE  /\ Idle \in Op
         /\ [Idle EXCEPT !.pc = pc, !.age = op[c].age] \in Op
         /\ [Idle EXCEPT !.pc = "renew", !.todo = todo, !.age = op[c].age] \in Op
<1>1. op[c] \in Op
  BY DEF TypeOK
<1>2. op[c].age \in 0 .. OpTime
  BY <1>1 DEF Op
<1>3. Idle \in Op
  BY Numbers DEF Idle, Op
<1>4. [Idle EXCEPT !.pc = pc] \in Op /\ [Idle EXCEPT !.pc = "renew"] \in Op
  BY <1>3 DEF Op, TickPhases
<1>5. ASSUME NEW o \in Op PROVE [o EXCEPT !.age = op[c].age] \in Op /\ [o EXCEPT !.todo = todo] \in Op
  BY <1>2 DEF Op
<1>6. /\ [Idle EXCEPT !.pc = pc, !.age = op[c].age]
           = [[Idle EXCEPT !.pc = pc] EXCEPT !.age = op[c].age]
      /\ [Idle EXCEPT !.pc = "renew", !.todo = todo, !.age = op[c].age]
           = [[[Idle EXCEPT !.pc = "renew"] EXCEPT !.todo = todo] EXCEPT !.age = op[c].age]
  OBVIOUS
<1> QED
  BY <1>3, <1>4, <1>5, <1>6

\* A method that ends, or goes on to a pass of the tick that needs no key.
LEMMA GoToType ==
  ASSUME TypeOK, NEW c \in Clusters,
         NEW pc \in {"fence", "releases", "holds", "jobless", "recheck"}, GoTo(c, pc)
  PROVE  /\ OpType'
         /\ \A d \in Clusters \ {c} : op'[d] = op[d]
         /\ op'[c].pc \in {"idle", pc}
<1>1. Idle \in Op /\ [Idle EXCEPT !.pc = pc, !.age = op[c].age] \in Op
  BY PhaseType DEF TickPhases
<1>2. [Idle EXCEPT !.pc = pc, !.age = op[c].age].pc = pc /\ Idle.pc = "idle"
  BY DEF Idle
<1> QED
  BY <1>1, <1>2 DEF GoTo, OpType, TypeOK

\* A method that ends.
LEMMA FinishType ==
  ASSUME TypeOK, NEW c \in Clusters, Finish(c)
  PROVE  /\ OpType'
         /\ \A d \in Clusters \ {c} : op'[d] = op[d]
         /\ op'[c].pc = "idle"
BY Numbers DEF TypeOK, OpType, Finish, Idle, Op

\* The renew pass goes on or ends.
LEMMA RenewPassType ==
  ASSUME TypeOK, NEW c \in Clusters, NEW todo \in SUBSET Keys, RenewPass(c, todo)
  PROVE  /\ OpType'
         /\ \A d \in Clusters \ {c} : op'[d] = op[d]
         /\ op'[c].pc \in {"idle", "renew"}
<1>1. Idle \in Op /\ [Idle EXCEPT !.pc = "renew", !.todo = todo, !.age = op[c].age] \in Op
  <2>1. "renew" \in TickPhases
    BY DEF TickPhases
  <2> QED
    BY <2>1, PhaseType
<1>2. /\ [Idle EXCEPT !.pc = "renew", !.todo = todo, !.age = op[c].age].pc = "renew"
      /\ Idle.pc = "idle"
  BY DEF Idle
<1> QED
  BY <1>1, <1>2 DEF RenewPass, OpType, TypeOK

\* The spawn path of one task moves.
LEMMA SetSpawnType ==
  ASSUME TypeOK, NEW c \in Clusters, NEW t \in Tasks,
         NEW pc \in {"idle", "claiming", "conflict", "claimed", "failed"}, SetSpawn(c, t, pc)
  PROVE  /\ SpawnType'
         /\ \A d \in Clusters \ {c} : spawn'[d] = spawn[d]
BY Numbers DEF TypeOK, SpawnType, SpawnState, SetSpawn

\* Every fault leaves a subset of what it may strike.
LEMMA MaySubset ==
  ASSUME NEW fault, NEW S, NEW c
  PROVE  /\ May(fault, S) \subseteq SUBSET S
         /\ MayInTick(c, fault, S) \subseteq SUBSET S
BY DEF May, MayInTick

\* Releases and drops leave the store and one executor's held set well formed.
LEMMA FreedType ==
  ASSUME TypeOK, NEW c \in Clusters, NEW S
  PROVE  Freed(c, S) \in [Keys -> Claim \cup {Free}]
BY DEF TypeOK, Freed

LEMMA DroppedType ==
  ASSUME TypeOK, NEW c \in Clusters, NEW S, held' = Dropped(c, S)
  PROVE  HeldType' /\ \A d \in Clusters \ {c} : held'[d] = held[d]
BY DEF TypeOK, HeldType, Dropped

LEMMA ReleaseRefsType ==
  ASSUME TypeOK, NEW c \in Clusters, NEW S \in SUBSET HeldKeys(c), ReleaseRefs(c, S)
  PROVE  StoreType' /\ HeldType' /\ \A d \in Clusters \ {c} : held'[d] = held[d]
<1>1. PICK fail \in MayInTick(c, "releaseFails", S), lost \in SUBSET Keys :
        /\ lost \in May("releaseLost", S \ fail)
        /\ store' = Freed(c, S \ fail)
        /\ held' = [held EXCEPT ![c] = [k \in Keys |->
             IF k \in lost \cup fail THEN [@[k] EXCEPT !.releasePending = TRUE]
             ELSE IF k \in S THEN NotHeld ELSE @[k]]]
  <2>1. PICK fail \in MayInTick(c, "releaseFails", S) :
          \E lost \in May("releaseLost", S \ fail) :
            /\ store' = Freed(c, S \ fail)
            /\ held' = [held EXCEPT ![c] = [k \in Keys |->
                 IF k \in lost \cup fail THEN [@[k] EXCEPT !.releasePending = TRUE]
                 ELSE IF k \in S THEN NotHeld ELSE @[k]]]
    BY DEF ReleaseRefs
  <2>2. PICK lost \in May("releaseLost", S \ fail) :
          /\ store' = Freed(c, S \ fail)
          /\ held' = [held EXCEPT ![c] = [k \in Keys |->
               IF k \in lost \cup fail THEN [@[k] EXCEPT !.releasePending = TRUE]
               ELSE IF k \in S THEN NotHeld ELSE @[k]]]
    BY <2>1
  <2>3. lost \subseteq S \ fail
    BY <2>2 DEF May
  <2>4. lost \in SUBSET Keys
    BY <2>3 DEF HeldKeys
  <2> QED
    BY <2>2, <2>4
<1>2. fail \subseteq S /\ lost \subseteq S
  BY <1>1, MaySubset
<1>3. \A k \in S : held[c][k] \in HeldClaim
  BY DEF TypeOK, HeldKeys, Holds
<1>4. \A k \in S : [held[c][k] EXCEPT !.releasePending = TRUE] \in HeldClaim
  BY <1>3, HeldUpdates
<1>5. StoreType'
  BY <1>1, FreedType DEF StoreType
<1>6. [k \in Keys |->
         IF k \in lost \cup fail THEN [held[c][k] EXCEPT !.releasePending = TRUE]
         ELSE IF k \in S THEN NotHeld ELSE held[c][k]] \in [Keys -> HeldClaim \cup {NotHeld}]
  BY <1>2, <1>4 DEF TypeOK
<1> QED
  BY <1>1, <1>5, <1>6 DEF HeldType, TypeOK

LEMMA ReleaseLockedType ==
  ASSUME TypeOK, NEW c \in Clusters, NEW S \in SUBSET HeldKeys(c), ReleaseLocked(c, S)
  PROVE  StoreType' /\ HeldType' /\ \A d \in Clusters \ {c} : held'[d] = held[d]
<1>1. PICK unknown : ReleaseRefs(c, {k \in S \ unknown : ~IsJobRunning(c, held[c][k].task)})
  BY DEF ReleaseLocked
<1> QED
  BY <1>1, ReleaseRefsType

LEMMA BestEffortReleaseType ==
  ASSUME TypeOK, NEW c \in Clusters, NEW S, BestEffortRelease(c, S)
  PROVE  StoreType'
BY FreedType DEF BestEffortRelease, StoreType

LEMMA DeleteJobsType ==
  ASSUME TypeOK, NEW c \in Clusters, NEW T, DeleteJobs(c, T)
  PROVE  JobsType'
BY DEF TypeOK, JobsType, DeleteJobs

LEMMA FenceType ==
  ASSUME TypeOK, NEW c \in Clusters, Fence(c)
  PROVE  /\ StoreType' /\ HeldType' /\ JobsType'
         /\ \A d \in Clusters \ {c} : held'[d] = held[d]
<1> DEFINE due == {k \in HeldKeys(c) :
                     held[c][k].pendingDeletion = "no" /\ FenceDue(held[c][k].left)}
           stopping == {k \in due : ~held[c][k].releasePending}
<1>1. PICK kept \in May("deleteFails", stopping) :
        /\ BestEffortRelease(c, due \ kept)
        /\ held' = [held EXCEPT ![c] = [k \in Keys |->
             IF k \in kept THEN FencePending(@[k])
             ELSE IF k \in due THEN NotHeld ELSE @[k]]]
        /\ DeleteJobs(c, HeldTasks(c, stopping \ kept))
  BY DEF Fence
<1>2. \A k \in kept : held[c][k] \in HeldClaim
  <2>1. kept \subseteq stopping
    BY <1>1 DEF May
  <2> QED
    BY <2>1 DEF TypeOK, HeldKeys, Holds
<1>3. \A k \in kept : FencePending(held[c][k]) \in HeldClaim
  BY <1>2, HeldUpdates
<1>4. [k \in Keys |-> IF k \in kept THEN FencePending(held[c][k])
                      ELSE IF k \in due THEN NotHeld ELSE held[c][k]]
        \in [Keys -> HeldClaim \cup {NotHeld}]
  BY <1>3 DEF TypeOK
<1>5. HeldType' /\ \A d \in Clusters \ {c} : held'[d] = held[d]
  BY <1>1, <1>4 DEF HeldType, TypeOK
<1> QED
  BY <1>1, <1>5, BestEffortReleaseType, DeleteJobsType

LEMMA ClaimLostType ==
  ASSUME TypeOK, NEW c \in Clusters, NEW k \in Keys, Holds(c, k), ClaimLost(c, k)
  PROVE  HeldType' /\ JobsType' /\ \A d \in Clusters \ {c} : held'[d] = held[d]
<1>1. CASE held' = Dropped(c, {k}) /\ DeleteJobs(c, {held[c][k].task})
  BY <1>1, DroppedType, DeleteJobsType
<1>2. CASE held' = [held EXCEPT ![c][k].pendingDeletion = "lost"] /\ UNCHANGED <<jobs, stray>>
  <2> held[c][k] \in HeldClaim
    BY DEF TypeOK, Holds
  <2>1. [held[c][k] EXCEPT !.pendingDeletion = "lost"] \in HeldClaim
    BY HeldUpdates
  <2> QED
    BY <1>2, <2>1 DEF TypeOK, HeldType, JobsType
<1> QED
  BY <1>1, <1>2 DEF ClaimLost

-----------------------------------------------------------------------------
(* A step of one live executor keeps the invariant when it keeps the types. *)

LEMMA StepOfOne ==
  ASSUME TypeInv, NEW c \in up, up' = up,
         StoreType', HeldType', OpType', SpawnType', JobsType', RestType', OthersKeep(c),
         op'[c].pc \in {"acquire", "readBack"} =>
           op'[c].task \in Tasks /\ op'[c].key = KeyOf[op'[c].task],
         op'[c].pc \in {"fenceBeforeRead", "renewReadBack"} => op'[c].key \in Keys
  PROVE  TypeInv'
<1>0. TypeOK'
  BY DEF TypeOK, StoreType, HeldType, OpType, SpawnType, JobsType, RestType
<1>1. DownIsEmpty'
  <2> SUFFICES ASSUME NEW d \in Clusters \ up'
               PROVE  /\ op'[d].pc = "idle"
                      /\ \A k \in Keys : held'[d][k] = NotHeld
                      /\ \A t \in Tasks : spawn'[d][t].pc = "idle"
    BY DEF DownIsEmpty
  <2>1. op'[d] = op[d] /\ held'[d] = held[d] /\ spawn'[d] = spawn[d]
    BY DEF OthersKeep
  <2> QED
    BY <2>1 DEF TypeInv, DownIsEmpty
<1>2. OpShape'
  BY DEF TypeInv, TypeOK, OpShape, OthersKeep
<1> QED
  BY <1>0, <1>1, <1>2 DEF TypeInv

\* The same, for a step that leaves the mutex as it is.
LEMMA StepOfOneSameOp ==
  ASSUME TypeInv, NEW c \in up, up' = up, op' = op,
         StoreType', HeldType', SpawnType', JobsType', RestType',
         \A d \in Clusters \ {c} : held'[d] = held[d] /\ spawn'[d] = spawn[d]
  PROVE  TypeInv'
<1>1. c \in Clusters
  BY DEF TypeInv, TypeOK
<1>2. OpType' /\ OthersKeep(c)
  BY DEF TypeInv, TypeOK, OpType, OthersKeep
<1>3. /\ op'[c].pc \in {"acquire", "readBack"} =>
           op'[c].task \in Tasks /\ op'[c].key = KeyOf[op'[c].task]
      /\ op'[c].pc \in {"fenceBeforeRead", "renewReadBack"} => op'[c].key \in Keys
  BY <1>1 DEF TypeInv, OpShape
<1> QED
  BY <1>2, <1>3, StepOfOne

-----------------------------------------------------------------------------
(* Taking a claim keeps the types.                                          *)

\* The three ways a claim attempt answers the spawn path.
LEMMA AnswerType ==
  ASSUME TypeOK, NEW c \in Clusters, NEW t \in Tasks,
         ClaimFailed(c, t) \/ TookOver(c, t) \/ Acquired(c, t) \/ Conflicted(c, t)
  PROVE  SpawnType' /\ parked' \subseteq Tasks /\ \A d \in Clusters \ {c} : spawn'[d] = spawn[d]
<1>1. /\ parked' = parked \/ parked' = parked \cup {t}
      /\ SetSpawn(c, t, "idle") \/ SetSpawn(c, t, "claimed") \/ SetSpawn(c, t, "conflict")
  BY DEF ClaimFailed, TookOver, Acquired, Conflicted
<1>2. parked' \subseteq Tasks
  BY <1>1 DEF TypeOK
<1> QED
  BY <1>1, <1>2, SetSpawnType

LEMMA StartAcquireType ==
  ASSUME TypeInv, NEW c \in Clusters, NEW t \in Tasks, NEW b \in BOOLEAN, StartAcquire(c, t, b)
  PROVE  /\ OpType' /\ SpawnType' /\ parked' = parked
         /\ \A d \in Clusters \ {c} : op'[d] = op[d] /\ spawn'[d] = spawn[d]
         /\ op'[c].pc = "acquire" /\ op'[c].task = t /\ op'[c].key = KeyOf[t]
<1> DEFINE o == [Idle EXCEPT !.pc = "acquire", !.key = KeyOf[t], !.task = t, !.takeover = b]
<1>1. op' = [op EXCEPT ![c] = o]
  BY DEF StartAcquire
<1>2. o \in Op /\ o.pc = "acquire" /\ o.task = t /\ o.key = KeyOf[t]
  <2>1. Idle \in Op
    BY Numbers DEF Idle, Op
  <2>2. KeyOf[t] \in Keys
    BY ConstantsAssumption
  <2> QED
    BY <2>1, <2>2 DEF Op
<1>3. op \in [Clusters -> Op]
  BY DEF TypeInv, TypeOK
<1>4. OpType' /\ op'[c] = o /\ \A d \in Clusters \ {c} : op'[d] = op[d]
  BY <1>1, <1>2, <1>3 DEF OpType
<1>5. SpawnType' /\ parked' = parked /\ \A d \in Clusters \ {c} : spawn'[d] = spawn[d]
  BY SetSpawnType DEF StartAcquire, TypeInv
<1> QED
  BY <1>2, <1>4, <1>5

LEMMA ClaimAttemptType ==
  ASSUME TypeInv, NEW c \in Clusters, NEW t \in Tasks, ClaimPair(c, t) \/ TakeoverPair(c, t)
  PROVE  TypeInv'
<1>1. c \in up /\ UNCHANGED <<store, held, jobs, stray, doneAge, up, recovered, fenceAge>>
  BY DEF ClaimPair, TakeoverPair
<1>2. StoreType' /\ HeldType' /\ JobsType' /\ \A d \in Clusters : held'[d] = held[d]
  BY <1>1, UnchangedType DEF TypeInv
<1>3. CASE /\ UNCHANGED op
           /\ ClaimFailed(c, t) \/ (SetSpawn(c, t, "conflict") /\ UNCHANGED parked)
  <2>1. SpawnType' /\ parked' \subseteq Tasks /\ \A d \in Clusters \ {c} : spawn'[d] = spawn[d]
    BY <1>3, AnswerType, SetSpawnType DEF TypeInv, TypeOK
  <2>2. RestType'
    BY <1>1, <2>1 DEF RestType, TypeInv, TypeOK
  <2> QED
    BY <1>1, <1>2, <1>3, <2>1, <2>2, StepOfOneSameOp
<1>4. ASSUME NEW b \in BOOLEAN, StartAcquire(c, t, b) PROVE TypeInv'
  <2>1. /\ OpType' /\ SpawnType' /\ parked' = parked
        /\ \A d \in Clusters \ {c} : op'[d] = op[d] /\ spawn'[d] = spawn[d]
        /\ op'[c].pc = "acquire" /\ op'[c].task = t /\ op'[c].key = KeyOf[t]
    BY <1>4, StartAcquireType
  <2>2. RestType'
    BY <1>1, <2>1 DEF RestType, TypeInv, TypeOK
  <2> QED
    BY <1>1, <1>2, <2>1, <2>2, StepOfOne DEF OthersKeep
<1>5. CASE ClaimPair(c, t)
  <2>1. CASE SetSpawn(c, t, "conflict") /\ UNCHANGED <<op, parked>>
    BY <2>1, <1>3
  <2>2. CASE ClaimFailed(c, t) /\ UNCHANGED op
    BY <2>2, <1>3
  <2>3. CASE StartAcquire(c, t, FALSE)
    BY <2>3, <1>4
  <2> QED
    BY <1>5, <2>1, <2>2, <2>3 DEF ClaimPair
<1>6. CASE TakeoverPair(c, t)
  <2>1. CASE ClaimFailed(c, t) /\ UNCHANGED op
    BY <2>1, <1>3
  <2>2. CASE StartAcquire(c, t, TRUE)
    BY <2>2, <1>4
  <2> QED
    BY <1>6, <2>1, <2>2 DEF TakeoverPair
<1> QED
  BY <1>5, <1>6

LEMMA ReadBackOpType ==
  ASSUME TypeInv, NEW c \in Clusters, op[c].pc = "acquire", op' = [op EXCEPT ![c].pc = "readBack"]
  PROVE  /\ OpType' /\ \A d \in Clusters \ {c} : op'[d] = op[d]
         /\ op'[c].pc = "readBack" /\ op'[c].task \in Tasks /\ op'[c].key = KeyOf[op'[c].task]
<1>1. op[c] \in Op /\ op \in [Clusters -> Op]
  BY DEF TypeInv, TypeOK
<1>2. [op[c] EXCEPT !.pc = "readBack"] \in Op
  BY <1>1 DEF Op
<1>3. op[c].task \in Tasks /\ op[c].key = KeyOf[op[c].task]
  BY DEF TypeInv, OpShape
<1> QED
  BY <1>1, <1>2, <1>3 DEF OpType, Op

\* A write of the store for cluster c.
LEMMA WrittenType ==
  ASSUME TypeOK, NEW c \in Clusters, NEW t \in Tasks, NEW token \in Tokens, NEW k \in Keys,
         store' = [store EXCEPT ![k] = Written(c, t, token)]
  PROVE  StoreType'
<1>1. Written(c, t, token) \in Claim
  BY Numbers DEF Written, Claim, Lefts
<1> QED
  BY <1>1 DEF TypeOK, StoreType

\* A new entry of the held set.
LEMMA EntryType ==
  ASSUME TypeOK, NEW c \in Clusters, NEW k \in Keys, NEW h \in HeldClaim,
         held' = [held EXCEPT ![c][k] = h]
  PROVE  HeldType' /\ \A d \in Clusters \ {c} : held'[d] = held[d]
BY DEF TypeOK, HeldType

\* The renew age a new claim starts with: the time its acquire took.
LEMMA RenewAgeType ==
  ASSUME TypeOK, NEW c \in Clusters
  PROVE  AtMost(op[c].age, RenewInterval) \in 0 .. RenewInterval
<1>1. op[c].age \in 0 .. OpTime
  BY DEF TypeOK, Op
<1> QED
  BY <1>1, Numbers DEF AtMost

LEMMA AcquireType ==
  ASSUME TypeInv, NEW c \in Clusters, Acquire(c)
  PROVE  TypeInv'
<1> DEFINE t == op[c].task
           k == op[c].key
<1>1. c \in up /\ op[c].pc = "acquire" /\ UNCHANGED <<jobs, stray, doneAge, up, recovered, fenceAge>>
  BY DEF Acquire
<1>2. t \in Tasks /\ k = KeyOf[t] /\ k \in Keys
  BY <1>1, ConstantsAssumption DEF TypeInv, OpShape
<1>3. JobsType' /\ (parked' \subseteq Tasks => RestType')
  BY <1>1 DEF TypeInv, TypeOK, JobsType, RestType
<1>4. CASE Conflicted(c, t) /\ Finish(c) /\ UNCHANGED <<store, held>>
  <2>1. SpawnType' /\ RestType' /\ \A d \in Clusters \ {c} : spawn'[d] = spawn[d]
    BY <1>2, <1>3, <1>4, AnswerType DEF TypeInv
  <2>2. OpType' /\ op'[c].pc = "idle" /\ \A d \in Clusters \ {c} : op'[d] = op[d]
    BY <1>4, FinishType DEF TypeInv
  <2>3. StoreType' /\ HeldType'
    BY <1>4, UnchangedType DEF TypeInv
  <2> QED
    BY <1>1, <1>3, <1>4, <2>1, <2>2, <2>3, StepOfOne DEF OthersKeep
<1>5. ASSUME NEW token \in Tokens, store' = [store EXCEPT ![k] = Written(c, t, token)],
             held' = [held EXCEPT ![c][k] =
                        NewHeld(t, token, LeaseDuration, AtMost(op[c].age, RenewInterval))],
             Acquired(c, t), Finish(c)
      PROVE  TypeInv'
  <2>1. SpawnType' /\ RestType' /\ \A d \in Clusters \ {c} : spawn'[d] = spawn[d]
    BY <1>2, <1>3, <1>5, AnswerType DEF TypeInv
  <2>2. OpType' /\ op'[c].pc = "idle" /\ \A d \in Clusters \ {c} : op'[d] = op[d]
    BY <1>5, FinishType DEF TypeInv
  <2>3. StoreType'
    BY <1>2, <1>5, WrittenType DEF TypeInv
  <2>4. NewHeld(t, token, LeaseDuration, AtMost(op[c].age, RenewInterval)) \in HeldClaim
    <3>1. LeaseDuration \in Lefts /\ AtMost(op[c].age, RenewInterval) \in 0 .. RenewInterval
      BY RenewAgeType, Numbers DEF TypeInv, Lefts
    <3> QED
      BY <1>2, <3>1, NewHeldType
  <2>5. HeldType' /\ \A d \in Clusters \ {c} : held'[d] = held[d]
    BY <1>2, <1>5, <2>4, EntryType DEF TypeInv
  <2> QED
    BY <1>1, <1>3, <2>1, <2>2, <2>3, <2>5, StepOfOne DEF OthersKeep
<1>6. CASE /\ op' = [op EXCEPT ![c].pc = "readBack"] /\ UNCHANGED <<held, spawn, parked>>
           /\ \/ UNCHANGED store
              \/ \E token \in Tokens : store' = [store EXCEPT ![k] = Written(c, t, token)]
  <2>1. /\ OpType' /\ \A d \in Clusters \ {c} : op'[d] = op[d]
        /\ op'[c].pc = "readBack" /\ op'[c].task \in Tasks /\ op'[c].key = KeyOf[op'[c].task]
    BY <1>1, <1>6, ReadBackOpType
  <2>2. HeldType' /\ SpawnType' /\ RestType'
    BY <1>1, <1>6, UnchangedType DEF TypeInv
  <2>3. StoreType'
    BY <1>2, <1>6, UnchangedType, WrittenType DEF TypeInv
  <2> QED
    BY <1>1, <1>3, <1>6, <2>1, <2>2, <2>3, StepOfOne DEF OthersKeep
<1> QED
  BY <1>4, <1>5, <1>6 DEF Acquire

LEMMA ReadBackRecoveryType ==
  ASSUME TypeInv, NEW c \in Clusters, ReadBackRecovery(c)
  PROVE  TypeInv'
<1> DEFINE t == op[c].task
           k == op[c].key
<1>1. /\ c \in up /\ op[c].pc = "readBack" /\ Finish(c)
      /\ UNCHANGED <<store, jobs, stray, doneAge, up, recovered, fenceAge>>
  BY DEF ReadBackRecovery
<1>2. t \in Tasks /\ k \in Keys
  BY <1>1, ConstantsAssumption DEF TypeInv, OpShape
<1>3. Acquired(c, t) \/ ClaimFailed(c, t)
  BY DEF ReadBackRecovery
<1>4. SpawnType' /\ parked' \subseteq Tasks /\ \A d \in Clusters \ {c} : spawn'[d] = spawn[d]
  BY <1>2, <1>3, AnswerType DEF TypeInv
<1>5. RestType' /\ StoreType' /\ JobsType'
  BY <1>1, <1>4 DEF TypeInv, TypeOK, RestType, StoreType, JobsType
<1>6. OpType' /\ op'[c].pc = "idle" /\ \A d \in Clusters \ {c} : op'[d] = op[d]
  BY <1>1, FinishType DEF TypeInv
<1>7. HeldType' /\ \A d \in Clusters \ {c} : held'[d] = held[d]
  <2>1. CASE UNCHANGED held
    BY <2>1, UnchangedType DEF TypeInv
  <2>2. CASE /\ HeldByUs(c, k)
             /\ held' = [held EXCEPT ![c][k] =
                  NewHeld(t, store[k].token, store[k].left, AtMost(op[c].age, RenewInterval))]
    <3>1. store[k] \in Claim
      BY <1>2, <2>2 DEF HeldByUs, TypeInv, TypeOK
    <3>2. store[k].token \in Tokens /\ store[k].left \in Lefts
      BY <3>1 DEF Claim
    <3>3. AtMost(op[c].age, RenewInterval) \in 0 .. RenewInterval
      BY RenewAgeType DEF TypeInv
    <3> QED
      BY <1>2, <2>2, <3>2, <3>3, NewHeldType, EntryType DEF TypeInv
  <2> QED
    BY <2>1, <2>2 DEF ReadBackRecovery
<1> QED
  BY <1>1, <1>4, <1>5, <1>6, <1>7, StepOfOne DEF OthersKeep

-----------------------------------------------------------------------------
(* Jobs and the releases outside the tick keep the types.                   *)

LEMMA SpawnJobType ==
  ASSUME TypeInv, NEW c \in Clusters, NEW t \in Tasks, SpawnJob(c, t)
  PROVE  TypeInv'
<1>1. /\ c \in up /\ UNCHANGED <<store, held, op, stray, doneAge, parked, up, recovered, fenceAge>>
      /\ SetSpawn(c, t, "idle") \/ SetSpawn(c, t, "failed")
      /\ jobs' = jobs \/ jobs' = [jobs EXCEPT ![c] = @ \cup {t}]
  BY DEF SpawnJob
<1>2. SpawnType' /\ \A d \in Clusters \ {c} : spawn'[d] = spawn[d]
  BY <1>1, SetSpawnType DEF TypeInv
<1>3. JobsType'
  <2>1. jobs \in [Clusters -> SUBSET Tasks] /\ stray' \in [Clusters -> SUBSET Tasks]
    BY <1>1 DEF TypeInv, TypeOK
  <2>2. jobs[c] \cup {t} \in SUBSET Tasks
    BY <2>1
  <2>3. jobs' \in [Clusters -> SUBSET Tasks]
    BY <1>1, <2>1, <2>2
  <2> QED
    BY <2>1, <2>3 DEF JobsType
<1>4. StoreType' /\ HeldType' /\ RestType'
  BY <1>1, UnchangedType DEF TypeInv
<1> QED
  BY <1>1, <1>2, <1>3, <1>4, StepOfOneSameOp

LEMMA ReleaseType ==
  ASSUME TypeInv, NEW c \in Clusters, NEW k \in Keys, Holds(c, k), Release(c, k)
  PROVE  StoreType' /\ HeldType' /\ \A d \in Clusters \ {c} : held'[d] = held[d]
<1>1. {k} \in SUBSET HeldKeys(c)
  BY DEF HeldKeys
<1>2. CASE UNCHANGED <<store, held>>
  BY <1>2, UnchangedType DEF TypeInv
<1>3. CASE ReleaseLocked(c, {k})
  BY <1>1, <1>3, ReleaseLockedType DEF TypeInv
<1> QED
  BY <1>2, <1>3 DEF Release

LEMMA ReleaseFailedSpawnType ==
  ASSUME TypeInv, NEW c \in Clusters, NEW t \in Tasks, ReleaseFailedSpawn(c, t)
  PROVE  TypeInv'
<1>1. /\ c \in up /\ UNCHANGED <<op, jobs, stray, doneAge, parked, up, recovered, fenceAge>>
      /\ SetSpawn(c, t, "idle")
  BY DEF ReleaseFailedSpawn
<1>2. StoreType' /\ HeldType' /\ \A d \in Clusters \ {c} : held'[d] = held[d]
  <2>1. KeyOf[t] \in Keys
    BY ConstantsAssumption
  <2>2. CASE UNCHANGED <<store, held>>
    BY <2>2, UnchangedType DEF TypeInv
  <2>3. CASE Holds(c, KeyOf[t]) /\ Release(c, KeyOf[t])
    BY <2>1, <2>3, ReleaseType
  <2> QED
    BY <2>2, <2>3 DEF ReleaseFailedSpawn
<1>3. SpawnType' /\ \A d \in Clusters \ {c} : spawn'[d] = spawn[d]
  BY <1>1, SetSpawnType DEF TypeInv
<1>4. JobsType' /\ RestType'
  BY <1>1, UnchangedType DEF TypeInv
<1> QED
  BY <1>1, <1>2, <1>3, <1>4, StepOfOneSameOp

LEMMA ReleaseTaskClaimType ==
  ASSUME TypeInv, NEW c \in Clusters, NEW k \in Keys,
         ReleaseTaskClaim(c, k) \/ ReleaseAfterSuccess(c, k)
  PROVE  TypeInv'
<1>1. /\ c \in up /\ Holds(c, k)
      /\ UNCHANGED <<op, spawn, jobs, stray, doneAge, parked, up, recovered, fenceAge>>
  BY DEF ReleaseTaskClaim, ReleaseAfterSuccess
<1>2. StoreType' /\ HeldType' /\ \A d \in Clusters \ {c} : held'[d] = held[d]
  <2>1. CASE Release(c, k)
    BY <1>1, <2>1, ReleaseType
  <2>2. ASSUME ReleaseAfterSuccess(c, k), ~Release(c, k)
        PROVE  StoreType' /\ HeldType' /\ \A d \in Clusters \ {c} : held'[d] = held[d]
    <3> DEFINE h == held[c][k]
               holdLeft == SuccessGracePeriod - doneAge[c][h.task]
               newHold == AtLeast(holdLeft, h.hold)
    <3>1. /\ holdLeft > 0 /\ held' = [held EXCEPT ![c][k].hold = newHold] /\ UNCHANGED store
          /\ doneAge[c][h.task] # None
      BY <2>2 DEF ReleaseAfterSuccess
    <3>2. h \in HeldClaim
      BY <1>1 DEF TypeInv, TypeOK, Holds
    <3>3. h.task \in Tasks /\ h.hold \in None .. SuccessGracePeriod
      BY <3>2 DEF HeldClaim
    <3>4. doneAge[c][h.task] \in None .. SuccessGracePeriod
      BY <3>3 DEF TypeInv, TypeOK
    <3>5. newHold \in None .. SuccessGracePeriod
      BY <3>1, <3>3, <3>4, Numbers DEF AtLeast, None
    <3> DEFINE g == [h EXCEPT !.hold = newHold]
    <3>6. held' = [held EXCEPT ![c][k] = g]
      BY <3>1
    <3>7. g \in HeldClaim
      <4> HIDE DEF newHold, h
      <4> QED
        BY <3>2, <3>5 DEF HeldClaim
    <3> HIDE DEF g
    <3>8. HeldType' /\ \A d \in Clusters \ {c} : held'[d] = held[d]
      BY <3>6, <3>7, EntryType DEF TypeInv
    <3> QED
      BY <3>1, <3>8, UnchangedType DEF TypeInv
  <2> QED
    BY <2>1, <2>2 DEF ReleaseTaskClaim
<1>3. SpawnType' /\ JobsType' /\ RestType' /\ \A d \in Clusters : spawn'[d] = spawn[d]
  BY <1>1, UnchangedType DEF TypeInv
<1> QED
  BY <1>1, <1>2, <1>3, StepOfOneSameOp

\* A Job may end while its executor is down.
LEMMA JobEndsType ==
  ASSUME TypeInv, NEW c \in Clusters, NEW t \in Tasks, JobEnds(c, t)
  PROVE  TypeInv'
<1>1. /\ jobs' = [jobs EXCEPT ![c] = @ \ {t}] /\ stray' = [stray EXCEPT ![c] = @ \ {t}]
      /\ doneAge' = doneAge \/ doneAge' = [doneAge EXCEPT ![c][t] = 0]
      /\ UNCHANGED <<store, held, op, spawn, parked, up, recovered, fenceAge>>
  BY DEF JobEnds
<1>2. JobsType'
  BY <1>1 DEF JobsType, TypeInv, TypeOK
<1>3. 0 \in None .. SuccessGracePeriod
  BY Numbers DEF None
<1> DEFINE Ages == None .. SuccessGracePeriod
<1>4. doneAge' \in [Clusters -> [Tasks -> Ages]]
  <2>1. doneAge \in [Clusters -> [Tasks -> Ages]] /\ 0 \in Ages
    BY <1>3 DEF TypeInv, TypeOK
  <2> HIDE DEF Ages
  <2>2. [doneAge[c] EXCEPT ![t] = 0] \in [Tasks -> Ages]
    BY <2>1
  <2>3. CASE doneAge' = [doneAge EXCEPT ![c][t] = 0]
    BY <2>1, <2>2, <2>3
  <2> QED
    BY <1>1, <2>1, <2>3
<1>5. TypeOK'
  BY <1>1, <1>2, <1>4 DEF TypeInv, TypeOK, JobsType
<1>6. DownIsEmpty' /\ OpShape'
  BY <1>1 DEF TypeInv, DownIsEmpty, OpShape
<1> QED
  BY <1>5, <1>6 DEF TypeInv

-----------------------------------------------------------------------------
(* The passes of a tick keep the types.                                     *)

\* The steps of a pass that ends by going to another pass or by ending the tick.
LEMMA PassType ==
  ASSUME TypeInv, NEW c \in up, UNCHANGED <<spawn, up>>,
         StoreType', HeldType', JobsType', RestType', OpType',
         \A d \in Clusters \ {c} : held'[d] = held[d] /\ op'[d] = op[d],
         op'[c].pc \in {"idle", "fence", "releases", "holds", "jobless", "recheck", "renew"}
  PROVE  TypeInv'
<1>1. SpawnType' /\ OthersKeep(c)
  BY UnchangedType DEF TypeInv, OthersKeep
<1> QED
  BY <1>1, StepOfOne

LEMMA RetryPendingDeletionsType ==
  ASSUME TypeInv, NEW c \in Clusters, RetryPendingDeletions(c)
  PROVE  TypeInv'
<1>1. /\ c \in up /\ UNCHANGED <<spawn, doneAge, parked, up, recovered, fenceAge>>
      /\ GoTo(c, "fence")
      /\ \E S, R : /\ BestEffortRelease(c, R) /\ held' = Dropped(c, S)
                    /\ DeleteJobs(c, HeldTasks(c, S))
  BY DEF RetryPendingDeletions
<1>2. StoreType' /\ HeldType' /\ JobsType' /\ \A d \in Clusters \ {c} : held'[d] = held[d]
  BY <1>1, BestEffortReleaseType, DroppedType, DeleteJobsType DEF TypeInv
<1>3. OpType' /\ op'[c].pc \in {"idle", "fence"} /\ \A d \in Clusters \ {c} : op'[d] = op[d]
  BY <1>1, GoToType DEF TypeInv
<1>4. RestType'
  BY <1>1, UnchangedType DEF TypeInv
<1> QED
  BY <1>1, <1>2, <1>3, <1>4, PassType

LEMMA EvaluateFenceType ==
  ASSUME TypeInv, NEW c \in Clusters, EvaluateFence(c)
  PROVE  TypeInv'
<1>1. /\ c \in up /\ UNCHANGED <<spawn, doneAge, parked, up, recovered>> /\ Fence(c)
      /\ fenceAge' = [fenceAge EXCEPT ![c] = 0]
      /\ op[c].pc \in {"fence", "fenceBeforeRead", "fenceAfterRenew"}
  BY DEF EvaluateFence
<1>2. StoreType' /\ HeldType' /\ JobsType' /\ \A d \in Clusters \ {c} : held'[d] = held[d]
  BY <1>1, FenceType DEF TypeInv
<1>3. RestType'
  BY <1>1, Numbers DEF TypeInv, TypeOK, RestType
<1>4. CASE op[c].pc = "fence"
  <2>1. GoTo(c, "releases")
    BY <1>4 DEF EvaluateFence
  <2>2. OpType' /\ op'[c].pc \in {"idle", "releases"} /\ \A d \in Clusters \ {c} : op'[d] = op[d]
    BY <2>1, GoToType DEF TypeInv
  <2> QED
    BY <1>1, <1>2, <1>3, <2>2, PassType
<1>5. CASE op[c].pc = "fenceAfterRenew"
  <2>1. RenewPass(c, op[c].todo)
    BY <1>5 DEF EvaluateFence
  <2>2. op[c].todo \in SUBSET Keys
    BY DEF TypeInv, TypeOK, Op
  <2>3. OpType' /\ op'[c].pc \in {"idle", "renew"} /\ \A d \in Clusters \ {c} : op'[d] = op[d]
    BY <2>1, <2>2, RenewPassType DEF TypeInv
  <2> QED
    BY <1>1, <1>2, <1>3, <2>3, PassType
<1>6. CASE op[c].pc = "fenceBeforeRead"
  <2>1. op' = [op EXCEPT ![c].pc = "renewReadBack"]
    BY <1>6 DEF EvaluateFence
  <2>2. op \in [Clusters -> Op] /\ op[c].key \in Keys
    BY <1>6 DEF TypeInv, TypeOK, OpShape
  <2>3. [op[c] EXCEPT !.pc = "renewReadBack"] \in Op
    BY <2>2 DEF Op, TickPhases
  <2>4. /\ OpType' /\ \A d \in Clusters \ {c} : op'[d] = op[d]
        /\ op'[c].pc = "renewReadBack" /\ op'[c].key \in Keys
    BY <2>1, <2>2, <2>3 DEF OpType, Op
  <2>5. SpawnType' /\ OthersKeep(c)
    BY <1>1, <1>2, <2>4, UnchangedType DEF TypeInv, OthersKeep
  <2> QED
    BY <1>1, <1>2, <1>3, <2>4, <2>5, StepOfOne
<1> QED
  BY <1>1, <1>4, <1>5, <1>6

LEMMA ReleasePassesType ==
  ASSUME TypeInv, NEW c \in Clusters, RetryPendingReleases(c) \/ ReleaseExpiredHolds(c)
  PROVE  TypeInv'
<1>1. c \in up /\ UNCHANGED <<spawn, jobs, stray, doneAge, parked, up, recovered, fenceAge>>
  BY DEF RetryPendingReleases, ReleaseExpiredHolds
<1>2. JobsType' /\ RestType'
  BY <1>1, UnchangedType DEF TypeInv
<1>3. CASE RetryPendingReleases(c)
  <2>1. StoreType' /\ HeldType' /\ \A d \in Clusters \ {c} : held'[d] = held[d]
    <3>1. {k \in HeldKeys(c) : held[c][k].releasePending} \in SUBSET HeldKeys(c)
      OBVIOUS
    <3> QED
      BY <1>3, <3>1, ReleaseRefsType DEF RetryPendingReleases, TypeInv
  <2>2. OpType' /\ op'[c].pc \in {"idle", "holds"} /\ \A d \in Clusters \ {c} : op'[d] = op[d]
    BY <1>3, GoToType DEF RetryPendingReleases, TypeInv
  <2> QED
    BY <1>1, <1>2, <2>1, <2>2, PassType
<1>4. CASE ReleaseExpiredHolds(c)
  <2>1. StoreType' /\ HeldType' /\ \A d \in Clusters \ {c} : held'[d] = held[d]
    <3>1. {k \in HeldKeys(c) : held[c][k].hold = 0} \in SUBSET HeldKeys(c)
      OBVIOUS
    <3> QED
      BY <1>4, <3>1, ReleaseLockedType DEF ReleaseExpiredHolds, TypeInv
  <2>2. OpType' /\ op'[c].pc \in {"idle", "jobless"} /\ \A d \in Clusters \ {c} : op'[d] = op[d]
    BY <1>4, GoToType DEF ReleaseExpiredHolds, TypeInv
  <2> QED
    BY <1>1, <1>2, <2>1, <2>2, PassType
<1> QED
  BY <1>3, <1>4

\* The held set after a pass that rewrites the claims of one executor.
LEMMA RewrittenType ==
  ASSUME TypeOK, NEW c \in Clusters, NEW f \in [Keys -> HeldClaim \cup {NotHeld}],
         held' = [held EXCEPT ![c] = f]
  PROVE  HeldType' /\ \A d \in Clusters \ {c} : held'[d] = held[d]
BY DEF TypeOK, HeldType

LEMMA JoblessCheckedType ==
  ASSUME TypeOK, NEW c \in Clusters, NEW k \in HeldKeys(c), NEW unknown
  PROVE  JoblessChecked(c, k, unknown) \in HeldClaim
<1> DEFINE h == held[c][k]
           since == IF k \in unknown THEN h.jobless
                    ELSE IF IsJobRunning(c, h.task) THEN None ELSE AtLeast(h.jobless, 0)
<1>1. h \in HeldClaim
  BY DEF TypeOK, HeldKeys, Holds
<1>2. since \in None .. JoblessGrace /\ 0 \in None .. CheckAgeCap
  <2>1. h.jobless \in None .. JoblessGrace
    BY <1>1 DEF HeldClaim
  <2> QED
    BY <2>1, Numbers DEF AtLeast, None
<1>3. JoblessChecked(c, k, unknown) = [h EXCEPT !.checkAge = 0, !.jobless = since]
  BY DEF JoblessChecked
<1> HIDE DEF since, h
<1>4. [h EXCEPT !.checkAge = 0, !.jobless = since] \in HeldClaim
  BY <1>1, <1>2 DEF HeldClaim
<1> QED
  BY <1>3, <1>4

LEMMA ReleaseJoblessClaimsType ==
  ASSUME TypeInv, NEW c \in Clusters, ReleaseJoblessClaims(c)
  PROVE  TypeInv'
<1>1. /\ c \in up /\ UNCHANGED <<spawn, jobs, stray, doneAge, parked, up, recovered, fenceAge>>
      /\ GoTo(c, "recheck")
  BY DEF ReleaseJoblessClaims
<1> DEFINE Gone(checked, unknown) ==
             {k \in checked \ unknown : JoblessChecked(c, k, unknown).jobless >= JoblessGrace}
           After(checked, unknown, fail, lost) ==
             [k \in Keys |->
               IF k \in Gone(checked, unknown) \ (lost \cup fail) THEN NotHeld
               ELSE IF k \in checked
               THEN [JoblessChecked(c, k, unknown)
                       EXCEPT !.releasePending = (k \in Gone(checked, unknown))]
               ELSE held[c][k]]
<1>2. PICK checked \in SUBSET HeldKeys(c) :
        \E unknown \in MayInTick(c, "checkFails", checked) :
        \E fail \in MayInTick(c, "releaseFails", Gone(checked, unknown)) :
        \E lost \in May("releaseLost", Gone(checked, unknown) \ fail) :
          /\ CheckedInPass(c, checked)
          /\ store' = Freed(c, Gone(checked, unknown) \ fail)
          /\ held' = [held EXCEPT ![c] = After(checked, unknown, fail, lost)]
  BY DEF ReleaseJoblessClaims
<1>3. PICK unknown, fail, lost :
        /\ store' = Freed(c, Gone(checked, unknown) \ fail)
        /\ held' = [held EXCEPT ![c] = After(checked, unknown, fail, lost)]
  <2> HIDE DEF Gone, After
  <2> QED
    BY <1>2
<1>4. StoreType'
  BY <1>3, FreedType DEF StoreType, TypeInv
<1> DEFINE f == After(checked, unknown, fail, lost)
<1>5. f \in [Keys -> HeldClaim \cup {NotHeld}]
  <2> SUFFICES ASSUME NEW k \in Keys PROVE f[k] \in HeldClaim \cup {NotHeld}
    OBVIOUS
  <2>1. CASE k \in checked
    <3> DEFINE h == JoblessChecked(c, k, unknown)
               b == k \in Gone(checked, unknown)
    <3>1. h \in HeldClaim
      BY <2>1, JoblessCheckedType DEF TypeInv
    <3>2. f[k] = NotHeld \/ f[k] = [h EXCEPT !.releasePending = b]
      BY <2>1
    <3> HIDE DEF h, f
    <3>3. b \in BOOLEAN
      OBVIOUS
    <3> HIDE DEF b
    <3>4. [h EXCEPT !.releasePending = b] \in HeldClaim
      BY <3>1, <3>3 DEF HeldClaim
    <3> QED
      BY <3>2, <3>4
  <2>2. CASE k \notin checked
    BY <2>2 DEF TypeInv, TypeOK
  <2> QED
    BY <2>1, <2>2
<1>6. held' = [held EXCEPT ![c] = f]
  BY <1>3
<1> HIDE DEF f
<1>7. HeldType' /\ \A d \in Clusters \ {c} : held'[d] = held[d]
  BY <1>5, <1>6, RewrittenType DEF TypeInv
<1>8. OpType' /\ op'[c].pc \in {"idle", "recheck"} /\ \A d \in Clusters \ {c} : op'[d] = op[d]
  BY <1>1, GoToType DEF TypeInv
<1>9. JobsType' /\ RestType'
  BY <1>1, UnchangedType DEF TypeInv
<1> QED
  BY <1>1, <1>4, <1>7, <1>8, <1>9, PassType

LEMMA RecheckRunningType ==
  ASSUME TypeInv, NEW c \in Clusters, RecheckRunning(c)
  PROVE  TypeInv'
<1> DEFINE asked == {k \in HeldKeys(c) : held[c][k].needsRunningCheck}
<1>1. /\ c \in up /\ UNCHANGED <<spawn, jobs, stray, doneAge, parked, up, recovered, fenceAge>>
      /\ RenewPass(c, {k \in Keys : held'[c][k] # NotHeld})
  BY DEF RecheckRunning
<1>2. PICK unknown \in May("checkFails", asked) :
      LET running == {k \in asked \ unknown : IsJobRunning(c, held[c][k].task)}
          gone == asked \ (unknown \cup running) IN
      \E fail \in MayInTick(c, "releaseFails", gone) : \E lost \in May("releaseLost", gone \ fail) :
        /\ store' = Freed(c, gone \ fail)
        /\ held' = [held EXCEPT ![c] = [k \in Keys |->
             IF k \in running THEN [@[k] EXCEPT !.needsRunningCheck = FALSE]
             ELSE IF k \in lost \cup fail THEN [@[k] EXCEPT !.releasePending = TRUE]
             ELSE IF k \in gone THEN NotHeld ELSE @[k]]]
  BY DEF RecheckRunning
<1>3. PICK running \in SUBSET asked, gone \in SUBSET asked, pending \in SUBSET asked, S \in SUBSET asked :
        /\ store' = Freed(c, S)
        /\ held' = [held EXCEPT ![c] = [k \in Keys |->
             IF k \in running THEN [@[k] EXCEPT !.needsRunningCheck = FALSE]
             ELSE IF k \in pending THEN [@[k] EXCEPT !.releasePending = TRUE]
             ELSE IF k \in gone THEN NotHeld ELSE @[k]]]
  <2> DEFINE running == {k \in asked \ unknown : IsJobRunning(c, held[c][k].task)}
             gone == asked \ (unknown \cup running)
  <2>1. running \in SUBSET asked /\ gone \in SUBSET asked
    OBVIOUS
  <2>2. PICK fail \in MayInTick(c, "releaseFails", gone) : \E lost \in May("releaseLost", gone \ fail) :
        /\ store' = Freed(c, gone \ fail)
        /\ held' = [held EXCEPT ![c] = [k \in Keys |->
             IF k \in running THEN [@[k] EXCEPT !.needsRunningCheck = FALSE]
             ELSE IF k \in lost \cup fail THEN [@[k] EXCEPT !.releasePending = TRUE]
             ELSE IF k \in gone THEN NotHeld ELSE @[k]]]
    BY <1>2
  <2> HIDE DEF running, gone
  <2>3. PICK lost \in May("releaseLost", gone \ fail) :
        /\ store' = Freed(c, gone \ fail)
        /\ held' = [held EXCEPT ![c] = [k \in Keys |->
             IF k \in running THEN [@[k] EXCEPT !.needsRunningCheck = FALSE]
             ELSE IF k \in lost \cup fail THEN [@[k] EXCEPT !.releasePending = TRUE]
             ELSE IF k \in gone THEN NotHeld ELSE @[k]]]
    BY <2>2
  <2>4. fail \subseteq gone /\ lost \subseteq gone
    BY <2>2, <2>3 DEF May, MayInTick
  <2>5. lost \cup fail \in SUBSET asked /\ gone \ fail \in SUBSET asked
    BY <2>1, <2>4
  <2> HIDE DEF asked
  <2> QED
    BY <2>1, <2>3, <2>5
<1>4. StoreType'
  BY <1>3, FreedType DEF StoreType, TypeInv
<1>5. \A k \in asked : /\ [held[c][k] EXCEPT !.needsRunningCheck = FALSE] \in HeldClaim
                       /\ [held[c][k] EXCEPT !.releasePending = TRUE] \in HeldClaim
  <2> SUFFICES ASSUME NEW k \in asked
               PROVE  /\ [held[c][k] EXCEPT !.needsRunningCheck = FALSE] \in HeldClaim
                      /\ [held[c][k] EXCEPT !.releasePending = TRUE] \in HeldClaim
    OBVIOUS
  <2> DEFINE h == held[c][k]
  <2>1. h \in HeldClaim
    BY DEF TypeInv, TypeOK, HeldKeys, Holds
  <2> HIDE DEF h
  <2>2. /\ [h EXCEPT !.needsRunningCheck = FALSE] \in HeldClaim
        /\ [h EXCEPT !.releasePending = TRUE] \in HeldClaim
    BY <2>1 DEF HeldClaim
  <2> QED
    BY <2>2 DEF h
<1> DEFINE f == [k \in Keys |->
                  IF k \in running THEN [held[c][k] EXCEPT !.needsRunningCheck = FALSE]
                  ELSE IF k \in pending THEN [held[c][k] EXCEPT !.releasePending = TRUE]
                  ELSE IF k \in gone THEN NotHeld ELSE held[c][k]]
<1>6. f \in [Keys -> HeldClaim \cup {NotHeld}] /\ held' = [held EXCEPT ![c] = f]
  <2>1. \A k \in Keys : held[c][k] \in HeldClaim \cup {NotHeld}
    BY DEF TypeInv, TypeOK
  <2> HIDE DEF asked
  <2> QED
    BY <1>3, <1>5, <2>1
<1> HIDE DEF f
<1>7. HeldType' /\ \A d \in Clusters \ {c} : held'[d] = held[d]
  BY <1>6, RewrittenType DEF TypeInv
<1>8. OpType' /\ op'[c].pc \in {"idle", "renew"} /\ \A d \in Clusters \ {c} : op'[d] = op[d]
  BY <1>1, RenewPassType DEF TypeInv
<1>9. JobsType' /\ RestType'
  BY <1>1, UnchangedType DEF TypeInv
<1> QED
  BY <1>1, <1>4, <1>7, <1>8, <1>9, PassType

LEMMA SkipRenewType ==
  ASSUME TypeInv, NEW c \in Clusters, SkipRenew(c)
  PROVE  TypeInv'
<1>1. PICK k \in op[c].todo : RenewPass(c, op[c].todo \ {k})
  BY DEF SkipRenew
<1>2. op[c].todo \ {k} \in SUBSET Keys
  BY DEF TypeInv, TypeOK, Op
<1>3. OpType' /\ op'[c].pc \in {"idle", "renew"} /\ \A d \in Clusters \ {c} : op'[d] = op[d]
  BY <1>1, <1>2, RenewPassType DEF TypeInv
<1>4. c \in up /\ UNCHANGED <<store, held, spawn, jobs, stray, doneAge, parked, up, recovered, fenceAge>>
  BY DEF SkipRenew
<1>5. StoreType' /\ HeldType' /\ JobsType' /\ RestType'
  BY <1>4, UnchangedType DEF TypeInv
<1> QED
  BY <1>3, <1>4, <1>5, PassType

LEMMA RenewOpType ==
  ASSUME TypeOK, NEW c \in Clusters, NEW k \in Keys, NEW pc \in TickPhases, RenewGoTo(c, k, pc)
  PROVE  /\ OpType' /\ \A d \in Clusters \ {c} : op'[d] = op[d]
         /\ op'[c].pc = pc /\ op'[c].key = k
<1> DEFINE o == [Idle EXCEPT !.pc = pc, !.key = k, !.todo = op[c].todo \ {k}, !.age = op[c].age]
<1>1. op \in [Clusters -> Op] /\ op[c] \in Op
  BY DEF TypeOK
<1>2. op[c].age \in 0 .. OpTime /\ op[c].todo \ {k} \in SUBSET Keys
  BY <1>1 DEF Op
<1>3. Idle \in Op
  BY Numbers DEF Idle, Op
<1>4. o \in Op /\ o.pc = pc /\ o.key = k
  BY <1>2, <1>3 DEF Op
<1>5. op' = [op EXCEPT ![c] = o]
  BY DEF RenewGoTo
<1> HIDE DEF o
<1> QED
  BY <1>1, <1>4, <1>5 DEF OpType

LEMMA RenewedType ==
  ASSUME NEW h \in HeldClaim, NEW token \in Tokens
  PROVE  RenewAsked(h) \in HeldClaim /\ Renewed(h, token) \in HeldClaim
<1>1. LeaseDuration \in Lefts /\ 0 \in 0 .. RenewInterval
  BY Numbers DEF Lefts
<1>2. RenewAsked(h) \in HeldClaim
  BY <1>1 DEF RenewAsked, HeldClaim
<1>3. Renewed(h, token) \in HeldClaim
  <2> DEFINE a == RenewAsked(h)
  <2>1. a \in HeldClaim
    BY <1>2
  <2>2. Renewed(h, token) = [a EXCEPT !.token = token, !.left = LeaseDuration]
    BY DEF Renewed
  <2> HIDE DEF a
  <2> QED
    BY <1>1, <2>1, <2>2 DEF HeldClaim
<1> QED
  BY <1>2, <1>3

LEMMA RenewClaimType ==
  ASSUME TypeInv, NEW c \in Clusters, RenewClaim(c)
  PROVE  TypeInv'
<1>1. c \in up /\ UNCHANGED <<spawn, doneAge, parked, up, recovered, fenceAge>>
  BY DEF RenewClaim
<1>2. PICK k \in op[c].todo :
        Renewable(c, k) /\ (RenewLands(c, k) \/ RenewRefused(c, k) \/ RenewFails(c, k))
  BY DEF RenewClaim
<1>3. k \in Keys
  BY DEF TypeInv, TypeOK, Op
<1>4. Holds(c, k) /\ held[c][k] \in HeldClaim
  BY <1>2, <1>3 DEF Renewable, Holds, TypeInv, TypeOK
<1>5. held[c][k].task \in Tasks
  BY <1>4 DEF HeldClaim
<1>6. ASSUME NEW h \in HeldClaim, held' = [held EXCEPT ![c][k] = h]
      PROVE  HeldType' /\ \A d \in Clusters \ {c} : held'[d] = held[d]
  BY <1>3, <1>6, EntryType DEF TypeInv
<1>7. StoreType' /\ HeldType' /\ JobsType' /\ \A d \in Clusters \ {c} : held'[d] = held[d]
  <2>1. CASE RenewLands(c, k)
    <3>1. PICK token \in Tokens :
            /\ store' = [store EXCEPT ![k] = Written(c, held[c][k].task, token)]
            /\ UNCHANGED <<jobs, stray>>
            /\ \/ held' = [held EXCEPT ![c][k] = Renewed(held[c][k], token)]
               \/ held' = [held EXCEPT ![c][k] = RenewAsked(held[c][k])]
      BY <2>1 DEF RenewLands
    <3>2. StoreType' /\ JobsType'
      BY <1>3, <1>5, <3>1, WrittenType, UnchangedType DEF TypeInv
    <3>3. RenewAsked(held[c][k]) \in HeldClaim /\ Renewed(held[c][k], token) \in HeldClaim
      BY <1>4, RenewedType
    <3> QED
      BY <1>6, <3>1, <3>2, <3>3
  <2>2. CASE RenewRefused(c, k)
    BY <1>3, <1>4, <2>2, ClaimLostType, UnchangedType DEF TypeInv, RenewRefused
  <2>3. CASE RenewFails(c, k)
    <3>1. RenewAsked(held[c][k]) \in HeldClaim
      <4>1. held[c][k].token \in Tokens
        BY <1>4 DEF HeldClaim
      <4> QED
        BY <1>4, <4>1, RenewedType
    <3>2. held' = [held EXCEPT ![c][k] = RenewAsked(held[c][k])] /\ UNCHANGED <<store, jobs, stray>>
      BY <2>3 DEF RenewFails
    <3> QED
      BY <1>6, <3>1, <3>2, UnchangedType DEF TypeInv
  <2> QED
    BY <1>2, <2>1, <2>2, <2>3
<1>8. /\ OpType' /\ \A d \in Clusters \ {c} : op'[d] = op[d]
      /\ op'[c].pc \in {"fenceAfterRenew", "fenceBeforeRead"} /\ op'[c].key = k
  <2>1. "fenceAfterRenew" \in TickPhases /\ "fenceBeforeRead" \in TickPhases
    BY DEF TickPhases
  <2>2. RenewGoTo(c, k, "fenceAfterRenew") \/ RenewGoTo(c, k, "fenceBeforeRead")
    BY <1>2 DEF RenewLands, RenewRefused, RenewFails
  <2> QED
    BY <1>3, <2>1, <2>2, RenewOpType DEF TypeInv
<1>9. SpawnType' /\ RestType' /\ OthersKeep(c)
  BY <1>1, <1>7, <1>8, UnchangedType DEF TypeInv, OthersKeep
<1> QED
  BY <1>1, <1>3, <1>7, <1>8, <1>9, StepOfOne

LEMMA RenewReadBackType ==
  ASSUME TypeInv, NEW c \in Clusters, RenewReadBack(c)
  PROVE  TypeInv'
<1> DEFINE k == op[c].key
           h == held[c][k]
<1>1. /\ c \in up /\ op[c].pc = "renewReadBack" /\ op' = [op EXCEPT ![c].pc = "fenceAfterRenew"]
      /\ UNCHANGED <<store, spawn, doneAge, parked, up, recovered, fenceAge>>
  BY DEF RenewReadBack
<1>2. k \in Keys
  BY <1>1 DEF TypeInv, OpShape
<1>3. /\ OpType' /\ \A d \in Clusters \ {c} : op'[d] = op[d]
      /\ op'[c].pc = "fenceAfterRenew"
  <2>1. op \in [Clusters -> Op] /\ op[c] \in Op
    BY DEF TypeInv, TypeOK
  <2>2. [op[c] EXCEPT !.pc = "fenceAfterRenew"] \in Op
    BY <2>1 DEF Op, TickPhases
  <2> QED
    BY <1>1, <2>1, <2>2 DEF OpType, Op
<1>4. HeldType' /\ JobsType' /\ \A d \in Clusters \ {c} : held'[d] = held[d]
  <2>1. CASE UNCHANGED <<held, jobs, stray>>
    BY <2>1, UnchangedType DEF TypeInv
  <2>2. CASE /\ Holds(c, k) /\ HeldByUs(c, k)
             /\ held' = [held EXCEPT ![c][k] =
                  [h EXCEPT !.token = store[k].token, !.left = store[k].left]]
             /\ UNCHANGED <<jobs, stray>>
    <3>1. h \in HeldClaim /\ store[k] \in Claim
      BY <1>2, <2>2 DEF Holds, HeldByUs, TypeInv, TypeOK
    <3>2. store[k].token \in Tokens /\ store[k].left \in Lefts
      BY <3>1 DEF Claim
    <3> DEFINE g == [h EXCEPT !.token = store[k].token, !.left = store[k].left]
    <3>3. g \in HeldClaim
      <4> HIDE DEF h, k
      <4> QED
        BY <3>1, <3>2 DEF HeldClaim
    <3>4. held' = [held EXCEPT ![c][k] = g]
      BY <2>2
    <3> HIDE DEF g, k
    <3> QED
      BY <1>2, <2>2, <3>3, <3>4, EntryType, UnchangedType DEF TypeInv
  <2>3. CASE Holds(c, k) /\ ClaimLost(c, k)
    BY <1>2, <2>3, ClaimLostType DEF TypeInv
  <2> QED
    BY <2>1, <2>2, <2>3 DEF RenewReadBack
<1>5. StoreType' /\ SpawnType' /\ RestType' /\ OthersKeep(c)
  BY <1>1, <1>3, <1>4, UnchangedType DEF TypeInv, OthersKeep
<1> QED
  BY <1>1, <1>3, <1>4, <1>5, StepOfOne

-----------------------------------------------------------------------------
(* Restarts and time keep the types.                                        *)

LEMMA CrashType ==
  ASSUME TypeInv, NEW c \in Clusters, Crash(c)
  PROVE  TypeInv'
<1>1. HeldType' /\ (\A d \in Clusters \ {c} : held'[d] = held[d]) /\ \A k \in Keys : held'[c][k] = NotHeld
  BY DroppedType DEF Crash, Dropped, TypeInv, TypeOK
<1>2. OpType' /\ op'[c].pc = "idle" /\ \A d \in Clusters \ {c} : op'[d] = op[d]
  BY FinishType DEF Crash, Finish, TypeInv
<1>3. /\ SpawnType' /\ (\A d \in Clusters \ {c} : spawn'[d] = spawn[d])
      /\ \A t \in Tasks : spawn'[c][t].pc = "idle"
  <2>1. NoSpawn \in SpawnState /\ NoSpawn.pc = "idle"
    BY Numbers DEF NoSpawn, SpawnState
  <2> QED
    BY <2>1 DEF Crash, TypeInv, TypeOK, SpawnType
<1>4. StoreType' /\ JobsType' /\ RestType'
  BY Numbers DEF Crash, TypeInv, TypeOK, StoreType, JobsType, RestType
<1>5. TypeOK'
  BY <1>1, <1>2, <1>3, <1>4 DEF TypeOK, StoreType, HeldType, OpType, SpawnType, JobsType, RestType
<1>6. DownIsEmpty'
  BY <1>1, <1>2, <1>3 DEF Crash, TypeInv, DownIsEmpty
<1>7. OpShape'
  BY <1>2 DEF TypeInv, OpShape
<1> QED
  BY <1>5, <1>6, <1>7 DEF TypeInv

LEMMA RestartType ==
  ASSUME TypeInv, NEW c \in Clusters, Restart(c)
  PROVE  TypeInv'
<1>1. TypeOK'
  BY DEF Restart, TypeInv, TypeOK
<1>2. DownIsEmpty' /\ OpShape'
  BY DEF Restart, TypeInv, DownIsEmpty, OpShape
<1> QED
  BY <1>1, <1>2 DEF TypeInv

LEMMA RecoverGivesUpType ==
  ASSUME TypeInv, NEW c \in Clusters, RecoverGivesUp(c)
  PROVE  TypeInv'
<1>1. TypeOK'
  BY DEF RecoverGivesUp, TypeInv, TypeOK
<1>2. DownIsEmpty' /\ OpShape'
  BY DEF RecoverGivesUp, TypeInv, DownIsEmpty, OpShape
<1> QED
  BY <1>1, <1>2 DEF TypeInv

LEMMA ElapseType ==
  ASSUME TypeInv, Elapse
  PROVE  TypeInv'
<1>1. StoreType'
  <2> SUFFICES ASSUME NEW k \in Keys, store[k] # Free
               PROVE  [store[k] EXCEPT !.left = Nearer(@)] \in Claim
    BY DEF Elapse, StoreType, TypeInv, TypeOK
  <2> DEFINE r == store[k]
             n == Nearer(r.left)
  <2>1. r \in Claim
    BY DEF TypeInv, TypeOK
  <2>2. n \in Lefts
    <3>1. r.left \in Lefts
      BY <2>1 DEF Claim
    <3> QED
      BY <3>1, Numbers DEF Nearer, AtLeast, Lefts
  <2>3. [store[k] EXCEPT !.left = Nearer(@)] = [r EXCEPT !.left = n]
    OBVIOUS
  <2> HIDE DEF r, n
  <2>4. [r EXCEPT !.left = n] \in Claim
    BY <2>1, <2>2 DEF Claim
  <2> QED
    BY <2>3, <2>4
<1>2. HeldType' /\ \A c \in Clusters, k \in Keys : held[c][k] = NotHeld => held'[c][k] = NotHeld
  <2>1. \A c \in Clusters, k \in Keys : held[c][k] = NotHeld \/ Aged(held[c][k]) \in HeldClaim
    BY AgedType DEF TypeInv, TypeOK
  <2> QED
    BY <2>1 DEF Elapse, HeldType
<1>3. OpType' /\ \A c \in Clusters : op'[c].pc = op[c].pc /\ op'[c].key = op[c].key /\ op'[c].task = op[c].task
  <2>1. \A c \in Clusters : op[c] \in Op
    BY DEF TypeInv, TypeOK
  <2>2. ASSUME NEW c \in Clusters, op[c].pc # "idle"
        PROVE  [op[c] EXCEPT !.age = @ + 1] \in Op
    <3>1. c \in up
      BY <2>2 DEF TypeInv, DownIsEmpty
    <3>2. op[c].age < OpTime
      BY <2>2, <3>1 DEF Elapse, Timely
    <3> DEFINE o == op[c]
               n == o.age + 1
    <3>3. o \in Op
      BY <2>1
    <3>4. n \in 0 .. OpTime
      BY <3>2, <3>3, Numbers DEF Op
    <3>5. [op[c] EXCEPT !.age = @ + 1] = [o EXCEPT !.age = n]
      OBVIOUS
    <3> HIDE DEF o, n
    <3>6. [o EXCEPT !.age = n] \in Op
      BY <3>3, <3>4 DEF Op
    <3> QED
      BY <3>5, <3>6
  <2>3. op' = [c \in Clusters |->
                 IF op[c].pc = "idle" THEN op[c] ELSE [op[c] EXCEPT !.age = @ + 1]]
    BY DEF Elapse
  <2>4. \A c \in Clusters : op'[c] \in Op
    BY <2>1, <2>2, <2>3
  <2>5. OpType'
    BY <2>3, <2>4 DEF OpType
  <2>6. \A c \in Clusters : op'[c].pc = op[c].pc /\ op'[c].key = op[c].key /\ op'[c].task = op[c].task
    BY <2>1, <2>3 DEF Op
  <2> QED
    BY <2>5, <2>6
<1>4. SpawnType' /\ \A c \in Clusters, t \in Tasks : spawn'[c][t].pc = spawn[c][t].pc
  <2>1. \A c \in Clusters, t \in Tasks : spawn[c][t] \in SpawnState
    BY DEF TypeInv, TypeOK
  <2>2. ASSUME NEW c \in Clusters, NEW t \in Tasks, spawn[c][t].pc = "claimed"
        PROVE  [spawn[c][t] EXCEPT !.age = @ + 1] \in SpawnState
    <3>1. c \in up
      BY <2>2 DEF TypeInv, DownIsEmpty
    <3>2. spawn[c][t].age < SpawnTime
      BY <2>2, <3>1 DEF Elapse, Timely
    <3> DEFINE o == spawn[c][t]
               n == o.age + 1
    <3>3. o \in SpawnState
      BY <2>1
    <3>4. n \in 0 .. SpawnTime
      BY <3>2, <3>3, Numbers DEF SpawnState
    <3>5. [spawn[c][t] EXCEPT !.age = @ + 1] = [o EXCEPT !.age = n]
      OBVIOUS
    <3> HIDE DEF o, n
    <3>6. [o EXCEPT !.age = n] \in SpawnState
      BY <3>3, <3>4 DEF SpawnState
    <3> QED
      BY <3>5, <3>6
  <2>3. spawn' = [c \in Clusters |-> [t \in Tasks |->
           IF spawn[c][t].pc = "claimed" THEN [spawn[c][t] EXCEPT !.age = @ + 1]
           ELSE spawn[c][t]]]
    BY DEF Elapse
  <2>4. \A c \in Clusters, t \in Tasks : spawn'[c][t] \in SpawnState
    BY <2>1, <2>2, <2>3
  <2>5. SpawnType'
    BY <2>3, <2>4 DEF SpawnType
  <2>6. \A c \in Clusters, t \in Tasks : spawn'[c][t].pc = spawn[c][t].pc
    BY <2>1, <2>3 DEF SpawnState
  <2> QED
    BY <2>5, <2>6
<1>5. JobsType' /\ parked' \subseteq Tasks /\ up' = up /\ recovered' \subseteq Clusters
  BY DEF Elapse, TypeInv, TypeOK, JobsType
<1>6. doneAge' \in [Clusters -> [Tasks -> None .. SuccessGracePeriod]]
  <2> SUFFICES ASSUME NEW c \in Clusters, NEW t \in Tasks
               PROVE  Older(doneAge[c][t], SuccessGracePeriod) \in None .. SuccessGracePeriod
    BY DEF Elapse
  <2>1. doneAge[c][t] \in None .. SuccessGracePeriod
    BY DEF TypeInv, TypeOK
  <2> QED
    BY <2>1, Numbers DEF Older, AtMost, None
<1>7. fenceAge' \in [Clusters -> 0 .. TickGap]
  <2> SUFFICES ASSUME NEW c \in Clusters
               PROVE  (IF HeldKeys(c) # {} THEN fenceAge[c] + 1 ELSE 0) \in 0 .. TickGap
    BY DEF Elapse
  <2>1. fenceAge[c] \in 0 .. TickGap
    BY DEF TypeInv, TypeOK
  <2>2. CASE HeldKeys(c) # {}
    <3>1. c \in up
      BY <2>2 DEF TypeInv, DownIsEmpty, HeldKeys, Holds
    <3>2. fenceAge[c] < TickGap
      BY <2>2, <3>1 DEF Elapse, Timely
    <3> QED
      BY <2>1, <2>2, <3>2, Numbers
  <2> QED
    BY <2>2, Numbers
<1>8. TypeOK'
  BY <1>1, <1>2, <1>3, <1>4, <1>5, <1>6, <1>7
     DEF TypeInv, TypeOK, StoreType, HeldType, OpType, SpawnType, JobsType
<1>9. DownIsEmpty'
  BY <1>2, <1>3, <1>4, <1>5 DEF TypeInv, DownIsEmpty
<1>10. OpShape'
  BY <1>3 DEF TypeInv, OpShape
<1> QED
  BY <1>8, <1>9, <1>10 DEF TypeInv

\* The entries Recover builds from the claims the store lists.
LEMMA RecoverEntryType ==
  ASSUME NEW r \in Claim, NEW unsure \in BOOLEAN
  PROVE  RecoverAdopt(r, unsure) \in HeldClaim /\ RecoverFence(r) \in HeldClaim
<1>1. r.task \in Tasks /\ r.token \in Tokens /\ r.left \in Lefts
  BY DEF Claim
<1>2. 0 \in 0 .. RenewInterval /\ RenewInterval \in 0 .. RenewInterval
  BY Numbers
<1> DEFINE g == NewHeld(r.task, r.token, r.left, 0)
           f == NewHeld(r.task, r.token, r.left, RenewInterval)
<1>3. g \in HeldClaim /\ f \in HeldClaim
  BY <1>1, <1>2, NewHeldType
<1>4. /\ RecoverAdopt(r, unsure) = [g EXCEPT !.renewNextTick = TRUE, !.needsRunningCheck = unsure]
      /\ RecoverFence(r) = FencePending(f)
  BY DEF RecoverAdopt, RecoverFence
<1> HIDE DEF g, f
<1>5. [g EXCEPT !.renewNextTick = TRUE, !.needsRunningCheck = unsure] \in HeldClaim
  BY <1>3 DEF HeldClaim
<1>6. FencePending(f) \in HeldClaim
  BY <1>3 DEF FencePending, HeldClaim
<1> QED
  BY <1>4, <1>5, <1>6

LEMMA RecoverType ==
  ASSUME TypeInv, NEW c \in Clusters, Recover(c)
  PROVE  TypeInv'
<1> DEFINE listed == {k \in Keys : HeldByUs(c, k)}
           near == {k \in listed : FenceDue(store[k].left)}
<1>1. /\ c \in up /\ recovered' = recovered \cup {c}
      /\ UNCHANGED <<op, spawn, doneAge, parked, up, fenceAge>>
  BY DEF Recover
<1>2. PICK unknown \in May("checkFails", listed) :
     LET jobLeft == {k \in listed : JobMayRun(c, k, unknown)}
         adopted == jobLeft \ near IN
     \E kept \in May("deleteFails", jobLeft \cap near) :
     LET given == listed \ (adopted \cup kept)
         stopped == {store[k].task : k \in (jobLeft \cap near) \ kept} IN
     \E unlanded \in May("releaseFails", given) :
       /\ store' = [k \in Keys |-> IF k \in given \ unlanded THEN Free ELSE store[k]]
       /\ held' = [held EXCEPT ![c] = [k \in Keys |->
            IF k \in adopted THEN RecoverAdopt(store[k], k \in unknown)
            ELSE IF k \in kept THEN RecoverFence(store[k])
            ELSE @[k]]]
       /\ jobs' = [jobs EXCEPT ![c] = @ \ stopped]
       /\ stray' = [stray EXCEPT ![c] =
            @ \ (stopped \cup {store[k].task : k \in adopted \cup kept})]
  BY DEF Recover
<1> DEFINE jobLeft == {k \in listed : JobMayRun(c, k, unknown)}
           adopted == jobLeft \ near
<1>3. PICK kept \in May("deleteFails", jobLeft \cap near) :
     LET given == listed \ (adopted \cup kept)
         stopped == {store[k].task : k \in (jobLeft \cap near) \ kept} IN
     \E unlanded \in May("releaseFails", given) :
       /\ store' = [k \in Keys |-> IF k \in given \ unlanded THEN Free ELSE store[k]]
       /\ held' = [held EXCEPT ![c] = [k \in Keys |->
            IF k \in adopted THEN RecoverAdopt(store[k], k \in unknown)
            ELSE IF k \in kept THEN RecoverFence(store[k])
            ELSE @[k]]]
       /\ jobs' = [jobs EXCEPT ![c] = @ \ stopped]
       /\ stray' = [stray EXCEPT ![c] =
            @ \ (stopped \cup {store[k].task : k \in adopted \cup kept})]
  BY <1>2
<1>4. kept \subseteq listed /\ adopted \subseteq listed
  BY <1>3 DEF May
<1> DEFINE given == listed \ (adopted \cup kept)
           stopped == {store[k].task : k \in (jobLeft \cap near) \ kept}
           gone == stopped \cup {store[k].task : k \in adopted \cup kept}
<1>5. PICK unlanded \in May("releaseFails", given) :
       /\ store' = [k \in Keys |-> IF k \in given \ unlanded THEN Free ELSE store[k]]
       /\ held' = [held EXCEPT ![c] = [k \in Keys |->
            IF k \in adopted THEN RecoverAdopt(store[k], k \in unknown)
            ELSE IF k \in kept THEN RecoverFence(store[k])
            ELSE @[k]]]
       /\ jobs' = [jobs EXCEPT ![c] = @ \ stopped]
       /\ stray' = [stray EXCEPT ![c] = @ \ gone]
  BY <1>3
<1> HIDE DEF given, stopped, gone
<1>6. StoreType'
  BY <1>5 DEF StoreType, TypeInv, TypeOK
<1>7. JobsType' /\ RestType'
  BY <1>1, <1>5 DEF JobsType, RestType, TypeInv, TypeOK
<1> DEFINE f == [k \in Keys |->
                  IF k \in adopted THEN RecoverAdopt(store[k], k \in unknown)
                  ELSE IF k \in kept THEN RecoverFence(store[k])
                  ELSE held[c][k]]
<1>8. f \in [Keys -> HeldClaim \cup {NotHeld}]
  <2> SUFFICES ASSUME NEW k \in Keys PROVE f[k] \in HeldClaim \cup {NotHeld}
    OBVIOUS
  <2>1. CASE k \in adopted \cup kept
    <3>1. store[k] \in Claim
      BY <1>4, <2>1 DEF HeldByUs, TypeInv, TypeOK
    <3> DEFINE b == k \in unknown
    <3>2. b \in BOOLEAN
      OBVIOUS
    <3>3. f[k] = RecoverAdopt(store[k], b) \/ f[k] = RecoverFence(store[k])
      <4> HIDE DEF adopted
      <4> QED
        BY <2>1
    <3> HIDE DEF b, f, adopted
    <3>4. RecoverAdopt(store[k], b) \in HeldClaim /\ RecoverFence(store[k]) \in HeldClaim
      BY <3>1, <3>2, RecoverEntryType
    <3> QED
      BY <3>3, <3>4
  <2>2. CASE k \notin adopted \cup kept
    <3> HIDE DEF adopted
    <3> QED
      BY <2>2 DEF TypeInv, TypeOK
  <2> QED
    BY <2>1, <2>2
<1>9. held' = [held EXCEPT ![c] = f]
  <2> HIDE DEF adopted
  <2> QED
    BY <1>5
<1> HIDE DEF f
<1>10. HeldType' /\ \A d \in Clusters \ {c} : held'[d] = held[d]
  BY <1>8, <1>9, RewrittenType DEF TypeInv
<1>11. SpawnType' /\ \A d \in Clusters : spawn'[d] = spawn[d]
  BY <1>1, UnchangedType DEF TypeInv
<1> QED
  BY <1>1, <1>6, <1>7, <1>10, <1>11, StepOfOneSameOp

-----------------------------------------------------------------------------
(* Type correctness.                                                        *)

LEMMA InitType == Init => TypeInv
<1> SUFFICES ASSUME Init PROVE TypeInv
  OBVIOUS
<1>1. Idle \in Op /\ NoSpawn \in SpawnState /\ 0 \in 0 .. TickGap
  BY Numbers DEF Idle, Op, NoSpawn, SpawnState
<1>2. None \in None .. SuccessGracePeriod
  BY Numbers DEF None
<1>3. TypeOK
  BY <1>1, <1>2 DEF Init, TypeOK
<1>4. DownIsEmpty /\ OpShape
  BY DEF Init, DownIsEmpty, OpShape, Idle
<1> QED
  BY <1>3, <1>4 DEF TypeInv

LEMMA NextType == TypeInv /\ [Next]_vars => TypeInv'
<1> SUFFICES ASSUME TypeInv, [Next]_vars PROVE TypeInv'
  OBVIOUS
<1>1. ASSUME NEW c \in Clusters, NEW t \in Tasks, ClaimPair(c, t) \/ TakeoverPair(c, t)
      PROVE  TypeInv'
  BY <1>1, ClaimAttemptType
<1>2. ASSUME NEW c \in Clusters, NEW t \in Tasks, SpawnJob(c, t) PROVE TypeInv'
  BY <1>2, SpawnJobType
<1>3. ASSUME NEW c \in Clusters, NEW t \in Tasks, ReleaseFailedSpawn(c, t) PROVE TypeInv'
  BY <1>3, ReleaseFailedSpawnType
<1>4. ASSUME NEW c \in Clusters, NEW t \in Tasks, JobEnds(c, t) PROVE TypeInv'
  BY <1>4, JobEndsType
<1>5. ASSUME NEW c \in Clusters, NEW k \in Keys,
             ReleaseTaskClaim(c, k) \/ ReleaseAfterSuccess(c, k)
      PROVE  TypeInv'
  BY <1>5, ReleaseTaskClaimType
<1>6. ASSUME NEW c \in Clusters, Acquire(c) \/ ReadBackRecovery(c) PROVE TypeInv'
  BY <1>6, AcquireType, ReadBackRecoveryType
<1>7. ASSUME NEW c \in Clusters, RetryPendingDeletions(c) PROVE TypeInv'
  BY <1>7, RetryPendingDeletionsType
<1>8. ASSUME NEW c \in Clusters, TickStep(c) PROVE TypeInv'
  BY <1>8, EvaluateFenceType, ReleasePassesType, ReleaseJoblessClaimsType, RecheckRunningType,
     SkipRenewType, RenewClaimType, RenewReadBackType DEF TickStep
<1>9. ASSUME NEW c \in Clusters, Crash(c) \/ Restart(c) \/ Recover(c) \/ RecoverGivesUp(c)
      PROVE  TypeInv'
  BY <1>9, CrashType, RestartType, RecoverType, RecoverGivesUpType
<1>10. CASE Elapse
  BY <1>10, ElapseType
<1>11. CASE UNCHANGED vars
  BY <1>11 DEF vars, TypeInv, TypeOK, DownIsEmpty, OpShape
<1> QED
  BY <1>1, <1>2, <1>3, <1>4, <1>5, <1>6, <1>7, <1>8, <1>9, <1>10, <1>11 DEF Next

LEMMA TypeInvariant == Spec => []TypeInv
<1> QED
  BY InitType, NextType, PTL DEF Spec

\* For any number of executors, keys and tasks and any failures, every step of the lease
\* manager keeps its state well formed: no timer leaves its range although the loop, the
\* requests and the spawns race with the clock, no pass leaves a torn held claim, and an
\* executor that is down has no claim, method or spawn left in memory.
THEOREM TypeCorrect == Spec => []TypeOK
<1> TypeInv => TypeOK
  BY DEF TypeInv
<1> QED
  BY TypeInvariant, PTL


-----------------------------------------------------------------------------
(* The lease is exclusive: no acquire replaces a live claim early, and what *)
(* an executor believes it holds is its own in the store.                   *)

(* A token that is current in the store is known to its holder only.        *)
TokenInv == \A c \in Clusters, k \in Keys : CurrentToken(c, k) => store[k].holder = c

(* Between the read that allowed an acquire and the acquire, the key was    *)
(* free or lapsed, or somebody has written it since.                        *)
AcquireInv ==
  \A c \in Clusters :
    LET s == store[op[c].key] IN
    op[c].pc = "acquire" /\ s # Free
      => s.left <= -TakeoverGrace \/ s.left >= LeaseDuration - op[c].age

LeaseInv == TypeInv /\ TokenInv /\ AcquireInv

(* A held claim no release, fence or lost renew has ended.                  *)
Live(h) == h # NotHeld /\ ~h.releasePending /\ h.pendingDeletion # "lost"

(* An entry after a step: kept with its lease, or taken from the store.     *)
Kept(c, k) ==
  Holds(c, k) /\ held'[c][k].token = held[c][k].token /\ held'[c][k].left = held[c][k].left
Adopted(c, k) ==
  HeldByUs(c, k) /\ held'[c][k].token = store[k].token /\ held'[c][k].left = store[k].left

(* A step in which c writes nothing but frees of its own claims.            *)
OwnStep(c) ==
  /\ \A k \in Keys : store'[k] = store[k] \/ (store'[k] = Free /\ HeldByUs(c, k))
  /\ \A d \in Clusters \ {c} : held'[d] = held[d]
  /\ \A k \in Keys : held'[c][k] # NotHeld => Kept(c, k) \/ Adopted(c, k)

(* ... and gives up an entry, or marks it, before it frees the claim.       *)
LiveStep(c) ==
  \A k \in Keys : Live(held'[c][k]) =>
    store'[k] = store[k] /\ ((Live(held[c][k]) /\ Kept(c, k)) \/ Adopted(c, k))

-----------------------------------------------------------------------------
(* The releases.                                                            *)

\* A release reaches only the claims of the executor that asks for it.
LEMMA FreedOwn ==
  ASSUME LeaseInv, NEW c \in Clusters, NEW S, NEW k \in Keys
  PROVE  \/ Freed(c, S)[k] = store[k]
         \/ k \in S /\ Freed(c, S)[k] = Free /\ HeldByUs(c, k)
<1>1. CASE k \in S /\ CurrentToken(c, k)
  BY <1>1 DEF LeaseInv, TokenInv, Freed, HeldByUs, CurrentToken
<1>2. CASE ~(k \in S /\ CurrentToken(c, k))
  BY <1>2 DEF Freed
<1> QED
  BY <1>1, <1>2

\* Single-field updates leave a claim's lease alone.
LEMMA UpdatesKeep ==
  ASSUME NEW h \in HeldClaim
  PROVE  /\ [h EXCEPT !.releasePending = TRUE].releasePending
         /\ [h EXCEPT !.releasePending = TRUE].token = h.token
         /\ [h EXCEPT !.releasePending = TRUE].left = h.left
         /\ [h EXCEPT !.needsRunningCheck = FALSE].token = h.token
         /\ [h EXCEPT !.needsRunningCheck = FALSE].left = h.left
         /\ [h EXCEPT !.needsRunningCheck = FALSE].releasePending = h.releasePending
         /\ [h EXCEPT !.needsRunningCheck = FALSE].pendingDeletion = h.pendingDeletion
         /\ [h EXCEPT !.pendingDeletion = "lost"].token = h.token
         /\ [h EXCEPT !.pendingDeletion = "lost"].left = h.left
         /\ [h EXCEPT !.pendingDeletion = "lost"].pendingDeletion = "lost"
         /\ FencePending(h).token = h.token
         /\ FencePending(h).left = h.left
         /\ FencePending(h).releasePending = h.releasePending
         /\ RenewAsked(h).token = h.token
         /\ RenewAsked(h).left = h.left
         /\ RenewAsked(h).releasePending = h.releasePending
         /\ RenewAsked(h).pendingDeletion = h.pendingDeletion
BY DEF HeldClaim, FencePending, RenewAsked

LEMMA ReleaseRefsOwn ==
  ASSUME LeaseInv, NEW c \in Clusters, NEW S \in SUBSET HeldKeys(c), ReleaseRefs(c, S)
  PROVE  OwnStep(c) /\ LiveStep(c)
<1>1. PICK fail \in MayInTick(c, "releaseFails", S) :
        \E lost \in May("releaseLost", S \ fail) :
          /\ store' = Freed(c, S \ fail)
          /\ held' = [held EXCEPT ![c] = [k \in Keys |->
               IF k \in lost \cup fail THEN [@[k] EXCEPT !.releasePending = TRUE]
               ELSE IF k \in S THEN NotHeld ELSE @[k]]]
  BY DEF ReleaseRefs
<1>2. PICK lost \in May("releaseLost", S \ fail) :
        /\ store' = Freed(c, S \ fail)
        /\ held' = [held EXCEPT ![c] = [k \in Keys |->
             IF k \in lost \cup fail THEN [@[k] EXCEPT !.releasePending = TRUE]
             ELSE IF k \in S THEN NotHeld ELSE @[k]]]
  BY <1>1
<1>3. fail \subseteq S /\ lost \subseteq S
  BY <1>1, <1>2 DEF May, MayInTick
<1>4. held \in [Clusters -> [Keys -> HeldClaim \cup {NotHeld}]]
  BY DEF LeaseInv, TypeInv, TypeOK
<1>5. \A d \in Clusters \ {c} : held'[d] = held[d]
  BY <1>2, <1>4
<1>6. ASSUME NEW k \in Keys
      PROVE  /\ store'[k] = store[k] \/ (store'[k] = Free /\ HeldByUs(c, k))
             /\ held'[c][k] # NotHeld => Kept(c, k)
             /\ Live(held'[c][k]) => store'[k] = store[k] /\ Live(held[c][k])
  <2>1. \/ store'[k] = store[k]
        \/ k \in S \ fail /\ store'[k] = Free /\ HeldByUs(c, k)
    BY <1>2, FreedOwn
  <2>2. CASE k \in lost \cup fail
    <3>1. held[c][k] \in HeldClaim /\ Holds(c, k)
      BY <1>3, <1>4, <2>2 DEF HeldKeys, Holds
    <3>2. held'[c][k] = [held[c][k] EXCEPT !.releasePending = TRUE]
      BY <1>2, <1>4, <2>2
    <3>3. held'[c][k].releasePending /\ Kept(c, k)
      BY <3>1, <3>2, UpdatesKeep DEF Kept
    <3> QED
      BY <2>1, <3>3 DEF Live
  <2>3. CASE k \notin lost \cup fail /\ k \in S
    <3>1. held'[c][k] = NotHeld
      BY <1>2, <1>4, <2>3
    <3> QED
      BY <2>1, <3>1 DEF Live
  <2>4. CASE k \notin lost \cup fail /\ k \notin S
    <3>1. held'[c][k] = held[c][k]
      BY <1>2, <1>4, <2>4
    <3> QED
      BY <2>1, <2>4, <3>1 DEF Live, Kept, Holds
  <2> QED
    BY <2>2, <2>3, <2>4
<1> QED
  BY <1>5, <1>6 DEF OwnStep, LiveStep, Live

LEMMA SameIsOwn ==
  ASSUME LeaseInv, NEW c \in Clusters, UNCHANGED <<store, held>>
  PROVE  OwnStep(c) /\ LiveStep(c)
BY DEF OwnStep, LiveStep, Kept, Holds, Live

LEMMA ReleaseLockedOwn ==
  ASSUME LeaseInv, NEW c \in Clusters, NEW S \in SUBSET HeldKeys(c), ReleaseLocked(c, S)
  PROVE  OwnStep(c) /\ LiveStep(c)
<1>1. PICK unknown : ReleaseRefs(c, {k \in S \ unknown : ~IsJobRunning(c, held[c][k].task)})
  BY DEF ReleaseLocked
<1> QED
  BY <1>1, ReleaseRefsOwn

LEMMA ReleaseOwn ==
  ASSUME LeaseInv, NEW c \in Clusters, NEW k \in Keys, Holds(c, k), Release(c, k)
  PROVE  OwnStep(c) /\ LiveStep(c)
<1>1. {k} \in SUBSET HeldKeys(c)
  BY DEF HeldKeys
<1>2. CASE UNCHANGED <<store, held>>
  BY <1>2, SameIsOwn
<1>3. CASE ReleaseLocked(c, {k})
  BY <1>1, <1>3, ReleaseLockedOwn
<1> QED
  BY <1>2, <1>3 DEF Release

LEMMA ReleaseFailedSpawnOwn ==
  ASSUME LeaseInv, NEW c \in Clusters, NEW t \in Tasks, ReleaseFailedSpawn(c, t)
  PROVE  OwnStep(c) /\ LiveStep(c)
<1>1. KeyOf[t] \in Keys
  BY ConstantsAssumption
<1>2. CASE UNCHANGED <<store, held>>
  BY <1>2, SameIsOwn
<1>3. CASE Holds(c, KeyOf[t]) /\ Release(c, KeyOf[t])
  BY <1>1, <1>3, ReleaseOwn
<1> QED
  BY <1>2, <1>3 DEF ReleaseFailedSpawn

LEMMA ReleaseTaskClaimOwn ==
  ASSUME LeaseInv, NEW c \in Clusters, NEW k \in Keys,
         ReleaseTaskClaim(c, k) \/ ReleaseAfterSuccess(c, k)
  PROVE  OwnStep(c) /\ LiveStep(c)
<1>1. Holds(c, k)
  BY DEF ReleaseTaskClaim, ReleaseAfterSuccess
<1>2. CASE Release(c, k)
  BY <1>1, <1>2, ReleaseOwn
<1>3. ASSUME ReleaseAfterSuccess(c, k), ~Release(c, k)
      PROVE  OwnStep(c) /\ LiveStep(c)
  <2> DEFINE h == held[c][k]
             newHold == AtLeast(SuccessGracePeriod - doneAge[c][h.task], h.hold)
             g == [h EXCEPT !.hold = newHold]
  <2>1. held' = [held EXCEPT ![c][k] = g] /\ UNCHANGED store
    BY <1>3 DEF ReleaseAfterSuccess
  <2>2. h \in HeldClaim /\ held \in [Clusters -> [Keys -> HeldClaim \cup {NotHeld}]]
    BY <1>1 DEF LeaseInv, TypeInv, TypeOK, Holds
  <2>3. /\ g.token = h.token /\ g.left = h.left /\ g.releasePending = h.releasePending
        /\ g.pendingDeletion = h.pendingDeletion
    <3> HIDE DEF h, newHold
    <3> QED
      BY <2>2 DEF HeldClaim
  <2> HIDE DEF g
  <2>4. /\ held'[c][k] = g /\ (\A j \in Keys \ {k} : held'[c][j] = held[c][j])
        /\ \A d \in Clusters \ {c} : held'[d] = held[d]
    BY <2>1, <2>2
  <2>5. ASSUME NEW j \in Keys
        PROVE  /\ held'[c][j] # NotHeld => Kept(c, j)
               /\ Live(held'[c][j]) => Live(held[c][j])
    <3>1. CASE j = k
      BY <1>1, <2>3, <2>4, <3>1 DEF Kept, Live, Holds
    <3>2. CASE j # k
      BY <2>4, <3>2 DEF Kept, Live, Holds
    <3> QED
      BY <3>1, <3>2
  <2>6. \A j \in Keys : store'[j] = store[j]
    BY <2>1
  <2> QED
    BY <2>4, <2>5, <2>6 DEF OwnStep, LiveStep, Live
<1> QED
  BY <1>2, <1>3 DEF ReleaseTaskClaim

-----------------------------------------------------------------------------
(* The passes of a tick.                                                    *)

LEMMA BestEffortReleaseOwn ==
  ASSUME LeaseInv, NEW c \in Clusters, NEW S, BestEffortRelease(c, S), NEW k \in Keys
  PROVE  \/ store'[k] = store[k]
         \/ k \in S /\ store'[k] = Free /\ HeldByUs(c, k)
<1>1. PICK unlanded : store' = Freed(c, S \ unlanded)
  BY DEF BestEffortRelease
<1> QED
  BY <1>1, FreedOwn

LEMMA RetryPendingDeletionsOwn ==
  ASSUME LeaseInv, NEW c \in Clusters, RetryPendingDeletions(c)
  PROVE  OwnStep(c) /\ LiveStep(c)
<1> DEFINE pending == {k \in HeldKeys(c) : held[c][k].pendingDeletion # "no"}
           Fenced(kept) == {k \in pending \ kept : held[c][k].pendingDeletion = "fence"}
<1>1. PICK kept : BestEffortRelease(c, Fenced(kept)) /\ held' = Dropped(c, pending \ kept)
  BY DEF RetryPendingDeletions
<1>2. held \in [Clusters -> [Keys -> HeldClaim \cup {NotHeld}]]
  BY DEF LeaseInv, TypeInv, TypeOK
<1>3. \A d \in Clusters \ {c} : held'[d] = held[d]
  BY <1>1, <1>2 DEF Dropped
<1>4. ASSUME NEW k \in Keys
      PROVE  /\ store'[k] = store[k] \/ (store'[k] = Free /\ HeldByUs(c, k))
             /\ held'[c][k] # NotHeld => Kept(c, k)
             /\ Live(held'[c][k]) => store'[k] = store[k] /\ Live(held[c][k])
  <2>1. \/ store'[k] = store[k]
        \/ k \in Fenced(kept) /\ store'[k] = Free /\ HeldByUs(c, k)
    <3> HIDE DEF Fenced
    <3> QED
      BY <1>1, BestEffortReleaseOwn
  <2>2. CASE k \in pending \ kept
    <3>1. held'[c][k] = NotHeld
      BY <1>1, <1>2, <2>2 DEF Dropped
    <3> QED
      BY <2>1, <3>1 DEF Live
  <2>3. CASE k \notin pending \ kept
    <3>1. held'[c][k] = held[c][k]
      BY <1>1, <1>2, <2>3 DEF Dropped
    <3>2. store'[k] = store[k]
      BY <2>1, <2>3
    <3> QED
      BY <3>1, <3>2 DEF Live, Kept, Holds
  <2> QED
    BY <2>2, <2>3
<1> QED
  BY <1>3, <1>4 DEF OwnStep, LiveStep, Live

LEMMA FenceOwn ==
  ASSUME LeaseInv, NEW c \in Clusters, Fence(c)
  PROVE  OwnStep(c) /\ LiveStep(c)
<1> DEFINE due == {k \in HeldKeys(c) :
                     held[c][k].pendingDeletion = "no" /\ FenceDue(held[c][k].left)}
           stopping == {k \in due : ~held[c][k].releasePending}
<1>1. PICK kept \in May("deleteFails", stopping) :
        /\ BestEffortRelease(c, due \ kept)
        /\ held' = [held EXCEPT ![c] = [k \in Keys |->
             IF k \in kept THEN FencePending(@[k])
             ELSE IF k \in due THEN NotHeld ELSE @[k]]]
  BY DEF Fence
<1>2. held \in [Clusters -> [Keys -> HeldClaim \cup {NotHeld}]]
  BY DEF LeaseInv, TypeInv, TypeOK
<1>3. \A d \in Clusters \ {c} : held'[d] = held[d]
  BY <1>1, <1>2
<1>4. kept \subseteq stopping
  BY <1>1 DEF May
<1>5. ASSUME NEW k \in Keys
      PROVE  /\ store'[k] = store[k] \/ (store'[k] = Free /\ HeldByUs(c, k))
             /\ held'[c][k] # NotHeld => Kept(c, k)
             /\ Live(held'[c][k]) => store'[k] = store[k] /\ Live(held[c][k])
  <2>1. \/ store'[k] = store[k]
        \/ k \in due \ kept /\ store'[k] = Free /\ HeldByUs(c, k)
    <3> HIDE DEF due
    <3> QED
      BY <1>1, BestEffortReleaseOwn
  <2>2. CASE k \in kept
    <3>1. /\ held[c][k] \in HeldClaim /\ Holds(c, k) /\ ~held[c][k].releasePending
          /\ held[c][k].pendingDeletion = "no"
      BY <1>2, <1>4, <2>2 DEF HeldKeys, Holds
    <3>2. held'[c][k] = FencePending(held[c][k])
      BY <1>1, <1>2, <2>2
    <3>3. Kept(c, k)
      BY <3>1, <3>2, UpdatesKeep DEF Kept
    <3> QED
      BY <2>1, <2>2, <3>1, <3>3 DEF Live, Holds
  <2>3. CASE k \notin kept /\ k \in due
    <3>1. held'[c][k] = NotHeld
      BY <1>1, <1>2, <2>3
    <3> QED
      BY <2>1, <3>1 DEF Live
  <2>4. CASE k \notin kept /\ k \notin due
    <3>1. held'[c][k] = held[c][k]
      BY <1>1, <1>2, <2>4
    <3>2. store'[k] = store[k]
      BY <2>1, <2>4
    <3> QED
      BY <3>1, <3>2 DEF Live, Kept, Holds
  <2> QED
    BY <2>2, <2>3, <2>4
<1> QED
  BY <1>3, <1>5 DEF OwnStep, LiveStep, Live

LEMMA JoblessCheckedKeeps ==
  ASSUME TypeInv, NEW c \in Clusters, NEW k \in HeldKeys(c), NEW unknown, NEW b \in BOOLEAN
  PROVE  LET g == [JoblessChecked(c, k, unknown) EXCEPT !.releasePending = b] IN
         /\ g.token = held[c][k].token /\ g.left = held[c][k].left
         /\ g.pendingDeletion = held[c][k].pendingDeletion /\ g.releasePending = b
<1> DEFINE h == held[c][k]
           since == IF k \in unknown THEN h.jobless
                    ELSE IF IsJobRunning(c, h.task) THEN None ELSE AtLeast(h.jobless, 0)
           j == JoblessChecked(c, k, unknown)
<1>1. h \in HeldClaim /\ j \in HeldClaim
  BY JoblessCheckedType DEF TypeInv, TypeOK, HeldKeys, Holds
<1>2. j = [h EXCEPT !.checkAge = 0, !.jobless = since]
  BY DEF JoblessChecked
<1> HIDE DEF h, j, since
<1>3. j.token = h.token /\ j.left = h.left /\ j.pendingDeletion = h.pendingDeletion
  BY <1>1, <1>2 DEF HeldClaim
<1> DEFINE g == [j EXCEPT !.releasePending = b]
<1>4. /\ g.token = j.token /\ g.left = j.left /\ g.pendingDeletion = j.pendingDeletion
      /\ g.releasePending = b
  BY <1>1 DEF HeldClaim
<1> HIDE DEF g
<1> QED
  BY <1>3, <1>4 DEF h, j, g

LEMMA ReleaseJoblessClaimsOwn ==
  ASSUME LeaseInv, NEW c \in Clusters, ReleaseJoblessClaims(c)
  PROVE  OwnStep(c) /\ LiveStep(c)
<1> DEFINE Gone(checked, unknown) ==
             {k \in checked \ unknown : JoblessChecked(c, k, unknown).jobless >= JoblessGrace}
           After(checked, unknown, fail, lost) ==
             [k \in Keys |->
               IF k \in Gone(checked, unknown) \ (lost \cup fail) THEN NotHeld
               ELSE IF k \in checked
               THEN [JoblessChecked(c, k, unknown)
                       EXCEPT !.releasePending = (k \in Gone(checked, unknown))]
               ELSE held[c][k]]
<1>1. PICK checked \in SUBSET HeldKeys(c) :
        \E unknown \in MayInTick(c, "checkFails", checked) :
        \E fail \in MayInTick(c, "releaseFails", Gone(checked, unknown)) :
        \E lost \in May("releaseLost", Gone(checked, unknown) \ fail) :
          /\ CheckedInPass(c, checked)
          /\ store' = Freed(c, Gone(checked, unknown) \ fail)
          /\ held' = [held EXCEPT ![c] = After(checked, unknown, fail, lost)]
  BY DEF ReleaseJoblessClaims
<1>2. PICK unknown, fail, lost :
        /\ CheckedInPass(c, checked)
        /\ store' = Freed(c, Gone(checked, unknown) \ fail)
        /\ held' = [held EXCEPT ![c] = After(checked, unknown, fail, lost)]
  <2> HIDE DEF Gone, After
  <2> QED
    BY <1>1
<1> DEFINE gone == Gone(checked, unknown)
<1>3. held \in [Clusters -> [Keys -> HeldClaim \cup {NotHeld}]]
  BY DEF LeaseInv, TypeInv, TypeOK
<1>4. (\A d \in Clusters \ {c} : held'[d] = held[d]) /\ gone \subseteq checked
  BY <1>2, <1>3
<1>5. ASSUME NEW k \in Keys
      PROVE  /\ store'[k] = store[k] \/ (store'[k] = Free /\ HeldByUs(c, k))
             /\ held'[c][k] # NotHeld => Kept(c, k)
             /\ Live(held'[c][k]) => store'[k] = store[k] /\ Live(held[c][k])
  <2>1. \/ store'[k] = store[k]
        \/ k \in gone \ fail /\ store'[k] = Free /\ HeldByUs(c, k)
    <3> HIDE DEF Gone, After
    <3> QED
      BY <1>2, FreedOwn
  <2>2. held'[c][k] = After(checked, unknown, fail, lost)[k]
    BY <1>2, <1>3
  <2>3. CASE k \in gone \ (lost \cup fail)
    <3>1. held'[c][k] = NotHeld
      BY <2>2, <2>3
    <3> QED
      BY <2>1, <3>1 DEF Live
  <2>4. CASE k \in checked /\ k \notin gone \ (lost \cup fail)
    <3> DEFINE b == k \in gone
               g == [JoblessChecked(c, k, unknown) EXCEPT !.releasePending = b]
    <3>1. b \in BOOLEAN /\ held'[c][k] = g
      BY <2>2, <2>4
    <3> HIDE DEF b
    <3>2. /\ g.token = held[c][k].token /\ g.left = held[c][k].left
          /\ g.pendingDeletion = held[c][k].pendingDeletion /\ g.releasePending = b
      BY <2>4, <3>1, JoblessCheckedKeeps DEF LeaseInv
    <3>3. Holds(c, k) /\ ~held[c][k].releasePending
      BY <1>2, <2>4 DEF CheckedInPass, JoblessDueKeys, JoblessEligible, HeldKeys
    <3> HIDE DEF g
    <3>4. Kept(c, k)
      BY <3>1, <3>2, <3>3 DEF Kept
    <3>5. Live(held'[c][k]) => k \notin gone /\ Live(held[c][k])
      BY <3>1, <3>2, <3>3 DEF Live, Holds, b
    <3> HIDE DEF gone
    <3> QED
      BY <2>1, <3>4, <3>5
  <2>5. CASE k \notin checked
    <3>1. held'[c][k] = held[c][k]
      BY <1>4, <2>2, <2>5
    <3>2. store'[k] = store[k]
      BY <1>4, <2>1, <2>5
    <3> QED
      BY <3>1, <3>2 DEF Live, Kept, Holds
  <2> QED
    BY <2>3, <2>4, <2>5, <1>4
<1> QED
  BY <1>4, <1>5 DEF OwnStep, LiveStep, Live

LEMMA RecheckRunningOwn ==
  ASSUME LeaseInv, NEW c \in Clusters, RecheckRunning(c)
  PROVE  OwnStep(c) /\ LiveStep(c)
<1> DEFINE asked == {k \in HeldKeys(c) : held[c][k].needsRunningCheck}
<1>1. PICK unknown \in May("checkFails", asked) :
      LET running == {k \in asked \ unknown : IsJobRunning(c, held[c][k].task)}
          gone == asked \ (unknown \cup running) IN
      \E fail \in MayInTick(c, "releaseFails", gone) : \E lost \in May("releaseLost", gone \ fail) :
        /\ store' = Freed(c, gone \ fail)
        /\ held' = [held EXCEPT ![c] = [k \in Keys |->
             IF k \in running THEN [@[k] EXCEPT !.needsRunningCheck = FALSE]
             ELSE IF k \in lost \cup fail THEN [@[k] EXCEPT !.releasePending = TRUE]
             ELSE IF k \in gone THEN NotHeld ELSE @[k]]]
  BY DEF RecheckRunning
<1> DEFINE running == {k \in asked \ unknown : IsJobRunning(c, held[c][k].task)}
           gone == asked \ (unknown \cup running)
<1>2. PICK fail \in MayInTick(c, "releaseFails", gone) : \E lost \in May("releaseLost", gone \ fail) :
        /\ store' = Freed(c, gone \ fail)
        /\ held' = [held EXCEPT ![c] = [k \in Keys |->
             IF k \in running THEN [@[k] EXCEPT !.needsRunningCheck = FALSE]
             ELSE IF k \in lost \cup fail THEN [@[k] EXCEPT !.releasePending = TRUE]
             ELSE IF k \in gone THEN NotHeld ELSE @[k]]]
  BY <1>1
<1>3. running \subseteq HeldKeys(c) /\ gone \subseteq HeldKeys(c) /\ running \cap gone = {}
  OBVIOUS
<1> HIDE DEF asked, running, gone
<1>4. PICK lost \in May("releaseLost", gone \ fail) :
        /\ store' = Freed(c, gone \ fail)
        /\ held' = [held EXCEPT ![c] = [k \in Keys |->
             IF k \in running THEN [@[k] EXCEPT !.needsRunningCheck = FALSE]
             ELSE IF k \in lost \cup fail THEN [@[k] EXCEPT !.releasePending = TRUE]
             ELSE IF k \in gone THEN NotHeld ELSE @[k]]]
  BY <1>2
<1>5. fail \subseteq gone /\ lost \subseteq gone
  BY <1>2, <1>4 DEF May, MayInTick
<1>6. held \in [Clusters -> [Keys -> HeldClaim \cup {NotHeld}]]
  BY DEF LeaseInv, TypeInv, TypeOK
<1>7. \A d \in Clusters \ {c} : held'[d] = held[d]
  BY <1>4, <1>6
<1>8. ASSUME NEW k \in Keys
      PROVE  /\ store'[k] = store[k] \/ (store'[k] = Free /\ HeldByUs(c, k))
             /\ held'[c][k] # NotHeld => Kept(c, k)
             /\ Live(held'[c][k]) => store'[k] = store[k] /\ Live(held[c][k])
  <2>1. \/ store'[k] = store[k]
        \/ k \in gone \ fail /\ store'[k] = Free /\ HeldByUs(c, k)
    BY <1>4, FreedOwn
  <2>2. CASE k \in running
    <3>1. held[c][k] \in HeldClaim /\ Holds(c, k) /\ k \notin gone
      BY <1>3, <1>6, <2>2 DEF HeldKeys, Holds
    <3>2. held'[c][k] = [held[c][k] EXCEPT !.needsRunningCheck = FALSE]
      BY <1>4, <1>6, <2>2
    <3>3. Kept(c, k) /\ (Live(held'[c][k]) => Live(held[c][k]))
      BY <3>1, <3>2, UpdatesKeep DEF Kept, Live, Holds
    <3> QED
      BY <2>1, <3>1, <3>3
  <2>3. CASE k \in lost \cup fail
    <3>1. held[c][k] \in HeldClaim /\ Holds(c, k) /\ k \notin running
      BY <1>3, <1>5, <1>6, <2>3 DEF HeldKeys, Holds
    <3>2. held'[c][k] = [held[c][k] EXCEPT !.releasePending = TRUE]
      BY <1>4, <1>6, <2>3, <3>1
    <3>3. held'[c][k].releasePending /\ Kept(c, k)
      BY <3>1, <3>2, UpdatesKeep DEF Kept
    <3> QED
      BY <2>1, <3>3 DEF Live
  <2>4. CASE k \notin running /\ k \notin lost \cup fail /\ k \in gone
    <3>1. held'[c][k] = NotHeld
      BY <1>4, <1>6, <2>4
    <3> QED
      BY <2>1, <3>1 DEF Live
  <2>5. CASE k \notin running /\ k \notin lost \cup fail /\ k \notin gone
    <3>1. held'[c][k] = held[c][k]
      BY <1>4, <1>6, <2>5
    <3> QED
      BY <2>1, <2>5, <3>1 DEF Live, Kept, Holds
  <2> QED
    BY <2>2, <2>3, <2>4, <2>5
<1> QED
  BY <1>7, <1>8 DEF OwnStep, LiveStep, Live

LEMMA ClaimLostOwn ==
  ASSUME LeaseInv, NEW c \in Clusters, NEW k \in Keys, Holds(c, k), ClaimLost(c, k), UNCHANGED store
  PROVE  OwnStep(c) /\ LiveStep(c)
<1>1. /\ held \in [Clusters -> [Keys -> HeldClaim \cup {NotHeld}]] /\ held[c][k] \in HeldClaim
      /\ \A j \in Keys : store'[j] = store[j]
  BY DEF LeaseInv, TypeInv, TypeOK, Holds
<1>2. /\ \A d \in Clusters \ {c} : held'[d] = held[d]
      /\ \A j \in Keys \ {k} : held'[c][j] = held[c][j]
      /\ \/ held'[c][k] = NotHeld
         \/ held'[c][k] = [held[c][k] EXCEPT !.pendingDeletion = "lost"]
  BY <1>1 DEF ClaimLost, Dropped
<1>3. ASSUME held'[c][k] = [held[c][k] EXCEPT !.pendingDeletion = "lost"]
      PROVE  Kept(c, k) /\ ~Live(held'[c][k])
  <2>1. Kept(c, k) /\ held'[c][k].pendingDeletion = "lost"
    BY <1>1, <1>3, UpdatesKeep DEF Kept
  <2> QED
    BY <2>1 DEF Live
<1>4. held'[c][k] # NotHeld => Kept(c, k) /\ ~Live(held'[c][k])
  BY <1>2, <1>3
<1>5. ASSUME NEW j \in Keys
      PROVE  /\ held'[c][j] # NotHeld => Kept(c, j)
             /\ Live(held'[c][j]) => Live(held[c][j])
  <2>1. CASE j = k
    BY <1>4, <2>1 DEF Live
  <2>2. CASE j # k
    BY <1>2, <2>2 DEF Kept, Live, Holds
  <2> QED
    BY <2>1, <2>2
<1> QED
  BY <1>1, <1>2, <1>5 DEF OwnStep, LiveStep, Live

\* A renew that failed leaves the claim as it was, to be decided by a read.
LEMMA RenewFailsOwn ==
  ASSUME LeaseInv, NEW c \in Clusters, NEW k \in Keys, Holds(c, k), RenewFails(c, k)
  PROVE  OwnStep(c) /\ LiveStep(c)
<1>1. held \in [Clusters -> [Keys -> HeldClaim \cup {NotHeld}]] /\ held[c][k] \in HeldClaim
  BY DEF LeaseInv, TypeInv, TypeOK, Holds
<1>2. /\ \A d \in Clusters \ {c} : held'[d] = held[d]
      /\ \A j \in Keys \ {k} : held'[c][j] = held[c][j]
      /\ held'[c][k] = RenewAsked(held[c][k])
      /\ \A j \in Keys : store'[j] = store[j]
  BY <1>1 DEF RenewFails
<1>3. Kept(c, k) /\ (Live(held'[c][k]) => Live(held[c][k]))
  BY <1>1, <1>2, UpdatesKeep DEF Kept, Live, Holds
<1>4. ASSUME NEW j \in Keys
      PROVE  /\ held'[c][j] # NotHeld => Kept(c, j)
             /\ Live(held'[c][j]) => Live(held[c][j])
  <2>1. CASE j = k
    BY <1>3, <2>1
  <2>2. CASE j # k
    BY <1>2, <2>2 DEF Kept, Live, Holds
  <2> QED
    BY <2>1, <2>2
<1> QED
  BY <1>2, <1>4 DEF OwnStep, LiveStep, Live

\* An entry taken over from the store.
LEMMA AdoptedOwn ==
  ASSUME LeaseInv, NEW c \in Clusters, NEW k \in Keys, NEW g \in HeldClaim, UNCHANGED store,
         HeldByUs(c, k), g.token = store[k].token, g.left = store[k].left,
         held' = [held EXCEPT ![c][k] = g]
  PROVE  OwnStep(c) /\ LiveStep(c)
<1>1. held \in [Clusters -> [Keys -> HeldClaim \cup {NotHeld}]]
  BY DEF LeaseInv, TypeInv, TypeOK
<1>2. /\ \A d \in Clusters \ {c} : held'[d] = held[d]
      /\ \A j \in Keys \ {k} : held'[c][j] = held[c][j]
      /\ held'[c][k] = g
      /\ \A j \in Keys : store'[j] = store[j]
  BY <1>1
<1>3. Adopted(c, k)
  BY <1>2 DEF Adopted
<1>4. ASSUME NEW j \in Keys
      PROVE  /\ held'[c][j] # NotHeld => Kept(c, j) \/ Adopted(c, j)
             /\ Live(held'[c][j]) => (Live(held[c][j]) /\ Kept(c, j)) \/ Adopted(c, j)
  <2>1. CASE j = k
    BY <1>3, <2>1
  <2>2. CASE j # k
    BY <1>2, <2>2 DEF Kept, Live, Holds
  <2> QED
    BY <2>1, <2>2
<1> QED
  BY <1>2, <1>4 DEF OwnStep, LiveStep

LEMMA RenewReadBackOwn ==
  ASSUME LeaseInv, NEW c \in Clusters, RenewReadBack(c)
  PROVE  OwnStep(c) /\ LiveStep(c)
<1> DEFINE k == op[c].key
           h == held[c][k]
           g == [h EXCEPT !.token = store[k].token, !.left = store[k].left]
<1>1. op[c].pc = "renewReadBack" /\ UNCHANGED store
  BY DEF RenewReadBack
<1>2. k \in Keys
  BY <1>1 DEF LeaseInv, TypeInv, OpShape
<1>3. CASE UNCHANGED held
  BY <1>1, <1>3, SameIsOwn
<1>4. CASE Holds(c, k) /\ ClaimLost(c, k)
  BY <1>1, <1>2, <1>4, ClaimLostOwn
<1>5. CASE Holds(c, k) /\ HeldByUs(c, k) /\ held' = [held EXCEPT ![c][k] = g]
  <2>1. h \in HeldClaim /\ store[k] \in Claim
    BY <1>2, <1>5 DEF Holds, HeldByUs, LeaseInv, TypeInv, TypeOK
  <2>2. store[k].token \in Tokens /\ store[k].left \in Lefts
    BY <2>1 DEF Claim
  <2>3. g \in HeldClaim /\ g.token = store[k].token /\ g.left = store[k].left
    <3> HIDE DEF h, k
    <3> QED
      BY <2>1, <2>2 DEF HeldClaim
  <2> HIDE DEF g, k
  <2> QED
    BY <1>1, <1>2, <1>5, <2>3, AdoptedOwn
<1> QED
  BY <1>3, <1>4, <1>5 DEF RenewReadBack

LEMMA ReadBackRecoveryOwn ==
  ASSUME LeaseInv, NEW c \in Clusters, ReadBackRecovery(c)
  PROVE  OwnStep(c) /\ LiveStep(c)
<1> DEFINE k == op[c].key
           t == op[c].task
           g == NewHeld(t, store[k].token, store[k].left, AtMost(op[c].age, RenewInterval))
<1>1. op[c].pc = "readBack" /\ UNCHANGED store
  BY DEF ReadBackRecovery
<1>2. k \in Keys /\ t \in Tasks
  BY <1>1, ConstantsAssumption DEF LeaseInv, TypeInv, OpShape
<1>3. CASE UNCHANGED held
  BY <1>1, <1>3, SameIsOwn
<1>4. CASE HeldByUs(c, k) /\ held' = [held EXCEPT ![c][k] = g]
  <2>1. store[k] \in Claim
    BY <1>2, <1>4 DEF HeldByUs, LeaseInv, TypeInv, TypeOK
  <2>2. store[k].token \in Tokens /\ store[k].left \in Lefts
    BY <2>1 DEF Claim
  <2>3. AtMost(op[c].age, RenewInterval) \in 0 .. RenewInterval
    BY RenewAgeType DEF LeaseInv, TypeInv
  <2>4. g \in HeldClaim
    BY <1>2, <2>2, <2>3, NewHeldType
  <2>5. g.token = store[k].token /\ g.left = store[k].left
    BY DEF NewHeld
  <2> HIDE DEF g, k
  <2> QED
    BY <1>1, <1>2, <1>4, <2>4, <2>5, AdoptedOwn
<1> QED
  BY <1>3, <1>4 DEF ReadBackRecovery

LEMMA RecoverEntryLease ==
  ASSUME NEW r \in Claim, NEW unsure \in BOOLEAN
  PROVE  /\ RecoverAdopt(r, unsure).token = r.token /\ RecoverAdopt(r, unsure).left = r.left
         /\ RecoverFence(r).token = r.token /\ RecoverFence(r).left = r.left
BY DEF RecoverAdopt, RecoverFence, FencePending, NewHeld

\* Recover frees and adopts its own claims.  A claim it frees that is in the held set
\* already stays there, so nothing is said of the held set unless it was empty.
LEMMA RecoverOwn ==
  ASSUME LeaseInv, NEW c \in Clusters, Recover(c)
  PROVE  OwnStep(c) /\ (HeldKeys(c) = {} => LiveStep(c))
<1> DEFINE listed == {k \in Keys : HeldByUs(c, k)}
           near == {k \in listed : FenceDue(store[k].left)}
<1>1. PICK unknown \in May("checkFails", listed) :
     LET jobLeft == {k \in listed : JobMayRun(c, k, unknown)}
         adopted == jobLeft \ near IN
     \E kept \in May("deleteFails", jobLeft \cap near) :
     LET given == listed \ (adopted \cup kept)
         stopped == {store[k].task : k \in (jobLeft \cap near) \ kept} IN
     \E unlanded \in May("releaseFails", given) :
       /\ store' = [k \in Keys |-> IF k \in given \ unlanded THEN Free ELSE store[k]]
       /\ held' = [held EXCEPT ![c] = [k \in Keys |->
            IF k \in adopted THEN RecoverAdopt(store[k], k \in unknown)
            ELSE IF k \in kept THEN RecoverFence(store[k])
            ELSE @[k]]]
       /\ jobs' = [jobs EXCEPT ![c] = @ \ stopped]
       /\ stray' = [stray EXCEPT ![c] =
            @ \ (stopped \cup {store[k].task : k \in adopted \cup kept})]
  BY DEF Recover
<1> DEFINE jobLeft == {k \in listed : JobMayRun(c, k, unknown)}
           adopted == jobLeft \ near
<1>2. PICK kept \in May("deleteFails", jobLeft \cap near) :
     LET given == listed \ (adopted \cup kept)
         stopped == {store[k].task : k \in (jobLeft \cap near) \ kept} IN
     \E unlanded \in May("releaseFails", given) :
       /\ store' = [k \in Keys |-> IF k \in given \ unlanded THEN Free ELSE store[k]]
       /\ held' = [held EXCEPT ![c] = [k \in Keys |->
            IF k \in adopted THEN RecoverAdopt(store[k], k \in unknown)
            ELSE IF k \in kept THEN RecoverFence(store[k])
            ELSE @[k]]]
       /\ jobs' = [jobs EXCEPT ![c] = @ \ stopped]
       /\ stray' = [stray EXCEPT ![c] =
            @ \ (stopped \cup {store[k].task : k \in adopted \cup kept})]
  BY <1>1
<1> DEFINE given == listed \ (adopted \cup kept)
<1>3. PICK unlanded \in May("releaseFails", given) :
       /\ store' = [k \in Keys |-> IF k \in given \ unlanded THEN Free ELSE store[k]]
       /\ held' = [held EXCEPT ![c] = [k \in Keys |->
            IF k \in adopted THEN RecoverAdopt(store[k], k \in unknown)
            ELSE IF k \in kept THEN RecoverFence(store[k])
            ELSE @[k]]]
  BY <1>2
<1>4. kept \subseteq listed /\ adopted \subseteq listed /\ given \cap (adopted \cup kept) = {}
  BY <1>2 DEF May
<1>5. held \in [Clusters -> [Keys -> HeldClaim \cup {NotHeld}]]
  BY DEF LeaseInv, TypeInv, TypeOK
<1> HIDE DEF adopted, jobLeft, near
<1>6. \A d \in Clusters \ {c} : held'[d] = held[d]
  BY <1>3, <1>5
<1>7. ASSUME NEW k \in Keys
      PROVE  /\ store'[k] = store[k] \/ (store'[k] = Free /\ HeldByUs(c, k))
             /\ held'[c][k] # NotHeld => (held'[c][k] = held[c][k] \/ (Adopted(c, k) /\ store'[k] = store[k]))
  <2>1. store'[k] = store[k] \/ (store'[k] = Free /\ k \in given /\ HeldByUs(c, k))
    BY <1>3
  <2>2. CASE k \in adopted \cup kept
    <3>1. store[k] \in Claim /\ HeldByUs(c, k) /\ store'[k] = store[k]
      BY <1>4, <2>1, <2>2 DEF HeldByUs, LeaseInv, TypeInv, TypeOK
    <3> DEFINE b == k \in unknown
    <3>2. b \in BOOLEAN
      OBVIOUS
    <3>3. held'[c][k] = RecoverAdopt(store[k], b) \/ held'[c][k] = RecoverFence(store[k])
      BY <1>3, <1>5, <2>2
    <3> HIDE DEF b
    <3>4. Adopted(c, k)
      BY <3>1, <3>2, <3>3, RecoverEntryLease DEF Adopted
    <3> QED
      BY <2>1, <3>1, <3>4
  <2>3. CASE k \notin adopted \cup kept
    <3>1. held'[c][k] = held[c][k]
      BY <1>3, <1>5, <2>3
    <3> QED
      BY <2>1, <3>1
  <2> QED
    BY <2>2, <2>3
<1>8. OwnStep(c)
  BY <1>6, <1>7 DEF OwnStep, Kept, Holds
<1>9. ASSUME HeldKeys(c) = {} PROVE LiveStep(c)
  <2>1. \A k \in Keys : held[c][k] = NotHeld
    BY <1>9 DEF HeldKeys, Holds
  <2> QED
    BY <1>7, <2>1 DEF LiveStep, Live
<1> QED
  BY <1>8, <1>9

LEMMA CrashOwn ==
  ASSUME LeaseInv, NEW c \in Clusters, Crash(c)
  PROVE  OwnStep(c) /\ LiveStep(c)
<1>1. held \in [Clusters -> [Keys -> HeldClaim \cup {NotHeld}]]
  BY DEF LeaseInv, TypeInv, TypeOK
<1>2. /\ \A d \in Clusters \ {c} : held'[d] = held[d]
      /\ \A k \in Keys : held'[c][k] = NotHeld /\ store'[k] = store[k]
  BY <1>1 DEF Crash, Dropped
<1> QED
  BY <1>2 DEF OwnStep, LiveStep, Live

-----------------------------------------------------------------------------
(* The invariant.                                                           *)

\* A step that frees or adopts only its own claims and starts no acquire.
LEMMA OwnStepKeeps ==
  ASSUME LeaseInv, NEW c \in Clusters, OwnStep(c),
         \A d \in Clusters : op'[d].pc = "acquire" => op'[d] = op[d]
  PROVE  TokenInv' /\ AcquireInv'
<1>1. TokenInv'
  <2> SUFFICES ASSUME NEW d \in Clusters, NEW k \in Keys, held'[d][k] # NotHeld,
                      store'[k] # Free, store'[k].token = held'[d][k].token
               PROVE  store'[k].holder = d
    BY DEF TokenInv, CurrentToken, Holds
  <2>1. store'[k] = store[k]
    BY DEF OwnStep
  <2>2. CASE d # c
    <3>1. held'[d][k] = held[d][k]
      BY <2>2 DEF OwnStep
    <3> QED
      BY <2>1, <3>1 DEF LeaseInv, TokenInv, CurrentToken, Holds
  <2>3. CASE d = c
    <3>1. Kept(c, k) \/ Adopted(c, k)
      BY <2>3 DEF OwnStep
    <3> QED
      BY <2>1, <2>3, <3>1 DEF LeaseInv, TokenInv, CurrentToken, Kept, Adopted, HeldByUs, Holds
  <2> QED
    BY <2>2, <2>3
<1>2. AcquireInv'
  <2> SUFFICES ASSUME NEW d \in Clusters, op'[d].pc = "acquire", store'[op'[d].key] # Free
               PROVE  \/ store'[op'[d].key].left <= -TakeoverGrace
                      \/ store'[op'[d].key].left >= LeaseDuration - op'[d].age
    BY DEF AcquireInv
  <2>1. op'[d] = op[d]
    OBVIOUS
  <2>2. op[d].key \in Keys
    BY <2>1, ConstantsAssumption DEF LeaseInv, TypeInv, OpShape
  <2>3. store'[op[d].key] = store[op[d].key]
    BY <2>1, <2>2 DEF OwnStep
  <2> QED
    BY <2>1, <2>3 DEF LeaseInv, AcquireInv
<1> QED
  BY <1>1, <1>2

\* A fresh token is in nobody's held set.
LEMMA FreshIsNew ==
  ASSUME NEW token, FreshToken(token), NEW c \in Clusters, NEW k \in Keys, Holds(c, k)
  PROVE  held[c][k].token # token
<1>1. k \in HeldKeys(c)
  BY DEF HeldKeys
<1>2. held[c][k].token \in {held[c][j].token : j \in HeldKeys(c)}
  BY <1>1
<1>3. held[c][k].token \in TokensInUse
  BY <1>2 DEF TokensInUse
<1> QED
  BY <1>3 DEF FreshToken

\* A write with a fresh token, by the executor that gets it.
LEMMA WriteKeeps ==
  ASSUME LeaseInv, NEW c \in Clusters, NEW k \in Keys, NEW t \in Tasks, NEW token \in Tokens,
         FreshToken(token), store' = [store EXCEPT ![k] = Written(c, t, token)],
         \A d \in Clusters \ {c} : held'[d] = held[d],
         \A j \in Keys \ {k} : held'[c][j] = held[c][j],
         \A d \in Clusters : op'[d].pc = "acquire" => op'[d] = op[d]
  PROVE  TokenInv' /\ AcquireInv'
<1>1. store \in [Keys -> Claim \cup {Free}] /\ op \in [Clusters -> Op]
  BY DEF LeaseInv, TypeInv, TypeOK
<1>2. /\ store'[k].holder = c /\ store'[k].token = token /\ store'[k].left = LeaseDuration
      /\ \A j \in Keys \ {k} : store'[j] = store[j]
  BY <1>1 DEF Written
<1>3. TokenInv'
  <2> SUFFICES ASSUME NEW d \in Clusters, NEW j \in Keys, held'[d][j] # NotHeld,
                      store'[j] # Free, store'[j].token = held'[d][j].token
               PROVE  store'[j].holder = d
    BY DEF TokenInv, CurrentToken, Holds
  <2>1. CASE j # k
    <3>1. held'[d][j] = held[d][j] /\ store'[j] = store[j]
      BY <1>2, <2>1
    <3> QED
      BY <3>1 DEF LeaseInv, TokenInv, CurrentToken, Holds
  <2>2. CASE j = k /\ d # c
    <3>1. held'[d][j] = held[d][j]
      BY <2>2
    <3> QED
      BY <1>2, <2>2, <3>1, FreshIsNew DEF Holds
  <2>3. CASE j = k /\ d = c
    BY <1>2, <2>3
  <2> QED
    BY <2>1, <2>2, <2>3
<1>4. AcquireInv'
  <2> SUFFICES ASSUME NEW d \in Clusters, op'[d].pc = "acquire", store'[op'[d].key] # Free
               PROVE  \/ store'[op'[d].key].left <= -TakeoverGrace
                      \/ store'[op'[d].key].left >= LeaseDuration - op'[d].age
    BY DEF AcquireInv
  <2>1. op'[d] = op[d]
    OBVIOUS
  <2>2. op[d].key \in Keys
    BY <2>1, ConstantsAssumption DEF LeaseInv, TypeInv, OpShape
  <2>3. CASE op[d].key = k
    <3>1. op[d].age \in Nat
      BY <1>1, Numbers DEF Op
    <3> QED
      BY <1>2, <2>1, <2>3, <3>1, Numbers
  <2>4. CASE op[d].key # k
    BY <1>2, <2>1, <2>2, <2>4 DEF LeaseInv, AcquireInv
  <2> QED
    BY <2>3, <2>4
<1> QED
  BY <1>3, <1>4

LEMMA AcquireKeeps ==
  ASSUME LeaseInv, NEW c \in Clusters, Acquire(c)
  PROVE  TokenInv' /\ AcquireInv'
<1> DEFINE t == op[c].task
           k == op[c].key
<1>1. op[c].pc = "acquire"
  BY DEF Acquire
<1>2. t \in Tasks /\ k \in Keys
  BY <1>1, ConstantsAssumption DEF LeaseInv, TypeInv, OpShape
<1>3. op \in [Clusters -> Op] /\ held \in [Clusters -> [Keys -> HeldClaim \cup {NotHeld}]]
  BY DEF LeaseInv, TypeInv, TypeOK
<1>4. \A d \in Clusters : op'[d].pc = "acquire" => op'[d] = op[d]
  <2>1. Finish(c) \/ op' = [op EXCEPT ![c].pc = "readBack"]
    BY DEF Acquire
  <2>2. op'[c].pc \in {"idle", "readBack"} /\ \A d \in Clusters \ {c} : op'[d] = op[d]
    BY <1>1, <2>1, FinishType, ReadBackOpType DEF LeaseInv, TypeInv
  <2> QED
    BY <2>2
<1>5. CASE UNCHANGED <<store, held>>
  <2>1. OwnStep(c)
    BY <1>5, SameIsOwn
  <2> QED
    BY <1>4, <2>1, OwnStepKeeps
<1>6. ASSUME NEW token \in Tokens, FreshToken(token),
             store' = [store EXCEPT ![k] = Written(c, t, token)],
             \/ held' = [held EXCEPT ![c][k] =
                          NewHeld(t, token, LeaseDuration, AtMost(op[c].age, RenewInterval))]
             \/ UNCHANGED held
      PROVE  TokenInv' /\ AcquireInv'
  <2>1. /\ \A d \in Clusters \ {c} : held'[d] = held[d]
        /\ \A j \in Keys \ {k} : held'[c][j] = held[c][j]
    BY <1>3, <1>6
  <2> HIDE DEF t, k
  <2> QED
    BY <1>2, <1>4, <1>6, <2>1, WriteKeeps
<1> QED
  BY <1>5, <1>6 DEF Acquire

LEMMA RenewClaimKeeps ==
  ASSUME LeaseInv, NEW c \in Clusters, RenewClaim(c)
  PROVE  TokenInv' /\ AcquireInv'
<1>1. PICK k \in op[c].todo :
        Renewable(c, k) /\ (RenewLands(c, k) \/ RenewRefused(c, k) \/ RenewFails(c, k))
  BY DEF RenewClaim
<1>2. /\ op \in [Clusters -> Op] /\ held \in [Clusters -> [Keys -> HeldClaim \cup {NotHeld}]]
      /\ k \in Keys
  BY DEF LeaseInv, TypeInv, TypeOK, Op
<1>3. Holds(c, k) /\ held[c][k] \in HeldClaim /\ held[c][k].task \in Tasks
  BY <1>1, <1>2 DEF Renewable, Holds, HeldClaim
<1>4. \A d \in Clusters : op'[d].pc = "acquire" => op'[d] = op[d]
  <2>1. "fenceAfterRenew" \in TickPhases /\ "fenceBeforeRead" \in TickPhases
    BY DEF TickPhases
  <2>2. RenewGoTo(c, k, "fenceAfterRenew") \/ RenewGoTo(c, k, "fenceBeforeRead")
    BY <1>1 DEF RenewLands, RenewRefused, RenewFails
  <2>3. /\ op'[c].pc \in {"fenceAfterRenew", "fenceBeforeRead"}
        /\ \A d \in Clusters \ {c} : op'[d] = op[d]
    BY <1>2, <2>1, <2>2, RenewOpType DEF LeaseInv, TypeInv
  <2> QED
    BY <2>3
<1>5. CASE RenewLands(c, k)
  <2>1. PICK token \in Tokens :
          /\ FreshToken(token)
          /\ store' = [store EXCEPT ![k] = Written(c, held[c][k].task, token)]
          /\ \/ held' = [held EXCEPT ![c][k] = Renewed(held[c][k], token)]
             \/ held' = [held EXCEPT ![c][k] = RenewAsked(held[c][k])]
    BY <1>5 DEF RenewLands
  <2>2. /\ \A d \in Clusters \ {c} : held'[d] = held[d]
        /\ \A j \in Keys \ {k} : held'[c][j] = held[c][j]
    BY <1>2, <2>1
  <2> DEFINE t == held[c][k].task
  <2>3. t \in Tasks /\ k \in Keys /\ FreshToken(token)
        /\ store' = [store EXCEPT ![k] = Written(c, t, token)]
    BY <1>2, <1>3, <2>1
  <2> HIDE DEF t
  <2> QED
    BY <1>4, <2>2, <2>3, WriteKeeps
<1>6. CASE RenewRefused(c, k)
  <2>1. OwnStep(c)
    BY <1>2, <1>3, <1>6, ClaimLostOwn DEF RenewRefused
  <2> QED
    BY <1>4, <2>1, OwnStepKeeps
<1>7. CASE RenewFails(c, k)
  <2>1. OwnStep(c)
    BY <1>2, <1>3, <1>7, RenewFailsOwn
  <2> QED
    BY <1>4, <2>1, OwnStepKeeps
<1> QED
  BY <1>1, <1>5, <1>6, <1>7

LEMMA ClaimAttemptKeeps ==
  ASSUME LeaseInv, NEW c \in Clusters, NEW t \in Tasks, ClaimPair(c, t) \/ TakeoverPair(c, t)
  PROVE  TokenInv' /\ AcquireInv'
<1>1. UNCHANGED <<store, held>>
  BY DEF ClaimPair, TakeoverPair
<1>2. OwnStep(c)
  BY <1>1, SameIsOwn
<1>3. CASE UNCHANGED op
  BY <1>2, <1>3, OwnStepKeeps
<1>4. ASSUME NEW b \in BOOLEAN, StartAcquire(c, t, b),
             store[KeyOf[t]] = Free \/ TakeoverAllowed(store[KeyOf[t]].left)
      PROVE  TokenInv' /\ AcquireInv'
  <2>1. /\ \A d \in Clusters \ {c} : op'[d] = op[d]
        /\ op'[c].pc = "acquire" /\ op'[c].key = KeyOf[t]
    BY <1>4, StartAcquireType DEF LeaseInv
  <2>2. TokenInv'
    BY <1>1 DEF LeaseInv, TokenInv, CurrentToken, Holds
  <2>3. AcquireInv'
    <3> SUFFICES ASSUME NEW d \in Clusters, op'[d].pc = "acquire", store'[op'[d].key] # Free
                 PROVE  \/ store'[op'[d].key].left <= -TakeoverGrace
                        \/ store'[op'[d].key].left >= LeaseDuration - op'[d].age
      BY DEF AcquireInv
    <3>1. CASE d = c
      BY <1>1, <1>4, <2>1, <3>1 DEF TakeoverAllowed
    <3>2. CASE d # c
      BY <1>1, <2>1, <3>2 DEF LeaseInv, AcquireInv
    <3> QED
      BY <3>1, <3>2
  <2> QED
    BY <2>2, <2>3
<1>5. CASE ClaimPair(c, t)
  <2>1. CASE store[KeyOf[t]] = Free /\ StartAcquire(c, t, FALSE)
    BY <1>4, <2>1
  <2> QED
    BY <1>3, <1>5, <2>1 DEF ClaimPair
<1>6. CASE TakeoverPair(c, t)
  <2>1. CASE /\ StartAcquire(c, t, TRUE)
             /\ store[KeyOf[t]] # Free => TakeoverAllowed(store[KeyOf[t]].left)
    BY <1>4, <2>1
  <2> QED
    BY <1>3, <1>6, <2>1 DEF TakeoverPair
<1> QED
  BY <1>5, <1>6

LEMMA ElapseKeeps ==
  ASSUME LeaseInv, TypeInv', Elapse
  PROVE  TokenInv' /\ AcquireInv'
<1>1. /\ store \in [Keys -> Claim \cup {Free}] /\ op \in [Clusters -> Op]
      /\ held \in [Clusters -> [Keys -> HeldClaim \cup {NotHeld}]]
  BY DEF LeaseInv, TypeInv, TypeOK
<1>2. ASSUME NEW k \in Keys, store'[k] # Free
      PROVE  /\ store[k] # Free /\ store'[k].token = store[k].token
             /\ store'[k].holder = store[k].holder /\ store'[k].left = Nearer(store[k].left)
  <2>1. store[k] # Free /\ store'[k] = [store[k] EXCEPT !.left = Nearer(@)]
    BY <1>2 DEF Elapse
  <2>2. store[k] \in Claim
    BY <1>1, <2>1
  <2> QED
    BY <2>1, <2>2 DEF Claim
<1>3. ASSUME NEW c \in Clusters, NEW k \in Keys, held'[c][k] # NotHeld
      PROVE  held[c][k] # NotHeld /\ held'[c][k].token = held[c][k].token
  <2>1. held[c][k] # NotHeld /\ held'[c][k] = Aged(held[c][k])
    BY <1>3 DEF Elapse
  <2>2. held[c][k] \in HeldClaim
    BY <1>1, <2>1
  <2> QED
    BY <2>1, <2>2 DEF Aged, HeldClaim
<1>4. TokenInv'
  BY <1>2, <1>3 DEF LeaseInv, TokenInv, CurrentToken, Holds
<1>5. AcquireInv'
  <2> SUFFICES ASSUME NEW c \in Clusters, op'[c].pc = "acquire", store'[op'[c].key] # Free
               PROVE  \/ store'[op'[c].key].left <= -TakeoverGrace
                      \/ store'[op'[c].key].left >= LeaseDuration - op'[c].age
    BY DEF AcquireInv
  <2>1. op[c].pc = "acquire" /\ op'[c].key = op[c].key /\ op'[c].age = op[c].age + 1
    BY <1>1 DEF Elapse, Op
  <2>2. op[c].key \in Keys
    BY <2>1, ConstantsAssumption DEF LeaseInv, TypeInv, OpShape
  <2> DEFINE k == op[c].key
  <2>3. store[k] # Free /\ store'[k].left = Nearer(store[k].left)
    BY <1>2, <2>1, <2>2
  <2>4. store[k].left \in Int /\ op[c].age \in Int
    BY <1>1, <2>2, <2>3, Numbers DEF Claim, Lefts, Op
  <2>5. store[k].left <= -TakeoverGrace \/ store[k].left >= LeaseDuration - op[c].age
    BY <2>1, <2>3 DEF LeaseInv, AcquireInv
  <2> QED
    BY <2>1, <2>3, <2>4, <2>5, Numbers DEF Nearer, AtLeast
<1> QED
  BY <1>4, <1>5

\* A tick never leaves the mutex at an acquire.
LEMMA TickOp ==
  ASSUME LeaseInv, NEW c \in Clusters, RetryPendingDeletions(c) \/ TickStep(c)
  PROVE  /\ op'[c].pc \notin {"acquire", "readBack"}
         /\ \A d \in Clusters \ {c} : op'[d] = op[d]
<1> DEFINE Goal == /\ op'[c].pc \notin {"acquire", "readBack"}
                   /\ \A d \in Clusters \ {c} : op'[d] = op[d]
<1>1. TypeOK /\ op \in [Clusters -> Op] /\ op[c] \in Op /\ op[c].todo \in SUBSET Keys
  BY DEF LeaseInv, TypeInv, TypeOK, Op
<1>2. ASSUME NEW pc \in {"fence", "releases", "holds", "jobless", "recheck"}, GoTo(c, pc) PROVE Goal
  <2>1. op'[c].pc \in {"idle", pc} /\ \A d \in Clusters \ {c} : op'[d] = op[d]
    BY <1>1, <1>2, GoToType
  <2> QED
    BY <2>1
<1>3. ASSUME NEW todo \in SUBSET Keys, RenewPass(c, todo) PROVE Goal
  <2>1. op'[c].pc \in {"idle", "renew"} /\ \A d \in Clusters \ {c} : op'[d] = op[d]
    BY <1>1, <1>3, RenewPassType
  <2> QED
    BY <2>1
<1>4. ASSUME NEW pc \in {"renewReadBack", "fenceAfterRenew"}, op' = [op EXCEPT ![c].pc = pc] PROVE Goal
  BY <1>1, <1>4 DEF Op
<1> SUFFICES Goal
  OBVIOUS
<1> HIDE DEF Goal
<1>5. CASE RetryPendingDeletions(c)
  BY <1>2, <1>5 DEF RetryPendingDeletions
<1>6. CASE EvaluateFence(c)
  <2>1. \/ GoTo(c, "releases") \/ RenewPass(c, op[c].todo)
        \/ op' = [op EXCEPT ![c].pc = "renewReadBack"]
    BY <1>6 DEF EvaluateFence
  <2> QED
    BY <1>1, <1>2, <1>3, <1>4, <2>1
<1>7. CASE RetryPendingReleases(c) \/ ReleaseExpiredHolds(c) \/ ReleaseJoblessClaims(c)
  BY <1>2, <1>7 DEF RetryPendingReleases, ReleaseExpiredHolds, ReleaseJoblessClaims
<1>8. CASE RecheckRunning(c)
  BY <1>3, <1>8 DEF RecheckRunning
<1>9. CASE SkipRenew(c)
  <2>1. PICK k : RenewPass(c, op[c].todo \ {k})
    BY <1>9 DEF SkipRenew
  <2>2. op[c].todo \ {k} \in SUBSET Keys
    BY <1>1
  <2> QED
    BY <1>3, <2>1, <2>2
<1>10. CASE RenewClaim(c)
  <2>1. PICK k \in op[c].todo : RenewGoTo(c, k, "fenceAfterRenew") \/ RenewGoTo(c, k, "fenceBeforeRead")
    BY <1>10 DEF RenewClaim, RenewLands, RenewRefused, RenewFails
  <2>2. "fenceAfterRenew" \in TickPhases /\ "fenceBeforeRead" \in TickPhases /\ k \in Keys
    BY <1>1 DEF TickPhases
  <2>3. /\ op'[c].pc \in {"fenceAfterRenew", "fenceBeforeRead"}
        /\ \A d \in Clusters \ {c} : op'[d] = op[d]
    BY <1>1, <2>1, <2>2, RenewOpType
  <2> QED
    BY <2>3 DEF Goal
<1>11. CASE RenewReadBack(c)
  BY <1>4, <1>11 DEF RenewReadBack
<1> QED
  BY <1>5, <1>6, <1>7, <1>8, <1>9, <1>10, <1>11 DEF TickStep

\* The passes of a tick other than the renew free and adopt only their own claims.
LEMMA TickOwn ==
  ASSUME LeaseInv, NEW c \in Clusters, RetryPendingDeletions(c) \/ TickStep(c), ~RenewClaim(c)
  PROVE  OwnStep(c) /\ LiveStep(c)
<1>1. CASE RetryPendingDeletions(c)
  BY <1>1, RetryPendingDeletionsOwn
<1>2. CASE EvaluateFence(c)
  BY <1>2, FenceOwn DEF EvaluateFence
<1>3. CASE RetryPendingReleases(c)
  <2>1. {k \in HeldKeys(c) : held[c][k].releasePending} \in SUBSET HeldKeys(c)
    OBVIOUS
  <2> QED
    BY <1>3, <2>1, ReleaseRefsOwn DEF RetryPendingReleases
<1>4. CASE ReleaseExpiredHolds(c)
  <2>1. {k \in HeldKeys(c) : held[c][k].hold = 0} \in SUBSET HeldKeys(c)
    OBVIOUS
  <2> QED
    BY <1>4, <2>1, ReleaseLockedOwn DEF ReleaseExpiredHolds
<1>5. CASE ReleaseJoblessClaims(c)
  BY <1>5, ReleaseJoblessClaimsOwn
<1>6. CASE RecheckRunning(c)
  BY <1>6, RecheckRunningOwn
<1>7. CASE SkipRenew(c)
  BY <1>7, SameIsOwn DEF SkipRenew
<1>8. CASE RenewReadBack(c)
  BY <1>8, RenewReadBackOwn
<1> QED
  BY <1>1, <1>2, <1>3, <1>4, <1>5, <1>6, <1>7, <1>8 DEF TickStep

\* The steps outside the tick that free or adopt only their own claims.
LEMMA OtherOwn ==
  ASSUME LeaseInv, NEW c \in Clusters, NEW t \in Tasks, NEW k \in Keys,
         \/ SpawnJob(c, t) \/ ReleaseFailedSpawn(c, t) \/ JobEnds(c, t)
         \/ ReleaseTaskClaim(c, k) \/ ReleaseAfterSuccess(c, k)
  PROVE  OwnStep(c) /\ LiveStep(c) /\ UNCHANGED op
<1>1. CASE SpawnJob(c, t) \/ JobEnds(c, t)
  BY <1>1, SameIsOwn DEF SpawnJob, JobEnds
<1>2. CASE ReleaseFailedSpawn(c, t)
  BY <1>2, ReleaseFailedSpawnOwn DEF ReleaseFailedSpawn
<1>3. CASE ReleaseTaskClaim(c, k) \/ ReleaseAfterSuccess(c, k)
  <2>1. OwnStep(c) /\ LiveStep(c)
    BY <1>3, ReleaseTaskClaimOwn
  <2>2. UNCHANGED op
    BY <1>3 DEF ReleaseTaskClaim, ReleaseAfterSuccess
  <2> QED
    BY <2>1, <2>2
<1> QED
  BY <1>1, <1>2, <1>3

\* One step of one executor or of the clock.
LEMMA NextCases ==
  ASSUME Next
  PROVE  \/ Elapse
         \/ \E c \in Clusters :
              \/ \E t \in Tasks : \/ ClaimPair(c, t) \/ TakeoverPair(c, t)
                                  \/ SpawnJob(c, t) \/ ReleaseFailedSpawn(c, t) \/ JobEnds(c, t)
              \/ \E k \in Keys : ReleaseTaskClaim(c, k) \/ ReleaseAfterSuccess(c, k)
              \/ Acquire(c) \/ ReadBackRecovery(c)
              \/ RetryPendingDeletions(c) \/ TickStep(c)
              \/ Crash(c) \/ Restart(c) \/ Recover(c) \/ RecoverGivesUp(c)
BY DEF Next

LEMMA RestartOwn ==
  ASSUME LeaseInv, NEW c \in Clusters,
         \/ ReadBackRecovery(c) \/ Crash(c) \/ Restart(c) \/ Recover(c) \/ RecoverGivesUp(c)
  PROVE  OwnStep(c) /\ \A d \in Clusters : op'[d].pc = "acquire" => op'[d] = op[d]
<1>1. CASE ReadBackRecovery(c) \/ Crash(c)
  <2>1. OwnStep(c)
    BY <1>1, ReadBackRecoveryOwn, CrashOwn
  <2>2. Finish(c)
    BY <1>1 DEF ReadBackRecovery, Crash, Finish
  <2>3. op'[c].pc = "idle" /\ \A d \in Clusters \ {c} : op'[d] = op[d]
    BY <2>2, FinishType DEF LeaseInv, TypeInv
  <2> QED
    BY <2>1, <2>3
<1>2. CASE Restart(c) \/ RecoverGivesUp(c)
  BY <1>2, SameIsOwn DEF Restart, RecoverGivesUp
<1>3. CASE Recover(c)
  <2>1. OwnStep(c)
    BY <1>3, RecoverOwn
  <2> QED
    BY <1>3, <2>1 DEF Recover
<1> QED
  BY <1>1, <1>2, <1>3

LEMMA LeaseNext == LeaseInv /\ [Next]_vars => LeaseInv'
<1> SUFFICES ASSUME LeaseInv, [Next]_vars PROVE LeaseInv'
  OBVIOUS
<1>1. TypeInv'
  BY NextType DEF LeaseInv
<1> SUFFICES TokenInv' /\ AcquireInv'
  BY <1>1 DEF LeaseInv
<1>2. CASE UNCHANGED vars
  BY <1>2 DEF vars, LeaseInv, TokenInv, AcquireInv, CurrentToken, Holds
<1>3. CASE Elapse
  BY <1>1, <1>3, ElapseKeeps
<1>4. ASSUME NEW c \in Clusters, NEW t \in Tasks, ClaimPair(c, t) \/ TakeoverPair(c, t)
      PROVE  TokenInv' /\ AcquireInv'
  BY <1>4, ClaimAttemptKeeps
<1>5. ASSUME NEW c \in Clusters, NEW t \in Tasks,
             SpawnJob(c, t) \/ ReleaseFailedSpawn(c, t) \/ JobEnds(c, t)
      PROVE  TokenInv' /\ AcquireInv'
  <2>1. KeyOf[t] \in Keys
    BY ConstantsAssumption
  <2>2. OwnStep(c) /\ UNCHANGED op
    BY <1>5, <2>1, OtherOwn
  <2> QED
    BY <2>2, OwnStepKeeps
<1>6. ASSUME NEW c \in Clusters, NEW k \in Keys,
             ReleaseTaskClaim(c, k) \/ ReleaseAfterSuccess(c, k)
      PROVE  TokenInv' /\ AcquireInv'
  <2>1. OwnStep(c) /\ UNCHANGED op
    BY <1>6, ReleaseTaskClaimOwn DEF ReleaseTaskClaim, ReleaseAfterSuccess
  <2> QED
    BY <2>1, OwnStepKeeps
<1>7. ASSUME NEW c \in Clusters, Acquire(c) PROVE TokenInv' /\ AcquireInv'
  BY <1>7, AcquireKeeps
<1>8. ASSUME NEW c \in Clusters, RetryPendingDeletions(c) \/ TickStep(c)
      PROVE  TokenInv' /\ AcquireInv'
  <2>1. CASE RenewClaim(c)
    BY <2>1, RenewClaimKeeps
  <2>2. CASE ~RenewClaim(c)
    <3>1. OwnStep(c)
      BY <1>8, <2>2, TickOwn
    <3>2. \A d \in Clusters : op'[d].pc = "acquire" => op'[d] = op[d]
      BY <1>8, TickOp
    <3> QED
      BY <3>1, <3>2, OwnStepKeeps
  <2> QED
    BY <2>1, <2>2
<1>9. ASSUME NEW c \in Clusters,
             \/ ReadBackRecovery(c) \/ Crash(c) \/ Restart(c) \/ Recover(c) \/ RecoverGivesUp(c)
      PROVE  TokenInv' /\ AcquireInv'
  BY <1>9, RestartOwn, OwnStepKeeps
<1> QED
  BY <1>2, <1>3, <1>4, <1>5, <1>6, <1>7, <1>8, <1>9, NextCases

LEMMA LeaseInit == Init => LeaseInv
<1> SUFFICES ASSUME Init PROVE LeaseInv
  OBVIOUS
<1>1. TypeInv
  BY InitType
<1>2. TokenInv
  BY DEF Init, TokenInv, CurrentToken, Holds
<1>3. AcquireInv
  BY DEF Init, AcquireInv, Idle
<1> QED
  BY <1>1, <1>2, <1>3 DEF LeaseInv

LEMMA LeaseInvariant == Spec => []LeaseInv
<1> QED
  BY LeaseInit, LeaseNext, PTL DEF Spec

-----------------------------------------------------------------------------
(* No takeover inside the grace.                                            *)

\* The store accepts an acquire of an expired lease; the read before it and the bound on
\* the time in between leave only leases past their grace.
LEMMA AcquireGuard ==
  ASSUME LeaseInv, NEW c \in Clusters, op[c].pc = "acquire", ~Refuses(op[c].key),
         store[op[c].key] # Free
  PROVE  store[op[c].key].left <= -TakeoverGrace
<1> DEFINE k == op[c].key
<1>1. k \in Keys
  BY ConstantsAssumption DEF LeaseInv, TypeInv, OpShape
<1>2. store[k].left \in Int /\ store[k].left <= 0
  BY <1>1, Numbers DEF LeaseInv, TypeInv, TypeOK, Claim, Lefts, Refuses
<1>3. op[c].age \in 0 .. OpTime
  BY DEF LeaseInv, TypeInv, TypeOK, Op
<1>4. LeaseDuration - op[c].age > 0
  BY <1>3, TimingAssumption, Numbers
<1>5. store[k].left <= -TakeoverGrace \/ store[k].left >= LeaseDuration - op[c].age
  BY DEF LeaseInv, AcquireInv
<1> QED
  BY <1>2, <1>3, <1>4, <1>5, Numbers

Replaced(k) ==
  store[k] # Free /\ store'[k] # Free /\ store'[k].holder # store[k].holder

LEMMA OwnStepReplaces ==
  ASSUME NEW c \in Clusters, OwnStep(c), NEW k \in Keys
  PROVE  ~Replaced(k)
BY DEF OwnStep, Replaced

LEMMA StepReplaces ==
  ASSUME LeaseInv, Next, NEW k \in Keys, Replaced(k)
  PROVE  store[k].left <= -TakeoverGrace
<1>1. store \in [Keys -> Claim \cup {Free}]
  BY DEF LeaseInv, TypeInv, TypeOK
<1>2. CASE Elapse
  <2>1. store'[k] = [store[k] EXCEPT !.left = Nearer(@)] /\ store[k] \in Claim
    BY <1>1, <1>2 DEF Elapse, Replaced
  <2>2. store'[k].holder = store[k].holder
    BY <2>1 DEF Claim
  <2> QED
    BY <2>2 DEF Replaced
<1>3. ASSUME NEW c \in Clusters, OwnStep(c) PROVE FALSE
  BY <1>3, OwnStepReplaces
<1>4. ASSUME NEW c \in Clusters, NEW t \in Tasks, ClaimPair(c, t) \/ TakeoverPair(c, t)
      PROVE  FALSE
  <2>1. UNCHANGED <<store, held>>
    BY <1>4 DEF ClaimPair, TakeoverPair
  <2> QED
    BY <1>3, <2>1, SameIsOwn
<1>5. ASSUME NEW c \in Clusters, NEW t \in Tasks,
             SpawnJob(c, t) \/ ReleaseFailedSpawn(c, t) \/ JobEnds(c, t)
      PROVE  FALSE
  BY <1>3, <1>5, OtherOwn
<1>6. ASSUME NEW c \in Clusters, NEW j \in Keys,
             ReleaseTaskClaim(c, j) \/ ReleaseAfterSuccess(c, j)
      PROVE  FALSE
  BY <1>3, <1>6, ReleaseTaskClaimOwn
<1>7. ASSUME NEW c \in Clusters, Acquire(c)
      PROVE  store[k].left <= -TakeoverGrace
  <2>1. op[c].pc = "acquire"
    BY <1>7 DEF Acquire
  <2>2. \/ UNCHANGED store
        \/ /\ ~Refuses(op[c].key)
           /\ \E token \in Tokens :
                store' = [store EXCEPT ![op[c].key] = Written(c, op[c].task, token)]
    BY <1>7 DEF Acquire
  <2>3. store'[k] # store[k]
    BY DEF Replaced
  <2>4. ~Refuses(op[c].key) /\ k = op[c].key
    BY <1>1, <2>2, <2>3
  <2> QED
    BY <2>1, <2>4, AcquireGuard DEF Replaced
<1>8. ASSUME NEW c \in Clusters, RenewClaim(c) PROVE FALSE
  <2>1. PICK j \in op[c].todo :
          Renewable(c, j) /\ (RenewLands(c, j) \/ RenewRefused(c, j) \/ RenewFails(c, j))
    BY <1>8 DEF RenewClaim
  <2>2. j \in Keys
    BY DEF LeaseInv, TypeInv, TypeOK, Op
  <2>3. CASE UNCHANGED store
    BY <2>3 DEF Replaced
  <2>4. CASE RenewLands(c, j)
    <3>1. PICK token \in Tokens : store' = [store EXCEPT ![j] = Written(c, held[c][j].task, token)]
      BY <2>4 DEF RenewLands
    <3>2. store[j].holder = c
      BY <2>2, <2>4 DEF RenewLands, LeaseInv, TokenInv
    <3>3. store'[j].holder = c /\ \A i \in Keys \ {j} : store'[i] = store[i]
      BY <1>1, <2>2, <3>1 DEF Written
    <3> QED
      BY <3>2, <3>3 DEF Replaced
  <2> QED
    BY <2>1, <2>3, <2>4 DEF RenewRefused, RenewFails
<1>9. ASSUME NEW c \in Clusters, RetryPendingDeletions(c) \/ TickStep(c)
      PROVE  FALSE
  BY <1>3, <1>8, <1>9, TickOwn
<1>10. ASSUME NEW c \in Clusters,
              \/ ReadBackRecovery(c) \/ Crash(c) \/ Restart(c) \/ Recover(c) \/ RecoverGivesUp(c)
       PROVE  FALSE
  BY <1>3, <1>10, RestartOwn
<1> QED
  BY <1>2, <1>4, <1>5, <1>6, <1>7, <1>9, <1>10, NextCases

\* Whatever is lost, fails, crashes or interleaves, no executor's acquire ever replaces
\* another's claim before its lease has been over for TakeoverGrace.  It does not rest on
\* Recover running before the dispatches.
THEOREM TakeoverAfterGrace == Spec => NoEarlyTakeover
<1>1. ASSUME LeaseInv, [Next]_vars
      PROVE  [\A k \in Keys :
                /\ store[k] # Free /\ store'[k] # Free
                /\ store'[k].holder # store[k].holder
                => store[k].left <= -TakeoverGrace]_vars
  BY <1>1, StepReplaces DEF Replaced
<1> QED
  BY <1>1, LeaseInvariant, PTL DEF Spec, NoEarlyTakeover

-----------------------------------------------------------------------------
(* What an executor believes it holds is its own.                           *)

(* A live entry is backed by this executor's claim, which outlives it.      *)
Covered ==
  \A c \in Clusters, k \in Keys :
    Live(held[c][k]) /\ held[c][k].left > -TakeoverGrace
      => HeldByUs(c, k) /\ store[k].left >= held[c][k].left

(* An executor acquires only keys it has no entry for.                      *)
AcquiringNotHeld ==
  \A c \in Clusters : op[c].pc \in {"acquire", "readBack"} => ~Holds(c, op[c].key)

(* Before Recover has run an executor has neither claims nor spawns.        *)
NothingBeforeRecover ==
  \A c \in Clusters \ recovered :
    /\ op[c].pc = "idle"
    /\ \A k \in Keys : held[c][k] = NotHeld
    /\ \A t \in Tasks : spawn[c][t].pc = "idle"

ExclusionInv ==
  LeaseInv /\ (RecoverFirst => Covered /\ AcquiringNotHeld /\ NothingBeforeRecover)

\* The part about one executor's step is shown for every kind of step.
LEMMA OwnStepExcludes ==
  ASSUME ExclusionInv, RecoverFirst, NEW c \in Clusters, OwnStep(c), LiveStep(c),
         c \in recovered', recovered \subseteq recovered',
         \A d \in Clusters \ {c} : op'[d] = op[d] /\ spawn'[d] = spawn[d],
         \/ op'[c].pc \notin {"acquire", "readBack"}
         \/ op'[c] = op[c] /\ held'[c] = held[c]
  PROVE  (Covered /\ AcquiringNotHeld /\ NothingBeforeRecover)'
<1>1. Covered'
  <2> SUFFICES ASSUME NEW d \in Clusters, NEW k \in Keys, Live(held'[d][k]),
                      held'[d][k].left > -TakeoverGrace
               PROVE  /\ store'[k] # Free /\ store'[k].holder = d
                      /\ store'[k].left >= held'[d][k].left
    BY DEF Covered, HeldByUs, Live
  <2>1. CASE d # c
    <3>1. held'[d][k] = held[d][k]
      BY <2>1 DEF OwnStep
    <3>2. HeldByUs(d, k) /\ store[k].left >= held[d][k].left
      BY <3>1 DEF ExclusionInv, Covered
    <3>3. store'[k] = store[k]
      BY <2>1, <3>2 DEF OwnStep, HeldByUs
    <3> QED
      BY <3>1, <3>2, <3>3 DEF HeldByUs
  <2>2. CASE d = c
    <3>1. store'[k] = store[k] /\ ((Live(held[c][k]) /\ Kept(c, k)) \/ Adopted(c, k))
      BY <2>2 DEF LiveStep
    <3>2. CASE Live(held[c][k]) /\ Kept(c, k)
      <4>1. held'[c][k].left = held[c][k].left
        BY <3>2 DEF Kept
      <4>2. HeldByUs(c, k) /\ store[k].left >= held[c][k].left
        BY <2>2, <3>2, <4>1 DEF ExclusionInv, Covered
      <4> QED
        BY <2>2, <3>1, <4>1, <4>2 DEF HeldByUs
    <3>3. CASE Adopted(c, k)
      <4>1. store[k].left \in Int
        BY <3>3, Numbers
           DEF Adopted, HeldByUs, ExclusionInv, LeaseInv, TypeInv, TypeOK, Claim, Lefts
      <4> QED
        BY <2>2, <3>1, <3>3, <4>1 DEF Adopted, HeldByUs
    <3> QED
      BY <3>1, <3>2, <3>3
  <2> QED
    BY <2>1, <2>2
<1>2. AcquiringNotHeld'
  <2> SUFFICES ASSUME NEW d \in Clusters, op'[d].pc \in {"acquire", "readBack"}
               PROVE  held'[d][op'[d].key] = NotHeld
    BY DEF AcquiringNotHeld, Holds
  <2>1. op'[d] = op[d] /\ held'[d] = held[d]
    BY DEF OwnStep
  <2> QED
    BY <2>1 DEF ExclusionInv, AcquiringNotHeld, Holds
<1>3. NothingBeforeRecover'
  <2> SUFFICES ASSUME NEW d \in Clusters \ recovered'
               PROVE  /\ op'[d].pc = "idle"
                      /\ \A k \in Keys : held'[d][k] = NotHeld
                      /\ \A t \in Tasks : spawn'[d][t].pc = "idle"
    BY DEF NothingBeforeRecover
  <2>1. d # c /\ d \notin recovered
    OBVIOUS
  <2>2. op'[d] = op[d] /\ held'[d] = held[d] /\ spawn'[d] = spawn[d]
    BY <2>1 DEF OwnStep
  <2> QED
    BY <2>1, <2>2 DEF ExclusionInv, NothingBeforeRecover
<1> QED
  BY <1>1, <1>2, <1>3

\* An executor that is in a method, holds a claim or has a spawn under way has recovered.
LEMMA ActiveIsRecovered ==
  ASSUME ExclusionInv, RecoverFirst, NEW c \in Clusters,
         \/ op[c].pc # "idle"
         \/ \E k \in Keys : Holds(c, k)
         \/ \E t \in Tasks : spawn[c][t].pc # "idle"
  PROVE  c \in recovered
BY DEF ExclusionInv, NothingBeforeRecover, Holds

\* A write of one key nobody else has a live entry for.
LEMMA WriteCovers ==
  ASSUME ExclusionInv, RecoverFirst, NEW c \in Clusters, NEW k \in Keys, NEW t \in Tasks,
         NEW token \in Tokens, store' = [store EXCEPT ![k] = Written(c, t, token)],
         \A d \in Clusters \ {c} : held'[d] = held[d],
         \A j \in Keys \ {k} : held'[c][j] = held[c][j],
         \A d \in Clusters \ {c} : ~(Live(held[d][k]) /\ held[d][k].left > -TakeoverGrace),
         Live(held'[c][k]) => held'[c][k].left <= LeaseDuration
  PROVE  Covered'
<1>1. store \in [Keys -> Claim \cup {Free}]
  BY DEF ExclusionInv, LeaseInv, TypeInv, TypeOK
<1>2. Written(c, t, token) \in Claim
  BY Numbers DEF Written, Claim, Lefts
<1>3. Written(c, t, token) # Free
  BY <1>2, NullAssumption
<1>4. /\ store'[k] # Free /\ store'[k].holder = c /\ store'[k].left = LeaseDuration
      /\ \A j \in Keys \ {k} : store'[j] = store[j]
  BY <1>1, <1>3 DEF Written
<1> SUFFICES ASSUME NEW d \in Clusters, NEW j \in Keys, Live(held'[d][j]),
                    held'[d][j].left > -TakeoverGrace
             PROVE  /\ store'[j] # Free /\ store'[j].holder = d
                    /\ store'[j].left >= held'[d][j].left
  BY DEF Covered, HeldByUs, Live
<1>5. CASE j # k
  <2>1. held'[d][j] = held[d][j] /\ store'[j] = store[j]
    BY <1>4, <1>5
  <2> QED
    BY <2>1 DEF ExclusionInv, Covered, HeldByUs
<1>6. CASE j = k /\ d # c
  BY <1>6
<1>7. CASE j = k /\ d = c
  BY <1>4, <1>7
<1> QED
  BY <1>5, <1>6, <1>7

LEMMA AcquireExcludes ==
  ASSUME ExclusionInv, RecoverFirst, NEW c \in Clusters, Acquire(c)
  PROVE  (Covered /\ AcquiringNotHeld /\ NothingBeforeRecover)'
<1> DEFINE t == op[c].task
           k == op[c].key
           g(token) == NewHeld(t, token, LeaseDuration, AtMost(op[c].age, RenewInterval))
<1>1. op[c].pc = "acquire" /\ UNCHANGED recovered
  BY DEF Acquire
<1>2. t \in Tasks /\ k = KeyOf[t] /\ k \in Keys /\ c \in recovered /\ ~Holds(c, k)
  <2>1. t \in Tasks /\ k = KeyOf[t]
    BY <1>1 DEF ExclusionInv, LeaseInv, TypeInv, OpShape
  <2>2. c \in recovered /\ ~Holds(c, k)
    BY <1>1, ActiveIsRecovered DEF ExclusionInv, AcquiringNotHeld
  <2> QED
    BY <2>1, <2>2, ConstantsAssumption
<1>3. /\ TypeInv /\ LeaseInv /\ held \in [Clusters -> [Keys -> HeldClaim \cup {NotHeld}]]
      /\ store \in [Keys -> Claim \cup {Free}]
  BY DEF ExclusionInv, LeaseInv, TypeInv, TypeOK
<1>4. \A d \in Clusters \ {c} : spawn'[d] = spawn[d]
  <2>1. Conflicted(c, t) \/ Acquired(c, t) \/ UNCHANGED spawn
    BY DEF Acquire
  <2> QED
    BY <1>2, <1>3, <2>1, AnswerType DEF TypeInv
<1>5. \/ op'[c].pc = "idle" /\ \A d \in Clusters \ {c} : op'[d] = op[d]
      \/ /\ op'[c].pc = "readBack" /\ op'[c].key = k /\ UNCHANGED held
         /\ \A d \in Clusters \ {c} : op'[d] = op[d]
  <2>1. Finish(c) \/ (op' = [op EXCEPT ![c].pc = "readBack"] /\ UNCHANGED held)
    BY DEF Acquire
  <2>2. CASE Finish(c)
    BY <1>3, <2>2, FinishType DEF TypeInv
  <2>3. CASE op' = [op EXCEPT ![c].pc = "readBack"] /\ UNCHANGED held
    BY <1>3, <2>3 DEF TypeInv, TypeOK, Op
  <2> QED
    BY <2>1, <2>2, <2>3
<1>6. Covered' /\ \A d \in Clusters \ {c} : held'[d] = held[d]
  <2>1. CASE UNCHANGED <<store, held>>
    BY <2>1 DEF ExclusionInv, Covered, HeldByUs
  <2>2. ASSUME NEW token \in Tokens, ~Refuses(k),
               store' = [store EXCEPT ![k] = Written(c, t, token)],
               held' = [held EXCEPT ![c][k] = g(token)] \/ UNCHANGED held
        PROVE  Covered' /\ \A d \in Clusters \ {c} : held'[d] = held[d]
    <3>1. /\ \A d \in Clusters \ {c} : held'[d] = held[d]
          /\ \A j \in Keys \ {k} : held'[c][j] = held[c][j]
          /\ held'[c][k] = g(token) \/ held'[c][k] = NotHeld
      BY <1>2, <1>3, <2>2 DEF Holds
    <3>2. Live(held'[c][k]) => held'[c][k].left <= LeaseDuration
      <4>1. g(token).left = LeaseDuration
        BY DEF NewHeld
      <4> QED
        BY <3>1, <4>1, Numbers DEF Live
    <3>3. ASSUME NEW d \in Clusters \ {c}, Live(held[d][k]), held[d][k].left > -TakeoverGrace
          PROVE  FALSE
      <4>1. HeldByUs(d, k) /\ store[k].left >= held[d][k].left
        BY <1>2, <3>3 DEF ExclusionInv, Covered
      <4>2. store[k].left <= -TakeoverGrace
        BY <1>1, <1>3, <2>2, <4>1, AcquireGuard DEF HeldByUs
      <4>3. held[d][k] \in HeldClaim /\ store[k] \in Claim
        BY <1>2, <1>3, <3>3, <4>1 DEF Live, HeldByUs
      <4>4. held[d][k].left \in Int /\ store[k].left \in Int
        BY <4>3, Numbers DEF HeldClaim, Claim, Lefts
      <4> QED
        BY <3>3, <4>1, <4>2, <4>4, Numbers
    <3> HIDE DEF k, t, g
    <3> QED
      BY <1>2, <2>2, <3>1, <3>2, <3>3, WriteCovers
  <2> QED
    BY <2>1, <2>2 DEF Acquire
<1>7. AcquiringNotHeld'
  <2> SUFFICES ASSUME NEW d \in Clusters, op'[d].pc \in {"acquire", "readBack"}
               PROVE  held'[d][op'[d].key] = NotHeld
    BY DEF AcquiringNotHeld, Holds
  <2>1. CASE d = c
    BY <1>2, <1>5, <2>1 DEF Holds
  <2>2. CASE d # c
    BY <1>5, <1>6, <2>2 DEF ExclusionInv, AcquiringNotHeld, Holds
  <2> QED
    BY <2>1, <2>2
<1>8. NothingBeforeRecover'
  <2> SUFFICES ASSUME NEW d \in Clusters \ recovered'
               PROVE  /\ op'[d].pc = "idle"
                      /\ \A j \in Keys : held'[d][j] = NotHeld
                      /\ \A i \in Tasks : spawn'[d][i].pc = "idle"
    BY DEF NothingBeforeRecover
  <2>1. d # c /\ d \notin recovered
    BY <1>1, <1>2
  <2>2. op'[d] = op[d] /\ held'[d] = held[d] /\ spawn'[d] = spawn[d]
    BY <1>4, <1>5, <1>6, <2>1
  <2> QED
    BY <2>1, <2>2 DEF ExclusionInv, NothingBeforeRecover
<1> QED
  BY <1>6, <1>7, <1>8

LEMMA RenewClaimExcludes ==
  ASSUME ExclusionInv, RecoverFirst, NEW c \in Clusters, RenewClaim(c)
  PROVE  (Covered /\ AcquiringNotHeld /\ NothingBeforeRecover)'
<1>1. /\ op[c].pc = "renew" /\ UNCHANGED <<spawn, recovered>> /\ LeaseInv
      /\ held \in [Clusters -> [Keys -> HeldClaim \cup {NotHeld}]]
  BY DEF RenewClaim, ExclusionInv, LeaseInv, TypeInv, TypeOK
<1>2. c \in recovered
  BY <1>1, ActiveIsRecovered
<1>3. op'[c].pc \notin {"acquire", "readBack"} /\ \A d \in Clusters \ {c} : op'[d] = op[d]
  BY <1>1, TickOp DEF TickStep
<1>4. PICK k \in op[c].todo :
        Renewable(c, k) /\ (RenewLands(c, k) \/ RenewRefused(c, k) \/ RenewFails(c, k))
  BY DEF RenewClaim
<1>5. k \in Keys
  BY <1>1 DEF LeaseInv, TypeInv, TypeOK, Op
<1>6. Holds(c, k) /\ held[c][k] \in HeldClaim
  BY <1>1, <1>4, <1>5 DEF Renewable, Holds
<1>7. CASE RenewRefused(c, k) \/ RenewFails(c, k)
  <2>1. OwnStep(c) /\ LiveStep(c)
    BY <1>1, <1>5, <1>6, <1>7, ClaimLostOwn, RenewFailsOwn DEF RenewRefused
  <2> QED
    BY <1>1, <1>2, <1>3, <2>1, OwnStepExcludes
<1>8. CASE RenewLands(c, k)
  <2>1. PICK token \in Tokens :
          /\ CurrentToken(c, k)
          /\ store' = [store EXCEPT ![k] = Written(c, held[c][k].task, token)]
          /\ \/ held' = [held EXCEPT ![c][k] = Renewed(held[c][k], token)]
             \/ held' = [held EXCEPT ![c][k] = RenewAsked(held[c][k])]
    BY <1>8 DEF RenewLands
  <2>2. /\ \A d \in Clusters \ {c} : held'[d] = held[d]
        /\ \A j \in Keys \ {k} : held'[c][j] = held[c][j]
        /\ held'[c][k] = Renewed(held[c][k], token) \/ held'[c][k] = RenewAsked(held[c][k])
    BY <1>1, <1>5, <2>1
  <2>3. held'[c][k].left <= LeaseDuration
    <3>1. Renewed(held[c][k], token) \in HeldClaim /\ RenewAsked(held[c][k]) \in HeldClaim
      BY <1>6, RenewedType
    <3>2. held'[c][k] \in HeldClaim
      BY <2>2, <3>1
    <3> QED
      BY <3>2, Numbers DEF HeldClaim, Lefts
  <2>4. store[k].holder = c
    BY <1>1, <1>5, <2>1 DEF LeaseInv, TokenInv
  <2>5. \A d \in Clusters \ {c} : ~(Live(held[d][k]) /\ held[d][k].left > -TakeoverGrace)
    BY <1>5, <2>4 DEF ExclusionInv, Covered, HeldByUs
  <2>6. Covered'
    <3> DEFINE t == held[c][k].task
    <3>1. t \in Tasks /\ store' = [store EXCEPT ![k] = Written(c, t, token)]
      BY <1>6, <2>1 DEF HeldClaim
    <3> HIDE DEF t
    <3> QED
      BY <1>5, <2>2, <2>3, <2>5, <3>1, WriteCovers
  <2>7. AcquiringNotHeld'
    BY <1>3, <2>2 DEF ExclusionInv, AcquiringNotHeld, Holds
  <2>8. NothingBeforeRecover'
    BY <1>1, <1>2, <1>3, <2>2 DEF ExclusionInv, NothingBeforeRecover
  <2> QED
    BY <2>6, <2>7, <2>8
<1> QED
  BY <1>4, <1>7, <1>8

LEMMA ClaimAttemptExcludes ==
  ASSUME ExclusionInv, RecoverFirst, NEW c \in Clusters, NEW t \in Tasks,
         ClaimPair(c, t) \/ TakeoverPair(c, t)
  PROVE  (Covered /\ AcquiringNotHeld /\ NothingBeforeRecover)'
<1>1. /\ UNCHANGED <<store, held, recovered>> /\ op[c].pc = "idle" /\ TypeInv /\ TypeOK
      /\ Covered /\ AcquiringNotHeld /\ NothingBeforeRecover
  BY DEF ClaimPair, TakeoverPair, ExclusionInv, LeaseInv, TypeInv
<1>2. c \in recovered
  <2>1. CASE ClaimPair(c, t)
    BY <2>1 DEF ClaimPair
  <2>2. CASE TakeoverPair(c, t)
    <3>1. spawn[c][t].pc # "idle"
      BY <2>2 DEF TakeoverPair
    <3> QED
      BY <3>1, ActiveIsRecovered
  <2> QED
    BY <2>1, <2>2
<1>3. \/ UNCHANGED op /\ (SetSpawn(c, t, "conflict") \/ ClaimFailed(c, t))
      \/ \E b \in BOOLEAN : ~Holds(c, KeyOf[t]) /\ StartAcquire(c, t, b)
  BY DEF ClaimPair, TakeoverPair
<1>4. /\ \A d \in Clusters \ {c} : op'[d] = op[d] /\ spawn'[d] = spawn[d]
      /\ UNCHANGED op \/ (op'[c].key = KeyOf[t] /\ ~Holds(c, KeyOf[t]))
  <2>1. CASE UNCHANGED op /\ SetSpawn(c, t, "conflict")
    BY <1>1, <2>1, SetSpawnType
  <2>2. CASE UNCHANGED op /\ ClaimFailed(c, t)
    BY <1>1, <2>2, AnswerType
  <2>3. ASSUME NEW b \in BOOLEAN, ~Holds(c, KeyOf[t]), StartAcquire(c, t, b)
        PROVE  <1>4
    BY <1>1, <2>3, StartAcquireType
  <2> QED
    BY <1>3, <2>1, <2>2, <2>3
<1>5. Covered'
  BY <1>1 DEF Covered, HeldByUs
<1>6. AcquiringNotHeld'
  <2> SUFFICES ASSUME NEW d \in Clusters, op'[d].pc \in {"acquire", "readBack"}
               PROVE  held[d][op'[d].key] = NotHeld
    BY <1>1 DEF AcquiringNotHeld, Holds
  <2>1. CASE op'[d] = op[d]
    BY <1>1, <2>1 DEF AcquiringNotHeld, Holds
  <2>2. CASE op'[d] # op[d]
    BY <1>4, <2>2 DEF Holds
  <2> QED
    BY <2>1, <2>2
<1>7. NothingBeforeRecover'
  BY <1>1, <1>2, <1>4 DEF NothingBeforeRecover
<1> QED
  BY <1>5, <1>6, <1>7

LEMMA TickExcludes ==
  ASSUME ExclusionInv, RecoverFirst, NEW c \in Clusters, RetryPendingDeletions(c) \/ TickStep(c)
  PROVE  (Covered /\ AcquiringNotHeld /\ NothingBeforeRecover)'
<1>1. CASE RenewClaim(c)
  BY <1>1, RenewClaimExcludes
<1>2. CASE ~RenewClaim(c)
  <2>1. LeaseInv
    BY DEF ExclusionInv
  <2>2. OwnStep(c) /\ LiveStep(c)
    BY <1>2, <2>1, TickOwn
  <2>3. op'[c].pc \notin {"acquire", "readBack"} /\ \A d \in Clusters \ {c} : op'[d] = op[d]
    BY <2>1, TickOp
  <2>4. UNCHANGED <<spawn, recovered>>
    BY DEF RetryPendingDeletions, TickStep, EvaluateFence, RetryPendingReleases,
           ReleaseExpiredHolds, ReleaseJoblessClaims, RecheckRunning, SkipRenew, RenewClaim,
           RenewReadBack
  <2>5. c \in recovered
    <3>1. op[c].pc # "idle" \/ \E k \in Keys : Holds(c, k)
      BY DEF RetryPendingDeletions, HeldKeys, TickStep, EvaluateFence, RetryPendingReleases,
             ReleaseExpiredHolds, ReleaseJoblessClaims, RecheckRunning, SkipRenew, RenewClaim,
             RenewReadBack
    <3> QED
      BY <3>1, ActiveIsRecovered
  <2> QED
    BY <2>2, <2>3, <2>4, <2>5, OwnStepExcludes
<1> QED
  BY <1>1, <1>2

LEMMA SpawnPathExcludes ==
  ASSUME ExclusionInv, RecoverFirst, NEW c \in Clusters, NEW t \in Tasks, NEW k \in Keys,
         \/ SpawnJob(c, t) \/ ReleaseFailedSpawn(c, t)
         \/ ReleaseTaskClaim(c, k) \/ ReleaseAfterSuccess(c, k)
  PROVE  (Covered /\ AcquiringNotHeld /\ NothingBeforeRecover)'
<1>1. LeaseInv /\ TypeOK
  BY DEF ExclusionInv, LeaseInv, TypeInv
<1>2. OwnStep(c) /\ LiveStep(c) /\ UNCHANGED op
  BY <1>1, OtherOwn
<1>3. c \in recovered
  <2>1. spawn[c][t].pc # "idle" \/ Holds(c, k)
    BY DEF SpawnJob, ReleaseFailedSpawn, ReleaseTaskClaim, ReleaseAfterSuccess
  <2> QED
    BY <2>1, ActiveIsRecovered
<1>4. UNCHANGED recovered
  BY DEF SpawnJob, ReleaseFailedSpawn, ReleaseTaskClaim, ReleaseAfterSuccess
<1>5. \A d \in Clusters \ {c} : spawn'[d] = spawn[d]
  <2>1. SetSpawn(c, t, "idle") \/ SetSpawn(c, t, "failed") \/ UNCHANGED spawn
    BY DEF SpawnJob, ReleaseFailedSpawn, ReleaseTaskClaim, ReleaseAfterSuccess
  <2> QED
    BY <1>1, <2>1, SetSpawnType
<1>6. op[c].pc = "idle" \/ UNCHANGED held
  BY DEF SpawnJob, ReleaseFailedSpawn, ReleaseTaskClaim, ReleaseAfterSuccess
<1> QED
  BY <1>2, <1>3, <1>4, <1>5, <1>6, OwnStepExcludes

LEMMA ReadBackRecoveryExcludes ==
  ASSUME ExclusionInv, RecoverFirst, NEW c \in Clusters, ReadBackRecovery(c)
  PROVE  (Covered /\ AcquiringNotHeld /\ NothingBeforeRecover)'
<1>1. LeaseInv /\ TypeOK /\ op[c].pc = "readBack" /\ UNCHANGED recovered
  BY DEF ExclusionInv, LeaseInv, TypeInv, ReadBackRecovery
<1>2. OwnStep(c) /\ LiveStep(c)
  BY <1>1, ReadBackRecoveryOwn
<1>3. c \in recovered
  BY <1>1, ActiveIsRecovered
<1>4. op'[c].pc = "idle" /\ \A d \in Clusters \ {c} : op'[d] = op[d]
  BY <1>1, FinishType DEF ReadBackRecovery
<1>5. \A d \in Clusters \ {c} : spawn'[d] = spawn[d]
  <2>1. op[c].task \in Tasks
    BY <1>1 DEF ExclusionInv, LeaseInv, TypeInv, OpShape
  <2>2. Acquired(c, op[c].task) \/ ClaimFailed(c, op[c].task)
    BY DEF ReadBackRecovery
  <2> QED
    BY <1>1, <2>1, <2>2, AnswerType
<1> QED
  BY <1>1, <1>2, <1>3, <1>4, <1>5, OwnStepExcludes

\* Recover finds an empty held set, so what it adopts or releases hides no entry.
LEMMA RecoverExcludes ==
  ASSUME ExclusionInv, RecoverFirst, NEW c \in Clusters, Recover(c)
  PROVE  (Covered /\ AcquiringNotHeld /\ NothingBeforeRecover)'
<1>1. /\ LeaseInv /\ UNCHANGED <<op, spawn>> /\ c \notin recovered /\ op[c].pc = "idle"
      /\ recovered' = recovered \cup {c}
  BY DEF ExclusionInv, Recover
<1>2. HeldKeys(c) = {}
  BY <1>1 DEF ExclusionInv, NothingBeforeRecover, HeldKeys, Holds
<1>3. OwnStep(c) /\ LiveStep(c)
  BY <1>1, <1>2, RecoverOwn
<1>4. op'[c].pc \notin {"acquire", "readBack"}
  BY <1>1
<1>5. c \in recovered' /\ recovered \subseteq recovered'
  BY <1>1
<1>6. \A d \in Clusters \ {c} : op'[d] = op[d] /\ spawn'[d] = spawn[d]
  BY <1>1
<1> QED
  BY <1>3, <1>4, <1>5, <1>6, OwnStepExcludes

LEMMA CrashExcludes ==
  ASSUME ExclusionInv, RecoverFirst, NEW c \in Clusters, Crash(c)
  PROVE  (Covered /\ AcquiringNotHeld /\ NothingBeforeRecover)'
<1>1. /\ LeaseInv /\ Covered /\ AcquiringNotHeld /\ NothingBeforeRecover
      /\ held \in [Clusters -> [Keys -> HeldClaim \cup {NotHeld}]]
      /\ op \in [Clusters -> Op] /\ spawn \in [Clusters -> [Tasks -> SpawnState]]
  BY DEF ExclusionInv, LeaseInv, TypeInv, TypeOK
<1>2. /\ UNCHANGED store /\ recovered' = recovered \ {c} /\ op'[c].pc = "idle"
      /\ \A k \in Keys : held'[c][k] = NotHeld
      /\ \A t \in Tasks : spawn'[c][t].pc = "idle"
      /\ \A d \in Clusters \ {c} :
           held'[d] = held[d] /\ op'[d] = op[d] /\ spawn'[d] = spawn[d]
  BY <1>1 DEF Crash, Dropped, Idle, NoSpawn
<1>3. Covered'
  <2> SUFFICES ASSUME NEW d \in Clusters, NEW k \in Keys, Live(held'[d][k]),
                      held'[d][k].left > -TakeoverGrace
               PROVE  /\ store'[k] # Free /\ store'[k].holder = d
                      /\ store'[k].left >= held'[d][k].left
    BY DEF Covered, HeldByUs, Live
  <2>1. d # c
    BY <1>2 DEF Live
  <2>2. held'[d][k] = held[d][k] /\ store'[k] = store[k]
    BY <1>2, <2>1
  <2> QED
    BY <1>1, <2>2 DEF Covered, HeldByUs
<1>4. AcquiringNotHeld'
  BY <1>1, <1>2 DEF AcquiringNotHeld, Holds
<1>5. NothingBeforeRecover'
  BY <1>1, <1>2 DEF NothingBeforeRecover
<1> QED
  BY <1>3, <1>4, <1>5

\* Time shortens a claim and every entry for it alike.
LEMMA ElapseExcludes ==
  ASSUME ExclusionInv, RecoverFirst, Elapse
  PROVE  (Covered /\ AcquiringNotHeld /\ NothingBeforeRecover)'
<1>1. /\ Covered /\ AcquiringNotHeld /\ NothingBeforeRecover /\ UNCHANGED recovered
      /\ store \in [Keys -> Claim \cup {Free}]
      /\ held \in [Clusters -> [Keys -> HeldClaim \cup {NotHeld}]]
      /\ op \in [Clusters -> Op] /\ spawn \in [Clusters -> [Tasks -> SpawnState]]
  BY DEF ExclusionInv, LeaseInv, TypeInv, TypeOK, Elapse
<1>2. /\ \A k \in Keys : store'[k] =
           IF store[k] = Free THEN Free ELSE [store[k] EXCEPT !.left = Nearer(@)]
      /\ \A c \in Clusters, k \in Keys : held'[c][k] =
           IF held[c][k] = NotHeld THEN NotHeld ELSE Aged(held[c][k])
  BY DEF Elapse
<1>3. Covered'
  <2> SUFFICES ASSUME NEW c \in Clusters, NEW k \in Keys, Live(held'[c][k]),
                      held'[c][k].left > -TakeoverGrace
               PROVE  /\ store'[k] # Free /\ store'[k].holder = c
                      /\ store'[k].left >= held'[c][k].left
    BY DEF Covered, HeldByUs, Live
  <2> DEFINE h == held[c][k]
  <2>1. h \in HeldClaim /\ h # NotHeld /\ held'[c][k] = Aged(h)
    BY <1>1, <1>2 DEF Live
  <2>2. /\ Aged(h).left = Nearer(h.left) /\ Aged(h).releasePending = h.releasePending
        /\ Aged(h).pendingDeletion = h.pendingDeletion
    <3> HIDE DEF h
    <3> QED
      BY <2>1 DEF Aged, HeldClaim
  <2>3. h.left \in Int
    BY <2>1, Numbers DEF HeldClaim, Lefts
  <2>4. Live(h) /\ h.left > -TakeoverGrace
    <3>1. Live(h)
      BY <2>1, <2>2 DEF Live
    <3>2. Nearer(h.left) > -TakeoverGrace
      BY <2>1, <2>2
    <3> QED
      BY <2>3, <3>1, <3>2, Numbers DEF Nearer, AtLeast
  <2>5. HeldByUs(c, k) /\ store[k].left >= h.left
    BY <1>1, <2>4 DEF Covered
  <2>6. store[k] \in Claim /\ store[k] # Free
    BY <1>1, <2>5 DEF HeldByUs
  <2>7. store[k].left \in Int
    BY <2>6, Numbers DEF Claim, Lefts
  <2>8. store'[k] = [store[k] EXCEPT !.left = Nearer(@)]
    BY <1>2, <2>6
  <2>9. /\ store'[k] \in [holder : Clusters, task : Tasks, token : Tokens, left : Int]
        /\ store'[k].holder = store[k].holder /\ store'[k].left = Nearer(store[k].left)
    BY <2>6, <2>7, <2>8, Numbers DEF Claim, Nearer, AtLeast
  <2>10. Nearer(store[k].left) >= Nearer(h.left)
    BY <2>3, <2>5, <2>7, Numbers DEF Nearer, AtLeast
  <2>11. store'[k] # Free
    <3>1. Nearer(store[k].left) \in Lefts
      BY <2>6, Numbers DEF Claim, Lefts, Nearer, AtLeast
    <3>2. store'[k] \in Claim
      BY <2>6, <2>8, <3>1 DEF Claim
    <3> QED
      BY <3>2, NullAssumption
  <2> QED
    BY <2>1, <2>2, <2>5, <2>9, <2>10, <2>11 DEF HeldByUs
<1>4. ASSUME NEW c \in Clusters
      PROVE  op'[c].pc = op[c].pc /\ op'[c].key = op[c].key
  BY <1>1 DEF Elapse, Op
<1>5. AcquiringNotHeld'
  <2> SUFFICES ASSUME NEW c \in Clusters, op'[c].pc \in {"acquire", "readBack"}
               PROVE  held'[c][op'[c].key] = NotHeld
    BY DEF AcquiringNotHeld, Holds
  <2>1. held[c][op[c].key] = NotHeld
    BY <1>1, <1>4 DEF AcquiringNotHeld, Holds
  <2>2. op[c].key \in Keys
    BY <1>4, ConstantsAssumption DEF ExclusionInv, LeaseInv, TypeInv, OpShape
  <2> QED
    BY <1>2, <1>4, <2>1, <2>2
<1>6. \A c \in Clusters, t \in Tasks : spawn'[c][t].pc = spawn[c][t].pc
  BY <1>1 DEF Elapse, SpawnState
<1>7. NothingBeforeRecover'
  BY <1>1, <1>2, <1>4, <1>6 DEF NothingBeforeRecover
<1> QED
  BY <1>3, <1>5, <1>7

LEMMA ExclusionNext == ExclusionInv /\ [Next]_vars => ExclusionInv'
<1> SUFFICES ASSUME ExclusionInv, [Next]_vars
             PROVE  ExclusionInv'
  OBVIOUS
<1>1. LeaseInv'
  BY LeaseNext DEF ExclusionInv
<1> DEFINE Goal == (Covered /\ AcquiringNotHeld /\ NothingBeforeRecover)'
<1> SUFFICES ASSUME RecoverFirst
             PROVE  Goal
  BY <1>1 DEF ExclusionInv
<1>2. ASSUME UNCHANGED <<store, held, op, spawn>>, recovered \subseteq recovered'
      PROVE  Goal
  BY <1>2 DEF ExclusionInv, Covered, AcquiringNotHeld, NothingBeforeRecover, HeldByUs, Holds
<1>3. ASSUME NEW c \in Clusters, NEW t \in Tasks, JobEnds(c, t)
      PROVE  Goal
  BY <1>2, <1>3 DEF JobEnds
<1>4. ASSUME NEW c \in Clusters, Restart(c) \/ RecoverGivesUp(c)
      PROVE  Goal
  BY <1>2, <1>4 DEF Restart, RecoverGivesUp
<1>5. CASE UNCHANGED vars
  BY <1>2, <1>5 DEF vars
<1>6. ASSUME NEW c \in Clusters, NEW t \in Tasks, SpawnJob(c, t) \/ ReleaseFailedSpawn(c, t)
      PROVE  Goal
  <2>1. PICK k \in Keys : TRUE
    BY ConstantsAssumption
  <2> QED
    BY <1>6, SpawnPathExcludes
<1>7. ASSUME NEW c \in Clusters, NEW k \in Keys, ReleaseTaskClaim(c, k) \/ ReleaseAfterSuccess(c, k)
      PROVE  Goal
  <2>1. held[c][k].task \in Tasks
    <3>1. held[c][k] \in HeldClaim
      BY <1>7 DEF ExclusionInv, LeaseInv, TypeInv, TypeOK, ReleaseTaskClaim, ReleaseAfterSuccess,
                  Holds
    <3> QED
      BY <3>1 DEF HeldClaim
  <2> QED
    BY <1>7, <2>1, SpawnPathExcludes
<1> HIDE DEF Goal
<1>8. CASE Next
  <2>1. ASSUME NEW c \in Clusters, NEW t \in Tasks, ClaimPair(c, t) \/ TakeoverPair(c, t)
        PROVE  Goal
    BY <2>1, ClaimAttemptExcludes DEF Goal
  <2>2. ASSUME NEW c \in Clusters,
               \/ Acquire(c) \/ ReadBackRecovery(c) \/ RetryPendingDeletions(c) \/ TickStep(c)
               \/ Crash(c) \/ Recover(c)
        PROVE  Goal
    BY <2>2, AcquireExcludes, ReadBackRecoveryExcludes, TickExcludes, CrashExcludes,
       RecoverExcludes DEF Goal
  <2>3. CASE Elapse
    BY <2>3, ElapseExcludes DEF Goal
  <2> QED
    BY <1>3, <1>4, <1>6, <1>7, <1>8, <2>1, <2>2, <2>3, NextCases
<1> QED
  BY <1>5, <1>8

LEMMA ExclusionInit == Init => ExclusionInv
<1>1. Init => Covered /\ AcquiringNotHeld /\ NothingBeforeRecover
  BY DEF Init, Covered, AcquiringNotHeld, NothingBeforeRecover, Live, Idle, NoSpawn, Holds
<1> QED
  BY <1>1, LeaseInit DEF ExclusionInv

\* When no task is dispatched before Recover has run, an executor that believes it holds
\* a key is the one the store names, until TakeoverGrace after the lease it knows of,
\* whatever requests fail, answers are lost or processes die.  MCRecoverRace shows that
\* the hypothesis is needed.
THEOREM LeaseExclusive == Spec => [](RecoverFirst => LiveLeaseIsExclusive)
<1>1. ExclusionInv => (RecoverFirst => LiveLeaseIsExclusive)
  BY DEF ExclusionInv, LiveLeaseIsExclusive, Covered, Live, Holds, HeldByUs
<1>2. Spec => []ExclusionInv
  BY ExclusionInit, ExclusionNext, PTL DEF Spec
<1> QED
  BY <1>1, <1>2, PTL

=============================================================================
