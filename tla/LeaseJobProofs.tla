-------------------------- MODULE LeaseJobProofs --------------------------
(***************************************************************************)
(* What a step may do to a held claim, shown action by action.  From it:   *)
(* a claim that is not renewed any more is fenced before a peer may take   *)
(* it over, a running Job is covered by a claim of its executor, no        *)
(* release frees a claim under a running Job, no two executors run one     *)
(* task unless one of the Jobs is out of its executor's reach, a claim     *)
(* whose requests are answered is never fenced, and a success hold keeps   *)
(* its claim.                                                              *)
(***************************************************************************)
EXTENDS LeaseManagerProofs

(* A held claim whose Job is being created and that neither a release path *)
(* nor the fence nor the jobless grace has reached.                        *)
Undisturbed(c, k) ==
  LET h == held[c][k] IN
  /\ Holds(c, k) /\ spawn[c][h.task].pc = "claimed"
  /\ JoblessEligible(h) /\ ~FenceDue(h.left) /\ h.jobless < JoblessGrace

(* The store's side of a step: a release of a claim whose Job is gone, or a renew. *)
StoreStep(c, k) ==
  LET h == held[c][k] IN
  \/ store'[k] = store[k]
  \/ /\ store'[k] = Free /\ CurrentToken(c, k)
     /\ h.releasePending \/ h.task \notin jobs'[c]
  \/ /\ CurrentToken(c, k) /\ store'[k] # Free /\ store'[k].holder = c
     /\ store'[k].task = h.task /\ store'[k].left = LeaseDuration

(* The executor's side: no entry appears, its lease gets no shorter, it is *)
(* marked for release only without a Job, and with a Job it stays.         *)
EntryStep(c, k) ==
  LET h == held[c][k]
      g == held'[c][k] IN
  /\ g # NotHeld =>
       /\ h # NotHeld /\ g.task = h.task /\ g.left >= h.left
       /\ g.left = h.left \/ (store'[k] # Free /\ g.left = store'[k].left)
       /\ g.pendingDeletion = "no" => h.pendingDeletion = "no"
       /\ g.releasePending => h.releasePending \/ h.task \notin jobs[c]
  /\ h # NotHeld /\ ~h.releasePending /\ h.task \in jobs'[c]
       => g # NotHeld /\ ~g.releasePending

(* An undisturbed claim stays one, unless its lease is lost already; a renew *)
(* whose answer is lost is the only way to miss its token.                   *)
SpawnKept(c, k) ==
  LET h == held[c][k]
      g == held'[c][k] IN
  Undisturbed(c, k) =>
    \/ ~HeldByUs(c, k)
    \/ RenewDue(h) /\ ~CurrentToken(c, k)
    \/ /\ g # NotHeld /\ JoblessEligible(g) /\ g.jobless <= AtLeast(h.jobless, 0)
       /\ g.renewNextTick => h.renewNextTick
       /\ g.renewAge <= h.renewAge
       /\ CurrentToken(c, k) =>
            CurrentToken(c, k)' \/ (g.renewAge = 0 /\ Happens("renewLost"))

KeyStep(c, k) == StoreStep(c, k) /\ EntryStep(c, k) /\ SpawnKept(c, k)

-----------------------------------------------------------------------------
(* One entry.                                                               *)

\* The numbers and marks of a held claim.
LEMMA EntryFields ==
  ASSUME NEW h \in HeldClaim
  PROVE  /\ h # NotHeld /\ h.task \in Tasks /\ h.token \in Tokens
         /\ h.left \in Int /\ h.left >= -TakeoverGrace /\ h.left <= LeaseDuration
         /\ h.renewAge \in Nat /\ h.jobless \in Int /\ h.checkAge \in Int /\ h.hold \in Int
         /\ h.jobless >= None /\ h.hold >= None
         /\ h.releasePending \in BOOLEAN /\ h.renewNextTick \in BOOLEAN
         /\ h.needsRunningCheck \in BOOLEAN /\ h.pendingDeletion \in {"no", "fence", "lost"}
BY Numbers, NullAssumption DEF HeldClaim, Lefts, None

LEMMA ClaimFields ==
  ASSUME NEW s \in Claim
  PROVE  /\ s # Free /\ s.holder \in Clusters /\ s.task \in Tasks /\ s.token \in Tokens
         /\ s.left \in Int /\ s.left >= -TakeoverGrace /\ s.left <= LeaseDuration
BY Numbers, NullAssumption DEF Claim, Lefts

\* What TimingAssumption says about the deadlines.
LEMMA Deadlines ==
  /\ JoblessGrace \in Nat /\ JoblessGrace > 0 /\ SpawnTime \in Nat /\ SpawnTime < JoblessGrace
  /\ FenceMargin + FenceLead \in Nat /\ TickGap < FenceMargin + FenceLead + TakeoverGrace
  /\ FenceMargin + FenceLead < LeaseDuration - OpTime - SpawnTime
BY TimingAssumption

LEMMA HeldEntry ==
  ASSUME TypeInv, NEW c \in Clusters, NEW k \in Keys
  PROVE  /\ Holds(c, k) => held[c][k] \in HeldClaim
         /\ store[k] # Free => store[k] \in Claim
BY DEF TypeInv, TypeOK, Holds

LEMMA EntrySame ==
  ASSUME TypeInv, NEW c \in Clusters, NEW k \in Keys, held'[c][k] = held[c][k],
         store'[k] = store[k]
  PROVE  KeyStep(c, k)
<1> DEFINE h == held[c][k]
<1>1. StoreStep(c, k)
  BY DEF StoreStep
<1>2. CASE h = NotHeld
  BY <1>1, <1>2 DEF KeyStep, EntryStep, SpawnKept, Undisturbed, Holds
<1>3. CASE h # NotHeld
  <2>1. h \in HeldClaim
    BY <1>3, HeldEntry DEF Holds
  <2>2. /\ h.left \in Int /\ h.renewAge \in Nat /\ h.jobless \in Int
    BY <2>1, EntryFields
  <2>3. EntryStep(c, k)
    BY <1>3, <2>2 DEF EntryStep
  <2>4. CurrentToken(c, k) => CurrentToken(c, k)'
    BY DEF CurrentToken, Holds
  <2>5. h.jobless <= AtLeast(h.jobless, 0)
    BY <2>2 DEF AtLeast
  <2>6. SpawnKept(c, k)
    BY <1>3, <2>2, <2>4, <2>5 DEF SpawnKept, Undisturbed
  <2> QED
    BY <1>1, <2>3, <2>6 DEF KeyStep
<1> QED
  BY <1>2, <1>3

(* What allows an entry to go: its lease is lost, or it was not undisturbed. *)
MayGo(c, k) ==
  \/ ~Undisturbed(c, k)
  \/ ~HeldByUs(c, k)
  \/ RenewDue(held[c][k]) /\ ~CurrentToken(c, k)

LEMMA EntryGone ==
  ASSUME TypeInv, NEW c \in Clusters, NEW k \in Keys, held'[c][k] = NotHeld,
         held[c][k] = NotHeld \/ held[c][k].releasePending \/ held[c][k].task \notin jobs'[c],
         MayGo(c, k),
         store'[k] = store[k] \/ (store'[k] = Free /\ CurrentToken(c, k))
  PROVE  KeyStep(c, k)
BY DEF KeyStep, StoreStep, EntryStep, SpawnKept, MayGo, CurrentToken, Holds

LEMMA EntryMarked ==
  ASSUME TypeInv, NEW c \in Clusters, NEW k \in Keys, Holds(c, k),
         held'[c][k] = [held[c][k] EXCEPT !.releasePending = TRUE],
         held[c][k].releasePending \/ held[c][k].task \notin jobs[c],
         UNCHANGED jobs, MayGo(c, k),
         store'[k] = store[k] \/ (store'[k] = Free /\ CurrentToken(c, k))
  PROVE  KeyStep(c, k)
<1> DEFINE h == held[c][k]
           g == held'[c][k]
<1>1. h \in HeldClaim
  BY HeldEntry
<1>2. /\ g # NotHeld /\ g.task = h.task /\ g.left = h.left
      /\ g.pendingDeletion = h.pendingDeletion
  <2>1. g \in HeldClaim
    BY <1>1, HeldUpdates
  <2> QED
    BY <1>1, <2>1, NullAssumption DEF HeldClaim
<1>3. h.left \in Int
  BY <1>1, EntryFields
<1>4. StoreStep(c, k)
  BY DEF StoreStep
<1>5. EntryStep(c, k)
  BY <1>2, <1>3 DEF EntryStep, Holds
<1>6. SpawnKept(c, k)
  BY DEF SpawnKept, MayGo
<1> QED
  BY <1>4, <1>5, <1>6 DEF KeyStep

LEMMA EntryDoomed ==
  ASSUME TypeInv, NEW c \in Clusters, NEW k \in Keys, Holds(c, k), NEW x \in {"fence", "lost"},
         held'[c][k] = [held[c][k] EXCEPT !.pendingDeletion = x],
         MayGo(c, k), store'[k] = store[k]
  PROVE  KeyStep(c, k)
<1> DEFINE h == held[c][k]
           g == held'[c][k]
<1>1. h \in HeldClaim
  BY HeldEntry
<1>2. /\ g # NotHeld /\ g.task = h.task /\ g.left = h.left
      /\ g.pendingDeletion = x /\ g.releasePending = h.releasePending
  <2>1. g \in HeldClaim
    BY <1>1 DEF HeldClaim
  <2> QED
    BY <1>1, <2>1, NullAssumption DEF HeldClaim
<1>3. h.left \in Int
  BY <1>1, EntryFields
<1>4. StoreStep(c, k)
  BY DEF StoreStep
<1>5. EntryStep(c, k)
  BY <1>2, <1>3 DEF EntryStep, Holds
<1>6. SpawnKept(c, k)
  BY DEF SpawnKept, MayGo
<1> QED
  BY <1>4, <1>5, <1>6 DEF KeyStep

\* An update of the marks that leaves the lease and the renew timer alone.
LEMMA EntryTouched ==
  ASSUME TypeInv, NEW c \in Clusters, NEW k \in Keys, Holds(c, k), store'[k] = store[k],
         held'[c][k] \in HeldClaim,
         held'[c][k].task = held[c][k].task, held'[c][k].token = held[c][k].token,
         held'[c][k].left = held[c][k].left, held'[c][k].renewAge = held[c][k].renewAge,
         held'[c][k].renewNextTick = held[c][k].renewNextTick,
         held'[c][k].pendingDeletion = held[c][k].pendingDeletion,
         held'[c][k].releasePending = held[c][k].releasePending,
         MayGo(c, k) \/ (/\ JoblessEligible(held'[c][k])
                         /\ held'[c][k].jobless <= AtLeast(held[c][k].jobless, 0))
  PROVE  KeyStep(c, k)
<1> DEFINE h == held[c][k]
           g == held'[c][k]
<1>1. h \in HeldClaim /\ h.left \in Int /\ h.renewAge \in Nat /\ g # NotHeld
  BY HeldEntry, EntryFields
<1>2. StoreStep(c, k)
  BY DEF StoreStep
<1>3. EntryStep(c, k)
  BY <1>1 DEF EntryStep, Holds
<1>4. CurrentToken(c, k) => CurrentToken(c, k)'
  BY <1>1 DEF CurrentToken, Holds
<1>5. SpawnKept(c, k)
  BY <1>1, <1>4 DEF SpawnKept, MayGo
<1> QED
  BY <1>2, <1>3, <1>5 DEF KeyStep

-----------------------------------------------------------------------------
(* The releases and the passes of a tick, entry by entry.                   *)

(* Jobs only end, and none becomes this process's own. *)
JobsShrink(c) ==
  /\ jobs'[c] \subseteq jobs[c]
  /\ jobs'[c] \ stray'[c] \subseteq jobs[c] \ stray[c]
  /\ \A d \in Clusters \ {c} : jobs'[d] = jobs[d] /\ stray'[d] = stray[d]

QuietStep(c) ==
  /\ \A k \in Keys : KeyStep(c, k)
  /\ \A d \in Clusters \ {c} : held'[d] = held[d]
  /\ JobsShrink(c)

LEMMA FreedCases ==
  ASSUME NEW c \in Clusters, NEW S, NEW k \in Keys
  PROVE  \/ Freed(c, S)[k] = store[k]
         \/ k \in S /\ Freed(c, S)[k] = Free /\ CurrentToken(c, k)
BY DEF Freed

LEMMA DeleteJobsShrinks ==
  ASSUME TypeOK, NEW c \in Clusters, NEW T, DeleteJobs(c, T)
  PROVE  JobsShrink(c) /\ \A t \in T : t \notin jobs'[c]
<1>1. jobs'[c] = jobs[c] \ T /\ stray'[c] = stray[c] \ T
  BY DEF TypeOK, DeleteJobs
<1>2. \A d \in Clusters \ {c} : jobs'[d] = jobs[d] /\ stray'[d] = stray[d]
  BY DEF TypeOK, DeleteJobs
<1> QED
  BY <1>1, <1>2 DEF JobsShrink

LEMMA QuietSame ==
  ASSUME TypeInv, NEW c \in Clusters, UNCHANGED <<store, held, jobs, stray>>
  PROVE  QuietStep(c)
BY EntrySame DEF QuietStep, JobsShrink

\* releaseRef drops or marks only the claims it is given.
LEMMA ReleaseRefsQuiet ==
  ASSUME TypeInv, NEW c \in Clusters, NEW S \in SUBSET HeldKeys(c), ReleaseRefs(c, S),
         UNCHANGED <<jobs, stray>>,
         \A k \in S : /\ held[c][k].releasePending \/ held[c][k].task \notin jobs[c]
                      /\ ~Undisturbed(c, k)
  PROVE  QuietStep(c)
<1>1. PICK fail \in MayInTick(c, "releaseFails", S) :
        \E lost \in May("releaseLost", S \ fail) :
          /\ store' = Freed(c, S \ fail)
          /\ held' = [held EXCEPT ![c] = [k \in Keys |->
               IF k \in lost \cup fail THEN [@[k] EXCEPT !.releasePending = TRUE]
               ELSE IF k \in S THEN NotHeld ELSE @[k]]]
  BY DEF ReleaseRefs
<1>2. PICK lost \in May("releaseLost", S \ fail) :
        /\ store' = Freed(c, S \ fail)
        /\ held' = [held EXCEPT ![c] = [k \in Keys |->
             IF k \in lost \cup fail THEN [@[k] EXCEPT !.releasePending = TRUE]
             ELSE IF k \in S THEN NotHeld ELSE @[k]]]
  BY <1>1
<1>3. fail \subseteq S /\ lost \subseteq S
  BY <1>1, <1>2 DEF May, MayInTick
<1>4. held \in [Clusters -> [Keys -> HeldClaim \cup {NotHeld}]]
  BY DEF TypeInv, TypeOK
<1>5. \A d \in Clusters \ {c} : held'[d] = held[d]
  BY <1>2, <1>4
<1>6. ASSUME NEW k \in Keys PROVE KeyStep(c, k)
  <2>1. \/ store'[k] = store[k]
        \/ k \in S \ fail /\ store'[k] = Free /\ CurrentToken(c, k)
    BY <1>2, FreedCases
  <2>2. CASE k \in lost \cup fail
    <3>1. Holds(c, k) /\ k \in S /\ MayGo(c, k)
      BY <1>3, <2>2 DEF HeldKeys, MayGo
    <3>2. held'[c][k] = [held[c][k] EXCEPT !.releasePending = TRUE]
      BY <1>2, <1>4, <2>2
    <3> QED
      BY <2>1, <3>1, <3>2, EntryMarked
  <2>3. CASE k \notin lost \cup fail /\ k \in S
    <3>1. held'[c][k] = NotHeld /\ MayGo(c, k)
      BY <1>2, <1>4, <2>3 DEF MayGo
    <3> QED
      BY <2>1, <2>3, <3>1, EntryGone
  <2>4. CASE k \notin lost \cup fail /\ k \notin S
    <3>1. held'[c][k] = held[c][k]
      BY <1>2, <1>4, <2>4
    <3> QED
      BY <2>1, <2>4, <3>1, EntrySame
  <2> QED
    BY <2>2, <2>3, <2>4
<1> QED
  BY <1>5, <1>6 DEF QuietStep, JobsShrink

\* releaseLocked asks for the Job first.
LEMMA ReleaseLockedQuiet ==
  ASSUME TypeInv, NEW c \in Clusters, NEW S \in SUBSET HeldKeys(c), ReleaseLocked(c, S),
         UNCHANGED <<jobs, stray>>, \A k \in S : ~Undisturbed(c, k)
  PROVE  QuietStep(c)
<1>1. PICK unknown : ReleaseRefs(c, {k \in S \ unknown : ~IsJobRunning(c, held[c][k].task)})
  BY DEF ReleaseLocked
<1> DEFINE R == {k \in S \ unknown : ~IsJobRunning(c, held[c][k].task)}
<1>2. /\ R \in SUBSET HeldKeys(c)
      /\ \A k \in R : held[c][k].task \notin jobs[c] /\ ~Undisturbed(c, k)
  BY DEF IsJobRunning
<1> HIDE DEF R
<1> QED
  BY <1>1, <1>2, ReleaseRefsQuiet DEF R

LEMMA ReleaseQuiet ==
  ASSUME TypeInv, NEW c \in Clusters, NEW k \in Keys, Holds(c, k), Release(c, k),
         UNCHANGED <<jobs, stray>>, ~Undisturbed(c, k)
  PROVE  QuietStep(c)
<1>1. {k} \in SUBSET HeldKeys(c)
  BY DEF HeldKeys
<1>2. CASE UNCHANGED <<store, held>>
  BY <1>2, QuietSame
<1>3. CASE ReleaseLocked(c, {k})
  BY <1>1, <1>3, ReleaseLockedQuiet
<1> QED
  BY <1>2, <1>3 DEF Release

\* A claim whose task is being spawned is not released by the spawn path of its own task.
LEMMA ReleaseFailedSpawnQuiet ==
  ASSUME TypeInv, NEW c \in Clusters, NEW t \in Tasks, ReleaseFailedSpawn(c, t)
  PROVE  QuietStep(c)
<1>1. KeyOf[t] \in Keys /\ UNCHANGED <<jobs, stray>>
  BY ConstantsAssumption DEF ReleaseFailedSpawn
<1>2. CASE UNCHANGED <<store, held>>
  BY <1>1, <1>2, QuietSame
<1>3. CASE Holds(c, KeyOf[t]) /\ held[c][KeyOf[t]].task = t /\ Release(c, KeyOf[t])
  <2>1. ~Undisturbed(c, KeyOf[t])
    BY <1>3 DEF ReleaseFailedSpawn, Undisturbed
  <2> QED
    BY <1>1, <1>3, <2>1, ReleaseQuiet
<1> QED
  BY <1>2, <1>3 DEF ReleaseFailedSpawn

LEMMA ReleaseTaskClaimQuiet ==
  ASSUME TypeInv, NEW c \in Clusters, NEW k \in Keys,
         ReleaseTaskClaim(c, k) \/ ReleaseAfterSuccess(c, k)
  PROVE  QuietStep(c)
<1>1. Holds(c, k) /\ spawn[c][held[c][k].task].pc = "idle" /\ UNCHANGED <<jobs, stray>>
  BY DEF ReleaseTaskClaim, ReleaseAfterSuccess
<1>2. ~Undisturbed(c, k) /\ MayGo(c, k)
  BY <1>1 DEF Undisturbed, MayGo
<1>3. CASE Release(c, k)
  BY <1>1, <1>2, <1>3, ReleaseQuiet
<1>4. ASSUME ReleaseAfterSuccess(c, k), ~Release(c, k)
      PROVE  QuietStep(c)
  <2> DEFINE h == held[c][k]
             newHold == AtLeast(SuccessGracePeriod - doneAge[c][h.task], h.hold)
             g == [h EXCEPT !.hold = newHold]
  <2>1. held' = [held EXCEPT ![c][k] = g] /\ UNCHANGED store
    BY <1>4 DEF ReleaseAfterSuccess
  <2>2. h \in HeldClaim /\ held \in [Clusters -> [Keys -> HeldClaim \cup {NotHeld}]]
    BY <1>1 DEF TypeInv, TypeOK, Holds
  <2>3. g \in HeldClaim
    <3>1. doneAge[c][h.task] \in None .. SuccessGracePeriod /\ doneAge[c][h.task] # None
      BY <1>4, <2>2, EntryFields DEF ReleaseAfterSuccess, TypeInv, TypeOK
    <3>2. newHold \in None .. SuccessGracePeriod
      <4> DEFINE age == doneAge[c][h.task]
                 old == h.hold
      <4>1. old \in None .. SuccessGracePeriod
        BY <2>2 DEF HeldClaim
      <4> HIDE DEF age, old
      <4>2. age \in 0 .. SuccessGracePeriod
        BY <3>1, Numbers DEF None, age
      <4>3. AtLeast(SuccessGracePeriod - age, old) \in None .. SuccessGracePeriod
        BY <4>1, <4>2, Numbers DEF AtLeast, None
      <4> QED
        BY <4>3 DEF age, old
    <3> HIDE DEF h, newHold
    <3> QED
      BY <2>2, <3>2, HeldUpdates
  <2>4. /\ g.task = h.task /\ g.token = h.token /\ g.left = h.left /\ g.renewAge = h.renewAge
        /\ g.renewNextTick = h.renewNextTick /\ g.pendingDeletion = h.pendingDeletion
        /\ g.releasePending = h.releasePending
    <3> HIDE DEF h, newHold
    <3> QED
      BY <2>2 DEF HeldClaim
  <2> HIDE DEF g
  <2>5. /\ held'[c][k] = g /\ (\A j \in Keys \ {k} : held'[c][j] = held[c][j])
        /\ \A d \in Clusters \ {c} : held'[d] = held[d]
    BY <2>1, <2>2
  <2>6. KeyStep(c, k)
    BY <1>1, <1>2, <2>1, <2>3, <2>4, <2>5, EntryTouched
  <2>7. ASSUME NEW j \in Keys \ {k} PROVE KeyStep(c, j)
    BY <2>1, <2>5, EntrySame
  <2> QED
    BY <1>1, <2>5, <2>6, <2>7 DEF QuietStep, JobsShrink
<1> QED
  BY <1>3, <1>4 DEF ReleaseTaskClaim

LEMMA BestEffortReleaseCases ==
  ASSUME NEW c \in Clusters, NEW S, BestEffortRelease(c, S), NEW k \in Keys
  PROVE  \/ store'[k] = store[k]
         \/ k \in S /\ store'[k] = Free /\ CurrentToken(c, k)
<1>1. PICK unlanded : store' = Freed(c, S \ unlanded)
  BY DEF BestEffortRelease
<1> QED
  BY <1>1, FreedCases

\* A pending deletion that succeeds ends the Job before the claim is released.
LEMMA RetryPendingDeletionsQuiet ==
  ASSUME TypeInv, NEW c \in Clusters, RetryPendingDeletions(c)
  PROVE  QuietStep(c)
<1> DEFINE pending == {k \in HeldKeys(c) : held[c][k].pendingDeletion # "no"}
           Fenced(kept) == {k \in pending \ kept : held[c][k].pendingDeletion = "fence"}
<1>1. PICK kept : /\ BestEffortRelease(c, Fenced(kept)) /\ held' = Dropped(c, pending \ kept)
                  /\ DeleteJobs(c, HeldTasks(c, pending \ kept))
  BY DEF RetryPendingDeletions
<1>2. held \in [Clusters -> [Keys -> HeldClaim \cup {NotHeld}]] /\ TypeOK
  BY DEF TypeInv, TypeOK
<1>3. \A d \in Clusters \ {c} : held'[d] = held[d]
  BY <1>1, <1>2 DEF Dropped
<1>4. JobsShrink(c) /\ \A t \in HeldTasks(c, pending \ kept) : t \notin jobs'[c]
  BY <1>1, <1>2, DeleteJobsShrinks
<1>5. ASSUME NEW k \in Keys PROVE KeyStep(c, k)
  <2>1. \/ store'[k] = store[k]
        \/ k \in Fenced(kept) /\ store'[k] = Free /\ CurrentToken(c, k)
    <3> HIDE DEF Fenced
    <3> QED
      BY <1>1, BestEffortReleaseCases
  <2>2. CASE k \in pending \ kept
    <3>1. held'[c][k] = NotHeld
      BY <1>1, <1>2, <2>2 DEF Dropped
    <3>2. held[c][k].task \notin jobs'[c]
      BY <1>4, <2>2 DEF HeldTasks
    <3>3. MayGo(c, k)
      BY <2>2 DEF MayGo, Undisturbed, JoblessEligible
    <3> QED
      BY <2>1, <3>1, <3>2, <3>3, EntryGone
  <2>3. CASE k \notin pending \ kept
    <3>1. held'[c][k] = held[c][k]
      BY <1>1, <1>2, <2>3 DEF Dropped
    <3>2. store'[k] = store[k]
      BY <2>1, <2>3
    <3> QED
      BY <3>1, <3>2, EntrySame
  <2> QED
    BY <2>2, <2>3
<1> QED
  BY <1>3, <1>4, <1>5 DEF QuietStep

\* The fence stops the Job, or remembers it, before it gives up the claim, and leaves no
\* claim behind that is due.
LEMMA FenceQuiet ==
  ASSUME TypeInv, NEW c \in Clusters, Fence(c)
  PROVE  /\ QuietStep(c)
         /\ \A k \in Keys : held'[c][k] # NotHeld /\ held'[c][k].pendingDeletion = "no"
              => ~FenceDue(held'[c][k].left)
<1> DEFINE due == {k \in HeldKeys(c) :
                     held[c][k].pendingDeletion = "no" /\ FenceDue(held[c][k].left)}
           stopping == {k \in due : ~held[c][k].releasePending}
<1>1. PICK kept \in May("deleteFails", stopping) :
        /\ BestEffortRelease(c, due \ kept)
        /\ held' = [held EXCEPT ![c] = [k \in Keys |->
             IF k \in kept THEN FencePending(@[k])
             ELSE IF k \in due THEN NotHeld ELSE @[k]]]
        /\ DeleteJobs(c, HeldTasks(c, stopping \ kept))
  BY DEF Fence
<1>2. held \in [Clusters -> [Keys -> HeldClaim \cup {NotHeld}]] /\ TypeOK
  BY DEF TypeInv, TypeOK
<1>3. \A d \in Clusters \ {c} : held'[d] = held[d]
  BY <1>1, <1>2
<1>4. kept \subseteq stopping
  BY <1>1 DEF May
<1>5. JobsShrink(c) /\ \A t \in HeldTasks(c, stopping \ kept) : t \notin jobs'[c]
  BY <1>1, <1>2, DeleteJobsShrinks
<1>6. ASSUME NEW k \in Keys
      PROVE  /\ KeyStep(c, k)
             /\ held'[c][k] # NotHeld /\ held'[c][k].pendingDeletion = "no"
                  => ~FenceDue(held'[c][k].left)
  <2>1. \/ store'[k] = store[k]
        \/ k \in due \ kept /\ store'[k] = Free /\ CurrentToken(c, k)
    <3> HIDE DEF due
    <3> QED
      BY <1>1, BestEffortReleaseCases
  <2>2. k \in due => MayGo(c, k)
    BY DEF MayGo, Undisturbed
  <2>3. CASE k \in kept
    <3>1. held[c][k] \in HeldClaim /\ Holds(c, k) /\ k \in due
      BY <1>2, <1>4, <2>3 DEF HeldKeys, Holds
    <3>2. held'[c][k] = [held[c][k] EXCEPT !.pendingDeletion = "fence"]
      BY <1>1, <1>2, <2>3 DEF FencePending
    <3>3. held'[c][k].pendingDeletion = "fence"
      BY <3>1, <3>2 DEF HeldClaim
    <3>4. store'[k] = store[k]
      BY <2>1, <2>3
    <3>5. KeyStep(c, k)
      BY <2>2, <3>1, <3>2, <3>4, EntryDoomed
    <3> QED
      BY <3>3, <3>5
  <2>4. CASE k \notin kept /\ k \in due
    <3>1. held'[c][k] = NotHeld
      BY <1>1, <1>2, <2>4
    <3>2. held[c][k].releasePending \/ held[c][k].task \notin jobs'[c]
      BY <1>5, <2>4 DEF HeldTasks
    <3>3. KeyStep(c, k)
      BY <2>1, <2>2, <2>4, <3>1, <3>2, EntryGone
    <3> QED
      BY <3>1, <3>3
  <2>5. CASE k \notin kept /\ k \notin due
    <3>1. held'[c][k] = held[c][k]
      BY <1>1, <1>2, <2>5
    <3>2. store'[k] = store[k]
      BY <2>1, <2>5
    <3>3. KeyStep(c, k)
      BY <3>1, <3>2, EntrySame
    <3>4. held[c][k] # NotHeld /\ held[c][k].pendingDeletion = "no" => ~FenceDue(held[c][k].left)
      BY <2>5 DEF HeldKeys, Holds
    <3> QED
      BY <3>1, <3>3, <3>4
  <2> QED
    BY <2>3, <2>4, <2>5
<1> QED
  BY <1>3, <1>5, <1>6 DEF QuietStep

LEMMA JoblessCheckedFields ==
  ASSUME TypeInv, NEW c \in Clusters, NEW k \in HeldKeys(c), NEW unknown
  PROVE  LET h == held[c][k]
             j == JoblessChecked(c, k, unknown) IN
         /\ h \in HeldClaim /\ j \in HeldClaim
         /\ j.task = h.task /\ j.token = h.token /\ j.left = h.left
         /\ j.renewAge = h.renewAge /\ j.renewNextTick = h.renewNextTick
         /\ j.pendingDeletion = h.pendingDeletion /\ j.needsRunningCheck = h.needsRunningCheck
         /\ j.hold = h.hold /\ j.jobless \in Int /\ j.jobless <= AtLeast(h.jobless, 0)
         /\ k \notin unknown /\ IsJobRunning(c, h.task) => j.jobless = None
<1> DEFINE h == held[c][k]
           since == IF k \in unknown THEN h.jobless
                    ELSE IF IsJobRunning(c, h.task) THEN None ELSE AtLeast(h.jobless, 0)
           j == JoblessChecked(c, k, unknown)
<1>1. h \in HeldClaim /\ j \in HeldClaim
  BY JoblessCheckedType DEF TypeInv, TypeOK, HeldKeys, Holds
<1>2. j = [h EXCEPT !.checkAge = 0, !.jobless = since]
  BY DEF JoblessChecked
<1>3. since \in Int /\ since <= AtLeast(h.jobless, 0)
  <2> DEFINE x == h.jobless
  <2>1. x \in Int
    BY <1>1, EntryFields
  <2> HIDE DEF x
  <2>2. /\ x <= AtLeast(x, 0) /\ None <= AtLeast(x, 0) /\ AtLeast(x, 0) <= AtLeast(x, 0)
        /\ None \in Int /\ AtLeast(x, 0) \in Int
    BY <2>1 DEF AtLeast, None
  <2> QED
    BY <2>1, <2>2 DEF x
<1>4. k \notin unknown /\ IsJobRunning(c, h.task) => since = None
  OBVIOUS
<1> HIDE DEF h, j, since
<1>5. /\ j.task = h.task /\ j.token = h.token /\ j.left = h.left
      /\ j.renewAge = h.renewAge /\ j.renewNextTick = h.renewNextTick
      /\ j.pendingDeletion = h.pendingDeletion /\ j.needsRunningCheck = h.needsRunningCheck
      /\ j.hold = h.hold /\ j.jobless = since
  BY <1>1, <1>2 DEF HeldClaim
<1> QED
  BY <1>1, <1>3, <1>4, <1>5 DEF h, j

LEMMA ReleaseMark ==
  ASSUME NEW j \in HeldClaim, NEW b \in BOOLEAN
  PROVE  LET g == [j EXCEPT !.releasePending = b] IN
         /\ g \in HeldClaim /\ g.task = j.task /\ g.token = j.token /\ g.left = j.left
         /\ g.renewAge = j.renewAge /\ g.renewNextTick = j.renewNextTick
         /\ g.pendingDeletion = j.pendingDeletion /\ g.needsRunningCheck = j.needsRunningCheck
         /\ g.hold = j.hold /\ g.jobless = j.jobless /\ g.releasePending = b
BY DEF HeldClaim

\* A claim leaves by the jobless pass only without a Job and after its grace, which the
\* way from the claim to its Job does not use up.
LEMMA ReleaseJoblessClaimsQuiet ==
  ASSUME TypeInv, NEW c \in Clusters, ReleaseJoblessClaims(c)
  PROVE  QuietStep(c)
<1> DEFINE Gone(checked, unknown) ==
             {k \in checked \ unknown : JoblessChecked(c, k, unknown).jobless >= JoblessGrace}
           After(checked, unknown, fail, lost) ==
             [k \in Keys |->
               IF k \in Gone(checked, unknown) \ (lost \cup fail) THEN NotHeld
               ELSE IF k \in checked
               THEN [JoblessChecked(c, k, unknown)
                       EXCEPT !.releasePending = (k \in Gone(checked, unknown))]
               ELSE held[c][k]]
<1>1. PICK checked \in SUBSET HeldKeys(c) :
        \E unknown \in MayInTick(c, "checkFails", checked) :
        \E fail \in MayInTick(c, "releaseFails", Gone(checked, unknown)) :
        \E lost \in May("releaseLost", Gone(checked, unknown) \ fail) :
          /\ CheckedInPass(c, checked)
          /\ store' = Freed(c, Gone(checked, unknown) \ fail)
          /\ held' = [held EXCEPT ![c] = After(checked, unknown, fail, lost)]
  BY DEF ReleaseJoblessClaims
<1>2. PICK unknown, fail, lost :
        /\ CheckedInPass(c, checked)
        /\ store' = Freed(c, Gone(checked, unknown) \ fail)
        /\ held' = [held EXCEPT ![c] = After(checked, unknown, fail, lost)]
  <2> HIDE DEF Gone, After
  <2> QED
    BY <1>1
<1> DEFINE gone == Gone(checked, unknown)
<1>3. held \in [Clusters -> [Keys -> HeldClaim \cup {NotHeld}]] /\ UNCHANGED <<jobs, stray>>
  BY DEF TypeInv, TypeOK, ReleaseJoblessClaims
<1>4. (\A d \in Clusters \ {c} : held'[d] = held[d]) /\ gone \subseteq checked
  BY <1>2, <1>3
<1>5. ASSUME NEW k \in Keys PROVE KeyStep(c, k)
  <2>1. \/ store'[k] = store[k]
        \/ k \in gone \ fail /\ store'[k] = Free /\ CurrentToken(c, k)
    <3> HIDE DEF Gone, After
    <3> QED
      BY <1>2, FreedCases
  <2>2. held'[c][k] = After(checked, unknown, fail, lost)[k]
    BY <1>2, <1>3
  <2>3. ASSUME k \in checked
        PROVE  Holds(c, k) /\ k \in HeldKeys(c) /\ JoblessEligible(held[c][k])
    BY <1>2, <2>3 DEF CheckedInPass, JoblessDueKeys, HeldKeys
  <2>4. ASSUME k \in gone
        PROVE  held[c][k].task \notin jobs[c] /\ MayGo(c, k)
    <3> DEFINE h == held[c][k]
               j == JoblessChecked(c, k, unknown)
    <3>1. k \in HeldKeys(c) /\ k \notin unknown /\ j.jobless >= JoblessGrace
      BY <1>4, <2>3, <2>4
    <3>2. /\ h \in HeldClaim /\ j.jobless \in Int /\ j.jobless <= AtLeast(h.jobless, 0)
          /\ IsJobRunning(c, h.task) => j.jobless = None
      BY <3>1, JoblessCheckedFields
    <3>3. h.jobless \in Int
      BY <3>2, EntryFields
    <3> HIDE DEF h, j
    <3>4. h.jobless >= JoblessGrace /\ j.jobless # None
      BY <3>1, <3>2, <3>3, Deadlines DEF AtLeast, None
    <3>5. ~(h.jobless < JoblessGrace)
      BY <3>3, <3>4, Numbers
    <3> QED
      BY <3>2, <3>4, <3>5 DEF IsJobRunning, MayGo, Undisturbed, h
  <2>5. CASE k \in gone \ (lost \cup fail)
    <3>1. held'[c][k] = NotHeld
      BY <2>2, <2>5
    <3> HIDE DEF gone
    <3> QED
      BY <1>3, <2>1, <2>4, <2>5, <3>1, EntryGone
  <2>6. CASE k \in checked /\ k \notin gone \ (lost \cup fail)
    <3> DEFINE b == k \in gone
               h == held[c][k]
               j == JoblessChecked(c, k, unknown)
               g == [j EXCEPT !.releasePending = b]
    <3>1. b \in BOOLEAN /\ held'[c][k] = g
      BY <2>2, <2>6
    <3> HIDE DEF b
    <3>2. /\ h \in HeldClaim /\ g \in HeldClaim
          /\ g.task = h.task /\ g.token = h.token /\ g.left = h.left
          /\ g.renewAge = h.renewAge /\ g.renewNextTick = h.renewNextTick
          /\ g.pendingDeletion = h.pendingDeletion /\ g.needsRunningCheck = h.needsRunningCheck
          /\ g.hold = h.hold /\ g.releasePending = b /\ g.jobless <= AtLeast(h.jobless, 0)
      <4>1. /\ h \in HeldClaim /\ j \in HeldClaim
            /\ j.task = h.task /\ j.token = h.token /\ j.left = h.left
            /\ j.renewAge = h.renewAge /\ j.renewNextTick = h.renewNextTick
            /\ j.pendingDeletion = h.pendingDeletion /\ j.needsRunningCheck = h.needsRunningCheck
            /\ j.hold = h.hold /\ j.jobless <= AtLeast(h.jobless, 0)
        BY <2>3, <2>6, JoblessCheckedFields
      <4> HIDE DEF j, h
      <4> QED
        BY <3>1, <4>1, ReleaseMark
    <3> HIDE DEF g, gone
    <3>3. CASE ~b
      <4>1. store'[k] = store[k]
        BY <2>1, <3>3 DEF b
      <4>2. JoblessEligible(g) /\ g.releasePending = h.releasePending
        <5>1. JoblessEligible(h) /\ h.releasePending = FALSE
          BY <2>3, <2>6, <3>2, EntryFields DEF JoblessEligible
        <5>2. b = FALSE
          BY <3>1, <3>3
        <5>3. g.releasePending = FALSE
          BY <3>2, <5>2
        <5> QED
          BY <3>2, <5>1, <5>3 DEF JoblessEligible
      <4> QED
        BY <2>3, <2>6, <3>1, <3>2, <4>1, <4>2, EntryTouched
    <3>4. CASE b
      <4>1. h.task \notin jobs[c] /\ MayGo(c, k) /\ Holds(c, k)
        BY <2>3, <2>4, <2>6, <3>4 DEF b
      <4>2. h.left \in Int /\ g # NotHeld
        BY <3>2, EntryFields
      <4>3. StoreStep(c, k)
        BY <1>3, <2>1, <4>1 DEF StoreStep
      <4>4. EntryStep(c, k)
        BY <1>3, <3>1, <3>2, <4>1, <4>2 DEF EntryStep, Holds
      <4>5. SpawnKept(c, k)
        BY <4>1 DEF SpawnKept, MayGo
      <4> QED
        BY <4>3, <4>4, <4>5 DEF KeyStep
    <3> QED
      BY <3>3, <3>4
  <2>7. CASE k \notin checked
    <3>1. held'[c][k] = held[c][k]
      BY <1>4, <2>2, <2>7
    <3>2. store'[k] = store[k]
      BY <1>4, <2>1, <2>7
    <3> QED
      BY <3>1, <3>2, EntrySame
  <2> QED
    BY <2>5, <2>6, <2>7, <1>4
<1> QED
  BY <1>3, <1>4, <1>5 DEF QuietStep, JobsShrink

\* A claim adopted without knowing its Job leaves only once the Job is known to be gone.
LEMMA RecheckRunningQuiet ==
  ASSUME TypeInv, NEW c \in Clusters, RecheckRunning(c)
  PROVE  QuietStep(c)
<1> DEFINE asked == {k \in HeldKeys(c) : held[c][k].needsRunningCheck}
<1>1. PICK unknown \in May("checkFails", asked) :
      LET running == {k \in asked \ unknown : IsJobRunning(c, held[c][k].task)}
          gone == asked \ (unknown \cup running) IN
      \E fail \in MayInTick(c, "releaseFails", gone) : \E lost \in May("releaseLost", gone \ fail) :
        /\ store' = Freed(c, gone \ fail)
        /\ held' = [held EXCEPT ![c] = [k \in Keys |->
             IF k \in running THEN [@[k] EXCEPT !.needsRunningCheck = FALSE]
             ELSE IF k \in lost \cup fail THEN [@[k] EXCEPT !.releasePending = TRUE]
             ELSE IF k \in gone THEN NotHeld ELSE @[k]]]
  BY DEF RecheckRunning
<1> DEFINE running == {k \in asked \ unknown : IsJobRunning(c, held[c][k].task)}
           gone == asked \ (unknown \cup running)
<1>2. PICK fail \in MayInTick(c, "releaseFails", gone) : \E lost \in May("releaseLost", gone \ fail) :
        /\ store' = Freed(c, gone \ fail)
        /\ held' = [held EXCEPT ![c] = [k \in Keys |->
             IF k \in running THEN [@[k] EXCEPT !.needsRunningCheck = FALSE]
             ELSE IF k \in lost \cup fail THEN [@[k] EXCEPT !.releasePending = TRUE]
             ELSE IF k \in gone THEN NotHeld ELSE @[k]]]
  BY <1>1
<1>3. /\ running \subseteq HeldKeys(c) /\ gone \subseteq HeldKeys(c) /\ running \cap gone = {}
      /\ \A k \in gone : held[c][k].task \notin jobs[c]
      /\ \A k \in running \cup gone : MayGo(c, k)
  BY DEF IsJobRunning, MayGo, Undisturbed, JoblessEligible
<1> HIDE DEF asked, running, gone
<1>4. PICK lost \in May("releaseLost", gone \ fail) :
        /\ store' = Freed(c, gone \ fail)
        /\ held' = [held EXCEPT ![c] = [k \in Keys |->
             IF k \in running THEN [@[k] EXCEPT !.needsRunningCheck = FALSE]
             ELSE IF k \in lost \cup fail THEN [@[k] EXCEPT !.releasePending = TRUE]
             ELSE IF k \in gone THEN NotHeld ELSE @[k]]]
  BY <1>2
<1>5. fail \subseteq gone /\ lost \subseteq gone
  BY <1>2, <1>4 DEF May, MayInTick
<1>6. held \in [Clusters -> [Keys -> HeldClaim \cup {NotHeld}]] /\ UNCHANGED <<jobs, stray>>
  BY DEF TypeInv, TypeOK, RecheckRunning
<1>7. \A d \in Clusters \ {c} : held'[d] = held[d]
  BY <1>4, <1>6
<1>8. ASSUME NEW k \in Keys PROVE KeyStep(c, k)
  <2>1. \/ store'[k] = store[k]
        \/ k \in gone \ fail /\ store'[k] = Free /\ CurrentToken(c, k)
    BY <1>4, FreedCases
  <2>2. CASE k \in running
    <3> DEFINE h == held[c][k]
               g == [h EXCEPT !.needsRunningCheck = FALSE]
    <3>1. h \in HeldClaim /\ Holds(c, k) /\ k \notin gone /\ MayGo(c, k)
      BY <1>3, <1>6, <2>2 DEF HeldKeys, Holds
    <3>2. held'[c][k] = g /\ store'[k] = store[k]
      BY <1>4, <1>6, <2>1, <2>2, <3>1
    <3>3. /\ g \in HeldClaim
          /\ g.task = h.task /\ g.token = h.token /\ g.left = h.left /\ g.renewAge = h.renewAge
          /\ g.renewNextTick = h.renewNextTick /\ g.pendingDeletion = h.pendingDeletion
          /\ g.releasePending = h.releasePending
      <4> HIDE DEF h
      <4> QED
        BY <3>1 DEF HeldClaim
    <3> HIDE DEF g
    <3> QED
      BY <3>1, <3>2, <3>3, EntryTouched
  <2>3. CASE k \in lost \cup fail
    <3>1. Holds(c, k) /\ k \notin running /\ MayGo(c, k) /\ held[c][k].task \notin jobs[c]
      BY <1>3, <1>5, <2>3 DEF HeldKeys
    <3>2. held'[c][k] = [held[c][k] EXCEPT !.releasePending = TRUE]
      BY <1>4, <1>6, <2>3, <3>1
    <3> QED
      BY <1>6, <2>1, <3>1, <3>2, EntryMarked
  <2>4. CASE k \notin running /\ k \notin lost \cup fail /\ k \in gone
    <3>1. held'[c][k] = NotHeld
      BY <1>4, <1>6, <2>4
    <3> QED
      BY <1>3, <1>6, <2>1, <2>4, <3>1, EntryGone
  <2>5. CASE k \notin running /\ k \notin lost \cup fail /\ k \notin gone
    <3>1. held'[c][k] = held[c][k]
      BY <1>4, <1>6, <2>5
    <3> QED
      BY <2>1, <2>5, <3>1, EntrySame
  <2> QED
    BY <2>2, <2>3, <2>4, <2>5
<1> QED
  BY <1>6, <1>7, <1>8 DEF QuietStep, JobsShrink

\* claimLost ends the Job with the entry, or keeps the entry until the Job is gone.
LEMMA ClaimLostQuiet ==
  ASSUME TypeInv, NEW c \in Clusters, NEW k \in Keys, Holds(c, k), ClaimLost(c, k),
         UNCHANGED store, MayGo(c, k)
  PROVE  QuietStep(c)
<1>1. /\ held \in [Clusters -> [Keys -> HeldClaim \cup {NotHeld}]] /\ TypeOK
      /\ \A j \in Keys : store'[j] = store[j]
  BY DEF TypeInv, TypeOK
<1>2. /\ \A d \in Clusters \ {c} : held'[d] = held[d]
      /\ \A j \in Keys \ {k} : held'[c][j] = held[c][j]
      /\ \/ held'[c][k] = NotHeld /\ DeleteJobs(c, {held[c][k].task})
         \/ /\ held'[c][k] = [held[c][k] EXCEPT !.pendingDeletion = "lost"]
            /\ UNCHANGED <<jobs, stray>>
  BY <1>1 DEF ClaimLost, Dropped
<1>3. JobsShrink(c)
  BY <1>1, <1>2, DeleteJobsShrinks DEF JobsShrink
<1>4. KeyStep(c, k)
  <2>1. CASE held'[c][k] = NotHeld /\ DeleteJobs(c, {held[c][k].task})
    <3>1. held[c][k].task \notin jobs'[c]
      BY <1>1, <2>1, DeleteJobsShrinks
    <3> QED
      BY <1>1, <2>1, <3>1, EntryGone
  <2>2. CASE held'[c][k] = [held[c][k] EXCEPT !.pendingDeletion = "lost"]
    BY <1>1, <2>2, EntryDoomed
  <2> QED
    BY <1>2, <2>1, <2>2
<1>5. ASSUME NEW j \in Keys \ {k} PROVE KeyStep(c, j)
  BY <1>1, <1>2, EntrySame
<1> QED
  BY <1>2, <1>3, <1>4, <1>5 DEF QuietStep

\* A step that changes one entry only.
LEMMA OneKeyQuiet ==
  ASSUME TypeInv, NEW c \in Clusters, NEW k \in Keys, NEW g, KeyStep(c, k),
         held' = [held EXCEPT ![c][k] = g], UNCHANGED <<jobs, stray>>,
         \A j \in Keys \ {k} : store'[j] = store[j]
  PROVE  QuietStep(c)
<1>1. held \in [Clusters -> [Keys -> HeldClaim \cup {NotHeld}]]
  BY DEF TypeInv, TypeOK
<1>2. /\ \A d \in Clusters \ {c} : held'[d] = held[d]
      /\ \A j \in Keys \ {k} : held'[c][j] = held[c][j]
  BY <1>1
<1>3. ASSUME NEW j \in Keys \ {k} PROVE KeyStep(c, j)
  BY <1>2, EntrySame
<1> QED
  BY <1>2, <1>3 DEF QuietStep, JobsShrink

LEMMA RenewAskedFields ==
  ASSUME NEW h \in HeldClaim
  PROVE  LET a == RenewAsked(h) IN
         /\ a \in HeldClaim /\ a.task = h.task /\ a.pendingDeletion = h.pendingDeletion
         /\ a.releasePending = h.releasePending /\ a.renewAge = 0 /\ a.renewNextTick = FALSE
         /\ a.needsRunningCheck = h.needsRunningCheck /\ a.hold = h.hold
         /\ a.jobless = h.jobless /\ a.left = h.left /\ a.token = h.token
<1> DEFINE a == RenewAsked(h)
<1>1. a \in HeldClaim
  BY EntryFields, RenewedType
<1>2. /\ a.task = h.task /\ a.pendingDeletion = h.pendingDeletion
      /\ a.releasePending = h.releasePending /\ a.renewAge = 0 /\ a.renewNextTick = FALSE
      /\ a.needsRunningCheck = h.needsRunningCheck /\ a.hold = h.hold
      /\ a.jobless = h.jobless /\ a.left = h.left /\ a.token = h.token
  BY DEF HeldClaim, RenewAsked
<1> HIDE DEF a
<1> QED
  BY <1>1, <1>2 DEF a

LEMMA RenewedFields ==
  ASSUME NEW h \in HeldClaim, NEW token \in Tokens
  PROVE  LET g == Renewed(h, token) IN
         /\ g \in HeldClaim /\ g.task = h.task /\ g.pendingDeletion = h.pendingDeletion
         /\ g.releasePending = h.releasePending /\ g.renewAge = 0 /\ g.renewNextTick = FALSE
         /\ g.needsRunningCheck = h.needsRunningCheck /\ g.hold = h.hold
         /\ g.jobless = h.jobless /\ g.left = LeaseDuration /\ g.token = token
<1> DEFINE a == RenewAsked(h)
           g == Renewed(h, token)
<1>1. a \in HeldClaim /\ g \in HeldClaim
  BY RenewedType
<1>2. /\ a.task = h.task /\ a.pendingDeletion = h.pendingDeletion
      /\ a.releasePending = h.releasePending /\ a.renewAge = 0 /\ a.renewNextTick = FALSE
      /\ a.needsRunningCheck = h.needsRunningCheck /\ a.hold = h.hold
      /\ a.jobless = h.jobless
  BY RenewAskedFields
<1>3. g = [a EXCEPT !.token = token, !.left = LeaseDuration]
  BY DEF Renewed
<1> HIDE DEF a, g
<1>4. /\ g.task = a.task /\ g.pendingDeletion = a.pendingDeletion
      /\ g.releasePending = a.releasePending /\ g.renewAge = a.renewAge
      /\ g.renewNextTick = a.renewNextTick
      /\ g.needsRunningCheck = a.needsRunningCheck /\ g.hold = a.hold
      /\ g.jobless = a.jobless /\ g.left = LeaseDuration /\ g.token = token
  BY <1>1, <1>3 DEF HeldClaim
<1>5. /\ g.task = h.task /\ g.pendingDeletion = h.pendingDeletion
      /\ g.releasePending = h.releasePending /\ g.renewAge = 0 /\ g.renewNextTick = FALSE
      /\ g.needsRunningCheck = h.needsRunningCheck /\ g.hold = h.hold
      /\ g.jobless = h.jobless
  BY <1>2, <1>4
<1> QED
  BY <1>1, <1>4, <1>5 DEF g

\* renewClaim extends the lease, finds it lost, or waits for a read.
LEMMA RenewClaimQuiet ==
  ASSUME TypeInv, TokenInv, NEW c \in Clusters, RenewClaim(c)
  PROVE  QuietStep(c)
<1>1. PICK k \in op[c].todo :
        Renewable(c, k) /\ (RenewLands(c, k) \/ RenewRefused(c, k) \/ RenewFails(c, k))
  BY DEF RenewClaim
<1> DEFINE h == held[c][k]
<1>2. /\ k \in Keys /\ Holds(c, k) /\ RenewDue(h)
      /\ store \in [Keys -> Claim \cup {Free}]
      /\ held \in [Clusters -> [Keys -> HeldClaim \cup {NotHeld}]]
  BY <1>1 DEF TypeInv, TypeOK, Op, Renewable
<1>3. /\ h \in HeldClaim /\ h.left \in Int /\ h.left <= LeaseDuration /\ h.renewAge \in Nat
      /\ h.jobless \in Int
  BY <1>2, HeldEntry, EntryFields
<1>4. h.jobless <= AtLeast(h.jobless, 0)
  <2> DEFINE x == h.jobless
  <2>1. x \in Int
    BY <1>3
  <2> HIDE DEF x
  <2>2. x <= AtLeast(x, 0)
    BY <2>1 DEF AtLeast
  <2> QED
    BY <2>2 DEF x
<1>5. CASE RenewRefused(c, k)
  <2>1. MayGo(c, k)
    BY <1>2, <1>5 DEF RenewRefused, MayGo
  <2> QED
    BY <1>2, <1>5, <2>1, ClaimLostQuiet DEF RenewRefused
<1>6. ASSUME NEW g \in HeldClaim, held' = [held EXCEPT ![c][k] = g],
             g.task = h.task, g.pendingDeletion = h.pendingDeletion,
             g.releasePending = h.releasePending, g.renewAge = 0, g.renewNextTick = FALSE,
             g.needsRunningCheck = h.needsRunningCheck, g.hold = h.hold, g.jobless = h.jobless,
             \/ g.left = h.left
             \/ g.left = LeaseDuration /\ store'[k] # Free /\ g.left = store'[k].left,
             StoreStep(c, k),
             CurrentToken(c, k) => CurrentToken(c, k)' \/ Happens("renewLost"),
             \A j \in Keys \ {k} : store'[j] = store[j], UNCHANGED <<jobs, stray>>
      PROVE  QuietStep(c)
  <2>1. held'[c][k] = g
    BY <1>2, <1>6
  <2>2. EntryStep(c, k)
    <3>1. g.left >= h.left
      BY <1>3, <1>6, Numbers
    <3> QED
      BY <1>2, <1>3, <1>6, <2>1, <3>1, EntryFields DEF EntryStep, Holds
  <2>3. SpawnKept(c, k)
    <3>1. g # NotHeld /\ (JoblessEligible(h) => JoblessEligible(g))
      BY <1>6, EntryFields DEF JoblessEligible
    <3>2. g.renewAge <= h.renewAge /\ g.jobless <= AtLeast(h.jobless, 0)
      BY <1>3, <1>4, <1>6
    <3>3. g.renewNextTick => h.renewNextTick
      BY <1>6
    <3>4. Undisturbed(c, k) => JoblessEligible(g)
      BY <3>1 DEF Undisturbed
    <3> HIDE DEF h
    <3> QED
      BY <1>6, <2>1, <3>1, <3>2, <3>3, <3>4 DEF SpawnKept, h
  <2>4. KeyStep(c, k)
    BY <1>6, <2>2, <2>3 DEF KeyStep
  <2> QED
    BY <1>2, <1>6, <2>4, OneKeyQuiet
<1>7. CASE RenewFails(c, k)
  <2> DEFINE g == RenewAsked(h)
  <2>1. held' = [held EXCEPT ![c][k] = g] /\ UNCHANGED <<store, jobs, stray>>
    BY <1>7 DEF RenewFails
  <2>2. /\ g \in HeldClaim /\ g.task = h.task /\ g.pendingDeletion = h.pendingDeletion
        /\ g.releasePending = h.releasePending /\ g.renewAge = 0 /\ g.renewNextTick = FALSE
        /\ g.needsRunningCheck = h.needsRunningCheck /\ g.hold = h.hold
        /\ g.jobless = h.jobless /\ g.left = h.left /\ g.token = h.token
    <3> HIDE DEF h
    <3> QED
      BY <1>3, RenewAskedFields
  <2> HIDE DEF g
  <2>3. CurrentToken(c, k) => CurrentToken(c, k)'
    <3>1. held'[c][k] = g /\ g # NotHeld
      BY <1>2, <2>1, <2>2, EntryFields
    <3> QED
      BY <2>1, <2>2, <3>1 DEF CurrentToken, Holds
  <2>4. StoreStep(c, k) /\ \A j \in Keys \ {k} : store'[j] = store[j]
    BY <2>1 DEF StoreStep
  <2> HIDE DEF h
  <2> QED
    BY <1>6, <2>1, <2>2, <2>3, <2>4
<1>8. CASE RenewLands(c, k)
  <2>1. PICK token \in Tokens :
          /\ CurrentToken(c, k) /\ UNCHANGED <<jobs, stray>>
          /\ store' = [store EXCEPT ![k] = Written(c, held[c][k].task, token)]
          /\ \/ held' = [held EXCEPT ![c][k] = Renewed(held[c][k], token)]
             \/ /\ Happens("renewLost")
                /\ held' = [held EXCEPT ![c][k] = RenewAsked(held[c][k])]
    BY <1>8 DEF RenewLands
  <2>2. h.task \in Tasks
    BY <1>3, EntryFields
  <2>3. /\ store'[k] = Written(c, h.task, token) /\ Written(c, h.task, token) \in Claim
        /\ \A j \in Keys \ {k} : store'[j] = store[j]
    BY <1>2, <2>1, <2>2, Numbers DEF Written, Claim, Lefts
  <2>4. /\ store'[k] # Free /\ store'[k].holder = c /\ store'[k].task = h.task
        /\ store'[k].left = LeaseDuration /\ store'[k].token = token
    <3> DEFINE t == h.task
    <3> HIDE DEF t
    <3>1. store'[k] = Written(c, t, token) /\ Written(c, t, token) \in Claim
      BY <2>3 DEF t
    <3>2. /\ store'[k] # Free /\ store'[k].holder = c /\ store'[k].task = t
          /\ store'[k].left = LeaseDuration /\ store'[k].token = token
      BY <3>1, NullAssumption DEF Written
    <3> QED
      BY <3>2 DEF t
  <2>5. StoreStep(c, k)
    BY <2>1, <2>4 DEF StoreStep
  <2> DEFINE a == RenewAsked(h)
             r == Renewed(h, token)
  <2>6. /\ \A g \in {a, r} :
             /\ g \in HeldClaim /\ g.task = h.task /\ g.pendingDeletion = h.pendingDeletion
             /\ g.releasePending = h.releasePending /\ g.renewAge = 0 /\ g.renewNextTick = FALSE
             /\ g.needsRunningCheck = h.needsRunningCheck /\ g.hold = h.hold
             /\ g.jobless = h.jobless
        /\ a.left = h.left /\ r.left = LeaseDuration /\ r.token = token
    <3> HIDE DEF h
    <3>1. h \in HeldClaim
      BY <1>3
    <3>2. /\ a \in HeldClaim /\ a.task = h.task /\ a.pendingDeletion = h.pendingDeletion
          /\ a.releasePending = h.releasePending /\ a.renewAge = 0 /\ a.renewNextTick = FALSE
          /\ a.needsRunningCheck = h.needsRunningCheck /\ a.hold = h.hold
          /\ a.jobless = h.jobless /\ a.left = h.left
      BY <3>1, RenewAskedFields
    <3>3. /\ r \in HeldClaim /\ r.task = h.task /\ r.pendingDeletion = h.pendingDeletion
          /\ r.releasePending = h.releasePending /\ r.renewAge = 0 /\ r.renewNextTick = FALSE
          /\ r.needsRunningCheck = h.needsRunningCheck /\ r.hold = h.hold
          /\ r.jobless = h.jobless /\ r.left = LeaseDuration /\ r.token = token
      BY <3>1, RenewedFields
    <3> HIDE DEF a, r
    <3> QED
      BY <3>2, <3>3
  <2>7. /\ \/ held' = [held EXCEPT ![c][k] = r]
           \/ Happens("renewLost") /\ held' = [held EXCEPT ![c][k] = a]
    BY <2>1
  <2> HIDE DEF h, a, r
  <2>8. CASE held' = [held EXCEPT ![c][k] = r]
    <3>1. held'[c][k] = r /\ r # NotHeld
      BY <1>2, <2>6, <2>8, EntryFields
    <3>2. CurrentToken(c, k)'
      BY <2>4, <2>6, <3>1 DEF CurrentToken, Holds
    <3> QED
      BY <1>6, <2>1, <2>3, <2>4, <2>5, <2>6, <2>8, <3>2
  <2>9. CASE Happens("renewLost") /\ held' = [held EXCEPT ![c][k] = a]
    BY <1>6, <2>1, <2>3, <2>5, <2>6, <2>9
  <2> QED
    BY <2>7, <2>8, <2>9
<1> QED
  BY <1>1, <1>5, <1>7, <1>8

(* The store never ends a lease before the executor that holds it does.     *)
StoreOutlives ==
  \A c \in Clusters, k \in Keys :
    Holds(c, k) /\ HeldByUs(c, k) => store[k].left >= held[c][k].left

\* renewReadBack leaves the entry, adopts the store's lease, or finds it lost.
LEMMA RenewReadBackQuiet ==
  ASSUME TypeInv, StoreOutlives, NEW c \in Clusters, RenewReadBack(c)
  PROVE  QuietStep(c)
<1> DEFINE k == op[c].key
           h == held[c][k]
<1>1. /\ k \in Keys /\ UNCHANGED store
      /\ held \in [Clusters -> [Keys -> HeldClaim \cup {NotHeld}]]
  BY DEF RenewReadBack, TypeInv, TypeOK, OpShape
<1>2. CASE UNCHANGED <<held, jobs, stray>>
  BY <1>1, <1>2, QuietSame
<1>3. CASE Holds(c, k) /\ ~HeldByUs(c, k) /\ ClaimLost(c, k)
  <2>1. MayGo(c, k)
    BY <1>3 DEF MayGo
  <2> QED
    BY <1>1, <1>3, <2>1, ClaimLostQuiet
<1>4. CASE /\ Holds(c, k) /\ HeldByUs(c, k) /\ ~CurrentToken(c, k)
           /\ held' = [held EXCEPT ![c][k] =
                         [h EXCEPT !.token = store[k].token, !.left = store[k].left]]
           /\ UNCHANGED <<jobs, stray>>
  <2> DEFINE x == store[k].token
             y == store[k].left
             g == [h EXCEPT !.token = x, !.left = y]
  <2>1. /\ h \in HeldClaim /\ store[k] \in Claim /\ held' = [held EXCEPT ![c][k] = g]
        /\ y >= h.left /\ h.jobless \in Int /\ h.renewAge \in Nat /\ h.left \in Int
    BY <1>1, <1>4, HeldEntry, EntryFields DEF HeldByUs, StoreOutlives
  <2>2. x \in Tokens /\ y \in Lefts
    BY <2>1 DEF Claim
  <2>3. h.jobless <= AtLeast(h.jobless, 0)
    <3> DEFINE z == h.jobless
    <3>1. z \in Int
      BY <2>1
    <3> HIDE DEF z
    <3>2. z <= AtLeast(z, 0)
      BY <3>1 DEF AtLeast
    <3> QED
      BY <3>2 DEF z
  <2> HIDE DEF x, y, h
  <2>4. /\ g \in HeldClaim /\ g.task = h.task /\ g.pendingDeletion = h.pendingDeletion
        /\ g.releasePending = h.releasePending /\ g.renewAge = h.renewAge
        /\ g.renewNextTick = h.renewNextTick /\ g.needsRunningCheck = h.needsRunningCheck
        /\ g.hold = h.hold /\ g.jobless = h.jobless /\ g.left = y /\ g.token = x
    BY <2>1, <2>2 DEF HeldClaim
  <2> HIDE DEF g
  <2>5. held'[c][k] = g /\ g # NotHeld
    BY <1>1, <2>1, <2>4, EntryFields
  <2>6. StoreStep(c, k) /\ \A j \in Keys \ {k} : store'[j] = store[j]
    BY <1>1 DEF StoreStep
  <2>7. EntryStep(c, k)
    <3>1. store'[k] # Free /\ g.left = store'[k].left
      BY <1>1, <1>4, <2>4 DEF HeldByUs, y
    <3> QED
      BY <1>4, <2>1, <2>4, <2>5, <3>1 DEF EntryStep, Holds, h
  <2>8. SpawnKept(c, k)
    <3>1. JoblessEligible(h) => JoblessEligible(g)
      BY <2>4 DEF JoblessEligible
    <3>2. Undisturbed(c, k) => JoblessEligible(g)
      BY <3>1 DEF Undisturbed, h
    <3>3. g.jobless <= AtLeast(h.jobless, 0) /\ g.renewAge <= h.renewAge
      BY <2>1, <2>3, <2>4
    <3> QED
      BY <1>4, <2>4, <2>5, <3>2, <3>3 DEF SpawnKept, h
  <2>9. KeyStep(c, k)
    BY <2>6, <2>7, <2>8 DEF KeyStep
  <2> QED
    BY <1>1, <1>4, <2>1, <2>6, <2>9, OneKeyQuiet
<1> QED
  BY <1>2, <1>3, <1>4 DEF RenewReadBack

LEMMA JobEndsQuiet ==
  ASSUME TypeInv, NEW c \in Clusters, NEW t \in Tasks, JobEnds(c, t)
  PROVE  QuietStep(c)
<1>1. /\ jobs \in [Clusters -> SUBSET Tasks] /\ stray \in [Clusters -> SUBSET Tasks]
      /\ UNCHANGED <<store, held>>
      /\ jobs' = [jobs EXCEPT ![c] = @ \ {t}] /\ stray' = [stray EXCEPT ![c] = @ \ {t}]
  BY DEF JobEnds, TypeInv, TypeOK
<1>2. JobsShrink(c)
  BY <1>1 DEF JobsShrink
<1>3. ASSUME NEW k \in Keys PROVE KeyStep(c, k)
  BY <1>1, EntrySame
<1> QED
  BY <1>1, <1>2, <1>3 DEF QuietStep

(* A step that starts no Job, takes no claim and moves no spawn path except *)
(* to end one; the fence's time runs on, or starts again without a claim    *)
(* that is due.                                                             *)
CalmStep(c) ==
  /\ QuietStep(c)
  /\ \A d \in Clusters : op'[d].pc \in {"acquire", "readBack"} => op'[d] = op[d]
  /\ \A d \in Clusters, t \in Tasks :
       \/ spawn'[d][t] = spawn[d][t]
       \/ spawn[d][t].pc = "failed" /\ spawn'[d][t].pc = "idle"
  /\ UNCHANGED <<parked, up, recovered>>
  /\ \A d \in Clusters :
       \/ fenceAge'[d] = fenceAge[d]
       \/ /\ d = c /\ fenceAge'[d] = 0
          /\ \A k \in Keys : held'[d][k] # NotHeld /\ held'[d][k].pendingDeletion = "no"
               => ~FenceDue(held'[d][k].left)

LEMMA TickCalm ==
  ASSUME LeaseInv, StoreOutlives, NEW c \in Clusters, RetryPendingDeletions(c) \/ TickStep(c)
  PROVE  CalmStep(c)
<1>1. /\ TypeInv /\ TokenInv /\ TypeOK
      /\ \A d \in Clusters : op'[d].pc \in {"acquire", "readBack"} => op'[d] = op[d]
  BY TickOp DEF LeaseInv, TypeInv
<1>2. UNCHANGED <<spawn, parked, up, recovered>>
  BY DEF RetryPendingDeletions, TickStep, EvaluateFence, RetryPendingReleases,
         ReleaseExpiredHolds, ReleaseJoblessClaims, RecheckRunning, SkipRenew, RenewClaim,
         RenewReadBack
<1>3. CASE EvaluateFence(c)
  <2>1. Fence(c) /\ fenceAge' = [fenceAge EXCEPT ![c] = 0]
    BY <1>3 DEF EvaluateFence
  <2>2. /\ QuietStep(c)
        /\ \A k \in Keys : held'[c][k] # NotHeld /\ held'[c][k].pendingDeletion = "no"
             => ~FenceDue(held'[c][k].left)
    BY <1>1, <2>1, FenceQuiet
  <2>3. fenceAge'[c] = 0 /\ \A d \in Clusters \ {c} : fenceAge'[d] = fenceAge[d]
    BY <1>1, <2>1 DEF TypeOK
  <2> QED
    BY <1>1, <1>2, <2>2, <2>3 DEF CalmStep
<1>4. CASE ~EvaluateFence(c)
  <2>1. UNCHANGED fenceAge
    BY <1>4 DEF RetryPendingDeletions, TickStep, RetryPendingReleases, ReleaseExpiredHolds,
                ReleaseJoblessClaims, RecheckRunning, SkipRenew, RenewClaim, RenewReadBack
  <2>2. CASE RetryPendingReleases(c)
    <3> DEFINE S == {k \in HeldKeys(c) : held[c][k].releasePending}
    <3>1. S \in SUBSET HeldKeys(c) /\ ReleaseRefs(c, S) /\ UNCHANGED <<jobs, stray>>
      BY <2>2 DEF RetryPendingReleases
    <3>2. \A k \in S : held[c][k].releasePending /\ ~Undisturbed(c, k)
      BY DEF Undisturbed, JoblessEligible
    <3> HIDE DEF S
    <3> QED
      BY <1>1, <1>2, <2>1, <3>1, <3>2, ReleaseRefsQuiet DEF CalmStep
  <2>3. CASE ReleaseExpiredHolds(c)
    <3> DEFINE S == {k \in HeldKeys(c) : held[c][k].hold = 0}
    <3>1. S \in SUBSET HeldKeys(c) /\ ReleaseLocked(c, S) /\ UNCHANGED <<jobs, stray>>
      BY <2>3 DEF ReleaseExpiredHolds
    <3>2. \A k \in S : ~Undisturbed(c, k)
      BY DEF Undisturbed, JoblessEligible, None
    <3> HIDE DEF S
    <3> QED
      BY <1>1, <1>2, <2>1, <3>1, <3>2, ReleaseLockedQuiet DEF CalmStep
  <2>4. CASE SkipRenew(c)
    <3>1. QuietStep(c)
      BY <1>1, <2>4, QuietSame DEF SkipRenew
    <3> QED
      BY <1>1, <1>2, <2>1, <3>1 DEF CalmStep
  <2>5. CASE \/ RetryPendingDeletions(c) \/ ReleaseJoblessClaims(c) \/ RecheckRunning(c)
             \/ RenewClaim(c) \/ RenewReadBack(c)
    <3>1. QuietStep(c)
      BY <1>1, <2>5, RetryPendingDeletionsQuiet, ReleaseJoblessClaimsQuiet, RecheckRunningQuiet,
         RenewClaimQuiet, RenewReadBackQuiet
    <3> QED
      BY <1>1, <1>2, <2>1, <3>1 DEF CalmStep
  <2> QED
    BY <1>4, <2>2, <2>3, <2>4, <2>5 DEF TickStep
<1> QED
  BY <1>3, <1>4

LEMMA ReleaseCalm ==
  ASSUME LeaseInv, NEW c \in Clusters, NEW t \in Tasks, NEW k \in Keys,
         \/ ReleaseFailedSpawn(c, t) \/ JobEnds(c, t)
         \/ ReleaseTaskClaim(c, k) \/ ReleaseAfterSuccess(c, k)
  PROVE  CalmStep(c)
<1>1. TypeInv /\ spawn \in [Clusters -> [Tasks -> SpawnState]]
  BY DEF LeaseInv, TypeInv, TypeOK
<1>2. QuietStep(c)
  BY <1>1, ReleaseFailedSpawnQuiet, JobEndsQuiet, ReleaseTaskClaimQuiet
<1>3. UNCHANGED <<op, parked, up, recovered, fenceAge>>
  BY DEF ReleaseFailedSpawn, JobEnds, ReleaseTaskClaim, ReleaseAfterSuccess
<1>4. ASSUME NEW d \in Clusters, NEW u \in Tasks
      PROVE  \/ spawn'[d][u] = spawn[d][u]
             \/ spawn[d][u].pc = "failed" /\ spawn'[d][u].pc = "idle"
  <2>1. CASE ReleaseFailedSpawn(c, t)
    BY <1>1, <2>1 DEF ReleaseFailedSpawn, SetSpawn
  <2>2. CASE UNCHANGED spawn
    BY <2>2
  <2> QED
    BY <2>1, <2>2 DEF JobEnds, ReleaseTaskClaim, ReleaseAfterSuccess
<1> QED
  BY <1>2, <1>3, <1>4 DEF CalmStep

-----------------------------------------------------------------------------
(* The other steps, field by field.                                         *)

(* Only the spawn path of task t in cluster c moves. *)
SpawnMoves(c, t) ==
  \A d \in Clusters, u \in Tasks : d # c \/ u # t => spawn'[d][u] = spawn[d][u]

(* A claim was taken: the Job is created next, or the task is parked. *)
Granted(c, t, takeover) ==
  \/ /\ spawn'[c][t].pc = "claimed" /\ spawn'[c][t].age = 0 /\ parked' = parked
     /\ takeover => ClaimMode = "shadow" \/ t \in RerunOnLostClaim
  \/ /\ takeover /\ t \notin RerunOnLostClaim /\ spawn'[c][t].pc = "idle"
     /\ parked' = parked \cup {t} \/ (Happens("parkFails") /\ parked' = parked)

(* No claim was taken; only mode shadow goes on without one. *)
Denied(c, t) ==
  /\ parked' = parked /\ spawn'[c][t].pc \in {"idle", "conflict", "claimed"}
  /\ spawn'[c][t].pc = "claimed" => ClaimMode = "shadow"

(* The one new entry of the held set. *)
NewEntry(c, k, t, token, left) ==
  LET g == held'[c][k] IN
  /\ g \in HeldClaim /\ g.task = t /\ g.token = token /\ g.left = left
  /\ g.jobless = None /\ JoblessEligible(g) /\ ~g.renewNextTick
  /\ \A d \in Clusters, j \in Keys : d # c \/ j # k => held'[d][j] = held[d][j]

(* The method of c goes on to its read with all it knew. *)
OpReadsBack(c) ==
  /\ op'[c].pc = "readBack" /\ op'[c].key = op[c].key /\ op'[c].task = op[c].task
  /\ op'[c].takeover = op[c].takeover /\ op'[c].age = op[c].age

LEMMA SetSpawnFields ==
  ASSUME TypeInv, NEW c \in Clusters, NEW t \in Tasks, NEW pc, SetSpawn(c, t, pc)
  PROVE  spawn'[c][t].pc = pc /\ spawn'[c][t].age = 0 /\ SpawnMoves(c, t)
<1>1. spawn \in [Clusters -> [Tasks -> SpawnState]]
  BY DEF TypeInv, TypeOK
<1>2. spawn' = [spawn EXCEPT ![c][t] = [pc |-> pc, age |-> 0]]
  BY DEF SetSpawn
<1> QED
  BY <1>1, <1>2 DEF SpawnMoves

LEMMA AnswerFields ==
  ASSUME TypeInv, NEW c \in Clusters, NEW t \in Tasks
  PROVE  /\ ClaimFailed(c, t) \/ Conflicted(c, t) => Denied(c, t) /\ SpawnMoves(c, t)
         /\ Acquired(c, t) => Granted(c, t, op[c].takeover) /\ SpawnMoves(c, t)
<1>1. op[c].takeover \in BOOLEAN
  BY DEF TypeInv, TypeOK, Op
<1>2. ASSUME ClaimFailed(c, t) PROVE Denied(c, t) /\ SpawnMoves(c, t)
  <2>1. CASE SetSpawn(c, t, "claimed") /\ ClaimMode = "shadow"
    BY <1>2, <2>1, SetSpawnFields DEF ClaimFailed, Denied
  <2>2. CASE SetSpawn(c, t, "idle")
    BY <1>2, <2>2, SetSpawnFields DEF ClaimFailed, Denied
  <2> QED
    BY <1>2, <2>1, <2>2 DEF ClaimFailed
<1>3. ASSUME Conflicted(c, t) PROVE Denied(c, t) /\ SpawnMoves(c, t)
  <2>1. CASE ClaimFailed(c, t)
    BY <1>2, <2>1
  <2>2. CASE SetSpawn(c, t, "conflict") /\ UNCHANGED parked
    BY <2>2, SetSpawnFields DEF Denied
  <2> QED
    BY <1>3, <2>1, <2>2 DEF Conflicted
<1>4. ASSUME Acquired(c, t) PROVE Granted(c, t, op[c].takeover) /\ SpawnMoves(c, t)
  <2>1. \/ /\ SetSpawn(c, t, "claimed") /\ UNCHANGED parked
           /\ op[c].takeover => ClaimMode # "on" \/ t \in RerunOnLostClaim
        \/ /\ op[c].takeover /\ t \notin RerunOnLostClaim /\ SetSpawn(c, t, "idle")
           /\ parked' = parked \cup {t} \/ (Happens("parkFails") /\ UNCHANGED parked)
    BY <1>1, <1>4 DEF Acquired, TookOver
  <2> QED
    BY <2>1, SetSpawnFields, ConstantsAssumption DEF Granted
<1> QED
  BY <1>2, <1>3, <1>4

LEMMA NewEntryFields ==
  ASSUME TypeInv, NEW c \in Clusters, NEW k \in Keys, NEW t \in Tasks, NEW token \in Tokens,
         NEW left \in Lefts, NEW r \in 0 .. RenewInterval,
         held' = [held EXCEPT ![c][k] = NewHeld(t, token, left, r)]
  PROVE  NewEntry(c, k, t, token, left)
<1> DEFINE g == NewHeld(t, token, left, r)
<1>1. g \in HeldClaim
  BY NewHeldType
<1>2. /\ g.task = t /\ g.token = token /\ g.left = left /\ g.jobless = None
      /\ JoblessEligible(g) /\ ~g.renewNextTick
  BY DEF NewHeld, JoblessEligible
<1>3. held \in [Clusters -> [Keys -> HeldClaim \cup {NotHeld}]]
  BY DEF TypeInv, TypeOK
<1> HIDE DEF g
<1>4. held' = [held EXCEPT ![c][k] = g]
  BY DEF g
<1>5. held'[c][k] = g /\ \A d \in Clusters, j \in Keys : d # c \/ j # k => held'[d][j] = held[d][j]
  BY <1>3, <1>4
<1> QED
  BY <1>1, <1>2, <1>5 DEF NewEntry

LEMMA ReadsBack ==
  ASSUME TypeInv, NEW c \in Clusters, op' = [op EXCEPT ![c].pc = "readBack"]
  PROVE  OpReadsBack(c) /\ \A d \in Clusters \ {c} : op'[d] = op[d]
<1>1. op \in [Clusters -> Op] /\ op[c] \in Op
  BY DEF TypeInv, TypeOK
<1>2. op'[c] = [op[c] EXCEPT !.pc = "readBack"] /\ \A d \in Clusters \ {c} : op'[d] = op[d]
  BY <1>1
<1> QED
  BY <1>1, <1>2 DEF OpReadsBack, Op

(* The keys and tasks of a method that takes a claim. *)
LEMMA OpFields ==
  ASSUME TypeInv, NEW c \in Clusters, op[c].pc \in {"acquire", "readBack"}
  PROVE  /\ op[c].task \in Tasks /\ op[c].key = KeyOf[op[c].task] /\ op[c].key \in Keys
         /\ op[c].age \in Nat /\ op[c].age <= OpTime /\ op[c].takeover \in BOOLEAN
<1>1. op[c].task \in Tasks /\ op[c].key = KeyOf[op[c].task]
  BY DEF TypeInv, OpShape
<1>2. op[c].age \in 0 .. OpTime /\ op[c].takeover \in BOOLEAN
  BY DEF TypeInv, TypeOK, Op
<1> QED
  BY <1>1, <1>2, Numbers, ConstantsAssumption

(* ClaimPair and TakeoverPair answer the spawn path or begin an acquire. *)
BeginsAcquire(c, t) ==
  /\ op'[c].pc = "acquire" /\ op'[c].task = t /\ op'[c].key = KeyOf[t] /\ op'[c].age = 0
  /\ op'[c].takeover \in BOOLEAN
  /\ parked' = parked /\ spawn'[c][t].pc = "claiming" /\ ~Holds(c, KeyOf[t])
  /\ ~op'[c].takeover => store[KeyOf[t]] = Free /\ t \notin parked

LEMMA StartAcquireFields ==
  ASSUME TypeInv, NEW c \in Clusters, NEW t \in Tasks, NEW b \in BOOLEAN, StartAcquire(c, t, b),
         ~Holds(c, KeyOf[t]), ~b => store[KeyOf[t]] = Free /\ t \notin parked
  PROVE  BeginsAcquire(c, t)
<1> DEFINE o == [Idle EXCEPT !.pc = "acquire", !.key = KeyOf[t], !.task = t, !.takeover = b]
<1>1. op' = [op EXCEPT ![c] = o] /\ op \in [Clusters -> Op]
  BY DEF StartAcquire, TypeInv, TypeOK
<1>2. /\ o.pc = "acquire" /\ o.task = t /\ o.key = KeyOf[t] /\ o.takeover = b /\ o.age = 0
  BY DEF Idle
<1>3. op'[c] = o
  BY <1>1
<1>4. spawn'[c][t].pc = "claiming" /\ parked' = parked
  BY SetSpawnFields DEF StartAcquire
<1> HIDE DEF o
<1> QED
  BY <1>2, <1>3, <1>4 DEF BeginsAcquire

LEMMA ClaimAttemptFields ==
  ASSUME TypeInv, NEW c \in Clusters, NEW t \in Tasks, ClaimPair(c, t) \/ TakeoverPair(c, t)
  PROVE  /\ UNCHANGED <<store, held, jobs, stray, up, recovered, fenceAge>>
         /\ op[c].pc = "idle" /\ SpawnMoves(c, t)
         /\ spawn[c][t].pc = "conflict" \/ (spawn[c][t].pc = "idle" /\ t \notin jobs[c])
         /\ \A d \in Clusters \ {c} : op'[d] = op[d]
         /\ (UNCHANGED op /\ Denied(c, t)) \/ BeginsAcquire(c, t)
<1>1. /\ UNCHANGED <<store, held, jobs, stray, up, recovered, fenceAge>> /\ op[c].pc = "idle"
      /\ spawn[c][t].pc = "conflict" \/ (spawn[c][t].pc = "idle" /\ t \notin jobs[c])
  BY DEF ClaimPair, TakeoverPair, IsJobRunning
<1> DEFINE Goal == /\ SpawnMoves(c, t) /\ \A d \in Clusters \ {c} : op'[d] = op[d]
                   /\ (UNCHANGED op /\ Denied(c, t)) \/ BeginsAcquire(c, t)
<1>2. ASSUME ClaimFailed(c, t), UNCHANGED op PROVE Goal
  BY <1>2, AnswerFields
<1>3. ASSUME SetSpawn(c, t, "conflict"), UNCHANGED <<op, parked>> PROVE Goal
  BY <1>3, SetSpawnFields DEF Denied
<1>4. ASSUME NEW b \in BOOLEAN, StartAcquire(c, t, b),
             ~Holds(c, KeyOf[t]), ~b => store[KeyOf[t]] = Free /\ t \notin parked
      PROVE  Goal
  <2>1. BeginsAcquire(c, t) /\ \A d \in Clusters \ {c} : op'[d] = op[d]
    BY <1>4, StartAcquireFields, StartAcquireType
  <2>2. SpawnMoves(c, t)
    BY <1>4, SetSpawnFields DEF StartAcquire
  <2> QED
    BY <2>1, <2>2
<1> HIDE DEF Goal
<1>5. Goal
  BY <1>2, <1>3, <1>4 DEF ClaimPair, TakeoverPair
<1> QED
  BY <1>1, <1>5 DEF Goal

(* An acquire lands: the store has a new lease of c. *)
Lands(c, t, k) ==
  /\ ~Refuses(k)
  /\ store'[k] # Free /\ store'[k].holder = c /\ store'[k].task = t
  /\ store'[k].left = LeaseDuration
  /\ \A j \in Keys \ {k} : store'[j] = store[j]

LEMMA AcquireFields ==
  ASSUME TypeInv, NEW c \in Clusters, Acquire(c)
  PROVE  LET t == op[c].task
             k == op[c].key IN
         /\ op[c].pc = "acquire" /\ UNCHANGED <<jobs, stray, up, recovered, fenceAge>>
         /\ (\A d \in Clusters \ {c} : op'[d] = op[d]) /\ SpawnMoves(c, t)
         /\ \/ /\ UNCHANGED <<store, held>> /\ op'[c].pc = "idle" /\ Denied(c, t)
            \/ /\ Lands(c, t, k) /\ op'[c].pc = "idle" /\ Granted(c, t, op[c].takeover)
               /\ NewEntry(c, k, t, store'[k].token, LeaseDuration)
            \/ /\ Happens("acquireLost") /\ Lands(c, t, k) /\ OpReadsBack(c)
               /\ UNCHANGED <<held, spawn, parked>>
            \/ /\ Happens("acquireFails") /\ OpReadsBack(c)
               /\ UNCHANGED <<store, held, spawn, parked>>
<1> DEFINE t == op[c].task
           k == op[c].key
           Goal == /\ (\A d \in Clusters \ {c} : op'[d] = op[d]) /\ SpawnMoves(c, t)
                   /\ \/ /\ UNCHANGED <<store, held>> /\ op'[c].pc = "idle" /\ Denied(c, t)
                      \/ /\ Lands(c, t, k) /\ op'[c].pc = "idle" /\ Granted(c, t, op[c].takeover)
                         /\ NewEntry(c, k, t, store'[k].token, LeaseDuration)
                      \/ /\ Happens("acquireLost") /\ Lands(c, t, k) /\ OpReadsBack(c)
                         /\ UNCHANGED <<held, spawn, parked>>
                      \/ /\ Happens("acquireFails") /\ OpReadsBack(c)
                         /\ UNCHANGED <<store, held, spawn, parked>>
<1>1. op[c].pc = "acquire" /\ UNCHANGED <<jobs, stray, up, recovered, fenceAge>> /\ TypeOK
  BY DEF Acquire, TypeInv
<1>2. t \in Tasks /\ k \in Keys
  BY <1>1, OpFields
<1>3. UNCHANGED spawn => SpawnMoves(c, t)
  BY DEF SpawnMoves
<1>4. CASE Refuses(k) /\ Conflicted(c, t) /\ Finish(c) /\ UNCHANGED <<store, held>>
  BY <1>1, <1>2, <1>4, FinishType, AnswerFields
<1>5. CASE /\ Happens("acquireFails") /\ op' = [op EXCEPT ![c].pc = "readBack"]
           /\ UNCHANGED <<store, held, spawn, parked>>
  BY <1>1, <1>3, <1>5, ReadsBack
<1>6. ASSUME NEW token \in Tokens, ~Refuses(k), store' = [store EXCEPT ![k] = Written(c, t, token)]
      PROVE  Lands(c, t, k) /\ store'[k].token = token
  <2>1. Written(c, t, token) \in Claim
    BY <1>2, Numbers DEF Written, Claim, Lefts
  <2>2. store \in [Keys -> Claim \cup {Free}]
    BY <1>1 DEF TypeOK
  <2>3. store'[k] = Written(c, t, token) /\ \A j \in Keys \ {k} : store'[j] = store[j]
    BY <1>2, <1>6, <2>2
  <2>4. /\ Written(c, t, token) # Free /\ Written(c, t, token).holder = c
        /\ Written(c, t, token).task = t /\ Written(c, t, token).token = token
        /\ Written(c, t, token).left = LeaseDuration
    <3>1. Written(c, t, token) # Free
      BY <2>1, NullAssumption
    <3> QED
      BY <3>1 DEF Written
  <2> QED
    BY <1>6, <2>3, <2>4 DEF Lands
<1>7. ASSUME NEW token \in Tokens, ~Refuses(k), store' = [store EXCEPT ![k] = Written(c, t, token)],
             \/ /\ held' = [held EXCEPT ![c][k] =
                              NewHeld(t, token, LeaseDuration, AtMost(op[c].age, RenewInterval))]
                /\ Acquired(c, t)
                /\ Finish(c)
             \/ /\ Happens("acquireLost")
                /\ op' = [op EXCEPT ![c].pc = "readBack"]
                /\ UNCHANGED <<held, spawn, parked>>
      PROVE  Goal
  <2>1. Lands(c, t, k) /\ store'[k].token = token
    BY <1>6, <1>7
  <2>2. CASE Happens("acquireLost") /\ op' = [op EXCEPT ![c].pc = "readBack"]
                /\ UNCHANGED <<held, spawn, parked>>
    BY <1>1, <1>3, <2>1, <2>2, ReadsBack
  <2>3. CASE /\ held' = [held EXCEPT ![c][k] =
                              NewHeld(t, token, LeaseDuration, AtMost(op[c].age, RenewInterval))]
             /\ Acquired(c, t)
             /\ Finish(c)
    <3> DEFINE r == AtMost(op[c].age, RenewInterval)
    <3>1. r \in 0 .. RenewInterval
      BY <1>1, RenewAgeType
    <3>2. LeaseDuration \in Lefts
      BY Numbers DEF Lefts
    <3>3. held' = [held EXCEPT ![c][k] = NewHeld(t, token, LeaseDuration, r)]
      BY <2>3
    <3> HIDE DEF r, t, k
    <3>4. NewEntry(c, k, t, token, LeaseDuration)
      BY <1>2, <3>1, <3>2, <3>3, NewEntryFields
    <3>5. op'[c].pc = "idle" /\ \A d \in Clusters \ {c} : op'[d] = op[d]
      BY <1>1, <2>3, FinishType
    <3>6. Granted(c, t, op[c].takeover) /\ SpawnMoves(c, t)
      BY <1>2, <2>3, AnswerFields
    <3> QED
      BY <2>1, <3>4, <3>5, <3>6
  <2> QED
    BY <1>7, <2>2, <2>3
<1> HIDE DEF Goal
<1>8. Goal
  BY <1>4, <1>5, <1>7 DEF Acquire, Goal
<1> QED
  BY <1>1, <1>8 DEF Goal

LEMMA ReadBackFields ==
  ASSUME TypeInv, NEW c \in Clusters, ReadBackRecovery(c)
  PROVE  LET t == op[c].task
             k == op[c].key IN
         /\ op[c].pc = "readBack" /\ op'[c].pc = "idle"
         /\ UNCHANGED <<store, jobs, stray, up, recovered, fenceAge>>
         /\ (\A d \in Clusters \ {c} : op'[d] = op[d]) /\ SpawnMoves(c, t)
         /\ \/ /\ HeldByUs(c, k) /\ Granted(c, t, op[c].takeover)
               /\ NewEntry(c, k, t, store[k].token, store[k].left)
            \/ UNCHANGED held /\ Denied(c, t)
<1> DEFINE t == op[c].task
           k == op[c].key
<1>1. /\ op[c].pc = "readBack" /\ UNCHANGED <<store, jobs, stray, up, recovered, fenceAge>>
      /\ TypeOK /\ Finish(c)
  BY DEF ReadBackRecovery, TypeInv
<1>2. t \in Tasks /\ k \in Keys
  BY <1>1, OpFields
<1>3. op'[c].pc = "idle" /\ \A d \in Clusters \ {c} : op'[d] = op[d]
  BY <1>1, FinishType
<1>4. CASE UNCHANGED held /\ ClaimFailed(c, t)
  BY <1>1, <1>2, <1>3, <1>4, AnswerFields
<1>5. CASE /\ HeldByUs(c, k) /\ Acquired(c, t)
           /\ held' = [held EXCEPT ![c][k] =
                NewHeld(t, store[k].token, store[k].left, AtMost(op[c].age, RenewInterval))]
  <2> DEFINE r == AtMost(op[c].age, RenewInterval)
             x == store[k].token
             y == store[k].left
  <2>1. r \in 0 .. RenewInterval
    BY <1>1, RenewAgeType
  <2>2. x \in Tokens /\ y \in Lefts
    BY <1>1, <1>2, <1>5 DEF HeldByUs, TypeOK, Claim
  <2>3. held' = [held EXCEPT ![c][k] = NewHeld(t, x, y, r)]
    BY <1>5
  <2> HIDE DEF r, t, k, x, y
  <2>4. NewEntry(c, k, t, x, y)
    BY <1>2, <2>1, <2>2, <2>3, NewEntryFields
  <2>5. Granted(c, t, op[c].takeover) /\ SpawnMoves(c, t)
    BY <1>2, <1>5, AnswerFields
  <2> QED
    BY <1>1, <1>3, <1>5, <2>4, <2>5 DEF t, k, x, y
<1> QED
  BY <1>4, <1>5 DEF ReadBackRecovery

LEMMA SpawnJobFields ==
  ASSUME TypeInv, NEW c \in Clusters, NEW t \in Tasks, SpawnJob(c, t)
  PROVE  /\ spawn[c][t].pc = "claimed" /\ SpawnMoves(c, t)
         /\ spawn'[c][t].pc \in {"idle", "failed"}
         /\ UNCHANGED <<store, held, op, stray, parked, up, recovered, fenceAge>>
         /\ jobs'[c] \subseteq jobs[c] \cup {t} /\ jobs[c] \subseteq jobs'[c]
         /\ \A d \in Clusters \ {c} : jobs'[d] = jobs[d]
<1>1. /\ spawn[c][t].pc = "claimed" /\ jobs \in [Clusters -> SUBSET Tasks]
      /\ UNCHANGED <<store, held, op, stray, parked, up, recovered, fenceAge>>
      /\ jobs' = jobs \/ jobs' = [jobs EXCEPT ![c] = @ \cup {t}]
      /\ SetSpawn(c, t, "idle") \/ SetSpawn(c, t, "failed")
  BY DEF SpawnJob, TypeInv, TypeOK
<1>2. SpawnMoves(c, t) /\ spawn'[c][t].pc \in {"idle", "failed"}
  BY <1>1, SetSpawnFields
<1> QED
  BY <1>1, <1>2

LEMMA CrashFields ==
  ASSUME TypeInv, NEW c \in Clusters, Crash(c)
  PROVE  /\ UNCHANGED <<store, jobs, parked>> /\ up' = up \ {c} /\ recovered' = recovered \ {c}
         /\ (\A k \in Keys : held'[c][k] = NotHeld) /\ op'[c].pc = "idle"
         /\ (\A t \in Tasks : spawn'[c][t].pc = "idle") /\ stray'[c] = jobs[c]
         /\ \A d \in Clusters \ {c} : /\ held'[d] = held[d] /\ op'[d] = op[d]
                                      /\ spawn'[d] = spawn[d] /\ stray'[d] = stray[d]
                                      /\ fenceAge'[d] = fenceAge[d]
<1>1. /\ held \in [Clusters -> [Keys -> HeldClaim \cup {NotHeld}]] /\ op \in [Clusters -> Op]
      /\ spawn \in [Clusters -> [Tasks -> SpawnState]] /\ stray \in [Clusters -> SUBSET Tasks]
      /\ fenceAge \in [Clusters -> 0 .. TickGap]
  BY DEF TypeInv, TypeOK
<1>2. /\ (\A k \in Keys : held'[c][k] = NotHeld) /\ \A d \in Clusters \ {c} : held'[d] = held[d]
  BY <1>1 DEF Crash, Dropped
<1>3. op'[c].pc = "idle" /\ \A d \in Clusters \ {c} : op'[d] = op[d]
  BY <1>1 DEF Crash, Idle
<1>4. (\A t \in Tasks : spawn'[c][t].pc = "idle") /\ \A d \in Clusters \ {c} : spawn'[d] = spawn[d]
  BY <1>1 DEF Crash, NoSpawn
<1>5. /\ stray'[c] = jobs[c]
      /\ \A d \in Clusters \ {c} : stray'[d] = stray[d] /\ fenceAge'[d] = fenceAge[d]
  BY <1>1 DEF Crash
<1> QED
  BY <1>2, <1>3, <1>4, <1>5 DEF Crash

(* A listed claim that Recover took over into the held set. *)
RecoveredEntry(c, k) ==
  LET g == held'[c][k] IN
  /\ HeldByUs(c, k) /\ store'[k] = store[k]
  /\ g \in HeldClaim /\ g.task = store[k].task /\ g.left = store[k].left /\ ~g.releasePending
  /\ g.pendingDeletion = "no" => ~FenceDue(g.left)

LEMMA RecoverEntryFields ==
  ASSUME NEW r \in Claim, NEW unsure \in BOOLEAN
  PROVE  /\ RecoverAdopt(r, unsure).task = r.task /\ RecoverFence(r).task = r.task
         /\ RecoverAdopt(r, unsure).releasePending = FALSE
         /\ RecoverFence(r).releasePending = FALSE
         /\ RecoverFence(r).pendingDeletion = "fence"
BY DEF RecoverAdopt, RecoverFence, FencePending, NewHeld

LEMMA RecoverFields ==
  ASSUME TypeInv, NEW c \in Clusters, Recover(c)
  PROVE  /\ c \notin recovered /\ c \in up /\ recovered' = recovered \cup {c} /\ op[c].pc = "idle"
         /\ UNCHANGED <<op, spawn, parked, up, fenceAge>> /\ jobs'[c] \subseteq jobs[c]
         /\ \A d \in Clusters \ {c} : held'[d] = held[d] /\ jobs'[d] = jobs[d] /\ stray'[d] = stray[d]
         /\ \A k \in Keys :
              \/ store'[k] = store[k] /\ held'[c][k] = held[c][k]
              \/ RecoveredEntry(c, k)
              \/ /\ store'[k] = Free /\ HeldByUs(c, k) /\ held'[c][k] = held[c][k]
                 /\ store[k].task \notin jobs'[c]
         /\ \A t \in jobs'[c] : t \in stray[c] /\ t \notin stray'[c] =>
              \E k \in Keys : store[k].task = t /\ RecoveredEntry(c, k)
<1> DEFINE listed == {k \in Keys : HeldByUs(c, k)}
           near == {k \in listed : FenceDue(store[k].left)}
<1>1. PICK unknown \in May("checkFails", listed) :
     LET jobLeft == {k \in listed : JobMayRun(c, k, unknown)}
         adopted == jobLeft \ near IN
     \E kept \in May("deleteFails", jobLeft \cap near) :
     LET given == listed \ (adopted \cup kept)
         stopped == {store[k].task : k \in (jobLeft \cap near) \ kept} IN
     \E unlanded \in May("releaseFails", given) :
       /\ store' = [k \in Keys |-> IF k \in given \ unlanded THEN Free ELSE store[k]]
       /\ held' = [held EXCEPT ![c] = [k \in Keys |->
            IF k \in adopted THEN RecoverAdopt(store[k], k \in unknown)
            ELSE IF k \in kept THEN RecoverFence(store[k])
            ELSE @[k]]]
       /\ jobs' = [jobs EXCEPT ![c] = @ \ stopped]
       /\ stray' = [stray EXCEPT ![c] =
            @ \ (stopped \cup {store[k].task : k \in adopted \cup kept})]
  BY DEF Recover
<1> DEFINE jobLeft == {k \in listed : JobMayRun(c, k, unknown)}
           adopted == jobLeft \ near
<1>2. PICK kept \in May("deleteFails", jobLeft \cap near) :
     LET given == listed \ (adopted \cup kept)
         stopped == {store[k].task : k \in (jobLeft \cap near) \ kept} IN
     \E unlanded \in May("releaseFails", given) :
       /\ store' = [k \in Keys |-> IF k \in given \ unlanded THEN Free ELSE store[k]]
       /\ held' = [held EXCEPT ![c] = [k \in Keys |->
            IF k \in adopted THEN RecoverAdopt(store[k], k \in unknown)
            ELSE IF k \in kept THEN RecoverFence(store[k])
            ELSE @[k]]]
       /\ jobs' = [jobs EXCEPT ![c] = @ \ stopped]
       /\ stray' = [stray EXCEPT ![c] =
            @ \ (stopped \cup {store[k].task : k \in adopted \cup kept})]
  BY <1>1
<1> DEFINE given == listed \ (adopted \cup kept)
           stopped == {store[k].task : k \in (jobLeft \cap near) \ kept}
           taken == {store[k].task : k \in adopted \cup kept}
<1>3. PICK unlanded \in May("releaseFails", given) :
       /\ store' = [k \in Keys |-> IF k \in given \ unlanded THEN Free ELSE store[k]]
       /\ held' = [held EXCEPT ![c] = [k \in Keys |->
            IF k \in adopted THEN RecoverAdopt(store[k], k \in unknown)
            ELSE IF k \in kept THEN RecoverFence(store[k])
            ELSE @[k]]]
       /\ jobs' = [jobs EXCEPT ![c] = @ \ stopped]
       /\ stray' = [stray EXCEPT ![c] = @ \ (stopped \cup taken)]
  BY <1>2
<1>4. kept \subseteq jobLeft \cap near
  BY <1>2 DEF May
<1>5. /\ held \in [Clusters -> [Keys -> HeldClaim \cup {NotHeld}]]
      /\ store \in [Keys -> Claim \cup {Free}]
      /\ jobs \in [Clusters -> SUBSET Tasks] /\ stray \in [Clusters -> SUBSET Tasks]
  BY DEF TypeInv, TypeOK
<1>6. /\ c \notin recovered /\ c \in up /\ recovered' = recovered \cup {c} /\ op[c].pc = "idle"
      /\ UNCHANGED <<op, spawn, parked, up, fenceAge>>
  BY DEF Recover
<1>7. /\ jobs'[c] = jobs[c] \ stopped /\ stray'[c] = stray[c] \ (stopped \cup taken)
      /\ \A d \in Clusters \ {c} : held'[d] = held[d] /\ jobs'[d] = jobs[d] /\ stray'[d] = stray[d]
  <2> HIDE DEF adopted, jobLeft, near, given, stopped, taken
  <2> QED
    BY <1>3, <1>5
<1>8. ASSUME NEW k \in adopted \cup kept
      PROVE  k \in Keys /\ RecoveredEntry(c, k)
  <2>1. k \in listed /\ k \notin given /\ (k \in kept \/ (k \in adopted /\ k \notin near))
    BY <1>4
  <2>2. HeldByUs(c, k) /\ store[k] \in Claim /\ k \in Keys
    BY <1>5, <2>1 DEF HeldByUs
  <2>3. k \in adopted => k \notin kept
    BY <1>4
  <2>4. k \in adopted => ~FenceDue(store[k].left)
    BY <2>1
  <2> DEFINE b == k \in unknown
  <2>5. b \in BOOLEAN
    OBVIOUS
  <2> HIDE DEF listed, adopted, jobLeft, near, given, stopped, taken
  <2>6. store'[k] = store[k]
    BY <1>3, <2>1, <2>2
  <2>7. \/ held'[c][k] = RecoverAdopt(store[k], b) /\ k \in adopted
        \/ held'[c][k] = RecoverFence(store[k]) /\ k \in kept
    BY <1>3, <1>5, <2>2
  <2> HIDE DEF b
  <2> DEFINE r == store[k]
  <2>8. CASE held'[c][k] = RecoverAdopt(r, b) /\ k \in adopted
    <3>1. RecoverAdopt(r, b) \in HeldClaim
      BY <2>2, <2>5, RecoverEntryType
    <3> HIDE DEF r
    <3>2. /\ r \in Claim
      BY <2>2 DEF r
    <3>3. /\ RecoverAdopt(r, b).task = r.task /\ RecoverAdopt(r, b).left = r.left
          /\ RecoverAdopt(r, b).releasePending = FALSE
      BY <2>5, <3>2, RecoverEntryFields, RecoverEntryLease
    <3> QED
      BY <2>2, <2>4, <2>6, <2>8, <3>1, <3>3 DEF RecoveredEntry, r
  <2>9. CASE held'[c][k] = RecoverFence(r) /\ k \in kept
    <3>1. RecoverFence(r) \in HeldClaim
      BY <2>2, <2>5, RecoverEntryType
    <3> HIDE DEF r
    <3>2. /\ r \in Claim
      BY <2>2 DEF r
    <3>3. /\ RecoverFence(r).task = r.task /\ RecoverFence(r).left = r.left
          /\ RecoverFence(r).releasePending = FALSE /\ RecoverFence(r).pendingDeletion = "fence"
      BY <2>5, <3>2, RecoverEntryFields, RecoverEntryLease
    <3> QED
      BY <2>2, <2>6, <2>9, <3>1, <3>3 DEF RecoveredEntry, r
  <2> QED
    BY <2>2, <2>7, <2>8, <2>9
<1>9. ASSUME NEW k \in Keys
      PROVE  \/ store'[k] = store[k] /\ held'[c][k] = held[c][k]
             \/ RecoveredEntry(c, k)
             \/ /\ store'[k] = Free /\ HeldByUs(c, k) /\ held'[c][k] = held[c][k]
                /\ store[k].task \notin jobs'[c]
  <2>1. CASE k \in adopted \cup kept
    BY <1>8, <2>1
  <2>2. CASE k \notin adopted \cup kept
    <3>1. held'[c][k] = held[c][k]
      BY <1>3, <1>5, <2>2
    <3>2. store'[k] = store[k] \/ (store'[k] = Free /\ k \in given)
      <4> HIDE DEF given, adopted
      <4> QED
        BY <1>3
    <3>3. ASSUME k \in given PROVE HeldByUs(c, k) /\ store[k].task \notin jobs'[c]
      <4>1. k \in listed /\ HeldByUs(c, k)
        BY <3>3
      <4>2. CASE k \in jobLeft
        <5>1. k \in (jobLeft \cap near) \ kept
          BY <2>2, <4>2
        <5>2. store[k].task \in stopped
          BY <5>1
        <5> QED
          BY <1>7, <4>1, <5>2
      <4>3. CASE k \notin jobLeft
        BY <1>7, <4>1, <4>3 DEF JobMayRun, IsJobRunning
      <4> QED
        BY <4>2, <4>3
    <3> QED
      BY <3>1, <3>2, <3>3
  <2> QED
    BY <2>1, <2>2
<1>10. ASSUME NEW t \in jobs'[c], t \in stray[c], t \notin stray'[c]
       PROVE  \E k \in Keys : store[k].task = t /\ RecoveredEntry(c, k)
  <2>1. t \notin stopped /\ t \in taken
    BY <1>7, <1>10
  <2>2. PICK k \in adopted \cup kept : store[k].task = t
    BY <2>1
  <2> QED
    BY <1>8, <2>2
<1> QED
  BY <1>6, <1>7, <1>9, <1>10

(* Time changes timers and nothing else. *)
LEMMA ElapseStore ==
  ASSUME TypeInv, Elapse, NEW k \in Keys
  PROVE  /\ store[k] = Free <=> store'[k] = Free
         /\ store[k] # Free =>
              /\ store'[k].holder = store[k].holder /\ store'[k].task = store[k].task
              /\ store'[k].token = store[k].token /\ store'[k].left = Nearer(store[k].left)
<1>1. store'[k] = IF store[k] = Free THEN Free ELSE [store[k] EXCEPT !.left = Nearer(@)]
  BY DEF Elapse
<1>2. ASSUME store[k] # Free
      PROVE  /\ store'[k] # Free
             /\ store'[k].holder = store[k].holder /\ store'[k].task = store[k].task
             /\ store'[k].token = store[k].token /\ store'[k].left = Nearer(store[k].left)
  <2> DEFINE s == store[k]
  <2>1. s \in Claim /\ store'[k] = [s EXCEPT !.left = Nearer(s.left)]
    BY <1>1, <1>2, HeldEntry DEF TypeInv, TypeOK
  <2> HIDE DEF s
  <2>2. Nearer(s.left) \in Lefts
    BY <2>1, Numbers DEF Claim, Lefts, Nearer, AtLeast
  <2>3. [s EXCEPT !.left = Nearer(s.left)] \in Claim
    BY <2>1, <2>2 DEF Claim
  <2>4. store'[k] # Free
    BY <2>1, <2>3, NullAssumption
  <2>5. /\ store'[k].holder = s.holder /\ store'[k].task = s.task
        /\ store'[k].token = s.token /\ store'[k].left = Nearer(s.left)
    BY <2>1 DEF Claim
  <2> QED
    BY <2>4, <2>5 DEF s
<1> QED
  BY <1>1, <1>2

LEMMA AgedFields ==
  ASSUME NEW h \in HeldClaim
  PROVE  LET g == Aged(h) IN
         /\ g \in HeldClaim /\ g # NotHeld
         /\ g.task = h.task /\ g.token = h.token /\ g.left = Nearer(h.left)
         /\ g.renewNextTick = h.renewNextTick /\ g.pendingDeletion = h.pendingDeletion
         /\ g.releasePending = h.releasePending /\ g.needsRunningCheck = h.needsRunningCheck
         /\ g.hold = None <=> h.hold = None
         /\ g.jobless = Older(h.jobless, JoblessGrace)
         /\ g.renewAge = AtMost(h.renewAge + 1, RenewInterval)
<1> DEFINE g == Aged(h)
<1>1. g \in HeldClaim /\ g # NotHeld
  BY AgedType, NullAssumption
<1>2. /\ g.task = h.task /\ g.token = h.token /\ g.left = Nearer(h.left)
      /\ g.renewNextTick = h.renewNextTick /\ g.pendingDeletion = h.pendingDeletion
      /\ g.releasePending = h.releasePending /\ g.needsRunningCheck = h.needsRunningCheck
      /\ g.jobless = Older(h.jobless, JoblessGrace)
      /\ g.renewAge = AtMost(h.renewAge + 1, RenewInterval)
  BY DEF Aged, HeldClaim
<1>3. g.hold = IF h.hold = None THEN None ELSE AtLeast(h.hold - 1, 0)
  BY DEF Aged, HeldClaim
<1>4. h.hold \in Int
  BY EntryFields
<1>5. g.hold = None <=> h.hold = None
  <2> DEFINE x == h.hold
  <2> HIDE DEF x, g
  <2>1. x \in Int /\ g.hold = IF x = None THEN None ELSE AtLeast(x - 1, 0)
    BY <1>3, <1>4 DEF x
  <2>2. g.hold = None <=> x = None
    BY <2>1 DEF AtLeast, None
  <2> QED
    BY <2>2 DEF x
<1> HIDE DEF g
<1> QED
  BY <1>1, <1>2, <1>5 DEF g

LEMMA ElapseHeld ==
  ASSUME TypeInv, Elapse, NEW c \in Clusters, NEW k \in Keys
  PROVE  /\ Holds(c, k) <=> held'[c][k] # NotHeld
         /\ Holds(c, k) => held[c][k] \in HeldClaim /\ held'[c][k] = Aged(held[c][k])
<1>1. held'[c][k] = IF held[c][k] = NotHeld THEN NotHeld ELSE Aged(held[c][k])
  BY DEF Elapse
<1>2. Holds(c, k) => held[c][k] \in HeldClaim
  BY HeldEntry
<1> QED
  BY <1>1, <1>2, AgedType, NullAssumption DEF Holds

LEMMA ElapseRest ==
  ASSUME TypeInv, Elapse, NEW c \in Clusters
  PROVE  /\ UNCHANGED <<jobs, stray, parked, up, recovered>>
         /\ op'[c].pc = op[c].pc /\ op'[c].key = op[c].key /\ op'[c].task = op[c].task
         /\ op'[c].takeover = op[c].takeover
         /\ op[c].pc # "idle" => op'[c].age = op[c].age + 1
         /\ \A t \in Tasks :
              /\ spawn'[c][t].pc = spawn[c][t].pc
              /\ spawn[c][t].pc = "claimed" => spawn'[c][t].age = spawn[c][t].age + 1
         /\ HeldKeys(c) # {} => fenceAge'[c] = fenceAge[c] + 1
<1>1. op \in [Clusters -> Op] /\ spawn \in [Clusters -> [Tasks -> SpawnState]]
  BY DEF TypeInv, TypeOK
<1>2. /\ op'[c].pc = op[c].pc /\ op'[c].key = op[c].key /\ op'[c].task = op[c].task
      /\ op'[c].takeover = op[c].takeover
      /\ op[c].pc # "idle" => op'[c].age = op[c].age + 1
  BY <1>1 DEF Elapse, Op
<1>3. ASSUME NEW t \in Tasks
      PROVE  /\ spawn'[c][t].pc = spawn[c][t].pc
             /\ spawn[c][t].pc = "claimed" => spawn'[c][t].age = spawn[c][t].age + 1
  BY <1>1 DEF Elapse, SpawnState
<1> QED
  BY <1>2, <1>3 DEF Elapse

\* Deadlines come nearer together.
LEMMA NearerFields ==
  ASSUME NEW x \in Int, NEW y \in Int
  PROVE  /\ Nearer(x) \in Int /\ Nearer(x) >= x - 1
         /\ x >= y => Nearer(x) >= Nearer(y)
BY Numbers DEF Nearer, AtLeast

-----------------------------------------------------------------------------
(* What store, held set, methods and spawn paths know of each other,        *)
(* whatever fails.                                                          *)

(* A claim is stored and held under the key of its task. *)
StoreKeyed == \A k \in Keys : store[k] # Free => KeyOf[store[k].task] = k

(* An entry that is this executor's in the store is the same claim, and the  *)
(* store ends its lease no earlier.  Only a failed acquire that is read back *)
(* as landed adopts the claim of another task of the key.                    *)
EntriesOf(c) ==
  \A k \in Keys : Holds(c, k) =>
    /\ KeyOf[held[c][k].task] = k
    /\ HeldByUs(c, k) =>
         /\ store[k].left >= held[c][k].left
         /\ ~Happens("acquireFails") => store[k].task = held[c][k].task

(* A key is acquired for a spawn in progress, by an executor without an entry. *)
AcquireOf(c) ==
  op[c].pc \in {"acquire", "readBack"} =>
    ~Holds(c, op[c].key) /\ spawn[c][op[c].task].pc = "claiming"

(* Between its read and its acquire a create finds no claim of its own, and  *)
(* when no landed acquire is reported as failed it finds none afterwards.    *)
NewKeyOf(c) ==
  /\ op[c].pc = "acquire" \/ (op[c].pc = "readBack" /\ ~Happens("acquireLost"))
  /\ ~op[c].takeover
  => ~HeldByUs(c, op[c].key)

(* A claim of its own that a read back finds is the one just acquired, unless *)
(* a takeover of the executor's own lapsed claim did not land.                *)
ReadBackOf(c) ==
  /\ op[c].pc = "readBack" /\ HeldByUs(c, op[c].key)
  /\ op[c].takeover => ~Happens("acquireFails")
  => /\ store[op[c].key].task = op[c].task
     /\ store[op[c].key].left >= LeaseDuration - op[c].age

(* No task is being spawned where its Job runs. *)
SpawnsOf(c) ==
  \A t \in Tasks : spawn[c][t].pc \in {"claiming", "conflict", "claimed"} => t \notin jobs[c]

ClaimOf(c) == EntriesOf(c) /\ AcquireOf(c) /\ NewKeyOf(c) /\ ReadBackOf(c) /\ SpawnsOf(c)

ClaimInv == LeaseInv /\ StoreKeyed /\ \A c \in Clusters : ClaimOf(c)

(* In a step of c the store changes by releases and by writes of c. *)
StoreOwn(c) ==
  \A k \in Keys : store'[k] = store[k] \/ store'[k] = Free \/ store'[k].holder = c

(* The spawn paths of d move only to end one that failed. *)
SpawnEnds(d) ==
  \A t \in Tasks :
    \/ spawn'[d][t] = spawn[d][t]
    \/ spawn[d][t].pc = "failed" /\ spawn'[d][t].pc = "idle"

LEMMA StoreOutlivesHeld ==
  ASSUME ClaimInv
  PROVE  StoreOutlives
BY DEF ClaimInv, ClaimOf, EntriesOf, StoreOutlives

\* Nothing of an executor is disturbed by the step of another.
LEMMA Bystander ==
  ASSUME ClaimInv, NEW c \in Clusters, NEW d \in Clusters \ {c}, StoreOwn(c),
         op'[d].pc \in {"acquire", "readBack"} => op'[d] = op[d],
         \A k \in Keys : held'[d][k] = held[d][k], SpawnEnds(d), jobs'[d] = jobs[d]
  PROVE  ClaimOf(d)'
<1>1. /\ ClaimOf(d) /\ TypeInv
  BY DEF ClaimInv, LeaseInv
<1>2. ASSUME NEW k \in Keys, HeldByUs(d, k)' PROVE HeldByUs(d, k) /\ store'[k] = store[k]
  BY <1>2 DEF StoreOwn, HeldByUs
<1>3. EntriesOf(d)'
  <2> SUFFICES ASSUME NEW k \in Keys, held'[d][k] # NotHeld
               PROVE  /\ KeyOf[held'[d][k].task] = k
                      /\ HeldByUs(d, k)' =>
                           /\ store'[k].left >= held'[d][k].left
                           /\ ~Happens("acquireFails") => store'[k].task = held'[d][k].task
    BY DEF EntriesOf, Holds
  <2>1. held'[d][k] = held[d][k] /\ Holds(d, k)
    BY DEF Holds
  <2> QED
    BY <1>1, <1>2, <2>1 DEF ClaimOf, EntriesOf
<1>4. ASSUME op'[d].pc \in {"acquire", "readBack"}
      PROVE  op'[d] = op[d] /\ op[d].key \in Keys /\ op[d].task \in Tasks
  BY <1>1, <1>4, OpFields
<1>5. AcquireOf(d)'
  <2> SUFFICES ASSUME op'[d].pc \in {"acquire", "readBack"}
               PROVE  held'[d][op'[d].key] = NotHeld /\ spawn'[d][op'[d].task].pc = "claiming"
    BY DEF AcquireOf, Holds
  <2>1. held[d][op[d].key] = NotHeld /\ spawn[d][op[d].task].pc = "claiming"
    BY <1>1, <1>4 DEF ClaimOf, AcquireOf, Holds
  <2>2. spawn'[d][op[d].task] = spawn[d][op[d].task]
    BY <1>4, <2>1 DEF SpawnEnds
  <2> QED
    BY <1>4, <2>1, <2>2
<1>6. NewKeyOf(d)'
  BY <1>1, <1>2, <1>4 DEF ClaimOf, NewKeyOf
<1>7. ReadBackOf(d)'
  BY <1>1, <1>2, <1>4 DEF ClaimOf, ReadBackOf
<1>8. SpawnsOf(d)'
  BY <1>1 DEF ClaimOf, SpawnsOf, SpawnEnds
<1> QED
  BY <1>3, <1>5, <1>6, <1>7, <1>8 DEF ClaimOf

LEMMA StoreStepOwn ==
  ASSUME LeaseInv, NEW c \in Clusters, NEW k \in Keys, StoreStep(c, k)
  PROVE  \/ store'[k] = store[k]
         \/ HeldByUs(c, k) /\ Holds(c, k) /\ (store'[k] = Free \/ HeldByUs(c, k)')
BY DEF StoreStep, LeaseInv, TokenInv, HeldByUs, CurrentToken

LEMMA CalmClaims ==
  ASSUME ClaimInv, NEW c \in Clusters, CalmStep(c)
  PROVE  StoreKeyed' /\ \A d \in Clusters : ClaimOf(d)'
<1>1. /\ LeaseInv /\ TypeInv /\ ClaimOf(c) /\ QuietStep(c) /\ StoreKeyed
      /\ \A k \in Keys : StoreStep(c, k) /\ EntryStep(c, k)
  BY DEF ClaimInv, LeaseInv, CalmStep, QuietStep, KeyStep
<1>2. StoreOwn(c)
  BY <1>1, StoreStepOwn DEF StoreOwn, HeldByUs
<1>3. ASSUME NEW d \in Clusters \ {c} PROVE ClaimOf(d)'
  <2>1. /\ held'[d] = held[d] /\ jobs'[d] = jobs[d] /\ SpawnEnds(d)
        /\ op'[d].pc \in {"acquire", "readBack"} => op'[d] = op[d]
    BY DEF CalmStep, QuietStep, JobsShrink, SpawnEnds
  <2> QED
    BY <1>2, <2>1, Bystander
<1>4. ASSUME op'[c].pc \in {"acquire", "readBack"}
      PROVE  /\ op'[c] = op[c] /\ op[c].key \in Keys /\ op[c].task \in Tasks
             /\ ~Holds(c, op[c].key) /\ store'[op[c].key] = store[op[c].key]
  <2>1. op'[c] = op[c]
    BY <1>4 DEF CalmStep
  <2>2. op[c].key \in Keys /\ op[c].task \in Tasks /\ ~Holds(c, op[c].key)
    BY <1>1, <1>4, <2>1, OpFields DEF ClaimOf, AcquireOf
  <2> QED
    BY <1>1, <2>1, <2>2, StoreStepOwn
<1>5. EntriesOf(c)'
  <2> SUFFICES ASSUME NEW k \in Keys, held'[c][k] # NotHeld
               PROVE  /\ KeyOf[held'[c][k].task] = k
                      /\ HeldByUs(c, k)' =>
                           /\ store'[k].left >= held'[c][k].left
                           /\ ~Happens("acquireFails") => store'[k].task = held'[c][k].task
    BY DEF EntriesOf, Holds
  <2> DEFINE h == held[c][k]
             g == held'[c][k]
  <2>1. /\ Holds(c, k) /\ g.task = h.task
        /\ g.left = h.left \/ (store'[k] # Free /\ g.left = store'[k].left)
    BY <1>1 DEF EntryStep, Holds
  <2>2. /\ h.left \in Int /\ h.left <= LeaseDuration
    BY <1>1, <2>1, HeldEntry, EntryFields
  <2>3. /\ KeyOf[h.task] = k
        /\ HeldByUs(c, k) =>
             store[k].left >= h.left /\ (~Happens("acquireFails") => store[k].task = h.task)
    BY <1>1, <2>1 DEF ClaimOf, EntriesOf
  <2>4. ASSUME HeldByUs(c, k)'
        PROVE  /\ store'[k].left \in Int /\ store'[k].left >= h.left
               /\ ~Happens("acquireFails") => store'[k].task = h.task
    <3>1. CASE store'[k] = store[k]
      <4>1. HeldByUs(c, k) /\ store[k] \in Claim
        BY <1>1, <2>4, <3>1, HeldEntry DEF HeldByUs
      <4> QED
        BY <2>3, <3>1, <4>1, ClaimFields
    <3>2. CASE store'[k].task = h.task /\ store'[k].left = LeaseDuration
      BY <2>2, <3>2, Numbers
    <3> QED
      BY <1>1, <2>4, <3>1, <3>2 DEF StoreStep, HeldByUs
  <2> QED
    BY <2>1, <2>3, <2>4
<1>6. AcquireOf(c)'
  <2> SUFFICES ASSUME op'[c].pc \in {"acquire", "readBack"}
               PROVE  held'[c][op'[c].key] = NotHeld /\ spawn'[c][op'[c].task].pc = "claiming"
    BY DEF AcquireOf, Holds
  <2>1. held'[c][op[c].key] = NotHeld
    BY <1>1, <1>4 DEF EntryStep, Holds
  <2>2. spawn[c][op[c].task].pc = "claiming"
    BY <1>1, <1>4 DEF ClaimOf, AcquireOf
  <2>3. spawn'[c][op[c].task] = spawn[c][op[c].task]
    BY <1>4, <2>2 DEF CalmStep
  <2> QED
    BY <1>4, <2>1, <2>2, <2>3
<1>7. NewKeyOf(c)' /\ ReadBackOf(c)'
  BY <1>1, <1>4 DEF ClaimOf, NewKeyOf, ReadBackOf, HeldByUs
<1>8. SpawnsOf(c)'
  <2>1. jobs'[c] \subseteq jobs[c]
    BY <1>1 DEF QuietStep, JobsShrink
  <2> QED
    BY <1>1, <2>1 DEF ClaimOf, SpawnsOf, CalmStep
<1>9. StoreKeyed'
  <2> SUFFICES ASSUME NEW k \in Keys, store'[k] # Free PROVE KeyOf[store'[k].task] = k
    BY DEF StoreKeyed
  <2>1. CASE store'[k] = store[k]
    BY <1>1, <2>1 DEF StoreKeyed
  <2>2. CASE Holds(c, k) /\ store'[k].task = held[c][k].task
    BY <1>1, <2>2 DEF ClaimOf, EntriesOf
  <2> QED
    BY <1>1, <2>1, <2>2 DEF StoreStep, CurrentToken
<1> QED
  BY <1>3, <1>5, <1>6, <1>7, <1>8, <1>9 DEF ClaimOf

LEMMA ClaimAttemptClaims ==
  ASSUME ClaimInv, NEW c \in Clusters, NEW t \in Tasks, ClaimPair(c, t) \/ TakeoverPair(c, t)
  PROVE  StoreKeyed' /\ \A d \in Clusters : ClaimOf(d)'
<1>1. LeaseInv /\ TypeInv /\ ClaimOf(c) /\ StoreKeyed
  BY DEF ClaimInv, LeaseInv
<1>2. /\ UNCHANGED <<store, held, jobs, stray, up, recovered, fenceAge>>
      /\ op[c].pc = "idle" /\ SpawnMoves(c, t)
      /\ spawn[c][t].pc = "conflict" \/ (spawn[c][t].pc = "idle" /\ t \notin jobs[c])
      /\ \A d \in Clusters \ {c} : op'[d] = op[d]
      /\ (UNCHANGED op /\ Denied(c, t)) \/ BeginsAcquire(c, t)
  BY <1>1, ClaimAttemptFields
<1>3. ASSUME NEW d \in Clusters \ {c} PROVE ClaimOf(d)'
  <2>1. SpawnEnds(d) /\ StoreOwn(c)
    BY <1>2 DEF SpawnMoves, SpawnEnds, StoreOwn
  <2> QED
    BY <1>2, <2>1, Bystander
<1>4. StoreKeyed' /\ EntriesOf(c)'
  BY <1>1, <1>2 DEF StoreKeyed, ClaimOf, EntriesOf, HeldByUs, Holds
<1>5. SpawnsOf(c)'
  <2> SUFFICES ASSUME NEW u \in Tasks, spawn'[c][u].pc \in {"claiming", "conflict", "claimed"}
               PROVE  u \notin jobs[c]
    BY <1>2 DEF SpawnsOf
  <2>1. CASE u = t
    BY <1>1, <1>2, <2>1 DEF ClaimOf, SpawnsOf
  <2>2. CASE u # t
    BY <1>1, <1>2, <2>2 DEF ClaimOf, SpawnsOf, SpawnMoves
  <2> QED
    BY <2>1, <2>2
<1>6. AcquireOf(c)' /\ NewKeyOf(c)' /\ ReadBackOf(c)'
  <2>1. CASE UNCHANGED op
    BY <1>2, <2>1 DEF AcquireOf, NewKeyOf, ReadBackOf
  <2>2. CASE BeginsAcquire(c, t)
    <3>1. AcquireOf(c)'
      BY <1>2, <2>2 DEF BeginsAcquire, AcquireOf, Holds
    <3>2. NewKeyOf(c)'
      BY <1>2, <2>2 DEF BeginsAcquire, NewKeyOf, HeldByUs
    <3>3. ReadBackOf(c)'
      BY <2>2 DEF BeginsAcquire, ReadBackOf
    <3> QED
      BY <3>1, <3>2, <3>3
  <2> QED
    BY <1>2, <2>1, <2>2
<1> QED
  BY <1>3, <1>4, <1>5, <1>6 DEF ClaimOf

\* A claim that c takes for task t: the entries and spawn paths of c afterwards.
LEMMA TakenClaims ==
  ASSUME ClaimInv, NEW c \in Clusters, op[c].pc \in {"acquire", "readBack"},
         SpawnMoves(c, op[c].task), UNCHANGED jobs,
         \A j \in Keys \ {op[c].key} : store'[j] = store[j],
         \/ held' = held
         \/ /\ store'[op[c].key] # Free /\ store'[op[c].key].holder = c
            /\ NewEntry(c, op[c].key, op[c].task, store'[op[c].key].token, store'[op[c].key].left)
            /\ ~Happens("acquireFails") => store'[op[c].key].task = op[c].task
  PROVE  EntriesOf(c)' /\ SpawnsOf(c)'
<1> DEFINE t == op[c].task
           k == op[c].key
<1>1. /\ LeaseInv /\ TypeInv /\ ClaimOf(c) /\ k \in Keys /\ t \in Tasks /\ k = KeyOf[t]
      /\ ~Holds(c, k) /\ spawn[c][t].pc = "claiming"
  BY OpFields DEF ClaimInv, LeaseInv, ClaimOf, AcquireOf
<1>2. SpawnsOf(c)'
  <2> SUFFICES ASSUME NEW u \in Tasks, spawn'[c][u].pc \in {"claiming", "conflict", "claimed"}
               PROVE  u \notin jobs[c]
    BY DEF SpawnsOf
  <2>1. CASE u = t
    BY <1>1, <2>1 DEF ClaimOf, SpawnsOf
  <2>2. CASE u # t
    BY <1>1, <2>2 DEF ClaimOf, SpawnsOf, SpawnMoves
  <2> QED
    BY <2>1, <2>2
<1>3. EntriesOf(c)'
  <2> SUFFICES ASSUME NEW j \in Keys, held'[c][j] # NotHeld
               PROVE  /\ KeyOf[held'[c][j].task] = j
                      /\ HeldByUs(c, j)' =>
                           /\ store'[j].left >= held'[c][j].left
                           /\ ~Happens("acquireFails") => store'[j].task = held'[c][j].task
    BY DEF EntriesOf, Holds
  <2>1. CASE j # k
    <3>1. held'[c][j] = held[c][j] /\ store'[j] = store[j]
      BY <1>1, <2>1 DEF NewEntry
    <3> QED
      BY <1>1, <3>1 DEF ClaimOf, EntriesOf, HeldByUs, Holds
  <2>2. CASE j = k
    <3>1. /\ NewEntry(c, k, t, store'[k].token, store'[k].left)
          /\ ~Happens("acquireFails") => store'[k].task = t
      BY <1>1, <2>2 DEF Holds
    <3>2. held'[c][k].task = t /\ held'[c][k].left = store'[k].left /\ held'[c][k].left \in Int
      BY <3>1, EntryFields DEF NewEntry
    <3> QED
      BY <1>1, <2>2, <3>1, <3>2
  <2> QED
    BY <2>1, <2>2
<1> QED
  BY <1>2, <1>3

LEMMA AcquireClaims ==
  ASSUME ClaimInv, NEW c \in Clusters, Acquire(c)
  PROVE  StoreKeyed' /\ \A d \in Clusters : ClaimOf(d)'
<1> DEFINE t == op[c].task
           k == op[c].key
<1>1. /\ op[c].pc = "acquire" /\ UNCHANGED <<jobs, stray, up, recovered, fenceAge>>
      /\ (\A d \in Clusters \ {c} : op'[d] = op[d]) /\ SpawnMoves(c, t)
      /\ \/ /\ UNCHANGED <<store, held>> /\ op'[c].pc = "idle" /\ Denied(c, t)
         \/ /\ Lands(c, t, k) /\ op'[c].pc = "idle" /\ Granted(c, t, op[c].takeover)
            /\ NewEntry(c, k, t, store'[k].token, LeaseDuration)
         \/ /\ Happens("acquireLost") /\ Lands(c, t, k) /\ OpReadsBack(c)
            /\ UNCHANGED <<held, spawn, parked>>
         \/ /\ Happens("acquireFails") /\ OpReadsBack(c)
            /\ UNCHANGED <<store, held, spawn, parked>>
  BY AcquireFields DEF ClaimInv, LeaseInv
<1>2. /\ LeaseInv /\ TypeInv /\ ClaimOf(c) /\ StoreKeyed /\ k \in Keys /\ t \in Tasks
      /\ k = KeyOf[t] /\ ~Holds(c, k) /\ spawn[c][t].pc = "claiming" /\ op[c].age \in Nat
  BY <1>1, OpFields DEF ClaimInv, LeaseInv, ClaimOf, AcquireOf
<1>3. StoreOwn(c) /\ StoreKeyed' /\ \A j \in Keys \ {k} : store'[j] = store[j]
  <2>1. CASE UNCHANGED store
    BY <1>2, <2>1 DEF StoreOwn, StoreKeyed
  <2>2. CASE Lands(c, t, k)
    BY <1>2, <2>2 DEF StoreOwn, StoreKeyed, Lands
  <2> QED
    BY <1>1, <2>1, <2>2
<1>4. ASSUME NEW d \in Clusters \ {c} PROVE ClaimOf(d)'
  <2>1. SpawnEnds(d) /\ \A j \in Keys : held'[d][j] = held[d][j]
    BY <1>1, <1>2 DEF SpawnMoves, SpawnEnds, NewEntry
  <2> QED
    BY <1>1, <1>3, <2>1, Bystander
<1>5. EntriesOf(c)' /\ SpawnsOf(c)'
  <2>1. CASE UNCHANGED held
    BY <1>1, <1>3, <2>1, TakenClaims
  <2>2. CASE Lands(c, t, k) /\ NewEntry(c, k, t, store'[k].token, LeaseDuration)
    <3>1. /\ store'[k] # Free /\ store'[k].holder = c
          /\ store'[k].left = LeaseDuration /\ store'[k].task = t
      BY <2>2 DEF Lands
    <3> QED
      BY <1>1, <1>3, <2>2, <3>1, TakenClaims
  <2> QED
    BY <1>1, <2>1, <2>2
<1>6. AcquireOf(c)' /\ NewKeyOf(c)' /\ ReadBackOf(c)'
  <2>1. CASE op'[c].pc = "idle"
    BY <2>1 DEF AcquireOf, NewKeyOf, ReadBackOf
  <2>2. CASE OpReadsBack(c) /\ UNCHANGED <<held, spawn>>
    <3>1. AcquireOf(c)'
      BY <1>2, <2>2 DEF OpReadsBack, AcquireOf, Holds
    <3>2. CASE Happens("acquireLost") /\ Lands(c, t, k)
      <4>1. NewKeyOf(c)'
        BY <2>2, <3>2 DEF OpReadsBack, NewKeyOf
      <4>2. ReadBackOf(c)'
        BY <1>2, <2>2, <3>2, Numbers DEF OpReadsBack, ReadBackOf, Lands
      <4> QED
        BY <3>1, <4>1, <4>2
    <3>3. CASE Happens("acquireFails") /\ UNCHANGED store
      <4>1. ~op[c].takeover => ~HeldByUs(c, k)
        BY <1>1, <1>2 DEF ClaimOf, NewKeyOf
      <4>2. NewKeyOf(c)'
        BY <2>2, <3>3, <4>1 DEF OpReadsBack, NewKeyOf, HeldByUs
      <4>3. ReadBackOf(c)'
        BY <2>2, <3>3, <4>1 DEF OpReadsBack, ReadBackOf, HeldByUs
      <4> QED
        BY <3>1, <4>2, <4>3
    <3> QED
      BY <1>1, <2>2, <3>2, <3>3 DEF OpReadsBack
  <2> QED
    BY <1>1, <2>1, <2>2
<1> QED
  BY <1>3, <1>4, <1>5, <1>6 DEF ClaimOf

LEMMA ReadBackClaims ==
  ASSUME ClaimInv, NEW c \in Clusters, ReadBackRecovery(c)
  PROVE  StoreKeyed' /\ \A d \in Clusters : ClaimOf(d)'
<1> DEFINE t == op[c].task
           k == op[c].key
<1>1. /\ op[c].pc = "readBack" /\ op'[c].pc = "idle"
      /\ UNCHANGED <<store, jobs, stray, up, recovered, fenceAge>>
      /\ (\A d \in Clusters \ {c} : op'[d] = op[d]) /\ SpawnMoves(c, t)
      /\ \/ /\ HeldByUs(c, k) /\ Granted(c, t, op[c].takeover)
            /\ NewEntry(c, k, t, store[k].token, store[k].left)
         \/ UNCHANGED held /\ Denied(c, t)
  BY ReadBackFields DEF ClaimInv, LeaseInv
<1>2. LeaseInv /\ TypeInv /\ ClaimOf(c) /\ StoreKeyed /\ t \in Tasks /\ k \in Keys
  BY <1>1, OpFields DEF ClaimInv, LeaseInv
<1>3. StoreKeyed' /\ StoreOwn(c)
  BY <1>1, <1>2 DEF StoreKeyed, StoreOwn
<1>4. ASSUME NEW d \in Clusters \ {c} PROVE ClaimOf(d)'
  <2>1. SpawnEnds(d) /\ \A j \in Keys : held'[d][j] = held[d][j]
    BY <1>1, <1>2 DEF SpawnMoves, SpawnEnds, NewEntry
  <2> QED
    BY <1>1, <1>3, <2>1, Bystander
<1>5. EntriesOf(c)' /\ SpawnsOf(c)'
  <2>1. CASE UNCHANGED held
    BY <1>1, <2>1, TakenClaims
  <2>2. CASE HeldByUs(c, k) /\ NewEntry(c, k, t, store[k].token, store[k].left)
    <3>1. ~Happens("acquireFails") => store[k].task = t
      BY <1>1, <1>2, <2>2 DEF ClaimOf, ReadBackOf
    <3>2. store[k] # Free /\ store[k].holder = c
      BY <2>2 DEF HeldByUs
    <3> QED
      BY <1>1, <2>2, <3>1, <3>2, TakenClaims
  <2> QED
    BY <1>1, <2>1, <2>2
<1>6. AcquireOf(c)' /\ NewKeyOf(c)' /\ ReadBackOf(c)'
  BY <1>1 DEF AcquireOf, NewKeyOf, ReadBackOf
<1> QED
  BY <1>3, <1>4, <1>5, <1>6 DEF ClaimOf

LEMMA SpawnJobClaims ==
  ASSUME ClaimInv, NEW c \in Clusters, NEW t \in Tasks, SpawnJob(c, t)
  PROVE  StoreKeyed' /\ \A d \in Clusters : ClaimOf(d)'
<1>1. LeaseInv /\ TypeInv /\ ClaimOf(c) /\ StoreKeyed
  BY DEF ClaimInv, LeaseInv
<1>2. /\ spawn[c][t].pc = "claimed" /\ SpawnMoves(c, t) /\ spawn'[c][t].pc \in {"idle", "failed"}
      /\ UNCHANGED <<store, held, op, stray, parked, up, recovered, fenceAge>>
      /\ jobs'[c] \subseteq jobs[c] \cup {t}
      /\ \A d \in Clusters \ {c} : jobs'[d] = jobs[d]
  BY <1>1, SpawnJobFields
<1>3. ASSUME NEW d \in Clusters \ {c} PROVE ClaimOf(d)'
  <2>1. SpawnEnds(d) /\ StoreOwn(c)
    BY <1>2 DEF SpawnMoves, SpawnEnds, StoreOwn
  <2> QED
    BY <1>2, <2>1, Bystander
<1>4. StoreKeyed' /\ EntriesOf(c)' /\ NewKeyOf(c)' /\ ReadBackOf(c)'
  BY <1>1, <1>2 DEF StoreKeyed, ClaimOf, EntriesOf, NewKeyOf, ReadBackOf, HeldByUs, Holds
<1>5. SpawnsOf(c)'
  <2> SUFFICES ASSUME NEW u \in Tasks, spawn'[c][u].pc \in {"claiming", "conflict", "claimed"}
               PROVE  u \notin jobs'[c]
    BY DEF SpawnsOf
  <2>1. u # t /\ spawn'[c][u] = spawn[c][u]
    BY <1>2 DEF SpawnMoves
  <2> QED
    BY <1>1, <1>2, <2>1 DEF ClaimOf, SpawnsOf
<1>6. AcquireOf(c)'
  <2> SUFFICES ASSUME op[c].pc \in {"acquire", "readBack"}
               PROVE  held[c][op[c].key] = NotHeld /\ spawn'[c][op[c].task].pc = "claiming"
    BY <1>2 DEF AcquireOf, Holds
  <2>1. /\ held[c][op[c].key] = NotHeld /\ spawn[c][op[c].task].pc = "claiming"
        /\ op[c].task \in Tasks
    BY <1>1, OpFields DEF ClaimOf, AcquireOf, Holds
  <2> QED
    BY <1>2, <2>1 DEF SpawnMoves
<1> QED
  BY <1>3, <1>4, <1>5, <1>6 DEF ClaimOf

LEMMA CrashClaims ==
  ASSUME ClaimInv, NEW c \in Clusters, Crash(c)
  PROVE  StoreKeyed' /\ \A d \in Clusters : ClaimOf(d)'
<1>1. LeaseInv /\ TypeInv /\ StoreKeyed
  BY DEF ClaimInv, LeaseInv
<1>2. /\ UNCHANGED <<store, jobs, parked>>
      /\ (\A k \in Keys : held'[c][k] = NotHeld) /\ op'[c].pc = "idle"
      /\ (\A t \in Tasks : spawn'[c][t].pc = "idle")
      /\ \A d \in Clusters \ {c} : held'[d] = held[d] /\ op'[d] = op[d] /\ spawn'[d] = spawn[d]
  BY <1>1, CrashFields
<1>3. ASSUME NEW d \in Clusters \ {c} PROVE ClaimOf(d)'
  <2>1. SpawnEnds(d) /\ StoreOwn(c)
    BY <1>2 DEF SpawnEnds, StoreOwn
  <2> QED
    BY <1>2, <2>1, Bystander
<1>4. StoreKeyed' /\ ClaimOf(c)'
  BY <1>1, <1>2 DEF StoreKeyed, ClaimOf, EntriesOf, AcquireOf, NewKeyOf, ReadBackOf, SpawnsOf, Holds
<1> QED
  BY <1>3, <1>4

LEMMA RecoverClaims ==
  ASSUME ClaimInv, NEW c \in Clusters, Recover(c)
  PROVE  StoreKeyed' /\ \A d \in Clusters : ClaimOf(d)'
<1>1. LeaseInv /\ TypeInv /\ StoreKeyed /\ ClaimOf(c)
  BY DEF ClaimInv, LeaseInv
<1>2. /\ op[c].pc = "idle" /\ UNCHANGED <<op, spawn>> /\ jobs'[c] \subseteq jobs[c]
      /\ \A d \in Clusters \ {c} : held'[d] = held[d] /\ jobs'[d] = jobs[d]
      /\ \A k \in Keys :
           \/ store'[k] = store[k] /\ held'[c][k] = held[c][k]
           \/ RecoveredEntry(c, k)
           \/ store'[k] = Free /\ HeldByUs(c, k) /\ held'[c][k] = held[c][k]
  BY <1>1, RecoverFields
<1>3. StoreOwn(c) /\ StoreKeyed'
  <2>1. \A k \in Keys : store'[k] = store[k] \/ store'[k] = Free
    BY <1>2 DEF RecoveredEntry
  <2> QED
    BY <1>1, <2>1 DEF StoreOwn, StoreKeyed
<1>4. ASSUME NEW d \in Clusters \ {c} PROVE ClaimOf(d)'
  <2>1. SpawnEnds(d)
    BY <1>2 DEF SpawnEnds
  <2> QED
    BY <1>2, <1>3, <2>1, Bystander
<1>5. AcquireOf(c)' /\ NewKeyOf(c)' /\ ReadBackOf(c)'
  BY <1>2 DEF AcquireOf, NewKeyOf, ReadBackOf
<1>6. SpawnsOf(c)'
  BY <1>1, <1>2 DEF ClaimOf, SpawnsOf
<1>7. EntriesOf(c)'
  <2> SUFFICES ASSUME NEW k \in Keys, held'[c][k] # NotHeld
               PROVE  /\ KeyOf[held'[c][k].task] = k
                      /\ HeldByUs(c, k)' =>
                           /\ store'[k].left >= held'[c][k].left
                           /\ ~Happens("acquireFails") => store'[k].task = held'[c][k].task
    BY DEF EntriesOf, Holds
  <2>1. CASE RecoveredEntry(c, k)
    <3>1. /\ store'[k] = store[k] /\ store[k] # Free /\ held'[c][k].task = store[k].task
          /\ held'[c][k].left = store[k].left /\ held'[c][k].left \in Int
      BY <2>1, EntryFields DEF RecoveredEntry, HeldByUs
    <3> QED
      BY <1>1, <3>1 DEF StoreKeyed
  <2>2. CASE held'[c][k] = held[c][k] /\ (store'[k] = store[k] \/ store'[k] = Free)
    BY <1>1, <2>2 DEF ClaimOf, EntriesOf, HeldByUs, Holds
  <2> QED
    BY <1>2, <2>1, <2>2
<1> QED
  BY <1>3, <1>4, <1>5, <1>6, <1>7 DEF ClaimOf

LEMMA ElapseClaims ==
  ASSUME ClaimInv, Elapse
  PROVE  StoreKeyed' /\ \A c \in Clusters : ClaimOf(c)'
<1>1. LeaseInv /\ TypeInv /\ StoreKeyed
  BY DEF ClaimInv, LeaseInv
<1>2. StoreKeyed'
  BY <1>1, ElapseStore DEF StoreKeyed
<1>3. ASSUME NEW c \in Clusters PROVE ClaimOf(c)'
  <2>1. /\ ClaimOf(c) /\ UNCHANGED jobs
        /\ op'[c].pc = op[c].pc /\ op'[c].key = op[c].key /\ op'[c].task = op[c].task
        /\ op'[c].takeover = op[c].takeover
        /\ op[c].pc # "idle" => op'[c].age = op[c].age + 1
        /\ \A t \in Tasks : spawn'[c][t].pc = spawn[c][t].pc
    BY <1>1, ElapseRest DEF ClaimInv
  <2>2. ASSUME NEW k \in Keys
        PROVE  HeldByUs(c, k)' <=> HeldByUs(c, k)
    BY <1>1, ElapseStore DEF HeldByUs
  <2>3. EntriesOf(c)'
    <3> SUFFICES ASSUME NEW k \in Keys, held'[c][k] # NotHeld
                 PROVE  /\ KeyOf[held'[c][k].task] = k
                        /\ HeldByUs(c, k)' =>
                             /\ store'[k].left >= held'[c][k].left
                             /\ ~Happens("acquireFails") => store'[k].task = held'[c][k].task
      BY DEF EntriesOf, Holds
    <3> DEFINE h == held[c][k]
    <3>1. Holds(c, k) /\ h \in HeldClaim /\ held'[c][k] = Aged(h)
      BY <1>1, ElapseHeld
    <3>2. held'[c][k].task = h.task /\ held'[c][k].left = Nearer(h.left) /\ h.left \in Int
      <4> HIDE DEF h
      <4> QED
        BY <3>1, AgedFields, EntryFields
    <3>3. /\ KeyOf[h.task] = k
          /\ HeldByUs(c, k) =>
               store[k].left >= h.left /\ (~Happens("acquireFails") => store[k].task = h.task)
      BY <2>1, <3>1 DEF ClaimOf, EntriesOf
    <3>4. ASSUME HeldByUs(c, k)
          PROVE  /\ store'[k].left >= Nearer(h.left) /\ store'[k].task = store[k].task
      <4>1. /\ store[k] # Free /\ store'[k].left = Nearer(store[k].left)
            /\ store'[k].task = store[k].task /\ store[k].left \in Int
        BY <1>1, <3>4, ElapseStore, HeldEntry, ClaimFields DEF HeldByUs
      <4> QED
        BY <3>2, <3>3, <3>4, <4>1, NearerFields
    <3> QED
      BY <2>2, <3>2, <3>3, <3>4
  <2>4. ASSUME op[c].pc \in {"acquire", "readBack"}
        PROVE  op[c].key \in Keys /\ op[c].task \in Tasks /\ op[c].age \in Nat
    BY <1>1, <2>4, OpFields
  <2>5. AcquireOf(c)'
    <3>1. ASSUME op[c].pc \in {"acquire", "readBack"} PROVE held'[c][op[c].key] = NotHeld
      <4>1. ~Holds(c, op[c].key)
        BY <2>1, <3>1 DEF ClaimOf, AcquireOf
      <4> QED
        BY <1>1, <2>4, <3>1, <4>1, ElapseHeld
    <3> QED
      BY <2>1, <2>4, <3>1 DEF ClaimOf, AcquireOf, Holds
  <2>6. NewKeyOf(c)'
    BY <2>1, <2>2, <2>4 DEF ClaimOf, NewKeyOf, HeldByUs
  <2>7. ReadBackOf(c)'
    <3> SUFFICES ASSUME op[c].pc = "readBack", store'[op[c].key] # Free,
                        store'[op[c].key].holder = c,
                        op[c].takeover => ~Happens("acquireFails")
                 PROVE  /\ store'[op[c].key].task = op[c].task
                        /\ store'[op[c].key].left >= LeaseDuration - (op[c].age + 1)
      BY <2>1 DEF ReadBackOf, HeldByUs
    <3> DEFINE k == op[c].key
    <3>1. k \in Keys /\ op[c].age \in Nat
      BY <2>4
    <3>2. /\ store[k] # Free /\ store[k].holder = c /\ store'[k].task = store[k].task
          /\ store'[k].left = Nearer(store[k].left) /\ store[k].left \in Int
      BY <1>1, <3>1, ElapseStore, HeldEntry, ClaimFields
    <3>3. store[k].task = op[c].task /\ store[k].left >= LeaseDuration - op[c].age
      BY <2>1, <3>2 DEF ClaimOf, ReadBackOf, HeldByUs
    <3>4. Nearer(store[k].left) >= store[k].left - 1 /\ Nearer(store[k].left) \in Int
      BY <3>2, NearerFields
    <3> QED
      BY <3>1, <3>2, <3>3, <3>4, Numbers
  <2>8. SpawnsOf(c)'
    BY <2>1 DEF ClaimOf, SpawnsOf
  <2> QED
    BY <2>3, <2>5, <2>6, <2>7, <2>8 DEF ClaimOf
<1> QED
  BY <1>2, <1>3

\* The steps that start no Job and take no claim.
LEMMA CalmCases ==
  ASSUME ClaimInv, Next
  PROVE  \/ Elapse
         \/ \E c \in Clusters :
              \/ CalmStep(c)
              \/ \E t \in Tasks : ClaimPair(c, t) \/ TakeoverPair(c, t) \/ SpawnJob(c, t)
              \/ Acquire(c) \/ ReadBackRecovery(c)
              \/ Crash(c) \/ Restart(c) \/ Recover(c) \/ RecoverGivesUp(c)
<1>1. LeaseInv /\ StoreOutlives
  BY StoreOutlivesHeld DEF ClaimInv
<1>2. ASSUME NEW c \in Clusters, RetryPendingDeletions(c) \/ TickStep(c) PROVE CalmStep(c)
  BY <1>1, <1>2, TickCalm
<1>3. ASSUME NEW c \in Clusters, NEW t \in Tasks, ReleaseFailedSpawn(c, t) \/ JobEnds(c, t)
      PROVE  CalmStep(c)
  <2>1. PICK k \in Keys : TRUE
    BY ConstantsAssumption
  <2> QED
    BY <1>1, <1>3, ReleaseCalm
<1>4. ASSUME NEW c \in Clusters, NEW k \in Keys, ReleaseTaskClaim(c, k) \/ ReleaseAfterSuccess(c, k)
      PROVE  CalmStep(c)
  <2>1. held[c][k] \in HeldClaim
    BY <1>1, <1>4 DEF LeaseInv, TypeInv, TypeOK, ReleaseTaskClaim, ReleaseAfterSuccess, Holds
  <2>2. held[c][k].task \in Tasks
    BY <2>1, EntryFields
  <2> QED
    BY <1>1, <1>4, <2>2, ReleaseCalm
<1> QED
  BY <1>2, <1>3, <1>4, NextCases

LEMMA ClaimNext == ClaimInv /\ [Next]_vars => ClaimInv'
<1> SUFFICES ASSUME ClaimInv, [Next]_vars PROVE ClaimInv'
  OBVIOUS
<1>1. LeaseInv'
  BY LeaseNext DEF ClaimInv
<1> DEFINE Goal == StoreKeyed' /\ \A d \in Clusters : ClaimOf(d)'
<1> SUFFICES Goal
  BY <1>1 DEF ClaimInv
<1>2. ASSUME UNCHANGED <<store, held, op, spawn, jobs>> PROVE Goal
  BY <1>2 DEF ClaimInv, StoreKeyed, ClaimOf, EntriesOf, AcquireOf, NewKeyOf, ReadBackOf, SpawnsOf,
              HeldByUs, Holds
<1>3. ASSUME NEW c \in Clusters, Restart(c) \/ RecoverGivesUp(c) PROVE Goal
  BY <1>2, <1>3 DEF Restart, RecoverGivesUp
<1>4. CASE UNCHANGED vars
  BY <1>2, <1>4 DEF vars
<1>5. ASSUME NEW c \in Clusters, NEW t \in Tasks,
             ClaimPair(c, t) \/ TakeoverPair(c, t) \/ SpawnJob(c, t)
      PROVE  Goal
  BY <1>5, ClaimAttemptClaims, SpawnJobClaims
<1>6. ASSUME NEW c \in Clusters,
             CalmStep(c) \/ Acquire(c) \/ ReadBackRecovery(c) \/ Crash(c) \/ Recover(c)
      PROVE  Goal
  BY <1>6, CalmClaims, AcquireClaims, ReadBackClaims, CrashClaims, RecoverClaims
<1>7. CASE Elapse
  BY <1>7, ElapseClaims
<1> HIDE DEF Goal
<1> QED
  BY <1>3, <1>4, <1>5, <1>6, <1>7, CalmCases

LEMMA ClaimInit == Init => ClaimInv
<1> SUFFICES ASSUME Init PROVE ClaimInv
  OBVIOUS
<1>1. LeaseInv
  BY LeaseInit
<1>2. /\ \A k \in Keys : store[k] = Free
      /\ \A c \in Clusters : op[c].pc = "idle" /\ jobs[c] = {} /\ \A k \in Keys : held[c][k] = NotHeld
  BY DEF Init, Idle
<1> QED
  BY <1>1, <1>2 DEF ClaimInv, StoreKeyed, ClaimOf, EntriesOf, AcquireOf, NewKeyOf, ReadBackOf,
                    SpawnsOf, Holds

LEMMA ClaimInvariant == Spec => []ClaimInv
<1> QED
  BY ClaimInit, ClaimNext, PTL DEF Spec

-----------------------------------------------------------------------------
(* The fence is on time.                                                    *)

(* Since the last fence evaluation a lease has lost no more than the time   *)
(* that has passed.                                                         *)
OnTime(c, k) == held[c][k].left >= FenceMargin + FenceLead - fenceAge[c]

FencedOnTime ==
  \A c \in Clusters, k \in Keys :
    Holds(c, k) /\ held[c][k].pendingDeletion = "no" => OnTime(c, k)

FenceInv == ClaimInv /\ (~Happens("acquireFails") => FencedOnTime)

LEMMA FenceAgeType ==
  ASSUME TypeInv, NEW c \in Clusters
  PROVE  fenceAge[c] \in Nat /\ fenceAge[c] <= TickGap
<1>1. fenceAge[c] \in 0 .. TickGap
  BY DEF TypeInv, TypeOK
<1> QED
  BY <1>1, Numbers

\* A lease that is not due is on time.
LEMMA NotDueOnTime ==
  ASSUME TypeInv', NEW c \in Clusters, NEW k \in Keys, held'[c][k] \in HeldClaim,
         held'[c][k].left >= FenceMargin + FenceLead
  PROVE  OnTime(c, k)'
<1>1. fenceAge'[c] \in Nat
  <2>1. fenceAge'[c] \in 0 .. TickGap
    BY DEF TypeInv, TypeOK
  <2> QED
    BY <2>1, Numbers
<1>2. held'[c][k].left \in Int
  BY EntryFields
<1> QED
  BY <1>1, <1>2, Numbers DEF OnTime

LEMMA CalmOnTime ==
  ASSUME ClaimInv, TypeInv', NEW d \in Clusters, CalmStep(d), NEW c \in Clusters, NEW k \in Keys,
         held'[c][k] # NotHeld, held'[c][k].pendingDeletion = "no",
         held[c][k].pendingDeletion = "no" => OnTime(c, k)
  PROVE  OnTime(c, k)'
<1> DEFINE h == held[c][k]
           g == held'[c][k]
<1>1. TypeInv /\ g \in HeldClaim
  BY DEF ClaimInv, LeaseInv, TypeInv, TypeOK
<1>2. g.left \in Int /\ h \in HeldClaim /\ h.left \in Int /\ g.left >= h.left
      /\ h.pendingDeletion = "no"
  <2>1. CASE c = d
    <3>1. EntryStep(c, k)
      BY <2>1 DEF CalmStep, QuietStep, KeyStep
    <3>2. Holds(c, k) /\ g.left >= h.left /\ h.pendingDeletion = "no"
      BY <3>1 DEF EntryStep, Holds
    <3> QED
      BY <1>1, <3>2, HeldEntry, EntryFields
  <2>2. CASE c # d
    <3>1. g = h /\ Holds(c, k)
      BY <2>2 DEF CalmStep, QuietStep, Holds
    <3> QED
      BY <1>1, <3>1, HeldEntry, EntryFields
  <2> QED
    BY <2>1, <2>2
<1>3. CASE fenceAge'[c] = fenceAge[c]
  <2>1. fenceAge[c] \in Nat /\ h.left >= FenceMargin + FenceLead - fenceAge[c]
    BY <1>1, <1>2, FenceAgeType DEF OnTime
  <2>2. g.left >= FenceMargin + FenceLead - fenceAge'[c]
    <3> HIDE DEF g, h
    <3> QED
      BY <1>2, <1>3, <2>1, Numbers
  <2> QED
    BY <2>2 DEF OnTime
<1>4. CASE ~FenceDue(g.left)
  <2>1. g.left >= FenceMargin + FenceLead
    BY <1>2, <1>4, Numbers DEF FenceDue
  <2> QED
    BY <1>1, <2>1, NotDueOnTime
<1> QED
  BY <1>3, <1>4 DEF CalmStep

LEMMA ElapseOnTime ==
  ASSUME TypeInv, Elapse, NEW c \in Clusters, NEW k \in Keys, Holds(c, k), OnTime(c, k)
  PROVE  OnTime(c, k)'
<1> DEFINE h == held[c][k]
<1>1. h \in HeldClaim /\ held'[c][k] = Aged(h)
  BY ElapseHeld
<1>2. held'[c][k].left = Nearer(h.left) /\ h.left \in Int
  <2> HIDE DEF h
  <2> QED
    BY <1>1, AgedFields, EntryFields
<1>3. fenceAge'[c] = fenceAge[c] + 1 /\ fenceAge[c] \in Nat
  BY ElapseRest, FenceAgeType DEF HeldKeys
<1>4. Nearer(h.left) \in Int /\ Nearer(h.left) >= h.left - 1
  BY <1>2, NearerFields
<1>5. h.left >= FenceMargin + FenceLead - fenceAge[c]
  BY DEF OnTime
<1>6. Nearer(h.left) >= FenceMargin + FenceLead - (fenceAge[c] + 1)
  BY <1>2, <1>3, <1>4, <1>5, Numbers
<1> QED
  BY <1>2, <1>3, <1>6 DEF OnTime

\* An entry of the held set after a step is an old one, of a calm step or with its age,
\* or it was just taken; a takeover that did not land is the only one taken late.
LEMMA FenceNext == FenceInv /\ [Next]_vars => FenceInv'
<1> SUFFICES ASSUME FenceInv, [Next]_vars PROVE FenceInv'
  OBVIOUS
<1>1. ClaimInv /\ ClaimInv'
  BY ClaimNext DEF FenceInv
<1>2. TypeInv /\ TypeInv'
  BY <1>1 DEF ClaimInv, LeaseInv
<1> SUFFICES ASSUME ~Happens("acquireFails"), NEW c \in Clusters, NEW k \in Keys,
                    held'[c][k] # NotHeld, held'[c][k].pendingDeletion = "no"
             PROVE  OnTime(c, k)'
  BY <1>1 DEF FenceInv, FencedOnTime, Holds, Happens
<1>3. Holds(c, k) /\ held[c][k].pendingDeletion = "no" => OnTime(c, k)
  BY DEF FenceInv, FencedOnTime
<1>4. held'[c][k] \in HeldClaim
  BY <1>2 DEF TypeInv, TypeOK
<1>5. CASE held'[c][k] = held[c][k] /\ fenceAge'[c] = fenceAge[c]
  BY <1>3, <1>5 DEF OnTime, Holds
<1>6. ASSUME NEW d \in Clusters, CalmStep(d) PROVE OnTime(c, k)'
  <2>1. Holds(c, k)
    <3>1. CASE c = d
      BY <1>6, <3>1 DEF CalmStep, QuietStep, KeyStep, EntryStep, Holds
    <3>2. CASE c # d
      BY <1>6, <3>2 DEF CalmStep, QuietStep, Holds
    <3> QED
      BY <3>1, <3>2
  <2> QED
    BY <1>1, <1>2, <1>3, <1>6, <2>1, CalmOnTime
<1>7. CASE Elapse
  <2>1. Holds(c, k) /\ held[c][k] \in HeldClaim /\ held'[c][k] = Aged(held[c][k])
    BY <1>2, <1>7, ElapseHeld
  <2>2. held[c][k].pendingDeletion = "no"
    BY <2>1, AgedFields
  <2> QED
    BY <1>2, <1>3, <1>7, <2>1, <2>2, ElapseOnTime
<1>8. ASSUME NEW d \in Clusters, NEW t \in Tasks,
             ClaimPair(d, t) \/ TakeoverPair(d, t) \/ SpawnJob(d, t)
      PROVE  OnTime(c, k)'
  BY <1>5, <1>8 DEF ClaimPair, TakeoverPair, SpawnJob
<1>9. ASSUME NEW d \in Clusters, Restart(d) \/ RecoverGivesUp(d) PROVE OnTime(c, k)'
  BY <1>5, <1>9 DEF Restart, RecoverGivesUp
<1>10. ASSUME NEW d \in Clusters, Crash(d) PROVE OnTime(c, k)'
  <2>1. c # d /\ held'[c] = held[c] /\ fenceAge'[c] = fenceAge[c]
    BY <1>2, <1>10, CrashFields
  <2> QED
    BY <1>5, <2>1
<1>11. ASSUME NEW d \in Clusters, Acquire(d) PROVE OnTime(c, k)'
  <2>1. /\ UNCHANGED fenceAge /\ op[d].pc = "acquire"
        /\ held' = held \/ NewEntry(d, op[d].key, op[d].task, store'[op[d].key].token, LeaseDuration)
    BY <1>2, <1>11, AcquireFields
  <2>2. op[d].key \in Keys
    BY <1>2, <2>1, OpFields
  <2>3. CASE held'[c][k] = held[c][k]
    BY <1>5, <2>1, <2>3
  <2>4. CASE held'[c][k].left = LeaseDuration
    <3>1. held'[c][k].left >= FenceMargin + FenceLead
      BY <2>4, Deadlines, Numbers
    <3> QED
      BY <1>2, <1>4, <3>1, NotDueOnTime
  <2> QED
    BY <2>1, <2>2, <2>3, <2>4 DEF NewEntry
<1>12. ASSUME NEW d \in Clusters, ReadBackRecovery(d) PROVE OnTime(c, k)'
  <2> DEFINE j == op[d].key
  <2>1. /\ UNCHANGED fenceAge /\ op[d].pc = "readBack"
        /\ \/ held' = held
           \/ HeldByUs(d, j) /\ NewEntry(d, j, op[d].task, store[j].token, store[j].left)
    BY <1>2, <1>12, ReadBackFields
  <2>2. j \in Keys /\ op[d].age \in Nat /\ op[d].age <= OpTime
    BY <1>2, <2>1, OpFields
  <2>3. CASE held'[c][k] = held[c][k]
    BY <1>5, <2>1, <2>3
  <2>4. CASE HeldByUs(d, j) /\ held'[c][k].left = store[j].left
    <3>1. store[j].left >= LeaseDuration - op[d].age /\ store[j].left \in Int
      <4>1. ReadBackOf(d) /\ store[j] \in Claim
        BY <1>1, <1>2, <2>2, <2>4, HeldEntry DEF ClaimInv, ClaimOf, HeldByUs
      <4> QED
        BY <2>1, <2>4, <4>1, ClaimFields DEF ReadBackOf
    <3>2. held'[c][k].left >= FenceMargin + FenceLead
      BY <2>2, <2>4, <3>1, Deadlines, Numbers
    <3> QED
      BY <1>2, <1>4, <3>2, NotDueOnTime
  <2> QED
    BY <2>1, <2>2, <2>3, <2>4 DEF NewEntry
<1>13. ASSUME NEW d \in Clusters, Recover(d) PROVE OnTime(c, k)'
  <2>1. /\ UNCHANGED fenceAge
        /\ held'[c][k] = held[c][k] \/ (c = d /\ RecoveredEntry(c, k))
    BY <1>2, <1>13, RecoverFields
  <2>2. CASE RecoveredEntry(c, k)
    <3>1. ~FenceDue(held'[c][k].left) /\ held'[c][k].left \in Int
      BY <1>4, <2>2, EntryFields DEF RecoveredEntry
    <3>2. held'[c][k].left >= FenceMargin + FenceLead
      BY <3>1, Numbers DEF FenceDue
    <3> QED
      BY <1>2, <1>4, <3>2, NotDueOnTime
  <2> QED
    BY <1>5, <2>1, <2>2
<1>14. CASE UNCHANGED vars
  BY <1>5, <1>14 DEF vars
<1> QED
  BY <1>1, <1>6, <1>7, <1>8, <1>9, <1>10, <1>11, <1>12, <1>13, <1>14, CalmCases

\* An executor that holds claims evaluates the fence often enough: when no acquire fails
\* without landing, a claim it does not renew any more, for whatever reason, is given up
\* with its Job, or waits for its Job's deletion, before a peer may take the key over.
\* The read back of a takeover that did not land adopts the executor's own lapsed claim
\* with what is left of its lease, which is why the hypothesis is needed.
THEOREM FencedInTime == Spec => [](~Happens("acquireFails") => FencedBeforeTakeover)
<1>1. FenceInv => (~Happens("acquireFails") => FencedBeforeTakeover)
  <2> SUFFICES ASSUME FenceInv, ~Happens("acquireFails"), NEW c \in Clusters, NEW k \in Keys,
                      Holds(c, k), held[c][k].pendingDeletion = "no"
               PROVE  held[c][k].left > -TakeoverGrace
    BY DEF FencedBeforeTakeover
  <2>1. held[c][k].left >= FenceMargin + FenceLead - fenceAge[c]
    BY DEF FenceInv, FencedOnTime, OnTime
  <2>2. held[c][k].left \in Int /\ fenceAge[c] \in Nat /\ fenceAge[c] <= TickGap
    BY HeldEntry, EntryFields, FenceAgeType DEF FenceInv, ClaimInv, LeaseInv
  <2> QED
    BY <2>1, <2>2, Deadlines, Numbers
<1>2. Init => FenceInv
  <2>1. Init => FencedOnTime
    BY DEF Init, FencedOnTime, Holds
  <2> QED
    BY <2>1, ClaimInit DEF FenceInv
<1>3. Spec => []FenceInv
  BY <1>2, FenceNext, PTL DEF Spec
<1> QED
  BY <1>1, <1>3, PTL

-----------------------------------------------------------------------------
(* Jobs and their claims. *)

(* The deployment the properties are about: tasks are dispatched after       *)
(* Recover, claims are enforced, and a Job is created before the first renew *)
(* of its claim is due when renew answers can be lost.                       *)
JobPremise ==
  /\ RecoverFirst /\ ClaimMode = "on"
  /\ Happens("renewLost") => SpawnTime < RenewInterval

(* A task whose claim is never one read back from a takeover that failed. *)
Owns(t) == t \in RerunOnLostClaim => ~Happens("acquireFails")

(* The claim of a Job about to be created: nothing but its executor's own    *)
(* spawn path may end it before the Job exists.                              *)
Guarded(c, t) ==
  LET h == held[c][KeyOf[t]]
      age == spawn[c][t].age IN
  /\ Holds(c, KeyOf[t]) /\ h.task = t /\ JoblessEligible(h)
  /\ h.jobless <= age /\ h.left >= LeaseDuration - OpTime - age /\ ~h.renewNextTick
  /\ CurrentToken(c, KeyOf[t]) \/ (Happens("renewLost") /\ h.renewAge <= age)

ClaimedOf(c) == \A t \in Tasks : spawn[c][t].pc = "claimed" /\ Owns(t) => Guarded(c, t)

(* The Jobs a process started or adopted are covered; the others are stray. *)
CoveredOf(c) ==
  \A t \in jobs[c] \ stray[c] :
    /\ c \in recovered
    /\ Owns(t) => /\ Holds(c, KeyOf[t]) /\ held[c][KeyOf[t]].task = t
                  /\ ~held[c][KeyOf[t]].releasePending

(* A claim on its way out has no Job. *)
ReleasedOf(c) ==
  \A k \in Keys : Holds(c, k) /\ held[c][k].releasePending /\ Owns(held[c][k].task)
    => held[c][k].task \notin jobs[c]

(* The fence of a claim with a Job is on time, even for a claim read back late. *)
FencedOf(c) ==
  \A k \in Keys : /\ Holds(c, k) /\ held[c][k].pendingDeletion = "no"
                  /\ held[c][k].task \in jobs[c] /\ Owns(held[c][k].task)
    => OnTime(c, k)

JobOf(c) == ClaimedOf(c) /\ CoveredOf(c) /\ ReleasedOf(c) /\ FencedOf(c)

JobInv == ExclusionInv /\ ClaimInv /\ (JobPremise => \A c \in Clusters : JobOf(c))

-----------------------------------------------------------------------------
(* A guarded claim is live, far from its fence and the executor's own.      *)

LEMMA SpawnAge ==
  ASSUME TypeInv, NEW c \in Clusters, NEW t \in Tasks
  PROVE  spawn[c][t].age \in Nat /\ spawn[c][t].age <= SpawnTime
<1>1. spawn[c][t].age \in 0 .. SpawnTime
  BY DEF TypeInv, TypeOK, SpawnState
<1> QED
  BY <1>1, Numbers

LEMMA GuardedLive ==
  ASSUME TypeInv, NEW c \in Clusters, NEW t \in Tasks, Guarded(c, t)
  PROVE  LET h == held[c][KeyOf[t]] IN
         /\ KeyOf[t] \in Keys /\ h \in HeldClaim /\ Live(h) /\ h.left > -TakeoverGrace
         /\ h.left > FenceMargin + FenceLead /\ h.jobless < JoblessGrace
<1> DEFINE h == held[c][KeyOf[t]]
<1>1. KeyOf[t] \in Keys
  BY ConstantsAssumption
<1>2. h \in HeldClaim
  BY <1>1, HeldEntry DEF Guarded
<1>3. h.left \in Int /\ h.jobless \in Int /\ h # NotHeld
  BY <1>2, EntryFields
<1>4. spawn[c][t].age \in Nat /\ spawn[c][t].age <= SpawnTime
  BY SpawnAge
<1>5. h.jobless <= spawn[c][t].age /\ h.left >= LeaseDuration - OpTime - spawn[c][t].age
  BY DEF Guarded
<1>6. h.left > FenceMargin + FenceLead /\ h.jobless < JoblessGrace
  BY <1>3, <1>4, <1>5, Deadlines, Numbers
<1>7. h.left > -TakeoverGrace
  BY <1>3, <1>6, Numbers
<1>8. Live(h)
  BY <1>3 DEF Guarded, JoblessEligible, Live
<1> QED
  BY <1>1, <1>2, <1>6, <1>7, <1>8

\* Nothing of an executor's Jobs is disturbed by the step of another, nor by one of its
\* own that grants no claim.
LEMMA JobBystander ==
  ASSUME JobInv, JobPremise, NEW d \in Clusters,
         \A k \in Keys : held'[d][k] = held[d][k],
         \A t \in Tasks : spawn'[d][t].pc = "claimed" => spawn'[d][t] = spawn[d][t],
         jobs'[d] = jobs[d], stray'[d] = stray[d], fenceAge'[d] = fenceAge[d],
         d \in recovered => d \in recovered',
         \A k \in Keys : /\ CurrentToken(d, k) /\ Live(held[d][k])
                         /\ held[d][k].left > -TakeoverGrace
           => store'[k] = store[k]
  PROVE  JobOf(d)'
<1>1. JobOf(d) /\ TypeInv /\ \A t \in Tasks : KeyOf[t] \in Keys
  BY ConstantsAssumption DEF JobInv, ExclusionInv, LeaseInv
<1>2. ClaimedOf(d)'
  <2> SUFFICES ASSUME NEW t \in Tasks, spawn'[d][t].pc = "claimed", Owns(t)
               PROVE  Guarded(d, t)'
    BY DEF ClaimedOf, Owns, Happens
  <2> DEFINE k == KeyOf[t]
  <2>1. spawn'[d][t] = spawn[d][t] /\ k \in Keys
    BY <1>1
  <2>2. Guarded(d, t)
    BY <1>1, <2>1 DEF JobOf, ClaimedOf
  <2>3. held'[d][k] = held[d][k] /\ (CurrentToken(d, k) => store'[k] = store[k])
    BY <1>1, <2>1, <2>2, GuardedLive
  <2>4. CurrentToken(d, k) => CurrentToken(d, k)'
    BY <2>3 DEF CurrentToken, Holds
  <2> QED
    BY <2>1, <2>2, <2>3, <2>4 DEF Guarded, Holds, Happens
<1>3. CoveredOf(d)'
  BY <1>1 DEF JobOf, CoveredOf, Owns, Happens, Holds, TypeInv, TypeOK
<1>4. ReleasedOf(d)'
  BY <1>1 DEF JobOf, ReleasedOf, Owns, Happens, Holds
<1>5. FencedOf(d)'
  BY <1>1 DEF JobOf, FencedOf, Owns, Happens, Holds, OnTime
<1> QED
  BY <1>2, <1>3, <1>4, <1>5 DEF JobOf

LEMMA CalmJobs ==
  ASSUME JobInv, JobPremise, TypeInv', NEW c \in Clusters, CalmStep(c)
  PROVE  \A d \in Clusters : JobOf(d)'
<1>1. /\ LeaseInv /\ TypeInv /\ ClaimInv /\ Covered /\ JobOf(c)
      /\ \A t \in Tasks : KeyOf[t] \in Keys
  BY ConstantsAssumption DEF JobInv, ExclusionInv, LeaseInv, JobPremise
<1>2. /\ QuietStep(c) /\ JobsShrink(c) /\ UNCHANGED recovered
      /\ \A k \in Keys : StoreStep(c, k) /\ EntryStep(c, k) /\ SpawnKept(c, k)
  BY DEF CalmStep, QuietStep, KeyStep
<1>3. ASSUME NEW d \in Clusters \ {c} PROVE JobOf(d)'
  <2>1. /\ held'[d] = held[d] /\ jobs'[d] = jobs[d] /\ stray'[d] = stray[d]
        /\ fenceAge'[d] = fenceAge[d]
        /\ \A t \in Tasks : spawn'[d][t].pc = "claimed" => spawn'[d][t] = spawn[d][t]
    BY DEF CalmStep, QuietStep, JobsShrink
  <2>2. ASSUME NEW k \in Keys, CurrentToken(d, k) PROVE store'[k] = store[k]
    <3>1. store[k].holder = d
      BY <1>1, <2>2 DEF LeaseInv, TokenInv
    <3> QED
      BY <1>1, <1>2, <3>1, StoreStepOwn DEF HeldByUs
  <2> QED
    BY <1>2, <2>1, <2>2, JobBystander
<1>4. ClaimedOf(c)'
  <2> SUFFICES ASSUME NEW t \in Tasks, spawn'[c][t].pc = "claimed", Owns(t)
               PROVE  Guarded(c, t)'
    BY DEF ClaimedOf, Owns, Happens
  <2> DEFINE k == KeyOf[t]
             h == held[c][k]
             g == held'[c][k]
             age == spawn[c][t].age
  <2>1. spawn'[c][t] = spawn[c][t] /\ spawn[c][t].pc = "claimed"
    BY DEF CalmStep
  <2>2. Guarded(c, t) /\ k \in Keys /\ age \in Nat /\ age <= SpawnTime
    BY <1>1, <2>1, SpawnAge DEF JobOf, ClaimedOf
  <2>3. /\ h \in HeldClaim /\ Live(h) /\ h.left > -TakeoverGrace
        /\ h.left > FenceMargin + FenceLead /\ h.jobless < JoblessGrace
    BY <1>1, <2>2, GuardedLive
  <2>4. h.left \in Int /\ h.jobless \in Int /\ h.renewAge \in Nat
    BY <2>3, EntryFields
  <2>5. Undisturbed(c, k)
    <3>1. ~FenceDue(h.left)
      BY <2>3, <2>4, Numbers DEF FenceDue
    <3> QED
      BY <2>1, <2>2, <2>3, <3>1 DEF Undisturbed, Guarded
  <2>6. HeldByUs(c, k)
    BY <1>1, <2>2, <2>3 DEF Covered
  <2>7. ~(RenewDue(h) /\ ~CurrentToken(c, k))
    <3> SUFFICES ASSUME ~CurrentToken(c, k) PROVE ~RenewDue(h)
      OBVIOUS
    <3>1. Happens("renewLost") /\ h.renewAge <= age /\ ~h.renewNextTick
      BY <2>2 DEF Guarded
    <3>2. h.renewAge < RenewInterval
      BY <2>2, <2>4, <3>1, Numbers DEF JobPremise
    <3>3. ~(h.renewAge >= RenewInterval)
      BY <2>4, <3>2, Numbers
    <3> QED
      BY <3>1, <3>3 DEF RenewDue
  <2>8. /\ g # NotHeld /\ JoblessEligible(g) /\ g.jobless <= AtLeast(h.jobless, 0)
        /\ g.renewNextTick => h.renewNextTick
        /\ g.renewAge <= h.renewAge
        /\ CurrentToken(c, k) => CurrentToken(c, k)' \/ (g.renewAge = 0 /\ Happens("renewLost"))
    BY <1>2, <2>2, <2>5, <2>6, <2>7 DEF SpawnKept
  <2>9. g.task = h.task /\ g.left >= h.left
    BY <1>2, <2>2, <2>8 DEF EntryStep
  <2>10. g \in HeldClaim /\ g.left \in Int /\ g.jobless \in Int /\ g.renewAge \in Nat
    <3>1. g \in HeldClaim
      BY <2>2, <2>8 DEF TypeInv, TypeOK
    <3> QED
      BY <3>1, EntryFields
  <2>11. /\ h.jobless <= age /\ h.left >= LeaseDuration - OpTime - age /\ h.task = t
         /\ ~h.renewNextTick
         /\ CurrentToken(c, k) \/ (Happens("renewLost") /\ h.renewAge <= age)
    BY <2>2 DEF Guarded
  <2>12. g.jobless <= age
    <3> DEFINE x == h.jobless
    <3>1. x \in Int /\ x <= age /\ g.jobless <= AtLeast(x, 0)
      BY <2>4, <2>8, <2>11
    <3> HIDE DEF x, g, h, age
    <3>2. AtLeast(x, 0) <= age /\ AtLeast(x, 0) \in Int
      BY <2>2, <3>1 DEF AtLeast
    <3> QED
      BY <2>2, <2>10, <3>1, <3>2
  <2>13. g.left >= LeaseDuration - OpTime - age
    <3> HIDE DEF g, h, age
    <3> QED
      BY <2>2, <2>4, <2>9, <2>10, <2>11, Numbers
  <2>14. CurrentToken(c, k)' \/ (Happens("renewLost") /\ g.renewAge <= age)
    <3>1. CASE CurrentToken(c, k)
      BY <2>2, <2>8, <3>1
    <3>2. CASE Happens("renewLost") /\ h.renewAge <= age
      <4>1. g.renewAge <= age
        <5> HIDE DEF g, h, age
        <5> QED
          BY <2>2, <2>4, <2>8, <2>10, <3>2
      <4> QED
        BY <3>2, <4>1
    <3> QED
      BY <2>11, <3>1, <3>2
  <2> QED
    BY <2>1, <2>8, <2>9, <2>11, <2>12, <2>13, <2>14 DEF Guarded, Holds, Happens
<1>5. CoveredOf(c)'
  <2> SUFFICES ASSUME NEW t \in jobs'[c] \ stray'[c]
               PROVE  /\ c \in recovered'
                      /\ Owns(t) => /\ held'[c][KeyOf[t]] # NotHeld /\ held'[c][KeyOf[t]].task = t
                                    /\ ~held'[c][KeyOf[t]].releasePending
    BY DEF CoveredOf, Owns, Happens, Holds
  <2>1. t \in jobs[c] \ stray[c] /\ t \in jobs'[c] /\ t \in Tasks
    BY <1>1, <1>2 DEF JobsShrink, TypeInv, TypeOK
  <2>2. /\ c \in recovered
        /\ Owns(t) => /\ Holds(c, KeyOf[t]) /\ held[c][KeyOf[t]].task = t
                      /\ ~held[c][KeyOf[t]].releasePending
    BY <1>1, <2>1 DEF JobOf, CoveredOf
  <2>3. EntryStep(c, KeyOf[t])
    BY <1>1, <1>2, <2>1
  <2> QED
    BY <1>2, <2>1, <2>2, <2>3 DEF EntryStep, Holds
<1>6. ReleasedOf(c)'
  <2> SUFFICES ASSUME NEW k \in Keys, held'[c][k] # NotHeld, held'[c][k].releasePending,
                      Owns(held'[c][k].task)
               PROVE  held'[c][k].task \notin jobs'[c]
    BY DEF ReleasedOf, Owns, Happens, Holds
  <2>1. /\ Holds(c, k) /\ held'[c][k].task = held[c][k].task
        /\ held[c][k].releasePending \/ held[c][k].task \notin jobs[c]
    BY <1>2 DEF EntryStep, Holds
  <2> QED
    BY <1>1, <1>2, <2>1 DEF JobOf, ReleasedOf, JobsShrink
<1>7. FencedOf(c)'
  <2> SUFFICES ASSUME NEW k \in Keys, held'[c][k] # NotHeld, held'[c][k].pendingDeletion = "no",
                      held'[c][k].task \in jobs'[c], Owns(held'[c][k].task)
               PROVE  OnTime(c, k)'
    BY DEF FencedOf, Owns, Happens, Holds
  <2>1. Holds(c, k) /\ held'[c][k].task = held[c][k].task
    BY <1>2 DEF EntryStep, Holds
  <2>2. held[c][k].pendingDeletion = "no" => OnTime(c, k)
    BY <1>1, <1>2, <2>1 DEF JobOf, FencedOf, JobsShrink
  <2> QED
    BY <1>1, <2>2, CalmOnTime
<1> QED
  BY <1>3, <1>4, <1>5, <1>6, <1>7 DEF JobOf

-----------------------------------------------------------------------------
(* Taking a claim, step by step.                                            *)

\* A claim attempt that only reads grants nothing: mode on goes on only with a claim.
LEMMA ClaimAttemptJobs ==
  ASSUME JobInv, JobPremise, NEW c \in Clusters, NEW t \in Tasks,
         ClaimPair(c, t) \/ TakeoverPair(c, t)
  PROVE  \A d \in Clusters : JobOf(d)'
<1>1. /\ UNCHANGED <<store, held, jobs, stray, up, recovered, fenceAge>> /\ SpawnMoves(c, t)
      /\ (UNCHANGED op /\ Denied(c, t)) \/ BeginsAcquire(c, t)
  BY ClaimAttemptFields DEF JobInv, ClaimInv, LeaseInv
<1>2. spawn'[c][t].pc # "claimed"
  BY <1>1 DEF Denied, BeginsAcquire, JobPremise
<1> SUFFICES ASSUME NEW d \in Clusters PROVE JobOf(d)'
  OBVIOUS
<1>3. \A u \in Tasks : spawn'[d][u].pc = "claimed" => spawn'[d][u] = spawn[d][u]
  BY <1>1, <1>2 DEF SpawnMoves
<1> QED
  BY <1>1, <1>3, JobBystander

\* The executor that takes a claim had no entry for the key, so its other claims and its
\* Jobs stay as they are.
LEMMA TakenJobs ==
  ASSUME JobInv, JobPremise, NEW c \in Clusters, NEW t \in Tasks, NEW k \in Keys, k = KeyOf[t],
         ~Holds(c, k), spawn[c][t].pc = "claiming", SpawnMoves(c, t),
         UNCHANGED <<jobs, stray, recovered, fenceAge>>,
         \A j \in Keys \ {k} : store'[j] = store[j] /\ held'[c][j] = held[c][j],
         held'[c][k] # NotHeld => held'[c][k].task = t /\ ~held'[c][k].releasePending,
         spawn'[c][t].pc = "claimed" /\ Owns(t) => Guarded(c, t)'
  PROVE  JobOf(c)'
<1>1. JobOf(c) /\ TypeInv /\ t \notin jobs[c] /\ \A u \in Tasks : KeyOf[u] \in Keys
  BY ConstantsAssumption DEF JobInv, ExclusionInv, LeaseInv, ClaimInv, ClaimOf, SpawnsOf
<1>2. ClaimedOf(c)'
  <2> SUFFICES ASSUME NEW u \in Tasks \ {t}, spawn'[c][u].pc = "claimed", Owns(u)
               PROVE  Guarded(c, u)'
    BY DEF ClaimedOf, Owns, Happens
  <2>1. spawn'[c][u] = spawn[c][u]
    BY DEF SpawnMoves
  <2>2. Guarded(c, u)
    BY <1>1, <2>1 DEF JobOf, ClaimedOf
  <2>3. KeyOf[u] \in Keys \ {k}
    BY <1>1, <2>2 DEF Guarded
  <2>4. held'[c][KeyOf[u]] = held[c][KeyOf[u]] /\ store'[KeyOf[u]] = store[KeyOf[u]]
    BY <2>3
  <2> QED
    BY <2>1, <2>2, <2>4 DEF Guarded, Holds, Happens, CurrentToken
<1>3. CoveredOf(c)'
  <2> SUFFICES ASSUME NEW u \in jobs[c] \ stray[c]
               PROVE  /\ c \in recovered
                      /\ Owns(u) => /\ held'[c][KeyOf[u]] # NotHeld /\ held'[c][KeyOf[u]].task = u
                                    /\ ~held'[c][KeyOf[u]].releasePending
    BY DEF CoveredOf, Owns, Happens, Holds
  <2>1. u \in Tasks /\ KeyOf[u] \in Keys
    BY <1>1 DEF TypeInv, TypeOK
  <2>2. /\ c \in recovered
        /\ Owns(u) => /\ Holds(c, KeyOf[u]) /\ held[c][KeyOf[u]].task = u
                      /\ ~held[c][KeyOf[u]].releasePending
    BY <1>1 DEF JobOf, CoveredOf
  <2> QED
    BY <2>1, <2>2 DEF Holds
<1>4. ReleasedOf(c)'
  <2> SUFFICES ASSUME NEW j \in Keys, held'[c][j] # NotHeld, held'[c][j].releasePending,
                      Owns(held'[c][j].task)
               PROVE  held'[c][j].task \notin jobs[c]
    BY DEF ReleasedOf, Owns, Happens, Holds
  <2>1. held'[c][j] = held[c][j]
    OBVIOUS
  <2> QED
    BY <1>1, <2>1 DEF JobOf, ReleasedOf, Holds
<1>5. FencedOf(c)'
  <2> SUFFICES ASSUME NEW j \in Keys, held'[c][j] # NotHeld, held'[c][j].pendingDeletion = "no",
                      held'[c][j].task \in jobs[c], Owns(held'[c][j].task)
               PROVE  OnTime(c, j)'
    BY DEF FencedOf, Owns, Happens, Holds
  <2>1. held'[c][j] = held[c][j]
    BY <1>1
  <2> QED
    BY <1>1, <2>1 DEF JobOf, FencedOf, Holds, OnTime
<1> QED
  BY <1>2, <1>3, <1>4, <1>5 DEF JobOf

\* A claim just written or read back guards the Job to be created under it.
LEMMA NewEntryGuards ==
  ASSUME TypeInv, TypeInv', NEW c \in Clusters, NEW t \in Tasks, NEW k \in Keys, k = KeyOf[t],
         NEW left \in Int, NewEntry(c, k, t, store'[k].token, left), store'[k] # Free,
         spawn'[c][t].age = 0, left >= LeaseDuration - OpTime
  PROVE  Guarded(c, t)'
<1> DEFINE g == held'[c][k]
<1>1. /\ g \in HeldClaim /\ g.task = t /\ g.token = store'[k].token /\ g.left = left
      /\ g.jobless = None /\ JoblessEligible(g) /\ ~g.renewNextTick
  BY DEF NewEntry
<1>2. g # NotHeld
  BY <1>1, EntryFields
<1>3. g.jobless <= 0 /\ g.left >= LeaseDuration - OpTime - 0
  BY <1>1, Numbers DEF None
<1>4. CurrentToken(c, k)'
  BY <1>1, <1>2 DEF CurrentToken, Holds
<1> QED
  BY <1>1, <1>2, <1>3, <1>4 DEF Guarded, Holds

LEMMA AcquireJobs ==
  ASSUME JobInv, JobPremise, TypeInv', NEW c \in Clusters, Acquire(c)
  PROVE  \A d \in Clusters : JobOf(d)'
<1> SUFFICES ASSUME NEW t, t = op[c].task, NEW k, k = op[c].key
             PROVE  \A d \in Clusters : JobOf(d)'
  OBVIOUS
<1>1. /\ op[c].pc = "acquire" /\ UNCHANGED <<jobs, stray, up, recovered, fenceAge>>
      /\ SpawnMoves(c, t)
      /\ \/ UNCHANGED <<store, held>> /\ (Denied(c, t) \/ UNCHANGED spawn)
         \/ /\ Lands(c, t, k)
            /\ \/ UNCHANGED <<held, spawn>>
               \/ /\ Granted(c, t, op[c].takeover)
                  /\ NewEntry(c, k, t, store'[k].token, LeaseDuration)
  BY AcquireFields DEF JobInv, ClaimInv, LeaseInv
<1>2. /\ LeaseInv /\ TypeInv /\ Covered /\ k \in Keys /\ t \in Tasks /\ k = KeyOf[t]
      /\ ~Holds(c, k) /\ spawn[c][t].pc = "claiming"
  BY <1>1, OpFields DEF JobInv, ExclusionInv, JobPremise, ClaimInv, LeaseInv, ClaimOf, AcquireOf
<1>3. CASE UNCHANGED <<store, held>> /\ (Denied(c, t) \/ UNCHANGED spawn)
  <2>1. spawn'[c][t].pc # "claimed"
    BY <1>2, <1>3 DEF Denied, JobPremise
  <2> SUFFICES ASSUME NEW d \in Clusters PROVE JobOf(d)'
    OBVIOUS
  <2>2. \A u \in Tasks : spawn'[d][u].pc = "claimed" => spawn'[d][u] = spawn[d][u]
    BY <1>1, <1>2, <2>1 DEF SpawnMoves
  <2> QED
    BY <1>1, <1>3, <2>1, <2>2, JobBystander
<1>4. CASE /\ Lands(c, t, k)
           /\ \/ UNCHANGED <<held, spawn>>
              \/ /\ Granted(c, t, op[c].takeover)
                 /\ NewEntry(c, k, t, store'[k].token, LeaseDuration)
  <2>1. /\ ~Refuses(k) /\ store'[k] # Free /\ store'[k].left = LeaseDuration
        /\ \A j \in Keys \ {k} : store'[j] = store[j]
    BY <1>4 DEF Lands
  <2>2. ASSUME NEW d \in Clusters \ {c} PROVE JobOf(d)'
    <3>1. /\ \A u \in Tasks : spawn'[d][u] = spawn[d][u]
          /\ \A j \in Keys : held'[d][j] = held[d][j]
      BY <1>1, <1>2, <1>4 DEF SpawnMoves, NewEntry
    <3>2. ~(Live(held[d][k]) /\ held[d][k].left > -TakeoverGrace)
      <4> SUFFICES ASSUME Live(held[d][k]), held[d][k].left > -TakeoverGrace PROVE FALSE
        OBVIOUS
      <4>1. HeldByUs(d, k) /\ store[k].left >= held[d][k].left
        BY <1>2 DEF Covered
      <4>2. store[k] # Free /\ held[d][k] # NotHeld
        BY <4>1 DEF HeldByUs, Live
      <4>3. store[k].left <= -TakeoverGrace
        BY <1>1, <1>2, <2>1, <4>2, AcquireGuard
      <4>4. store[k].left \in Int /\ held[d][k].left \in Int
        BY <1>2, <4>2, HeldEntry, EntryFields, ClaimFields DEF Holds
      <4> QED
        BY <4>1, <4>3, <4>4, Numbers
    <3> QED
      BY <1>1, <2>1, <3>1, <3>2, JobBystander
  <2>3. JobOf(c)'
    <3>1. CASE UNCHANGED <<held, spawn>>
      BY <1>1, <1>2, <2>1, <3>1, TakenJobs DEF Holds
    <3>2. CASE Granted(c, t, op[c].takeover) /\ NewEntry(c, k, t, store'[k].token, LeaseDuration)
      <4>1. LeaseDuration \in Int /\ LeaseDuration >= LeaseDuration - OpTime
        BY Numbers
      <4>2. spawn'[c][t].pc = "claimed" => Guarded(c, t)'
        <5> SUFFICES ASSUME spawn'[c][t].pc = "claimed" PROVE Guarded(c, t)'
          OBVIOUS
        <5>1. spawn'[c][t].age = 0
          BY <3>2 DEF Granted
        <5> QED
          BY <1>2, <2>1, <3>2, <4>1, <5>1, NewEntryGuards
      <4>3. /\ held'[c][k].task = t /\ ~held'[c][k].releasePending
            /\ \A j \in Keys \ {k} : held'[c][j] = held[c][j]
        BY <1>2, <3>2 DEF NewEntry, JoblessEligible
      <4> QED
        BY <1>1, <1>2, <2>1, <4>2, <4>3, TakenJobs
    <3> QED
      BY <1>4, <3>1, <3>2
  <2> QED
    BY <2>2, <2>3
<1> QED
  BY <1>1, <1>3, <1>4

LEMMA ReadBackJobs ==
  ASSUME JobInv, JobPremise, TypeInv', NEW c \in Clusters, ReadBackRecovery(c)
  PROVE  \A d \in Clusters : JobOf(d)'
<1> SUFFICES ASSUME NEW t, t = op[c].task, NEW k, k = op[c].key
             PROVE  \A d \in Clusters : JobOf(d)'
  OBVIOUS
<1>1. /\ op[c].pc = "readBack" /\ UNCHANGED <<store, jobs, stray, up, recovered, fenceAge>>
      /\ SpawnMoves(c, t)
      /\ \/ /\ HeldByUs(c, k) /\ Granted(c, t, op[c].takeover)
            /\ NewEntry(c, k, t, store[k].token, store[k].left)
         \/ UNCHANGED held /\ Denied(c, t)
  BY ReadBackFields DEF JobInv, ClaimInv, LeaseInv
<1>2. /\ TypeInv /\ k \in Keys /\ t \in Tasks /\ k = KeyOf[t] /\ ClaimOf(c)
      /\ ~Holds(c, k) /\ spawn[c][t].pc = "claiming" /\ op[c].age \in Nat /\ op[c].age <= OpTime
  BY <1>1, OpFields DEF JobInv, ClaimInv, LeaseInv, ClaimOf, AcquireOf
<1>3. ASSUME NEW d \in Clusters \ {c} PROVE JobOf(d)'
  <2>1. /\ \A u \in Tasks : spawn'[d][u] = spawn[d][u]
        /\ \A j \in Keys : held'[d][j] = held[d][j]
    BY <1>1, <1>2 DEF SpawnMoves, NewEntry
  <2> QED
    BY <1>1, <2>1, JobBystander
<1>4. CASE UNCHANGED held /\ Denied(c, t)
  <2>1. \A u \in Tasks : spawn'[c][u].pc = "claimed" => spawn'[c][u] = spawn[c][u]
    BY <1>1, <1>4 DEF SpawnMoves, Denied, JobPremise
  <2> QED
    BY <1>1, <1>3, <1>4, <2>1, JobBystander
<1>5. CASE /\ HeldByUs(c, k) /\ Granted(c, t, op[c].takeover)
           /\ NewEntry(c, k, t, store[k].token, store[k].left)
  <2>1. store[k] # Free /\ store'[k] = store[k] /\ store[k].left \in Int
    BY <1>1, <1>2, <1>5, HeldEntry, ClaimFields DEF HeldByUs
  <2>2. ASSUME spawn'[c][t].pc = "claimed", Owns(t) PROVE Guarded(c, t)'
    <3>1. spawn'[c][t].age = 0 /\ (op[c].takeover => ~Happens("acquireFails"))
      BY <1>5, <2>2 DEF Granted, JobPremise, Owns
    <3>2. store[k].left >= LeaseDuration - op[c].age
      BY <1>1, <1>2, <1>5, <3>1 DEF ClaimOf, ReadBackOf
    <3>3. store[k].left >= LeaseDuration - OpTime
      BY <1>2, <2>1, <3>2, Numbers
    <3> QED
      BY <1>2, <1>5, <2>1, <3>1, <3>3, NewEntryGuards
  <2>3. /\ held'[c][k].task = t /\ ~held'[c][k].releasePending
        /\ \A j \in Keys \ {k} : held'[c][j] = held[c][j]
    BY <1>2, <1>5 DEF NewEntry, JoblessEligible
  <2>4. JobOf(c)'
    BY <1>1, <1>2, <2>2, <2>3, TakenJobs
  <2> QED
    BY <1>3, <2>4
<1> QED
  BY <1>1, <1>4, <1>5

-----------------------------------------------------------------------------
(* The Job is created, the process dies and comes back, time passes.        *)

\* The guarded claim covers the Job at once, and its fence is far away.
LEMMA SpawnJobJobs ==
  ASSUME JobInv, JobPremise, TypeInv', NEW c \in Clusters, NEW t \in Tasks, SpawnJob(c, t)
  PROVE  \A d \in Clusters : JobOf(d)'
<1>1. /\ spawn[c][t].pc = "claimed" /\ SpawnMoves(c, t) /\ spawn'[c][t].pc \in {"idle", "failed"}
      /\ UNCHANGED <<store, held, op, stray, parked, up, recovered, fenceAge>>
      /\ jobs'[c] \subseteq jobs[c] \cup {t}
      /\ \A d \in Clusters \ {c} : jobs'[d] = jobs[d]
  BY SpawnJobFields DEF JobInv, ClaimInv, LeaseInv
<1>2. /\ TypeInv /\ JobOf(c) /\ EntriesOf(c) /\ c \in recovered
  BY <1>1, ActiveIsRecovered DEF JobInv, JobPremise, ExclusionInv, LeaseInv, ClaimInv, ClaimOf
<1>3. Owns(t) => Guarded(c, t)
  BY <1>1, <1>2 DEF JobOf, ClaimedOf
<1>4. ASSUME NEW k \in Keys, Holds(c, k), held[c][k].task = t, Owns(t)
      PROVE  ~held[c][k].releasePending /\ OnTime(c, k)'
  <2>1. k = KeyOf[t] /\ Guarded(c, t)
    BY <1>2, <1>3, <1>4 DEF EntriesOf
  <2>2. held[c][k] \in HeldClaim /\ held[c][k].left > FenceMargin + FenceLead
    BY <1>2, <2>1, GuardedLive
  <2>3. held'[c][k] \in HeldClaim /\ held'[c][k].left >= FenceMargin + FenceLead
    BY <1>1, <2>2, EntryFields, Deadlines
  <2> QED
    BY <2>1, <2>3, NotDueOnTime DEF Guarded, JoblessEligible
<1>5. ASSUME NEW d \in Clusters \ {c} PROVE JobOf(d)'
  <2>1. \A u \in Tasks : spawn'[d][u] = spawn[d][u]
    BY <1>1 DEF SpawnMoves
  <2> QED
    BY <1>1, <2>1, JobBystander
<1>6. ClaimedOf(c)'
  <2> SUFFICES ASSUME NEW u \in Tasks, spawn'[c][u].pc = "claimed", Owns(u)
               PROVE  Guarded(c, u)'
    BY DEF ClaimedOf, Owns, Happens
  <2>1. spawn'[c][u] = spawn[c][u]
    BY <1>1 DEF SpawnMoves
  <2>2. Guarded(c, u)
    BY <1>2, <2>1 DEF JobOf, ClaimedOf
  <2> QED
    BY <1>1, <2>1, <2>2 DEF Guarded, Holds, Happens, CurrentToken
<1>7. CoveredOf(c)'
  <2> SUFFICES ASSUME NEW u \in jobs'[c] \ stray[c], Owns(u)
               PROVE  /\ Holds(c, KeyOf[u]) /\ held[c][KeyOf[u]].task = u
                      /\ ~held[c][KeyOf[u]].releasePending
    BY <1>1, <1>2 DEF CoveredOf, Owns, Happens, Holds
  <2>1. CASE u = t
    BY <1>3, <2>1 DEF Guarded, JoblessEligible
  <2>2. CASE u \in jobs[c]
    BY <1>2, <2>2 DEF JobOf, CoveredOf
  <2> QED
    BY <1>1, <2>1, <2>2
<1>8. ReleasedOf(c)'
  BY <1>1, <1>2, <1>4 DEF JobOf, ReleasedOf, Owns, Happens, Holds
<1>9. FencedOf(c)'
  <2> SUFFICES ASSUME NEW k \in Keys, Holds(c, k), held[c][k].pendingDeletion = "no",
                      held[c][k].task \in jobs'[c], Owns(held[c][k].task)
               PROVE  OnTime(c, k)'
    BY <1>1 DEF FencedOf, Owns, Happens, Holds
  <2>1. CASE held[c][k].task = t
    BY <1>4, <2>1
  <2>2. CASE held[c][k].task \in jobs[c]
    BY <1>1, <1>2, <2>2 DEF JobOf, FencedOf, OnTime
  <2> QED
    BY <1>1, <2>1, <2>2
<1> QED
  BY <1>5, <1>6, <1>7, <1>8, <1>9 DEF JobOf

\* The Jobs of a process that died are stray.
LEMMA CrashJobs ==
  ASSUME JobInv, JobPremise, NEW c \in Clusters, Crash(c)
  PROVE  \A d \in Clusters : JobOf(d)'
<1>1. /\ UNCHANGED <<store, jobs>> /\ recovered' = recovered \ {c}
      /\ (\A k \in Keys : held'[c][k] = NotHeld)
      /\ (\A t \in Tasks : spawn'[c][t].pc = "idle") /\ stray'[c] = jobs[c]
      /\ \A d \in Clusters \ {c} : /\ held'[d] = held[d] /\ spawn'[d] = spawn[d]
                                   /\ stray'[d] = stray[d] /\ fenceAge'[d] = fenceAge[d]
  BY CrashFields DEF JobInv, ClaimInv, LeaseInv
<1>2. JobOf(c)'
  BY <1>1 DEF JobOf, ClaimedOf, CoveredOf, ReleasedOf, FencedOf, Holds
<1>3. ASSUME NEW d \in Clusters \ {c} PROVE JobOf(d)'
  BY <1>1, JobBystander
<1> QED
  BY <1>2, <1>3

\* A restart and a Recover that gives up change no claim and no Job.
LEMMA RestartJobs ==
  ASSUME JobInv, JobPremise, NEW c \in Clusters, Restart(c) \/ RecoverGivesUp(c)
  PROVE  \A d \in Clusters : JobOf(d)'
<1>1. UNCHANGED <<store, held, spawn, jobs, stray, fenceAge>> /\ recovered \subseteq recovered'
  BY DEF Restart, RecoverGivesUp
<1> QED
  BY <1>1, JobBystander

\* Before Recover every Job is stray and nothing is held; Recover takes over the Jobs
\* whose claims it adopts or keeps for their deletion.
LEMMA RecoverJobs ==
  ASSUME JobInv, JobPremise, TypeInv', NEW c \in Clusters, Recover(c)
  PROVE  \A d \in Clusters : JobOf(d)'
<1>1. /\ c \notin recovered /\ recovered' = recovered \cup {c}
      /\ UNCHANGED <<spawn, fenceAge>> /\ jobs'[c] \subseteq jobs[c]
      /\ \A d \in Clusters \ {c} : held'[d] = held[d] /\ jobs'[d] = jobs[d] /\ stray'[d] = stray[d]
      /\ \A k \in Keys :
           \/ store'[k] = store[k] /\ held'[c][k] = held[c][k]
           \/ RecoveredEntry(c, k)
           \/ store'[k] = Free /\ HeldByUs(c, k) /\ held'[c][k] = held[c][k]
      /\ \A t \in jobs'[c] : t \in stray[c] /\ t \notin stray'[c] =>
           \E k \in Keys : store[k].task = t /\ RecoveredEntry(c, k)
  BY RecoverFields DEF JobInv, ClaimInv, LeaseInv
<1>2. /\ TypeInv /\ LeaseInv /\ StoreKeyed /\ JobOf(c)
      /\ (\A k \in Keys : held[c][k] = NotHeld) /\ (\A t \in Tasks : spawn[c][t].pc = "idle")
  BY <1>1 DEF JobInv, JobPremise, ExclusionInv, LeaseInv, ClaimInv, NothingBeforeRecover
<1>3. ASSUME NEW d \in Clusters \ {c} PROVE JobOf(d)'
  <2>1. ASSUME NEW k \in Keys, CurrentToken(d, k) PROVE store'[k] = store[k]
    <3>1. ~HeldByUs(c, k)
      BY <1>2, <2>1 DEF LeaseInv, TokenInv, HeldByUs
    <3> QED
      BY <1>1, <3>1 DEF RecoveredEntry
  <2> QED
    BY <1>1, <2>1, JobBystander
<1>4. ASSUME NEW k \in Keys, held'[c][k] # NotHeld PROVE RecoveredEntry(c, k)
  BY <1>1, <1>2, <1>4
<1>5. ClaimedOf(c)'
  BY <1>1, <1>2 DEF ClaimedOf
<1>6. CoveredOf(c)'
  <2> SUFFICES ASSUME NEW t \in jobs'[c] \ stray'[c]
               PROVE  /\ held'[c][KeyOf[t]] # NotHeld /\ held'[c][KeyOf[t]].task = t
                      /\ ~held'[c][KeyOf[t]].releasePending
    BY <1>1 DEF CoveredOf, Holds
  <2>1. t \in stray[c]
    BY <1>1, <1>2 DEF JobOf, CoveredOf
  <2>2. PICK k \in Keys : store[k].task = t /\ RecoveredEntry(c, k)
    BY <1>1, <2>1
  <2>3. KeyOf[t] = k
    BY <1>2, <2>2 DEF StoreKeyed, RecoveredEntry, HeldByUs
  <2> QED
    BY <2>2, <2>3, NullAssumption DEF RecoveredEntry
<1>7. ReleasedOf(c)'
  BY <1>4 DEF ReleasedOf, Holds, RecoveredEntry
<1>8. FencedOf(c)'
  <2> SUFFICES ASSUME NEW k \in Keys, held'[c][k] # NotHeld, held'[c][k].pendingDeletion = "no"
               PROVE  OnTime(c, k)'
    BY DEF FencedOf, Holds
  <2>1. held'[c][k] \in HeldClaim /\ ~FenceDue(held'[c][k].left)
    BY <1>4 DEF RecoveredEntry
  <2>2. held'[c][k].left >= FenceMargin + FenceLead
    BY <2>1, EntryFields, Deadlines DEF FenceDue
  <2> QED
    BY <2>1, <2>2, NotDueOnTime
<1> QED
  BY <1>3, <1>5, <1>6, <1>7, <1>8 DEF JobOf

\* A guarded claim ages with the spawn it guards.
LEMMA ElapseGuards ==
  ASSUME TypeInv, Elapse, NEW c \in Clusters, NEW t \in Tasks, spawn[c][t].pc = "claimed",
         Guarded(c, t)
  PROVE  Guarded(c, t)'
<1> DEFINE k == KeyOf[t]
           h == held[c][k]
           g == held'[c][k]
           age == spawn[c][t].age
<1>1. /\ k \in Keys /\ h \in HeldClaim /\ g = Aged(h) /\ g \in HeldClaim /\ g # NotHeld
  BY GuardedLive, ElapseHeld, AgedFields DEF Guarded
<1>2. /\ Holds(c, k) /\ h.task = t /\ JoblessEligible(h) /\ ~h.renewNextTick
      /\ h.jobless <= age /\ h.left >= LeaseDuration - OpTime - age
      /\ CurrentToken(c, k) \/ (Happens("renewLost") /\ h.renewAge <= age)
  BY DEF Guarded
<1>3. /\ g.task = h.task /\ g.token = h.token /\ g.left = Nearer(h.left)
      /\ g.renewNextTick = h.renewNextTick /\ g.pendingDeletion = h.pendingDeletion
      /\ g.releasePending = h.releasePending /\ g.needsRunningCheck = h.needsRunningCheck
      /\ g.hold = None <=> h.hold = None
      /\ g.jobless = Older(h.jobless, JoblessGrace)
      /\ g.renewAge = AtMost(h.renewAge + 1, RenewInterval)
  BY <1>1, AgedFields
<1>4. /\ h.left \in Int /\ h.jobless \in Int /\ h.renewAge \in Nat /\ age \in Nat
      /\ spawn'[c][t].age = age + 1
  BY <1>1, EntryFields, SpawnAge, ElapseRest
<1>5. JoblessEligible(g)
  BY <1>2, <1>3 DEF JoblessEligible
<1>6. g.jobless <= age + 1
  <2> HIDE DEF g, h, age
  <2> QED
    BY <1>2, <1>3, <1>4, Numbers, Deadlines DEF Older, AtMost, None
<1>7. g.left >= LeaseDuration - OpTime - (age + 1)
  <2>1. Nearer(h.left) \in Int /\ Nearer(h.left) >= h.left - 1
    BY <1>4, NearerFields
  <2> HIDE DEF g, h, age
  <2> QED
    BY <1>2, <1>3, <1>4, <2>1, Numbers
<1>8. CurrentToken(c, k)' \/ (Happens("renewLost") /\ g.renewAge <= age + 1)
  <2>1. CASE CurrentToken(c, k)
    <3>1. store'[k] # Free /\ store'[k].token = store[k].token
      BY <1>1, <2>1, ElapseStore DEF CurrentToken
    <3> QED
      BY <1>1, <1>3, <2>1, <3>1 DEF CurrentToken, Holds
  <2>2. CASE Happens("renewLost") /\ h.renewAge <= age
    <3>1. g.renewAge <= age + 1
      <4> HIDE DEF g, h, age
      <4> QED
        BY <1>3, <1>4, <2>2, Numbers DEF AtMost
    <3> QED
      BY <2>2, <3>1
  <2> QED
    BY <1>2, <2>1, <2>2
<1> QED
  BY <1>1, <1>2, <1>3, <1>4, <1>5, <1>6, <1>7, <1>8 DEF Guarded, Holds, Happens

LEMMA ElapseJobs ==
  ASSUME JobInv, JobPremise, Elapse
  PROVE  \A c \in Clusters : JobOf(c)'
<1> SUFFICES ASSUME NEW c \in Clusters PROVE JobOf(c)'
  OBVIOUS
<1>1. TypeInv /\ JobOf(c) /\ \A t \in Tasks : KeyOf[t] \in Keys
  BY ConstantsAssumption DEF JobInv, ExclusionInv, LeaseInv
<1>2. UNCHANGED <<jobs, stray, recovered>> /\ \A t \in Tasks : spawn'[c][t].pc = spawn[c][t].pc
  BY <1>1, ElapseRest
<1>3. \A k \in Keys : /\ Holds(c, k) <=> held'[c][k] # NotHeld
                      /\ Holds(c, k) =>
                           /\ held'[c][k].task = held[c][k].task
                           /\ held'[c][k].releasePending = held[c][k].releasePending
                           /\ held'[c][k].pendingDeletion = held[c][k].pendingDeletion
  BY <1>1, ElapseHeld, AgedFields
<1>4. ClaimedOf(c)'
  BY <1>1, <1>2, ElapseGuards DEF JobOf, ClaimedOf, Owns, Happens
<1>5. CoveredOf(c)'
  <2> SUFFICES ASSUME NEW t \in jobs[c] \ stray[c]
               PROVE  /\ c \in recovered
                      /\ Owns(t) => /\ held'[c][KeyOf[t]] # NotHeld /\ held'[c][KeyOf[t]].task = t
                                    /\ ~held'[c][KeyOf[t]].releasePending
    BY <1>2 DEF CoveredOf, Owns, Happens, Holds
  <2>1. KeyOf[t] \in Keys
    BY <1>1 DEF TypeInv, TypeOK
  <2> QED
    BY <1>1, <1>3, <2>1 DEF JobOf, CoveredOf
<1>6. ReleasedOf(c)'
  BY <1>1, <1>2, <1>3 DEF JobOf, ReleasedOf, Owns, Happens, Holds
<1>7. FencedOf(c)'
  BY <1>1, <1>2, <1>3, ElapseOnTime DEF JobOf, FencedOf, Owns, Happens, Holds
<1> QED
  BY <1>4, <1>5, <1>6, <1>7 DEF JobOf

-----------------------------------------------------------------------------
(* The invariant.                                                           *)

LEMMA JobNext == JobInv /\ [Next]_vars => JobInv'
<1> SUFFICES ASSUME JobInv, [Next]_vars PROVE JobInv'
  OBVIOUS
<1>1. ExclusionInv /\ ClaimInv /\ ExclusionInv' /\ ClaimInv' /\ TypeInv'
  BY ExclusionNext, ClaimNext DEF JobInv, ExclusionInv, LeaseInv
<1> SUFFICES ASSUME JobPremise PROVE \A d \in Clusters : JobOf(d)'
  BY <1>1 DEF JobInv, JobPremise, Happens
<1>2. CASE UNCHANGED vars
  <2>1. UNCHANGED <<store, held, spawn, jobs, stray, recovered, fenceAge>>
    BY <1>2 DEF vars
  <2> QED
    BY <2>1, JobBystander
<1>3. CASE Elapse
  BY <1>3, ElapseJobs
<1>4. ASSUME NEW c \in Clusters,
             \/ CalmStep(c)
             \/ \E t \in Tasks : ClaimPair(c, t) \/ TakeoverPair(c, t) \/ SpawnJob(c, t)
             \/ Acquire(c) \/ ReadBackRecovery(c)
             \/ Crash(c) \/ Restart(c) \/ Recover(c) \/ RecoverGivesUp(c)
      PROVE  \A d \in Clusters : JobOf(d)'
  BY <1>1, <1>4, CalmJobs, ClaimAttemptJobs, SpawnJobJobs, AcquireJobs, ReadBackJobs, CrashJobs,
     RestartJobs, RecoverJobs
<1> QED
  BY <1>1, <1>2, <1>3, <1>4, CalmCases

LEMMA JobInit == Init => JobInv
<1> SUFFICES ASSUME Init PROVE JobInv
  OBVIOUS
<1>1. ExclusionInv /\ ClaimInv
  BY ExclusionInit, ClaimInit
<1>2. ASSUME NEW c \in Clusters PROVE JobOf(c)
  <2>1. /\ jobs[c] = {} /\ (\A k \in Keys : held[c][k] = NotHeld)
        /\ \A t \in Tasks : spawn[c][t].pc = "idle"
    BY DEF Init, NoSpawn
  <2> QED
    BY <2>1 DEF JobOf, ClaimedOf, CoveredOf, ReleasedOf, FencedOf, Holds
<1> QED
  BY <1>1, <1>2 DEF JobInv

LEMMA JobInvariant == Spec => []JobInv
<1>1. JobInv /\ [Next]_vars => JobInv'
  BY JobNext
<1> QED
  BY JobInit, <1>1, PTL DEF Spec

-----------------------------------------------------------------------------
(* What it says about the Jobs.                                             *)

(* No claim of a task to run again is one read back from a failed takeover. *)
ReadBackIsOwn == Happens("acquireFails") => RerunOnLostClaim = {}

LEMMA AllOwn ==
  ASSUME ReadBackIsOwn, NEW t
  PROVE  Owns(t)
BY DEF ReadBackIsOwn, Owns

\* A Job that its executor's process started or adopted is under a claim of that executor
\* that is not on its way out, whatever requests fail or are lost, whatever peers do and
\* however often processes die: for every number of executors, keys and tasks and all
\* deadlines in the order TimingAssumption gives.
THEOREM JobsCovered == Spec => [](JobPremise /\ ReadBackIsOwn => RunningJobCovered)
<1>1. JobInv => (JobPremise /\ ReadBackIsOwn => RunningJobCovered)
  <2> SUFFICES ASSUME JobInv, JobPremise, ReadBackIsOwn, NEW c \in up,
                      NEW t \in jobs[c] \ stray[c]
               PROVE  /\ Holds(c, KeyOf[t]) /\ held[c][KeyOf[t]].task = t
                      /\ ~held[c][KeyOf[t]].releasePending
    BY DEF RunningJobCovered
  <2>1. c \in Clusters
    BY DEF JobInv, ClaimInv, LeaseInv, TypeInv, TypeOK
  <2> QED
    BY <2>1, AllOwn DEF JobInv, JobOf, CoveredOf
<1> QED
  BY <1>1, JobInvariant, PTL

\* A Job out of nobody's reach is under a claim that is this executor's in the store.
LEMMA ReachableIsOwn ==
  ASSUME JobInv, JobPremise, ReadBackIsOwn, NEW c \in Clusters, NEW t \in jobs[c],
         ~Unstoppable(c, t)
  PROVE  KeyOf[t] \in Keys /\ HeldByUs(c, KeyOf[t])
<1> DEFINE k == KeyOf[t]
<1>1. TypeInv /\ Covered /\ JobOf(c) /\ t \in Tasks /\ k \in Keys
  BY ConstantsAssumption DEF JobInv, JobPremise, ExclusionInv, LeaseInv, TypeInv, TypeOK
<1>2. Holds(c, k) /\ held[c][k].task = t /\ ~held[c][k].releasePending
  BY <1>1, AllOwn DEF JobOf, CoveredOf, Unstoppable
<1>3. held[c][k].pendingDeletion = "no"
  BY <1>2 DEF Unstoppable
<1>4. OnTime(c, k)
  BY <1>1, <1>2, <1>3, AllOwn DEF JobOf, FencedOf
<1>5. held[c][k].left \in Int /\ fenceAge[c] \in Nat /\ fenceAge[c] <= TickGap
  BY <1>1, <1>2, HeldEntry, EntryFields, FenceAgeType
<1>6. held[c][k].left > -TakeoverGrace
  BY <1>4, <1>5, Numbers, Deadlines DEF OnTime
<1>7. Live(held[c][k])
  BY <1>2, <1>3 DEF Live, Holds
<1> QED
  BY <1>1, <1>6, <1>7 DEF Covered

\* Two executors run a task at the same time only if one of the two Jobs was left behind
\* by a dead process or is waiting for its deletion to be retried: the fence of every
\* other Job came first.
THEOREM OverlapNeedsFault == Spec => [](JobPremise /\ ReadBackIsOwn => OverlapOnlyAfterFault)
<1>1. JobInv => (JobPremise /\ ReadBackIsOwn => OverlapOnlyAfterFault)
  <2> SUFFICES ASSUME JobInv, JobPremise, ReadBackIsOwn, NEW t \in Tasks,
                      NEW c \in Clusters, NEW d \in Clusters, t \in jobs[c], t \in jobs[d],
                      ~Unstoppable(c, t), ~Unstoppable(d, t)
               PROVE  c = d
    BY DEF OverlapOnlyAfterFault
  <2>1. HeldByUs(c, KeyOf[t]) /\ HeldByUs(d, KeyOf[t])
    BY ReachableIsOwn
  <2> QED
    BY <2>1 DEF HeldByUs
<1> QED
  BY <1>1, JobInvariant, PTL

-----------------------------------------------------------------------------
(* Releases.                                                                *)

(* A key has one task, so a claim cannot be adopted for another.            *)
OneTaskPerKey == \A t, u \in Tasks : KeyOf[t] = KeyOf[u] => t = u

FreePremise == JobPremise /\ ReadBackIsOwn /\ (Happens("acquireFails") => OneTaskPerKey)

(* What a step frees protects no Job any more.                              *)
FreesIdle(k) ==
  store[k] # Free /\ store'[k] = Free => store[k].task \notin jobs'[store[k].holder]

\* The loop and the releases free a claim marked for release, or one without a Job.
LEMMA CalmFrees ==
  ASSUME JobInv, JobPremise, NEW c \in Clusters, CalmStep(c), NEW k \in Keys,
         Owns(store[k].task), Happens("acquireFails") => OneTaskPerKey
  PROVE  FreesIdle(k)
<1> SUFFICES ASSUME store[k] # Free, store'[k] = Free
             PROVE  store[k].task \notin jobs'[store[k].holder]
  BY DEF FreesIdle
<1>1. StoreStep(c, k) /\ jobs'[c] \subseteq jobs[c]
  BY DEF CalmStep, QuietStep, KeyStep, JobsShrink
<1>2. TypeInv /\ TokenInv /\ JobOf(c) /\ StoreKeyed /\ EntriesOf(c)
  BY DEF JobInv, ClaimInv, LeaseInv, ClaimOf
<1>3. CurrentToken(c, k) /\ (held[c][k].releasePending \/ held[c][k].task \notin jobs'[c])
  BY <1>1 DEF StoreStep
<1>4. store[k].holder = c /\ Holds(c, k) /\ HeldByUs(c, k)
  BY <1>2, <1>3 DEF TokenInv, CurrentToken, HeldByUs
<1>5. store[k].task \in Tasks /\ held[c][k].task \in Tasks
  BY <1>2, <1>4, HeldEntry, EntryFields, ClaimFields
<1>6. KeyOf[store[k].task] = k /\ KeyOf[held[c][k].task] = k
  BY <1>2, <1>4 DEF StoreKeyed, EntriesOf
<1>7. store[k].task = held[c][k].task
  BY <1>2, <1>4, <1>5, <1>6 DEF EntriesOf, OneTaskPerKey
<1>8. held[c][k].releasePending => held[c][k].task \notin jobs[c]
  BY <1>2, <1>4, <1>7 DEF JobOf, ReleasedOf
<1> QED
  BY <1>1, <1>3, <1>4, <1>7, <1>8

\* Recover asks for the Job, or deletes it, before it frees a claim.
LEMMA RecoverFrees ==
  ASSUME TypeInv, NEW c \in Clusters, Recover(c), NEW k \in Keys
  PROVE  FreesIdle(k)
<1>1. \/ store'[k] = store[k]
      \/ RecoveredEntry(c, k)
      \/ HeldByUs(c, k) /\ store[k].task \notin jobs'[c]
  BY RecoverFields
<1> QED
  BY <1>1 DEF FreesIdle, RecoveredEntry, HeldByUs

LEMMA StepFrees ==
  ASSUME JobInv, JobPremise, [Next]_vars, NEW k \in Keys,
         Owns(store[k].task), Happens("acquireFails") => OneTaskPerKey
  PROVE  FreesIdle(k)
<1>1. ClaimInv /\ TypeInv
  BY DEF JobInv, ClaimInv, LeaseInv
<1>2. CASE UNCHANGED vars
  BY <1>2 DEF vars, FreesIdle
<1>3. CASE Elapse
  BY <1>1, <1>3, ElapseStore DEF FreesIdle
<1>4. ASSUME NEW c \in Clusters,
             \/ CalmStep(c)
             \/ \E t \in Tasks : ClaimPair(c, t) \/ TakeoverPair(c, t) \/ SpawnJob(c, t)
             \/ Acquire(c) \/ ReadBackRecovery(c)
             \/ Crash(c) \/ Restart(c) \/ Recover(c) \/ RecoverGivesUp(c)
      PROVE  FreesIdle(k)
  <2>1. CASE CalmStep(c)
    BY <2>1, CalmFrees
  <2>2. ASSUME NEW t \in Tasks, ClaimPair(c, t) \/ TakeoverPair(c, t) \/ SpawnJob(c, t)
        PROVE  FreesIdle(k)
    BY <1>1, <2>2, ClaimAttemptFields, SpawnJobFields DEF FreesIdle
  <2>3. CASE Acquire(c)
    BY <1>1, <2>3, AcquireFields DEF FreesIdle, Lands
  <2>4. CASE ReadBackRecovery(c) \/ Crash(c)
    BY <1>1, <2>4, ReadBackFields, CrashFields DEF FreesIdle
  <2>5. CASE Restart(c) \/ RecoverGivesUp(c)
    BY <2>5 DEF FreesIdle, Restart, RecoverGivesUp
  <2>6. CASE Recover(c)
    BY <1>1, <2>6, RecoverFrees
  <2> QED
    BY <1>4, <2>1, <2>2, <2>3, <2>4, <2>5, <2>6
<1> QED
  BY <1>1, <1>2, <1>3, <1>4, CalmCases

\* No release frees a claim while the Job it protects keeps running on its holder: not a
\* failed spawn, not a terminal task, not the loop's passes, not a fence, and not Recover.
THEOREM FreedOnlyWhenIdle == ASSUME FreePremise PROVE Spec => NeverFreedUnderRunningJob
<1>1. ASSUME JobInv, [Next]_vars
      PROVE  [\A k \in Keys :
                /\ store[k] # Free /\ store'[k] = Free
                => store[k].task \notin jobs'[store[k].holder]]_vars
  BY <1>1, AllOwn, StepFrees DEF FreePremise, FreesIdle
<1> QED
  BY <1>1, JobInvariant, PTL DEF Spec, NeverFreedUnderRunningJob

-----------------------------------------------------------------------------
(* One run at a time, with crashes: for the tasks that are parked after a   *)
(* lost claim, when the write that parks them follows the takeover.         *)

RunPremise ==
  /\ JobPremise /\ OneTaskPerKey
  /\ ~Happens("parkFails") /\ ~Happens("acquireLost")

Runs(c, t) == t \in jobs[c] \/ spawn[c][t].pc = "claimed"

(* The claim of a Job is its executor's, or the task is parked.             *)
RunOwned ==
  \A c \in Clusters : \A t \in jobs[c] \ RerunOnLostClaim : HeldByUs(c, KeyOf[t]) \/ t \in parked

RunAlone ==
  \A t \in Tasks \ RerunOnLostClaim : \A c, d \in Clusters : Runs(c, t) /\ Runs(d, t) => c = d

(* A create that was begun before somebody else took the claim is refused.  *)
RunRefuses ==
  \A t \in Tasks \ RerunOnLostClaim : \A c, d \in Clusters :
    /\ Runs(c, t) /\ op[d].pc = "acquire" /\ ~op[d].takeover /\ op[d].key = KeyOf[t]
    => HeldByUs(c, KeyOf[t]) /\ store[KeyOf[t]].left >= LeaseDuration - op[d].age

RunInv == JobInv /\ (RunPremise => RunOwned /\ RunAlone /\ RunRefuses)

\* The claim of a Job about to be created is this executor's in the store.
LEMMA ClaimedIsOwn ==
  ASSUME JobInv, JobPremise, NEW c \in Clusters, NEW t \in Tasks, spawn[c][t].pc = "claimed",
         Owns(t)
  PROVE  HeldByUs(c, KeyOf[t])
<1>1. TypeInv /\ Covered /\ Guarded(c, t)
  BY DEF JobInv, JobPremise, ExclusionInv, LeaseInv, JobOf, ClaimedOf
<1> QED
  BY <1>1, GuardedLive DEF Covered

ClaimedOwn ==
  JobInv /\ JobPremise =>
    \A c \in Clusters, t \in Tasks :
      spawn[c][t].pc = "claimed" /\ Owns(t) => HeldByUs(c, KeyOf[t])

LEMMA ClaimedOwnNext == ClaimedOwn /\ ClaimedOwn'
<1>1. ClaimedOwn
  BY ClaimedIsOwn DEF ClaimedOwn
<1> QED
  BY <1>1, PTL

\* A task that runs has its executor's claim, or is parked.
LEMMA RunnerOwns ==
  ASSUME RunInv, RunPremise, NEW c \in Clusters, NEW t \in Tasks \ RerunOnLostClaim, Runs(c, t)
  PROVE  HeldByUs(c, KeyOf[t]) \/ t \in parked
BY ClaimedIsOwn DEF RunInv, RunPremise, RunOwned, Runs, Owns

\* The store refuses the create of another executor while the task runs.
LEMMA RunnerRefuses ==
  ASSUME RunInv, RunPremise, NEW c \in Clusters, NEW t \in Tasks \ RerunOnLostClaim, Runs(c, t),
         NEW d \in Clusters, op[d].pc = "acquire", ~op[d].takeover, op[d].key = KeyOf[t]
  PROVE  Refuses(KeyOf[t])
<1>1. HeldByUs(c, KeyOf[t]) /\ store[KeyOf[t]].left >= LeaseDuration - op[d].age
  BY DEF RunInv, RunRefuses
<1>2. TypeInv /\ KeyOf[t] \in Keys
  BY ConstantsAssumption DEF RunInv, JobInv, ClaimInv, LeaseInv
<1>3. store[KeyOf[t]] # Free /\ store[KeyOf[t]].left \in Int
  BY <1>1, <1>2, HeldEntry, ClaimFields DEF HeldByUs
<1>4. op[d].age \in Nat /\ op[d].age <= OpTime
  BY <1>2, OpFields
<1>5. store[KeyOf[t]].left > 0
  BY <1>1, <1>3, <1>4, Numbers, Deadlines
<1> QED
  BY <1>3, <1>5 DEF Refuses

(* A step that starts nothing: no new runner, no acquire lands, and a create *)
(* begins only on a free key for a task that is not parked.                  *)
RunQuiet ==
  /\ \A c \in Clusters, t \in Tasks \ RerunOnLostClaim : Runs(c, t)' => Runs(c, t)
  /\ \A k \in Keys : \/ store'[k] = store[k] \/ store'[k] = Free
                     \/ \E a \in Clusters : /\ HeldByUs(a, k) /\ store'[k].holder = a
                                            /\ store'[k] # Free /\ store'[k].left = LeaseDuration
  /\ parked \subseteq parked'
  /\ \A d \in Clusters : op'[d].pc = "acquire" /\ ~op'[d].takeover =>
       \/ op'[d] = op[d]
       \/ /\ store[op'[d].key] = Free /\ op'[d].task \in Tasks \ parked
          /\ op'[d].key = KeyOf[op'[d].task]

LEMMA QuietRuns ==
  ASSUME RunInv, RunPremise, JobInv', [Next]_vars, RunQuiet
  PROVE  RunOwned' /\ RunAlone' /\ RunRefuses'
<1>1. /\ TypeInv /\ TypeInv' /\ JobInv /\ JobPremise /\ StoreKeyed /\ OneTaskPerKey
      /\ \A t \in Tasks : KeyOf[t] \in Keys
  BY ConstantsAssumption DEF RunInv, JobInv, ClaimInv, LeaseInv, RunPremise
<1>2. ASSUME NEW c \in Clusters, NEW t \in Tasks \ RerunOnLostClaim, HeldByUs(c, KeyOf[t]),
             Runs(c, t)'
      PROVE  /\ HeldByUs(c, KeyOf[t])'
             /\ \/ store'[KeyOf[t]] = store[KeyOf[t]]
                \/ store'[KeyOf[t]].left = LeaseDuration
  <2>1. KeyOf[t] \in Keys /\ store[KeyOf[t]] # Free /\ store[KeyOf[t]].holder = c
    BY <1>1, <1>2 DEF HeldByUs
  <2>2. store[KeyOf[t]].task = t
    BY <1>1, <2>1, HeldEntry, ClaimFields DEF StoreKeyed, OneTaskPerKey
  <2>3. store'[KeyOf[t]] # Free
    <3>1. CASE t \in jobs'[c]
      <4>1. FreesIdle(KeyOf[t])
        BY <1>1, <2>1, <2>2, StepFrees DEF Owns
      <4> QED
        BY <2>1, <2>2, <3>1, <4>1 DEF FreesIdle
    <3>2. CASE spawn'[c][t].pc = "claimed"
      <4>1. JobPremise' /\ Owns(t)'
        BY <1>1 DEF JobPremise, Owns, Happens
      <4>2. HeldByUs(c, KeyOf[t])'
        BY <3>2, <4>1, ClaimedOwnNext DEF ClaimedOwn
      <4> QED
        BY <4>2 DEF HeldByUs
    <3> QED
      BY <1>2, <3>1, <3>2 DEF Runs
  <2> QED
    BY <2>1, <2>3 DEF RunQuiet, HeldByUs
<1>3. RunOwned'
  <2> SUFFICES ASSUME NEW c \in Clusters, NEW t \in Tasks \ RerunOnLostClaim, t \in jobs'[c]
               PROVE  HeldByUs(c, KeyOf[t])' \/ t \in parked'
    BY <1>1 DEF RunOwned, TypeInv, TypeOK
  <2>1. Runs(c, t)' /\ Runs(c, t)
    BY DEF Runs, RunQuiet
  <2> QED
    BY <1>2, <2>1, RunnerOwns DEF RunQuiet
<1>4. RunAlone'
  BY DEF RunInv, RunAlone, RunQuiet
<1>5. RunRefuses'
  <2> SUFFICES ASSUME NEW t \in Tasks \ RerunOnLostClaim, NEW c \in Clusters, NEW d \in Clusters,
                      Runs(c, t)', op'[d].pc = "acquire", ~op'[d].takeover, op'[d].key = KeyOf[t]
               PROVE  HeldByUs(c, KeyOf[t])' /\ store'[KeyOf[t]].left >= LeaseDuration - op'[d].age
    BY DEF RunRefuses
  <2>1. Runs(c, t)
    BY DEF RunQuiet
  <2>2. op'[d] = op[d]
    <3> SUFFICES ASSUME store[op'[d].key] = Free, op'[d].task \in Tasks \ parked,
                        op'[d].key = KeyOf[op'[d].task]
                 PROVE  FALSE
      BY DEF RunQuiet
    <3>1. op'[d].task = t
      BY <1>1 DEF OneTaskPerKey
    <3> QED
      BY <2>1, <3>1, RunnerOwns DEF HeldByUs
  <2>3. HeldByUs(c, KeyOf[t]) /\ store[KeyOf[t]].left >= LeaseDuration - op[d].age
    BY <2>1, <2>2 DEF RunInv, RunRefuses
  <2>4. op[d].age \in Nat
    BY <1>1, <2>2, OpFields
  <2>5. LeaseDuration >= LeaseDuration - op[d].age
    BY <2>4, Numbers
  <2> QED
    BY <1>2, <2>2, <2>3, <2>5
<1> QED
  BY <1>3, <1>4, <1>5

\* Every step but an acquire that lands and the passing of time starts nothing.
LEMMA CalmRunQuiet ==
  ASSUME RunInv, RunPremise, NEW c \in Clusters, CalmStep(c)
  PROVE  RunQuiet
<1>1. TypeInv /\ TokenInv
  BY DEF RunInv, JobInv, ClaimInv, LeaseInv
<1>2. ASSUME NEW d \in Clusters, NEW t \in Tasks, Runs(d, t)' PROVE Runs(d, t)
  <2>1. jobs'[d] \subseteq jobs[d]
    BY DEF CalmStep, QuietStep, JobsShrink
  <2>2. spawn'[d][t].pc = "claimed" => spawn[d][t].pc = "claimed"
    BY DEF CalmStep
  <2> QED
    BY <1>2, <2>1, <2>2 DEF Runs
<1>3. ASSUME NEW k \in Keys
      PROVE  \/ store'[k] = store[k] \/ store'[k] = Free
             \/ /\ HeldByUs(c, k) /\ store'[k].holder = c
                /\ store'[k] # Free /\ store'[k].left = LeaseDuration
  <2>1. StoreStep(c, k)
    BY DEF CalmStep, QuietStep, KeyStep
  <2> QED
    BY <1>1, <2>1 DEF StoreStep, TokenInv, CurrentToken, HeldByUs
<1>4. \A d \in Clusters : op'[d].pc = "acquire" => op'[d] = op[d]
  BY DEF CalmStep
<1> QED
  BY <1>2, <1>3, <1>4 DEF RunQuiet, CalmStep

LEMMA ClaimAttemptRunQuiet ==
  ASSUME RunInv, RunPremise, NEW c \in Clusters, NEW t \in Tasks,
         ClaimPair(c, t) \/ TakeoverPair(c, t)
  PROVE  RunQuiet
<1>1. /\ UNCHANGED <<store, jobs>> /\ SpawnMoves(c, t)
      /\ \A d \in Clusters \ {c} : op'[d] = op[d]
      /\ (UNCHANGED op /\ Denied(c, t)) \/ BeginsAcquire(c, t)
  BY ClaimAttemptFields DEF RunInv, JobInv, ClaimInv, LeaseInv
<1>2. spawn'[c][t].pc # "claimed" /\ parked' = parked
  BY <1>1 DEF Denied, BeginsAcquire, RunPremise, JobPremise
<1>3. \A d \in Clusters, u \in Tasks : Runs(d, u)' => Runs(d, u)
  BY <1>1, <1>2 DEF Runs, SpawnMoves
<1>4. ASSUME NEW d \in Clusters, op'[d].pc = "acquire", ~op'[d].takeover
      PROVE  \/ op'[d] = op[d]
             \/ /\ store[op'[d].key] = Free /\ op'[d].task \in Tasks \ parked
                /\ op'[d].key = KeyOf[op'[d].task]
  BY <1>1, <1>4 DEF BeginsAcquire
<1> QED
  BY <1>1, <1>2, <1>3, <1>4 DEF RunQuiet

LEMMA SpawnJobRunQuiet ==
  ASSUME RunInv, RunPremise, NEW c \in Clusters, NEW t \in Tasks, SpawnJob(c, t)
  PROVE  RunQuiet
<1>1. /\ spawn[c][t].pc = "claimed" /\ SpawnMoves(c, t) /\ spawn'[c][t].pc \in {"idle", "failed"}
      /\ UNCHANGED <<store, op, parked>> /\ jobs'[c] \subseteq jobs[c] \cup {t}
      /\ \A d \in Clusters \ {c} : jobs'[d] = jobs[d]
  BY SpawnJobFields DEF RunInv, JobInv, ClaimInv, LeaseInv
<1>2. \A d \in Clusters, u \in Tasks : Runs(d, u)' => Runs(d, u)
  BY <1>1 DEF Runs, SpawnMoves
<1> QED
  BY <1>1, <1>2 DEF RunQuiet

\* Without a lost answer a create reads back no claim of its own.
LEMMA ReadBackRunQuiet ==
  ASSUME RunInv, RunPremise, NEW c \in Clusters, ReadBackRecovery(c)
  PROVE  RunQuiet
<1> DEFINE t == op[c].task
           k == op[c].key
<1>1. /\ op[c].pc = "readBack" /\ op'[c].pc = "idle" /\ UNCHANGED <<store, jobs>>
      /\ (\A d \in Clusters \ {c} : op'[d] = op[d]) /\ SpawnMoves(c, t)
      /\ \/ HeldByUs(c, k) /\ Granted(c, t, op[c].takeover)
         \/ Denied(c, t)
  BY ReadBackFields DEF RunInv, JobInv, ClaimInv, LeaseInv
<1>2. NewKeyOf(c)
  BY DEF RunInv, JobInv, ClaimInv, ClaimOf
<1>3. parked \subseteq parked'
  BY <1>1 DEF Granted, Denied
<1>4. t \notin RerunOnLostClaim => spawn'[c][t].pc # "claimed"
  <2>1. CASE HeldByUs(c, k) /\ Granted(c, t, op[c].takeover)
    <3>1. op[c].takeover
      BY <1>1, <1>2, <2>1 DEF NewKeyOf, RunPremise
    <3> QED
      BY <2>1, <3>1 DEF Granted, RunPremise, JobPremise
  <2>2. CASE Denied(c, t)
    BY <2>2 DEF Denied, RunPremise, JobPremise
  <2> QED
    BY <1>1, <2>1, <2>2
<1>5. \A d \in Clusters, u \in Tasks \ RerunOnLostClaim : Runs(d, u)' => Runs(d, u)
  <2> HIDE DEF t
  <2> QED
    BY <1>1, <1>4 DEF Runs, SpawnMoves
<1> QED
  BY <1>1, <1>3, <1>5 DEF RunQuiet

LEMMA RestartRunQuiet ==
  ASSUME RunInv, RunPremise, NEW c \in Clusters,
         Crash(c) \/ Restart(c) \/ Recover(c) \/ RecoverGivesUp(c)
  PROVE  RunQuiet
<1>1. TypeInv
  BY DEF RunInv, JobInv, ClaimInv, LeaseInv
<1>2. CASE Crash(c)
  <2>1. /\ UNCHANGED <<store, jobs, parked>> /\ op'[c].pc = "idle"
        /\ (\A t \in Tasks : spawn'[c][t].pc = "idle")
        /\ \A d \in Clusters \ {c} : op'[d] = op[d] /\ spawn'[d] = spawn[d]
    BY <1>1, <1>2, CrashFields
  <2>2. \A d \in Clusters, t \in Tasks : Runs(d, t)' => Runs(d, t)
    BY <2>1 DEF Runs
  <2> QED
    BY <2>1, <2>2 DEF RunQuiet
<1>3. CASE Restart(c) \/ RecoverGivesUp(c)
  <2>1. UNCHANGED <<store, op, spawn, jobs, parked>>
    BY <1>3 DEF Restart, RecoverGivesUp
  <2> QED
    BY <2>1 DEF RunQuiet, Runs
<1>4. CASE Recover(c)
  <2>1. /\ UNCHANGED <<op, spawn, parked>> /\ jobs'[c] \subseteq jobs[c]
        /\ \A d \in Clusters \ {c} : jobs'[d] = jobs[d]
        /\ \A k \in Keys : store'[k] = store[k] \/ store'[k] = Free
    BY <1>1, <1>4, RecoverFields DEF RecoveredEntry
  <2>2. \A d \in Clusters, t \in Tasks : Runs(d, t)' => Runs(d, t)
    BY <2>1 DEF Runs
  <2> QED
    BY <2>1, <2>2 DEF RunQuiet
<1> QED
  BY <1>2, <1>3, <1>4

\* A create lands only when nobody runs the task; a takeover parks the task.
LEMMA LandedRuns ==
  ASSUME RunInv, RunPremise, NEW c \in Clusters, op[c].pc = "acquire",
         NEW t \in Tasks, t = op[c].task, NEW k \in Keys, k = op[c].key,
         UNCHANGED jobs, SpawnMoves(c, t), \A d \in Clusters \ {c} : op'[d] = op[d],
         Lands(c, t, k), op'[c].pc = "idle", Granted(c, t, op[c].takeover)
  PROVE  RunOwned' /\ RunAlone' /\ RunRefuses'
<1>1. /\ TypeInv /\ OneTaskPerKey /\ k = KeyOf[t] /\ t \notin jobs[c]
      /\ \A u \in Tasks : KeyOf[u] \in Keys
  BY OpFields, ConstantsAssumption
     DEF RunInv, JobInv, ClaimInv, LeaseInv, RunPremise, ClaimOf, AcquireOf, SpawnsOf
<1>2. /\ ~Refuses(k) /\ store'[k] # Free /\ store'[k].holder = c /\ store'[k].left = LeaseDuration
      /\ \A j \in Keys \ {k} : store'[j] = store[j]
  BY DEF Lands
<1>3. parked \subseteq parked' /\ (t \notin RerunOnLostClaim /\ op[c].takeover => t \in parked')
  BY DEF Granted, RunPremise, JobPremise
<1>4. t \notin RerunOnLostClaim /\ ~op[c].takeover => \A d \in Clusters : ~Runs(d, t)
  <2> SUFFICES ASSUME t \notin RerunOnLostClaim, ~op[c].takeover, NEW d \in Clusters, Runs(d, t)
               PROVE  Refuses(k)
    BY <1>2
  <2>1. t \in Tasks \ RerunOnLostClaim /\ op[c].key = KeyOf[t]
    BY <1>1
  <2>2. Refuses(KeyOf[t])
    BY <2>1, RunnerRefuses
  <2> QED
    BY <1>1, <2>2
<1>5. t \notin RerunOnLostClaim /\ spawn'[c][t].pc = "claimed" => ~op[c].takeover
  BY DEF Granted, RunPremise, JobPremise
<1>6. \A d \in Clusters, u \in Tasks :
        Runs(d, u)' => Runs(d, u) \/ (d = c /\ u = t /\ spawn'[c][t].pc = "claimed")
  BY DEF Runs, SpawnMoves
<1>7. RunOwned'
  <2> SUFFICES ASSUME NEW d \in Clusters, NEW u \in Tasks \ RerunOnLostClaim, u \in jobs[d],
                      u \notin parked'
               PROVE  HeldByUs(d, KeyOf[u])'
    BY <1>1 DEF RunOwned, TypeInv, TypeOK
  <2>1. Runs(d, u)
    BY DEF Runs
  <2>2. HeldByUs(d, KeyOf[u])
    BY <1>3, <2>1, RunnerOwns
  <2>3. KeyOf[u] # k
    BY <1>1, <1>3, <1>4, <2>1 DEF OneTaskPerKey
  <2>4. store'[KeyOf[u]] = store[KeyOf[u]]
    BY <1>1, <1>2, <2>3
  <2> QED
    BY <2>2, <2>4 DEF HeldByUs
<1>8. RunAlone'
  <2> SUFFICES ASSUME NEW u \in Tasks \ RerunOnLostClaim, NEW d \in Clusters, NEW e \in Clusters,
                      Runs(d, u)', Runs(e, u)'
               PROVE  d = e
    BY DEF RunAlone
  <2> QED
    BY <1>4, <1>5, <1>6 DEF RunInv, RunAlone
<1>9. RunRefuses'
  <2> SUFFICES ASSUME NEW u \in Tasks \ RerunOnLostClaim, NEW d \in Clusters, NEW e \in Clusters,
                      Runs(d, u)', op'[e].pc = "acquire", ~op'[e].takeover, op'[e].key = KeyOf[u]
               PROVE  HeldByUs(d, KeyOf[u])' /\ store'[KeyOf[u]].left >= LeaseDuration - op'[e].age
    BY DEF RunRefuses
  <2>1. op'[e] = op[e]
    OBVIOUS
  <2>2. CASE Runs(d, u)
    <3>1. /\ HeldByUs(d, KeyOf[u]) /\ store[KeyOf[u]].left >= LeaseDuration - op[e].age
          /\ Refuses(KeyOf[u])
      BY <2>1, <2>2, RunnerRefuses DEF RunInv, RunRefuses
    <3>2. store'[KeyOf[u]] = store[KeyOf[u]]
      BY <1>1, <1>2, <3>1
    <3> QED
      BY <2>1, <3>1, <3>2 DEF HeldByUs
  <2>3. CASE d = c /\ u = t
    <3>1. op[e].age \in Nat
      BY <1>1, <2>1, OpFields
    <3>2. LeaseDuration >= LeaseDuration - op[e].age
      BY <3>1, Numbers
    <3> QED
      BY <1>1, <1>2, <2>1, <2>3, <3>2 DEF HeldByUs
  <2> QED
    BY <1>6, <2>2, <2>3
<1> QED
  BY <1>7, <1>8, <1>9

LEMMA AcquireRuns ==
  ASSUME RunInv, RunPremise, JobInv', NEW c \in Clusters, Acquire(c), [Next]_vars
  PROVE  RunOwned' /\ RunAlone' /\ RunRefuses'
<1> SUFFICES ASSUME NEW t, t = op[c].task, NEW k, k = op[c].key
             PROVE  RunOwned' /\ RunAlone' /\ RunRefuses'
  OBVIOUS
<1>1. /\ op[c].pc = "acquire" /\ UNCHANGED jobs
      /\ (\A d \in Clusters \ {c} : op'[d] = op[d]) /\ SpawnMoves(c, t)
      /\ \/ UNCHANGED store /\ op'[c].pc = "idle" /\ Denied(c, t)
         \/ Lands(c, t, k) /\ op'[c].pc = "idle" /\ Granted(c, t, op[c].takeover)
         \/ Happens("acquireLost")
         \/ op'[c].pc = "readBack" /\ UNCHANGED <<store, spawn, parked>>
  BY AcquireFields DEF RunInv, JobInv, ClaimInv, LeaseInv, OpReadsBack
<1>2. t \in Tasks /\ k \in Keys /\ spawn[c][t].pc = "claiming"
  BY <1>1, OpFields DEF RunInv, JobInv, ClaimInv, LeaseInv, ClaimOf, AcquireOf
<1>3. CASE Lands(c, t, k) /\ op'[c].pc = "idle" /\ Granted(c, t, op[c].takeover)
  BY <1>1, <1>2, <1>3, LandedRuns
<1>4. CASE \/ UNCHANGED store /\ op'[c].pc = "idle" /\ Denied(c, t)
           \/ op'[c].pc = "readBack" /\ UNCHANGED <<store, spawn, parked>>
  <2>1. spawn'[c][t].pc # "claimed" /\ parked' = parked
    BY <1>2, <1>4 DEF Denied, RunPremise, JobPremise
  <2>2. \A d \in Clusters, u \in Tasks : Runs(d, u)' => Runs(d, u)
    BY <1>1, <2>1 DEF Runs, SpawnMoves
  <2>3. RunQuiet
    BY <1>1, <1>4, <2>1, <2>2 DEF RunQuiet
  <2> QED
    BY <2>3, QuietRuns
<1> QED
  BY <1>1, <1>3, <1>4 DEF RunPremise

LEMMA ElapseRuns ==
  ASSUME RunInv, RunPremise, Elapse
  PROVE  RunOwned' /\ RunAlone' /\ RunRefuses'
<1>1. TypeInv /\ \A t \in Tasks : KeyOf[t] \in Keys
  BY ConstantsAssumption DEF RunInv, JobInv, ClaimInv, LeaseInv
<1>2. UNCHANGED <<jobs, parked>> /\ \A c \in Clusters, t \in Tasks : Runs(c, t)' <=> Runs(c, t)
  <2>1. ASSUME NEW c \in Clusters
        PROVE  UNCHANGED <<jobs, parked>> /\ \A t \in Tasks : spawn'[c][t].pc = spawn[c][t].pc
    BY <1>1, ElapseRest
  <2>2. UNCHANGED <<jobs, parked>>
    BY DEF Elapse
  <2> QED
    BY <2>1, <2>2 DEF Runs
<1>3. \A c \in Clusters, k \in Keys : HeldByUs(c, k) => HeldByUs(c, k)'
  BY <1>1, ElapseStore DEF HeldByUs
<1>4. RunOwned'
  BY <1>1, <1>2, <1>3 DEF RunInv, RunOwned, TypeInv, TypeOK
<1>5. RunAlone'
  BY <1>2 DEF RunInv, RunAlone
<1>6. RunRefuses'
  <2> SUFFICES ASSUME NEW t \in Tasks \ RerunOnLostClaim, NEW c \in Clusters, NEW d \in Clusters,
                      Runs(c, t)', op'[d].pc = "acquire", ~op'[d].takeover, op'[d].key = KeyOf[t]
               PROVE  HeldByUs(c, KeyOf[t])' /\ store'[KeyOf[t]].left >= LeaseDuration - op'[d].age
    BY DEF RunRefuses
  <2>1. /\ op[d].pc = "acquire" /\ ~op[d].takeover /\ op[d].key = KeyOf[t] /\ Runs(c, t)
        /\ op'[d].age = op[d].age + 1
    BY <1>1, <1>2, ElapseRest
  <2>2. HeldByUs(c, KeyOf[t]) /\ store[KeyOf[t]].left >= LeaseDuration - op[d].age
    BY <2>1 DEF RunInv, RunRefuses
  <2>3. store[KeyOf[t]] # Free /\ store[KeyOf[t]].left \in Int /\ op[d].age \in Nat
    BY <1>1, <2>1, <2>2, HeldEntry, ClaimFields, OpFields DEF HeldByUs
  <2>4. store'[KeyOf[t]].left = Nearer(store[KeyOf[t]].left)
    BY <1>1, <2>3, ElapseStore
  <2>5. /\ Nearer(store[KeyOf[t]].left) \in Int
        /\ Nearer(store[KeyOf[t]].left) >= store[KeyOf[t]].left - 1
    BY <2>3, NearerFields
  <2>6. store'[KeyOf[t]].left >= LeaseDuration - op'[d].age
    BY <2>1, <2>2, <2>3, <2>4, <2>5, Numbers
  <2> QED
    BY <1>1, <1>3, <2>2, <2>6
<1> QED
  BY <1>4, <1>5, <1>6

LEMMA RunNext == RunInv /\ [Next]_vars => RunInv'
<1> SUFFICES ASSUME RunInv, [Next]_vars PROVE RunInv'
  OBVIOUS
<1>1. JobInv' /\ ClaimInv
  BY JobNext DEF RunInv, JobInv
<1> SUFFICES ASSUME RunPremise PROVE RunOwned' /\ RunAlone' /\ RunRefuses'
  BY <1>1 DEF RunInv, RunPremise, JobPremise, OneTaskPerKey, Happens
<1>2. CASE UNCHANGED vars
  <2>1. RunQuiet
    BY <1>2 DEF vars, RunQuiet, Runs
  <2> QED
    BY <1>1, <2>1, QuietRuns
<1>3. CASE Elapse
  BY <1>3, ElapseRuns
<1>4. ASSUME NEW c \in Clusters,
             \/ CalmStep(c)
             \/ \E t \in Tasks : ClaimPair(c, t) \/ TakeoverPair(c, t) \/ SpawnJob(c, t)
             \/ ReadBackRecovery(c)
             \/ Crash(c) \/ Restart(c) \/ Recover(c) \/ RecoverGivesUp(c)
      PROVE  RunOwned' /\ RunAlone' /\ RunRefuses'
  <2>1. RunQuiet
    BY <1>4, CalmRunQuiet, ClaimAttemptRunQuiet, SpawnJobRunQuiet, ReadBackRunQuiet,
       RestartRunQuiet
  <2> QED
    BY <1>1, <2>1, QuietRuns
<1>5. ASSUME NEW c \in Clusters, Acquire(c) PROVE RunOwned' /\ RunAlone' /\ RunRefuses'
  BY <1>1, <1>5, AcquireRuns
<1> QED
  BY <1>1, <1>2, <1>3, <1>4, <1>5, CalmCases

LEMMA RunInit == Init => RunInv
<1> SUFFICES ASSUME Init PROVE RunInv
  OBVIOUS
<1>1. JobInv
  BY JobInit
<1>2. \A c \in Clusters : /\ jobs[c] = {} /\ op[c].pc = "idle"
                          /\ \A t \in Tasks : spawn[c][t].pc = "idle"
  BY DEF Init, NoSpawn, Idle
<1> QED
  BY <1>1, <1>2 DEF RunInv, RunOwned, RunAlone, RunRefuses, Runs

\* "Exactly one executor may run a task at a time", whatever crashes: no two executors have
\* a Job of a task that is parked after a lost claim, although the old Job may outlive its
\* executor, its lease and every attempt to delete it.
THEOREM RunsOnce == Spec => [](RunPremise => NoDoubleRun)
<1>1. RunInv /\ [Next]_vars => RunInv'
  BY RunNext
<1>2. RunInv => (RunPremise => NoDoubleRun)
  BY DEF RunInv, RunAlone, Runs, NoDoubleRun
<1> QED
  BY RunInit, <1>1, <1>2, PTL DEF Spec

-----------------------------------------------------------------------------
(* The promise to those that only see tasks and Jobs.                       *)

(* A create was begun on a free key: what it finds there since is young.    *)
CreateInv ==
  \A c \in Clusters :
    op[c].pc = "acquire" /\ ~op[c].takeover /\ store[op[c].key] # Free
      => store[op[c].key].left >= LeaseDuration - op[c].age

PromiseInv == RunInv /\ (RunPremise => CreateInv)

\* A create that another one has outrun is not older than its method.
LEMMA YoungAtCreate ==
  ASSUME TypeInv, NEW c \in Clusters, op[c].pc = "acquire"
  PROVE  op[c].key \in Keys /\ op[c].age \in Nat /\ LeaseDuration >= LeaseDuration - op[c].age
<1>1. op[c].key \in Keys /\ op[c].age \in Nat
  BY OpFields
<1> QED
  BY <1>1, Numbers

CreatesYoung ==
  TypeInv => \A c \in Clusters : op[c].pc = "acquire" =>
    op[c].key \in Keys /\ op[c].age \in Nat /\ LeaseDuration >= LeaseDuration - op[c].age

LEMMA CreatesYoungNext == CreatesYoung'
<1>1. CreatesYoung
  BY YoungAtCreate DEF CreatesYoung
<1> QED
  BY <1>1, PTL

\* A step that starts nothing frees or renews what a create would find.
LEMMA QuietCreates ==
  ASSUME CreateInv, TypeInv', RunQuiet
  PROVE  CreateInv'
<1> SUFFICES ASSUME NEW d \in Clusters, op'[d].pc = "acquire", ~op'[d].takeover,
                    NEW k, k = op'[d].key, store'[k] # Free
             PROVE  store'[k].left >= LeaseDuration - op'[d].age
  BY DEF CreateInv
<1>1. k \in Keys /\ LeaseDuration >= LeaseDuration - op'[d].age
  BY CreatesYoungNext DEF CreatesYoung
<1>2. store'[k] = store[k] \/ store'[k].left = LeaseDuration
  BY <1>1 DEF RunQuiet
<1>3. CASE store'[k] = store[k]
  <2>1. op'[d] = op[d]
    BY <1>3 DEF RunQuiet
  <2> QED
    BY <1>3, <2>1 DEF CreateInv
<1> QED
  BY <1>1, <1>2, <1>3

\* A lease and a create grow old together.
LEMMA ElapseCreates ==
  ASSUME CreateInv, TypeInv, Elapse
  PROVE  CreateInv'
<1> SUFFICES ASSUME NEW d \in Clusters, op'[d].pc = "acquire", ~op'[d].takeover,
                    NEW k, k = op'[d].key, store'[k] # Free
             PROVE  store'[k].left >= LeaseDuration - op'[d].age
  BY DEF CreateInv
<1>1. /\ op[d].pc = "acquire" /\ ~op[d].takeover /\ op[d].key = k
      /\ op'[d].age = op[d].age + 1
  BY ElapseRest
<1>2. k \in Keys /\ op[d].age \in Nat
  BY <1>1, OpFields
<1>3. store[k] # Free /\ store'[k].left = Nearer(store[k].left)
  BY <1>2, ElapseStore
<1>4. store[k].left \in Int /\ store[k].left >= LeaseDuration - op[d].age
  BY <1>1, <1>2, <1>3, HeldEntry, ClaimFields DEF CreateInv
<1>5. /\ Nearer(store[k].left) \in Int
      /\ Nearer(store[k].left) >= store[k].left - 1
  BY <1>4, NearerFields
<1> QED
  BY <1>1, <1>2, <1>3, <1>4, <1>5, Numbers

\* An acquire that lands leaves a claim as young as can be.
LEMMA LandedCreates ==
  ASSUME CreateInv, TypeInv', NEW c \in Clusters, op'[c].pc # "acquire",
         \A d \in Clusters \ {c} : op'[d] = op[d], NEW t, NEW k \in Keys, Lands(c, t, k)
  PROVE  CreateInv'
<1> SUFFICES ASSUME NEW d \in Clusters, op'[d].pc = "acquire", ~op'[d].takeover,
                    store'[op'[d].key] # Free
             PROVE  store'[op'[d].key].left >= LeaseDuration - op'[d].age
  BY DEF CreateInv
<1>1. op'[d] = op[d] /\ op[d].key \in Keys /\ LeaseDuration >= LeaseDuration - op[d].age
  BY CreatesYoungNext DEF CreatesYoung
<1>2. CASE op[d].key = k
  BY <1>1, <1>2 DEF Lands
<1>3. CASE op[d].key # k
  BY <1>1, <1>3 DEF Lands, CreateInv
<1> QED
  BY <1>2, <1>3

(* An acquire that lands and is answered.                                   *)
Landed(c) ==
  /\ op[c].pc = "acquire" /\ op'[c].pc = "idle" /\ UNCHANGED jobs
  /\ \A d \in Clusters \ {c} : op'[d] = op[d]
  /\ Lands(c, op[c].task, op[c].key) /\ Granted(c, op[c].task, op[c].takeover)

(* Nothing about the task but the end of a run or of a claim.               *)
TaskQuiet(t) ==
  /\ \A c \in Clusters : t \in jobs'[c] => t \in jobs[c]
  /\ \/ store'[KeyOf[t]] = Free
     \/ /\ store[KeyOf[t]] # Free /\ store'[KeyOf[t]] # Free
        /\ store'[KeyOf[t]].holder = store[KeyOf[t]].holder
  /\ t \in parked' <=> t \in parked

\* An acquire lands, or it changes no claim and starts nothing.
LEMMA AcquireCases ==
  ASSUME RunInv, RunPremise, NEW c \in Clusters, Acquire(c)
  PROVE  \/ Landed(c)
         \/ RunQuiet /\ UNCHANGED <<store, jobs, parked>>
<1> SUFFICES ASSUME NEW t, t = op[c].task, NEW k, k = op[c].key
             PROVE  \/ Landed(c)
                    \/ RunQuiet /\ UNCHANGED <<store, jobs, parked>>
  OBVIOUS
<1>1. /\ op[c].pc = "acquire" /\ UNCHANGED jobs
      /\ (\A d \in Clusters \ {c} : op'[d] = op[d]) /\ SpawnMoves(c, t)
      /\ \/ UNCHANGED store /\ op'[c].pc = "idle" /\ Denied(c, t)
         \/ Lands(c, t, k) /\ op'[c].pc = "idle" /\ Granted(c, t, op[c].takeover)
         \/ Happens("acquireLost")
         \/ op'[c].pc = "readBack" /\ UNCHANGED <<store, spawn, parked>>
  BY AcquireFields DEF RunInv, JobInv, ClaimInv, LeaseInv, OpReadsBack
<1>2. t \in Tasks /\ spawn[c][t].pc = "claiming"
  BY <1>1, OpFields DEF RunInv, JobInv, ClaimInv, LeaseInv, ClaimOf, AcquireOf
<1>3. CASE Lands(c, t, k) /\ op'[c].pc = "idle" /\ Granted(c, t, op[c].takeover)
  BY <1>1, <1>3 DEF Landed
<1>4. CASE \/ UNCHANGED store /\ op'[c].pc = "idle" /\ Denied(c, t)
           \/ op'[c].pc = "readBack" /\ UNCHANGED <<store, spawn, parked>>
  <2>1. spawn'[c][t].pc # "claimed" /\ parked' = parked /\ UNCHANGED store
    BY <1>2, <1>4 DEF Denied, RunPremise, JobPremise
  <2>2. \A d \in Clusters, u \in Tasks : Runs(d, u)' => Runs(d, u)
    BY <1>1, <2>1 DEF Runs, SpawnMoves
  <2>3. RunQuiet
    BY <1>1, <1>4, <2>1, <2>2 DEF RunQuiet
  <2> QED
    BY <1>1, <2>1, <2>3
<1> QED
  BY <1>1, <1>3, <1>4 DEF RunPremise

LEMMA PromiseNext == PromiseInv /\ [Next]_vars => PromiseInv'
<1> SUFFICES ASSUME PromiseInv, [Next]_vars PROVE PromiseInv'
  OBVIOUS
<1>1. RunInv /\ RunInv' /\ ClaimInv /\ TypeInv /\ TypeInv'
  BY RunNext DEF PromiseInv, RunInv, JobInv, ClaimInv, LeaseInv
<1> SUFFICES ASSUME RunPremise, CreateInv PROVE CreateInv'
  BY <1>1 DEF PromiseInv, RunPremise, JobPremise, OneTaskPerKey, Happens
<1>2. CASE UNCHANGED vars
  BY <1>2 DEF vars, CreateInv
<1>3. CASE Elapse
  BY <1>1, <1>3, ElapseCreates
<1>4. ASSUME NEW c \in Clusters,
             \/ CalmStep(c)
             \/ \E t \in Tasks : ClaimPair(c, t) \/ TakeoverPair(c, t) \/ SpawnJob(c, t)
             \/ ReadBackRecovery(c)
             \/ Crash(c) \/ Restart(c) \/ Recover(c) \/ RecoverGivesUp(c)
      PROVE  CreateInv'
  <2>1. RunQuiet
    BY <1>1, <1>4, CalmRunQuiet, ClaimAttemptRunQuiet, SpawnJobRunQuiet, ReadBackRunQuiet,
       RestartRunQuiet
  <2> QED
    BY <1>1, <2>1, QuietCreates
<1>5. ASSUME NEW c \in Clusters, Acquire(c) PROVE CreateInv'
  <2>1. CASE RunQuiet
    BY <1>1, <2>1, QuietCreates
  <2>2. CASE Landed(c)
    <3>1. op[c].key \in Keys
      BY <1>1, <2>2, OpFields DEF Landed
    <3> QED
      BY <1>1, <2>2, <3>1, LandedCreates DEF Landed
  <2> QED
    BY <1>1, <1>5, <2>1, <2>2, AcquireCases
<1> QED
  BY <1>1, <1>2, <1>3, <1>4, <1>5, CalmCases

LEMMA PromiseInvariant == Spec => []PromiseInv
<1>1. Init => PromiseInv
  <2> SUFFICES ASSUME Init PROVE PromiseInv
    OBVIOUS
  <2>1. \A c \in Clusters : op[c].pc = "idle"
    BY DEF Init, Idle
  <2> QED
    BY <2>1, RunInit DEF PromiseInv, CreateInv
<1>2. PromiseInv /\ [Next]_vars => PromiseInv'
  BY PromiseNext
<1> QED
  BY <1>1, <1>2, PTL DEF Spec

-----------------------------------------------------------------------------
(* Steps of the claims as steps of the promise.                             *)

Ours == Tasks \ RerunOnLostClaim
OwnerOf(t) == IF store[KeyOf[t]] = Free THEN Free ELSE store[KeyOf[t]].holder
RunsOf(t) == {c \in Clusters : t \in jobs[c]}

\* A step without a new run or owner ends runs and claims, and no claim of a run.
LEMMA QuietIsEnd ==
  ASSUME RunInv, RunPremise, [Next]_vars, NEW t \in Ours, TaskQuiet(t)
  PROVE  Promise!End(t)
<1> DEFINE k == KeyOf[t]
<1>1. /\ t \in Tasks /\ t \notin RerunOnLostClaim /\ k \in Keys
      /\ TypeInv /\ JobInv /\ JobPremise /\ OneTaskPerKey /\ StoreKeyed
  BY ConstantsAssumption DEF Ours, RunInv, RunPremise, JobInv, ClaimInv, LeaseInv
<1>2. RunsOf(t)' \in {RunsOf(t), {}}
  <2>1. \A c, d \in Clusters : t \in jobs[c] /\ t \in jobs[d] => c = d
    BY <1>1 DEF RunInv, RunAlone, Runs
  <2>2. ASSUME NEW c \in Clusters, t \in jobs'[c] PROVE RunsOf(t)' = RunsOf(t)
    BY <2>1, <2>2 DEF TaskQuiet, RunsOf
  <2> QED
    BY <2>2 DEF RunsOf
<1>3. OwnerOf(t)' = OwnerOf(t) \/ (OwnerOf(t)' = Free /\ OwnerOf(t) \notin RunsOf(t)')
  <2>1. CASE store[k] # Free /\ store'[k] = Free
    <3>0. store[k].task \in Tasks
      BY <1>1, <2>1, ClaimFields DEF TypeInv, TypeOK
    <3>1. store[k].task = t
      BY <1>1, <2>1, <3>0 DEF StoreKeyed, OneTaskPerKey
    <3>2. FreesIdle(k)
      BY <1>1, <3>1, StepFrees DEF Owns
    <3>3. t \notin jobs'[store[k].holder]
      BY <2>1, <3>1, <3>2 DEF FreesIdle
    <3>4. OwnerOf(t) = store[k].holder /\ OwnerOf(t)' = Free
      BY <2>1 DEF OwnerOf
    <3> QED
      BY <3>3, <3>4 DEF RunsOf
  <2>2. CASE store[k] = Free \/ store'[k] # Free
    BY <2>2 DEF TaskQuiet, OwnerOf
  <2> QED
    BY <2>1, <2>2
<1> QED
  BY <1>1, <1>2, <1>3
     DEF Promise!End, Promise!ParkedAsBefore, Ours, OwnerOf, RunsOf, TaskQuiet

\* A Job is created by the owner of its task, while nobody runs it.
LEMMA SpawnIsBegin ==
  ASSUME RunInv, RunPremise, [Next]_vars, NEW t \in Ours,
         NEW c \in Clusters, NEW u \in Tasks, SpawnJob(c, u)
  PROVE  Promise!Begin(t) \/ Promise!End(t)
<1>1. /\ t \in Tasks /\ t \notin RerunOnLostClaim /\ TypeInv /\ JobInv /\ JobPremise
      /\ KeyOf[t] \in Keys
  BY ConstantsAssumption DEF Ours, RunInv, RunPremise, JobInv, ClaimInv, LeaseInv
<1>2. /\ spawn[c][u].pc = "claimed" /\ UNCHANGED <<store, parked>>
      /\ jobs'[c] \subseteq jobs[c] \cup {u} /\ jobs[c] \subseteq jobs'[c]
      /\ \A d \in Clusters \ {c} : jobs'[d] = jobs[d]
  BY <1>1, SpawnJobFields
<1>3. CASE \A d \in Clusters : t \in jobs'[d] => t \in jobs[d]
  BY <1>2, <1>3, QuietIsEnd DEF TaskQuiet
<1>4. CASE ~\A d \in Clusters : t \in jobs'[d] => t \in jobs[d]
  <2>1. t = u /\ t \in jobs'[c] /\ t \notin jobs[c]
    BY <1>2, <1>4
  <2>2. RunsOf(t) = {} /\ RunsOf(t)' = {c}
    BY <1>1, <1>2, <2>1 DEF RunInv, RunAlone, Runs, RunsOf
  <2>3. HeldByUs(c, KeyOf[t])
    BY <1>1, <1>2, <2>1, ClaimedIsOwn DEF Owns
  <2>4. OwnerOf(t) = c /\ OwnerOf(t)' = c /\ c # Free
    BY <1>2, <2>3, NullAssumption DEF HeldByUs, OwnerOf
  <2> QED
    BY <1>1, <1>2, <2>2, <2>4
       DEF Promise!Begin, Promise!ParkedAsBefore, Ours, OwnerOf, RunsOf
<1> QED
  BY <1>3, <1>4

\* A claim that is granted for the task makes its executor the owner, and the task is
\* parked unless it had none.
LEMMA GrantIsTake ==
  ASSUME NEW t \in Ours, NEW c \in Clusters, UNCHANGED jobs,
         store'[KeyOf[t]] # Free, store'[KeyOf[t]].holder = c,
         store[KeyOf[t]] = Free \/ t \in parked', parked \subseteq parked'
  PROVE  Promise!Take(t)
BY DEF Promise!Take, Ours

\* A create that lands finds the key free; a takeover parks the task.
LEMMA LandedIsTake ==
  ASSUME PromiseInv, RunPremise, [Next]_vars, NEW t \in Ours, NEW c \in Clusters, Landed(c)
  PROVE  Promise!Take(t) \/ Promise!End(t)
<1> SUFFICES ASSUME NEW u, u = op[c].task, NEW k, k = op[c].key
             PROVE  Promise!Take(t) \/ Promise!End(t)
  OBVIOUS
<1>1. /\ t \in Tasks /\ t \notin RerunOnLostClaim /\ TypeInv /\ RunInv /\ CreateInv
      /\ OneTaskPerKey /\ KeyOf[t] \in Keys
  BY ConstantsAssumption DEF Ours, PromiseInv, RunInv, RunPremise, JobInv, ClaimInv, LeaseInv
<1>2. op[c].pc = "acquire" /\ UNCHANGED jobs /\ Lands(c, u, k) /\ Granted(c, u, op[c].takeover)
  BY DEF Landed
<1>3. u \in Tasks /\ k = KeyOf[u] /\ k \in Keys /\ op[c].age \in Nat /\ op[c].age <= OpTime
  BY <1>1, <1>2, OpFields
<1>4. CASE t = u
  <2>1. parked \subseteq parked' /\ (op[c].takeover => t \in parked')
    BY <1>1, <1>2, <1>4 DEF Granted, RunPremise, JobPremise
  <2>2. ~op[c].takeover => store[k] = Free
    <3> SUFFICES ASSUME ~op[c].takeover, store[k] # Free PROVE FALSE
      OBVIOUS
    <3>1. store[k].left >= LeaseDuration - op[c].age /\ store[k].left \in Int
      BY <1>1, <1>2, <1>3, HeldEntry, ClaimFields DEF CreateInv
    <3>2. store[k].left > 0
      BY <1>3, <3>1, Numbers, Deadlines
    <3> QED
      BY <1>2, <3>2 DEF Lands, Refuses
  <2> QED
    BY <1>2, <1>3, <1>4, <2>1, <2>2, GrantIsTake DEF Lands
<1>5. CASE t # u
  <2>1. KeyOf[t] # k
    BY <1>1, <1>3, <1>5 DEF OneTaskPerKey
  <2>2. store'[KeyOf[t]] = store[KeyOf[t]]
    BY <1>1, <1>2, <2>1 DEF Lands
  <2>3. t \in parked' <=> t \in parked
    BY <1>2, <1>5 DEF Granted
  <2> QED
    BY <1>1, <1>2, <2>2, <2>3, QuietIsEnd DEF TaskQuiet
<1> QED
  BY <1>4, <1>5

\* A claim that is read back was its executor's already; the task may be parked for it.
LEMMA ReadBackIsTake ==
  ASSUME RunInv, RunPremise, [Next]_vars, NEW t \in Ours, NEW c \in Clusters,
         ReadBackRecovery(c)
  PROVE  Promise!Take(t) \/ Promise!End(t)
<1> SUFFICES ASSUME NEW u, u = op[c].task, NEW k, k = op[c].key
             PROVE  Promise!Take(t) \/ Promise!End(t)
  OBVIOUS
<1>1. TypeInv /\ KeyOf[t] \in Keys
  BY ConstantsAssumption DEF Ours, RunInv, JobInv, ClaimInv, LeaseInv
<1>2. /\ op[c].pc = "readBack" /\ UNCHANGED <<store, jobs>>
      /\ (HeldByUs(c, k) /\ Granted(c, u, op[c].takeover)) \/ Denied(c, u)
  BY <1>1, ReadBackFields
<1>3. u \in Tasks /\ k = KeyOf[u]
  BY <1>1, <1>2, OpFields
<1>4. CASE t \in parked' <=> t \in parked
  BY <1>2, <1>4, QuietIsEnd DEF TaskQuiet
<1>5. CASE ~(t \in parked' <=> t \in parked)
  <2>1. HeldByUs(c, k) /\ t = u /\ t \in parked' /\ parked \subseteq parked'
    BY <1>2, <1>5 DEF Granted, Denied
  <2> QED
    BY <1>2, <1>3, <2>1, GrantIsTake DEF HeldByUs
<1> QED
  BY <1>4, <1>5

\* Every other step starts nothing and takes nothing.
LEMMA RestIsQuiet ==
  ASSUME RunInv, NEW t \in Ours, NEW c \in Clusters,
         \/ CalmStep(c)
         \/ \E u \in Tasks : ClaimPair(c, u) \/ TakeoverPair(c, u)
         \/ Crash(c) \/ Restart(c) \/ Recover(c) \/ RecoverGivesUp(c),
         RunPremise
  PROVE  TaskQuiet(t)
<1>1. TypeInv /\ TokenInv /\ t \in Tasks /\ KeyOf[t] \in Keys
  BY ConstantsAssumption DEF Ours, RunInv, JobInv, ClaimInv, LeaseInv
<1>2. CASE CalmStep(c)
  <2>1. /\ StoreStep(c, KeyOf[t]) /\ JobsShrink(c) /\ UNCHANGED parked
    BY <1>1, <1>2 DEF CalmStep, QuietStep, KeyStep
  <2>2. \A d \in Clusters : jobs'[d] \subseteq jobs[d]
    BY <2>1 DEF JobsShrink
  <2> QED
    BY <1>1, <2>1, <2>2 DEF TaskQuiet, StoreStep, TokenInv, CurrentToken
<1>3. ASSUME NEW u \in Tasks, ClaimPair(c, u) \/ TakeoverPair(c, u) PROVE TaskQuiet(t)
  <2>1. UNCHANGED <<store, jobs, parked>>
    BY <1>1, <1>3, ClaimAttemptFields DEF Denied, BeginsAcquire
  <2> QED
    BY <2>1 DEF TaskQuiet
<1>4. CASE Crash(c) \/ Restart(c) \/ RecoverGivesUp(c)
  <2>1. UNCHANGED <<store, jobs, parked>>
    BY <1>1, <1>4, CrashFields DEF Restart, RecoverGivesUp
  <2> QED
    BY <2>1 DEF TaskQuiet
<1>5. CASE Recover(c)
  <2>1. /\ UNCHANGED parked /\ jobs'[c] \subseteq jobs[c]
        /\ \A d \in Clusters \ {c} : jobs'[d] = jobs[d]
        /\ store'[KeyOf[t]] = store[KeyOf[t]] \/ store'[KeyOf[t]] = Free
    BY <1>1, <1>5, RecoverFields DEF RecoveredEntry
  <2> QED
    BY <2>1 DEF TaskQuiet
<1> QED
  BY <1>2, <1>3, <1>4, <1>5

LEMMA PromiseStep ==
  ASSUME PromiseInv, RunPremise, [Next]_vars, NEW t \in Ours
  PROVE  Promise!Begin(t) \/ Promise!End(t) \/ Promise!Take(t)
<1>1. RunInv /\ ClaimInv /\ TypeInv /\ KeyOf[t] \in Keys
  BY ConstantsAssumption DEF Ours, PromiseInv, RunInv, JobInv, ClaimInv, LeaseInv
<1>2. CASE UNCHANGED vars
  BY <1>1, <1>2, QuietIsEnd DEF vars, TaskQuiet
<1>3. CASE Elapse
  <2>1. UNCHANGED <<jobs, parked>>
    BY <1>3 DEF Elapse
  <2>2. TaskQuiet(t)
    BY <1>1, <1>3, <2>1, ElapseStore DEF TaskQuiet
  <2> QED
    BY <1>1, <2>2, QuietIsEnd
<1>4. ASSUME NEW c \in Clusters,
             \/ CalmStep(c)
             \/ \E u \in Tasks : ClaimPair(c, u) \/ TakeoverPair(c, u)
             \/ Crash(c) \/ Restart(c) \/ Recover(c) \/ RecoverGivesUp(c)
      PROVE  Promise!End(t)
  BY <1>1, <1>4, RestIsQuiet, QuietIsEnd
<1>5. ASSUME NEW c \in Clusters, NEW u \in Tasks, SpawnJob(c, u)
      PROVE  Promise!Begin(t) \/ Promise!End(t)
  BY <1>1, <1>5, SpawnIsBegin
<1>6. ASSUME NEW c \in Clusters, ReadBackRecovery(c) PROVE Promise!Take(t) \/ Promise!End(t)
  BY <1>1, <1>6, ReadBackIsTake
<1>7. ASSUME NEW c \in Clusters, Acquire(c) PROVE Promise!Take(t) \/ Promise!End(t)
  <2>1. CASE Landed(c)
    BY <2>1, LandedIsTake
  <2>2. CASE UNCHANGED <<store, jobs, parked>>
    BY <1>1, <2>2, QuietIsEnd DEF TaskQuiet
  <2> QED
    BY <1>1, <1>7, <2>1, <2>2, AcquireCases
<1> QED
  BY <1>1, <1>2, <1>3, <1>4, <1>5, <1>6, <1>7, CalmCases

\* The claims, with their leases, requests, fences, crashes and recoveries, implement
\* TaskRuns: the run of a task is begun by its owner while nobody else runs it, no owner
\* gives up a task it runs, and who takes a task from its owner parks it.
THEOREM ClaimsKeepPromise == ASSUME RunPremise PROVE Spec => ImplementsTaskRuns
<1>1. Init => Promise!Init
  BY ConstantsAssumption DEF Init, Promise!Init
<1>2. PromiseInv /\ [Next]_vars => [Promise!Next]_(Promise!vars)
  BY PromiseStep DEF Promise!Next, Ours
<1> QED
  BY <1>1, <1>2, PromiseInvariant, PTL DEF Spec, ImplementsTaskRuns, Promise!Spec


-----------------------------------------------------------------------------
(* A claim whose requests succeed never reaches its fence. *)

(* The requests about claims are answered, no Job resists its deletion and no *)
(* process dies; Job lookups, reads and the writes of the spawn path may      *)
(* fail.  A lease outlives the renew interval by two methods and a loop gap   *)
(* (the code's values: 300 - 60 - 70 seconds).                                *)
HealthPremise ==
  /\ RecoverFirst
  /\ Faults \cap {"acquireFails", "acquireLost", "renewFails", "renewLost", "releaseFails",
                  "releaseLost", "deleteFails", "crash"} = {}
  /\ FenceLead >= 1
  /\ FenceMargin + FenceLead <= LeaseDuration - RenewInterval - (OpTime + OpTime + TickGap)

(* No release, fence or lost lease has touched the entry. *)
Intact(h) == h.pendingDeletion = "no" /\ ~h.releasePending /\ ~h.needsRunningCheck

(* The tick will still come to the key. *)
Ahead(o, k) == o.pc \in {"fence", "releases", "holds", "jobless", "recheck"} \/ k \in o.todo

(* How late the renew of a key may be: the loop comes by within TickGap of    *)
(* its last fence evaluation, waits for a method that holds the mutex, and    *)
(* a tick that has passed the key by has done so since the key became due.    *)
Slack(o, age, k) ==
  IF o.pc \notin TickPhases THEN OpTime + age
  ELSE IF Ahead(o, k) THEN OpTime + TickGap + o.age ELSE o.age

(* A lease has lost no more than its renew is old, or than its renew is late. *)
Fresh(h, slack) ==
  /\ Intact(h)
  /\ h.left >= LeaseDuration - (IF h.renewAge < RenewInterval THEN h.renewAge
                                ELSE RenewInterval + slack)

FreshOf(c) ==
  /\ op[c].pc \notin {"readBack", "fenceBeforeRead", "renewReadBack"}
  /\ \A k \in Keys : Holds(c, k) => Fresh(held[c][k], Slack(op[c], fenceAge[c], k))

(* Without crashes the store has no claim of a process that has not recovered. *)
NoOldClaims == \A c \in Clusters \ recovered : \A k \in Keys : ~HeldByUs(c, k)

HealthInv ==
  ExclusionInv /\ (HealthPremise => NoOldClaims /\ \A c \in Clusters : FreshOf(c))

LEMMA HealthyFaults ==
  ASSUME HealthPremise
  PROVE  \A f \in {"acquireFails", "acquireLost", "renewFails", "renewLost", "releaseFails",
                   "releaseLost", "deleteFails", "crash"} :
           ~Happens(f) /\ \A S : May(f, S) = {{}}
BY DEF HealthPremise, Happens, May

LEMMA MethodFields ==
  ASSUME NEW o \in Op
  PROVE  o.age \in Nat /\ o.age <= OpTime /\ o.todo \subseteq Keys
<1>1. o.age \in 0 .. OpTime /\ o.todo \subseteq Keys
  BY DEF Op
<1> QED
  BY <1>1, Numbers

LEMMA SlackType ==
  ASSUME NEW o \in Op, NEW age \in 0 .. TickGap, NEW k \in Keys
  PROVE  Slack(o, age, k) \in Nat /\ Slack(o, age, k) <= OpTime + OpTime + TickGap
<1>1. o.age \in Nat /\ o.age <= OpTime /\ age \in Nat /\ age <= TickGap
  BY MethodFields, Numbers
<1> QED
  BY <1>1, Numbers DEF Slack

\* A fresh lease is not due for its fence, nor is any request cut off by it.
LEMMA FreshNotDue ==
  ASSUME HealthPremise, NEW h \in HeldClaim, NEW slack \in Nat, slack <= OpTime + OpTime + TickGap,
         Fresh(h, slack)
  PROVE  h.left >= FenceMargin + FenceLead /\ ~FenceDue(h.left) /\ ~PastFence(h)
<1>1. h.left \in Int /\ h.renewAge \in Nat
  BY EntryFields
<1>2. h.left >= LeaseDuration - RenewInterval - (OpTime + OpTime + TickGap)
  BY <1>1, Numbers DEF Fresh
<1>3. h.left >= FenceMargin + FenceLead /\ FenceLead >= 1
  BY <1>1, <1>2, Numbers DEF HealthPremise
<1> QED
  BY <1>1, <1>3, Numbers DEF FenceDue, PastFence

\* An entry that keeps its lease and its timer stays fresh when its renew gets no less time.
LEMMA FreshKept ==
  ASSUME NEW h \in HeldClaim, NEW g \in HeldClaim, NEW slack \in Nat, NEW more \in Nat,
         Fresh(h, slack), Intact(g), g.left = h.left, g.renewAge = h.renewAge,
         h.renewAge >= RenewInterval => more >= slack
  PROVE  Fresh(g, more)
<1>1. h.left \in Int /\ h.renewAge \in Nat
  BY EntryFields
<1> QED
  BY <1>1, Numbers DEF Fresh

\* A lease just written is fresh.
LEMMA FreshWritten ==
  ASSUME NEW g \in HeldClaim, NEW slack \in Nat, Intact(g), g.left = LeaseDuration
  PROVE  Fresh(g, slack)
<1>1. g.renewAge \in Nat
  BY EntryFields
<1> QED
  BY <1>1, Numbers DEF Fresh

\* Time makes the lease shorter, and the renew older or later.
LEMMA FreshAged ==
  ASSUME NEW h \in HeldClaim, NEW slack \in Nat, NEW more \in Nat,
         Fresh(h, slack), more >= slack + 1
  PROVE  Fresh(Aged(h), more)
<1> DEFINE g == Aged(h)
<1>1. /\ h.left \in Int /\ h.renewAge \in Nat /\ h.renewAge <= RenewInterval
  BY EntryFields, Numbers DEF HeldClaim
<1>2. /\ g.left = Nearer(h.left) /\ g.renewAge = AtMost(h.renewAge + 1, RenewInterval)
      /\ Intact(g)
  BY AgedFields DEF Fresh, Intact
<1>3. Nearer(h.left) \in Int /\ Nearer(h.left) >= h.left - 1
  BY <1>1, NearerFields
<1> SUFFICES Fresh(g, more)
  OBVIOUS
<1> HIDE DEF g
<1>4. CASE h.renewAge + 1 < RenewInterval
  <2>1. g.renewAge = h.renewAge + 1 /\ h.left >= LeaseDuration - h.renewAge
    BY <1>1, <1>2, <1>4, Numbers DEF AtMost, Fresh
  <2> QED
    BY <1>1, <1>2, <1>3, <1>4, <2>1, Numbers DEF Fresh
<1>5. CASE ~(h.renewAge + 1 < RenewInterval)
  <2>1. g.renewAge = RenewInterval
    BY <1>1, <1>2, <1>5, Numbers DEF AtMost
  <2>2. h.left >= LeaseDuration - RenewInterval - more + 1
    BY <1>1, <1>5, Numbers DEF Fresh
  <2> QED
    BY <1>1, <1>2, <1>3, <2>1, <2>2, Numbers DEF Fresh
<1> QED
  BY <1>4, <1>5

\* The passes of a tick before the renews leave every renew its time.
LEMMA GoToSlack ==
  ASSUME TypeInv, TypeInv', NEW c \in Clusters, NEW k \in Keys,
         NEW pc \in {"fence", "releases", "holds", "jobless", "recheck"}, GoTo(c, pc),
         op[c].pc \in {"idle", "fence", "releases", "holds", "jobless", "recheck"},
         held'[c][k] # NotHeld
  PROVE  Slack(op'[c], fenceAge'[c], k) >= Slack(op[c], fenceAge[c], k)
<1> DEFINE o == [Idle EXCEPT !.pc = pc, !.age = op[c].age]
<1>1. op \in [Clusters -> Op] /\ op[c] \in Op /\ fenceAge[c] \in 0 .. TickGap
  BY DEF TypeInv, TypeOK
<1>2. op'[c] = o
  BY <1>1 DEF GoTo
<1>3. o.pc = pc /\ o.age = op[c].age
  BY DEF Idle
<1> HIDE DEF o
<1>4. op[c].age \in Nat /\ fenceAge[c] \in Nat /\ fenceAge[c] <= TickGap
  BY <1>1, MethodFields, Numbers
<1>5. Slack(o, fenceAge'[c], k) = OpTime + TickGap + op[c].age
  BY <1>3 DEF Slack, Ahead, TickPhases
<1>6. Slack(op[c], fenceAge[c], k) <= OpTime + TickGap + op[c].age
  BY <1>4, Numbers DEF Slack, Ahead, TickPhases
<1>7. Slack(op[c], fenceAge[c], k) \in Nat
  BY <1>1, SlackType
<1> QED
  BY <1>2, <1>4, <1>5, <1>6, <1>7, Numbers

\* The renew pass leaves it to the keys it has not visited, and its end to all.
LEMMA RenewPassSlack ==
  ASSUME TypeInv, TypeInv', NEW c \in Clusters, NEW k \in Keys, NEW todo \in SUBSET Keys,
         RenewPass(c, todo), op[c].pc \in TickPhases, k \in todo \/ ~Ahead(op[c], k)
  PROVE  Slack(op'[c], fenceAge'[c], k) >= Slack(op[c], fenceAge[c], k)
<1> DEFINE o == [Idle EXCEPT !.pc = "renew", !.todo = todo, !.age = op[c].age]
<1>1. op \in [Clusters -> Op] /\ op[c] \in Op /\ fenceAge[c] \in 0 .. TickGap
      /\ fenceAge'[c] \in 0 .. TickGap
  BY DEF TypeInv, TypeOK
<1>2. op'[c] = IF todo = {} THEN Idle ELSE o
  BY <1>1 DEF RenewPass
<1>3. o.pc = "renew" /\ o.todo = todo /\ o.age = op[c].age /\ Idle.pc = "idle"
  BY DEF Idle
<1> HIDE DEF o
<1>4. /\ op[c].age \in Nat /\ op[c].age <= OpTime /\ fenceAge[c] \in Nat
      /\ fenceAge'[c] \in Nat
  BY <1>1, MethodFields, Numbers
<1>5. CASE todo = {}
  <2>1. Slack(op'[c], fenceAge'[c], k) = OpTime + fenceAge'[c]
    BY <1>2, <1>3, <1>5 DEF Slack, TickPhases
  <2>2. Slack(op[c], fenceAge[c], k) = op[c].age
    BY <1>5 DEF Slack
  <2> QED
    BY <1>4, <2>1, <2>2, Numbers
<1>6. CASE todo # {}
  <2>1. Slack(o, fenceAge'[c], k) = IF k \in todo THEN OpTime + TickGap + op[c].age ELSE op[c].age
    BY <1>3 DEF Slack, Ahead, TickPhases
  <2>2. /\ Slack(op[c], fenceAge[c], k) \in {OpTime + TickGap + op[c].age, op[c].age}
        /\ ~Ahead(op[c], k) => Slack(op[c], fenceAge[c], k) = op[c].age
    BY DEF Slack
  <2> QED
    BY <1>2, <1>4, <1>6, <2>1, <2>2, Numbers
<1> QED
  BY <1>5, <1>6

\* The request of one key takes no time from the others.
LEMMA RenewGoToSlack ==
  ASSUME TypeInv, NEW c \in Clusters, NEW j \in Keys, NEW k \in Keys \ {j},
         RenewGoTo(c, j, "fenceAfterRenew"), op[c].pc = "renew", UNCHANGED fenceAge
  PROVE  Slack(op'[c], fenceAge'[c], k) = Slack(op[c], fenceAge[c], k)
<1> DEFINE o == [Idle EXCEPT !.pc = "fenceAfterRenew", !.key = j, !.todo = op[c].todo \ {j},
                             !.age = op[c].age]
<1>1. op \in [Clusters -> Op]
  BY DEF TypeInv, TypeOK
<1>2. op'[c] = o
  BY <1>1 DEF RenewGoTo
<1>3. o.pc = "fenceAfterRenew" /\ o.todo = op[c].todo \ {j} /\ o.age = op[c].age
  BY DEF Idle
<1> HIDE DEF o
<1>4. Ahead(o, k) <=> Ahead(op[c], k)
  BY <1>3 DEF Ahead
<1> QED
  BY <1>2, <1>3, <1>4 DEF Slack, TickPhases

-----------------------------------------------------------------------------
(* What the steps of a healthy executor do to its entries. *)

(* An entry goes, or it keeps its lease and its timer. *)
EntryHealthy(c, k) ==
  LET h == held[c][k]
      g == held'[c][k] IN
  g # NotHeld => h # NotHeld /\ Intact(g) /\ g.left = h.left /\ g.renewAge = h.renewAge

LEMMA HealthyEntries ==
  ASSUME TypeInv, HealthPremise, NEW c \in Clusters, FreshOf(c)
  PROVE  /\ \A k \in HeldKeys(c) : /\ held[c][k] \in HeldClaim /\ Intact(held[c][k])
                                   /\ held[c][k].left >= FenceMargin + FenceLead
                                   /\ ~FenceDue(held[c][k].left) /\ ~PastFence(held[c][k])
         /\ ~DeadlinePassed(c)
         /\ \A S : MayInTick(c, "releaseFails", S) = {{}}
<1>1. ASSUME NEW k \in HeldKeys(c)
      PROVE  /\ held[c][k] \in HeldClaim /\ Intact(held[c][k])
             /\ held[c][k].left >= FenceMargin + FenceLead
             /\ ~FenceDue(held[c][k].left) /\ ~PastFence(held[c][k])
  <2> DEFINE s == Slack(op[c], fenceAge[c], k)
  <2>1. k \in Keys /\ Holds(c, k) /\ held[c][k] \in HeldClaim
    BY HeldEntry DEF HeldKeys
  <2>2. s \in Nat /\ s <= OpTime + OpTime + TickGap
    <3>1. op[c] \in Op /\ fenceAge[c] \in 0 .. TickGap
      BY DEF TypeInv, TypeOK
    <3> QED
      BY <2>1, <3>1, SlackType
  <2>3. Fresh(held[c][k], s)
    BY <2>1 DEF FreshOf
  <2> HIDE DEF s
  <2> QED
    BY <2>1, <2>2, <2>3, FreshNotDue DEF Fresh
<1>2. ~DeadlinePassed(c)
  BY <1>1 DEF DeadlinePassed
<1> QED
  BY <1>1, <1>2, HealthyFaults DEF MayInTick

LEMMA SameHealthy ==
  ASSUME TypeInv, HealthPremise, NEW c \in Clusters, FreshOf(c), NEW k \in Keys,
         held'[c][k] = held[c][k] \/ held'[c][k] = NotHeld
  PROVE  EntryHealthy(c, k)
BY HealthyEntries DEF EntryHealthy, HeldKeys, Holds

\* A release that is answered drops the entry.
LEMMA ReleaseRefsHealthy ==
  ASSUME TypeInv, HealthPremise, NEW c \in Clusters, FreshOf(c), NEW S, ReleaseRefs(c, S)
  PROVE  /\ \A k \in Keys : EntryHealthy(c, k)
         /\ \A d \in Clusters \ {c} : held'[d] = held[d]
         /\ store' = Freed(c, S)
<1>1. /\ store' = Freed(c, S)
      /\ held' = [held EXCEPT ![c] = [k \in Keys |-> IF k \in S THEN NotHeld ELSE @[k]]]
  <2>1. PICK fail \in {{}} : \E lost \in {{}} :
          /\ store' = Freed(c, S \ fail)
          /\ held' = [held EXCEPT ![c] = [k \in Keys |->
               IF k \in lost \cup fail THEN [@[k] EXCEPT !.releasePending = TRUE]
               ELSE IF k \in S THEN NotHeld ELSE @[k]]]
    BY HealthyEntries, HealthyFaults DEF ReleaseRefs
  <2>2. fail = {} /\ S \ fail = S
    BY <2>1
  <2> QED
    BY <2>1, <2>2
<1>2. held \in [Clusters -> [Keys -> HeldClaim \cup {NotHeld}]]
  BY DEF TypeInv, TypeOK
<1>3. /\ \A d \in Clusters \ {c} : held'[d] = held[d]
      /\ \A k \in Keys : held'[c][k] = held[c][k] \/ held'[c][k] = NotHeld
  BY <1>1, <1>2
<1> QED
  BY <1>1, <1>3, SameHealthy

LEMMA ReleaseLockedHealthy ==
  ASSUME TypeInv, HealthPremise, NEW c \in Clusters, FreshOf(c), NEW S, ReleaseLocked(c, S)
  PROVE  /\ \A k \in Keys : EntryHealthy(c, k)
         /\ \A d \in Clusters \ {c} : held'[d] = held[d]
         /\ \A k \in Keys : store'[k] = store[k] \/ (k \in S /\ CurrentToken(c, k) /\ store'[k] = Free)
<1>1. PICK unknown : ReleaseRefs(c, {k \in S \ unknown : ~IsJobRunning(c, held[c][k].task)})
  BY DEF ReleaseLocked
<1> DEFINE R == {k \in S \ unknown : ~IsJobRunning(c, held[c][k].task)}
<1>2. R \subseteq S
  OBVIOUS
<1> HIDE DEF R
<1>3. ReleaseRefs(c, R)
  BY <1>1 DEF R
<1>4. /\ \A k \in Keys : EntryHealthy(c, k)
      /\ \A d \in Clusters \ {c} : held'[d] = held[d]
      /\ store' = Freed(c, R)
  BY <1>3, ReleaseRefsHealthy
<1> QED
  BY <1>2, <1>4, FreedCases

(* A step of a healthy executor: its entries keep their leases, go, or are   *)
(* written anew, and no renew loses time.                                    *)
HealthyStep(c) ==
  /\ \A k \in Keys : held'[c][k] # NotHeld =>
       \/ Intact(held'[c][k]) /\ held'[c][k].left = LeaseDuration
       \/ /\ EntryHealthy(c, k)
          /\ held[c][k].renewAge >= RenewInterval =>
               Slack(op'[c], fenceAge'[c], k) >= Slack(op[c], fenceAge[c], k)
  /\ op'[c].pc \notin {"readBack", "fenceBeforeRead", "renewReadBack"}
  /\ \A d \in Clusters \ {c} : held'[d] = held[d] /\ op'[d] = op[d] /\ fenceAge'[d] = fenceAge[d]

(* The store's side: a claim goes only by its holder, and not inside its hold. *)
StoreHealthy(c) ==
  \A k \in Keys :
    \/ store'[k] = store[k]
    \/ CurrentToken(c, k) /\ HeldByUs(c, k)'
    \/ CurrentToken(c, k) /\ ~(held[c][k].hold > 0) /\ store'[k] = Free

LEMMA HealthySameOp ==
  ASSUME TypeInv, NEW c \in Clusters, FreshOf(c), UNCHANGED <<op, fenceAge>>,
         \A k \in Keys : EntryHealthy(c, k), \A d \in Clusters \ {c} : held'[d] = held[d]
  PROVE  HealthyStep(c)
<1>1. ASSUME NEW k \in Keys
      PROVE  Slack(op'[c], fenceAge'[c], k) >= Slack(op[c], fenceAge[c], k)
  <2>1. Slack(op[c], fenceAge[c], k) \in Nat
    BY SlackType DEF TypeInv, TypeOK
  <2>2. Slack(op'[c], fenceAge'[c], k) = Slack(op[c], fenceAge[c], k)
    OBVIOUS
  <2> QED
    BY <2>1, <2>2
<1> QED
  BY <1>1 DEF HealthyStep, FreshOf

LEMMA ReleaseHealthy ==
  ASSUME TypeInv, HealthPremise, NEW c \in Clusters, FreshOf(c), NEW k \in Keys, Release(c, k)
  PROVE  /\ \A j \in Keys : EntryHealthy(c, j)
         /\ \A d \in Clusters \ {c} : held'[d] = held[d]
         /\ StoreHealthy(c)
<1>1. CASE UNCHANGED <<store, held>>
  BY <1>1, SameHealthy DEF StoreHealthy
<1>2. CASE ~(held[c][k].hold > 0) /\ ReleaseLocked(c, {k})
  BY <1>2, ReleaseLockedHealthy DEF StoreHealthy
<1> QED
  BY <1>1, <1>2 DEF Release

\* The releases of the spawn path and of the events, and the Jobs' own steps.
LEMMA EventHealthy ==
  ASSUME TypeInv, HealthPremise, NEW c \in Clusters, FreshOf(c), NEW t \in Tasks, NEW k \in Keys,
         \/ SpawnJob(c, t) \/ ReleaseFailedSpawn(c, t) \/ JobEnds(c, t)
         \/ ReleaseTaskClaim(c, k) \/ ReleaseAfterSuccess(c, k)
  PROVE  HealthyStep(c) /\ StoreHealthy(c) /\ UNCHANGED recovered
<1>1. UNCHANGED <<op, fenceAge, recovered>>
  BY DEF SpawnJob, ReleaseFailedSpawn, JobEnds, ReleaseTaskClaim, ReleaseAfterSuccess
<1> DEFINE AllKept == /\ \A j \in Keys : EntryHealthy(c, j)
                      /\ \A d \in Clusters \ {c} : held'[d] = held[d]
                      /\ StoreHealthy(c)
<1>2. ASSUME UNCHANGED <<store, held>> PROVE AllKept
  BY <1>2, SameHealthy DEF StoreHealthy
<1>3. ASSUME NEW j \in Keys, Release(c, j) PROVE AllKept
  BY <1>3, ReleaseHealthy
<1>4. ASSUME Holds(c, k), UNCHANGED store,
             NEW x, held' = [held EXCEPT ![c][k].hold = x]
      PROVE  AllKept
  <2> DEFINE h == held[c][k]
             g == [h EXCEPT !.hold = x]
  <2>1. held \in [Clusters -> [Keys -> HeldClaim \cup {NotHeld}]]
    BY DEF TypeInv, TypeOK
  <2>2. /\ held'[c][k] = g
        /\ \A d \in Clusters, j \in Keys : d # c \/ j # k => held'[d][j] = held[d][j]
        /\ \A d \in Clusters \ {c} : held'[d] = held[d]
    BY <1>4, <2>1
  <2>3. h \in HeldClaim /\ Intact(h)
    BY <1>4, HealthyEntries DEF HeldKeys
  <2>4. EntryHealthy(c, k)
    <3>1. /\ g.left = h.left /\ g.renewAge = h.renewAge /\ g.pendingDeletion = h.pendingDeletion
          /\ g.releasePending = h.releasePending /\ g.needsRunningCheck = h.needsRunningCheck
      <4> HIDE DEF h
      <4> QED
        BY <2>3 DEF HeldClaim
    <3> HIDE DEF g
    <3> QED
      BY <1>4, <2>2, <2>3, <3>1 DEF EntryHealthy, Intact, Holds
  <2>5. \A j \in Keys : EntryHealthy(c, j)
    BY <2>2, <2>4, SameHealthy
  <2> QED
    BY <1>4, <2>2, <2>5 DEF StoreHealthy
<1> HIDE DEF AllKept
<1>5. KeyOf[t] \in Keys
  BY ConstantsAssumption
<1>6. AllKept
  <2>1. CASE SpawnJob(c, t) \/ JobEnds(c, t)
    BY <1>2, <2>1 DEF SpawnJob, JobEnds
  <2>2. CASE ReleaseFailedSpawn(c, t)
    BY <1>2, <1>3, <1>5, <2>2 DEF ReleaseFailedSpawn
  <2>3. CASE ReleaseTaskClaim(c, k)
    BY <1>3, <2>3 DEF ReleaseTaskClaim
  <2>4. CASE ReleaseAfterSuccess(c, k)
    BY <1>3, <1>4, <2>4 DEF ReleaseAfterSuccess
  <2> QED
    BY <2>1, <2>2, <2>3, <2>4
<1>7. /\ \A j \in Keys : EntryHealthy(c, j)
      /\ \A d \in Clusters \ {c} : held'[d] = held[d]
      /\ StoreHealthy(c)
  BY <1>6 DEF AllKept
<1>8. HealthyStep(c)
  BY <1>1, <1>7, HealthySameOp
<1> QED
  BY <1>1, <1>7, <1>8

\* The passes that find nothing pending, due or refused.
LEMMA EmptyPassHealthy ==
  ASSUME TypeInv, TypeInv', HealthPremise, NEW c \in Clusters, FreshOf(c),
         RetryPendingDeletions(c) \/ EvaluateFence(c) \/ RetryPendingReleases(c)
  PROVE  HealthyStep(c) /\ StoreHealthy(c) /\ UNCHANGED recovered
<1>1. /\ held \in [Clusters -> [Keys -> HeldClaim \cup {NotHeld}]]
      /\ fenceAge \in [Clusters -> 0 .. TickGap] /\ TypeOK /\ op \in [Clusters -> Op]
      /\ store = [k \in Keys |-> store[k]]
  BY DEF TypeInv, TypeOK
<1>2. /\ \A k \in HeldKeys(c) : /\ held[c][k].pendingDeletion = "no" /\ ~held[c][k].releasePending
                                /\ ~FenceDue(held[c][k].left)
      /\ \A S : May("deleteFails", S) = {{}}
  BY HealthyEntries, HealthyFaults DEF Intact
<1>3. Freed(c, {}) = store
  BY <1>1 DEF Freed
<1>4. BestEffortRelease(c, {}) => store' = store
  BY <1>3 DEF BestEffortRelease, May
<1>5. CASE RetryPendingDeletions(c)
  <2> DEFINE pending == {k \in HeldKeys(c) : held[c][k].pendingDeletion # "no"}
  <2>1. PICK kept \in {{}} :
             /\ BestEffortRelease(c, {k \in pending \ kept : held[c][k].pendingDeletion = "fence"})
             /\ held' = Dropped(c, pending \ kept)
    BY <1>2, <1>5 DEF RetryPendingDeletions
  <2>2. /\ pending \ kept = {}
        /\ {k \in pending \ kept : held[c][k].pendingDeletion = "fence"} = {}
    BY <1>2
  <2>3. store' = store /\ held' = Dropped(c, {})
    <3> HIDE DEF pending
    <3> QED
      BY <1>4, <2>1, <2>2
  <2>4. held' = held
    BY <1>1, <2>3 DEF Dropped
  <2>5. /\ GoTo(c, "fence") /\ op[c].pc = "idle" /\ UNCHANGED <<recovered, fenceAge>>
    BY <1>5 DEF RetryPendingDeletions
  <2>6. /\ op'[c].pc \in {"idle", "fence"} /\ \A d \in Clusters \ {c} : op'[d] = op[d]
    BY <1>1, <2>5, GoToType
  <2>7. ASSUME NEW k \in Keys, held'[c][k] # NotHeld
        PROVE  Slack(op'[c], fenceAge'[c], k) >= Slack(op[c], fenceAge[c], k)
    BY <2>5, <2>7, GoToSlack
  <2> QED
    BY <2>3, <2>4, <2>5, <2>6, <2>7, SameHealthy DEF HealthyStep, StoreHealthy
<1>6. CASE RetryPendingReleases(c)
  <2> DEFINE S == {k \in HeldKeys(c) : held[c][k].releasePending}
  <2>1. S = {}
    BY <1>2
  <2>2. ReleaseRefs(c, {})
    BY <1>6, <2>1 DEF RetryPendingReleases
  <2>3. /\ \A k \in Keys : EntryHealthy(c, k)
        /\ \A d \in Clusters \ {c} : held'[d] = held[d]
        /\ store' = store
    BY <1>3, <2>2, ReleaseRefsHealthy
  <2>5. /\ GoTo(c, "holds") /\ op[c].pc = "releases" /\ UNCHANGED <<recovered, fenceAge>>
    BY <1>6 DEF RetryPendingReleases
  <2>6. /\ op'[c].pc \in {"idle", "holds"} /\ \A d \in Clusters \ {c} : op'[d] = op[d]
    BY <1>1, <2>5, GoToType
  <2>7. ASSUME NEW k \in Keys, held'[c][k] # NotHeld
        PROVE  Slack(op'[c], fenceAge'[c], k) >= Slack(op[c], fenceAge[c], k)
    BY <2>5, <2>7, GoToSlack
  <2> QED
    BY <2>3, <2>5, <2>6, <2>7 DEF HealthyStep, StoreHealthy
<1>7. CASE EvaluateFence(c)
  <2> DEFINE due == {k \in HeldKeys(c) :
                       held[c][k].pendingDeletion = "no" /\ FenceDue(held[c][k].left)}
             stopping == {k \in due : ~held[c][k].releasePending}
  <2>1. PICK kept \in {{}} :
          /\ BestEffortRelease(c, due \ kept)
          /\ held' = [held EXCEPT ![c] = [k \in Keys |->
               IF k \in kept THEN FencePending(@[k])
               ELSE IF k \in due THEN NotHeld ELSE @[k]]]
    BY <1>2, <1>7 DEF EvaluateFence, Fence
  <2>2. due = {} /\ due \ kept = {} /\ kept = {}
    BY <1>2
  <2> HIDE DEF due
  <2>3. store' = store /\ held' = held
    BY <1>1, <1>4, <2>1, <2>2
  <2>4. /\ op[c].pc \in {"fence", "fenceAfterRenew"} /\ UNCHANGED recovered
        /\ fenceAge' = [fenceAge EXCEPT ![c] = 0]
    BY <1>7 DEF EvaluateFence, FreshOf
  <2>5. \A d \in Clusters \ {c} : fenceAge'[d] = fenceAge[d]
    BY <1>1, <2>4
  <2> DEFINE Goal == /\ op'[c].pc \in {"idle", "releases", "renew"}
                     /\ \A d \in Clusters \ {c} : op'[d] = op[d]
                     /\ \A k \in Keys : held'[c][k] # NotHeld =>
                          Slack(op'[c], fenceAge'[c], k) >= Slack(op[c], fenceAge[c], k)
  <2>6. ASSUME op[c].pc = "fence" PROVE Goal
    <3>1. GoTo(c, "releases")
      BY <1>7, <2>6 DEF EvaluateFence
    <3>2. op'[c].pc \in {"idle", "releases"} /\ \A d \in Clusters \ {c} : op'[d] = op[d]
      BY <1>1, <3>1, GoToType
    <3>3. ASSUME NEW k \in Keys, held'[c][k] # NotHeld
          PROVE  Slack(op'[c], fenceAge'[c], k) >= Slack(op[c], fenceAge[c], k)
      BY <2>6, <3>1, <3>3, GoToSlack
    <3> QED
      BY <3>2, <3>3
  <2>7. ASSUME op[c].pc = "fenceAfterRenew" PROVE Goal
    <3>1. RenewPass(c, op[c].todo) /\ op[c].todo \in SUBSET Keys
      BY <1>1, <1>7, <2>7, MethodFields DEF EvaluateFence
    <3>2. op'[c].pc \in {"idle", "renew"} /\ \A d \in Clusters \ {c} : op'[d] = op[d]
      BY <1>1, <3>1, RenewPassType
    <3>3. ASSUME NEW k \in Keys
          PROVE  Slack(op'[c], fenceAge'[c], k) >= Slack(op[c], fenceAge[c], k)
      <4>1. k \in op[c].todo \/ ~Ahead(op[c], k)
        BY <2>7 DEF Ahead
      <4>2. op[c].pc \in TickPhases
        BY <2>7 DEF TickPhases
      <4> QED
        BY <3>1, <4>1, <4>2, RenewPassSlack
    <3> QED
      BY <3>2, <3>3
  <2>8. Goal
    BY <2>4, <2>6, <2>7
  <2> QED
    BY <2>3, <2>4, <2>5, <2>8, SameHealthy DEF HealthyStep, StoreHealthy
<1> QED
  BY <1>5, <1>6, <1>7

LEMMA ReleaseExpiredHoldsHealthy ==
  ASSUME TypeInv, TypeInv', HealthPremise, NEW c \in Clusters, FreshOf(c), ReleaseExpiredHolds(c)
  PROVE  HealthyStep(c) /\ StoreHealthy(c) /\ UNCHANGED recovered
<1> DEFINE S == {k \in HeldKeys(c) : held[c][k].hold = 0}
<1>1. ReleaseLocked(c, S) /\ \A k \in S : held[c][k].hold = 0
  BY DEF ReleaseExpiredHolds
<1> HIDE DEF S
<1>2. /\ \A k \in Keys : EntryHealthy(c, k)
      /\ \A d \in Clusters \ {c} : held'[d] = held[d]
      /\ \A k \in Keys : store'[k] = store[k] \/ (k \in S /\ CurrentToken(c, k) /\ store'[k] = Free)
  BY <1>1, ReleaseLockedHealthy
<1>3. StoreHealthy(c)
  BY <1>1, <1>2 DEF StoreHealthy
<1>4. GoTo(c, "jobless") /\ op[c].pc = "holds" /\ UNCHANGED <<recovered, fenceAge>> /\ TypeOK
  BY DEF ReleaseExpiredHolds, TypeInv
<1>5. /\ op'[c].pc \in {"idle", "jobless"} /\ \A d \in Clusters \ {c} : op'[d] = op[d]
  BY <1>4, GoToType
<1>6. ASSUME NEW k \in Keys, held'[c][k] # NotHeld
      PROVE  Slack(op'[c], fenceAge'[c], k) >= Slack(op[c], fenceAge[c], k)
  BY <1>4, <1>6, GoToSlack
<1> QED
  BY <1>2, <1>3, <1>4, <1>5, <1>6 DEF HealthyStep

\* The jobless pass skips a claim inside its hold, and a check changes no lease.
LEMMA ReleaseJoblessClaimsHealthy ==
  ASSUME TypeInv, TypeInv', HealthPremise, NEW c \in Clusters, FreshOf(c), ReleaseJoblessClaims(c)
  PROVE  HealthyStep(c) /\ StoreHealthy(c) /\ UNCHANGED recovered
<1> DEFINE Gone(checked, unknown) ==
             {k \in checked \ unknown : JoblessChecked(c, k, unknown).jobless >= JoblessGrace}
           After(checked, unknown, fail, lost) ==
             [k \in Keys |->
               IF k \in Gone(checked, unknown) \ (lost \cup fail) THEN NotHeld
               ELSE IF k \in checked
               THEN [JoblessChecked(c, k, unknown)
                       EXCEPT !.releasePending = (k \in Gone(checked, unknown))]
               ELSE held[c][k]]
<1>1. PICK checked \in SUBSET HeldKeys(c) :
        \E unknown \in MayInTick(c, "checkFails", checked) :
        \E fail \in MayInTick(c, "releaseFails", Gone(checked, unknown)) :
        \E lost \in May("releaseLost", Gone(checked, unknown) \ fail) :
          /\ CheckedInPass(c, checked)
          /\ store' = Freed(c, Gone(checked, unknown) \ fail)
          /\ held' = [held EXCEPT ![c] = After(checked, unknown, fail, lost)]
  BY DEF ReleaseJoblessClaims
<1>2. PICK unknown : \E fail \in {{}}, lost \in {{}} :
        /\ CheckedInPass(c, checked)
        /\ store' = Freed(c, Gone(checked, unknown) \ fail)
        /\ held' = [held EXCEPT ![c] = After(checked, unknown, fail, lost)]
  <2> HIDE DEF Gone, After
  <2> QED
    BY <1>1, HealthyEntries, HealthyFaults
<1> DEFINE gone == Gone(checked, unknown)
<1>3. PICK fail \in {{}}, lost \in {{}} :
        /\ CheckedInPass(c, checked)
        /\ store' = Freed(c, gone \ fail)
        /\ held' = [held EXCEPT ![c] = After(checked, unknown, fail, lost)]
  BY <1>2
<1>4. held \in [Clusters -> [Keys -> HeldClaim \cup {NotHeld}]] /\ TypeOK
  BY DEF TypeInv, TypeOK
<1>5. gone \subseteq checked /\ fail = {} /\ lost = {}
  OBVIOUS
<1>6. \A d \in Clusters \ {c} : held'[d] = held[d]
  <2> HIDE DEF After
  <2> QED
    BY <1>3, <1>4
<1>7. ASSUME NEW k \in checked
      PROVE  k \in HeldKeys(c) /\ JoblessEligible(held[c][k])
  BY <1>3 DEF CheckedInPass, JoblessDueKeys
<1>8. ASSUME NEW k \in Keys PROVE EntryHealthy(c, k)
  <2>1. held'[c][k] = After(checked, unknown, fail, lost)[k]
    BY <1>3, <1>4
  <2>2. CASE k \in gone
    BY <1>5, <2>1, <2>2, SameHealthy
  <2>3. CASE k \in checked \ gone
    <3> DEFINE h == held[c][k]
               j == JoblessChecked(c, k, unknown)
               b == k \in gone
               g == [j EXCEPT !.releasePending = b]
    <3>1. held'[c][k] = g /\ b = FALSE
      BY <1>5, <2>1, <2>3
    <3> HIDE DEF b
    <3>2. k \in HeldKeys(c) /\ h # NotHeld /\ Intact(h)
      BY <1>7, <2>3, HealthyEntries DEF HeldKeys, Holds
    <3>3. /\ j \in HeldClaim /\ j.left = h.left /\ j.renewAge = h.renewAge
          /\ j.pendingDeletion = h.pendingDeletion /\ j.needsRunningCheck = h.needsRunningCheck
      BY <3>2, JoblessCheckedFields
    <3> HIDE DEF j, h
    <3>4. /\ g.left = h.left /\ g.renewAge = h.renewAge /\ g.releasePending = FALSE
          /\ g.pendingDeletion = h.pendingDeletion /\ g.needsRunningCheck = h.needsRunningCheck
      BY <3>1, <3>3, ReleaseMark
    <3> HIDE DEF g
    <3> QED
      BY <3>1, <3>2, <3>4 DEF EntryHealthy, Intact, h
  <2>4. CASE k \notin checked
    BY <1>5, <2>1, <2>4, SameHealthy
  <2> QED
    BY <2>2, <2>3, <2>4
<1> HIDE DEF gone
<1>9. StoreHealthy(c)
  <2> SUFFICES ASSUME NEW k \in Keys, k \in gone, CurrentToken(c, k) PROVE ~(held[c][k].hold > 0)
    BY <1>3, FreedCases DEF StoreHealthy
  <2>1. held[c][k].hold = None
    BY <1>5, <1>7 DEF JoblessEligible
  <2> QED
    BY <2>1 DEF None
<1>10. GoTo(c, "recheck") /\ op[c].pc = "jobless" /\ UNCHANGED <<recovered, fenceAge>>
  BY DEF ReleaseJoblessClaims
<1>11. /\ op'[c].pc \in {"idle", "recheck"} /\ \A d \in Clusters \ {c} : op'[d] = op[d]
  BY <1>4, <1>10, GoToType
<1>12. ASSUME NEW k \in Keys, held'[c][k] # NotHeld
       PROVE  Slack(op'[c], fenceAge'[c], k) >= Slack(op[c], fenceAge[c], k)
  BY <1>10, <1>12, GoToSlack
<1> QED
  BY <1>6, <1>8, <1>9, <1>10, <1>11, <1>12 DEF HealthyStep

\* Nothing was adopted with an unknown Job, and the renew pass is to visit every entry.
LEMMA RecheckRunningHealthy ==
  ASSUME TypeInv, TypeInv', HealthPremise, NEW c \in Clusters, FreshOf(c), RecheckRunning(c)
  PROVE  HealthyStep(c) /\ StoreHealthy(c) /\ UNCHANGED recovered
<1> DEFINE asked == {k \in HeldKeys(c) : held[c][k].needsRunningCheck}
<1>1. asked = {}
  BY HealthyEntries DEF Intact
<1>2. PICK unknown \in May("checkFails", asked) :
      LET running == {k \in asked \ unknown : IsJobRunning(c, held[c][k].task)}
          gone == asked \ (unknown \cup running) IN
      \E fail \in MayInTick(c, "releaseFails", gone) : \E lost \in May("releaseLost", gone \ fail) :
        /\ store' = Freed(c, gone \ fail)
        /\ held' = [held EXCEPT ![c] = [k \in Keys |->
             IF k \in running THEN [@[k] EXCEPT !.needsRunningCheck = FALSE]
             ELSE IF k \in lost \cup fail THEN [@[k] EXCEPT !.releasePending = TRUE]
             ELSE IF k \in gone THEN NotHeld ELSE @[k]]]
  BY DEF RecheckRunning
<1> DEFINE running == {k \in asked \ unknown : IsJobRunning(c, held[c][k].task)}
           gone == asked \ (unknown \cup running)
<1>3. running = {} /\ gone = {}
  BY <1>1
<1>4. PICK fail \in MayInTick(c, "releaseFails", gone) : \E lost \in May("releaseLost", gone \ fail) :
        /\ store' = Freed(c, gone \ fail)
        /\ held' = [held EXCEPT ![c] = [k \in Keys |->
             IF k \in running THEN [@[k] EXCEPT !.needsRunningCheck = FALSE]
             ELSE IF k \in lost \cup fail THEN [@[k] EXCEPT !.releasePending = TRUE]
             ELSE IF k \in gone THEN NotHeld ELSE @[k]]]
  BY <1>2
<1> HIDE DEF asked, running, gone
<1>5. /\ held \in [Clusters -> [Keys -> HeldClaim \cup {NotHeld}]] /\ TypeOK
      /\ store = [k \in Keys |-> store[k]]
  BY DEF TypeInv, TypeOK
<1>6. store' = store /\ held' = held
  <2>1. fail = {} /\ gone \ fail = {}
    BY <1>3, <1>4 DEF MayInTick, May
  <2>2. \E lost \in {{}} :
          held' = [held EXCEPT ![c] = [k \in Keys |->
             IF k \in running THEN [@[k] EXCEPT !.needsRunningCheck = FALSE]
             ELSE IF k \in lost \cup fail THEN [@[k] EXCEPT !.releasePending = TRUE]
             ELSE IF k \in gone THEN NotHeld ELSE @[k]]]
    BY <1>4, <2>1 DEF May
  <2>3. held' = held
    BY <1>3, <1>5, <2>1, <2>2
  <2>4. store' = Freed(c, {})
    BY <1>4, <2>1
  <2> QED
    BY <1>5, <2>3, <2>4 DEF Freed
<1> DEFINE todo == {k \in Keys : held'[c][k] # NotHeld}
<1>7. RenewPass(c, todo) /\ op[c].pc = "recheck" /\ UNCHANGED <<recovered, fenceAge>>
  BY DEF RecheckRunning
<1>8. /\ op'[c].pc \in {"idle", "renew"} /\ \A d \in Clusters \ {c} : op'[d] = op[d]
  <2>1. todo \in SUBSET Keys
    OBVIOUS
  <2> HIDE DEF todo
  <2> QED
    BY <1>5, <1>7, <2>1, RenewPassType
<1>9. ASSUME NEW k \in Keys, held'[c][k] # NotHeld
      PROVE  Slack(op'[c], fenceAge'[c], k) >= Slack(op[c], fenceAge[c], k)
  <2>1. todo \in SUBSET Keys /\ k \in todo /\ op[c].pc \in TickPhases
    BY <1>7, <1>9 DEF TickPhases
  <2> HIDE DEF todo
  <2> QED
    BY <1>7, <2>1, RenewPassSlack
<1> QED
  BY <1>6, <1>7, <1>8, <1>9, SameHealthy DEF HealthyStep, StoreHealthy

\* A key is passed over only when its renew is not due.
LEMMA SkipRenewHealthy ==
  ASSUME TypeInv, TypeInv', HealthPremise, NEW c \in Clusters, FreshOf(c), SkipRenew(c)
  PROVE  HealthyStep(c) /\ StoreHealthy(c) /\ UNCHANGED recovered
<1>1. PICK j \in op[c].todo : ~Renewable(c, j) /\ RenewPass(c, op[c].todo \ {j})
  BY DEF SkipRenew
<1>2. op[c].pc = "renew" /\ UNCHANGED <<store, held, fenceAge, recovered>> /\ TypeOK /\ op[c] \in Op
  BY DEF SkipRenew, TypeInv, TypeOK
<1> DEFINE todo == op[c].todo \ {j}
<1>3. todo \in SUBSET Keys /\ RenewPass(c, todo) /\ op[c].pc \in TickPhases
  BY <1>1, <1>2, MethodFields DEF TickPhases
<1>4. ASSUME NEW k \in Keys, Holds(c, k), held[c][k].renewAge >= RenewInterval
      PROVE  Slack(op'[c], fenceAge'[c], k) >= Slack(op[c], fenceAge[c], k)
  <2>1. Intact(held[c][k])
    BY <1>4, HealthyEntries DEF HeldKeys
  <2>2. k # j
    BY <1>1, <1>4, <2>1 DEF Renewable, RenewDue, Intact
  <2>3. k \in todo \/ ~Ahead(op[c], k)
    BY <1>2, <2>2 DEF Ahead
  <2> HIDE DEF todo
  <2> QED
    BY <1>3, <2>3, RenewPassSlack
<1>5. /\ op'[c].pc \in {"idle", "renew"} /\ \A d \in Clusters \ {c} : op'[d] = op[d]
  <2> HIDE DEF todo
  <2> QED
    BY <1>2, <1>3, RenewPassType
<1> QED
  BY <1>2, <1>4, <1>5, SameHealthy DEF HealthyStep, StoreHealthy, Holds

\* A renew is answered: the lease is new, or a peer's and the entry goes.
LEMMA RenewClaimHealthy ==
  ASSUME TypeInv, TypeInv', HealthPremise, NEW c \in Clusters, FreshOf(c), RenewClaim(c)
  PROVE  HealthyStep(c) /\ StoreHealthy(c) /\ UNCHANGED recovered
<1>1. PICK j \in op[c].todo :
        Renewable(c, j) /\ (RenewLands(c, j) \/ RenewRefused(c, j) \/ RenewFails(c, j))
  BY DEF RenewClaim
<1>2. /\ op[c].pc = "renew" /\ UNCHANGED <<fenceAge, recovered>>
      /\ held \in [Clusters -> [Keys -> HeldClaim \cup {NotHeld}]]
      /\ store \in [Keys -> Claim \cup {Free}] /\ op \in [Clusters -> Op] /\ op[c] \in Op
  BY DEF RenewClaim, TypeInv, TypeOK
<1>3. j \in Keys /\ Holds(c, j) /\ held[c][j] \in HeldClaim /\ Intact(held[c][j])
  BY <1>1, <1>2, MethodFields, HealthyEntries DEF Renewable, HeldKeys
<1>4. ~RenewFails(c, j) /\ ~Happens("renewLost") /\ ~Happens("deleteFails")
  BY HealthyEntries, HealthyFaults DEF RenewFails
<1> DEFINE Answered ==
      /\ RenewGoTo(c, j, "fenceAfterRenew")
      /\ \A d \in Clusters, k \in Keys : d # c \/ k # j => held'[d][k] = held[d][k]
      /\ \A d \in Clusters \ {c} : held'[d] = held[d]
      /\ \/ held'[c][j] = NotHeld
         \/ Intact(held'[c][j]) /\ held'[c][j].left = LeaseDuration
      /\ StoreHealthy(c)
<1>5. ASSUME RenewLands(c, j) PROVE Answered
  <2>1. PICK token \in Tokens :
          /\ CurrentToken(c, j)
          /\ store' = [store EXCEPT ![j] = Written(c, held[c][j].task, token)]
          /\ held' = [held EXCEPT ![c][j] = Renewed(held[c][j], token)]
          /\ RenewGoTo(c, j, "fenceAfterRenew")
    BY <1>4, <1>5 DEF RenewLands
  <2>2. /\ held'[c][j] = Renewed(held[c][j], token)
        /\ \A d \in Clusters, k \in Keys : d # c \/ k # j => held'[d][k] = held[d][k]
        /\ \A d \in Clusters \ {c} : held'[d] = held[d]
    BY <1>2, <1>3, <2>1
  <2>3. Intact(held'[c][j]) /\ held'[c][j].left = LeaseDuration
    <3> DEFINE h == held[c][j]
    <3>1. h \in HeldClaim /\ Intact(h) /\ held'[c][j] = Renewed(h, token)
      BY <1>3, <2>2
    <3> HIDE DEF h
    <3> QED
      BY <3>1 DEF Renewed, RenewAsked, HeldClaim, Intact
  <2>4. StoreHealthy(c)
    <3> DEFINE w == Written(c, held[c][j].task, token)
    <3>1. w \in Claim /\ w.holder = c
      <4>1. held[c][j].task \in Tasks
        BY <1>3, EntryFields
      <4> QED
        BY <4>1, Numbers DEF Written, Claim, Lefts
    <3> HIDE DEF w
    <3>2. store'[j] = w /\ \A k \in Keys \ {j} : store'[k] = store[k]
      BY <1>2, <1>3, <2>1 DEF w
    <3>3. HeldByUs(c, j)'
      BY <3>1, <3>2, NullAssumption DEF HeldByUs
    <3> QED
      BY <1>3, <2>1, <3>2, <3>3 DEF StoreHealthy
  <2> QED
    BY <2>1, <2>2, <2>3, <2>4
<1>6. ASSUME RenewRefused(c, j) PROVE Answered
  <2>1. held' = Dropped(c, {j}) /\ RenewGoTo(c, j, "fenceAfterRenew") /\ UNCHANGED store
    BY <1>4, <1>6 DEF RenewRefused, ClaimLost
  <2>2. /\ held'[c][j] = NotHeld
        /\ \A d \in Clusters, k \in Keys : d # c \/ k # j => held'[d][k] = held[d][k]
        /\ \A d \in Clusters \ {c} : held'[d] = held[d]
    BY <1>2, <1>3, <2>1 DEF Dropped
  <2> QED
    BY <2>1, <2>2 DEF StoreHealthy
<1>7. Answered
  <2> HIDE DEF Answered
  <2> QED
    BY <1>1, <1>4, <1>5, <1>6
<1>8. /\ op'[c].pc = "fenceAfterRenew" /\ \A d \in Clusters \ {c} : op'[d] = op[d]
  <2>1. RenewGoTo(c, j, "fenceAfterRenew")
    BY <1>7
  <2> QED
    BY <1>2, <2>1 DEF RenewGoTo, Idle
<1>9. ASSUME NEW k \in Keys, k # j
      PROVE  /\ EntryHealthy(c, k)
             /\ Slack(op'[c], fenceAge'[c], k) >= Slack(op[c], fenceAge[c], k)
  <2>1. EntryHealthy(c, k)
    BY <1>7, <1>9, SameHealthy
  <2>2. Slack(op'[c], fenceAge'[c], k) = Slack(op[c], fenceAge[c], k)
    BY <1>2, <1>3, <1>7, <1>9, RenewGoToSlack
  <2>3. Slack(op[c], fenceAge[c], k) \in Nat
    BY SlackType DEF TypeInv, TypeOK
  <2> QED
    BY <2>1, <2>2, <2>3
<1> QED
  BY <1>2, <1>3, <1>7, <1>8, <1>9 DEF HealthyStep

\* A tick, whole: it never has a request whose answer is missing.
LEMMA TickHealthy ==
  ASSUME TypeInv, TypeInv', HealthPremise, NEW c \in Clusters, FreshOf(c),
         RetryPendingDeletions(c) \/ TickStep(c)
  PROVE  HealthyStep(c) /\ StoreHealthy(c) /\ UNCHANGED recovered
<1>1. ~RenewReadBack(c)
  BY DEF RenewReadBack, FreshOf
<1> QED
  BY <1>1, EmptyPassHealthy, ReleaseExpiredHoldsHealthy, ReleaseJoblessClaimsHealthy,
     RecheckRunningHealthy, SkipRenewHealthy, RenewClaimHealthy DEF TickStep

\* The spawn path takes the mutex without touching an entry.
LEMMA ClaimAttemptHealthy ==
  ASSUME TypeInv, HealthPremise, NEW c \in Clusters, FreshOf(c), NEW t \in Tasks,
         ClaimPair(c, t) \/ TakeoverPair(c, t)
  PROVE  HealthyStep(c) /\ StoreHealthy(c) /\ UNCHANGED recovered
<1>1. /\ UNCHANGED <<store, held, recovered, fenceAge>> /\ op[c].pc = "idle"
      /\ \A d \in Clusters \ {c} : op'[d] = op[d]
      /\ UNCHANGED op \/ op'[c].pc = "acquire"
  BY ClaimAttemptFields DEF BeginsAcquire
<1>2. ASSUME NEW k \in Keys
      PROVE  Slack(op'[c], fenceAge'[c], k) >= Slack(op[c], fenceAge[c], k)
  <2>1. fenceAge[c] \in Nat
    BY FenceAgeType
  <2>2. op'[c].pc \notin TickPhases /\ op[c].pc \notin TickPhases
    BY <1>1 DEF TickPhases
  <2> QED
    BY <1>1, <2>1, <2>2, Numbers DEF Slack
<1> QED
  BY <1>1, <1>2, SameHealthy DEF HealthyStep, StoreHealthy

\* An acquire is refused, or its lease is new.
LEMMA AcquireHealthy ==
  ASSUME TypeInv, TypeInv', HealthPremise, NEW c \in Clusters, FreshOf(c), Acquire(c)
  PROVE  /\ HealthyStep(c) /\ UNCHANGED recovered /\ op[c].pc = "acquire"
         /\ \/ UNCHANGED store
            \/ Lands(c, op[c].task, op[c].key)
<1> DEFINE t == op[c].task
           j == op[c].key
<1>1. /\ op[c].pc = "acquire" /\ UNCHANGED <<fenceAge, recovered>>
      /\ \A d \in Clusters \ {c} : op'[d] = op[d]
      /\ op'[c].pc = "idle"
      /\ \/ UNCHANGED <<store, held>>
         \/ Lands(c, t, j) /\ NewEntry(c, j, t, store'[j].token, LeaseDuration)
  BY AcquireFields, HealthyFaults
<1>2. j \in Keys
  BY <1>1, OpFields
<1>3. /\ held \in [Clusters -> [Keys -> HeldClaim \cup {NotHeld}]]
      /\ held' \in [Clusters -> [Keys -> HeldClaim \cup {NotHeld}]]
  BY DEF TypeInv, TypeOK
<1>4. /\ \A k \in Keys : \/ held'[c][k] = held[c][k]
                         \/ Intact(held'[c][k]) /\ held'[c][k].left = LeaseDuration
      /\ \A d \in Clusters \ {c} : held'[d] = held[d]
  <2>1. CASE UNCHANGED held
    BY <2>1
  <2>2. CASE NewEntry(c, j, t, store'[j].token, LeaseDuration)
    <3>1. Intact(held'[c][j]) /\ held'[c][j].left = LeaseDuration
      BY <2>2 DEF NewEntry, JoblessEligible, Intact
    <3>2. \A d \in Clusters, k \in Keys : d # c \/ k # j => held'[d][k] = held[d][k]
      BY <2>2 DEF NewEntry
    <3>3. ASSUME NEW d \in Clusters \ {c} PROVE held'[d] = held[d]
      BY <1>3, <3>2
    <3> QED
      BY <3>1, <3>2, <3>3
  <2> QED
    BY <1>1, <2>1, <2>2
<1>5. ASSUME NEW k \in Keys
      PROVE  Slack(op'[c], fenceAge'[c], k) >= Slack(op[c], fenceAge[c], k)
  <2>1. fenceAge[c] \in Nat
    BY FenceAgeType
  <2>2. op'[c].pc \notin TickPhases /\ op[c].pc \notin TickPhases
    BY <1>1 DEF TickPhases
  <2> QED
    BY <1>1, <2>1, <2>2, Numbers DEF Slack
<1> QED
  BY <1>1, <1>4, <1>5, SameHealthy DEF HealthyStep

\* After a healthy step every executor's leases are still fresh.
LEMMA HealthyStepFresh ==
  ASSUME TypeInv, TypeInv', NEW c \in Clusters, HealthyStep(c), NEW d \in Clusters, FreshOf(d)
  PROVE  FreshOf(d)'
<1>1. CASE d # c
  BY <1>1 DEF HealthyStep, FreshOf, Holds
<1>2. CASE d = c
  <2>1. op'[c].pc \notin {"readBack", "fenceBeforeRead", "renewReadBack"}
    BY DEF HealthyStep
  <2>2. ASSUME NEW k \in Keys, held'[c][k] # NotHeld
        PROVE  Fresh(held'[c][k], Slack(op'[c], fenceAge'[c], k))
    <3> DEFINE h == held[c][k]
               g == held'[c][k]
               s == Slack(op[c], fenceAge[c], k)
               m == Slack(op'[c], fenceAge'[c], k)
    <3>1. s \in Nat /\ m \in Nat
      BY SlackType DEF TypeInv, TypeOK
    <3>2. g \in HeldClaim
      BY <2>2 DEF TypeInv, TypeOK
    <3>3. CASE Intact(g) /\ g.left = LeaseDuration
      BY <3>1, <3>2, <3>3, FreshWritten
    <3>4. CASE EntryHealthy(c, k) /\ (h.renewAge >= RenewInterval => m >= s)
      <4>1. h # NotHeld /\ Intact(g) /\ g.left = h.left /\ g.renewAge = h.renewAge
        BY <2>2, <3>4 DEF EntryHealthy
      <4>2. h \in HeldClaim /\ Fresh(h, s)
        BY <1>2, <4>1, HeldEntry DEF FreshOf, Holds
      <4> HIDE DEF h, g, s, m
      <4>3. Fresh(g, m)
        BY <3>1, <3>2, <3>4, <4>1, <4>2, FreshKept
      <4> QED
        BY <4>3 DEF g, m
    <3> QED
      BY <2>2, <3>3, <3>4 DEF HealthyStep
  <2> QED
    BY <1>2, <2>1, <2>2 DEF FreshOf, Holds
<1> QED
  BY <1>1, <1>2

\* As time passes a renew gets older, or later by as much as its slack grows.
LEMMA ElapseFresh ==
  ASSUME TypeInv, TypeInv', Elapse, NEW c \in Clusters, FreshOf(c)
  PROVE  FreshOf(c)'
<1>1. /\ op'[c].pc = op[c].pc /\ op[c] \in Op
      /\ op[c].pc # "idle" => op'[c].age = op[c].age + 1
      /\ HeldKeys(c) # {} => fenceAge'[c] = fenceAge[c] + 1
  BY ElapseRest DEF TypeInv, TypeOK
<1>2. op'[c].todo = op[c].todo
  BY <1>1 DEF Elapse, Op
<1>3. op'[c].pc \notin {"readBack", "fenceBeforeRead", "renewReadBack"}
  BY <1>1 DEF FreshOf
<1>4. ASSUME NEW k \in Keys, held'[c][k] # NotHeld
      PROVE  Fresh(held'[c][k], Slack(op'[c], fenceAge'[c], k))
  <2> DEFINE h == held[c][k]
             s == Slack(op[c], fenceAge[c], k)
             m == Slack(op'[c], fenceAge'[c], k)
  <2>1. Holds(c, k) /\ h \in HeldClaim /\ held'[c][k] = Aged(h)
    BY <1>4, ElapseHeld
  <2>2. s \in Nat /\ m \in Nat /\ Fresh(h, s)
    BY <2>1, SlackType DEF TypeInv, TypeOK, FreshOf
  <2>3. m >= s + 1
    <3>1. HeldKeys(c) # {} /\ fenceAge[c] \in Nat /\ op[c].age \in Nat
      BY <1>1, <2>1, FenceAgeType, MethodFields DEF HeldKeys
    <3>2. Ahead(op'[c], k) <=> Ahead(op[c], k)
      BY <1>1, <1>2 DEF Ahead
    <3>3. op[c].pc \in TickPhases => op[c].pc # "idle"
      BY DEF TickPhases
    <3>4. CASE op[c].pc \notin TickPhases
      <4>1. m = OpTime + (fenceAge[c] + 1) /\ s = OpTime + fenceAge[c]
        BY <1>1, <3>1, <3>4 DEF Slack
      <4> HIDE DEF m, s
      <4> QED
        BY <3>1, <4>1, Numbers
    <3>5. CASE op[c].pc \in TickPhases /\ Ahead(op[c], k)
      <4>1. m = OpTime + TickGap + (op[c].age + 1) /\ s = OpTime + TickGap + op[c].age
        BY <1>1, <3>2, <3>3, <3>5 DEF Slack
      <4> HIDE DEF m, s
      <4> QED
        BY <3>1, <4>1, Numbers
    <3>6. CASE op[c].pc \in TickPhases /\ ~Ahead(op[c], k)
      <4>1. m = op[c].age + 1 /\ s = op[c].age
        BY <1>1, <3>2, <3>3, <3>6 DEF Slack
      <4> HIDE DEF m, s
      <4> QED
        BY <3>1, <4>1
    <3> QED
      BY <3>4, <3>5, <3>6
  <2> HIDE DEF h, s, m
  <2>4. Fresh(Aged(h), m)
    BY <2>1, <2>2, <2>3, FreshAged
  <2> QED
    BY <2>1, <2>4 DEF m
<1> QED
  BY <1>3, <1>4 DEF FreshOf, Holds

-----------------------------------------------------------------------------
(* The steps together. *)

(* What each step of a healthy system comes to. *)
LEMMA HealthyCases ==
  ASSUME TypeInv, TypeInv', HealthPremise, \A c \in Clusters : FreshOf(c), NoOldClaims, Next
  PROVE  \/ Elapse
         \/ \E c \in Clusters : HealthyStep(c) /\ StoreHealthy(c) /\ UNCHANGED recovered
         \/ \E c \in Clusters :
              /\ HealthyStep(c) /\ op[c].pc = "acquire" /\ UNCHANGED recovered
              /\ UNCHANGED store \/ Lands(c, op[c].task, op[c].key)
         \/ UNCHANGED <<store, held, op, fenceAge>> /\ recovered \subseteq recovered'
<1> DEFINE Goal ==
      \/ Elapse
      \/ \E c \in Clusters : HealthyStep(c) /\ StoreHealthy(c) /\ UNCHANGED recovered
      \/ \E c \in Clusters :
           /\ HealthyStep(c) /\ op[c].pc = "acquire" /\ UNCHANGED recovered
           /\ UNCHANGED store \/ Lands(c, op[c].task, op[c].key)
      \/ UNCHANGED <<store, held, op, fenceAge>> /\ recovered \subseteq recovered'
<1>1. ASSUME NEW c \in Clusters, NEW t \in Tasks,
             \/ ClaimPair(c, t) \/ TakeoverPair(c, t)
             \/ SpawnJob(c, t) \/ ReleaseFailedSpawn(c, t) \/ JobEnds(c, t)
      PROVE  Goal
  <2>1. PICK k \in Keys : TRUE
    BY ConstantsAssumption
  <2>2. HealthyStep(c) /\ StoreHealthy(c) /\ UNCHANGED recovered
    BY <1>1, ClaimAttemptHealthy, EventHealthy
  <2> QED
    BY <2>2
<1>2. ASSUME NEW c \in Clusters, NEW k \in Keys, ReleaseTaskClaim(c, k) \/ ReleaseAfterSuccess(c, k)
      PROVE  Goal
  <2>1. held[c][k].task \in Tasks
    BY <1>2, HeldEntry, EntryFields DEF ReleaseTaskClaim, ReleaseAfterSuccess
  <2>2. HealthyStep(c) /\ StoreHealthy(c) /\ UNCHANGED recovered
    BY <1>2, <2>1, EventHealthy
  <2> QED
    BY <2>2
<1>3. ASSUME NEW c \in Clusters, RetryPendingDeletions(c) \/ TickStep(c) PROVE Goal
  <2>1. HealthyStep(c) /\ StoreHealthy(c) /\ UNCHANGED recovered
    BY <1>3, TickHealthy
  <2> QED
    BY <2>1
<1>4. ASSUME NEW c \in Clusters, Acquire(c) PROVE Goal
  <2>1. /\ HealthyStep(c) /\ op[c].pc = "acquire" /\ UNCHANGED recovered
        /\ UNCHANGED store \/ Lands(c, op[c].task, op[c].key)
    BY <1>4, AcquireHealthy
  <2> QED
    BY <2>1
<1>5. ASSUME NEW c \in Clusters, ReadBackRecovery(c) \/ Crash(c) PROVE FALSE
  BY <1>5, HealthyFaults DEF ReadBackRecovery, Crash, FreshOf
<1>6. ASSUME NEW c \in Clusters, Restart(c) \/ RecoverGivesUp(c) PROVE Goal
  BY <1>6 DEF Restart, RecoverGivesUp
<1>7. ASSUME NEW c \in Clusters, Recover(c) PROVE Goal
  <2>1. /\ c \notin recovered /\ recovered' = recovered \cup {c}
        /\ UNCHANGED <<op, fenceAge>>
        /\ \A d \in Clusters \ {c} : held'[d] = held[d]
        /\ \A k \in Keys : store'[k] = store[k] /\ held'[c][k] = held[c][k]
    BY <1>7, RecoverFields DEF NoOldClaims, RecoveredEntry
  <2>2. /\ held \in [Clusters -> [Keys -> HeldClaim \cup {NotHeld}]]
        /\ held' \in [Clusters -> [Keys -> HeldClaim \cup {NotHeld}]]
        /\ store \in [Keys -> Claim \cup {Free}] /\ store' \in [Keys -> Claim \cup {Free}]
    BY DEF TypeInv, TypeOK
  <2>3. held'[c] = held[c] /\ store' = store
    BY <2>1, <2>2
  <2>4. held' = held
    BY <2>1, <2>2, <2>3
  <2> QED
    BY <2>1, <2>3, <2>4
<1> HIDE DEF Goal
<1>8. Goal
  <2>1. Elapse => Goal
    BY DEF Goal
  <2> QED
    BY <1>1, <1>2, <1>3, <1>4, <1>5, <1>6, <1>7, <2>1, NextCases
<1> QED
  BY <1>8 DEF Goal

LEMMA HealthNext == HealthInv /\ [Next]_vars => HealthInv'
<1> SUFFICES ASSUME HealthInv, [Next]_vars PROVE HealthInv'
  OBVIOUS
<1>1. ExclusionInv /\ ExclusionInv'
  BY ExclusionNext DEF HealthInv
<1>2. TypeInv /\ TypeInv' /\ TokenInv
  BY <1>1 DEF ExclusionInv, LeaseInv
<1> SUFFICES ASSUME HealthPremise PROVE NoOldClaims' /\ \A c \in Clusters : FreshOf(c)'
  BY <1>1 DEF HealthInv, HealthPremise
<1>3. RecoverFirst /\ NoOldClaims /\ \A c \in Clusters : FreshOf(c)
  BY DEF HealthInv, HealthPremise
<1> DEFINE Goal == NoOldClaims' /\ \A c \in Clusters : FreshOf(c)'
<1> SUFFICES Goal
  OBVIOUS
<1>4. ASSUME UNCHANGED <<store, held, op, fenceAge>>, recovered \subseteq recovered' PROVE Goal
  BY <1>3, <1>4 DEF NoOldClaims, HeldByUs, FreshOf, Holds
<1>5. CASE Elapse
  <2>1. NoOldClaims'
    <3>1. UNCHANGED recovered
      BY <1>5 DEF Elapse
    <3> QED
      BY <1>2, <1>3, <1>5, <3>1, ElapseStore DEF NoOldClaims, HeldByUs
  <2> QED
    BY <1>2, <1>3, <1>5, <2>1, ElapseFresh
<1>6. ASSUME NEW c \in Clusters, HealthyStep(c), StoreHealthy(c), UNCHANGED recovered PROVE Goal
  <2>1. NoOldClaims'
    <3> SUFFICES ASSUME NEW d \in Clusters \ recovered, NEW k \in Keys PROVE ~HeldByUs(d, k)'
      BY <1>6 DEF NoOldClaims
    <3>1. ~HeldByUs(d, k)
      BY <1>3 DEF NoOldClaims
    <3>2. CASE store'[k] = store[k]
      BY <3>1, <3>2 DEF HeldByUs
    <3>3. CASE CurrentToken(c, k) /\ (HeldByUs(c, k)' \/ store'[k] = Free)
      <4>1. c \in recovered
        BY <1>1, <1>3, <3>3, ActiveIsRecovered DEF CurrentToken
      <4> QED
        BY <3>3, <4>1 DEF HeldByUs
    <3> QED
      BY <1>6, <3>2, <3>3 DEF StoreHealthy
  <2> QED
    BY <1>2, <1>3, <1>6, <2>1, HealthyStepFresh
<1>7. ASSUME NEW c \in Clusters, HealthyStep(c), op[c].pc = "acquire", UNCHANGED recovered,
             UNCHANGED store \/ Lands(c, op[c].task, op[c].key)
      PROVE  Goal
  <2>1. c \in recovered /\ op[c].key \in Keys
    BY <1>1, <1>2, <1>3, <1>7, ActiveIsRecovered, OpFields
  <2>2. NoOldClaims'
    BY <1>3, <1>7, <2>1 DEF NoOldClaims, HeldByUs, Lands
  <2> QED
    BY <1>2, <1>3, <1>7, <2>2, HealthyStepFresh
<1> HIDE DEF Goal
<1>8. CASE UNCHANGED vars
  BY <1>4, <1>8 DEF vars
<1>9. CASE Next
  BY <1>2, <1>3, <1>4, <1>5, <1>6, <1>7, <1>9, HealthyCases
<1> QED
  BY <1>8, <1>9

LEMMA HealthInit == Init => HealthInv
<1> SUFFICES ASSUME Init PROVE HealthInv
  OBVIOUS
<1>1. ExclusionInv
  BY ExclusionInit
<1>2. /\ \A k \in Keys : store[k] = Free
      /\ \A c \in Clusters : op[c].pc = "idle" /\ \A k \in Keys : held[c][k] = NotHeld
  BY DEF Init, Idle
<1> QED
  BY <1>1, <1>2 DEF HealthInv, NoOldClaims, FreshOf, Holds, HeldByUs

LEMMA HealthInvariant == Spec => []HealthInv
<1> QED
  BY HealthInit, HealthNext, PTL DEF Spec

\* While the requests about claims are answered, a claim is renewed before its fence,
\* whatever the loop, the methods that hold the mutex and the other claims do meanwhile:
\* no fence stops the Job of a claim that is healthy.
THEOREM HealthyUnfenced == Spec => [](HealthPremise => HealthyClaimNotFenced)
<1>1. HealthInv => (HealthPremise => HealthyClaimNotFenced)
  <2> SUFFICES ASSUME HealthInv, HealthPremise, NEW c \in Clusters, NEW k \in Keys, Holds(c, k)
               PROVE  held[c][k].left >= FenceMargin + FenceLead
    BY DEF HealthyClaimNotFenced
  <2>1. TypeInv /\ FreshOf(c)
    BY DEF HealthInv, ExclusionInv, LeaseInv
  <2> QED
    BY <2>1, HealthyEntries DEF HeldKeys
<1> QED
  BY <1>1, HealthInvariant, PTL

\* A claim inside its success hold stays its executor's: no release event, pass of the
\* tick, recovery or acquire of a peer ends it, for as long as requests are answered.
THEOREM HoldKept == ASSUME HealthPremise PROVE Spec => HoldKeepsClaim
<1>1. ASSUME HealthInv, [Next]_vars, TypeInv', NEW c \in Clusters, NEW k \in Keys,
             Holds(c, k), held[c][k].hold > 0, HeldByUs(c, k)
      PROVE  HeldByUs(c, k)'
  <2>1. /\ ExclusionInv /\ TypeInv /\ TokenInv /\ Covered /\ NoOldClaims
        /\ \A d \in Clusters : FreshOf(d)
    BY <1>1 DEF HealthInv, HealthPremise, ExclusionInv, LeaseInv
  <2>2. CASE store'[k] = store[k]
    BY <1>1, <2>2 DEF HeldByUs
  <2>3. CASE Elapse
    BY <1>1, <2>1, <2>3, ElapseStore DEF HeldByUs
  <2>4. ASSUME NEW d \in Clusters, StoreHealthy(d) PROVE HeldByUs(c, k)'
    <3>1. CASE CurrentToken(d, k)
      <4>1. d = c
        BY <1>1, <2>1, <3>1 DEF TokenInv, HeldByUs
      <4> QED
        BY <1>1, <2>2, <2>4, <4>1 DEF StoreHealthy
    <3> QED
      BY <2>2, <2>4, <3>1 DEF StoreHealthy
  <2>5. ASSUME NEW d \in Clusters, Lands(d, op[d].task, op[d].key) PROVE HeldByUs(c, k)'
    <3>1. Refuses(k)
      <4>1. /\ held[c][k] \in HeldClaim /\ Intact(held[c][k])
            /\ held[c][k].left >= FenceMargin + FenceLead
        BY <1>1, <2>1, HealthyEntries DEF HeldKeys
      <4>2. held[c][k].left \in Int /\ held[c][k].left > 0
        BY <4>1, EntryFields, Numbers DEF HealthPremise
      <4>3. Live(held[c][k]) /\ held[c][k].left > -TakeoverGrace
        BY <1>1, <4>1, <4>2, Numbers DEF Live, Intact, Holds
      <4>4. store[k] # Free /\ store[k] \in Claim /\ store[k].left >= held[c][k].left
        BY <1>1, <2>1, <4>3, HeldEntry DEF Covered, HeldByUs
      <4>5. store[k].left \in Int
        BY <4>4, ClaimFields
      <4> QED
        BY <4>2, <4>4, <4>5 DEF Refuses
    <3> QED
      BY <2>2, <2>5, <3>1 DEF Lands
  <2>6. CASE UNCHANGED vars
    BY <2>2, <2>6 DEF vars
  <2>7. CASE Next
    BY <2>1, <2>2, <2>3, <2>4, <2>5, <2>7, <1>1, HealthyCases
  <2> QED
    BY <1>1, <2>6, <2>7
<1>2. HealthInv /\ HealthInv' /\ [Next]_vars =>
        [\A c \in Clusters, k \in Keys :
           /\ Holds(c, k) /\ held[c][k].hold > 0
           /\ held[c][k].left >= FenceMargin + FenceLead
           /\ HeldByUs(c, k) /\ c \in up'
           => HeldByUs(c, k)']_vars
  <2>1. HealthInv' => TypeInv'
    BY DEF HealthInv, ExclusionInv, LeaseInv
  <2> QED
    BY <1>1, <2>1
<1> QED
  BY <1>2, HealthInvariant, PTL DEF Spec, HoldKeepsClaim
=============================================================================
