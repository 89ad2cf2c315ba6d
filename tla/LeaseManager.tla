--------------------------- MODULE LeaseManager ---------------------------
(***************************************************************************)
(* The claim leases that keep two executors from running one task          *)
(* (pkg/claim/lease_manager.go, lease_manager_tick.go) together with the   *)
(* part of the spawn path that takes and releases them                     *)
(* (pkg/handler/claim_wiring.go, claim_lifecycle.go) and the Jobs they     *)
(* protect.  One executor runs per cluster; the executors share one claim  *)
(* store (vault-api).                                                      *)
(*                                                                         *)
(* A method of the lease manager runs under its mutex.  op[c] is that      *)
(* mutex: "idle" when it is free, otherwise the request the method is at,  *)
(* so that time, peers, Jobs and crashes interleave between two requests   *)
(* of one method but no second method of the same executor does.           *)
(*                                                                         *)
(* Time is discrete and relative: a deadline is kept as the time left      *)
(* until it, a timestamp as its age, and Elapse moves all of them by one   *)
(* unit.  Values past the point where no guard tells them apart are        *)
(* clipped, so behaviours of any length stay in a finite state space.      *)
(***************************************************************************)
EXTENDS Integers, FiniteSets

CONSTANTS
  Clusters,            \* the executors, one per cluster
  Keys,                \* claim keys (claims/task/.., claims/repo/.., claims/pr/..)
  Tasks,               \* task identifiers
  KeyOf,               \* the claim key of each task (several tasks share a repo key)
  Tokens,              \* lease tokens the store can issue
  LeaseDuration,       \* life of a lease after an acquire or a renew
  RenewInterval,       \* a held claim is renewed this long after its last renew
  FenceMargin,         \* fenceAt is this long before the lease ends
  FenceLead,           \* the fence fires this long before fenceAt
  TakeoverGrace,       \* a lease may be taken over this long after its end
  JoblessGrace,        \* a claim without a Job is released after this long
  JoblessCheckInterval,\* a claim's Job is looked up at most this often
  SuccessGracePeriod,  \* a claim is held this long after its Job succeeded
  TickGap,             \* longest time an executor holds claims without a fence evaluation
  OpTime,              \* longest time a method holds the mutex
  SpawnTime,           \* longest time between taking a claim and creating the Job
  Faults,              \* the failures that may happen, a subset of FaultKinds
  RerunOnLostClaim,    \* the tasks whose Config sets rerunOnLostClaim
  ClaimMode,           \* "on" or "shadow"
  RecoverFirst,        \* TRUE: no task is dispatched before Recover has run
  Free,                \* what the store answers for a key without a claim
  NotHeld,             \* the held set has no entry for a key
  NoTask, NoKey        \* null values

FaultKinds == {
  "readFails",    \* a read of a claim fails
  "acquireFails", \* an acquire fails and did not land
  "acquireLost",  \* an acquire landed but its answer is lost
  "renewFails", "renewLost",
  "releaseFails", "releaseLost",
  "listFails",    \* listing this cluster's claims keeps failing at start
  "checkFails",   \* a lookup of a task's Job fails
  "deleteFails",  \* deleting a Job fails
  "spawnFails",   \* SpawnJob fails before the Job exists
  "spawnLost",    \* SpawnJob created the Job but its answer is lost
  "parkFails",    \* the human_review write of a lost claim never lands
  "crash" }       \* an executor process dies and is replaced

ASSUME ConstantsAssumption ==
  /\ IsFiniteSet(Keys) /\ Keys # {}
  /\ KeyOf \in [Tasks -> Keys]
  /\ Faults \subseteq FaultKinds
  /\ RerunOnLostClaim \subseteq Tasks
  /\ ClaimMode \in {"on", "shadow"}
  /\ RecoverFirst \in BOOLEAN
  /\ NoTask \notin Tasks
  /\ NoKey \notin Keys

\* The code's values in seconds: lease 300, renew 60, margin 60, lead 10, grace 30.
ASSUME TimingAssumption ==
  /\ {LeaseDuration, RenewInterval, FenceMargin, FenceLead, TakeoverGrace, JoblessGrace,
      JoblessCheckInterval, SuccessGracePeriod, TickGap, OpTime, SpawnTime} \subseteq Nat
  /\ TickGap < FenceMargin + FenceLead + TakeoverGrace
  /\ FenceMargin + FenceLead + OpTime + SpawnTime < LeaseDuration
  /\ SpawnTime < JoblessGrace

VARIABLES
  store,     \* [Keys -> claim record or Free]: the shared claim store
  held,      \* [Clusters -> [Keys -> heldClaim or NotHeld]]: leaseManager.held
  op,        \* [Clusters -> the manager method in progress]
  spawn,     \* [Clusters -> [Tasks -> state of the spawn path]]
  jobs,      \* [Clusters -> set of tasks with a non-terminal Job]
  stray,     \* [Clusters -> those of jobs whose executor died since they started]
  doneAge,   \* [Clusters -> [Tasks -> age of the last completion the watcher reports]]
  parked,    \* tasks the vault has at phase human_review
  up,        \* clusters whose executor process runs
  recovered, \* clusters whose process has finished RecoverAtStartup
  fenceAge   \* [Clusters -> time claims were held since the last fence evaluation]

vars == <<store, held, op, spawn, jobs, stray, doneAge, parked, up, recovered, fenceAge>>

-----------------------------------------------------------------------------
(* Types.                                                                  *)

None == -1     \* a zero timestamp in the code

Lefts == (-TakeoverGrace) .. LeaseDuration
CheckAgeCap == JoblessCheckInterval + TickGap * (Cardinality(Keys) - 1)

Claim == [holder : Clusters, task : Tasks, token : Tokens, left : Lefts]

HeldClaim ==
  [task : Tasks, token : Tokens,
   left : Lefts,                            \* leaseUntil
   renewAge : 0 .. RenewInterval,           \* lastRenewAt
   renewNextTick : BOOLEAN,
   pendingDeletion : {"no", "fence", "lost"},
   releasePending : BOOLEAN,
   needsRunningCheck : BOOLEAN,
   hold : None .. SuccessGracePeriod,       \* holdUntil, 0 once it has passed
   jobless : None .. JoblessGrace,          \* joblessSince
   checkAge : None .. CheckAgeCap]          \* lastJoblessCheckAt

ASSUME NullAssumption == Free \notin Claim \cup Clusters /\ NotHeld \notin HeldClaim

TickPhases == {"fence", "releases", "holds", "jobless", "recheck", "renew",
               "fenceBeforeRead", "renewReadBack", "fenceAfterRenew"}

Op == [pc : {"idle", "acquire", "readBack"} \cup TickPhases,
       key : Keys \cup {NoKey}, task : Tasks \cup {NoTask},
       takeover : BOOLEAN,   \* the acquire is made by TakeoverPair
       todo : SUBSET Keys,   \* keys the renew pass has not visited yet
       age : 0 .. OpTime]

SpawnState == [pc : {"idle", "claiming", "conflict", "claimed", "failed"},
               age : 0 .. SpawnTime]

TypeOK ==
  /\ store \in [Keys -> Claim \cup {Free}]
  /\ held \in [Clusters -> [Keys -> HeldClaim \cup {NotHeld}]]
  /\ op \in [Clusters -> Op]
  /\ spawn \in [Clusters -> [Tasks -> SpawnState]]
  /\ jobs \in [Clusters -> SUBSET Tasks]
  /\ stray \in [Clusters -> SUBSET Tasks]
  /\ doneAge \in [Clusters -> [Tasks -> None .. SuccessGracePeriod]]
  /\ parked \subseteq Tasks
  /\ up \subseteq Clusters
  /\ recovered \subseteq Clusters
  /\ fenceAge \in [Clusters -> 0 .. TickGap]

Idle == [pc |-> "idle", key |-> NoKey, task |-> NoTask, takeover |-> FALSE,
         todo |-> {}, age |-> 0]
NoSpawn == [pc |-> "idle", age |-> 0]

-----------------------------------------------------------------------------
(* Helpers.                                                                *)

May(fault, S) == IF fault \in Faults THEN SUBSET S ELSE {{}}
Happens(fault) == fault \in Faults
AtLeast(x, floor) == IF x < floor THEN floor ELSE x
AtMost(x, cap) == IF x > cap THEN cap ELSE x

Holds(c, k) == held[c][k] # NotHeld
HeldKeys(c) == {k \in Keys : Holds(c, k)}

\* Mutant: the fence waits for the end of the lease.
FenceDueAtLeaseEnd(left) == left <= 0

\* fenceDue: now > leaseUntil - FenceMargin - FenceLead.
FenceDue(left) == left < FenceMargin + FenceLead

\* Mutant: a lease may be taken over as soon as it ends.
TakeoverAllowedNoGrace(left) == left <= 0

\* takeoverAllowed: now >= leaseUntil + TakeoverGrace.
TakeoverAllowed(left) == left <= -TakeoverGrace

\* Mutant: a renew is due only after more than the interval.
RenewDueTooLate(h) == h.renewNextTick \/ h.renewAge > RenewInterval

\* renewDue: now - lastRenewAt >= RenewInterval.
RenewDue(h) == h.renewNextTick \/ h.renewAge >= RenewInterval

\* joblessEligible: no other release path owns the claim.
JoblessEligible(h) ==
  /\ h.pendingDeletion = "no"
  /\ ~h.releasePending
  /\ ~h.needsRunningCheck
  /\ h.hold = None

\* requestContext: the requests of a tick end at the earliest fenceAt of the held claims,
\* so they all fail while a claim is past its own and not fenced yet.
PastFence(h) == h.pendingDeletion = "no" /\ h.left <= FenceMargin
DeadlinePassed(c) ==
  op[c].pc \in TickPhases /\ \E k \in HeldKeys(c) : PastFence(held[c][k])

MayInTick(c, fault, S) == IF DeadlinePassed(c) THEN {S} ELSE May(fault, S)

\* Mutant: any claim on the key counts as ours.
HeldByAnyone(c, k) == store[k] # Free

\* heldByUs compares the holder and nothing else.
HeldByUs(c, k) == store[k] # Free /\ store[k].holder = c

\* IsJobRunning answers from the cluster's own Jobs by the task label.
IsJobRunning(c, t) == t \in jobs[c]

\* A held claim as storeClaim, repairOrAdoptSingle and recoverFenceGroup build it.
NewHeld(t, token, left, renewAge) ==
  [task |-> t, token |-> token, left |-> left, renewAge |-> renewAge,
   renewNextTick |-> FALSE, pendingDeletion |-> "no", releasePending |-> FALSE,
   needsRunningCheck |-> FALSE, hold |-> None, jobless |-> None, checkAge |-> None]

(* The claim store, external: vault-api issues a token nobody else has for *)
(* each write, refuses an acquire while a lease is live whoever asks, and  *)
(* renews or releases only for the current token.                          *)

TokensInUse ==
  {store[k].token : k \in {k \in Keys : store[k] # Free}}
    \cup UNION {{held[c][k].token : k \in HeldKeys(c)} : c \in Clusters}

FreshToken(token) ==
  /\ token \in Tokens \ TokensInUse
  /\ \A other \in Tokens \ TokensInUse : token <= other

Refuses(k) == store[k] # Free /\ store[k].left > 0

Written(c, t, token) ==
  [holder |-> c, task |-> t, token |-> token, left |-> LeaseDuration]

CurrentToken(c, k) == Holds(c, k) /\ store[k] # Free /\ store[k].token = held[c][k].token

\* The store after the releases of the keys S by cluster c have landed.
Freed(c, S) == [k \in Keys |-> IF k \in S /\ CurrentToken(c, k) THEN Free ELSE store[k]]

(* One executor's claims after a pass that drops some and changes others.  *)
Dropped(c, S) == [held EXCEPT ![c] = [k \in Keys |-> IF k \in S THEN NotHeld ELSE @[k]]]

\* releaseRef on the keys S: an answer other than success or a stale token (lost in
\* transit, or the request never landed) leaves the claim pending release.
ReleaseRefs(c, S) ==
  \E fail \in MayInTick(c, "releaseFails", S) : \E lost \in May("releaseLost", S \ fail) :
    /\ store' = Freed(c, S \ fail)
    /\ held' = [held EXCEPT ![c] = [k \in Keys |->
         IF k \in lost \cup fail THEN [@[k] EXCEPT !.releasePending = TRUE]
         ELSE IF k \in S THEN NotHeld ELSE @[k]]]

\* Mutant: a release does not ask whether the Job still runs.
ReleaseLockedUnchecked(c, S) == ReleaseRefs(c, S)

\* releaseLocked on the keys S: a failed lookup or a running Job keeps the claim.
ReleaseLocked(c, S) ==
  \E unknown \in MayInTick(c, "checkFails", S) :
    ReleaseRefs(c, {k \in S \ unknown : ~IsJobRunning(c, held[c][k].task)})

\* The next pass of a tick; without held claims the remaining passes do nothing.
GoTo(c, pc) ==
  op' = [op EXCEPT ![c] =
    IF \A k \in Keys : held'[c][k] = NotHeld THEN Idle
    ELSE [Idle EXCEPT !.pc = pc, !.age = op[c].age]]
Finish(c) == op' = [op EXCEPT ![c] = Idle]
SetSpawn(c, t, pc) == spawn' = [spawn EXCEPT ![c][t] = [pc |-> pc, age |-> 0]]

-----------------------------------------------------------------------------
(* Taking a claim: acquireSpawnClaim, ClaimPair, TakeoverPair.             *)

\* claimFailureDecision: shadow lets the dispatch through, on does not.
ClaimFailed(c, t) ==
  /\ SetSpawn(c, t, IF ClaimMode = "shadow" THEN "claimed" ELSE "idle")
  /\ UNCHANGED parked

\* Mutant: every taken-over task is run again.
TookOverAndReran(c, t) == SetSpawn(c, t, "claimed") /\ UNCHANGED parked

\* After a takeover an executor in mode on parks the task unless its Config reruns it.
TookOver(c, t) ==
  IF ClaimMode = "on" /\ t \notin RerunOnLostClaim
  THEN /\ SetSpawn(c, t, "idle")
       /\ \/ parked' = parked \cup {t}
          \/ Happens("parkFails") /\ UNCHANGED parked
  ELSE SetSpawn(c, t, "claimed") /\ UNCHANGED parked

Acquired(c, t) ==
  IF op[c].takeover THEN TookOver(c, t)
  ELSE SetSpawn(c, t, "claimed") /\ UNCHANGED parked

\* ErrLeaseConflict: a create goes on to the takeover, a takeover has failed.
Conflicted(c, t) ==
  IF op[c].takeover THEN ClaimFailed(c, t)
  ELSE SetSpawn(c, t, "conflict") /\ UNCHANGED parked

StartAcquire(c, t, takeover) ==
  /\ op' = [op EXCEPT ![c] = [Idle EXCEPT !.pc = "acquire", !.key = KeyOf[t],
                                          !.task = t, !.takeover = takeover]]
  /\ SetSpawn(c, t, "claiming")
  /\ UNCHANGED parked

\* The spawn path reaches ClaimPair: no Job of the task is active here and the spawn
\* is marked pending.  Any existing claim is a conflict, even an expired one.
ClaimPair(c, t) ==
  LET k == KeyOf[t] IN
  /\ c \in up /\ op[c].pc = "idle"
  /\ RecoverFirst => c \in recovered
  /\ spawn[c][t].pc = "idle" /\ ~IsJobRunning(c, t) /\ t \notin parked
  /\ \/ /\ Holds(c, k) \/ store[k] # Free
        /\ SetSpawn(c, t, "conflict")
        /\ UNCHANGED <<op, parked>>
     \/ /\ ~Holds(c, k) /\ Happens("readFails")
        /\ ClaimFailed(c, t)
        /\ UNCHANGED op
     \/ /\ ~Holds(c, k) /\ store[k] = Free
        /\ StartAcquire(c, t, FALSE)
  /\ UNCHANGED <<store, held, jobs, stray, doneAge, up, recovered, fenceAge>>

\* One takeover attempt after a conflict.  A key found free falls through to the create
\* path; a lease inside its grace is refused.
TakeoverPair(c, t) ==
  LET k == KeyOf[t] IN
  /\ c \in up /\ op[c].pc = "idle"
  /\ spawn[c][t].pc = "conflict"
  /\ \/ /\ Holds(c, k)
        /\ ClaimFailed(c, t)
        /\ UNCHANGED op
     \/ /\ ~Holds(c, k) /\ Happens("readFails")
        /\ ClaimFailed(c, t)
        /\ UNCHANGED op
     \/ /\ ~Holds(c, k) /\ store[k] # Free /\ ~TakeoverAllowed(store[k].left)
        /\ ClaimFailed(c, t)
        /\ UNCHANGED op
     \/ /\ ~Holds(c, k)
        /\ store[k] # Free => TakeoverAllowed(store[k].left)
        /\ StartAcquire(c, t, TRUE)
  /\ UNCHANGED <<store, held, jobs, stray, doneAge, up, recovered, fenceAge>>

\* The acquire of createPrimary and acquireForTakeover reaches the store, or does not.
Acquire(c) ==
  LET t == op[c].task
      k == op[c].key IN
  /\ c \in up /\ op[c].pc = "acquire"
  /\ \/ /\ Refuses(k)
        /\ Conflicted(c, t)
        /\ Finish(c)
        /\ UNCHANGED <<store, held>>
     \/ \E token \in Tokens :
          /\ ~Refuses(k) /\ FreshToken(token)
          /\ store' = [store EXCEPT ![k] = Written(c, t, token)]
          /\ \/ /\ held' = [held EXCEPT ![c][k] =
                              NewHeld(t, token, LeaseDuration, AtMost(op[c].age, RenewInterval))]
                /\ Acquired(c, t)
                /\ Finish(c)
             \/ /\ Happens("acquireLost")
                /\ op' = [op EXCEPT ![c].pc = "readBack"]
                /\ UNCHANGED <<held, spawn, parked>>
     \/ /\ Happens("acquireFails")
        /\ op' = [op EXCEPT ![c].pc = "readBack"]
        /\ UNCHANGED <<store, held, spawn, parked>>
  /\ UNCHANGED <<jobs, stray, doneAge, up, recovered, fenceAge>>

\* readBackRecovery: a claim of this cluster on the key counts as the write that failed.
ReadBackRecovery(c) ==
  LET t == op[c].task
      k == op[c].key IN
  /\ c \in up /\ op[c].pc = "readBack"
  /\ \/ /\ HeldByUs(c, k)
        /\ held' = [held EXCEPT ![c][k] =
             NewHeld(t, store[k].token, store[k].left, AtMost(op[c].age, RenewInterval))]
        /\ Acquired(c, t)
     \/ /\ ~HeldByUs(c, k) \/ Happens("readFails")
        /\ ClaimFailed(c, t)
        /\ UNCHANGED held
  /\ Finish(c)
  /\ UNCHANGED <<store, jobs, stray, doneAge, up, recovered, fenceAge>>

-----------------------------------------------------------------------------
(* Jobs, and the ends of a task that release its claim.                    *)

\* spawnClaimedJob.
SpawnJob(c, t) ==
  /\ c \in up /\ spawn[c][t].pc = "claimed"
  /\ \/ /\ jobs' = [jobs EXCEPT ![c] = @ \cup {t}]
        /\ SetSpawn(c, t, "idle")
     \/ /\ Happens("spawnLost")
        /\ jobs' = [jobs EXCEPT ![c] = @ \cup {t}]
        /\ SetSpawn(c, t, "failed")
     \/ /\ Happens("spawnFails")
        /\ SetSpawn(c, t, "failed")
        /\ UNCHANGED jobs
  /\ UNCHANGED <<store, held, op, stray, doneAge, parked, up, recovered, fenceAge>>

\* Mutant: a plain release ends a success hold.
ReleaseIgnoresHold(c, k) == ReleaseLocked(c, {k})

\* LeaseManager.Release: a success hold outranks a plain release.
Release(c, k) ==
  IF held[c][k].hold > 0 THEN UNCHANGED <<store, held>> ELSE ReleaseLocked(c, {k})

\* The release of a failed spawn, under the claim lock with the pending mark cleared.
ReleaseFailedSpawn(c, t) ==
  LET k == KeyOf[t] IN
  /\ c \in up /\ op[c].pc = "idle"
  /\ spawn[c][t].pc = "failed"
  /\ IF Holds(c, k) /\ held[c][k].task = t
     THEN Release(c, k)
     ELSE UNCHANGED <<store, held>>
  /\ SetSpawn(c, t, "idle")
  /\ UNCHANGED <<op, jobs, stray, doneAge, parked, up, recovered, fenceAge>>

\* Mutant: the pending mark of a spawn in progress is not looked at.
ReleaseTaskClaimIgnoresSpawn(c, k) ==
  /\ c \in up /\ op[c].pc = "idle"
  /\ Holds(c, k)
  /\ Release(c, k)
  /\ UNCHANGED <<op, spawn, jobs, stray, doneAge, parked, up, recovered, fenceAge>>

\* ReleaseTaskClaim: a failed Job's event, or a terminal status or phase of the task.
ReleaseTaskClaim(c, k) ==
  /\ c \in up /\ op[c].pc = "idle"
  /\ Holds(c, k) /\ spawn[c][held[c][k].task].pc = "idle"
  /\ Release(c, k)
  /\ UNCHANGED <<op, spawn, jobs, stray, doneAge, parked, up, recovered, fenceAge>>

\* ReleaseTaskClaimAfterSuccess with the completion time of the last Job that succeeded
\* here; the informer re-delivers that event, so the completion may be old.
ReleaseAfterSuccess(c, k) ==
  LET h == held[c][k]
      holdLeft == SuccessGracePeriod - doneAge[c][h.task] IN
  /\ c \in up /\ op[c].pc = "idle"
  /\ Holds(c, k) /\ spawn[c][h.task].pc = "idle"
  /\ doneAge[c][h.task] # None
  /\ IF holdLeft > 0
     THEN /\ held' = [held EXCEPT ![c][k].hold = AtLeast(holdLeft, h.hold)]
          /\ UNCHANGED store
     ELSE Release(c, k)
  /\ UNCHANGED <<op, spawn, jobs, stray, doneAge, parked, up, recovered, fenceAge>>

\* A Job reaches a terminal condition (or is removed by someone else), whether or not
\* an executor is there to see it.
JobEnds(c, t) ==
  /\ t \in jobs[c]
  /\ jobs' = [jobs EXCEPT ![c] = @ \ {t}]
  /\ stray' = [stray EXCEPT ![c] = @ \ {t}]
  /\ doneAge' \in {doneAge, [doneAge EXCEPT ![c][t] = 0]}
  /\ UNCHANGED <<store, held, op, spawn, parked, up, recovered, fenceAge>>

-----------------------------------------------------------------------------
(* Tick, one action per pass; a pass visits every held key.                *)

\* bestEffortRelease on the keys S ignores the answer; the claim is dropped anyway.
\* It shares the capped deadline: past its own fenceAt a claim's release is never sent.
BestEffortRelease(c, S) ==
  \E unlanded \in IF \E k \in HeldKeys(c) : PastFence(held[c][k])
                  THEN SUBSET S ELSE May("releaseFails", S) :
    /\ {k \in S : PastFence(held[c][k])} \subseteq unlanded
    /\ store' = Freed(c, S \ unlanded)

\* A failed deletion leaves the Job running; a deletion that landed but answered with
\* an error is a failed one followed by JobEnds.
DeleteJobs(c, tasks) ==
  /\ jobs' = [jobs EXCEPT ![c] = @ \ tasks]
  /\ stray' = [stray EXCEPT ![c] = @ \ tasks]

HeldTasks(c, S) == {held[c][k].task : k \in S}

\* Tick starts here; without held claims it does nothing.  Only a fenced claim is
\* released: a lost one belongs to a peer.
RetryPendingDeletions(c) ==
  LET pending == {k \in HeldKeys(c) : held[c][k].pendingDeletion # "no"} IN
  /\ c \in up /\ op[c].pc = "idle" /\ HeldKeys(c) # {}
  /\ \E kept \in May("deleteFails", pending) :
       /\ BestEffortRelease(c, {k \in pending \ kept : held[c][k].pendingDeletion = "fence"})
       /\ held' = Dropped(c, pending \ kept)
       /\ DeleteJobs(c, HeldTasks(c, pending \ kept))
  /\ GoTo(c, "fence")
  /\ UNCHANGED <<spawn, doneAge, parked, up, recovered, fenceAge>>

\* Mutants: the path is not recorded; the claim is dropped although its Job runs on.
FencePendingNoPath(h) == [h EXCEPT !.pendingDeletion = "pending"]
FencePendingForgotten(h) == NotHeld

\* A fenced claim whose Job could not be deleted.
FencePending(h) == [h EXCEPT !.pendingDeletion = "fence"]

\* evaluateFence and fenceClaim.  A claim pending release has no Job left to stop.
Fence(c) ==
  LET due == {k \in HeldKeys(c) : held[c][k].pendingDeletion = "no" /\ FenceDue(held[c][k].left)}
      stopping == {k \in due : ~held[c][k].releasePending} IN
  \E kept \in May("deleteFails", stopping) :
    /\ BestEffortRelease(c, due \ kept)
    /\ held' = [held EXCEPT ![c] = [k \in Keys |->
         IF k \in kept THEN FencePending(@[k])
         ELSE IF k \in due THEN NotHeld ELSE @[k]]]
    /\ DeleteJobs(c, HeldTasks(c, stopping \ kept))

\* The renew pass ends when it has visited the keys that were held when it began.
RenewPass(c, todo) ==
  op' = [op EXCEPT ![c] =
    IF todo = {} THEN Idle
    ELSE [Idle EXCEPT !.pc = "renew", !.todo = todo, !.age = op[c].age]]

EvaluateFence(c) ==
  /\ c \in up /\ op[c].pc \in {"fence", "fenceBeforeRead", "fenceAfterRenew"}
  /\ Fence(c)
  /\ fenceAge' = [fenceAge EXCEPT ![c] = 0]
  /\ CASE op[c].pc = "fence" -> GoTo(c, "releases")
       [] op[c].pc = "fenceBeforeRead" -> op' = [op EXCEPT ![c].pc = "renewReadBack"]
       [] op[c].pc = "fenceAfterRenew" -> RenewPass(c, op[c].todo)
  /\ UNCHANGED <<spawn, doneAge, parked, up, recovered>>

RetryPendingReleases(c) ==
  /\ c \in up /\ op[c].pc = "releases"
  /\ ReleaseRefs(c, {k \in HeldKeys(c) : held[c][k].releasePending})
  /\ GoTo(c, "holds")
  /\ UNCHANGED <<spawn, jobs, stray, doneAge, parked, up, recovered, fenceAge>>

\* The hold is left expired, so that a release that could not happen is tried again.
ReleaseExpiredHolds(c) ==
  /\ c \in up /\ op[c].pc = "holds"
  /\ ReleaseLocked(c, {k \in HeldKeys(c) : held[c][k].hold = 0})
  /\ GoTo(c, "jobless")
  /\ UNCHANGED <<spawn, jobs, stray, doneAge, parked, up, recovered, fenceAge>>

\* joblessDueKeys: never checked, or not checked for JoblessCheckInterval.
JoblessDueKeys(c) ==
  {k \in HeldKeys(c) :
     /\ JoblessEligible(held[c][k])
     /\ held[c][k].checkAge \notin 0 .. (JoblessCheckInterval - 1)}

\* k's last check is older than j's; never checked is oldest of all.  The code breaks
\* ties by key; here they fall either way.
CheckedBefore(c, k, j) ==
  /\ held[c][j].checkAge # None
  /\ held[c][k].checkAge = None \/ held[c][k].checkAge > held[c][j].checkAge

\* The pass budget stops the pass early, but never before its first key.
CheckedInPass(c, S) ==
  /\ S \subseteq JoblessDueKeys(c)
  /\ JoblessDueKeys(c) # {} => S # {}
  /\ \A j \in S : \A k \in JoblessDueKeys(c) : CheckedBefore(c, k, j) => k \in S

\* Mutant: every check without a Job restarts the grace.
JoblessCheckRestarts(c, k, unknown) ==
  [held[c][k] EXCEPT !.checkAge = 0, !.jobless = IF k \in unknown THEN @ ELSE 0]

\* One claim after its Job check: unknown keeps joblessSince, running clears it.
JoblessChecked(c, k, unknown) ==
  LET h == held[c][k]
      since == IF k \in unknown THEN h.jobless
               ELSE IF IsJobRunning(c, h.task) THEN None
               ELSE AtLeast(h.jobless, 0) IN
  [h EXCEPT !.checkAge = 0, !.jobless = since]

ReleaseJoblessClaims(c) ==
  /\ c \in up /\ op[c].pc = "jobless"
  /\ \E checked \in SUBSET HeldKeys(c) : \E unknown \in MayInTick(c, "checkFails", checked) :
     LET gone == {k \in checked \ unknown : JoblessChecked(c, k, unknown).jobless >= JoblessGrace} IN
     \E fail \in MayInTick(c, "releaseFails", gone) : \E lost \in May("releaseLost", gone \ fail) :
       /\ CheckedInPass(c, checked)
       /\ store' = Freed(c, gone \ fail)
       /\ held' = [held EXCEPT ![c] = [k \in Keys |->
            IF k \in gone \ (lost \cup fail) THEN NotHeld
            ELSE IF k \in checked
            THEN [JoblessChecked(c, k, unknown) EXCEPT !.releasePending = (k \in gone)]
            ELSE @[k]]]
  /\ GoTo(c, "recheck")
  /\ UNCHANGED <<spawn, jobs, stray, doneAge, parked, up, recovered, fenceAge>>

\* recheckRunning: a claim adopted with an unknown Job state gets its answer.
RecheckRunning(c) ==
  LET asked == {k \in HeldKeys(c) : held[c][k].needsRunningCheck} IN
  /\ c \in up /\ op[c].pc = "recheck"
  /\ \E unknown \in May("checkFails", asked) :
     LET running == {k \in asked \ unknown : IsJobRunning(c, held[c][k].task)}
         gone == asked \ (unknown \cup running) IN
     \E fail \in MayInTick(c, "releaseFails", gone) : \E lost \in May("releaseLost", gone \ fail) :
       /\ store' = Freed(c, gone \ fail)
       /\ held' = [held EXCEPT ![c] = [k \in Keys |->
            IF k \in running THEN [@[k] EXCEPT !.needsRunningCheck = FALSE]
            ELSE IF k \in lost \cup fail THEN [@[k] EXCEPT !.releasePending = TRUE]
            ELSE IF k \in gone THEN NotHeld ELSE @[k]]]
  /\ RenewPass(c, {k \in Keys : held'[c][k] # NotHeld})
  /\ UNCHANGED <<spawn, jobs, stray, doneAge, parked, up, recovered, fenceAge>>

\* claimLost: the lease is a peer's now, so only the Job is dealt with.
ClaimLost(c, k) ==
  \/ /\ held' = Dropped(c, {k})
     /\ DeleteJobs(c, {held[c][k].task})
  \/ /\ Happens("deleteFails")
     /\ held' = [held EXCEPT ![c][k].pendingDeletion = "lost"]
     /\ UNCHANGED <<jobs, stray>>

Renewable(c, k) ==
  /\ Holds(c, k)
  /\ held[c][k].pendingDeletion = "no"
  /\ ~held[c][k].releasePending
  /\ RenewDue(held[c][k])

\* renewDueClaims passes over a key that is gone, not due, or on its way out.
SkipRenew(c) ==
  /\ c \in up /\ op[c].pc = "renew"
  /\ \E k \in op[c].todo : ~Renewable(c, k) /\ RenewPass(c, op[c].todo \ {k})
  /\ UNCHANGED <<store, held, spawn, jobs, stray, doneAge, parked, up, recovered, fenceAge>>

\* The claim once its renew request is out or answered, and the mutex at what follows the request.
RenewAsked(h) == [h EXCEPT !.renewAge = 0, !.renewNextTick = FALSE]
Renewed(h, token) == [RenewAsked(h) EXCEPT !.token = token, !.left = LeaseDuration]

RenewGoTo(c, k, pc) ==
  op' = [op EXCEPT ![c] = [Idle EXCEPT !.pc = pc, !.key = k, !.todo = op[c].todo \ {k},
                                       !.age = op[c].age]]

RenewLands(c, k) ==
  \E token \in Tokens :
    /\ ~DeadlinePassed(c) /\ CurrentToken(c, k) /\ FreshToken(token)
    /\ store' = [store EXCEPT ![k] = Written(c, held[c][k].task, token)]
    /\ UNCHANGED <<jobs, stray>>
    /\ \/ /\ held' = [held EXCEPT ![c][k] = Renewed(held[c][k], token)]
          /\ RenewGoTo(c, k, "fenceAfterRenew")
       \/ /\ Happens("renewLost")
          /\ held' = [held EXCEPT ![c][k] = RenewAsked(held[c][k])]
          /\ RenewGoTo(c, k, "fenceBeforeRead")

RenewRefused(c, k) ==
  /\ ~DeadlinePassed(c) /\ ~CurrentToken(c, k)
  /\ ClaimLost(c, k)
  /\ RenewGoTo(c, k, "fenceAfterRenew")
  /\ UNCHANGED store

RenewFails(c, k) ==
  /\ Happens("renewFails") \/ DeadlinePassed(c)
  /\ held' = [held EXCEPT ![c][k] = RenewAsked(held[c][k])]
  /\ RenewGoTo(c, k, "fenceBeforeRead")
  /\ UNCHANGED <<store, jobs, stray>>

\* renewClaim up to its answer.  A failed request is decided by a read.
RenewClaim(c) ==
  /\ c \in up /\ op[c].pc = "renew"
  /\ \E k \in op[c].todo :
       /\ Renewable(c, k)
       /\ RenewLands(c, k) \/ RenewRefused(c, k) \/ RenewFails(c, k)
  /\ UNCHANGED <<spawn, doneAge, parked, up, recovered, fenceAge>>

\* renewReadBack after its fence: our unchanged token means the renew did not land, our
\* changed token that it did, and anything else that the claim is lost.
RenewReadBack(c) ==
  LET k == op[c].key
      h == held[c][k] IN
  /\ c \in up /\ op[c].pc = "renewReadBack"
  /\ \/ /\ ~Holds(c, k) \/ Happens("readFails") \/ DeadlinePassed(c) \/ CurrentToken(c, k)
        /\ UNCHANGED <<held, jobs, stray>>
     \/ /\ ~DeadlinePassed(c) /\ Holds(c, k) /\ HeldByUs(c, k) /\ ~CurrentToken(c, k)
        /\ held' = [held EXCEPT ![c][k] =
             [h EXCEPT !.token = store[k].token, !.left = store[k].left]]
        /\ UNCHANGED <<jobs, stray>>
     \/ /\ ~DeadlinePassed(c) /\ Holds(c, k) /\ ~HeldByUs(c, k)
        /\ ClaimLost(c, k)
  /\ op' = [op EXCEPT ![c].pc = "fenceAfterRenew"]
  /\ UNCHANGED <<store, spawn, doneAge, parked, up, recovered, fenceAge>>

-----------------------------------------------------------------------------
(* Restarts.                                                               *)

\* The held set, the mutex and the spawn path are memory; Jobs and claims are not.
Crash(c) ==
  /\ Happens("crash") /\ c \in up
  /\ up' = up \ {c}
  /\ recovered' = recovered \ {c}
  /\ held' = Dropped(c, Keys)
  /\ op' = [op EXCEPT ![c] = Idle]
  /\ spawn' = [spawn EXCEPT ![c] = [t \in Tasks |-> NoSpawn]]
  /\ stray' = [stray EXCEPT ![c] = jobs[c]]
  /\ fenceAge' = [fenceAge EXCEPT ![c] = 0]
  /\ UNCHANGED <<store, jobs, doneAge, parked>>

Restart(c) ==
  /\ c \notin up
  /\ up' = up \cup {c}
  /\ UNCHANGED <<store, held, op, spawn, jobs, stray, doneAge, parked, recovered, fenceAge>>

\* Mutant: a failed lookup counts as no Job.
JobSeenRunning(c, k, unknown) == k \notin unknown /\ IsJobRunning(c, store[k].task)

\* A failed lookup counts as a running Job.
JobMayRun(c, k, unknown) == k \in unknown \/ IsJobRunning(c, store[k].task)

\* The entries of a listed claim that is adopted, to be renewed by the next tick, and of
\* one near its fence whose Job could not be deleted.
RecoverAdopt(claim, unsure) ==
  [NewHeld(claim.task, claim.token, claim.left, 0)
     EXCEPT !.renewNextTick = TRUE, !.needsRunningCheck = unsure]
RecoverFence(claim) ==
  FencePending(NewHeld(claim.task, claim.token, claim.left, RenewInterval))

\* Recover: every claim the store lists for this cluster is fenced, adopted or released.
\* A released claim leaves the held set as it was.
Recover(c) ==
  LET listed == {k \in Keys : HeldByUs(c, k)}
      near == {k \in listed : FenceDue(store[k].left)} IN
  /\ c \in up \ recovered /\ op[c].pc = "idle"
  /\ \E unknown \in May("checkFails", listed) :
     LET jobLeft == {k \in listed : JobMayRun(c, k, unknown)}
         adopted == jobLeft \ near IN
     \E kept \in May("deleteFails", jobLeft \cap near) :
     LET given == listed \ (adopted \cup kept)
         stopped == {store[k].task : k \in (jobLeft \cap near) \ kept} IN
     \E unlanded \in May("releaseFails", given) :
       /\ store' = [k \in Keys |-> IF k \in given \ unlanded THEN Free ELSE store[k]]
       /\ held' = [held EXCEPT ![c] = [k \in Keys |->
            IF k \in adopted THEN RecoverAdopt(store[k], k \in unknown)
            ELSE IF k \in kept THEN RecoverFence(store[k])
            ELSE @[k]]]
       /\ jobs' = [jobs EXCEPT ![c] = @ \ stopped]
       /\ stray' = [stray EXCEPT ![c] =
            @ \ (stopped \cup {store[k].task : k \in adopted \cup kept})]
  /\ recovered' = recovered \cup {c}
  /\ UNCHANGED <<op, spawn, doneAge, parked, up, fenceAge>>

\* RecoverAtStartup gives up after recoverStartupAttempts failed listings.
RecoverGivesUp(c) ==
  /\ Happens("listFails") /\ c \in up \ recovered /\ op[c].pc = "idle"
  /\ recovered' = recovered \cup {c}
  /\ UNCHANGED <<store, held, op, spawn, jobs, stray, doneAge, parked, up, fenceAge>>

-----------------------------------------------------------------------------
(* Time.                                                                   *)

Timely(c) ==
  /\ HeldKeys(c) # {} => fenceAge[c] < TickGap
  /\ op[c].pc = "idle" \/ op[c].age < OpTime
  /\ \A t \in Tasks : spawn[c][t].pc = "claimed" => spawn[c][t].age < SpawnTime

Older(age, cap) == IF age = None THEN None ELSE AtMost(age + 1, cap)
Nearer(left) == AtLeast(left - 1, -TakeoverGrace)

Aged(h) ==
  [h EXCEPT !.left = Nearer(@), !.renewAge = AtMost(@ + 1, RenewInterval),
            !.hold = IF @ = None THEN None ELSE AtLeast(@ - 1, 0),
            !.jobless = Older(@, JoblessGrace), !.checkAge = Older(@, CheckAgeCap)]

\* Time passes, unless an executor's loop or request has used up its bound.
Elapse ==
  /\ \A c \in up : Timely(c)
  /\ store' = [k \in Keys |->
       IF store[k] = Free THEN Free ELSE [store[k] EXCEPT !.left = Nearer(@)]]
  /\ held' = [c \in Clusters |-> [k \in Keys |->
       IF held[c][k] = NotHeld THEN NotHeld ELSE Aged(held[c][k])]]
  /\ op' = [c \in Clusters |->
       IF op[c].pc = "idle" THEN op[c] ELSE [op[c] EXCEPT !.age = @ + 1]]
  /\ spawn' = [c \in Clusters |-> [t \in Tasks |->
       IF spawn[c][t].pc = "claimed" THEN [spawn[c][t] EXCEPT !.age = @ + 1] ELSE spawn[c][t]]]
  /\ doneAge' = [c \in Clusters |-> [t \in Tasks |-> Older(doneAge[c][t], SuccessGracePeriod)]]
  /\ fenceAge' = [c \in Clusters |-> IF HeldKeys(c) # {} THEN fenceAge[c] + 1 ELSE 0]
  /\ UNCHANGED <<jobs, stray, parked, up, recovered>>

-----------------------------------------------------------------------------
(* The specification.  An installation starts with an empty store and every *)
(* executor just started.                                                   *)

Init ==
  /\ store = [k \in Keys |-> Free]
  /\ held = [c \in Clusters |-> [k \in Keys |-> NotHeld]]
  /\ op = [c \in Clusters |-> Idle]
  /\ spawn = [c \in Clusters |-> [t \in Tasks |-> NoSpawn]]
  /\ jobs = [c \in Clusters |-> {}]
  /\ stray = [c \in Clusters |-> {}]
  /\ doneAge = [c \in Clusters |-> [t \in Tasks |-> None]]
  /\ parked = {}
  /\ up = Clusters
  /\ recovered = {}
  /\ fenceAge = [c \in Clusters |-> 0]

TickStep(c) ==
  \/ EvaluateFence(c) \/ RetryPendingReleases(c) \/ ReleaseExpiredHolds(c)
  \/ ReleaseJoblessClaims(c) \/ RecheckRunning(c)
  \/ SkipRenew(c) \/ RenewClaim(c) \/ RenewReadBack(c)

Next ==
  \/ \E c \in Clusters :
       \/ \E t \in Tasks :
            ClaimPair(c, t) \/ TakeoverPair(c, t) \/ SpawnJob(c, t) \/ ReleaseFailedSpawn(c, t)
              \/ JobEnds(c, t)
       \/ \E k \in Keys : ReleaseTaskClaim(c, k) \/ ReleaseAfterSuccess(c, k)
       \/ Acquire(c) \/ ReadBackRecovery(c)
       \/ RetryPendingDeletions(c) \/ TickStep(c)
       \/ Crash(c) \/ Restart(c) \/ Recover(c) \/ RecoverGivesUp(c)
  \/ Elapse

Spec == Init /\ [][Next]_vars

(* The loop, a method that has begun and a restarted process make progress; *)
(* nothing obliges a Job to end, a task to be dispatched or an event to be  *)
(* delivered.  Fairness is strong where a method waits for the mutex: a     *)
(* sync.Mutex hands the lock to the longest waiter.                         *)
Fairness ==
  /\ WF_vars(Elapse)
  /\ \A c \in Clusters :
       /\ SF_vars(RetryPendingDeletions(c))
       /\ SF_vars(Recover(c))
       /\ WF_vars(TickStep(c) \/ Acquire(c) \/ ReadBackRecovery(c))
       /\ WF_vars(Restart(c))
       /\ \A t \in Tasks :
            SF_vars(TakeoverPair(c, t) \/ SpawnJob(c, t) \/ ReleaseFailedSpawn(c, t))

FairSpec == Spec /\ Fairness

-----------------------------------------------------------------------------
(* Properties.                                                             *)

\* What an executor believes it holds is its own in the store, from the acquire until
\* TakeoverGrace after the lease it knows of: no peer's acquire, no release answered to
\* somebody else and no recovery can take it away earlier.  Exempt are the claims whose
\* own release may have landed and those a renew already reported lost.
LiveLeaseIsExclusive ==
  \A c \in Clusters, k \in Keys :
    LET h == held[c][k] IN
    /\ Holds(c, k)
    /\ ~h.releasePending
    /\ h.pendingDeletion # "lost"
    /\ h.left > -TakeoverGrace
    => store[k] # Free /\ store[k].holder = c

\* A claim that is not renewed any more, for whatever reason, reaches its fence before
\* the end of the grace: its Job is stopped, or its deletion is being retried, before a
\* peer may take the key.
FencedBeforeTakeover ==
  \A c \in Clusters, k \in Keys :
    Holds(c, k) /\ held[c][k].pendingDeletion = "no" => held[c][k].left > -TakeoverGrace

\* The store alone lets an acquire replace any expired claim; the read before each
\* acquire must add the grace, although store and claim may change after the read.
NoEarlyTakeover ==
  [][\A k \in Keys :
       /\ store[k] # Free /\ store'[k] # Free
       /\ store'[k].holder # store[k].holder
       => store[k].left <= -TakeoverGrace]_vars

\* A Job that this process started or adopted is always under a claim that the loop
\* still renews or fences, or is waiting for its deletion to be retried.
RunningJobCovered ==
  \A c \in up : \A t \in jobs[c] \ stray[c] :
    /\ Holds(c, KeyOf[t])
    /\ held[c][KeyOf[t]].task = t
    /\ ~held[c][KeyOf[t]].releasePending

\* "Exactly one executor may run a task at a time" (docs/claim-lease-protocol.md:4):
\* for the tasks that are parked after a lost claim, whatever crashes or fails.
NoDoubleRun ==
  \A t \in Tasks \ RerunOnLostClaim : \A c, d \in Clusters :
    t \in jobs[c] /\ t \in jobs[d] => c = d

\* A task that may run again overlaps with its old Job only while that Job is out of
\* reach: left behind by a dead process, or its deletion keeps failing.
Unstoppable(c, t) ==
  \/ t \in stray[c]
  \/ Holds(c, KeyOf[t]) /\ held[c][KeyOf[t]].pendingDeletion # "no"

OverlapOnlyAfterFault ==
  \A t \in Tasks : \A c, d \in Clusters :
    c # d /\ t \in jobs[c] /\ t \in jobs[d] => Unstoppable(c, t) \/ Unstoppable(d, t)

\* No release path frees a claim while the Job it protects keeps running: deletion
\* comes before release, and every other release asks for the Job first.
NeverFreedUnderRunningJob ==
  [][\A k \in Keys :
       /\ store[k] # Free /\ store'[k] = Free
       => store[k].task \notin jobs'[store[k].holder]]_vars

\* Seen without leases, requests and processes, claims and Jobs are those of TaskRuns: a
\* run is begun by the owner of the task while there is no other, an owner gives up no
\* task it runs, and a task that is taken from its owner is parked (acquireSpawnClaim,
\* Tick, Recover, for the tasks that do not run again after a lost claim).
Promise == INSTANCE TaskRuns WITH
  Tasks <- Tasks \ RerunOnLostClaim,
  Nobody <- Free,
  owner <- [t \in Tasks \ RerunOnLostClaim |->
              IF store[KeyOf[t]] = Free THEN Free ELSE store[KeyOf[t]].holder],
  runs <- [t \in Tasks \ RerunOnLostClaim |-> {c \in Clusters : t \in jobs[c]}],
  parked <- parked \ RerunOnLostClaim

ImplementsTaskRuns == Promise!Spec

\* "A claim inside its success hold is kept until the hold expires"
\* (lease_manager.go:604-605): only its fence, a crash or a lost lease end it earlier.
HoldKeepsClaim ==
  [][\A c \in Clusters, k \in Keys :
       /\ Holds(c, k) /\ held[c][k].hold > 0
       /\ held[c][k].left >= FenceMargin + FenceLead
       /\ HeldByUs(c, k) /\ c \in up'
       => HeldByUs(c, k)']_vars

\* As long as its requests succeed a claim is renewed before its fence, however the
\* loop, the claims and the success holds delay each other, so no fence stops a
\* healthy Job.
HealthyClaimNotFenced ==
  \A c \in Clusters, k \in Keys :
    Holds(c, k) => held[c][k].left >= FenceMargin + FenceLead

\* A takeover that parks a task has replaced a claim whose lease "had lapsed"
\* (claim_wiring.go:192): a task nobody ran before is never sent to human_review.
ParkOnlyAfterLapse ==
  [][\A t \in parked' \ parked :
       store[KeyOf[t]] # Free /\ store[KeyOf[t]].left <= -TakeoverGrace]_vars

\* A key is never blocked for good by a claim without a Job: whatever event is missed
\* and however often requests to the store fail, the claim goes, can be taken over, or
\* its Job starts.
Blocked(k) == store[k] # Free /\ store[k].left > -TakeoverGrace

NoKeyBlockedForever ==
  \A k \in Keys : \A c \in Clusters :
    (Blocked(k) /\ store[k].holder = c)
      ~> (~Blocked(k) \/ store[k].holder # c \/ store[k].task \in jobs[c])

=============================================================================
