--------------------------- MODULE SuccessRecord ---------------------------
(***************************************************************************)
(* The record of a task's successful Jobs and what the spawn path makes of *)
(* it: the refs every cluster shares (pkg/claim/success_store.go), the     *)
(* copy in each pod's memory (pkg/task_store.go), and suppressOrPark,      *)
(* which suppresses a task that has just succeeded, parks one that         *)
(* succeeded without moving on, and lets all others be spawned             *)
(* (pkg/handler/recent_success.go, park_succeeded.go).                     *)
(*                                                                         *)
(* One task: records of different tasks never meet.  Its Jobs run one at a *)
(* time, which is what the claims provide (LeaseManager).                  *)
(***************************************************************************)
EXTENDS Integers, FiniteSets

CONSTANTS
  Pods,            \* executor pods, of one or several clusters
  Phases,          \* the phases a Job is spawned for
  HumanReview,     \* the phase of a parked task
  RespawnGrace,    \* defaultRespawnGracePeriod
  Cadence,         \* the period of a recurring task
  Retention,       \* successRecordRetention
  JobTTL,          \* how long a finished Job exists, and its success is delivered
  WriteBackTime,   \* longest time until the controller has applied a published phase
  MaxTime,         \* bound on the clock
  MaxSuccesses,    \* bound on the successful Jobs
  Faults,          \* the failures that may happen, a subset of FaultKinds
  NoJob, NoCompletion, NoPark   \* null values

FaultKinds == {
  "putFails",     \* creating a record fails
  "putLost",      \* a record is created but the answer is lost
  "listFails",    \* the listing before a prune fails
  "deleteFails",  \* a superseded record is not deleted
  "readFails",    \* a lookup of the shared records fails
  "publishFails", \* a park cannot be published
  "crash" }       \* a pod is replaced

ASSUME ConstantsAssumption ==
  /\ {RespawnGrace, Cadence, Retention, JobTTL, WriteBackTime, MaxTime, MaxSuccesses} \subseteq Nat
  /\ HumanReview \notin Phases
  /\ Faults \subseteq FaultKinds

\* The respawn grace covers the controller's cycle; the retention is the longest cadence, or
\* taskRerunWindow if that is longer, and longer than the grace in any case.
ASSUME TimingAssumption ==
  WriteBackTime < RespawnGrace /\ RespawnGrace <= Retention /\ Cadence <= Retention

VARIABLES
  now,            \* the clock
  recurring,      \* the task declares a cadence
  phase,          \* the task's phase in the vault
  job,            \* the phase the running Job was spawned for
  writes,         \* phases published and not applied yet
  completed,      \* the successes of Jobs so far
  refs,           \* the records in the shared store
  rec,            \* [Pods -> the Record call in progress]
  memory,         \* [Pods -> TaskStore.succeeded]
  parkPublished,  \* [Pods -> TaskStore.parked]
  recorded,       \* history: completions that were ever written to the store
  rearmed         \* history: completions before an operator's last re-arm

vars == <<now, recurring, phase, job, writes, completed, refs, rec, memory, parkPublished,
          recorded, rearmed>>

-----------------------------------------------------------------------------
(* Types.                                                                  *)

Time == 0 .. MaxTime
Completion == [phase : Phases, at : Time]
ParkRecord == [completedAt : Time, publishedAt : Time]
Write == [to : Phases \cup {HumanReview}, at : Time, of : Completion]

Record == [pc : {"idle", "put", "list", "prune"},
           keep : Completion \cup {NoCompletion},
           todo : SUBSET Completion]

ASSUME NullAssumption ==
  NoCompletion \notin Completion /\ NoPark \notin ParkRecord /\ NoJob \notin Phases

TypeOK ==
  /\ now \in Time
  /\ recurring \in BOOLEAN
  /\ phase \in Phases \cup {HumanReview}
  /\ job \in Phases \cup {NoJob}
  /\ writes \subseteq Write
  /\ completed \subseteq Completion
  /\ refs \subseteq Completion
  /\ rec \in [Pods -> Record]
  /\ memory \in [Pods -> Completion \cup {NoCompletion}]
  /\ parkPublished \in [Pods -> ParkRecord \cup {NoPark}]
  /\ recorded \subseteq Completion
  /\ rearmed \subseteq Completion

NoRecord == [pc |-> "idle", keep |-> NoCompletion, todo |-> {}]

-----------------------------------------------------------------------------
(* Recording a success.                                                    *)

Happens(fault) == fault \in Faults

Latest(S) == {s \in S : \A r \in S : r.at <= s.at}

\* TaskStore.MarkSucceeded: only a later completion replaces the record.
MarkSucceeded(m, s) == IF m # NoCompletion /\ s.at <= m.at THEN m ELSE s

\* handleSucceededJob: the memory first, then the shared store, unless claimReleaseAllowed
\* finds another Job in the pod's task store.  The informer delivers a finished Job again and
\* again, to every pod.
HandleSucceededJob(p, s) ==
  /\ rec[p].pc = "idle" /\ now < s.at + JobTTL
  /\ memory' = [memory EXCEPT ![p] = MarkSucceeded(@, s)]
  /\ \/ rec' = [rec EXCEPT ![p] = [pc |-> "put", keep |-> s, todo |-> {}]]
     \/ UNCHANGED rec
  /\ UNCHANGED <<now, recurring, phase, job, writes, completed, refs, parkPublished,
                 recorded, rearmed>>

\* The create of Record: a conflict means "already recorded" and goes on to the prune,
\* any other error ends the call.
Put(p) ==
  /\ rec[p].pc = "put"
  /\ \/ /\ refs' = refs \cup {rec[p].keep}
        /\ recorded' = recorded \cup {rec[p].keep}
        /\ \/ rec' = [rec EXCEPT ![p] = [pc |-> "list", keep |-> @.keep, todo |-> {}]]
           \/ Happens("putLost") /\ rec' = [rec EXCEPT ![p] = NoRecord]
     \/ /\ Happens("putFails")
        /\ rec' = [rec EXCEPT ![p] = NoRecord]
        /\ UNCHANGED <<refs, recorded>>
  /\ UNCHANGED <<now, recurring, phase, job, writes, completed, memory, parkPublished,
                 rearmed>>

\* Mutant: every other record of the task is superseded.
SupersededAll(s) == refs \ {s}

\* keepOnly deletes strictly older completions only.
Superseded(s) == {r \in refs : r.at < s.at}

ListForPrune(p) ==
  /\ rec[p].pc = "list"
  /\ \/ rec' = [rec EXCEPT ![p] =
          IF Superseded(@.keep) = {} THEN NoRecord
          ELSE [pc |-> "prune", keep |-> @.keep, todo |-> Superseded(@.keep)]]
     \/ Happens("listFails") /\ rec' = [rec EXCEPT ![p] = NoRecord]
  /\ UNCHANGED <<now, recurring, phase, job, writes, completed, refs, memory, parkPublished,
                 recorded, rearmed>>

\* One delete of the prune; a failed one is logged and the next one follows.
PruneOne(p) ==
  /\ rec[p].pc = "prune"
  /\ \E r \in rec[p].todo :
       /\ \/ refs' = refs \ {r}
          \/ Happens("deleteFails") /\ UNCHANGED refs
       /\ rec' = [rec EXCEPT ![p] =
            IF @.todo = {r} THEN NoRecord
            ELSE [pc |-> "prune", keep |-> @.keep, todo |-> @.todo \ {r}]]
  /\ UNCHANGED <<now, recurring, phase, job, writes, completed, memory, parkPublished,
                 recorded, rearmed>>

-----------------------------------------------------------------------------
(* Deciding on a spawn.                                                    *)

\* The filter of Lookup; a record ages from its completion.
Expired(s) == now >= s.at + Retention

\* What lastSuccess knows at the task's phase: the memory and the records it has read.
KnownSuccesses(p, read) ==
  {s \in read \cup {memory[p]} :
     s # NoCompletion /\ s.phase = phase /\ (s \in read => ~Expired(s) \/ s = memory[p])}

\* Mutant: what a peer recorded does not count once the pod has a success of its own.
MemoryFirst(p, read) ==
  IF memory[p] # NoCompletion /\ memory[p].phase = phase
  THEN {memory[p]} ELSE Latest(KnownSuccesses(p, read))

\* lastSuccess: the later of both wins.
LastSuccess(p, read) == Latest(KnownSuccesses(p, read))

InGrace(since) == now - since < RespawnGrace

\* recentlySucceeded: the cadence of a recurring task, the grace of any other.
RecentlySucceeded(s) == IF recurring THEN now < s.at + Cadence ELSE InGrace(s.at)

ParkedBefore(p, s) == parkPublished[p] # NoPark /\ parkPublished[p].completedAt = s.at

\* Mutant: a park that went out ends the suppression at once.
ParkSuppressesNothing(p, s) == FALSE

\* A park that may still be on its way to the vault.
ParkAwaitsWriteBack(p, s) == InGrace(parkPublished[p].publishedAt)

\* The task is not held back here; the gates that follow may still refuse it.
LetSpawn == job' \in {job, phase} /\ UNCHANGED <<writes, parkPublished>>
Suppress == UNCHANGED <<job, writes, parkPublished>>

\* parkSucceededWithoutPhaseMove for a task past its grace.
Park(p, s) ==
  IF ParkedBefore(p, s)
  THEN IF ParkAwaitsWriteBack(p, s) THEN Suppress ELSE LetSpawn
  ELSE \/ /\ writes' = writes \cup {[to |-> HumanReview, at |-> now, of |-> s]}
          /\ parkPublished' = [parkPublished EXCEPT ![p] =
               [completedAt |-> s.at, publishedAt |-> now]]
          /\ UNCHANGED job
       \/ Happens("publishFails") /\ Suppress

\* spawnIfNeededClaimed around suppressOrPark, with the records it has read: no Job of the
\* task is active, and the success it finds is remembered.
SuppressOrPark(p, read) ==
  LET found == LastSuccess(p, read) IN
  /\ phase \in Phases /\ job = NoJob
  /\ IF found = {}
     THEN LetSpawn /\ UNCHANGED memory
     ELSE \E s \in found :
            /\ memory' = [memory EXCEPT ![p] = MarkSucceeded(@, s)]
            /\ IF RecentlySucceeded(s) THEN Suppress
               ELSE IF recurring THEN LetSpawn
               ELSE Park(p, s)

Decide(p) ==
  /\ SuppressOrPark(p, refs)
  /\ UNCHANGED <<now, recurring, phase, completed, refs, rec, recorded, rearmed>>

\* A failed read leaves the decision to the memory.
DecideBlind(p) ==
  /\ Happens("readFails")
  /\ SuppressOrPark(p, {})
  /\ UNCHANGED <<now, recurring, phase, completed, refs, rec, recorded, rearmed>>

\* A reconcile pass starts with this; the decisions of the other goroutines do not.
PruneSucceededBefore(p) ==
  /\ memory[p] # NoCompletion /\ memory[p].at < now - Retention
  /\ memory' = [memory EXCEPT ![p] = NoCompletion]
  /\ UNCHANGED <<now, recurring, phase, job, writes, completed, refs, rec, parkPublished,
                 recorded, rearmed>>

-----------------------------------------------------------------------------
(* The Job, the vault and the pods.                                        *)

\* A Job succeeds: its agent has published the phase it leaves the task at.  No two Jobs of
\* one phase end in the same second.
JobSucceeds ==
  /\ job # NoJob /\ Cardinality(completed) < MaxSuccesses
  /\ LET s == [phase |-> job, at |-> now] IN
     /\ s \notin completed
     /\ completed' = completed \cup {s}
     /\ \E to \in Phases : writes' = writes \cup {[to |-> to, at |-> now, of |-> s]}
  /\ job' = NoJob
  /\ UNCHANGED <<now, recurring, phase, refs, rec, memory, parkPublished, recorded, rearmed>>

JobFails ==
  /\ job # NoJob
  /\ job' = NoJob
  /\ UNCHANGED <<now, recurring, phase, writes, completed, refs, rec, memory, parkPublished,
                 recorded, rearmed>>

\* The controller applies published phases in the order of their publication.
WriteBack ==
  /\ \E w \in writes :
       /\ \A v \in writes : w.at <= v.at
       /\ phase' = w.to
       /\ writes' = writes \ {w}
  /\ UNCHANGED <<now, recurring, job, completed, refs, rec, memory, parkPublished, recorded,
                 rearmed>>

\* An operator puts a parked task back to a phase to be run again.
ReArm ==
  /\ phase = HumanReview
  /\ \E to \in Phases : phase' = to
  /\ rearmed' = completed
  /\ UNCHANGED <<now, recurring, job, writes, completed, refs, rec, memory, parkPublished,
                 recorded>>

\* A new pod starts with an empty task store.
Crash(p) ==
  /\ Happens("crash")
  /\ rec' = [rec EXCEPT ![p] = NoRecord]
  /\ memory' = [memory EXCEPT ![p] = NoCompletion]
  /\ parkPublished' = [parkPublished EXCEPT ![p] = NoPark]
  /\ UNCHANGED <<now, recurring, phase, job, writes, completed, refs, recorded, rearmed>>

Elapse ==
  /\ now < MaxTime
  /\ \A w \in writes : now - w.at < WriteBackTime
  /\ now' = now + 1
  /\ UNCHANGED <<recurring, phase, job, writes, completed, refs, rec, memory, parkPublished,
                 recorded, rearmed>>

Init ==
  /\ now = 0
  /\ recurring \in BOOLEAN
  /\ phase \in Phases
  /\ job = NoJob
  /\ writes = {} /\ completed = {} /\ refs = {} /\ recorded = {} /\ rearmed = {}
  /\ rec = [p \in Pods |-> NoRecord]
  /\ memory = [p \in Pods |-> NoCompletion]
  /\ parkPublished = [p \in Pods |-> NoPark]

Next ==
  \/ \E p \in Pods :
       \/ \E s \in completed : HandleSucceededJob(p, s)
       \/ Put(p) \/ ListForPrune(p) \/ PruneOne(p)
       \/ Decide(p) \/ DecideBlind(p) \/ PruneSucceededBefore(p) \/ Crash(p)
  \/ JobSucceeds \/ JobFails \/ WriteBack \/ ReArm \/ Elapse

Spec == Init /\ [][Next]_vars

-----------------------------------------------------------------------------
(* Properties.                                                             *)

\* keepOnly's "whole safety property" (success_store.go:270): whatever pods record and
\* prune at once, however stale their listings, a completion leaves the store only for a
\* newer one.
NewestRecordSurvives ==
  \A r \in recorded : \E s \in refs : s = r \/ s.at > r.at

\* A success on record at the task's phase keeps every pod that can read the store, a
\* restarted one and a peer's too, from running that phase again: until the cadence of a
\* recurring task, and until an operator re-arms any other.
SuccessNotRerun ==
  [][\A p \in Pods : Decide(p) /\ job' # job =>
       \A s \in Latest(completed) \cap recorded :
         s.phase = phase =>
           IF recurring THEN now >= s.at + Cadence ELSE Expired(s) \/ s \in rearmed]_vars

\* A park tells "the agent parked" from "the agent advanced and the write has not landed"
\* (park_succeeded.go:49-51): no pod parks a task while a recorded Job of the task's phase
\* has a phase of its own on the way to the vault.
ParkAfterWriteBack ==
  [][\A p \in Pods : Decide(p) /\ writes' # writes =>
       \A w \in writes : w.of.phase = phase /\ w.of \in refs => w.to = HumanReview]_vars

\* "past it the park landed and an operator re-armed the task - the documented way out of
\* human_review - so let it spawn" (park_succeeded.go:117-118): a re-armed task is not
\* parked again for the success it was re-armed from.
ReArmIsHonoured ==
  [][\A w \in writes' \ writes : w.to = HumanReview => w.of \notin rearmed]_vars

=============================================================================
