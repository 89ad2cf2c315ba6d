---------------------------- MODULE TaskRouting -----------------------------
(***************************************************************************)
(* One task, its record, and everything the executor writes to it          *)
(* (pkg/handler/task_event_handler*.go, pkg/result_publisher.go).          *)
(*                                                                         *)
(* The executor never writes the record itself.  It sends commands to the  *)
(* controller, which applies them later and in any order; every change of  *)
(* the record comes back as an event.  The executor decides from the last  *)
(* event it consumed, so each decision may rest on a record that lacks     *)
(* what it has already ordered: the count of a spawn, a restored assignee, *)
(* a queue stamp.                                                          *)
(*                                                                         *)
(* Locks, epochs, lookups and current_job are SpawnFunnel's; here a spawn  *)
(* is one step and the fields job and started of the record stay as they   *)
(* are.                                                                    *)
(***************************************************************************)
EXTENDS TaskGate, Functions

CONSTANTS
    FirstRecord,  \* the record the task starts with
    Crashes,      \* the failure classes a run of the task may end with
    Budgets,      \* how often a command is lost, the process restarts, the assignee is
                  \* at its cap, a Job runs and a Job crashes, and the edits one of
                  \* which a person may make: [lose, restart, full, run, crash, patch]
    MaxCmds, MaxTopic   \* bounds

(* The fields the executor writes are in every record.  queued_at is its   *)
(* own: a new task has none, and people do not edit it.                    *)
ASSUME RoutingConstants ==
    /\ FirstRecord = [key \in DOMAIN FirstRecord |-> FirstRecord[key]]
    /\ {"assignee", "prev", "max", "trig", "scope", "queued", "refusal"} \subseteq DOMAIN FirstRecord
    /\ FirstRecord.queued = 0
    /\ \A budget \in Budgets :
          /\ budget = [kind \in DOMAIN budget |-> budget[kind]]
          /\ "patch" \in DOMAIN budget
          /\ \A patch \in budget.patch : "queued" \notin DOMAIN patch

VARIABLES
    file,      \* the record in the vault
    topic,     \* records not yet consumed, oldest first
    view,      \* the last record consumed
    cmds,      \* commands under way to the controller
    running,   \* the record of the task the running Job was spawned from, or None
    parked,    \* the record parked behind the concurrency cap, or None
    stamp,     \* queuedAtStamps: the queue stamp this process remembers, 0 for none
    told,      \* the publisher's dedupe keys for budget refusals
    clock,     \* the next queue stamp
    since,     \* history: the stamp that was next when the present wait began
    spawned,   \* history: spawns since the scope of the last spawn began
    last,      \* history: the scope of the last spawn
    uncounted, \* history: counts that were missing in the record a spawn was decided
               \* from, were lost, or were overwritten by an older one
    left       \* what may still happen

memory == <<parked, stamp, told>>
history == <<spawned, last, uncounted>>
vars == <<file, topic, view, cmds, running, parked, stamp, told, clock, since,
          spawned, last, uncounted, left>>

Init ==
    /\ file = FirstRecord
    /\ topic = <<FirstRecord>>
    /\ view = FirstRecord
    /\ cmds = <<>>
    /\ running = None
    /\ parked = None
    /\ stamp = 0
    /\ told = {}
    /\ clock = 1
    /\ since = 0
    /\ spawned = 0
    /\ last = None
    /\ uncounted = 0
    /\ left \in Budgets

Spend(kind) == left[kind] > 0 /\ left' = [left EXCEPT ![kind] = @ - 1]

-----------------------------------------------------------------------------
(* The publisher: what each command does to the record. *)

Update(changes) == [op |-> "update", changes |-> changes]
Increment == [op |-> "increment", changes |-> <<>>]

PublishIncrementTriggerCount == Increment
PublishSetTriggerScope(write) == Update([scope |-> write.scope, trig |-> write.trig])
\* Mutant: the refusal leaves the assignee in place.
PublishMismatchOnly(task) == Update([prev |-> task.assignee])
PublishTypeMismatchFailure(task) ==
    Update([assignee |-> None, prev |-> task.assignee])
PublishRestoreAssignee(assignee) == Update([assignee |-> assignee])
PublishQueueEntry(at) == Update([queued |-> at])
PublishTriggerBudgetRefusal(key) == Update([refusal |-> key])   \* a body section

(* crashFailureUpdates: a crash arms the cap of a record that has none. *)
crashFailureUpdates(task, class) ==
    IF class \in {"pod_crash_no_stdout", "pod_not_scheduled"} /\ task.max = None
    THEN [max |-> defaultMaxTriggers] ELSE <<>>

(* recordTriggerSpawn: one command for every spawn. *)
recordTriggerSpawn(task) ==
    LET write == triggerBudgetWrite(task)
    IN  IF write.op = "increment" THEN PublishIncrementTriggerCount ELSE PublishSetTriggerScope(write)

Counts(cmd) == cmd.op = "increment" \/ "trig" \in DOMAIN cmd.changes

NothingSent == cmds' = cmds

(* The loops and the watcher wait for room; the consumer does not, so that *)
(* the bound never blocks the flow of events.                              *)
Room(n) == Len(cmds) + n <= MaxCmds

Send(msgs) == cmds' = cmds \o msgs

(* The record with some of its keys written. *)
Written(changes, rec) ==
    [key \in DOMAIN rec |-> IF key \in DOMAIN changes THEN changes[key] ELSE rec[key]]

(* The counts of a scope that are gone when a spawn from an older record   *)
(* writes its own count to it.                                             *)
Overwritten(cmd) ==
    IF /\ cmd.op = "update"
       /\ "trig" \in DOMAIN cmd.changes
       /\ cmd.changes.scope = file.scope
       /\ cmd.changes.trig < file.trig
    THEN file.trig - cmd.changes.trig ELSE 0

(* The controller.  Its increment may also clear the assignee of a record  *)
(* that has reached its cap (external).                                    *)
Applied(cmd, clears) ==
    IF cmd.op = "update" THEN Written(cmd.changes, file)
    ELSE [file EXCEPT !.trig = @ + 1,
                      !.assignee = IF clears /\ file.max # None /\ file.trig + 1 >= file.max
                                   THEN None ELSE @]

ApplyCommand(i, clears) ==
    /\ Len(topic) < MaxTopic
    /\ file' = Applied(cmds[i], clears)
    /\ topic' = IF file' = file THEN topic ELSE Append(topic, file')
    /\ cmds' = RemoveAt(cmds, i)
    /\ uncounted' = uncounted + Overwritten(cmds[i])
    /\ UNCHANGED <<view, running, memory, clock, since, spawned, last, left>>

(* A command is refused or lost after it was sent. *)
LoseCommand(i) ==
    /\ Spend("lose")
    /\ cmds' = RemoveAt(cmds, i)
    /\ uncounted' = IF Counts(cmds[i]) THEN uncounted + 1 ELSE uncounted
    /\ UNCHANGED <<file, topic, view, running, memory, clock, since, spawned, last>>

(* A person edits the record. *)
EditTask(patch) ==
    /\ left' = [left EXCEPT !.patch = {}]
    /\ Len(topic) < MaxTopic
    /\ file' = Written(patch, file)
    /\ file' # file
    /\ topic' = Append(topic, file')
    /\ UNCHANGED <<view, cmds, running, memory, clock, since, history>>

(* The Job ends: with a result, which the agent files, or with a failure,  *)
(* which the watcher files and counts.                                     *)
JobEnds(class) ==
    /\ running # None
    /\ running' = None
    /\ \/ class = "success" /\ NothingSent /\ UNCHANGED left
       \/ /\ class # "success"
          /\ Spend("crash")
          /\ Room(2)
          /\ Send(<<Update(crashFailureUpdates(running, class)), PublishIncrementTriggerCount>>)
    /\ UNCHANGED <<file, topic, view, memory, clock, since, history>>

-----------------------------------------------------------------------------
(* The spawn path from a record rec on. *)

\* Mutant: every deferral is stamped anew.
stampQueueEntryAnew(rec) == clock

\* Mutant: a record without a stamp is parked without one.
stampQueueEntryOnce(rec) == rec.queued

(* stampQueueEntry: the record's own stamp, the view's, the remembered one, *)
(* or a new one, which is remembered and published.                         *)
queuedAtFromView == view'.queued

stampQueueEntry(rec) ==
    IF rec.queued # 0 THEN rec.queued ELSE
    IF queuedAtFromView # 0 THEN queuedAtFromView ELSE
    IF stamp # 0 THEN stamp ELSE clock

recordQueuedAtStamp(at) == stamp' = at

(* by is who drives the task: "event", "reconcile" or "deferred".  The two *)
(* loops hold a claim on the entry they collected, the consumer does not.  *)
Park(rec, entry, by) ==
    LET at == stampQueueEntry(rec)
        new == at = clock
    IN  /\ Spend("full")
        /\ parked' = IF by # "event" /\ entry # None THEN entry ELSE [rec EXCEPT !.queued = at]
        /\ recordQueuedAtStamp(IF new THEN at ELSE stamp)
        /\ clock' = IF new THEN clock + 1 ELSE clock
        /\ since' = IF parked = None THEN clock ELSE since
        /\ IF new THEN Send(<<PublishQueueEntry(at)>>) ELSE NothingSent
        /\ UNCHANGED <<running, told, history>>

RefusalKey(rec) == <<triggerScope(rec), rec.trig, rec.max>>

(* The refusal is published once per key. *)
recordTriggerRefusal(rec) ==
    /\ told' = told \union {RefusalKey(rec)}
    /\ IF RefusalKey(rec) \in told THEN NothingSent
       ELSE Send(<<PublishTriggerBudgetRefusal(RefusalKey(rec))>>)

triggerBudgetRefusesSpawn(rec) == checkTriggerBudget(rec) /\ recordTriggerRefusal(rec)

(* The count of an earlier spawn is missing in rec. *)
Uncounted(rec) ==
    \/ <<rec.trig, rec.scope>> # <<file.trig, file.scope>>
    \/ \E i \in DOMAIN cmds : Counts(cmds[i])

SpawnJob(rec) ==
    /\ ~checkTriggerBudget(rec)
    /\ Spend("run")
    /\ running' = rec
    /\ Send(<<recordTriggerSpawn(rec)>>)
    /\ spawned' = IF last = triggerScope(rec) THEN spawned + 1 ELSE 1
    /\ last' = triggerScope(rec)
    /\ uncounted' = IF Uncounted(rec) THEN uncounted + 1 ELSE uncounted

(* The bound on runs: a gate of another component refuses from now on. *)
OutOfRuns(rec) == ~checkTriggerBudget(rec) /\ left["run"] = 0

(* A wait that ended without another one takes its stamp with it; only the *)
(* deferred loop asks.                                                     *)
clearQueuedAtStampIfNotDeferred(by, entry) ==
    stamp' = IF by = "deferred" /\ entry = None THEN 0 ELSE stamp

(* entry is what is parked for the task when the spawn path begins, full   *)
(* whether the assignee is at its cap.                                     *)
Drive(rec, entry, by, full) ==
    \/ /\ running # None
       /\ parked' = entry
       /\ clearQueuedAtStampIfNotDeferred(by, entry)
       /\ NothingSent
       /\ UNCHANGED <<running, told, clock, since, history, left>>
    \/ running = None /\ full /\ Park(rec, entry, by)
    \/ /\ running = None
       /\ ~full
       /\ parked' = entry
       /\ clearQueuedAtStampIfNotDeferred(by, entry)
       /\ \/ triggerBudgetRefusesSpawn(rec) /\ UNCHANGED <<running, history, left>>
          \/ SpawnJob(rec) /\ UNCHANGED told
          \/ OutOfRuns(rec) /\ NothingSent /\ UNCHANGED <<running, told, history, left>>
       /\ UNCHANGED <<clock, since>>

Stays == UNCHANGED <<running, told, clock, since, history, left>>

removeDeferredEntry == parked' = None /\ stamp' = 0

(* ConsumeMessage and the view's consumer: the next event of the task. *)
ConsumeMessage(full) ==
    LET rec == Head(topic)
        gate == parseAndFilter(rec)
    IN  /\ topic # <<>>
        /\ topic' = Tail(topic)
        /\ view' = rec
        /\ \/ gate = "run" /\ Accepts(rec.vault) /\ Drive(rec, parked, "event", full)
           \/ gate = "run" /\ ~Accepts(rec.vault) /\ NothingSent /\ UNCHANGED <<parked, stamp>> /\ Stays
           \/ /\ gate = "type_mismatch"
              /\ Send(<<PublishTypeMismatchFailure(rec)>>)
              /\ removeDeferredEntry
              /\ Stays
           \/ gate \notin {"run", "type_mismatch"} /\ removeDeferredEntry /\ NothingSent /\ Stays
        /\ UNCHANGED file

(* The assignee of a parked record is written back; no Job is spawned. *)
restoreParkedAssignee(config) == Send(<<PublishRestoreAssignee(config.assignee)>>)

(* One pass of the reconcile loop over the view. *)
ReconcileOnce(full) ==
    LET gate == reconcileTask(view)
        config == resolveConfigForReconcile(view)
    IN  /\ Room(1)
        /\ ownedTasks({view}) # {}
        /\ gate \in {"run", "restore", "type_mismatch", "foreign_cluster"}
        /\ view' = view
        /\ \/ gate = "run" /\ Drive(view, parked, "reconcile", full)
           \/ /\ gate \in {"restore", "type_mismatch"}
              /\ IF gate = "restore" THEN restoreParkedAssignee(config)
                                    ELSE Send(<<PublishTypeMismatchFailure(view)>>)
              /\ UNCHANGED <<parked, stamp>>
              /\ Stays
           \/ gate = "foreign_cluster" /\ removeDeferredEntry /\ NothingSent /\ Stays
        /\ UNCHANGED <<file, topic>>

(* The deferred-respawn loop takes the parked entry and drives it. *)
evalDeferredRespawns(full) ==
    /\ parked # None
    /\ Room(1)
    /\ view' = view
    /\ Drive(parked, None, "deferred", full)
    /\ UNCHANGED <<file, topic>>

\* Mutant: the keys are kept for ever.
DedupeKept == FALSE

(* The dedupe key of a refusal expires. *)
DedupeExpires ==
    /\ told # {}
    /\ told' = {}
    /\ UNCHANGED <<file, topic, view, cmds, running, parked, stamp, clock, since, history, left>>

(* The process restarts: what it remembered is gone, the view is replayed. *)
Restart ==
    /\ Spend("restart")
    /\ parked' = None
    /\ stamp' = 0
    /\ told' = {}
    /\ UNCHANGED <<file, topic, view, cmds, running, clock, since, history>>

-----------------------------------------------------------------------------
Next ==
    \/ \E i \in DOMAIN cmds, clears \in BOOLEAN : ApplyCommand(i, clears)
    \/ \E i \in DOMAIN cmds : LoseCommand(i)
    \/ \E patch \in left.patch : EditTask(patch)
    \/ \E class \in Crashes \union {"success"} : JobEnds(class)
    \/ \E full \in BOOLEAN : ConsumeMessage(full) \/ ReconcileOnce(full) \/ evalDeferredRespawns(full)
    \/ DedupeExpires
    \/ Restart

Spec == Init /\ [][Next]_vars

(* The controller applies what reaches it and Jobs end; the consumer takes *)
(* every event; the reconcile pass is on a ticker and comes to the task    *)
(* again and again, if not without interruption.                           *)
Flow ==
    \/ \E i \in DOMAIN cmds, clears \in BOOLEAN : ApplyCommand(i, clears)
    \/ \E class \in Crashes \union {"success"} : JobEnds(class)

Fairness ==
    /\ WF_vars(Flow)
    /\ WF_vars(ConsumeMessage(FALSE))
    /\ SF_vars(ReconcileOnce(FALSE))
    /\ WF_vars(DedupeExpires)

FairSpec == Spec /\ Fairness

-----------------------------------------------------------------------------
(* The records, commands and stamps are well formed. *)
TypeOK ==
    /\ DOMAIN file = DOMAIN FirstRecord /\ DOMAIN view = DOMAIN FirstRecord
    /\ stamp \in 0..(clock - 1)
    /\ file.queued \in 0..(clock - 1)
    /\ parked # None => parked.queued \in 1..(clock - 1)

(* The trigger budget of a scope is exceeded only for counts that were not *)
(* where a spawn looked: not yet in the record it was decided from, lost,  *)
(* or overwritten by the count of a spawn from an older record, as a       *)
(* parked one may be (checkTriggerBudget, recordTriggerSpawn).             *)
BudgetHolds ==
    file.max # None \/ file.ref # None =>
        spawned <= maxTriggers(file) + uncounted

(* The two filters agree on every record that has an assignee: what the    *)
(* event path would drive the reconcile pass drives, and nothing else      *)
(* (reconcileTask is documented as mirroring parseAndFilter's gates).      *)
FiltersAgree ==
    \A rec \in {file, view} :
        rec.assignee # None => (parseAndFilter(rec) = "run" <=> reconcileTask(rec) = "run")

(* A task that waits behind the cap keeps its place: whatever events,      *)
(* replays or stale records park it again, its queue stamp is never later  *)
(* than the beginning of its wait (stampQueueEntry).                       *)
PlaceKept == parked # None => parked.queued <= since

(* A record that lost its assignee but whose type names a Config gets one  *)
(* back, and the type gate does not take it away again: from some point on *)
(* the routing of the task rests (restoreParkedAssignee).                  *)
RoutingSettles ==
    <>[](reconcileTask(file) \notin {"restore", "type_mismatch"})

(* An exhausted budget ends up on the record: if the record asks for a run *)
(* that the budget refuses for good, the refusal is written to it, even    *)
(* when the first command is lost (recordTriggerRefusal).                  *)
RefusalRecorded ==
    <>[](parseAndFilter(file) = "run" /\ Accepts(file.vault) /\ checkTriggerBudget(file))
        => <>(file.refusal # None)

=============================================================================
