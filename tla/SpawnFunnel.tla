---------------------------- MODULE SpawnFunnel -----------------------------
(***************************************************************************)
(* How one executor process turns task records into Jobs                   *)
(* (pkg/handler/task_event_handler*.go, concurrency_admission.go,          *)
(* job_cache.go, job_lookup_denied.go, vault_index_cache.go, task_view.go).*)
(*                                                                         *)
(* Three goroutines drive the same spawn path: the Kafka consumer on every *)
(* task event, the deferred-respawn loop on the entries that were parked,  *)
(* and the reconcile loop on a snapshot of the task view.  They share the  *)
(* parked entries with their removal epochs, a lock and a spawn generation *)
(* per assignee, and the task store.  A task record is old as soon as it   *)
(* is read: the log of a task is the history of its record, and every      *)
(* reader is at a position of its own in it.                               *)
(*                                                                         *)
(* The gates of other components (claim, success record, redrive streak,   *)
(* trigger budget) are one refusal the environment may give a bounded      *)
(* number of times; LeaseManager, SuccessRecord, RedriveStreak and         *)
(* TaskRouting model them.  Queue stamps (queued_at) are TaskRouting's; of *)
(* the tasks that have run the loops here take any first.                  *)
(***************************************************************************)
EXTENDS TaskGate, TLC

CONSTANTS
    Tasks,
    Edits,        \* records a person, an agent or the controller may write
    Starts,       \* [rec, evt, trouble]: each task's first record, whether its event
                  \* was consumed, and what may go wrong, once each
    MaxJobs, MaxBusy   \* bounds of the model

ASSUME FunnelConstants ==
    /\ IsFiniteSet(Tasks)
    /\ None \notin Nat
    /\ \A start \in Starts : start.evt \in [Tasks -> 0..1]

Procs == {"event", "deferred", "reconcile"}
NoJob == 0
NoRecord == None
Free == "free"
NoEntry == [pos |-> 0]
Unread == None       \* a pass cache that holds nothing yet

VARIABLES
    log,       \* log[t]: every record of task t, oldest first (vault and topic)
    jobs,      \* the Jobs created so far: [task, asg, st]
    lost,      \* lost[a]: creates for a whose answer was an error
    evt,       \* evt[t]: events of t the consumer has finished
    seen,      \* seen[t]: records of t the task view has consumed
    mark,      \* mark[t]: the high-water mark the view must reach
    parked,    \* deferredRespawns: the parked entry of t
    epoch,     \* deferredEpochs: removals of t so far
    stored,    \* the task store: the Job recorded for t
    gen,       \* spawnGens, per assignee
    lock,      \* spawnLocks, per assignee
    ps,        \* the goroutines
    evicted,   \* history: newest event of t that evicted its entry
    trouble    \* the edits, faults and crashes that may still come

world == <<log, jobs, lost>>
memory == <<parked, epoch, stored, gen, lock>>
vars == <<log, jobs, lost, evt, seen, mark, parked, epoch, stored,
          gen, lock, ps, evicted, trouble>>

Record(t, n) == log[t][n]
Latest(t) == log[t][Len(log[t])]
ConfigFor(task) == Resolve(task.assignee)
AsgOf(task) == ConfigFor(task).assignee

JobIds == 1..Len(jobs)
IsJobActive(t) == \E j \in JobIds : jobs[j].task = t /\ jobs[j].st = "run"

(* The Jobs of an assignee, by the labels createJob gave them. *)
RunningJobs(a) == {j \in JobIds : jobs[j].asg = a /\ jobs[j].st = "run"}
ListActiveJobs(a) == {jobs[j].task : j \in RunningJobs(a)}

Ready == \A t \in Tasks : seen[t] >= mark[t]

(* A piece of work: the record a goroutine acts on, and the removal epoch  *)
(* it must find unchanged (claim; the consumer has none).                  *)
Item(t, n, rec, claim) ==
    [task |-> t, pos |-> n, rec |-> rec, claim |-> claim, born |-> evicted[t]]
NoItem == [task |-> None, pos |-> 0, rec |-> NoRecord, claim |-> None, born |-> 0]
NoClaim == None

Idle == [pc |-> "idle", item |-> NoItem, todo |-> <<>>, snap |-> [t \in Tasks |-> 0],
         cache |-> [a \in Assignees |-> Unread], index |-> Unread]

(* A record that names no Job goes straight to the lock. *)
Drive(me, item) ==
    [me EXCEPT !.pc = IF item.rec.job = NoJob THEN "lock" ELSE "drive", !.item = item]

(* What a goroutine does after an item: the loops go on with the next one. *)
NextItem(me) ==
    IF me.todo = <<>> THEN Idle ELSE Drive([me EXCEPT !.todo = Tail(@)], Head(me.todo))

(* The sequences that hold each member of S once, in admission order of    *)
(* their records rec (sortDeferredByAdmissionPriority,                     *)
(* sortCandidatesByAdmissionPriority).                                     *)
Orders(S, rec) ==
    {s \in [1..Cardinality(S) -> S] :
        Range(s) = S /\ InAdmissionOrder([i \in DOMAIN s |-> rec[s[i]]])}

-----------------------------------------------------------------------------
Init ==
    \E start \in Starts :
    /\ log = [t \in Tasks |-> <<start.rec[t]>>]
    /\ jobs = <<>>
    /\ lost = [a \in Assignees |-> 0]
    /\ evt = start.evt
    /\ seen = [t \in Tasks |-> 1]
    /\ mark = [t \in Tasks |-> 1]
    /\ parked = [t \in Tasks |-> NoEntry]
    /\ epoch = [t \in Tasks |-> 0]
    /\ stored = [t \in Tasks |-> NoJob]
    /\ gen = [a \in Assignees |-> 0]
    /\ lock = [a \in Assignees |-> Free]
    /\ ps = [p \in Procs |-> Idle]
    /\ evicted = [t \in Tasks |-> 0]
    /\ trouble = start.trouble

(* At most MaxBusy goroutines are in the middle of something. *)
MayStart(p) ==
    ps[p].pc = "idle" /\ Cardinality({q \in Procs : ps[q].pc # "idle"}) < MaxBusy

Trouble(kind) == kind \in trouble /\ trouble' = trouble \ {kind}

(* A command to the controller: it is applied to the newest record. *)
Write(t, rec) == log' = [log EXCEPT ![t] = Append(@, rec)]

(* Epochs are only compared with the claims of work under way: one that    *)
(* nobody holds does not move.                                             *)
ClaimHeld(t) ==
    \E p \in Procs : \E item \in {ps[p].item} \union Range(ps[p].todo) :
        item.task = t /\ item.claim = epoch[t]

(* removeDeferredEntry, for the tasks of T: the entry goes, the epoch      *)
(* moves on.                                                               *)
removeDeferredEntry(T) ==
    /\ parked' = [t \in Tasks |-> IF t \in T THEN NoEntry ELSE parked[t]]
    /\ epoch' = [t \in Tasks |-> IF t \in T /\ ClaimHeld(t) THEN epoch[t] + 1 ELSE epoch[t]]

\* Mutant: the epoch of a replay is not checked.
AnyClaimValid(item) == TRUE

claimStillValid(item) == item.claim = NoClaim \/ item.claim = epoch[item.task]

(* storeGraceWindowDeferral: whatever is parked is replaced. *)
storeGraceWindowDeferral(item) ==
    parked' = IF claimStillValid(item)
              THEN [parked EXCEPT ![item.task] = [pos |-> item.pos, rec |-> item.rec]]
              ELSE parked

-----------------------------------------------------------------------------
(* The environment: records, Jobs, the view's consumer, time. *)

EditTask(t, rec) ==
    /\ Trouble(<<"edit", t>>)
    /\ Write(t, [rec EXCEPT !.job = Latest(t).job, !.started = Latest(t).started])
    /\ UNCHANGED <<jobs, lost, evt, seen, mark, memory, ps, evicted>>

(* The agent ends without a result, within the grace window after          *)
(* job_started_at ("done") or after it ("over"); the record still asks for *)
(* a run.  The Job object of one that is over may be deleted by then       *)
(* (ttlSecondsAfterFinished), which the reader of it finds out.            *)
JobEnds(j) ==
    /\ jobs[j].st = "run"
    /\ \E st \in {"done", "over"} : jobs' = [jobs EXCEPT ![j].st = st]
    /\ UNCHANGED <<log, lost, evt, seen, mark, memory, ps, evicted, trouble>>

(* The grace window after job_started_at is over. *)
GraceElapses(j) ==
    /\ jobs[j].st = "done"
    /\ jobs' = [jobs EXCEPT ![j].st = "over"]
    /\ UNCHANGED <<log, lost, evt, seen, mark, memory, ps, evicted, trouble>>

(* taskView.ConsumeMessage: the view keeps the newest record of each task. *)
ViewConsume(t) ==
    /\ seen[t] < Len(log[t])
    /\ seen' = [seen EXCEPT ![t] = @ + 1]
    /\ UNCHANGED <<world, evt, mark, memory, ps, evicted, trouble>>

-----------------------------------------------------------------------------
(* The Kafka consumer. *)

staleEventForTask(t, rec) == stored[t] # NoJob /\ stored[t] # rec.job

(* cleanupTerminalTask runs before every other gate. *)
Cleans(t, rec) == IsTerminalStatus(rec.status) /\ ~staleEventForTask(t, rec)

(* parseAndFilter refuses: every refusal evicts the parked entry, and a    *)
(* terminal record also ends the task store's entry.                       *)
EventRefused(t) ==
    LET n == evt[t] + 1
        rec == Record(t, n)
    IN  /\ ps["event"].pc = "idle"
        /\ n <= Len(log[t])
        /\ parseAndFilter(rec) # "run"
        /\ removeDeferredEntry({t})
        /\ stored' = IF Cleans(t, rec) THEN [stored EXCEPT ![t] = NoJob] ELSE stored
        /\ evt' = [evt EXCEPT ![t] = n]
        /\ evicted' = [evicted EXCEPT ![t] = n]
        /\ UNCHANGED <<world, seen, mark, gen, lock, ps, trouble>>

(* ConsumeMessage: a view that has not caught up leaves the task to        *)
(* reconcile; a foreign vault and an unusable namespace are left alone.    *)
ConsumeMessage(t) ==
    LET n == evt[t] + 1
        rec == Record(t, n)
        drives == Ready /\ Accepts(rec.vault) /\ ConfigFor(rec).validNamespace
    IN  /\ MayStart("event")
        /\ n <= Len(log[t])
        /\ parseAndFilter(rec) = "run"
        /\ IF drives
           THEN ps' = [ps EXCEPT !["event"] = Drive(Idle, Item(t, n, rec, NoClaim))] /\ evt' = evt
           ELSE ps' = ps /\ evt' = [evt EXCEPT ![t] = n]
        /\ UNCHANGED <<world, seen, mark, memory, evicted, trouble>>

-----------------------------------------------------------------------------
(* The two loops. *)

(* The index lists every task as the vault has it (external). *)
IndexItems ==
    [i \in 1..Cardinality(Tasks) |->
        LET t == SetToSeq(Tasks)[i]
        IN  [id |-> t, status |-> Latest(t).status, phase |-> Latest(t).phase]]

(* vaultIndexFor: the tasks the index calls over, read once a pass; a read *)
(* that failed names none, and is remembered as well.                      *)
IndexRead(me, over) ==
    \/ me.index # Unread /\ over = me.index /\ trouble' = trouble
    \/ me.index = Unread /\ over = indexTerminalIDs(IndexItems) /\ trouble' = trouble
    \/ me.index = Unread /\ over = {} /\ Trouble(<<"index">>)

(* evalDeferredRespawns takes every due entry out of the map, with the     *)
(* epoch it has then, and asks the index before it drives the first one.   *)
(* Which entries are due is up to the clock.                               *)
evalDeferredRespawns(due) ==
    /\ MayStart("deferred")
    /\ due # {}
    /\ \A t \in due : parked[t] # NoEntry
    /\ \E over \in SUBSET Tasks :
          /\ IndexRead(Idle, over)
          /\ \E s \in Orders(due \ over, [t \in due |-> parked[t].rec]) :
                ps' = [ps EXCEPT !["deferred"] = NextItem(
                    [Idle EXCEPT !.index = over,
                                 !.todo = [i \in DOMAIN s |->
                                     Item(s[i], parked[s[i]].pos, parked[s[i]].rec, epoch[s[i]])]])]
    /\ parked' = [t \in Tasks |-> IF t \in due THEN NoEntry ELSE parked[t]]
    /\ UNCHANGED <<world, evt, seen, mark, epoch, stored, gen, lock, evicted>>

(* ReconcileOnce: the snapshot is taken here; the caches live for the pass. *)
ReconcileOnce ==
    /\ MayStart("reconcile")
    /\ Ready
    /\ classifyVaults({Record(t, seen[t]) : t \in {u \in Tasks : seen[u] > 0}}) = "ok"
    /\ ps' = [ps EXCEPT !["reconcile"] = [Idle EXCEPT !.pc = "gather", !.snap = seen]]
    /\ UNCHANGED <<world, evt, seen, mark, memory, evicted, trouble>>

(* A record that lost its assignee is not a candidate: TaskRouting. *)
gatherCandidate(rec) == reconcileTask(rec) = "run" /\ ConfigFor(rec).validNamespace

(* gatherCandidates on the snapshot: foreign tasks are evicted, eligible   *)
(* ones the index does not call over become candidates, with the epoch of  *)
(* this moment.                                                            *)
gatherCandidates ==
    LET me == ps["reconcile"]
        Rec(t) == Record(t, me.snap[t])
        owned == {t \in Tasks : me.snap[t] > 0 /\ Accepts(Rec(t).vault)}
        foreign == {t \in owned : isForeignCluster(Rec(t))}
        eligible == {t \in owned : gatherCandidate(Rec(t))}
    IN  /\ me.pc = "gather"
        /\ \E over \in SUBSET Tasks :
              /\ IndexRead(me, over)
              /\ \E s \in Orders(eligible \ over, [t \in eligible |-> Rec(t)]) :
                    ps' = [ps EXCEPT !["reconcile"] = NextItem(
                        [Idle EXCEPT !.index = over,
                                     !.todo = [i \in DOMAIN s |->
                                         Item(s[i], me.snap[s[i]], Rec(s[i]), epoch[s[i]])]])]
        /\ removeDeferredEntry(foreign)
        /\ UNCHANGED <<world, evt, seen, mark, stored, gen, lock, evicted>>

(* The pass timeout: what is left of the pass is dropped. *)
AbortPass ==
    /\ ps["reconcile"].pc \in {"gather", "drive", "lock"}
    /\ Trouble(<<"timeout">>)
    /\ ps' = [ps EXCEPT !["reconcile"] = Idle]
    /\ UNCHANGED <<world, evt, seen, mark, memory, evicted>>

-----------------------------------------------------------------------------
(* The spawn path, the same for the three goroutines (spawnIfNeededClaimed).*)

Looping == {"deferred", "reconcile"}

(* The goroutine is through with its item. *)
DoneAs(p, me) ==
    /\ ps' = [ps EXCEPT ![p] = NextItem(me)]
    /\ evt' = IF p = "event" THEN [evt EXCEPT ![ps[p].item.task] = ps[p].item.pos] ELSE evt

Done(p) == DoneAs(p, ps[p])

(* jobProvablyFinished: this process recorded that very Job, or no Job, or *)
(* one that is gone by now, which it then forgets.                         *)
JobExists(j, deleted) == jobs[j].st # "over" \/ ~deleted

jobProvablyFinished(t, job, deleted) ==
    stored[t] \notin {NoJob, job} => ~JobExists(stored[t], deleted)

(* Within the grace period after job_started_at. *)
withinRespawnGraceWindow(job) == jobs[job].st = "done"

(* claimProbe: with no entry of its own the process asks the claim store,  *)
(* where another cluster may hold the task.                                *)
claimProbeHeld(t) == stored[t] = NoJob /\ Trouble(<<"refusal">>)

(* checkActiveCurrentJob: before the lock, and only for a record that      *)
(* names a Job.  deleted: whether the stored Job's object is gone.         *)
checkActiveCurrentJob(p, deleted) ==
    LET item == ps[p].item
        t == item.task
        job == item.rec.job
        waits == withinRespawnGraceWindow(job) \/ ~jobProvablyFinished(t, job, deleted)
    IN  /\ ps[p].pc = "drive"
        /\ \/ IsJobActive(t) /\ Done(p) /\ UNCHANGED <<parked, stored, trouble>>
           \/ /\ ~IsJobActive(t)
              /\ IF waits THEN trouble' = trouble ELSE claimProbeHeld(t)
              /\ storeGraceWindowDeferral(item)
              /\ Done(p)
              /\ UNCHANGED stored
           \/ /\ ~IsJobActive(t)
              /\ ~waits
              /\ stored' = IF stored[t] \in {NoJob, job} THEN stored ELSE [stored EXCEPT ![t] = NoJob]
              /\ ps' = [ps EXCEPT ![p].pc = "lock"]
              /\ UNCHANGED <<evt, parked, trouble>>
        /\ UNCHANGED <<world, seen, mark, epoch, gen, lock, evicted>>

(* activeJobsFor: the pass cache may answer while no spawn for the assignee *)
(* came after it; the list is read when the entry is older than jobCacheTTL *)
(* or there is none.  Only the reconcile pass has a cache.                  *)
\* Mutant: the generation is not compared.
CachedForThePass(p, a) == ps[p].cache[a] # Unread

Cached(p, a) == ps[p].cache[a] # Unread /\ ps[p].cache[a].gen = gen[a]

activeJobsFor(p, a) ==
    {ListActiveJobs(a)} \union (IF Cached(p, a) THEN {ps[p].cache[a].active} ELSE {})

(* The lookup of the task's own Job is the count's as well, unless the     *)
(* cached entry grows too old in between; an uncapped assignee is not      *)
(* counted.                                                                *)
SameLookup(own, count, config) ==
    ~Capped(config) \/ own = ListActiveJobs(config.assignee) => count = own

AtCap(listed, config) == AtConcurrencyCap(Cardinality(listed), config)

Remember(p, a, listed) ==
    IF p = "reconcile"
    THEN [ps[p] EXCEPT !.cache[a] = [active |-> listed, gen |-> gen[a]]]
    ELSE ps[p]

(* deferIfAtConcurrencyCap at the cap: the entry is parked unless the task *)
(* was evicted, and a claimed replay gives way to an entry that is there.  *)
Park(item) ==
    parked' = IF claimStillValid(item) /\ (item.claim = NoClaim \/ parked[item.task] = NoEntry)
              THEN [parked EXCEPT ![item.task] = [pos |-> item.pos, rec |-> item.rec]] ELSE parked

\* Mutant: the loops do not take the lock of the assignee.
NoSpawnLock(a) == TRUE

lockAssigneeSpawn(a) == lock[a] = Free

isJobActive(t, listed) == t \in listed

(* The epoch, then the index. *)
finalSpawnRefusals(me, item, refused) ==
    IF ~claimStillValid(item) THEN refused /\ trouble' = trouble
    ELSE \E over \in SUBSET Tasks : IndexRead(me, over) /\ refused = (item.task \in over)

(* Everything from lockAssigneeSpawn up to the claim: the task's own Job,  *)
(* the cap, the epoch and the index.  The epoch only grows and Jobs only   *)
(* end while the lock is held, so these reads are one step; SpawnJob comes *)
(* later, with the lock still held.                                        *)
spawnIfNeededClaimed(p) ==
    LET item == ps[p].item
        config == ConfigFor(item.rec)
        a == AsgOf(item.rec)
    IN  /\ ps[p].pc = "lock"
        /\ lockAssigneeSpawn(a)
        /\ \E own, count \in activeJobsFor(p, a) :
           /\ SameLookup(own, count, config)
           /\ \/ /\ isJobActive(item.task, own)
                 /\ DoneAs(p, Remember(p, a, own))
                 /\ UNCHANGED <<lock, parked, trouble>>
              \/ /\ ~isJobActive(item.task, own)
                 /\ AtCap(count, config)
                 /\ Park(item)
                 /\ DoneAs(p, Remember(p, a, count))
                 /\ UNCHANGED <<lock, trouble>>
              \/ /\ ~isJobActive(item.task, own)
                 /\ ~AtCap(count, config)
                 /\ \E refused \in BOOLEAN :
                       /\ finalSpawnRefusals(ps[p], item, refused)
                       /\ IF refused
                          THEN DoneAs(p, Remember(p, a, count)) /\ UNCHANGED lock
                          ELSE /\ ps' = [ps EXCEPT ![p] = [Remember(p, a, count) EXCEPT !.pc = "spawn"]]
                               /\ lock' = [lock EXCEPT ![a] = p]
                               /\ evt' = evt
                 /\ UNCHANGED parked
        /\ UNCHANGED <<world, seen, mark, epoch, stored, gen, evicted>>

(* A Job lookup is denied, or a gate of another component refuses: the     *)
(* task is left alone.                                                     *)
Refused(p) ==
    /\ ps[p].pc \in {"drive", "lock"}
    /\ Trouble(<<"refusal">>)
    /\ Done(p)
    /\ UNCHANGED <<world, seen, mark, memory, evicted>>

NewJob(p) == [task |-> ps[p].item.task, asg |-> AsgOf(ps[p].item.rec), st |-> "run"]

\* Mutant: an error path returns without releasing the lock.
UnlockForgotten(p) == lock' = lock

Unlock(p) == lock' = [a \in Assignees |-> IF lock[a] = p THEN Free ELSE lock[a]]

(* What a restart leaves of the process: nothing.  The view replays the    *)
(* topic up to its end; the consumer continues after its last event.       *)
Restarted ==
    /\ parked' = [t \in Tasks |-> NoEntry]
    /\ epoch' = [t \in Tasks |-> 0]
    /\ stored' = [t \in Tasks |-> NoJob]
    /\ gen' = [a \in Assignees |-> 0]
    /\ lock' = [a \in Assignees |-> Free]
    /\ ps' = [p \in Procs |-> Idle]
    /\ seen' = [t \in Tasks |-> 0]
    /\ mark' = [t \in Tasks |-> Len(log[t])]

createJob(p) ==
    /\ ps[p].pc = "spawn"
    /\ Len(jobs) < MaxJobs
    /\ jobs' = Append(jobs, NewJob(p))

bumpSpawnGen(a) == gen' = [gen EXCEPT ![a] = @ + 1]

storeSpawnedJob(t, j) == stored' = [stored EXCEPT ![t] = j]

(* The command that writes current_job and job_started_at. *)
PublishSpawnNotification(t, j) == Write(t, [Latest(t) EXCEPT !.job = j, !.started = 1])

(* spawnClaimedJob and finishSpawn: the Job, the generation, the task      *)
(* store, and the notification, whose failure is only logged.              *)
finishSpawn(p) ==
    LET t == ps[p].item.task
        j == Len(jobs) + 1
    IN  /\ createJob(p)
        /\ bumpSpawnGen(AsgOf(ps[p].item.rec))
        /\ storeSpawnedJob(t, j)
        /\ \/ PublishSpawnNotification(t, j) /\ trouble' = trouble
           \/ Trouble(<<"notify">>) /\ UNCHANGED log
        /\ Done(p)
        /\ Unlock(p)
        /\ UNCHANGED <<lost, seen, mark, parked, epoch, evicted>>

(* The Job is there and its trigger cannot be counted: nothing is          *)
(* notified.  The reconcile pass goes on, the others' error ends the       *)
(* process.                                                                *)
CountFails(p) ==
    /\ createJob(p)
    /\ Trouble(<<"notify">>)
    /\ IF p = "reconcile"
       THEN /\ bumpSpawnGen(AsgOf(ps[p].item.rec))
            /\ storeSpawnedJob(ps[p].item.task, Len(jobs) + 1)
            /\ Done(p)
            /\ Unlock(p)
            /\ UNCHANGED <<seen, mark, parked, epoch>>
       ELSE Restarted /\ evt' = evt
    /\ UNCHANGED <<log, lost, evicted>>

(* SpawnJob returns an error, the Job created or not.  The reconcile pass  *)
(* and the deferred loop go on with the next task; the consumer's error    *)
(* ends the process, unless it is permanent and the message went to the    *)
(* dead-letter topic.                                                      *)
SpawnFails(p, created, permanent) ==
    LET a == AsgOf(ps[p].item.rec)
    IN  /\ ps[p].pc = "spawn"
        /\ Trouble(<<"spawn">>)
        /\ created => Len(jobs) < MaxJobs
        /\ jobs' = IF created THEN Append(jobs, NewJob(p)) ELSE jobs
        /\ lost' = IF created THEN [lost EXCEPT ![a] = @ + 1] ELSE lost
        /\ IF p = "event" /\ ~permanent
           THEN Restarted /\ evt' = evt
           ELSE /\ Done(p)
                /\ Unlock(p)
                /\ UNCHANGED <<seen, mark, parked, epoch, stored, gen>>
        /\ UNCHANGED <<log, evicted>>

(* A lookup fails with anything but a denial, or the process is killed.    *)
Crash ==
    /\ Trouble(<<"crash">>)
    /\ Restarted
    /\ UNCHANGED <<world, evt, evicted>>

-----------------------------------------------------------------------------
SpawnPath(p) ==
    \/ \E deleted \in BOOLEAN : checkActiveCurrentJob(p, deleted)
    \/ spawnIfNeededClaimed(p)
    \/ Refused(p)
    \/ finishSpawn(p)
    \/ CountFails(p)
    \/ \E created, permanent \in BOOLEAN : SpawnFails(p, created, permanent)

Environment ==
    \/ \E t \in Tasks, rec \in Edits : EditTask(t, rec)
    \/ \E j \in JobIds : JobEnds(j) \/ GraceElapses(j)
    \/ Crash

Next ==
    \/ Environment
    \/ \E t \in Tasks : ViewConsume(t) \/ EventRefused(t) \/ ConsumeMessage(t)
    \/ \E due \in SUBSET Tasks : evalDeferredRespawns(due)
    \/ ReconcileOnce
    \/ gatherCandidates
    \/ AbortPass
    \/ \E p \in Procs : SpawnPath(p)

Spec == Init /\ [][Next]_vars

-----------------------------------------------------------------------------
(* The state is well formed: positions point into the logs, parked entries *)
(* and stored Jobs exist, and a lock is held by a goroutine that is inside  *)
(* the locked part of the spawn path.                                      *)
TypeOK ==
    /\ \A t \in Tasks : evt[t] <= Len(log[t]) /\ seen[t] <= Len(log[t])
    /\ \A t \in Tasks : parked[t].pos \in 0..Len(log[t])
    /\ \A t \in Tasks : stored[t] \in 0..Len(jobs)
    /\ \A a \in Assignees : lock[a] # Free => ps[lock[a]].pc = "spawn"

(* The concurrency cap of an assignee is exceeded by at most the Jobs      *)
(* whose creation was answered with an error: the count and the create are *)
(* one step for everyone who spawns for that assignee, and a cached count  *)
(* is not used after a spawn (deferIfAtConcurrencyCap, activeJobsFor).     *)
CapRespected ==
    \A a \in Assignees :
        LET c == ConfigNamed[a]
        IN  Capped(c) => Cardinality(ListActiveJobs(a)) <= CapOf(c).cap + lost[a]

(* No task has two Jobs running for the same assignee, whichever of the    *)
(* three goroutines created them, except for one second Job per create     *)
(* that was answered with an error: that one moves no generation, so a     *)
(* pass goes on trusting what it cached before (spawnClaimedJob,           *)
(* bumpSpawnGen, activeJobsFor).                                           *)
OneJobPerTask ==
    \A a \in Assignees :
        Cardinality(RunningJobs(a)) <= Cardinality(ListActiveJobs(a)) + lost[a]

(* An event that evicts a task beats every replay and every candidate that *)
(* was collected before it and is still under way: from then on that one   *)
(* neither passes the final check nor parks its old record again           *)
(* (removeDeferredEntry, claimStillValid, claimInvalidatedLocked).         *)
EvictionBeatsReplay ==
    [][\A p \in Looping :
          LET item == ps[p].item
          IN  \/ ps[p].pc = "lock" /\ ps'[p].pc = "spawn"
              \/ /\ ps[p].pc \in {"drive", "lock"}
                 /\ parked'[item.task] \notin {parked[item.task], NoEntry}
                 /\ ps'[p] # ps[p]
              => evicted[item.task] = item.born]_vars

=============================================================================
