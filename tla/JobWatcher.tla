----------------------------- MODULE JobWatcher -----------------------------
(***************************************************************************)
(* The watcher of the Jobs of one task, the zombie sweeper, the in-memory  *)
(* task store and the failure publisher (pkg/job_watcher.go,               *)
(* pkg/zombie_sweeper.go, pkg/task_store.go, pkg/zombie_reason.go,         *)
(* pkg/result_publisher.go).                                               *)
(*                                                                         *)
(* Three goroutines publish failures: the handler of the Job informer,     *)
(* that of the Pod informer, and the sweeper.  Each reads the task store   *)
(* and the publisher's dedupe map, then sends two commands, and only then  *)
(* records the dedupe key and removes the store entry; the others and the  *)
(* spawn path run in between.                                              *)
(*                                                                         *)
(* Jobs are numbered in the order they are spawned.  Time advances by one  *)
(* resync period (Tick), at which the informers deliver every object anew. *)
(***************************************************************************)
EXTENDS Integers, FiniteSets, FiniteSetsExt

CONSTANTS
    Namespaces,  \* where Jobs may live
    Home,        \* the executor's own namespace
    Failures,    \* how a Job may fail: [cond: its Failed condition, pod: what is left of its pod]
    Window,      \* storeMissPublishWindow, in resync periods
    Ttl,         \* dedupeTTL, in resync periods
    Keep,        \* how long a finished Job is kept (TTLSecondsAfterFinished)
    ArmWindow,   \* podNotScheduledArmWindow
    Deadline,    \* the task's zombie deadline
    MaxJobs,     \* bound on the Jobs of the task
    Budgets      \* what may happen, and how often:
                 \* [jobs, error, restart, move, evict, ill, fence]

ASSUME WatcherConstants ==
    /\ Home \in Namespaces
    /\ Window \in Nat /\ Ttl \in Nat /\ Keep \in Nat
    /\ Window < Ttl       \* required by the comment on storeMissPublishWindow
    /\ ArmWindow \in Nat /\ Deadline \in Nat /\ MaxJobs \in Nat
    /\ \A end \in Failures : /\ end.cond # "Complete"
                             /\ end.pod \in {"none", "crashed", "oom", "evicted"}
    /\ \A budget \in Budgets :
          /\ budget = [kind \in DOMAIN budget |-> budget[kind]]
          /\ {"move", "error", "restart"} \subseteq DOMAIN budget
          /\ budget.move \in Nat /\ budget.error \in Nat /\ budget.restart \in Nat

Jobs == 1..MaxJobs
MaxReports == 2   \* bound: more reports are not told apart
Workers == {"jobs", "pods", "sweeper"}

VARIABLES
    kube,     \* the Jobs in the cluster, each with its pod
    store,    \* TaskStore: the Job the task's entry names, 0 for no entry
    spawning, \* the Job that was created and is not yet in the store, or 0
    conf,     \* the namespace the assignee's Config names
    watched,  \* namespaces with informers
    synced,   \* those whose caches have synced
    due,      \* deliveries to come: <<"job", j>> and <<"pod", j>>
    work,     \* what each goroutine is doing
    dedupe,   \* publisher: resync periods for which a Job's key is still valid
    reports,  \* trigger_count increments sent for a Job's failure
    class,    \* the class of the last failure reported for a Job
    raced,    \* history: Jobs that two goroutines reported at the same time, that were
              \* reported before a restart, or whose entry outlived the key of the report
    early,    \* history: Jobs reported while they were active
    left      \* what else may still happen

vars == <<kube, store, spawning, conf, watched, synced, due, work, dedupe, reports, class, raced, early, left>>
cluster == <<kube, spawning, conf>>
informers == <<watched, synced>>
records == <<reports, class, raced, early>>

Unborn == [st |-> "none", pod |-> "none", ns |-> Home, cond |-> "none", age |-> 0, run |-> 0,
           fresh |-> FALSE, alone |-> TRUE, ill |-> FALSE]
Idle == [pc |-> "idle", job |-> 0, task |-> 0, reason |-> <<"none">>]

Init ==
    /\ kube = [j \in Jobs |-> Unborn]
    /\ store = 0
    /\ spawning = 0
    /\ conf = Home
    /\ watched = {Home}
    /\ synced = {Home}
    /\ due = {}
    /\ work = [w \in Workers |-> Idle]
    /\ dedupe = [j \in Jobs |-> 0]
    /\ reports = [j \in Jobs |-> 0]
    /\ class = [j \in Jobs |-> "none"]
    /\ raced = {}
    /\ early = {}
    /\ left \in Budgets

Spend(kind) == left[kind] > 0 /\ left' = [left EXCEPT ![kind] = @ - 1]

Active(j) == kube[j].st = "active"
IsJobFailed(j) == kube[j].st = "failed"
IsJobSucceeded(j) == kube[j].st = "succeeded"

(* taskHasActiveJob: the Jobs of the task in one namespace. *)
taskHasActiveJob(namespace) == \E j \in Jobs : Active(j) /\ kube[j].ns = namespace

-----------------------------------------------------------------------------
(* Failure reasons.  A reason is the text of the failure section: its      *)
(* first word, and what is put in brackets behind it.                      *)

zombieReasonValues == {"image_pull_backoff", "pod_evicted", "deadline_exceeded", "pod_not_scheduled",
                       "pod_crash_no_stdout", "executor_watch_lost", "type_mismatch", "pod_oom_killed"}
jobFailedConditionAliases == {"BackoffLimitExceeded", "PodFailurePolicy", "JobFailed"}

\* Mutant: the condition names are not known.
ParseWithoutAliases(reason) == IF reason[1] \in zombieReasonValues THEN reason[1] ELSE "unknown"

ParseZombieReason(reason) ==
    CASE reason[1] \in zombieReasonValues -> reason[1]
      [] reason[1] \in jobFailedConditionAliases -> "pod_crash_no_stdout"
      [] OTHER -> "unknown"

(* What the cached pod of a failed Job tells: how its container ended. *)
terminalPodDetail(j) ==
    CASE kube[j].pod = "oom" -> "OOMKilled"
      [] kube[j].pod = "crashed" -> "Error"
      [] OTHER -> "pod-unresolved"

jobFailedCondition(j) == IF kube[j].cond = "none" THEN "JobFailed" ELSE kube[j].cond

backoffFailureReason(j) ==
    LET detail == terminalPodDetail(j)
    IN  CASE detail = "pod-unresolved" -> <<"BackoffLimitExceeded", detail>>
          [] detail = "OOMKilled" -> <<"pod_oom_killed", detail>>
          [] OTHER -> <<"pod_crash_no_stdout", detail>>

fallthroughFailureReason(j) ==
    IF terminalPodDetail(j) = "pod-unresolved" THEN <<jobFailedCondition(j)>>
    ELSE <<jobFailedCondition(j), terminalPodDetail(j)>>

failureReason(j) ==
    CASE kube[j].cond = "DeadlineExceeded" -> <<"deadline_exceeded">>
      [] kube[j].cond = "BackoffLimitExceeded" -> backoffFailureReason(j)
      [] OTHER -> fallthroughFailureReason(j)

(* What the Pod handler makes of a pod; "" where it sees no failure. *)
classifyPodFailure(j) ==
    CASE kube[j].pod = "waiting" -> "image_pull_backoff"
      [] kube[j].pod = "evicted" -> "pod_evicted"
      [] kube[j].pod \in {"crashed", "oom"} -> "pod_crash_no_stdout"
      [] OTHER -> ""

(* What the sweeper makes of the pods of the task in one namespace. *)
classify(namespace) ==
    LET pods == {kube[j].pod : j \in {i \in Jobs : kube[i].ns = namespace}} \ {"none"}
    IN  CASE pods = {} -> {"executor_watch_lost"}
          [] "running" \in pods \/ "unscheduled" \in pods ->
                (IF "running" \in pods THEN {""} ELSE {}) \union
                (IF "unscheduled" \in pods THEN {"pod_not_scheduled"} ELSE {})
          [] OTHER -> {"deadline_exceeded"}

-----------------------------------------------------------------------------
(* The cluster, and the spawn path as far as it touches the store. *)

\* Mutant: the informers are not scoped to a namespace.
DeliveriesOfAll(jobs, namespaces) ==
    {<<"job", j>> : j \in {i \in DOMAIN jobs : jobs[i].st \in {"failed", "succeeded"}}}

(* What the informers of some namespaces deliver of the Jobs in jobs.      *)
(* Active Jobs and pods without trouble are left out: the handlers return. *)
Deliveries(jobs, namespaces) ==
    LET there == {j \in DOMAIN jobs : jobs[j].ns \in namespaces}
    IN  {<<"job", j>> : j \in {i \in there : jobs[i].st \in {"failed", "succeeded"}}}
        \union {<<"pod", j>> : j \in {i \in there : jobs[i].pod \in {"waiting", "evicted", "crashed", "oom"}}}

(* SpawnJob: only when no Job of the task is active (isJobActive).  A      *)
(* failure not yet reported is from now on not alone.                      *)
SpawnJob(j) ==
    /\ kube[j].st = "none" /\ j <= left.jobs
    /\ \A i \in Jobs : i < j => kube[i].st \notin {"none", "active"}
    /\ spawning = 0
    /\ kube' = [i \in Jobs |->
                   IF i = j THEN [Unborn EXCEPT !.st = "active", !.ns = conf]
                   ELSE [kube[i] EXCEPT !.alone = @ /\ kube[i].st = "gone"]]
    /\ spawning' = j
    /\ UNCHANGED <<store, conf, informers, due, work, dedupe, records, left>>

storeSpawnedJob ==
    /\ spawning # 0
    /\ store' = spawning
    /\ spawning' = 0
    /\ UNCHANGED <<kube, conf, informers, due, work, dedupe, records, left>>

(* The pod moves on; "unscheduled" (past podNotScheduledGraceWindow, so    *)
(* after the spawn was stored), "waiting" and "evicted" are troubles a Job *)
(* may get over.                                                           *)
PodMoves(j, pod) ==
    /\ Active(j)
    /\ kube[j].pod # pod
    /\ pod = "unscheduled" => spawning # j
    /\ \/ pod = "running" /\ left' = left
       \/ pod \in {"unscheduled", "waiting", "evicted"} /\ Spend("ill")
    /\ kube' = [kube EXCEPT ![j].pod = pod, ![j].ill = @ \/ pod # "running"]
    /\ due' = due \union {d \in Deliveries(kube', watched) : d[2] = j}
    /\ UNCHANGED <<store, spawning, conf, informers, work, dedupe, records>>

JobEnds(j, end) ==
    /\ Active(j)
    /\ kube' = [kube EXCEPT ![j].st = IF end.cond = "Complete" THEN "succeeded" ELSE "failed",
                            ![j].cond = end.cond, ![j].pod = end.pod, ![j].fresh = TRUE]
    /\ due' = due \union {d \in Deliveries(kube', watched) : d[2] = j}
    /\ UNCHANGED <<store, spawning, conf, informers, work, dedupe, records, left>>

(* The fence of the lease deletes the task's Jobs; their pods follow, some *)
(* after they were seen to fail.  Nothing tells the Job handler (the       *)
(* informer has no DeleteFunc).  What was delivered before is handled.     *)
DeleteJob ==
    LET doomed == {j \in Jobs : kube[j].st \notin {"none", "gone", "deleted"} /\ kube[j].ns = conf}
    IN  /\ doomed # {}
        /\ Spend("fence")
        /\ \A j \in doomed : <<"job", j>> \notin due
        /\ \E killed \in SUBSET {j \in doomed : kube[j].pod = "running"} :
              kube' = [j \in Jobs |->
                  IF j \notin doomed THEN kube[j]
                  ELSE [kube[j] EXCEPT !.st = "deleted",
                                       !.pod = IF j \in killed THEN "crashed" ELSE @]]
        /\ due' = due \union {d \in Deliveries(kube', watched) : d[2] \in doomed /\ kube[d[2]].pod = "running"}
        /\ UNCHANGED <<store, spawning, conf, informers, work, dedupe, records>>

(* An event of the task with a terminal status removes the entry. *)
cleanupTerminalTask ==
    /\ store # 0
    /\ Spend("evict")
    /\ store' = 0
    /\ UNCHANGED <<cluster, informers, due, work, dedupe, records>>

(* DeleteIfCurrentJob: the spawn path drops the entry of a Job that no     *)
(* longer exists, if it is still the entry it looked at.                   *)
DeleteIfCurrentJob(stored) ==
    /\ store = stored
    /\ kube[stored].st \in {"gone", "deleted"}
    /\ store' = 0
    /\ UNCHANGED <<cluster, informers, due, work, dedupe, records, left>>

-----------------------------------------------------------------------------
(* The informers. *)

ConfigMoves(namespace) ==
    /\ namespace # conf
    /\ Spend("move")
    /\ conf' = namespace
    /\ UNCHANGED <<kube, store, spawning, informers, due, work, dedupe, records>>

resolveJobWatcherNamespaces == {Home, conf}

(* startInformersForNamespaces: the initial list delivers what is there. *)
startNamespaceInformer(namespace) ==
    /\ namespace \in resolveJobWatcherNamespaces \ watched
    /\ watched' = watched \union {namespace}
    /\ due' = due \union Deliveries(kube, {namespace})
    /\ UNCHANGED <<cluster, store, synced, work, dedupe, records, left>>

(* namespaceReady turns true once the caches of the namespace have synced. *)
HasSynced(namespace) ==
    /\ namespace \in watched \ synced
    /\ synced' = synced \union {namespace}
    /\ UNCHANGED <<cluster, store, watched, due, work, dedupe, records, left>>

namespaceReady(j) == kube[j].ns \in synced

(* One resync period: what is there is delivered again, finished Jobs are  *)
(* collected, dedupe keys expire.  Handlers are done and caches in sync    *)
(* within the period.                                                      *)
Tick ==
    /\ due = {} /\ work["jobs"] = Idle /\ spawning = 0
    /\ synced = watched /\ conf \in watched
    /\ \E j \in Jobs : kube[j].st \notin {"none", "gone"}
    /\ kube' = [j \in Jobs |->
          CASE kube[j].st = "active" -> [kube[j] EXCEPT !.run = Min({@ + 1, Deadline})]
            [] kube[j].st \in {"failed", "succeeded"} /\ kube[j].age < Keep ->
                  [kube[j] EXCEPT !.age = @ + 1, !.run = Min({@ + 1, Deadline})]
            [] kube[j].st \in {"failed", "succeeded"} /\ kube[j].age = Keep ->
                  [kube[j] EXCEPT !.st = "gone", !.pod = "none"]
            [] kube[j].st = "deleted" ->
                  [kube[j] EXCEPT !.run = Min({@ + 1, Deadline}), !.pod = "none"]
            [] OTHER -> kube[j]]
    /\ due' = Deliveries(kube', watched)
    /\ dedupe' = [j \in Jobs |-> Max({dedupe[j] - 1, 0})]
    /\ raced' = raced \union {j \in Jobs : store = j /\ dedupe[j] = 1}
    /\ UNCHANGED <<store, spawning, conf, informers, work, reports, class, early, left>>

-----------------------------------------------------------------------------
(* The publisher.  A goroutine is at "publish" when it has passed the      *)
(* dedupe check, at "clear" when it is about to clear current_job, at      *)
(* "evict" when the Job handler is about to remove the entry it loaded.    *)

\* Mutant: the dedupe key is not looked up.
checkDedupeNever(j) == FALSE

checkDedupe(j) == dedupe[j] > 0
recordDedupe(j) == dedupe' = [dedupe EXCEPT ![j] = Ttl]

Publishing(j) == {w \in Workers : work[w].job = j /\ work[w].pc = "publish"}

(* What follows a publish, with or without an error: the Job handler goes  *)
(* on to the entry, unless there was none.                                 *)
Leave(w) ==
    IF w = "jobs" /\ work[w].task # 0 THEN [work[w] EXCEPT !.pc = "evict"] ELSE Idle

(* PublishFailure begins, for Job j and the task as loaded. *)
PublishFailure(w, j, task, reason) ==
    LET item == [pc |-> "publish", job |-> j, task |-> task, reason |-> reason]
    IN  IF checkDedupe(j)
        THEN /\ work' = [work EXCEPT ![w] = IF w = "jobs" /\ task # 0
                                            THEN [item EXCEPT !.pc = "evict"] ELSE Idle]
             /\ raced' = raced
        ELSE /\ work' = [work EXCEPT ![w] = item]
             /\ raced' = IF Publishing(j) = {} THEN raced ELSE raced \union {j}

(* publishFailure after the check: the failure section and the increment   *)
(* of trigger_count, then the key.                                         *)
publishFailure(w) ==
    /\ work[w].pc = "publish"
    /\ reports' = [reports EXCEPT ![work[w].job] = Min({@ + 1, MaxReports})]
    /\ class' = [class EXCEPT ![work[w].job] = ParseZombieReason(work[w].reason)]
    /\ recordDedupe(work[w].job)
    /\ early' = IF Active(work[w].job) THEN early \union {work[w].job} ELSE early
    /\ work' = [work EXCEPT ![w] = Leave(w)]
    /\ UNCHANGED <<cluster, store, informers, due, raced, left>>

(* Either command fails: nothing is counted and the key is not recorded. *)
PublishError(w) ==
    /\ work[w].pc = "publish"
    /\ Spend("error")
    /\ work' = [work EXCEPT ![w] = Leave(w)]
    /\ UNCHANGED <<cluster, store, informers, due, dedupe, records>>

(* PublishClearCurrentJob; an error keeps the entry for the re-delivery. *)
PublishClearCurrentJob(fails) ==
    LET item == work["jobs"]
    IN  /\ item.pc = "clear"
        /\ IF fails
           THEN Spend("error") /\ dedupe' = dedupe /\ work' = [work EXCEPT !["jobs"] = Idle]
           ELSE /\ left' = left
                /\ recordDedupe(item.job)
                /\ work' = [work EXCEPT !["jobs"].pc = "evict"]
        /\ UNCHANGED <<cluster, store, informers, due, records>>

-----------------------------------------------------------------------------
(* The handlers. *)

freshStoreMissFailure(j) == kube[j].fresh /\ kube[j].age < Window

\* Mutant: a failure without a store entry is dropped.
dropStoreMissFailure(j) == store = 0 /\ UNCHANGED <<work, raced>>

publishStoreMissFailure(j) ==
    /\ store = 0
    /\ IF freshStoreMissFailure(j) /\ ~taskHasActiveJob(kube[j].ns)
       THEN PublishFailure("jobs", j, 0, failureReason(j))
       ELSE UNCHANGED <<work, raced>>

handleSucceeded(j) ==
    /\ raced' = raced
    /\ IF store = 0 THEN work' = work
       ELSE work' = [work EXCEPT !["jobs"] =
                [pc |-> IF checkDedupe(j) THEN "evict" ELSE "clear", job |-> j, task |-> store,
                 reason |-> <<"none">>]]

(* HandleJob: a succeeded Job passes the sync barrier, a failed one does not. *)
HandleJob(j) ==
    /\ <<"job", j>> \in due
    /\ work["jobs"] = Idle
    /\ due' = due \ {<<"job", j>>}
    /\ \/ IsJobFailed(j) /\ namespaceReady(j) /\ store # 0 /\ PublishFailure("jobs", j, store, failureReason(j))
       \/ IsJobFailed(j) /\ namespaceReady(j) /\ publishStoreMissFailure(j)
       \/ IsJobSucceeded(j) /\ handleSucceeded(j)
       \/ IsJobFailed(j) /\ ~namespaceReady(j) /\ UNCHANGED <<work, raced>>
    /\ UNCHANGED <<cluster, store, informers, dedupe, reports, class, early, left>>

tracksJob(task, j) == task = j

(* The end of publishSyntheticFailure and of handleSucceeded.  The entry   *)
(* is deleted as it was loaded; the list of active Jobs may fail.          *)
EvictEntry(fails) ==
    LET item == work["jobs"]
    IN  /\ item.pc = "evict"
        /\ \/ /\ ~fails
              /\ tracksJob(item.task, item.job) \/ ~taskHasActiveJob(kube[item.job].ns)
              /\ store' = 0
              /\ left' = left
           \/ /\ ~fails
              /\ ~tracksJob(item.task, item.job) /\ taskHasActiveJob(kube[item.job].ns)
              /\ UNCHANGED <<store, left>>
           \/ fails /\ ~tracksJob(item.task, item.job) /\ Spend("error") /\ store' = store
        /\ work' = [work EXCEPT !["jobs"] = Idle]
        /\ UNCHANGED <<cluster, informers, due, dedupe, records>>

HandlePod(j) ==
    /\ <<"pod", j>> \in due
    /\ work["pods"] = Idle
    /\ due' = due \ {<<"pod", j>>}
    /\ IF namespaceReady(j) /\ classifyPodFailure(j) # "" /\ store # 0
       THEN PublishFailure("pods", j, store, <<classifyPodFailure(j)>>)
       ELSE UNCHANGED <<work, raced>>
    /\ UNCHANGED <<cluster, store, informers, dedupe, reports, class, early, left>>

resolveTaskNamespace == conf

\* Mutant: the sweeper does not wait for the deadline.
SweepAtOnce(j, reason) == TRUE

(* The two ways past the time gates of sweepTask. *)
SweepDue(j, reason) ==
    \/ kube[j].run >= Deadline
    \/ reason = "pod_not_scheduled" /\ kube[j].run >= Min({ArmWindow, Deadline})

sweepTask(reason) ==
    /\ store # 0
    /\ work["sweeper"] = Idle
    /\ resolveTaskNamespace \in synced
    /\ reason \in classify(resolveTaskNamespace) \ {""}
    /\ SweepDue(store, reason)
    /\ ~checkDedupe(store)
    /\ PublishFailure("sweeper", store, store, <<reason>>)
    /\ UNCHANGED <<cluster, store, informers, due, dedupe, reports, class, early, left>>

(* The process restarts: the store, the dedupe map and the caches are      *)
(* gone, and every failure so far is older than the watcher.               *)
Restart ==
    /\ Spend("restart")
    /\ store' = 0
    /\ spawning' = 0
    /\ kube' = [j \in Jobs |-> [kube[j] EXCEPT !.fresh = FALSE]]
    /\ watched' = {Home, conf}
    /\ synced' = {}
    /\ due' = Deliveries(kube, {Home, conf})
    /\ work' = [w \in Workers |-> Idle]
    /\ dedupe' = [j \in Jobs |-> 0]
    /\ raced' = raced \union {j \in Jobs : reports[j] > 0}
    /\ UNCHANGED <<conf, reports, class, early>>

-----------------------------------------------------------------------------
Next ==
    \/ \E j \in Jobs : SpawnJob(j) \/ HandleJob(j) \/ HandlePod(j) \/ DeleteIfCurrentJob(j)
    \/ \E j \in Jobs, pod \in {"running", "unscheduled", "waiting", "evicted"} : PodMoves(j, pod)
    \/ \E j \in Jobs, end \in Failures \union {[cond |-> "Complete", pod |-> "done"]} : JobEnds(j, end)
    \/ storeSpawnedJob
    \/ DeleteJob
    \/ cleanupTerminalTask
    \/ \E n \in Namespaces : ConfigMoves(n) \/ startNamespaceInformer(n) \/ HasSynced(n)
    \/ \E w \in Workers : publishFailure(w) \/ PublishError(w)
    \/ \E fails \in BOOLEAN : PublishClearCurrentJob(fails) \/ EvictEntry(fails)
    \/ \E reason \in zombieReasonValues : sweepTask(reason)
    \/ Tick
    \/ Restart

Spec == Init /\ [][Next]_vars

-----------------------------------------------------------------------------
(* The store names a Job that exists, deliveries are for what is watched,  *)
(* and a goroutine that is publishing knows for which Job.                 *)
TypeOK ==
    /\ store # 0 => kube[store].st # "none"
    /\ synced \subseteq watched
    /\ \A d \in due : kube[d[2]].ns \in watched
    /\ \A w \in Workers : work[w].pc # "idle" => work[w].job \in Jobs
    /\ \A j \in Jobs : dedupe[j] \in 0..Ttl

(* A Job's failure costs the task one trigger, however often the informers *)
(* deliver it and whoever sees it, unless two goroutines were at it at the *)
(* same time, the process restarted, the Job was reported before it ended, *)
(* or the key expired while the Job was still the task's entry             *)
(* (checkDedupe, recordDedupe, storeMissPublishWindow).                    *)
OneReport == \A j \in Jobs : reports[j] > 1 => j \in raced \union early

(* No failure disappears unreported: a Job that failed under this watcher  *)
(* and had no successor before it was collected has been reported, even if *)
(* the entry had left the store or a publish failed                        *)
(* (publishStoreMissFailure, the sync barrier of HandleJob).               *)
FailureReported ==
    \A j \in Jobs :
        kube[j].st = "gone" /\ kube[j].cond # "Complete" /\ kube[j].fresh /\ kube[j].alone
            => reports[j] > 0

(* A Job whose pod ran undisturbed is not reported as failed while it runs *)
(* or after it succeeded, except past its deadline, wherever its Config    *)
(* has moved (sweepTask, classify).                                        *)
HealthyNotReported ==
    \A j \in Jobs :
        reports[j] > 0 /\ ~kube[j].ill /\ kube[j].st \in {"active", "succeeded"}
            => kube[j].run >= Deadline

(* A failed Job is reported as a crash unless its deadline passed or its   *)
(* pod says otherwise: the class that arms the trigger cap is not lost     *)
(* with the pod (ParseZombieReason, failureReason).                        *)
CrashClassKept == \A j \in Jobs : class[j] # "unknown"

(* The entry of a Job that was stored stays while the Job runs, whatever   *)
(* the watcher still does for an older Job: "the stale success re-delivery *)
(* must not evict the entry the current job's success path needs".         *)
RunningJobTracked ==
    [][\A j \in Jobs : store = j /\ Active(j) /\ left' = left => store' = j]_vars

=============================================================================
