------------------------- MODULE JobWatcherProofs -------------------------
(***************************************************************************)
(* The watcher of a task's Jobs: a failure is reported once, none is lost, *)
(* no healthy Job is reported as failed, and every report has a class.     *)
(***************************************************************************)
EXTENDS JobWatcher, TLAPS

-----------------------------------------------------------------------------
(* Shape: the values of the variables, and what is known of a Job that was *)
(* never spawned.                                                          *)

Conditions == {"none", "Complete"} \union {end.cond : end \in Failures}

JobRecord ==
  [st: {"none", "active", "failed", "succeeded", "deleted", "gone"},
   pod: {"none", "running", "unscheduled", "waiting", "evicted", "crashed", "oom", "done"},
   ns: Namespaces, cond: Conditions, age: 0 .. Keep, run: 0 .. Deadline,
   fresh: BOOLEAN, alone: BOOLEAN, ill: BOOLEAN]

IsItem(i) ==
  /\ i = [pc |-> i.pc, job |-> i.job, task |-> i.task, reason |-> i.reason]
  /\ i.pc \in {"idle", "publish", "clear", "evict"}
  /\ i.job \in 0 .. MaxJobs /\ i.task \in 0 .. MaxJobs

Ended == {"succeeded", "deleted", "gone"}
Spawned(j) == j \in Jobs /\ kube[j].st # "none"

(* A Job as far as its own record tells. *)
JobShape(j) ==
  LET k == kube[j] IN
  /\ k \in JobRecord
  /\ k.st = "none" => /\ k.pod = "none" /\ k.run = 0 /\ dedupe[j] = 0 /\ reports[j] = 0
  /\ k.st \in {"none", "active"} => k.age = 0
  /\ k.st = "failed" => k.pod \in {"none", "crashed", "oom", "evicted"} /\ k.cond # "Complete"
  /\ k.st = "succeeded" => k.pod = "done" /\ k.cond = "Complete"
  /\ k.st = "gone" => k.pod = "none"

WorkShape(w) ==
  LET i == work[w] IN
  /\ IsItem(i)
  /\ i.pc = "idle" => i = Idle
  /\ i.pc # "idle" => Spawned(i.job)
  /\ i.pc \in {"clear", "evict"} => w = "jobs"
  /\ i.pc = "clear" => kube[i.job].st \in Ended

BudgetShape ==
  /\ left = [kind \in DOMAIN left |-> left[kind]]
  /\ {"move", "error", "restart"} \subseteq DOMAIN left
  /\ left.move \in Nat /\ left.error \in Nat /\ left.restart \in Nat

InformerShape ==
  /\ conf \in Namespaces /\ watched \subseteq Namespaces
  /\ Home \in watched /\ synced \subseteq watched
  /\ due \subseteq {"job", "pod"} \X Jobs
  /\ \A d \in due : Spawned(d[2]) /\ kube[d[2]].ns \in watched

Shape ==
  /\ DOMAIN kube = Jobs /\ kube = [j \in Jobs |-> kube[j]]
  /\ work = [w \in Workers |-> work[w]]
  /\ dedupe \in [Jobs -> 0 .. Ttl]
  /\ reports \in [Jobs -> 0 .. MaxReports]
  /\ class = [j \in Jobs |-> class[j]]
  /\ raced \subseteq Jobs /\ early \subseteq Jobs
  /\ store # 0 => Spawned(store)
  /\ spawning # 0 => Spawned(spawning)
  /\ BudgetShape /\ InformerShape
  /\ \A j \in Jobs : JobShape(j)
  /\ \A w \in Workers : WorkShape(w)

-----------------------------------------------------------------------------
(* One Job after the other. *)
InOrder ==
  /\ \A i, j \in Jobs : i < j /\ kube[j].st # "none" => kube[i].st \notin {"none", "active"}
  /\ store # 0 => \A j \in Jobs : store < j /\ kube[j].st # "none" => j = spawning
  /\ spawning # 0 => /\ \A j \in Jobs : spawning < j => kube[j].st = "none"
                     /\ kube[spawning].pod # "unscheduled"

(* The sweeper's view: only the youngest Job may wait for a node. *)
Reported(j) == reports[j] > 0 \/ Publishing(j) # {}

Excused(j) == kube[j].ill \/ kube[j].run >= Deadline \/ kube[j].st \notin {"active", "succeeded"}

HealthInv ==
  /\ \A j \in Jobs : kube[j].st = "active" /\ ~kube[j].ill => kube[j].pod \in {"none", "running"}
  /\ \A i, j \in Jobs : i < j /\ kube[i].pod = "unscheduled" => kube[j].run = 0
  /\ \A j \in Jobs : Reported(j) => Excused(j)

(* The sweeper waits: podNotScheduledArmWindow and the zombie deadline are   *)
(* more than no time.                                                        *)
SweepPremise == ArmWindow >= 1 /\ Deadline >= 1

-----------------------------------------------------------------------------
(* A finished Job is collected (JOB_TTL_SECONDS_AFTER_FINISHED, 1800 s)      *)
(* before the key of its report expires (dedupeTTL, 3600 s).                 *)
KeepPremise == Keep < Ttl

(* A Job is reported by one worker at a time; once it is, its key outlives   *)
(* the Job, or nothing is left that would report it again.                   *)
Once(j) ==
  /\ \A v, w \in Publishing(j) : v = w
  /\ reports[j] > 0 =>
       /\ reports[j] = 1
       /\ Publishing(j) = {}
       /\ kube[j].st \notin {"none", "active"}
       /\ kube[j].st = "failed" => dedupe[j] + kube[j].age > Keep
       /\ dedupe[j] = 0 => store # j /\ spawning # j /\ kube[j].pod \in {"none", "done"}

OnceInv == \A j \in Jobs : j \notin raced \union early => Once(j)

-----------------------------------------------------------------------------
(* How many resyncs a failure may wait: until storeMissPublishWindow closes  *)
(* or the Job is collected, whichever comes first.                           *)
Patience == IF Window <= Keep + 1 THEN Window ELSE Keep + 1

(* The faults leave the watcher a delivery in time: each failed command      *)
(* costs one resync, a Config that moves or a restart delays the first one.  *)
ReportPremise ==
  \A budget \in Budgets :
    /\ budget.move <= 1
    /\ \/ budget.error + 2 <= Patience
       \/ budget.error + 1 <= Patience /\ budget.move = 0 /\ budget.restart = 0

(* The failure is on its way to a publish. *)
Pending(j) ==
  \/ <<"job", j>> \in due
  \/ work["jobs"].job = j /\ work["jobs"].pc = "publish"

(* The failures FailureReported is about, as long as they wait. *)
Unreported(j) ==
  kube[j].st = "failed" /\ kube[j].fresh /\ kube[j].alone /\ reports[j] = 0

(* A Job runs where the Config is or where it was before its one move. *)
PlaceInv ==
  /\ left.move <= 1
  /\ conf # Home => left.move = 0
  /\ \A j \in Jobs : kube[j].ns \in {Home, conf}

(* The errors still to come, and the delay of a move or a restart. *)
SlackInv ==
  \/ left.error + 2 <= Patience
  \/ /\ left.error + 1 <= Patience /\ left.move = 0 /\ left.restart = 0
     /\ conf = Home /\ watched = {Home} /\ synced = {Home}

(* A Job that is alone has no successor. *)
AloneInv ==
  \A j \in Jobs : kube[j].st \notin {"none", "gone"} /\ kube[j].alone
    => \A i \in Jobs : j < i => kube[i].st = "none"

(* The key of a Job that did not succeed tells of a report. *)
KeyInv == \A j \in Jobs : dedupe[j] > 0 /\ kube[j].st \in {"active", "failed"} => reports[j] > 0

(* A failure is not kept waiting longer than the errors so far explain. *)
InTime(j) ==
  /\ kube[j].ns \notin synced => kube[j].age = 0
  /\ kube[j].age + left.error + (IF Pending(j) THEN 1 ELSE 2) <= Patience

AwaitInv == \A j \in Jobs : Unreported(j) => InTime(j)

ReportInv == PlaceInv /\ SlackInv /\ AloneInv /\ KeyInv /\ AwaitInv /\ FailureReported

-----------------------------------------------------------------------------
(* The conditions ParseZombieReason knows: its own reasons and the aliases   *)
(* of Kubernetes' condition reasons.                                         *)
KnownConditions == {"none", "DeadlineExceeded"} \union jobFailedConditionAliases

ConditionPremise == \A end \in Failures : end.cond \in KnownConditions

(* A reason on its way to a publish already has a class. *)
ClassInv ==
  /\ \A j \in Jobs : kube[j].st = "failed" => kube[j].cond \in KnownConditions
  /\ \A w \in Workers : work[w].pc = "publish" => ParseZombieReason(work[w].reason) # "unknown"
  /\ CrashClassKept

-----------------------------------------------------------------------------
(* Numbers, budgets and records. *)

LEMMA MinOfTwo ==
  ASSUME NEW a \in Int, NEW b \in Int
  PROVE  Min({a, b}) = IF a <= b THEN a ELSE b
<1>1. \E x \in {a, b} : \A y \in {a, b} : x <= y
  OBVIOUS
<1>2. /\ Min({a, b}) \in {a, b}
      /\ \A y \in {a, b} : Min({a, b}) <= y
  BY <1>1, Zenon DEF Min
<1> QED
  BY <1>2

LEMMA MaxOfTwo ==
  ASSUME NEW a \in Int, NEW b \in Int
  PROVE  Max({a, b}) = IF a <= b THEN b ELSE a
<1>1. \E x \in {a, b} : \A y \in {a, b} : x >= y
  OBVIOUS
<1>2. /\ Max({a, b}) \in {a, b}
      /\ \A y \in {a, b} : Max({a, b}) >= y
  BY <1>1, Zenon DEF Max
<1> QED
  BY <1>2

LEMMA Numbers ==
  /\ Home \in Namespaces
  /\ Window \in Nat /\ Ttl \in Nat /\ Keep \in Nat /\ Window < Ttl
  /\ ArmWindow \in Nat /\ Deadline \in Nat /\ MaxJobs \in Nat
BY WatcherConstants, Zenon

LEMMA Endings ==
  ASSUME NEW end \in Failures \union {[cond |-> "Complete", pod |-> "done"]}
  PROVE  /\ end.cond \in Conditions
         /\ end.pod \in {"none", "crashed", "oom", "evicted", "done"}
         /\ end.cond = "Complete" => end.pod = "done"
         /\ end.cond # "Complete" => end \in Failures /\ end.pod # "done"
<1>1. CASE end \in Failures
  <2>1. end.cond # "Complete" /\ end.pod \in {"none", "crashed", "oom", "evicted"}
    BY <1>1, WatcherConstants, Zenon
  <2>2. end.cond \in Conditions
    BY <1>1, Zenon DEF Conditions
  <2> QED
    BY <1>1, <2>1, <2>2
<1>2. CASE end = [cond |-> "Complete", pod |-> "done"]
  BY <1>2 DEF Conditions
<1> QED
  BY <1>1, <1>2

LEMMA SpendStep ==
  ASSUME BudgetShape, NEW kind, Spend(kind)
  PROVE  /\ BudgetShape'
         /\ left'.move = IF kind = "move" THEN left.move - 1 ELSE left.move
         /\ left'.error = IF kind = "error" THEN left.error - 1 ELSE left.error
         /\ left'.restart = IF kind = "restart" THEN left.restart - 1 ELSE left.restart
         /\ left[kind] > 0
<1> USE DEF BudgetShape, Spend
<1>1. /\ left' = [left EXCEPT ![kind] = @ - 1] /\ left[kind] > 0
      /\ DOMAIN left' = DOMAIN left
      /\ \A x \in DOMAIN left : left'[x] = IF x = kind THEN left[x] - 1 ELSE left[x]
  OBVIOUS
<1>2. left' = [x \in DOMAIN left' |-> left'[x]]
  BY <1>1
<1> QED
  BY <1>1, <1>2

-----------------------------------------------------------------------------
(* What each step of the cluster does to a Job. *)

LEMMA SpawnFields ==
  ASSUME Shape, NEW j \in Jobs, SpawnJob(j), NEW i \in Jobs
  PROVE  /\ DOMAIN kube' = Jobs /\ kube' = [x \in Jobs |-> kube'[x]]
         /\ kube'[i] \in JobRecord
         /\ i = j => /\ kube'[i].st = "active" /\ kube'[i].pod = "none" /\ kube'[i].ns = conf
                     /\ kube'[i].cond = "none" /\ kube'[i].age = 0 /\ kube'[i].run = 0
                     /\ ~kube'[i].fresh /\ kube'[i].alone /\ ~kube'[i].ill
         /\ i # j => /\ kube'[i].st = kube[i].st /\ kube'[i].pod = kube[i].pod
                     /\ kube'[i].ns = kube[i].ns /\ kube'[i].cond = kube[i].cond
                     /\ kube'[i].age = kube[i].age /\ kube'[i].run = kube[i].run
                     /\ kube'[i].fresh = kube[i].fresh /\ kube'[i].ill = kube[i].ill
                     /\ kube'[i].alone <=> kube[i].alone /\ kube[i].st = "gone"
<1>1. /\ kube' = [x \in Jobs |->
                   IF x = j THEN [Unborn EXCEPT !.st = "active", !.ns = conf]
                   ELSE [kube[x] EXCEPT !.alone = @ /\ kube[x].st = "gone"]]
      /\ kube[i] \in JobRecord /\ conf \in Namespaces
  BY DEF SpawnJob, Shape, JobShape, InformerShape
<1>2. CASE i = j
  <2>1. kube'[i] = [st |-> "active", pod |-> "none", ns |-> conf, cond |-> "none", age |-> 0,
                    run |-> 0, fresh |-> FALSE, alone |-> TRUE, ill |-> FALSE]
    BY <1>1, <1>2 DEF Unborn
  <2>2. "none" \in Conditions /\ 0 \in 0 .. Keep /\ 0 \in 0 .. Deadline /\ conf \in Namespaces
    BY <1>1, Numbers DEF Conditions
  <2>3. kube'[i] \in JobRecord
    BY <2>1, <2>2 DEF JobRecord
  <2> QED
    BY <1>1, <1>2, <2>1, <2>3
<1>3. CASE i # j
  BY <1>1, <1>3 DEF JobRecord
<1> QED
  BY <1>1, <1>2, <1>3

LEMMA MoveFields ==
  ASSUME Shape, NEW j \in Jobs, NEW pod \in {"running", "unscheduled", "waiting", "evicted"},
         PodMoves(j, pod), NEW i \in Jobs
  PROVE  /\ DOMAIN kube' = Jobs /\ kube' = [x \in Jobs |-> kube'[x]]
         /\ kube'[i] \in JobRecord
         /\ kube'[i].st = kube[i].st /\ kube'[i].ns = kube[i].ns /\ kube'[i].cond = kube[i].cond
         /\ kube'[i].age = kube[i].age /\ kube'[i].run = kube[i].run
         /\ kube'[i].fresh = kube[i].fresh /\ kube'[i].alone = kube[i].alone
         /\ i = j => kube'[i].pod = pod /\ (kube'[i].ill <=> kube[i].ill \/ pod # "running")
         /\ i # j => kube'[i] = kube[i]
<1>1. /\ kube' = [kube EXCEPT ![j].pod = pod, ![j].ill = @ \/ pod # "running"]
      /\ kube[i] \in JobRecord /\ DOMAIN kube = Jobs
  BY DEF PodMoves, Shape, JobShape
<1>2. kube' = [x \in Jobs |-> kube'[x]]
  BY <1>1
<1>3. CASE i = j
  BY <1>1, <1>2, <1>3 DEF JobRecord
<1>4. CASE i # j
  BY <1>1, <1>2, <1>4 DEF JobRecord
<1> QED
  BY <1>1, <1>2, <1>3, <1>4

LEMMA EndFields ==
  ASSUME Shape, NEW j \in Jobs, NEW end \in Failures \union {[cond |-> "Complete", pod |-> "done"]},
         JobEnds(j, end), NEW i \in Jobs
  PROVE  /\ DOMAIN kube' = Jobs /\ kube' = [x \in Jobs |-> kube'[x]]
         /\ kube'[i] \in JobRecord
         /\ i = j => /\ kube'[i].cond = end.cond /\ kube'[i].pod = end.pod /\ kube'[i].fresh
                     /\ kube'[i].st = IF end.cond = "Complete" THEN "succeeded" ELSE "failed"
                     /\ kube'[i].ns = kube[i].ns /\ kube'[i].age = kube[i].age
                     /\ kube'[i].run = kube[i].run /\ kube'[i].alone = kube[i].alone
                     /\ kube'[i].ill = kube[i].ill
         /\ i # j => kube'[i] = kube[i]
<1>1. /\ kube' = [kube EXCEPT ![j].st = IF end.cond = "Complete" THEN "succeeded" ELSE "failed",
                              ![j].cond = end.cond, ![j].pod = end.pod, ![j].fresh = TRUE]
      /\ kube[i] \in JobRecord /\ DOMAIN kube = Jobs
  BY DEF JobEnds, Shape, JobShape
<1>2. /\ end.cond \in Conditions
      /\ end.pod \in {"none", "crashed", "oom", "evicted", "done"}
  BY Endings
<1>3. kube' = [x \in Jobs |-> kube'[x]]
  BY <1>1
<1>4. CASE i = j
  BY <1>1, <1>2, <1>3, <1>4 DEF JobRecord
<1>5. CASE i # j
  BY <1>1, <1>3, <1>5 DEF JobRecord
<1> QED
  BY <1>1, <1>3, <1>4, <1>5

LEMMA DeleteFields ==
  ASSUME Shape, DeleteJob, NEW i \in Jobs
  PROVE  /\ DOMAIN kube' = Jobs /\ kube' = [x \in Jobs |-> kube'[x]]
         /\ kube'[i] \in JobRecord
         /\ kube'[i].ns = kube[i].ns /\ kube'[i].cond = kube[i].cond
         /\ kube'[i].age = kube[i].age /\ kube'[i].run = kube[i].run
         /\ kube'[i].fresh = kube[i].fresh /\ kube'[i].alone = kube[i].alone
         /\ kube'[i].ill = kube[i].ill
         /\ \/ kube'[i].st = kube[i].st /\ kube'[i].pod = kube[i].pod
            \/ /\ kube[i].st \notin {"none", "gone", "deleted"} /\ kube'[i].st = "deleted"
               /\ \/ kube'[i].pod = kube[i].pod
                  \/ kube[i].pod = "running" /\ kube'[i].pod = "crashed"
<1> DEFINE doomed == {j \in Jobs : kube[j].st \notin {"none", "gone", "deleted"} /\ kube[j].ns = conf}
<1>1. PICK killed \in SUBSET {j \in doomed : kube[j].pod = "running"} :
         kube' = [j \in Jobs |->
                  IF j \notin doomed THEN kube[j]
                  ELSE [kube[j] EXCEPT !.st = "deleted",
                                       !.pod = IF j \in killed THEN "crashed" ELSE @]]
  BY Zenon DEF DeleteJob
<1>2. kube[i] \in JobRecord
  BY DEF Shape, JobShape
<1>3. DOMAIN kube' = Jobs /\ kube' = [x \in Jobs |-> kube'[x]]
  BY <1>1
<1>4. CASE i \notin doomed
  BY <1>1, <1>2, <1>3, <1>4
<1>5. CASE i \in doomed /\ i \notin killed
  <2>1. kube'[i] = [kube[i] EXCEPT !.st = "deleted"]
    BY <1>1, <1>2, <1>5 DEF JobRecord
  <2> QED
    BY <1>2, <1>3, <1>5, <2>1 DEF JobRecord
<1>6. CASE i \in doomed /\ i \in killed
  <2>1. kube'[i] = [kube[i] EXCEPT !.st = "deleted", !.pod = "crashed"] /\ kube[i].pod = "running"
    BY <1>1, <1>2, <1>6
  <2> QED
    BY <1>2, <1>3, <1>6, <2>1 DEF JobRecord
<1> QED
  BY <1>4, <1>5, <1>6

LEMMA TickFields ==
  ASSUME Shape, Tick, NEW i \in Jobs
  PROVE  /\ DOMAIN kube' = Jobs /\ kube' = [x \in Jobs |-> kube'[x]]
         /\ kube'[i] \in JobRecord
         /\ kube'[i].ns = kube[i].ns /\ kube'[i].cond = kube[i].cond
         /\ kube'[i].fresh = kube[i].fresh /\ kube'[i].alone = kube[i].alone
         /\ kube'[i].ill = kube[i].ill /\ kube'[i].run >= kube[i].run
         /\ kube[i].st = "none" => kube'[i] = kube[i]
         /\ kube[i].st = "gone" => kube'[i] = kube[i]
         /\ kube[i].st = "active" =>
              kube'[i].st = "active" /\ kube'[i].pod = kube[i].pod /\ kube'[i].age = kube[i].age
         /\ kube[i].st = "deleted" => kube'[i].st = "deleted" /\ kube'[i].pod = "none"
         /\ kube[i].st \in {"failed", "succeeded"} =>
              \/ /\ kube[i].age < Keep /\ kube'[i].age = kube[i].age + 1
                 /\ kube'[i].st = kube[i].st /\ kube'[i].pod = kube[i].pod
              \/ /\ kube[i].age = Keep /\ kube'[i].age = Keep
                 /\ kube'[i].st = "gone" /\ kube'[i].pod = "none"
<1> DEFINE more == Min({kube[i].run + 1, Deadline})
<1>1. /\ kube[i] \in JobRecord
      /\ kube[i].run \in 0 .. Deadline /\ kube[i].age \in 0 .. Keep
  BY DEF Shape, JobShape, JobRecord
<1>2. more \in 0 .. Deadline /\ more >= kube[i].run
  <2>1. kube[i].run + 1 \in Int /\ Deadline \in Int
    BY <1>1, Numbers
  <2> HIDE DEF more
  <2>2. more = IF kube[i].run + 1 <= Deadline THEN kube[i].run + 1 ELSE Deadline
    BY <2>1, MinOfTwo DEF more
  <2> QED
    BY <1>1, <2>2, Numbers
<1> DEFINE Aged(j) ==
          CASE kube[j].st = "active" -> [kube[j] EXCEPT !.run = Min({@ + 1, Deadline})]
            [] kube[j].st \in {"failed", "succeeded"} /\ kube[j].age < Keep ->
                  [kube[j] EXCEPT !.age = @ + 1, !.run = Min({@ + 1, Deadline})]
            [] kube[j].st \in {"failed", "succeeded"} /\ kube[j].age = Keep ->
                  [kube[j] EXCEPT !.st = "gone", !.pod = "none"]
            [] kube[j].st = "deleted" ->
                  [kube[j] EXCEPT !.run = Min({@ + 1, Deadline}), !.pod = "none"]
            [] OTHER -> kube[j]
<1>3. kube' = [j \in Jobs |-> Aged(j)]
  BY Zenon DEF Tick
<1>4. DOMAIN kube' = Jobs /\ kube' = [x \in Jobs |-> kube'[x]] /\ kube'[i] = Aged(i)
  <2> HIDE DEF Aged
  <2> QED
    BY <1>3
<1>5. kube'[i] =
          CASE kube[i].st = "active" -> [kube[i] EXCEPT !.run = more]
            [] kube[i].st \in {"failed", "succeeded"} /\ kube[i].age < Keep ->
                  [kube[i] EXCEPT !.age = kube[i].age + 1, !.run = more]
            [] kube[i].st \in {"failed", "succeeded"} /\ kube[i].age = Keep ->
                  [kube[i] EXCEPT !.st = "gone", !.pod = "none"]
            [] kube[i].st = "deleted" -> [kube[i] EXCEPT !.run = more, !.pod = "none"]
            [] OTHER -> kube[i]
  BY <1>4
<1> HIDE DEF more
<1>6. CASE kube[i].st \in {"none", "gone"}
  <2>1. kube'[i] = kube[i]
    BY <1>5, <1>6
  <2> QED
    BY <1>1, <1>4, <1>6, <2>1
<1>7. CASE kube[i].st = "active"
  <2>1. kube'[i] = [kube[i] EXCEPT !.run = more]
    BY <1>5, <1>7
  <2> QED
    BY <1>1, <1>2, <1>4, <1>7, <2>1 DEF JobRecord
<1>8. CASE kube[i].st = "deleted"
  <2>1. kube'[i] = [kube[i] EXCEPT !.run = more, !.pod = "none"]
    BY <1>5, <1>8
  <2> QED
    BY <1>1, <1>2, <1>4, <1>8, <2>1 DEF JobRecord
<1>9. CASE kube[i].st \in {"failed", "succeeded"} /\ kube[i].age < Keep
  <2>1. kube'[i] = [kube[i] EXCEPT !.age = kube[i].age + 1, !.run = more]
    BY <1>1, <1>5, <1>9
  <2>2. kube[i].age + 1 \in 0 .. Keep
    BY <1>1, <1>9, Numbers
  <2> QED
    BY <1>1, <1>2, <1>4, <1>9, <2>1, <2>2 DEF JobRecord
<1>10. CASE kube[i].st \in {"failed", "succeeded"} /\ kube[i].age = Keep
  <2>1. kube'[i] = [kube[i] EXCEPT !.st = "gone", !.pod = "none"]
    BY <1>5, <1>10, <1>1, Numbers
  <2>2. kube'[i] \in JobRecord
    BY <1>1, <2>1 DEF JobRecord
  <2>3. /\ kube'[i].st = "gone" /\ kube'[i].pod = "none" /\ kube'[i].ns = kube[i].ns
        /\ kube'[i].cond = kube[i].cond /\ kube'[i].age = kube[i].age
        /\ kube'[i].fresh = kube[i].fresh /\ kube'[i].alone = kube[i].alone
        /\ kube'[i].ill = kube[i].ill /\ kube'[i].run = kube[i].run
    BY <1>1, <2>1 DEF JobRecord
  <2>4. kube'[i].run >= kube[i].run
    BY <1>1, <2>3, Numbers
  <2> QED
    BY <1>4, <1>10, <2>2, <2>3, <2>4
<1> QED
  BY <1>1, <1>6, <1>7, <1>8, <1>9, <1>10, Numbers DEF JobRecord

LEMMA RestartFields ==
  ASSUME Shape, Restart, NEW i \in Jobs
  PROVE  /\ DOMAIN kube' = Jobs /\ kube' = [x \in Jobs |-> kube'[x]]
         /\ kube'[i] \in JobRecord
         /\ kube'[i].st = kube[i].st /\ kube'[i].pod = kube[i].pod
         /\ kube'[i].ns = kube[i].ns /\ kube'[i].cond = kube[i].cond
         /\ kube'[i].age = kube[i].age /\ kube'[i].run = kube[i].run
         /\ ~kube'[i].fresh /\ kube'[i].alone = kube[i].alone
         /\ kube'[i].ill = kube[i].ill
<1>1. /\ kube' = [j \in Jobs |-> [kube[j] EXCEPT !.fresh = FALSE]]
      /\ kube[i] \in JobRecord
  BY Zenon DEF Restart, Shape, JobShape
<1>2. kube' = [x \in Jobs |-> kube'[x]]
  BY <1>1
<1>3. kube'[i] = [kube[i] EXCEPT !.fresh = FALSE]
  BY <1>1
<1> QED
  BY <1>1, <1>2, <1>3 DEF JobRecord

-----------------------------------------------------------------------------
(* The shape is kept. *)

(* A Job that was spawned stays so, in its namespace, and one that ended *)
(* without a failure to report does not fail.                            *)
KubeGrows ==
  /\ DOMAIN kube' = Jobs /\ kube' = [x \in Jobs |-> kube'[x]]
  /\ \A i \in Jobs :
       /\ JobShape(i)'
       /\ kube[i].st # "none" => kube'[i].st # "none" /\ kube'[i].ns = kube[i].ns
       /\ kube[i].st \in Ended => kube'[i].st \in Ended

(* A delivery is for a Job that is there. *)
DeliveryShape(d) ==
  d \in {"job", "pod"} \X Jobs /\ Spawned(d[2]) /\ kube[d[2]].ns \in watched

LEMMA DeliveryFacts ==
  ASSUME NEW jobs, DOMAIN jobs = Jobs, NEW S, NEW d \in Deliveries(jobs, S)
  PROVE  /\ d \in {"job", "pod"} \X Jobs /\ jobs[d[2]].ns \in S
         /\ \/ jobs[d[2]].st \in {"failed", "succeeded"}
            \/ jobs[d[2]].pod \in {"waiting", "evicted", "crashed", "oom"}
<1>1. CASE \E j \in Jobs : /\ d = <<"job", j>> /\ jobs[j].ns \in S
                           /\ jobs[j].st \in {"failed", "succeeded"}
  BY <1>1
<1>2. CASE \E j \in Jobs : /\ d = <<"pod", j>> /\ jobs[j].ns \in S
                           /\ jobs[j].pod \in {"waiting", "evicted", "crashed", "oom"}
  BY <1>2
<1> QED
  BY <1>1, <1>2 DEF Deliveries

LEMMA NewDelivery ==
  ASSUME KubeGrows, NEW S \in SUBSET watched', NEW d \in Deliveries(kube', S)
  PROVE  DeliveryShape(d)'
<1>1. /\ d \in {"job", "pod"} \X Jobs /\ kube'[d[2]].ns \in S
      /\ \/ kube'[d[2]].st \in {"failed", "succeeded"}
         \/ kube'[d[2]].pod \in {"waiting", "evicted", "crashed", "oom"}
  BY DeliveryFacts DEF KubeGrows
<1>2. d[2] \in Jobs
  BY <1>1
<1>3. kube'[d[2]].st = "none" => kube'[d[2]].pod = "none"
  BY <1>2 DEF KubeGrows, JobShape
<1> QED
  BY <1>1, <1>2, <1>3 DEF DeliveryShape, Spawned

LEMMA OldDelivery ==
  ASSUME Shape, KubeGrows, NEW d \in due, watched \subseteq watched'
  PROVE  DeliveryShape(d)'
<1>1. d \in {"job", "pod"} \X Jobs /\ Spawned(d[2]) /\ kube[d[2]].ns \in watched
  BY DEF Shape, InformerShape
<1>2. d[2] \in Jobs /\ kube[d[2]].st # "none"
  BY <1>1 DEF Spawned
<1>3. kube'[d[2]].st # "none" /\ kube'[d[2]].ns = kube[d[2]].ns
  BY <1>2 DEF KubeGrows
<1> QED
  BY <1>1, <1>2, <1>3 DEF DeliveryShape, Spawned

LEMMA InformersKept ==
  ASSUME Shape, conf' \in Namespaces, watched' \subseteq Namespaces, Home \in watched',
         synced' \subseteq watched', \A d \in due' : DeliveryShape(d)'
  PROVE  InformerShape'
<1>1. due' \subseteq {"job", "pod"} \X Jobs
  BY DEF DeliveryShape
<1> QED
  BY <1>1 DEF InformerShape, DeliveryShape

LEMMA ItemKept ==
  ASSUME Shape, KubeGrows, NEW w \in Workers, work'[w] = work[w]
  PROVE  WorkShape(w)'
<1>1. WorkShape(w)
  BY DEF Shape
<1>2. IsItem(work[w])
  BY <1>1 DEF WorkShape
<1>3. work[w].pc # "idle" => Spawned(work[w].job)'
  BY <1>1 DEF WorkShape, Spawned, KubeGrows
<1>4. work[w].pc = "clear" => kube'[work[w].job].st \in Ended
  BY <1>1 DEF WorkShape, Spawned, KubeGrows
<1> QED
  BY <1>1, <1>2, <1>3, <1>4 DEF WorkShape

(* Nothing happens to the Jobs and what is recorded of them. *)
LEMMA StillKube ==
  ASSUME Shape, kube' = kube, dedupe' = dedupe, reports' = reports
  PROVE  KubeGrows
<1>1. \A i \in Jobs : JobShape(i)'
  BY DEF Shape, JobShape
<1> QED
  BY <1>1 DEF KubeGrows, Shape

LEMMA ShapeInit == Init => Shape
<1> SUFFICES ASSUME Init PROVE Shape
  OBVIOUS
<1>1. /\ kube = [j \in Jobs |-> Unborn] /\ Unborn \in JobRecord
      /\ Unborn.st = "none" /\ Unborn.pod = "none" /\ Unborn.run = 0 /\ Unborn.age = 0
  <2>1. "none" \in Conditions /\ 0 \in 0 .. Keep /\ 0 \in 0 .. Deadline /\ Home \in Namespaces
    BY Numbers DEF Conditions
  <2> QED
    BY <2>1 DEF Init, JobRecord, Unborn
<1>2. \A j \in Jobs : JobShape(j)
  BY <1>1 DEF Init, JobShape
<1>3. \A w \in Workers : WorkShape(w)
  BY Numbers DEF Init, WorkShape, IsItem, Idle
<1>4. BudgetShape
  BY WatcherConstants, Zenon DEF Init, BudgetShape
<1>5. InformerShape
  BY Numbers DEF Init, InformerShape
<1>6. /\ DOMAIN kube = Jobs /\ kube = [j \in Jobs |-> kube[j]]
      /\ work = [w \in Workers |-> work[w]] /\ class = [j \in Jobs |-> class[j]]
      /\ raced \subseteq Jobs /\ early \subseteq Jobs /\ store = 0 /\ spawning = 0
  BY DEF Init
<1>7. dedupe \in [Jobs -> 0 .. Ttl] /\ reports \in [Jobs -> 0 .. MaxReports]
  BY Numbers DEF Init, MaxReports
<1> QED
  BY <1>2, <1>3, <1>4, <1>5, <1>6, <1>7 DEF Shape

(* The rest of a step that keeps the Jobs well formed. *)
LEMMA ShapeStep ==
  ASSUME Shape, KubeGrows, BudgetShape', InformerShape', \A w \in Workers : WorkShape(w)',
         work' = [w \in Workers |-> work'[w]], class' = [j \in Jobs |-> class'[j]],
         dedupe' \in [Jobs -> 0 .. Ttl], reports' \in [Jobs -> 0 .. MaxReports],
         raced' \subseteq Jobs, early' \subseteq Jobs,
         store' \in {0, store, spawning},
         spawning' \notin {0, spawning} => spawning' \in Jobs /\ kube'[spawning'].st # "none"
  PROVE  Shape'
<1>1. store' # 0 => store' \in Jobs /\ kube'[store'].st # "none"
  BY DEF Shape, Spawned, KubeGrows
<1>2. spawning' # 0 => spawning' \in Jobs /\ kube'[spawning'].st # "none"
  BY DEF Shape, Spawned, KubeGrows
<1> QED
  BY <1>1, <1>2 DEF Shape, Spawned, KubeGrows

-----------------------------------------------------------------------------
(* The steps of the cluster. *)

LEMMA SpawnShape ==
  ASSUME Shape, NEW j \in Jobs, SpawnJob(j)
  PROVE  Shape'
<1> USE DEF informers, records
<1>0. UNCHANGED <<store, conf, watched, synced, due, work, dedupe, reports, class, raced, early, left>>
  BY DEF SpawnJob
<1>1. KubeGrows
  <2>1. DOMAIN kube' = Jobs /\ kube' = [x \in Jobs |-> kube'[x]]
    BY SpawnFields
  <2>2. ASSUME NEW i \in Jobs PROVE JobShape(i)'
    <3>1. CASE i = j
      BY <3>1, SpawnFields DEF JobShape
    <3>2. CASE i # j
      BY <1>0, <3>2, SpawnFields DEF JobShape, Shape
    <3> QED
      BY <3>1, <3>2
  <2>3. kube[j].st = "none"
    BY DEF SpawnJob
  <2>4. ASSUME NEW i \in Jobs
        PROVE  /\ kube[i].st # "none" => kube'[i].st # "none" /\ kube'[i].ns = kube[i].ns
               /\ kube[i].st \in Ended => kube'[i].st \in Ended
    BY <2>3, SpawnFields DEF Ended
  <2> QED
    BY <2>1, <2>2, <2>4 DEF KubeGrows
<1>2. \A w \in Workers : WorkShape(w)'
  BY <1>0, <1>1, ItemKept
<1>3. InformerShape'
  <2>1. \A d \in due' : DeliveryShape(d)'
    BY <1>0, <1>1, OldDelivery
  <2> QED
    BY <1>0, <2>1, InformersKept DEF Shape, InformerShape
<1>4. spawning' = j /\ kube'[j].st # "none"
  BY SpawnFields DEF SpawnJob
<1>5. BudgetShape'
  BY <1>0 DEF Shape, BudgetShape
<1>6. /\ work' = [w \in Workers |-> work'[w]] /\ class' = [i \in Jobs |-> class'[i]]
      /\ dedupe' \in [Jobs -> 0 .. Ttl] /\ reports' \in [Jobs -> 0 .. MaxReports]
      /\ raced' \subseteq Jobs /\ early' \subseteq Jobs
  BY <1>0 DEF Shape
<1> QED
  BY <1>0, <1>1, <1>2, <1>3, <1>4, <1>5, <1>6, ShapeStep

LEMMA MoveShape ==
  ASSUME Shape, NEW j \in Jobs, NEW pod \in {"running", "unscheduled", "waiting", "evicted"},
         PodMoves(j, pod)
  PROVE  Shape'
<1> USE DEF informers, records
<1>0. /\ UNCHANGED <<store, spawning, conf, watched, synced, work, dedupe, reports, class, raced, early>>
      /\ kube[j].st = "active"
      /\ due' = due \union {d \in Deliveries(kube', watched) : d[2] = j}
      /\ left' = left \/ Spend("ill")
  BY DEF PodMoves, Active
<1>1. KubeGrows
  <2>1. DOMAIN kube' = Jobs /\ kube' = [x \in Jobs |-> kube'[x]]
    BY MoveFields
  <2>2. ASSUME NEW i \in Jobs PROVE JobShape(i)'
    <3>1. CASE i = j
      BY <1>0, <3>1, MoveFields DEF JobShape, Shape
    <3>2. CASE i # j
      BY <1>0, <3>2, MoveFields DEF JobShape, Shape
    <3> QED
      BY <3>1, <3>2
  <2>3. ASSUME NEW i \in Jobs
        PROVE  kube'[i].st = kube[i].st /\ kube'[i].ns = kube[i].ns
    BY MoveFields
  <2> QED
    BY <2>1, <2>2, <2>3 DEF KubeGrows
<1>2. \A w \in Workers : WorkShape(w)'
  BY <1>0, <1>1, ItemKept
<1>3. InformerShape'
  <2>1. \A d \in due' : DeliveryShape(d)'
    BY <1>0, <1>1, OldDelivery, NewDelivery
  <2> QED
    BY <1>0, <2>1, InformersKept DEF Shape, InformerShape
<1>4. BudgetShape'
  <2>1. CASE left' = left
    BY <2>1 DEF Shape, BudgetShape
  <2>2. CASE Spend("ill")
    BY <2>2, SpendStep DEF Shape
  <2> QED
    BY <1>0, <2>1, <2>2
<1>5. /\ work' = [w \in Workers |-> work'[w]] /\ class' = [i \in Jobs |-> class'[i]]
      /\ dedupe' \in [Jobs -> 0 .. Ttl] /\ reports' \in [Jobs -> 0 .. MaxReports]
      /\ raced' \subseteq Jobs /\ early' \subseteq Jobs
  BY <1>0 DEF Shape
<1> QED
  BY <1>0, <1>1, <1>2, <1>3, <1>4, <1>5, ShapeStep

LEMMA EndShape ==
  ASSUME Shape, NEW j \in Jobs, NEW end \in Failures \union {[cond |-> "Complete", pod |-> "done"]},
         JobEnds(j, end)
  PROVE  Shape'
<1> USE DEF informers, records
<1>0. /\ UNCHANGED <<store, spawning, conf, watched, synced, work, dedupe, reports, class, raced, early, left>>
      /\ kube[j].st = "active"
      /\ due' = due \union {d \in Deliveries(kube', watched) : d[2] = j}
  BY DEF JobEnds, Active
<1>1. KubeGrows
  <2>1. DOMAIN kube' = Jobs /\ kube' = [x \in Jobs |-> kube'[x]]
    BY EndFields
  <2>2. ASSUME NEW i \in Jobs PROVE JobShape(i)'
    <3>1. CASE i = j
      BY <1>0, <3>1, EndFields, Endings DEF JobShape, Shape
    <3>2. CASE i # j
      BY <1>0, <3>2, EndFields DEF JobShape, Shape
    <3> QED
      BY <3>1, <3>2
  <2>3. ASSUME NEW i \in Jobs
        PROVE  /\ kube[i].st # "none" => kube'[i].st # "none" /\ kube'[i].ns = kube[i].ns
               /\ kube[i].st \in Ended => kube'[i].st \in Ended
    BY <1>0, EndFields DEF Ended
  <2> QED
    BY <2>1, <2>2, <2>3 DEF KubeGrows
<1>2. \A w \in Workers : WorkShape(w)'
  BY <1>0, <1>1, ItemKept
<1>3. InformerShape'
  <2>1. \A d \in due' : DeliveryShape(d)'
    BY <1>0, <1>1, OldDelivery, NewDelivery
  <2> QED
    BY <1>0, <2>1, InformersKept DEF Shape, InformerShape
<1>4. BudgetShape'
  BY <1>0 DEF Shape, BudgetShape
<1>5. /\ work' = [w \in Workers |-> work'[w]] /\ class' = [i \in Jobs |-> class'[i]]
      /\ dedupe' \in [Jobs -> 0 .. Ttl] /\ reports' \in [Jobs -> 0 .. MaxReports]
      /\ raced' \subseteq Jobs /\ early' \subseteq Jobs
  BY <1>0 DEF Shape
<1> QED
  BY <1>0, <1>1, <1>2, <1>3, <1>4, <1>5, ShapeStep

LEMMA DeleteShape ==
  ASSUME Shape, DeleteJob
  PROVE  Shape'
<1> USE DEF informers, records
<1>0. /\ UNCHANGED <<store, spawning, conf, watched, synced, work, dedupe, reports, class, raced, early>>
      /\ due \subseteq due' /\ due' \subseteq due \union Deliveries(kube', watched)
      /\ Spend("fence")
  BY DEF DeleteJob
<1>1. KubeGrows
  <2>1. DOMAIN kube' = Jobs /\ kube' = [x \in Jobs |-> kube'[x]]
    <3>1. \E i \in Jobs : TRUE
      BY DEF DeleteJob
    <3> QED
      BY <3>1, DeleteFields
  <2>2. ASSUME NEW i \in Jobs PROVE JobShape(i)'
    BY <1>0, DeleteFields DEF JobShape, Shape
  <2>3. ASSUME NEW i \in Jobs
        PROVE  /\ kube[i].st # "none" => kube'[i].st # "none" /\ kube'[i].ns = kube[i].ns
               /\ kube[i].st \in Ended => kube'[i].st \in Ended
    BY DeleteFields DEF Ended
  <2> QED
    BY <2>1, <2>2, <2>3 DEF KubeGrows
<1>2. \A w \in Workers : WorkShape(w)'
  BY <1>0, <1>1, ItemKept
<1>3. InformerShape'
  <2>1. \A d \in due' : DeliveryShape(d)'
    BY <1>0, <1>1, OldDelivery, NewDelivery
  <2> QED
    BY <1>0, <2>1, InformersKept DEF Shape, InformerShape
<1>4. BudgetShape'
  BY <1>0, SpendStep DEF Shape
<1>5. /\ work' = [w \in Workers |-> work'[w]] /\ class' = [i \in Jobs |-> class'[i]]
      /\ dedupe' \in [Jobs -> 0 .. Ttl] /\ reports' \in [Jobs -> 0 .. MaxReports]
      /\ raced' \subseteq Jobs /\ early' \subseteq Jobs
  BY <1>0 DEF Shape
<1> QED
  BY <1>0, <1>1, <1>2, <1>3, <1>4, <1>5, ShapeStep

LEMMA TickKeys ==
  ASSUME Shape, Tick, NEW i \in Jobs
  PROVE  /\ dedupe[i] \in 0 .. Ttl /\ dedupe'[i] \in 0 .. Ttl
         /\ dedupe'[i] = IF dedupe[i] = 0 THEN 0 ELSE dedupe[i] - 1
<1>1. dedupe' = [j \in Jobs |-> Max({dedupe[j] - 1, 0})]
  BY DEF Tick
<1>2. dedupe[i] \in 0 .. Ttl
  BY DEF Shape
<1>3. dedupe[i] - 1 \in Int
  BY <1>2, Numbers
<1>4. dedupe'[i] = IF dedupe[i] - 1 <= 0 THEN 0 ELSE dedupe[i] - 1
  BY <1>1, <1>3, MaxOfTwo
<1> QED
  BY <1>2, <1>4, Numbers

LEMMA TickShape ==
  ASSUME Shape, Tick
  PROVE  Shape'
<1> USE DEF informers
<1>0. /\ UNCHANGED <<store, spawning, conf, watched, synced, work, reports, class, early, left>>
      /\ due' = Deliveries(kube', watched)
      /\ dedupe' = [j \in Jobs |-> dedupe'[j]] /\ DOMAIN dedupe' = Jobs
      /\ raced' \subseteq raced \union Jobs
  BY DEF Tick
<1>1. KubeGrows
  <2>1. DOMAIN kube' = Jobs /\ kube' = [x \in Jobs |-> kube'[x]]
    <3>1. \E i \in Jobs : TRUE
      BY DEF Tick
    <3> QED
      BY <3>1, TickFields
  <2>2. ASSUME NEW i \in Jobs PROVE JobShape(i)'
    <3>1. JobShape(i) /\ kube[i] \in JobRecord /\ reports'[i] = reports[i]
      BY <1>0 DEF Shape, JobShape
    <3>2. CASE kube[i].st = "none"
      BY <3>1, <3>2, TickFields, TickKeys DEF JobShape
    <3>3. CASE kube[i].st \in {"failed", "succeeded"}
      BY <3>1, <3>3, TickFields DEF JobShape
    <3>4. CASE kube[i].st \in {"active", "deleted", "gone"}
      BY <3>1, <3>4, TickFields DEF JobShape
    <3> QED
      BY <3>1, <3>2, <3>3, <3>4 DEF JobRecord
  <2>3. ASSUME NEW i \in Jobs
        PROVE  /\ kube[i].st # "none" => kube'[i].st # "none" /\ kube'[i].ns = kube[i].ns
               /\ kube[i].st \in Ended => kube'[i].st \in Ended
    <3>1. kube[i].st \in {"none", "active", "failed", "succeeded", "deleted", "gone"}
      BY DEF Shape, JobShape, JobRecord
    <3> QED
      BY <3>1, TickFields DEF Ended
  <2> QED
    BY <2>1, <2>2, <2>3 DEF KubeGrows
<1>2. \A w \in Workers : WorkShape(w)'
  BY <1>0, <1>1, ItemKept
<1>3. InformerShape'
  <2>1. \A d \in due' : DeliveryShape(d)'
    BY <1>0, <1>1, NewDelivery
  <2> QED
    BY <1>0, <2>1, InformersKept DEF Shape, InformerShape
<1>4. BudgetShape'
  BY <1>0 DEF Shape, BudgetShape
<1>5. dedupe' \in [Jobs -> 0 .. Ttl]
  BY <1>0, TickKeys
<1>6. /\ work' = [w \in Workers |-> work'[w]] /\ class' = [i \in Jobs |-> class'[i]]
      /\ reports' \in [Jobs -> 0 .. MaxReports]
      /\ raced' \subseteq Jobs /\ early' \subseteq Jobs
  BY <1>0 DEF Shape
<1> QED
  BY <1>0, <1>1, <1>2, <1>3, <1>4, <1>5, <1>6, ShapeStep

LEMMA RestartShape ==
  ASSUME Shape, Restart
  PROVE  Shape'
<1>0. /\ UNCHANGED <<conf, reports, class, early>>
      /\ store' = 0 /\ spawning' = 0 /\ Spend("restart")
      /\ watched' = {Home, conf} /\ synced' = {}
      /\ due' = Deliveries(kube, {Home, conf})
      /\ work' = [w \in Workers |-> Idle]
      /\ dedupe' = [j \in Jobs |-> 0]
      /\ raced' = raced \union {j \in Jobs : reports[j] > 0}
  BY DEF Restart
<1>1. KubeGrows
  <2>1. DOMAIN kube' = Jobs /\ kube' = [x \in Jobs |-> kube'[x]]
    BY DEF Restart
  <2>2. ASSUME NEW i \in Jobs PROVE JobShape(i)'
    BY <1>0, RestartFields DEF JobShape, Shape
  <2>3. ASSUME NEW i \in Jobs
        PROVE  kube'[i].st = kube[i].st /\ kube'[i].ns = kube[i].ns
    BY RestartFields
  <2> QED
    BY <2>1, <2>2, <2>3 DEF KubeGrows
<1>2. \A w \in Workers : WorkShape(w)'
  BY <1>0, Numbers DEF WorkShape, IsItem, Idle
<1>3. InformerShape'
  <2>1. ASSUME NEW d \in due' PROVE DeliveryShape(d)'
    <3>1. /\ d \in {"job", "pod"} \X Jobs /\ kube[d[2]].ns \in {Home, conf}
          /\ \/ kube[d[2]].st \in {"failed", "succeeded"}
             \/ kube[d[2]].pod \in {"waiting", "evicted", "crashed", "oom"}
      BY <1>0, DeliveryFacts DEF Shape
    <3>2. d[2] \in Jobs
      BY <3>1
    <3>3. kube[d[2]].st = "none" => kube[d[2]].pod = "none"
      BY <3>2 DEF Shape, JobShape
    <3>4. kube'[d[2]].st = kube[d[2]].st /\ kube'[d[2]].ns = kube[d[2]].ns
      BY <3>2, RestartFields
    <3> QED
      BY <1>0, <3>1, <3>2, <3>3, <3>4 DEF DeliveryShape, Spawned
  <2>2. conf \in Namespaces
    BY DEF Shape, InformerShape
  <2> QED
    BY <1>0, <2>1, <2>2, Numbers, InformersKept
<1>4. BudgetShape'
  BY <1>0, SpendStep DEF Shape
<1>5. dedupe' \in [Jobs -> 0 .. Ttl]
  BY <1>0, Numbers
<1>6. /\ work' = [w \in Workers |-> work'[w]] /\ class' = [i \in Jobs |-> class'[i]]
      /\ reports' \in [Jobs -> 0 .. MaxReports]
      /\ raced' \subseteq Jobs /\ early' \subseteq Jobs
  BY <1>0 DEF Shape
<1> QED
  BY <1>0, <1>1, <1>2, <1>3, <1>4, <1>5, <1>6, ShapeStep

-----------------------------------------------------------------------------
(* The steps of the executor. *)

(* Nobody begins to publish. *)
QuietWork == \A v \in Workers : work'[v].pc = "publish" => work'[v] = work[v]

(* w begins to publish a failure of Job j, whose key is not known. *)
Begins(w, j, task, reason) ==
  /\ dedupe[j] = 0
  /\ work'[w] = [pc |-> "publish", job |-> j, task |-> task, reason |-> reason]
  /\ \A v \in Workers : v # w => work'[v] = work[v]
  /\ raced' = IF Publishing(j) = {} THEN raced ELSE raced \union {j}

LEMMA ItemShape ==
  ASSUME Shape, KubeGrows, NEW w \in Workers,
         work' = [work EXCEPT ![w] = work'[w]], WorkShape(w)'
  PROVE  work' = [v \in Workers |-> work'[v]] /\ \A v \in Workers : WorkShape(v)'
<1>1. work = [v \in Workers |-> work[v]]
  BY DEF Shape
<1>2. /\ work' = [v \in Workers |-> work'[v]]
      /\ \A v \in Workers : v # w => work'[v] = work[v]
  BY <1>1
<1> QED
  BY <1>2, ItemKept

LEMMA IdleShape ==
  ASSUME NEW w \in Workers, work'[w] = Idle
  PROVE  WorkShape(w)' /\ work'[w].pc = "idle"
BY Numbers DEF WorkShape, IsItem, Idle

LEMMA BusyShape ==
  ASSUME NEW w \in Workers, NEW j \in Jobs, kube'[j].st # "none", NEW task \in 0 .. MaxJobs, NEW reason,
         NEW pc \in {"publish", "clear", "evict"}, pc # "publish" => w = "jobs",
         pc = "clear" => kube'[j].st \in Ended,
         work'[w] = [pc |-> pc, job |-> j, task |-> task, reason |-> reason]
  PROVE  WorkShape(w)'
<1>1. /\ work'[w].pc = pc /\ work'[w].job = j /\ work'[w].task = task /\ work'[w].reason = reason
      /\ work'[w] = [pc |-> work'[w].pc, job |-> work'[w].job, task |-> work'[w].task,
                     reason |-> work'[w].reason]
  OBVIOUS
<1>2. j \in 0 .. MaxJobs
  BY Numbers DEF Jobs
<1> QED
  BY <1>1, <1>2 DEF WorkShape, IsItem, Spawned

LEMMA Begin ==
  ASSUME Shape, NEW w \in Workers, NEW j \in Jobs, kube[j].st # "none", kube' = kube,
         dedupe' = dedupe, reports' = reports,
         NEW task \in 0 .. MaxJobs, NEW reason, PublishFailure(w, j, task, reason)
  PROVE  /\ work' = [v \in Workers |-> work'[v]]
         /\ \A v \in Workers : WorkShape(v)'
         /\ raced' \subseteq Jobs
         /\ \/ QuietWork /\ raced' = raced /\ dedupe[j] > 0
            \/ Begins(w, j, task, reason)
<1> DEFINE item == [pc |-> "publish", job |-> j, task |-> task, reason |-> reason]
<1>1. work = [v \in Workers |-> work[v]] /\ raced \subseteq Jobs /\ dedupe[j] \in 0 .. Ttl
  BY DEF Shape
<1>2. KubeGrows
  BY StillKube
<1>3. CASE dedupe[j] > 0 /\ ~(w = "jobs" /\ task # 0)
  <2>1. work' = [work EXCEPT ![w] = Idle] /\ raced' = raced
    BY <1>3, Zenon DEF PublishFailure, checkDedupe
  <2>2. work'[w] = Idle /\ work' = [work EXCEPT ![w] = work'[w]]
    BY <1>1, <2>1
  <2>3. work' = [v \in Workers |-> work'[v]] /\ \A v \in Workers : WorkShape(v)'
    BY <1>2, <2>2, IdleShape, ItemShape
  <2>4. QuietWork
    BY <1>1, <2>1, IdleShape, <2>2 DEF QuietWork
  <2> QED
    BY <1>1, <1>3, <2>1, <2>3, <2>4
<1>4. CASE dedupe[j] > 0 /\ w = "jobs" /\ task # 0
  <2>1. work' = [work EXCEPT ![w] = [item EXCEPT !.pc = "evict"]] /\ raced' = raced
    BY <1>4, Zenon DEF PublishFailure, checkDedupe
  <2>2. /\ work'[w] = [pc |-> "evict", job |-> j, task |-> task, reason |-> reason]
        /\ work' = [work EXCEPT ![w] = work'[w]]
    BY <1>1, <2>1
  <2>3. WorkShape(w)'
    BY <1>4, <2>2, BusyShape
  <2>4. work' = [v \in Workers |-> work'[v]] /\ \A v \in Workers : WorkShape(v)'
    BY <1>2, <2>2, <2>3, ItemShape
  <2>5. QuietWork
    BY <1>1, <2>2 DEF QuietWork
  <2> QED
    BY <1>1, <1>4, <2>1, <2>4, <2>5
<1>5. CASE ~(dedupe[j] > 0)
  <2>1. /\ work' = [work EXCEPT ![w] = item]
        /\ raced' = IF Publishing(j) = {} THEN raced ELSE raced \union {j}
    BY <1>5, Zenon DEF PublishFailure, checkDedupe
  <2>2. /\ work'[w] = item /\ work' = [work EXCEPT ![w] = work'[w]]
        /\ \A v \in Workers : v # w => work'[v] = work[v]
    BY <1>1, <2>1
  <2>3. WorkShape(w)'
    BY <2>2, BusyShape
  <2>4. work' = [v \in Workers |-> work'[v]] /\ \A v \in Workers : WorkShape(v)'
    BY <1>2, <2>2, <2>3, ItemShape
  <2>5. dedupe[j] = 0
    BY <1>1, <1>5, Numbers
  <2> QED
    BY <1>1, <2>1, <2>2, <2>4, <2>5 DEF Begins
<1> QED
  BY <1>3, <1>4, <1>5

(* A goroutine goes on after a publish. *)
LEMMA LeaveStep ==
  ASSUME Shape, KubeGrows, NEW w \in Workers, work[w].pc = "publish",
         work' = [work EXCEPT ![w] = Leave(w)]
  PROVE  /\ work' = [v \in Workers |-> work'[v]]
         /\ \A v \in Workers : WorkShape(v)'
         /\ QuietWork /\ work'[w].pc # "publish"
         /\ \A v \in Workers : v # w => work'[v] = work[v]
<1>1. /\ work = [v \in Workers |-> work[v]] /\ WorkShape(w)
  BY DEF Shape
<1>2. /\ work'[w] = Leave(w) /\ work' = [work EXCEPT ![w] = work'[w]]
      /\ \A v \in Workers : v # w => work'[v] = work[v]
  BY <1>1
<1>3. WorkShape(w)' /\ work'[w].pc # "publish"
  <2>1. CASE w = "jobs" /\ work[w].task # 0
    <3>1. work'[w] = [work[w] EXCEPT !.pc = "evict"]
      BY <1>2, <2>1 DEF Leave
    <3>2. /\ work[w].job \in Jobs /\ kube[work[w].job].st # "none" /\ work[w].task \in 0 .. MaxJobs
          /\ work[w] = [pc |-> work[w].pc, job |-> work[w].job, task |-> work[w].task,
                        reason |-> work[w].reason]
      BY <1>1 DEF WorkShape, IsItem, Spawned
    <3>3. work'[w] = [pc |-> "evict", job |-> work[w].job, task |-> work[w].task,
                      reason |-> work[w].reason]
      BY <3>1, <3>2
    <3>4. kube'[work[w].job].st # "none"
      BY <3>2 DEF KubeGrows
    <3>5. WorkShape(w)'
      BY <2>1, <3>2, <3>3, <3>4, BusyShape
    <3> QED
      BY <3>3, <3>5
  <2>2. CASE ~(w = "jobs" /\ work[w].task # 0)
    BY <1>2, <2>2, IdleShape DEF Leave
  <2> QED
    BY <2>1, <2>2
<1>4. work' = [v \in Workers |-> work'[v]] /\ \A v \in Workers : WorkShape(v)'
  BY <1>2, <1>3, ItemShape
<1> QED
  BY <1>2, <1>3, <1>4 DEF QuietWork

(* Steps that touch neither the Jobs nor what is recorded of them. *)
LEMMA QuietShape ==
  ASSUME Shape, UNCHANGED <<kube, dedupe, reports, class, early>>, spawning' \in {0, spawning},
         store' \in {0, store, spawning}, raced' \subseteq Jobs,
         BudgetShape', InformerShape',
         work' = [w \in Workers |-> work'[w]], \A w \in Workers : WorkShape(w)'
  PROVE  Shape'
<1>1. KubeGrows
  BY StillKube
<1>2. /\ class' = [i \in Jobs |-> class'[i]] /\ early' \subseteq Jobs
      /\ dedupe' \in [Jobs -> 0 .. Ttl] /\ reports' \in [Jobs -> 0 .. MaxReports]
  BY DEF Shape
<1> QED
  BY <1>1, <1>2, ShapeStep

(* The goroutines stay where they are. *)
LEMMA SameWork ==
  ASSUME Shape, UNCHANGED <<kube, dedupe, reports, work>>
  PROVE  /\ work' = [w \in Workers |-> work'[w]]
         /\ \A w \in Workers : WorkShape(w)'
<1>1. KubeGrows
  BY StillKube
<1> QED
  BY <1>1, ItemKept DEF Shape

(* The informers' part stays, but for deliveries that are handled. *)
LEMMA SameInformers ==
  ASSUME Shape, UNCHANGED <<kube, dedupe, reports, conf, watched, synced>>, due' \subseteq due
  PROVE  InformerShape'
<1>1. KubeGrows
  BY StillKube
<1>2. \A d \in due' : DeliveryShape(d)'
  BY <1>1, OldDelivery
<1> QED
  BY <1>2, InformersKept DEF Shape, InformerShape

LEMMA StoreShape ==
  ASSUME Shape,
         storeSpawnedJob \/ cleanupTerminalTask \/ \E j \in Jobs : DeleteIfCurrentJob(j)
  PROVE  Shape'
<1> USE DEF cluster, informers, records
<1>1. /\ UNCHANGED <<kube, conf, watched, synced, due, work, dedupe, reports, class, raced, early>>
      /\ store' \in {0, spawning} /\ spawning' \in {0, spawning}
      /\ left' = left \/ Spend("evict")
  BY DEF storeSpawnedJob, cleanupTerminalTask, DeleteIfCurrentJob
<1>2. BudgetShape'
  <2>1. CASE left' = left
    BY <2>1 DEF Shape, BudgetShape
  <2>2. CASE Spend("evict")
    BY <2>2, SpendStep DEF Shape
  <2> QED
    BY <1>1, <2>1, <2>2
<1>3. InformerShape' /\ raced' \subseteq Jobs
  BY <1>1, SameInformers DEF Shape
<1> QED
  BY <1>1, <1>2, <1>3, SameWork, QuietShape

LEMMA InformerSteps ==
  ASSUME Shape, NEW n \in Namespaces,
         ConfigMoves(n) \/ startNamespaceInformer(n) \/ HasSynced(n)
  PROVE  Shape'
<1> USE DEF cluster, informers, records
<1>1. /\ UNCHANGED <<kube, store, spawning, work, dedupe, reports, class, raced, early>>
      /\ left' = left \/ Spend("move")
  BY DEF ConfigMoves, startNamespaceInformer, HasSynced
<1>2. BudgetShape'
  <2>1. CASE left' = left
    BY <2>1 DEF Shape, BudgetShape
  <2>2. CASE Spend("move")
    BY <2>2, SpendStep DEF Shape
  <2> QED
    BY <1>1, <2>1, <2>2
<1>3. KubeGrows
  BY <1>1, StillKube
<1>4. InformerShape'
  <2>0. /\ conf \in Namespaces /\ watched \subseteq Namespaces /\ Home \in watched /\ synced \subseteq watched
    BY DEF Shape, InformerShape
  <2>1. CASE ConfigMoves(n)
    <3>1. UNCHANGED <<watched, synced, due>> /\ conf' = n
      BY <2>1 DEF ConfigMoves
    <3>2. \A d \in due' : DeliveryShape(d)'
      BY <1>3, <3>1, OldDelivery
    <3> QED
      BY <2>0, <3>1, <3>2, InformersKept
  <2>2. CASE startNamespaceInformer(n)
    <3>1. /\ UNCHANGED <<conf, synced, kube>> /\ watched' = watched \union {n}
          /\ due' = due \union Deliveries(kube, {n})
      BY <2>2 DEF startNamespaceInformer
    <3>2. \A d \in due' : DeliveryShape(d)'
      <4>1. {n} \in SUBSET watched' /\ Deliveries(kube, {n}) = Deliveries(kube', {n})
        BY <3>1
      <4> QED
        BY <1>3, <3>1, <4>1, OldDelivery, NewDelivery
    <3> QED
      BY <2>0, <3>1, <3>2, InformersKept
  <2>3. CASE HasSynced(n)
    <3>1. UNCHANGED <<conf, watched, due>> /\ synced' = synced \union {n} /\ n \in watched
      BY <2>3 DEF HasSynced
    <3>2. \A d \in due' : DeliveryShape(d)'
      BY <1>3, <3>1, OldDelivery
    <3> QED
      BY <2>0, <3>1, <3>2, InformersKept
  <2> QED
    BY <2>1, <2>2, <2>3
<1>5. raced' \subseteq Jobs
  BY <1>1 DEF Shape
<1> QED
  BY <1>1, <1>2, <1>4, <1>5, SameWork, QuietShape

(* What the end of a publish records. *)
LEMMA PublishFields ==
  ASSUME Shape, NEW w \in Workers, publishFailure(w), NEW j \in Jobs
  PROVE  /\ work[w].job \in Jobs
         /\ kube[work[w].job].st # "none"
         /\ j = work[w].job =>
              /\ dedupe'[j] = Ttl
              /\ reports'[j] = IF reports[j] = 0 THEN 1 ELSE 2
              /\ class'[j] = ParseZombieReason(work[w].reason)
         /\ j # work[w].job =>
              dedupe'[j] = dedupe[j] /\ reports'[j] = reports[j] /\ class'[j] = class[j]
<1> DEFINE job == work[w].job
<1>1. job \in Jobs /\ kube[job].st # "none"
  BY DEF Shape, WorkShape, publishFailure, Spawned
<1>2. /\ dedupe \in [Jobs -> 0 .. Ttl] /\ reports \in [Jobs -> 0 .. MaxReports]
      /\ class = [i \in Jobs |-> class[i]]
  BY DEF Shape
<1>3. /\ dedupe' = [dedupe EXCEPT ![job] = Ttl]
      /\ reports' = [reports EXCEPT ![job] = Min({@ + 1, MaxReports})]
      /\ class' = [class EXCEPT ![job] = ParseZombieReason(work[w].reason)]
  BY DEF publishFailure, recordDedupe
<1>4. Min({reports[job] + 1, MaxReports}) = IF reports[job] = 0 THEN 1 ELSE 2
  <2>1. reports[job] \in 0 .. 2
    BY <1>1, <1>2 DEF MaxReports
  <2> HIDE DEF job
  <2> QED
    BY <2>1, MinOfTwo DEF MaxReports
<1> HIDE DEF job
<1>5. class'[job] = ParseZombieReason(work[w].reason) /\ (j # job => class'[j] = class[j])
  BY <1>1, <1>2, <1>3
<1>6. dedupe'[job] = Ttl /\ (j # job => dedupe'[j] = dedupe[j])
  BY <1>1, <1>2, <1>3
<1>7. /\ reports'[job] = IF reports[job] = 0 THEN 1 ELSE 2
      /\ (j # job => reports'[j] = reports[j])
  BY <1>1, <1>2, <1>3, <1>4
<1> QED
  BY <1>1, <1>5, <1>6, <1>7 DEF job

LEMMA PublishShape ==
  ASSUME Shape, NEW w \in Workers, publishFailure(w)
  PROVE  Shape'
<1> USE DEF cluster, informers
<1>0. /\ UNCHANGED <<kube, spawning, conf, store, watched, synced, due, raced, left>>
      /\ work[w].pc = "publish" /\ work' = [work EXCEPT ![w] = Leave(w)]
      /\ early' \subseteq early \union {work[w].job}
      /\ DOMAIN reports' = DOMAIN reports /\ DOMAIN dedupe' = DOMAIN dedupe /\ DOMAIN class' = DOMAIN class
      /\ reports' = [x \in DOMAIN reports |-> reports'[x]] /\ dedupe' = [x \in DOMAIN dedupe |-> dedupe'[x]]
      /\ class' = [x \in DOMAIN class |-> class'[x]]
  BY DEF publishFailure, recordDedupe
<1>1. work[w].job \in Jobs /\ kube[work[w].job].st # "none"
  BY <1>0 DEF Shape, WorkShape, Spawned
<1>2. KubeGrows
  <2>1. ASSUME NEW i \in Jobs PROVE JobShape(i)'
    <3>1. JobShape(i) /\ kube'[i] = kube[i]
      BY <1>0 DEF Shape
    <3>2. kube[i].st = "none" => dedupe'[i] = dedupe[i] /\ reports'[i] = reports[i]
      BY <1>1, PublishFields
    <3> QED
      BY <3>1, <3>2 DEF JobShape
  <2> QED
    BY <1>0, <2>1 DEF KubeGrows, Shape
<1>3. /\ work' = [v \in Workers |-> work'[v]] /\ \A v \in Workers : WorkShape(v)'
  BY <1>0, <1>2, LeaveStep
<1>4. InformerShape'
  <2>1. \A d \in due' : DeliveryShape(d)'
    BY <1>0, <1>2, OldDelivery
  <2> QED
    BY <1>0, <2>1, InformersKept DEF Shape, InformerShape
<1>5. /\ DOMAIN dedupe = Jobs /\ DOMAIN reports = Jobs /\ DOMAIN class = Jobs
  BY DEF Shape
<1>6. ASSUME NEW i \in Jobs PROVE dedupe'[i] \in 0 .. Ttl /\ reports'[i] \in 0 .. MaxReports
  <2>1. dedupe[i] \in 0 .. Ttl /\ reports[i] \in 0 .. MaxReports
    BY DEF Shape
  <2> QED
    BY <2>1, PublishFields, Numbers DEF MaxReports
<1>7. /\ dedupe' \in [Jobs -> 0 .. Ttl] /\ reports' \in [Jobs -> 0 .. MaxReports]
      /\ class' = [i \in Jobs |-> class'[i]]
  BY <1>0, <1>5, <1>6
<1>8. raced' \subseteq Jobs /\ early' \subseteq Jobs
  BY <1>0, <1>1 DEF Shape
<1>9. BudgetShape'
  BY <1>0 DEF Shape, BudgetShape
<1> QED
  BY <1>0, <1>2, <1>3, <1>4, <1>7, <1>8, <1>9, ShapeStep

LEMMA ErrorShape ==
  ASSUME Shape, NEW w \in Workers, PublishError(w)
  PROVE  Shape'
<1> USE DEF cluster, informers, records
<1>0. /\ UNCHANGED <<kube, spawning, conf, store, watched, synced, due, dedupe, reports, class, raced, early>>
      /\ work[w].pc = "publish" /\ work' = [work EXCEPT ![w] = Leave(w)] /\ Spend("error")
  BY DEF PublishError
<1>1. KubeGrows
  BY <1>0, StillKube
<1>2. /\ work' = [v \in Workers |-> work'[v]] /\ \A v \in Workers : WorkShape(v)'
  BY <1>0, <1>1, LeaveStep
<1>3. BudgetShape'
  BY <1>0, SpendStep DEF Shape
<1>4. InformerShape' /\ raced' \subseteq Jobs
  BY <1>0, SameInformers DEF Shape
<1> QED
  BY <1>0, <1>2, <1>3, <1>4, QuietShape

LEMMA ClearFields ==
  ASSUME Shape, NEW fails \in BOOLEAN, PublishClearCurrentJob(fails), NEW j \in Jobs
  PROVE  /\ work["jobs"].job \in Jobs /\ kube[work["jobs"].job].st \in Ended
         /\ dedupe' = [i \in Jobs |-> dedupe'[i]] /\ DOMAIN dedupe' = Jobs
         /\ dedupe'[j] \in {dedupe[j], Ttl}
         /\ j # work["jobs"].job => dedupe'[j] = dedupe[j]
         /\ left' = left \/ Spend("error")
<1>1. work["jobs"].job \in Jobs /\ kube[work["jobs"].job].st \in Ended
  BY DEF Shape, WorkShape, Spawned, PublishClearCurrentJob, Workers
<1>2. dedupe \in [Jobs -> 0 .. Ttl]
  BY DEF Shape
<1>3. \/ dedupe' = dedupe /\ Spend("error")
      \/ dedupe' = [dedupe EXCEPT ![work["jobs"].job] = Ttl] /\ left' = left
  BY DEF PublishClearCurrentJob, recordDedupe
<1> QED
  BY <1>1, <1>2, <1>3

LEMMA ClearWork ==
  ASSUME Shape, KubeGrows, NEW fails \in BOOLEAN, PublishClearCurrentJob(fails)
  PROVE  /\ work' = [v \in Workers |-> work'[v]] /\ \A v \in Workers : WorkShape(v)'
         /\ QuietWork
         /\ \A v \in Workers : work[v].pc = "publish" => work'[v] = work[v]
<1> DEFINE item == work["jobs"]
<1>1. /\ work = [v \in Workers |-> work[v]] /\ WorkShape("jobs") /\ "jobs" \in Workers
  BY DEF Shape, Workers
<1>2. /\ item.pc = "clear"
      /\ work' = [work EXCEPT !["jobs"] = Idle] \/ work' = [work EXCEPT !["jobs"].pc = "evict"]
  BY Zenon DEF PublishClearCurrentJob
<1>3. /\ item.job \in Jobs /\ kube[item.job].st # "none" /\ item.task \in 0 .. MaxJobs
      /\ item = [pc |-> item.pc, job |-> item.job, task |-> item.task, reason |-> item.reason]
  BY <1>1, <1>2 DEF WorkShape, IsItem, Spawned
<1>4. kube'[item.job].st # "none"
  BY <1>3 DEF KubeGrows
<1> HIDE DEF item
<1>5. CASE work' = [work EXCEPT !["jobs"] = Idle]
  <2>1. work'["jobs"] = Idle /\ work' = [work EXCEPT !["jobs"] = work'["jobs"]]
    BY <1>1, <1>5
  <2>2. WorkShape("jobs")' /\ work'["jobs"].pc = "idle"
    BY <1>1, <2>1, IdleShape
  <2> QED
    BY <1>1, <1>2, <2>1, <2>2, ItemShape DEF QuietWork, item
<1>6. CASE work' = [work EXCEPT !["jobs"].pc = "evict"]
  <2>1. /\ work'["jobs"] = [pc |-> "evict", job |-> item.job, task |-> item.task, reason |-> item.reason]
        /\ work' = [work EXCEPT !["jobs"] = work'["jobs"]]
    BY <1>1, <1>3, <1>6 DEF item
  <2>2. WorkShape("jobs")' /\ work'["jobs"].pc = "evict"
    BY <1>1, <1>3, <1>4, <2>1, BusyShape
  <2> QED
    BY <1>1, <1>2, <2>1, <2>2, ItemShape DEF QuietWork, item
<1> QED
  BY <1>2, <1>5, <1>6

LEMMA ClearShape ==
  ASSUME Shape, NEW fails \in BOOLEAN, PublishClearCurrentJob(fails)
  PROVE  Shape'
<1> USE DEF cluster, informers, records
<1>0. UNCHANGED <<kube, spawning, conf, store, watched, synced, due, reports, class, raced, early>>
  BY DEF PublishClearCurrentJob
<1>1. work["jobs"].job \in Jobs /\ kube[work["jobs"].job].st \in Ended
  BY DEF Shape, WorkShape, Spawned, PublishClearCurrentJob, Workers
<1>2. KubeGrows
  <2>1. ASSUME NEW i \in Jobs PROVE JobShape(i)'
    <3>1. JobShape(i) /\ kube'[i] = kube[i] /\ reports'[i] = reports[i]
      BY <1>0 DEF Shape
    <3>2. kube[i].st = "none" => dedupe'[i] = dedupe[i]
      BY <1>1, ClearFields DEF Ended
    <3> QED
      BY <3>1, <3>2 DEF JobShape
  <2> QED
    BY <1>0, <2>1 DEF KubeGrows, Shape
<1>3. /\ work' = [v \in Workers |-> work'[v]] /\ \A v \in Workers : WorkShape(v)'
  BY <1>2, ClearWork
<1>4. InformerShape'
  <2>1. \A d \in due' : DeliveryShape(d)'
    BY <1>0, <1>2, OldDelivery
  <2> QED
    BY <1>0, <2>1, InformersKept DEF Shape, InformerShape
<1>5. dedupe' \in [Jobs -> 0 .. Ttl]
  <2>1. ASSUME NEW i \in Jobs PROVE dedupe'[i] \in 0 .. Ttl
    <3>1. dedupe[i] \in 0 .. Ttl
      BY DEF Shape
    <3> QED
      BY <3>1, ClearFields, Numbers
  <2> QED
    BY <1>1, <2>1, ClearFields
<1>6. BudgetShape'
  <2>1. CASE left' = left
    BY <2>1 DEF Shape, BudgetShape
  <2>2. CASE Spend("error")
    BY <2>2, SpendStep DEF Shape
  <2> QED
    BY <1>1, <2>1, <2>2, ClearFields
<1>7. /\ class' = [i \in Jobs |-> class'[i]] /\ reports' \in [Jobs -> 0 .. MaxReports]
      /\ raced' \subseteq Jobs /\ early' \subseteq Jobs
  BY <1>0 DEF Shape
<1> QED
  BY <1>0, <1>2, <1>3, <1>4, <1>5, <1>6, <1>7, ShapeStep

LEMMA EvictStep ==
  ASSUME Shape, NEW fails \in BOOLEAN, EvictEntry(fails)
  PROVE  /\ UNCHANGED <<kube, spawning, conf, watched, synced, due, dedupe, reports, class, raced, early>>
         /\ store' \in {0, store} /\ (left' = left \/ Spend("error"))
         /\ \A v \in Workers : v # "jobs" => work'[v] = work[v]
         /\ work["jobs"].pc = "evict" /\ work'["jobs"] = Idle
         /\ QuietWork /\ Shape'
<1> USE DEF cluster, informers, records
<1>0. /\ UNCHANGED <<kube, spawning, conf, watched, synced, due, dedupe, reports, class, raced, early>>
      /\ store' \in {0, store} /\ (left' = left \/ Spend("error"))
      /\ work' = [work EXCEPT !["jobs"] = Idle] /\ work["jobs"].pc = "evict"
  BY DEF EvictEntry
<1>1. work = [v \in Workers |-> work[v]] /\ "jobs" \in Workers
  BY DEF Shape, Workers
<1>2. /\ work'["jobs"] = Idle /\ work' = [work EXCEPT !["jobs"] = work'["jobs"]]
      /\ \A v \in Workers : v # "jobs" => work'[v] = work[v]
  BY <1>0, <1>1
<1>3. WorkShape("jobs")' /\ work'["jobs"].pc = "idle"
  BY <1>1, <1>2, IdleShape
<1>4. KubeGrows
  BY <1>0, StillKube
<1>5. work' = [v \in Workers |-> work'[v]] /\ \A v \in Workers : WorkShape(v)'
  BY <1>1, <1>2, <1>3, <1>4, ItemShape
<1>6. QuietWork
  BY <1>2, <1>3 DEF QuietWork
<1>7. BudgetShape'
  <2>1. CASE left' = left
    BY <2>1 DEF Shape, BudgetShape
  <2>2. CASE Spend("error")
    BY <2>2, SpendStep DEF Shape
  <2> QED
    BY <1>0, <2>1, <2>2
<1>8. InformerShape' /\ raced' \subseteq Jobs
  BY <1>0, SameInformers DEF Shape
<1>9. Shape'
  BY <1>0, <1>5, <1>7, <1>8, QuietShape
<1> QED
  BY <1>0, <1>2, <1>6, <1>9

(* HandleJob begins to publish the failure of a failed Job, unless its key *)
(* is known or, without an entry, the failure is old or another Job runs.  *)
LEMMA HandleJobStep ==
  ASSUME Shape, NEW j \in Jobs, HandleJob(j)
  PROVE  /\ UNCHANGED <<kube, store, spawning, conf, watched, synced, dedupe, reports, class, early, left>>
         /\ due' = due \ {<<"job", j>>} /\ <<"job", j>> \in due /\ work["jobs"] = Idle
         /\ \A v \in Workers : v # "jobs" => work'[v] = work[v]
         /\ Shape'
         /\ \/ /\ QuietWork /\ raced' = raced
               /\ IsJobFailed(j) /\ namespaceReady(j) =>
                    \/ dedupe[j] > 0
                    \/ ~freshStoreMissFailure(j)
                    \/ \E i \in Jobs : Active(i)
            \/ /\ IsJobFailed(j) /\ namespaceReady(j)
               /\ \E task \in 0 .. MaxJobs : Begins("jobs", j, task, failureReason(j))
<1> USE DEF cluster, informers
<1>0. /\ UNCHANGED <<kube, store, spawning, conf, watched, synced, dedupe, reports, class, early, left>>
      /\ due' = due \ {<<"job", j>>} /\ <<"job", j>> \in due /\ work["jobs"] = Idle
  BY DEF HandleJob
<1>1. KubeGrows
  BY <1>0, StillKube
<1>2. /\ "jobs" \in Workers /\ work = [v \in Workers |-> work[v]] /\ 0 \in 0 .. MaxJobs
      /\ store \in 0 .. MaxJobs /\ raced \subseteq Jobs
      /\ work["jobs"].pc = "idle"
  BY <1>0, Numbers DEF Shape, Spawned, Workers, Jobs, Idle
<1>3. ASSUME NEW task \in 0 .. MaxJobs, IsJobFailed(j), PublishFailure("jobs", j, task, failureReason(j))
      PROVE  /\ work' = [v \in Workers |-> work'[v]] /\ \A v \in Workers : WorkShape(v)'
             /\ \A v \in Workers : v # "jobs" => work'[v] = work[v]
             /\ raced' \subseteq Jobs
             /\ \/ QuietWork /\ raced' = raced /\ dedupe[j] > 0
                \/ Begins("jobs", j, task, failureReason(j))
  <2>1. kube[j].st # "none"
    BY <1>3 DEF IsJobFailed
  <2>2. /\ work' = [v \in Workers |-> work'[v]] /\ \A v \in Workers : WorkShape(v)'
        /\ raced' \subseteq Jobs
        /\ \/ QuietWork /\ raced' = raced /\ dedupe[j] > 0
           \/ Begins("jobs", j, task, failureReason(j))
    BY <1>0, <1>2, <1>3, <2>1, Begin
  <2>3. \E x : work' = [work EXCEPT !["jobs"] = x]
    BY <1>3, Zenon DEF PublishFailure
  <2>4. \A v \in Workers : v # "jobs" => work'[v] = work[v]
    BY <1>2, <2>3
  <2> QED
    BY <2>2, <2>4
<1>4. CASE IsJobFailed(j) /\ namespaceReady(j) /\ store # 0 /\ PublishFailure("jobs", j, store, failureReason(j))
  <2>1. /\ work' = [v \in Workers |-> work'[v]] /\ \A v \in Workers : WorkShape(v)'
        /\ \A v \in Workers : v # "jobs" => work'[v] = work[v]
        /\ raced' \subseteq Jobs
        /\ \/ QuietWork /\ raced' = raced /\ dedupe[j] > 0
           \/ Begins("jobs", j, store, failureReason(j))
    BY <1>2, <1>3, <1>4
  <2>2. Shape'
    <3>1. InformerShape'
      BY <1>0, SameInformers
    <3>2. BudgetShape'
      BY <1>0 DEF Shape, BudgetShape
    <3> QED
      BY <1>0, <2>1, <3>1, <3>2, QuietShape
  <2> QED
    BY <1>0, <1>2, <1>4, <2>1, <2>2
<1>5. CASE IsJobFailed(j) /\ namespaceReady(j) /\ publishStoreMissFailure(j)
  <2>1. CASE freshStoreMissFailure(j) /\ ~taskHasActiveJob(kube[j].ns)
    <3>0. PublishFailure("jobs", j, 0, failureReason(j))
      BY <1>5, <2>1, Zenon DEF publishStoreMissFailure
    <3>1. /\ work' = [v \in Workers |-> work'[v]] /\ \A v \in Workers : WorkShape(v)'
          /\ \A v \in Workers : v # "jobs" => work'[v] = work[v]
          /\ raced' \subseteq Jobs
          /\ \/ QuietWork /\ raced' = raced /\ dedupe[j] > 0
             \/ Begins("jobs", j, 0, failureReason(j))
      BY <1>2, <1>3, <1>5, <3>0
    <3>2. Shape'
      <4>1. InformerShape'
        BY <1>0, SameInformers
      <4>2. BudgetShape'
        BY <1>0 DEF Shape, BudgetShape
      <4> QED
        BY <1>0, <3>1, <4>1, <4>2, QuietShape
    <3> QED
      BY <1>0, <1>2, <1>5, <3>1, <3>2
  <2>2. CASE ~(freshStoreMissFailure(j) /\ ~taskHasActiveJob(kube[j].ns))
    <3>1. UNCHANGED <<work, raced>>
      BY <1>5, <2>2, Zenon DEF publishStoreMissFailure
    <3>2. Shape'
      <4>1. InformerShape' /\ raced' \subseteq Jobs
        BY <1>0, <1>2, <3>1, SameInformers
      <4>2. BudgetShape'
        BY <1>0 DEF Shape, BudgetShape
      <4> QED
        BY <1>0, <3>1, <4>1, <4>2, SameWork, QuietShape
    <3>3. ~freshStoreMissFailure(j) \/ \E i \in Jobs : Active(i)
      BY <2>2 DEF taskHasActiveJob
    <3> QED
      BY <1>0, <3>1, <3>2, <3>3 DEF QuietWork
  <2> QED
    BY <2>1, <2>2
<1>6. CASE IsJobSucceeded(j) /\ handleSucceeded(j)
  <2>1. ~IsJobFailed(j) /\ kube[j].st \in Ended /\ raced' = raced
    BY <1>6 DEF IsJobFailed, IsJobSucceeded, Ended, handleSucceeded
  <2>2. /\ work' = [v \in Workers |-> work'[v]] /\ \A v \in Workers : WorkShape(v)'
        /\ \A v \in Workers : v # "jobs" => work'[v] = work[v]
        /\ QuietWork
    <3>1. CASE store = 0
      <4>1. work' = work
        BY <1>6, <3>1 DEF handleSucceeded
      <4> QED
        BY <1>0, <4>1, SameWork DEF QuietWork
    <3>2. CASE store # 0
      <4>1. PICK pc \in {"evict", "clear"} :
               work' = [work EXCEPT !["jobs"] = [pc |-> pc, job |-> j, task |-> store, reason |-> <<"none">>]]
        BY <1>6, <3>2 DEF handleSucceeded
      <4>2. /\ work'["jobs"] = [pc |-> pc, job |-> j, task |-> store, reason |-> <<"none">>]
            /\ work' = [work EXCEPT !["jobs"] = work'["jobs"]]
            /\ \A v \in Workers : v # "jobs" => work'[v] = work[v]
        BY <1>2, <4>1
      <4>3. kube'[j].st # "none" /\ kube'[j].st \in Ended
        BY <1>0, <2>1 DEF Ended
      <4>4. WorkShape("jobs")' /\ work'["jobs"].pc = pc
        BY <1>2, <4>2, <4>3, BusyShape
      <4>5. work' = [v \in Workers |-> work'[v]] /\ \A v \in Workers : WorkShape(v)'
        BY <1>1, <1>2, <4>2, <4>4, ItemShape
      <4> QED
        BY <4>2, <4>4, <4>5 DEF QuietWork
    <3> QED
      BY <3>1, <3>2
  <2>3. Shape'
    <3>1. InformerShape' /\ raced' \subseteq Jobs
      BY <1>0, <1>2, <2>1, SameInformers
    <3>2. BudgetShape'
      BY <1>0 DEF Shape, BudgetShape
    <3> QED
      BY <1>0, <2>2, <3>1, <3>2, QuietShape
  <2> QED
    BY <1>0, <2>1, <2>2, <2>3
<1>7. CASE IsJobFailed(j) /\ ~namespaceReady(j) /\ UNCHANGED <<work, raced>>
  <2>1. Shape'
    <3>1. InformerShape' /\ raced' \subseteq Jobs
      BY <1>0, <1>2, <1>7, SameInformers
    <3>2. BudgetShape'
      BY <1>0 DEF Shape, BudgetShape
    <3> QED
      BY <1>0, <1>7, <3>1, <3>2, SameWork, QuietShape
  <2> QED
    BY <1>0, <1>7, <2>1 DEF QuietWork
<1> QED
  BY <1>4, <1>5, <1>6, <1>7, Zenon DEF HandleJob

LEMMA HandlePodStep ==
  ASSUME Shape, NEW j \in Jobs, HandlePod(j)
  PROVE  /\ UNCHANGED <<kube, store, spawning, conf, watched, synced, dedupe, reports, class, early, left>>
         /\ due' = due \ {<<"pod", j>>} /\ kube[j].st # "none"
         /\ \A v \in Workers : v # "pods" => work'[v] = work[v]
         /\ Shape'
         /\ \/ QuietWork /\ raced' = raced
            \/ /\ classifyPodFailure(j) # ""
               /\ \E task \in 0 .. MaxJobs : Begins("pods", j, task, <<classifyPodFailure(j)>>)
<1> USE DEF cluster, informers
<1>0. /\ UNCHANGED <<kube, store, spawning, conf, watched, synced, dedupe, reports, class, early, left>>
      /\ due' = due \ {<<"pod", j>>} /\ <<"pod", j>> \in due
  BY DEF HandlePod
<1>1. /\ "pods" \in Workers /\ work = [v \in Workers |-> work[v]]
      /\ store \in 0 .. MaxJobs /\ raced \subseteq Jobs
  BY Numbers DEF Shape, Spawned, Workers, Jobs
<1>2. kube[j].st # "none"
  BY <1>0 DEF Shape, InformerShape, Spawned
<1>3. InformerShape' /\ BudgetShape'
  BY <1>0, SameInformers DEF Shape, BudgetShape
<1>4. CASE namespaceReady(j) /\ classifyPodFailure(j) # "" /\ store # 0
  <2>0. PublishFailure("pods", j, store, <<classifyPodFailure(j)>>)
    BY <1>4, Zenon DEF HandlePod
  <2>1. /\ work' = [v \in Workers |-> work'[v]] /\ \A v \in Workers : WorkShape(v)'
        /\ raced' \subseteq Jobs
        /\ \/ QuietWork /\ raced' = raced /\ dedupe[j] > 0
           \/ Begins("pods", j, store, <<classifyPodFailure(j)>>)
    BY <1>0, <1>1, <1>2, <2>0, Begin
  <2>2. \E x : work' = [work EXCEPT !["pods"] = x]
    BY <2>0, Zenon DEF PublishFailure
  <2>3. \A v \in Workers : v # "pods" => work'[v] = work[v]
    BY <1>1, <2>2
  <2>4. Shape'
    BY <1>0, <1>3, <2>1, QuietShape
  <2> QED
    BY <1>0, <1>1, <1>2, <1>4, <2>1, <2>3, <2>4
<1>5. CASE ~(namespaceReady(j) /\ classifyPodFailure(j) # "" /\ store # 0)
  <2>1. UNCHANGED <<work, raced>>
    BY <1>5, Zenon DEF HandlePod
  <2>2. Shape'
    BY <1>0, <1>1, <1>3, <2>1, SameWork, QuietShape
  <2> QED
    BY <1>0, <1>2, <2>1, <2>2 DEF QuietWork
<1> QED
  BY <1>4, <1>5

LEMMA SweepStep ==
  ASSUME Shape, NEW reason, sweepTask(reason)
  PROVE  /\ UNCHANGED <<kube, store, spawning, conf, watched, synced, due, dedupe, reports, class, early, left>>
         /\ store \in Jobs /\ kube[store].st # "none"
         /\ \A v \in Workers : v # "sweeper" => work'[v] = work[v]
         /\ Shape'
         /\ Begins("sweeper", store, store, <<reason>>)
<1> USE DEF cluster, informers
<1>0. /\ UNCHANGED <<kube, store, spawning, conf, watched, synced, due, dedupe, reports, class, early, left>>
      /\ store # 0 /\ ~(dedupe[store] > 0)
      /\ PublishFailure("sweeper", store, store, <<reason>>)
  BY DEF sweepTask, checkDedupe
<1>1. /\ "sweeper" \in Workers /\ work = [v \in Workers |-> work[v]]
      /\ store \in Jobs /\ kube[store].st # "none" /\ store \in 0 .. MaxJobs
  BY <1>0, Numbers DEF Shape, Spawned, Workers, Jobs
<1>2. InformerShape' /\ BudgetShape'
  BY <1>0, SameInformers DEF Shape, BudgetShape
<1>3. /\ work' = [v \in Workers |-> work'[v]] /\ \A v \in Workers : WorkShape(v)'
      /\ raced' \subseteq Jobs
      /\ Begins("sweeper", store, store, <<reason>>)
  BY <1>0, <1>1, Begin
<1>4. Shape'
  BY <1>0, <1>2, <1>3, QuietShape
<1> QED
  BY <1>0, <1>1, <1>3, <1>4 DEF Begins

LEMMA ShapeNext == Shape /\ [Next]_vars => Shape'
<1> SUFFICES ASSUME Shape, [Next]_vars PROVE Shape'
  OBVIOUS
<1>1. CASE UNCHANGED vars
  <2>1. UNCHANGED <<kube, store, spawning, conf, watched, synced, due, work, dedupe, reports, class, raced,
                    early, left>>
    BY <1>1 DEF vars
  <2>2. InformerShape' /\ BudgetShape' /\ raced' \subseteq Jobs
    BY <2>1, SameInformers DEF Shape, BudgetShape
  <2> QED
    BY <2>1, <2>2, SameWork, QuietShape
<1>2. ASSUME NEW j \in Jobs, SpawnJob(j) \/ HandleJob(j) \/ HandlePod(j) \/ DeleteIfCurrentJob(j)
      PROVE  Shape'
  BY <1>2, SpawnShape, HandleJobStep, HandlePodStep, StoreShape
<1>3. ASSUME NEW j \in Jobs, NEW pod \in {"running", "unscheduled", "waiting", "evicted"}, PodMoves(j, pod)
      PROVE  Shape'
  BY <1>3, MoveShape
<1>4. ASSUME NEW j \in Jobs, NEW end \in Failures \union {[cond |-> "Complete", pod |-> "done"]},
             JobEnds(j, end)
      PROVE  Shape'
  BY <1>4, EndShape
<1>5. CASE storeSpawnedJob \/ cleanupTerminalTask
  BY <1>5, StoreShape
<1>6. ASSUME NEW n \in Namespaces, ConfigMoves(n) \/ startNamespaceInformer(n) \/ HasSynced(n)
      PROVE  Shape'
  BY <1>6, InformerSteps
<1>7. ASSUME NEW w \in Workers, publishFailure(w) \/ PublishError(w) PROVE Shape'
  BY <1>7, PublishShape, ErrorShape
<1>8. ASSUME NEW fails \in BOOLEAN, PublishClearCurrentJob(fails) \/ EvictEntry(fails) PROVE Shape'
  BY <1>8, ClearShape, EvictStep
<1>9. ASSUME NEW reason \in zombieReasonValues, sweepTask(reason) PROVE Shape'
  BY <1>9, SweepStep
<1>10. CASE DeleteJob \/ Tick \/ Restart
  BY <1>10, DeleteShape, TickShape, RestartShape
<1> QED
  BY <1>1, <1>2, <1>3, <1>4, <1>5, <1>6, <1>7, <1>8, <1>9, <1>10, Zenon DEF Next

LEMMA ShapeTypes == Shape => TypeOK
<1> SUFFICES ASSUME Shape PROVE TypeOK
  OBVIOUS
<1>1. \A w \in Workers : work[w].pc # "idle" => work[w].job \in Jobs
  BY DEF Shape, WorkShape, Spawned
<1>2. \A d \in due : kube[d[2]].ns \in watched
  BY DEF Shape, InformerShape
<1> QED
  BY <1>1, <1>2 DEF TypeOK, Shape, Spawned, InformerShape

(* The watcher is well formed: the store names a Job that exists, what is   *)
(* to be delivered is in a watched namespace, a goroutine that publishes    *)
(* knows for which Job, and a dedupe key lives for at most dedupeTTL.       *)
THEOREM WatcherTypeCorrect == Spec => []TypeOK
<1>1. Spec => []Shape
  BY ShapeInit, ShapeNext, PTL DEF Spec
<1> QED
  BY <1>1, ShapeTypes, PTL

-----------------------------------------------------------------------------
(* The kinds of steps.                                                      *)

(* Why a goroutine begins to publish a failure of Job j. *)
Cause(j, reason) ==
  \/ IsJobFailed(j) /\ reason = failureReason(j)
  \/ classifyPodFailure(j) # "" /\ reason = <<classifyPodFailure(j)>>
  \/ \E r \in zombieReasonValues : sweepTask(r) /\ store = j /\ reason = <<r>>

BeginStep(j) ==
  /\ UNCHANGED <<kube, store, spawning, dedupe, reports, class, early>>
  /\ kube[j].st # "none"
  /\ \E w \in Workers, task \in 0 .. MaxJobs : \E reason : Begins(w, j, task, reason) /\ Cause(j, reason)

(* Nothing happens that a report could depend on. *)
QuietStep ==
  /\ UNCHANGED <<kube, dedupe, reports, class, raced, early>> /\ QuietWork
  /\ \/ store' = spawning /\ spawning' = 0
     \/ store' \in {0, store} /\ spawning' = spawning

ClusterStep ==
  \/ \E j \in Jobs : SpawnJob(j)
  \/ \E j \in Jobs, pod \in {"running", "unscheduled", "waiting", "evicted"} : PodMoves(j, pod)
  \/ \E j \in Jobs, end \in Failures \union {[cond |-> "Complete", pod |-> "done"]} : JobEnds(j, end)
  \/ DeleteJob
  \/ Tick

LEMMA StepKinds ==
  ASSUME Shape, [Next]_vars
  PROVE  \/ QuietStep \/ ClusterStep \/ Restart
         \/ \E j \in Jobs : BeginStep(j)
         \/ \E w \in Workers : publishFailure(w)
         \/ \E fails \in BOOLEAN : PublishClearCurrentJob(fails)
<1> USE DEF cluster, informers, records
<1>1. CASE UNCHANGED vars
  BY <1>1 DEF vars, QuietStep, QuietWork
<1>2. ASSUME NEW j \in Jobs, HandleJob(j) PROVE QuietStep \/ BeginStep(j)
  <2>1. CASE QuietWork /\ raced' = raced
    BY <1>2, <2>1, HandleJobStep DEF QuietStep
  <2>2. CASE IsJobFailed(j) /\ \E task \in 0 .. MaxJobs : Begins("jobs", j, task, failureReason(j))
    <3>1. "jobs" \in Workers /\ kube[j].st # "none" /\ Cause(j, failureReason(j))
      BY <2>2 DEF Workers, IsJobFailed, Cause
    <3>2. UNCHANGED <<kube, store, spawning, dedupe, reports, class, early>>
      BY <1>2, HandleJobStep
    <3> QED
      BY <2>2, <3>1, <3>2, Zenon DEF BeginStep
  <2> QED
    BY <1>2, <2>1, <2>2, HandleJobStep
<1>3. ASSUME NEW j \in Jobs, HandlePod(j) PROVE QuietStep \/ BeginStep(j)
  <2>1. CASE QuietWork /\ raced' = raced
    BY <1>3, <2>1, HandlePodStep DEF QuietStep
  <2>2. CASE /\ classifyPodFailure(j) # ""
             /\ \E task \in 0 .. MaxJobs : Begins("pods", j, task, <<classifyPodFailure(j)>>)
    <3>1. "pods" \in Workers /\ Cause(j, <<classifyPodFailure(j)>>)
      BY <2>2 DEF Workers, Cause
    <3>2. UNCHANGED <<kube, store, spawning, dedupe, reports, class, early>> /\ kube[j].st # "none"
      BY <1>3, HandlePodStep
    <3> QED
      BY <2>2, <3>1, <3>2, Zenon DEF BeginStep
  <2> QED
    BY <1>3, <2>1, <2>2, HandlePodStep
<1>4. ASSUME NEW reason \in zombieReasonValues, sweepTask(reason) PROVE \E j \in Jobs : BeginStep(j)
  <2>1. /\ UNCHANGED <<kube, store, spawning, dedupe, reports, class, early>>
        /\ store \in Jobs /\ kube[store].st # "none" /\ store \in 0 .. MaxJobs /\ "sweeper" \in Workers
        /\ Begins("sweeper", store, store, <<reason>>)
    BY <1>4, SweepStep, Numbers DEF Workers, Jobs
  <2>2. Cause(store, <<reason>>)
    BY <1>4 DEF Cause
  <2> QED
    BY <2>1, <2>2, Zenon DEF BeginStep
<1>5. ASSUME storeSpawnedJob \/ cleanupTerminalTask \/ \E j \in Jobs : DeleteIfCurrentJob(j)
      PROVE  QuietStep
  BY <1>5 DEF storeSpawnedJob, cleanupTerminalTask, DeleteIfCurrentJob, QuietStep, QuietWork
<1>6. ASSUME NEW n \in Namespaces, ConfigMoves(n) \/ startNamespaceInformer(n) \/ HasSynced(n)
      PROVE  QuietStep
  BY <1>6 DEF ConfigMoves, startNamespaceInformer, HasSynced, QuietStep, QuietWork
<1>7. ASSUME NEW w \in Workers, PublishError(w) PROVE QuietStep
  <2>1. /\ UNCHANGED <<kube, spawning, store, dedupe, reports, class, raced, early>>
        /\ work[w].pc = "publish" /\ work' = [work EXCEPT ![w] = Leave(w)]
    BY <1>7 DEF PublishError
  <2>2. QuietWork
    BY <2>1, StillKube, LeaveStep
  <2> QED
    BY <2>1, <2>2 DEF QuietStep
<1>8. ASSUME NEW fails \in BOOLEAN, EvictEntry(fails) PROVE QuietStep
  BY <1>8, EvictStep DEF QuietStep
<1> QED
  BY <1>1, <1>2, <1>3, <1>4, <1>5, <1>6, <1>7, <1>8, Zenon DEF Next, ClusterStep

LEMMA ClusterFrame ==
  ASSUME Shape, ClusterStep
  PROVE  /\ UNCHANGED <<store, conf, work, reports, class, early>>
         /\ raced \subseteq raced' /\ watched' = watched /\ synced' = synced
BY DEF ClusterStep, SpawnJob, PodMoves, JobEnds, DeleteJob, Tick, informers, records

LEMMA PublishWork ==
  ASSUME Shape, NEW w \in Workers, publishFailure(w)
  PROVE  /\ UNCHANGED <<kube, store, spawning, raced>> /\ work[w].pc = "publish"
         /\ work'[w].pc # "publish" /\ \A v \in Workers : v # w => work'[v] = work[v]
<1>1. /\ UNCHANGED <<kube, store, spawning, raced>>
      /\ work[w].pc = "publish" /\ work' = [work EXCEPT ![w] = Leave(w)]
  BY DEF publishFailure, cluster
<1>2. work = [v \in Workers |-> work[v]]
  BY DEF Shape
<1>3. Leave(w).pc # "publish"
  <2>1. work[w] = [pc |-> work[w].pc, job |-> work[w].job, task |-> work[w].task,
                   reason |-> work[w].reason]
    BY DEF Shape, WorkShape, IsItem
  <2> QED
    BY <2>1 DEF Leave, Idle
<1> QED
  BY <1>1, <1>2, <1>3

LEMMA ClearQuiet ==
  ASSUME Shape, NEW fails \in BOOLEAN, PublishClearCurrentJob(fails)
  PROVE  /\ UNCHANGED <<kube, store, spawning, due, synced, watched, conf, reports, class, raced, early>>
         /\ QuietWork /\ \A v \in Workers : work[v].pc = "publish" => work'[v] = work[v]
<1>1. PICK item : item = work["jobs"]
  OBVIOUS
<1>2. /\ work = [v \in Workers |-> work[v]] /\ "jobs" \in Workers
      /\ item = [pc |-> item.pc, job |-> item.job, task |-> item.task, reason |-> item.reason]
  BY <1>1 DEF Shape, WorkShape, IsItem, Workers
<1>3. /\ work' = [work EXCEPT !["jobs"] = Idle] \/ work' = [work EXCEPT !["jobs"].pc = "evict"]
      /\ item.pc = "clear"
  BY <1>1, Zenon DEF PublishClearCurrentJob
<1>4. /\ \A v \in Workers : v # "jobs" => work'[v] = work[v]
      /\ work'["jobs"] = Idle \/ work'["jobs"] = [item EXCEPT !.pc = "evict"]
  BY <1>1, <1>2, <1>3
<1>5. work'["jobs"].pc # "publish"
  BY <1>2, <1>4 DEF Idle
<1>6. UNCHANGED <<kube, store, spawning, due, synced, watched, conf, reports, class, raced, early>>
  BY DEF PublishClearCurrentJob, cluster, informers, records
<1> QED
  BY <1>1, <1>3, <1>4, <1>5, <1>6 DEF QuietWork

-----------------------------------------------------------------------------
(* Every report has a class.                                               *)

LEMMA Classes ==
  ASSUME NEW j, NEW reason, NEW cond \in KnownConditions,
         IsJobFailed(j) => kube[j].cond = cond, Cause(j, reason)
  PROVE  ParseZombieReason(reason) # "unknown"
<1>0. ASSUME NEW x, x[1] \in zombieReasonValues \union jobFailedConditionAliases
      PROVE  ParseZombieReason(x) # "unknown"
  BY <1>0 DEF ParseZombieReason, zombieReasonValues
<1>1. CASE IsJobFailed(j) /\ reason = failureReason(j)
  <2>1. CASE kube[j].cond = "DeadlineExceeded"
    <3>1. reason = <<"deadline_exceeded">>
      BY <1>1, <2>1 DEF failureReason
    <3>2. reason[1] \in zombieReasonValues
      BY <3>1 DEF zombieReasonValues
    <3> QED
      BY <1>0, <3>2
  <2>2. CASE kube[j].cond = "BackoffLimitExceeded"
    <3>1. reason = backoffFailureReason(j)
      BY <1>1, <2>2 DEF failureReason
    <3>2. reason[1] \in {"BackoffLimitExceeded", "pod_oom_killed", "pod_crash_no_stdout"}
      BY <3>1 DEF backoffFailureReason
    <3> QED
      BY <1>0, <3>2 DEF zombieReasonValues, jobFailedConditionAliases
  <2>3. CASE kube[j].cond \notin {"DeadlineExceeded", "BackoffLimitExceeded"}
    <3>1. reason = fallthroughFailureReason(j)
      BY <1>1, <2>3 DEF failureReason
    <3>2. reason[1] = jobFailedCondition(j)
      BY <3>1 DEF fallthroughFailureReason
    <3>3. jobFailedCondition(j) \in jobFailedConditionAliases
      BY <1>1, <2>3 DEF jobFailedCondition, jobFailedConditionAliases, KnownConditions
    <3> QED
      BY <1>0, <3>2, <3>3
  <2> QED
    BY <2>1, <2>2, <2>3
<1>2. CASE classifyPodFailure(j) # "" /\ reason = <<classifyPodFailure(j)>>
  <2>1. reason[1] \in {"image_pull_backoff", "pod_evicted", "pod_crash_no_stdout"}
    BY <1>2 DEF classifyPodFailure
  <2> QED
    BY <1>0, <2>1 DEF zombieReasonValues
<1>3. ASSUME NEW r \in zombieReasonValues, reason = <<r>> PROVE ParseZombieReason(reason) # "unknown"
  <2>1. reason[1] \in zombieReasonValues
    BY <1>3
  <2> QED
    BY <1>0, <2>1
<1> QED
  BY <1>1, <1>2, <1>3 DEF Cause

LEMMA ConditionsKnown ==
  ASSUME ConditionPremise, Shape, NEW i \in Jobs,
         kube[i].st = "failed" => kube[i].cond \in KnownConditions, ClusterStep \/ Restart
  PROVE  kube'[i].st = "failed" => kube'[i].cond \in KnownConditions
<1>1. ASSUME NEW j \in Jobs, SpawnJob(j)
      PROVE  kube'[i].st = "failed" => kube'[i].cond \in KnownConditions
  BY <1>1, SpawnFields
<1>2. ASSUME NEW j \in Jobs, NEW pod \in {"running", "unscheduled", "waiting", "evicted"}, PodMoves(j, pod)
      PROVE  kube'[i].st = "failed" => kube'[i].cond \in KnownConditions
  BY <1>2, MoveFields
<1>3. ASSUME NEW j \in Jobs, NEW end \in Failures \union {[cond |-> "Complete", pod |-> "done"]},
             JobEnds(j, end)
      PROVE  kube'[i].st = "failed" => kube'[i].cond \in KnownConditions
  <2>1. CASE i = j
    <3>1. end.cond # "Complete" => end.cond \in KnownConditions
      BY Endings DEF ConditionPremise
    <3> QED
      BY <1>3, <2>1, <3>1, EndFields
  <2>2. CASE i # j
    BY <1>3, <2>2, EndFields
  <2> QED
    BY <2>1, <2>2
<1>4. CASE DeleteJob
  BY <1>4, DeleteFields
<1>5. CASE Tick
  <2>1. kube[i].st \in {"none", "active", "failed", "succeeded", "deleted", "gone"}
    BY DEF Shape, JobShape, JobRecord
  <2> QED
    BY <1>5, <2>1, TickFields
<1>6. CASE Restart
  BY <1>6, RestartFields
<1> QED
  BY <1>1, <1>2, <1>3, <1>4, <1>5, <1>6, Zenon DEF ClusterStep

LEMMA ClassNext ==
  ASSUME ConditionPremise, Shape, ClassInv, [Next]_vars
  PROVE  ClassInv'
<1>0. /\ \A j \in Jobs : kube[j].st = "failed" => kube[j].cond \in KnownConditions
      /\ \A w \in Workers : work[w].pc = "publish" => ParseZombieReason(work[w].reason) # "unknown"
      /\ \A j \in Jobs : class[j] # "unknown"
  BY DEF ClassInv, CrashClassKept
<1>1. ASSUME \A j \in Jobs : kube'[j].st = "failed" => kube'[j].cond \in KnownConditions,
             \A w \in Workers : work'[w].pc = "publish" => ParseZombieReason(work'[w].reason) # "unknown",
             \A j \in Jobs : class'[j] # "unknown"
      PROVE  ClassInv'
  BY <1>1 DEF ClassInv, CrashClassKept
<1>2. CASE QuietStep
  BY <1>0, <1>1, <1>2 DEF QuietStep, QuietWork
<1>3. CASE ClusterStep
  BY <1>0, <1>1, <1>3, ConditionsKnown, ClusterFrame
<1>4. CASE Restart
  <2>1. class' = class /\ \A w \in Workers : work'[w].pc = "idle"
    BY <1>4 DEF Restart, Idle
  <2> QED
    BY <1>0, <1>1, <1>4, <2>1, ConditionsKnown
<1>5. ASSUME NEW j \in Jobs, BeginStep(j) PROVE ClassInv'
  <2>1. PICK w \in Workers, task \in 0 .. MaxJobs : \E reason : Begins(w, j, task, reason) /\ Cause(j, reason)
    BY <1>5 DEF BeginStep
  <2>2. PICK reason : Begins(w, j, task, reason) /\ Cause(j, reason)
    BY <2>1
  <2>3. ParseZombieReason(reason) # "unknown"
    <3>1. CASE IsJobFailed(j)
      BY <1>0, <2>2, <3>1, Classes DEF IsJobFailed
    <3>2. CASE ~IsJobFailed(j)
      <4>1. "none" \in KnownConditions
        BY DEF KnownConditions
      <4> QED
        BY <2>2, <3>2, <4>1, Classes
    <3> QED
      BY <3>1, <3>2
  <2>4. kube' = kube /\ class' = class
    BY <1>5 DEF BeginStep
  <2>5. /\ work'[w].reason = reason
        /\ \A v \in Workers : v # w => work'[v] = work[v]
    BY <2>2 DEF Begins
  <2> QED
    BY <1>0, <1>1, <2>3, <2>4, <2>5
<1>6. ASSUME NEW w \in Workers, publishFailure(w) PROVE ClassInv'
  <2>1. /\ kube' = kube /\ work[w].pc = "publish" /\ work' = [work EXCEPT ![w] = Leave(w)]
    BY <1>6 DEF publishFailure, cluster
  <2>2. \A i \in Jobs : class'[i] # "unknown"
    BY <1>0, <1>6, <2>1, PublishFields
  <2>3. work'[w].pc # "publish" /\ \A v \in Workers : v # w => work'[v] = work[v]
    BY <1>6, PublishWork
  <2> QED
    BY <1>0, <1>1, <2>1, <2>2, <2>3
<1>7. ASSUME NEW fails \in BOOLEAN, PublishClearCurrentJob(fails) PROVE ClassInv'
  <2>1. kube' = kube /\ class' = class
    BY <1>7 DEF PublishClearCurrentJob, cluster, records
  <2>2. QuietWork
    BY <1>7, ClearQuiet
  <2> QED
    BY <1>0, <1>1, <2>1, <2>2 DEF QuietWork
<1> QED
  BY <1>2, <1>3, <1>4, <1>5, <1>6, <1>7, StepKinds

(* A failed Job is reported as a crash unless its deadline passed or its   *)
(* pod says otherwise, for any Failed condition the API server gives a Job *)
(* of the spawner, so that the class that arms the trigger cap is never    *)
(* "unknown" (failureReason, jobFailedConditionAliases, ParseZombieReason).*)
THEOREM ClassKept == ASSUME ConditionPremise PROVE Spec => []CrashClassKept
<1>1. Init => ClassInv
  BY DEF Init, ClassInv, CrashClassKept, Unborn, Idle
<1>2. ClassInv => CrashClassKept
  BY DEF ClassInv
<1>3. Shape /\ ClassInv /\ [Next]_vars => ClassInv'
  BY ClassNext
<1> QED
  BY <1>1, <1>2, <1>3, ShapeInit, ShapeNext, PTL DEF Spec

-----------------------------------------------------------------------------
(* One Job after the other.                                                *)

(* No Job is spawned or becomes active again. *)
Advances ==
  \A i \in Jobs : /\ kube'[i].st = "none" <=> kube[i].st = "none"
                  /\ kube'[i].st = "active" => kube[i].st = "active"

LEMMA ClusterAdvances ==
  ASSUME Shape, ClusterStep \/ Restart
  PROVE  Advances \/ \E j \in Jobs : SpawnJob(j)
<1>1. ASSUME NEW j \in Jobs, NEW pod \in {"running", "unscheduled", "waiting", "evicted"}, PodMoves(j, pod)
      PROVE  Advances
  BY <1>1, MoveFields DEF Advances
<1>2. ASSUME NEW j \in Jobs, NEW end \in Failures \union {[cond |-> "Complete", pod |-> "done"]},
             JobEnds(j, end)
      PROVE  Advances
  <2>1. kube[j].st = "active"
    BY <1>2 DEF JobEnds, Active
  <2> QED
    BY <1>2, <2>1, EndFields DEF Advances
<1>3. CASE DeleteJob
  BY <1>3, DeleteFields DEF Advances
<1>4. CASE Tick
  <2>1. \A i \in Jobs : kube[i].st \in {"none", "active", "failed", "succeeded", "deleted", "gone"}
    BY DEF Shape, JobShape, JobRecord
  <2> QED
    BY <1>4, <2>1, TickFields DEF Advances
<1>5. CASE Restart
  BY <1>5, RestartFields DEF Advances
<1> QED
  BY <1>1, <1>2, <1>3, <1>4, <1>5, Zenon DEF ClusterStep

LEMMA OrderNext ==
  ASSUME Shape, InOrder, [Next]_vars
  PROVE  InOrder'
<1>0. /\ \A i, j \in Jobs : i < j /\ kube[j].st # "none" => kube[i].st \notin {"none", "active"}
      /\ store # 0 => \A j \in Jobs : store < j /\ kube[j].st # "none" => j = spawning
      /\ spawning # 0 => /\ \A j \in Jobs : spawning < j => kube[j].st = "none"
                         /\ kube[spawning].pod # "unscheduled"
  BY DEF InOrder
<1>1. ASSUME \A i, j \in Jobs : i < j /\ kube'[j].st # "none" => kube'[i].st \notin {"none", "active"},
             store' # 0 => \A j \in Jobs : store' < j /\ kube'[j].st # "none" => j = spawning',
             spawning' # 0 => /\ \A j \in Jobs : spawning' < j => kube'[j].st = "none"
                              /\ kube'[spawning'].pod # "unscheduled"
      PROVE  InOrder'
  BY <1>1 DEF InOrder
<1>2. CASE QuietStep
  BY <1>0, <1>1, <1>2 DEF QuietStep
<1>3. CASE UNCHANGED <<kube, store, spawning>>
  BY <1>0, <1>1, <1>3
<1>4. ASSUME NEW j \in Jobs, SpawnJob(j) PROVE InOrder'
  <2>1. /\ kube[j].st = "none" /\ spawning = 0 /\ spawning' = j /\ store' = store
        /\ \A i \in Jobs : i < j => kube[i].st \notin {"none", "active"}
    BY <1>4 DEF SpawnJob
  <2>2. /\ kube'[j].st = "active" /\ kube'[j].pod = "none"
        /\ \A i \in Jobs : i # j => kube'[i].st = kube[i].st
    BY <1>4, SpawnFields
  <2>3. \A i \in Jobs : j < i => kube[i].st = "none"
    BY <1>0, <2>1
  <2>4. ASSUME NEW x \in Jobs, NEW y \in Jobs, x < y, kube'[y].st # "none"
        PROVE  kube'[x].st \notin {"none", "active"}
    <3>1. CASE y = j
      BY <2>1, <2>2, <2>4, <3>1 DEF Jobs
    <3>2. CASE y # j
      BY <1>0, <2>1, <2>2, <2>3, <2>4, <3>2 DEF Jobs
    <3> QED
      BY <3>1, <3>2
  <2>5. store' # 0 => \A y \in Jobs : store' < y /\ kube'[y].st # "none" => y = spawning'
    BY <1>0, <2>1, <2>2 DEF Jobs
  <2>6. \A y \in Jobs : j < y => kube'[y].st = "none"
    BY <2>2, <2>3 DEF Jobs
  <2> QED
    BY <1>1, <2>1, <2>2, <2>4, <2>5, <2>6
<1>5. ASSUME ClusterStep \/ Restart, Advances PROVE InOrder'
  <2>1. \A i, j \in Jobs : i < j /\ kube'[j].st # "none" => kube'[i].st \notin {"none", "active"}
    BY <1>0, <1>5 DEF Advances
  <2>2. \/ store' = store /\ spawning' = spawning
        \/ store' = 0 /\ spawning' = 0
        \/ \E j \in Jobs : SpawnJob(j)
    BY <1>5 DEF ClusterStep, PodMoves, JobEnds, DeleteJob, Tick, Restart
  <2>3. CASE store' = store /\ spawning' = spawning
    <3>1. spawning # 0 => spawning \in Jobs
      BY DEF Shape, Spawned
    <3>2. spawning # 0 => kube'[spawning].pod # "unscheduled"
      <4> SUFFICES ASSUME spawning # 0 PROVE kube'[spawning].pod # "unscheduled"
        OBVIOUS
      <4>0. spawning \in Jobs /\ kube[spawning].pod # "unscheduled"
        BY <1>0, <3>1
      <4>1. ASSUME NEW j \in Jobs, NEW pod \in {"running", "unscheduled", "waiting", "evicted"}, PodMoves(j, pod)
            PROVE  kube'[spawning].pod # "unscheduled"
        <5>1. pod = "unscheduled" => spawning # j
          BY <4>1 DEF PodMoves
        <5> QED
          BY <4>0, <4>1, <5>1, MoveFields
      <4>2. ASSUME NEW j \in Jobs, NEW end \in Failures \union {[cond |-> "Complete", pod |-> "done"]},
                   JobEnds(j, end)
            PROVE  kube'[spawning].pod # "unscheduled"
        BY <4>0, <4>2, EndFields, Endings
      <4>3. CASE DeleteJob
        BY <4>0, <4>3, DeleteFields
      <4>4. CASE Tick \/ Restart
        <5>1. CASE Tick
          BY <5>1 DEF Tick
        <5>2. CASE Restart
          BY <4>0, <5>2, RestartFields
        <5> QED
          BY <4>4, <5>1, <5>2
      <4>5. ASSUME NEW j \in Jobs, SpawnJob(j) PROVE FALSE
        BY <4>5, <2>3 DEF SpawnJob
      <4> QED
        BY <1>5, <4>1, <4>2, <4>3, <4>4, <4>5, Zenon DEF ClusterStep
    <3> QED
      BY <1>0, <1>1, <1>5, <2>1, <2>3, <3>2 DEF Advances
  <2>4. CASE store' = 0 /\ spawning' = 0
    BY <1>1, <2>1, <2>4
  <2> QED
    BY <1>4, <2>2, <2>3, <2>4
<1>6. CASE ClusterStep \/ Restart
  BY <1>4, <1>5, <1>6, ClusterAdvances
<1>7. ASSUME NEW j \in Jobs, BeginStep(j) PROVE InOrder'
  BY <1>3, <1>7 DEF BeginStep
<1>8. ASSUME NEW w \in Workers, publishFailure(w) PROVE InOrder'
  BY <1>3, <1>8, PublishWork
<1>9. ASSUME NEW fails \in BOOLEAN, PublishClearCurrentJob(fails) PROVE InOrder'
  BY <1>3, <1>9, ClearQuiet
<1> QED
  BY <1>2, <1>6, <1>7, <1>8, <1>9, StepKinds

-----------------------------------------------------------------------------
(* No healthy Job is reported.                                             *)

LEMMA ReportedSpawned ==
  ASSUME Shape, NEW i \in Jobs, Reported(i)
  PROVE  kube[i].st # "none"
<1>1. CASE reports[i] > 0
  BY <1>1 DEF Shape, JobShape
<1>2. CASE Publishing(i) # {}
  BY <1>2 DEF Publishing, Shape, WorkShape, Spawned
<1> QED
  BY <1>1, <1>2 DEF Reported

LEMMA ExcusedKept ==
  ASSUME Shape, NEW i \in Jobs, kube[i].st # "none", Excused(i), ClusterStep \/ Restart
  PROVE  Excused(i)'
<1>0. /\ kube[i].st \in {"none", "active", "failed", "succeeded", "deleted", "gone"}
      /\ kube[i].run \in 0 .. Deadline
  BY DEF Shape, JobShape, JobRecord
<1>1. ASSUME NEW j \in Jobs, SpawnJob(j) PROVE Excused(i)'
  <2>1. i # j
    BY <1>1 DEF SpawnJob
  <2> QED
    BY <1>1, <2>1, SpawnFields DEF Excused
<1>2. ASSUME NEW j \in Jobs, NEW pod \in {"running", "unscheduled", "waiting", "evicted"}, PodMoves(j, pod)
      PROVE  Excused(i)'
  BY <1>2, MoveFields DEF Excused
<1>3. ASSUME NEW j \in Jobs, NEW end \in Failures \union {[cond |-> "Complete", pod |-> "done"]},
             JobEnds(j, end)
      PROVE  Excused(i)'
  <2>1. kube[j].st = "active"
    BY <1>3 DEF JobEnds, Active
  <2> QED
    BY <1>3, <2>1, EndFields DEF Excused
<1>4. CASE DeleteJob
  BY <1>4, DeleteFields DEF Excused
<1>5. CASE Tick
  <2>1. /\ kube'[i].run \in 0 .. Deadline /\ kube'[i].run >= kube[i].run
        /\ kube'[i].ill = kube[i].ill
        /\ kube[i].st \notin {"active", "succeeded"} => kube'[i].st \notin {"active", "succeeded"}
    BY <1>0, <1>5, TickFields DEF JobRecord
  <2> QED
    BY <1>0, <2>1, Numbers DEF Excused
<1>6. CASE Restart
  BY <1>6, RestartFields DEF Excused
<1> QED
  BY <1>1, <1>2, <1>3, <1>4, <1>5, <1>6, Zenon DEF ClusterStep

LEMMA PodsNext ==
  ASSUME Shape, InOrder, HealthInv, ClusterStep \/ Restart
  PROVE  /\ \A j \in Jobs : kube'[j].st = "active" /\ ~kube'[j].ill => kube'[j].pod \in {"none", "running"}
         /\ \A i, j \in Jobs : i < j /\ kube'[i].pod = "unscheduled" => kube'[j].run = 0
<1> DEFINE Calm == \A j \in Jobs : kube'[j].st = "active" /\ ~kube'[j].ill => kube'[j].pod \in {"none", "running"}
           Waits == \A i, j \in Jobs : i < j /\ kube'[i].pod = "unscheduled" => kube'[j].run = 0
<1>0. /\ \A j \in Jobs : kube[j].st = "active" /\ ~kube[j].ill => kube[j].pod \in {"none", "running"}
      /\ \A i, j \in Jobs : i < j /\ kube[i].pod = "unscheduled" => kube[j].run = 0
      /\ \A i, j \in Jobs : i < j /\ kube[j].st # "none" => kube[i].st \notin {"none", "active"}
      /\ \A j \in Jobs : kube[j].st = "none" => kube[j].run = 0 /\ kube[j].pod = "none"
      /\ \A j \in Jobs : kube[j].st \in {"failed", "succeeded", "gone"} => kube[j].pod # "unscheduled"
      /\ \A j \in Jobs : kube[j].st \in {"none", "active", "failed", "succeeded", "deleted", "gone"}
  BY DEF HealthInv, InOrder, Shape, JobShape, JobRecord
<1>1. ASSUME NEW j \in Jobs, SpawnJob(j) PROVE Calm /\ Waits
  BY <1>0, <1>1, SpawnFields
<1>2. ASSUME NEW j \in Jobs, NEW pod \in {"running", "unscheduled", "waiting", "evicted"}, PodMoves(j, pod)
      PROVE  Calm /\ Waits
  <2>1. kube[j].st = "active"
    BY <1>2 DEF PodMoves, Active
  <2>2. Calm
    BY <1>0, <1>2, MoveFields
  <2>3. \A i \in Jobs : j < i => kube[i].run = 0
    BY <1>0, <2>1
  <2>4. Waits
    BY <1>0, <1>2, <2>3, MoveFields
  <2> QED
    BY <2>2, <2>4
<1>3. ASSUME NEW j \in Jobs, NEW end \in Failures \union {[cond |-> "Complete", pod |-> "done"]},
             JobEnds(j, end)
      PROVE  Calm /\ Waits
  <2>1. /\ kube'[j].st # "active" /\ kube'[j].pod # "unscheduled" /\ kube'[j].run = kube[j].run
        /\ \A i \in Jobs : i # j => kube'[i] = kube[i]
    BY <1>3, EndFields, Endings
  <2> QED
    BY <1>0, <2>1
<1>4. CASE DeleteJob
  BY <1>0, <1>4, DeleteFields
<1>5. CASE Tick
  <2>1. Calm
    BY <1>0, <1>5, TickFields
  <2>2. \A i \in Jobs : kube'[i].pod = "unscheduled" => kube[i].st = "active"
    BY <1>0, <1>5, TickFields
  <2>3. \A i \in Jobs : kube[i].st = "none" => kube'[i].run = 0
    BY <1>0, <1>5, TickFields
  <2>4. Waits
    BY <1>0, <2>2, <2>3
  <2> QED
    BY <2>1, <2>4
<1>6. CASE Restart
  BY <1>0, <1>6, RestartFields
<1> QED
  BY <1>1, <1>2, <1>3, <1>4, <1>5, <1>6, Zenon DEF ClusterStep

(* Whoever begins to publish has a reason to. *)
LEMMA CauseExcuses ==
  ASSUME SweepPremise, Shape, InOrder, HealthInv, NEW i \in Jobs, NEW reason, Cause(i, reason)
  PROVE  Excused(i)
<1>0. /\ kube[i].st = "active" /\ ~kube[i].ill => kube[i].pod \in {"none", "running"}
      /\ kube[i].st = "succeeded" => kube[i].pod = "done"
  BY DEF HealthInv, Shape, JobShape
<1>1. CASE IsJobFailed(i)
  BY <1>1 DEF IsJobFailed, Excused
<1>2. CASE classifyPodFailure(i) # ""
  <2>1. kube[i].pod \in {"waiting", "evicted", "crashed", "oom"}
    BY <1>2 DEF classifyPodFailure
  <2> QED
    BY <1>0, <2>1 DEF Excused
<1>3. ASSUME NEW r \in zombieReasonValues, sweepTask(r), store = i PROVE Excused(i)
  <2>1. r \in classify(conf) /\ SweepDue(i, r)
    BY <1>3 DEF sweepTask, resolveTaskNamespace
  <2>2. CASE kube[i].run >= Deadline
    BY <2>2 DEF Excused
  <2>3. CASE ~(kube[i].run >= Deadline)
    <3>1. r = "pod_not_scheduled" /\ kube[i].run >= Min({ArmWindow, Deadline})
      BY <2>1, <2>3, Zenon DEF SweepDue
    <3>2. kube[i].run \in 0 .. Deadline
      BY DEF Shape, JobShape, JobRecord
    <3>3. kube[i].run >= 1
      <4>1. Min({ArmWindow, Deadline}) = IF ArmWindow <= Deadline THEN ArmWindow ELSE Deadline
        BY Numbers, MinOfTwo
      <4> QED
        BY <3>1, <3>2, <4>1, Numbers DEF SweepPremise
    <3>4. PICK x \in Jobs : kube[x].pod = "unscheduled"
      <4> DEFINE pods == {kube[j].pod : j \in {y \in Jobs : kube[y].ns = conf}} \ {"none"}
      <4>1. "unscheduled" \notin pods => "pod_not_scheduled" \notin classify(conf)
        BY DEF classify
      <4>2. "unscheduled" \in pods
        BY <2>1, <3>1, <4>1
      <4> QED
        BY <4>2
    <3>5. ~(i < x)
      <4> SUFFICES ASSUME i < x PROVE FALSE
        OBVIOUS
      <4>1. kube[x].st # "none"
        BY <3>4 DEF Shape, JobShape
      <4>2. store # 0
        BY <1>3 DEF sweepTask
      <4>3. x = spawning
        BY <1>3, <4>1, <4>2 DEF InOrder
      <4>4. spawning # 0
        BY <4>3, Numbers DEF Jobs
      <4> QED
        BY <3>4, <4>3, <4>4 DEF InOrder
    <3>6. ~(x < i)
      BY <3>2, <3>3, <3>4 DEF HealthInv
    <3>7. x = i
      BY <3>5, <3>6 DEF Jobs
    <3> QED
      BY <1>0, <3>4, <3>7 DEF Excused
  <2> QED
    BY <2>2, <2>3
<1> QED
  BY <1>1, <1>2, <1>3 DEF Cause

LEMMA HealthNext ==
  ASSUME SweepPremise, Shape, InOrder, HealthInv, [Next]_vars
  PROVE  HealthInv'
<1>0. /\ \A j \in Jobs : kube[j].st = "active" /\ ~kube[j].ill => kube[j].pod \in {"none", "running"}
      /\ \A i, j \in Jobs : i < j /\ kube[i].pod = "unscheduled" => kube[j].run = 0
      /\ \A i \in Jobs : Reported(i) => Excused(i)
  BY DEF HealthInv
<1>1. ASSUME kube' = kube, \A i \in Jobs : Reported(i)' => Excused(i) PROVE HealthInv'
  BY <1>0, <1>1 DEF HealthInv, Excused
<1>2. ASSUME QuietWork, reports' = reports, NEW i \in Jobs, Reported(i)' PROVE Reported(i)
  BY <1>2 DEF Reported, Publishing, QuietWork
<1>3. CASE QuietStep
  BY <1>0, <1>1, <1>2, <1>3 DEF QuietStep
<1>4. CASE ClusterStep \/ Restart
  <2>1. QuietWork /\ reports' = reports
    <3>1. CASE ClusterStep
      BY <3>1, ClusterFrame DEF QuietWork
    <3>2. CASE Restart
      BY <3>2 DEF Restart, QuietWork, Idle
    <3> QED
      BY <1>4, <3>1, <3>2
  <2>2. ASSUME NEW i \in Jobs, Reported(i)' PROVE Excused(i)'
    BY <1>0, <1>2, <1>4, <2>1, <2>2, ReportedSpawned, ExcusedKept
  <2> QED
    BY <1>4, <2>2, PodsNext DEF HealthInv
<1>5. ASSUME NEW j \in Jobs, BeginStep(j) PROVE HealthInv'
  <2>1. PICK w \in Workers, task \in 0 .. MaxJobs : \E reason : Begins(w, j, task, reason) /\ Cause(j, reason)
    BY <1>5 DEF BeginStep
  <2>2. PICK reason : Begins(w, j, task, reason) /\ Cause(j, reason)
    BY <2>1
  <2>3. Excused(j)
    BY <2>2, CauseExcuses
  <2>4. ASSUME NEW i \in Jobs, i # j, Reported(i)' PROVE Reported(i)
    <3>1. reports' = reports
      BY <1>5 DEF BeginStep
    <3>2. work'[w].job = j /\ \A v \in Workers : v # w => work'[v] = work[v]
      BY <2>2 DEF Begins
    <3> QED
      BY <2>4, <3>1, <3>2 DEF Reported, Publishing
  <2>5. kube' = kube
    BY <1>5 DEF BeginStep
  <2> QED
    BY <1>0, <1>1, <2>3, <2>4, <2>5
<1>6. ASSUME NEW w \in Workers, publishFailure(w) PROVE HealthInv'
  <2>1. /\ kube' = kube /\ work[w].pc = "publish" /\ work'[w].pc # "publish"
        /\ \A v \in Workers : v # w => work'[v] = work[v]
    BY <1>6, PublishWork
  <2>2. ASSUME NEW i \in Jobs, Reported(i)' PROVE Reported(i)
    <3>1. CASE i = work[w].job
      BY <2>1, <3>1 DEF Reported, Publishing
    <3>2. CASE i # work[w].job
      <4>1. reports'[i] = reports[i]
        BY <1>6, <3>2, PublishFields
      <4> QED
        BY <2>1, <2>2, <4>1 DEF Reported, Publishing
    <3> QED
      BY <3>1, <3>2
  <2> QED
    BY <1>0, <1>1, <2>1, <2>2
<1>7. ASSUME NEW fails \in BOOLEAN, PublishClearCurrentJob(fails) PROVE HealthInv'
  BY <1>0, <1>1, <1>2, <1>7, ClearQuiet
<1> QED
  BY <1>3, <1>4, <1>5, <1>6, <1>7, StepKinds

LEMMA HealthInit == Init => InOrder /\ HealthInv
<1> SUFFICES ASSUME Init PROVE InOrder /\ HealthInv
  OBVIOUS
<1>1. /\ \A j \in Jobs : kube[j].st = "none" /\ kube[j].pod = "none" /\ kube[j].run = 0 /\ reports[j] = 0
      /\ \A j \in Jobs : Publishing(j) = {}
      /\ store = 0 /\ spawning = 0
  BY DEF Init, Unborn, Publishing, Idle
<1> QED
  BY <1>1 DEF InOrder, HealthInv, Reported

(* A Job whose pod ran undisturbed is not reported as failed while it runs *)
(* or after it succeeded, unless its deadline has passed: the sweeper      *)
(* never takes the pod of another Job of the task for the one it looks at, *)
(* whatever the fence, the informers and Config changes do meanwhile       *)
(* (sweepTask, classify, podNotScheduledArmWindow).                        *)
THEOREM HealthySpared == ASSUME SweepPremise PROVE Spec => []HealthyNotReported
<1>1. HealthInv => HealthyNotReported
  BY DEF HealthInv, HealthyNotReported, Reported, Excused
<1>2. Shape /\ InOrder /\ [Next]_vars => InOrder'
  BY OrderNext
<1>3. Shape /\ InOrder /\ HealthInv /\ [Next]_vars => HealthInv'
  BY HealthNext
<1> QED
  BY <1>1, <1>2, <1>3, HealthInit, ShapeInit, ShapeNext, PTL DEF Spec

-----------------------------------------------------------------------------
(* One report per failure.                                                 *)

(* The part of Once that is about a Job with a report. *)
Settled(j) ==
  /\ reports[j] = 1
  /\ kube[j].st \notin {"none", "active"}
  /\ kube[j].st = "failed" => dedupe[j] + kube[j].age > Keep
  /\ dedupe[j] = 0 => store # j /\ spawning # j /\ kube[j].pod \in {"none", "done"}

LEMMA OnceParts ==
  ASSUME NEW j
  PROVE  Once(j) <=> /\ \A v, w \in Publishing(j) : v = w
                     /\ reports[j] > 0 => Settled(j) /\ Publishing(j) = {}
BY DEF Once, Settled

LEMMA OncePartsNext ==
  ASSUME NEW j
  PROVE  Once(j)' <=> /\ \A v, w \in Publishing(j)' : v = w
                      /\ reports'[j] > 0 => Settled(j)' /\ Publishing(j)' = {}
BY DEF Once, Settled

(* Nobody new publishes a failure of j. *)
LEMMA FewerPublish ==
  ASSUME NEW j, Once(j), Publishing(j)' \subseteq Publishing(j), reports'[j] = reports[j],
         reports[j] > 0 => Settled(j)'
  PROVE  Once(j)'
BY OnceParts, OncePartsNext

LEMMA SettledCluster ==
  ASSUME KeepPremise, Shape, ClusterStep, NEW i \in Jobs, reports[i] > 0, Settled(i), i \notin raced'
  PROVE  Settled(i)'
<1>0. /\ kube[i].st \in {"failed", "succeeded", "deleted", "gone"} /\ kube[i].age \in 0 .. Keep
      /\ dedupe[i] \in 0 .. Ttl /\ reports[i] = 1
      /\ kube[i].st = "failed" => kube[i].pod \in {"none", "crashed", "oom", "evicted"}
      /\ kube[i].st = "succeeded" => kube[i].pod = "done"
      /\ kube[i].st = "gone" => kube[i].pod = "none"
      /\ kube[i].st = "failed" => dedupe[i] + kube[i].age > Keep
      /\ dedupe[i] = 0 => store # i /\ spawning # i /\ kube[i].pod \in {"none", "done"}
  BY DEF Shape, JobShape, JobRecord, Settled
<1>1. store' = store /\ reports' = reports
  BY ClusterFrame
<1>2. ASSUME NEW j \in Jobs, SpawnJob(j) PROVE Settled(i)'
  <2>1. kube[j].st = "none" /\ spawning' = j /\ dedupe' = dedupe
    BY <1>2 DEF SpawnJob
  <2>2. i # j
    BY <1>0, <2>1
  <2> QED
    BY <1>0, <1>1, <1>2, <2>1, <2>2, SpawnFields DEF Settled
<1>3. ASSUME NEW j \in Jobs, NEW pod \in {"running", "unscheduled", "waiting", "evicted"}, PodMoves(j, pod)
      PROVE  Settled(i)'
  <2>1. kube[j].st = "active" /\ spawning' = spawning /\ dedupe' = dedupe
    BY <1>3 DEF PodMoves, Active
  <2>2. i # j
    BY <1>0, <2>1
  <2> QED
    BY <1>0, <1>1, <1>3, <2>1, <2>2, MoveFields DEF Settled
<1>4. ASSUME NEW j \in Jobs, NEW end \in Failures \union {[cond |-> "Complete", pod |-> "done"]},
             JobEnds(j, end)
      PROVE  Settled(i)'
  <2>1. kube[j].st = "active" /\ spawning' = spawning /\ dedupe' = dedupe
    BY <1>4 DEF JobEnds, Active
  <2>2. i # j
    BY <1>0, <2>1
  <2> QED
    BY <1>0, <1>1, <1>4, <2>1, <2>2, EndFields DEF Settled
<1>5. CASE DeleteJob
  <2>1. spawning' = spawning /\ dedupe' = dedupe
    BY <1>5 DEF DeleteJob
  <2> QED
    BY <1>0, <1>1, <1>5, <2>1, DeleteFields DEF Settled
<1>6. CASE Tick
  <2>1. /\ spawning = 0 /\ spawning' = 0 /\ ~(store = i /\ dedupe[i] = 1)
    BY <1>6 DEF Tick
  <2>2. dedupe'[i] = IF dedupe[i] = 0 THEN 0 ELSE dedupe[i] - 1
    BY <1>6, TickKeys
  <2>3. kube'[i].st \notin {"none", "active"}
    BY <1>0, <1>6, TickFields
  <2>4. kube'[i].st = "failed" =>
          kube[i].st = "failed" /\ kube[i].age < Keep /\ kube'[i].age = kube[i].age + 1
    BY <1>0, <1>6, TickFields
  <2>5. kube'[i].st = "failed" => dedupe'[i] + kube'[i].age > Keep
    <3> SUFFICES ASSUME kube'[i].st = "failed" PROVE dedupe'[i] + kube'[i].age > Keep
      OBVIOUS
    <3>1. dedupe[i] + kube[i].age > Keep /\ kube[i].age < Keep /\ kube'[i].age = kube[i].age + 1
      BY <1>0, <2>4
    <3> QED
      BY <1>0, <2>2, <3>1, Numbers
  <2>6. ASSUME dedupe'[i] = 0 PROVE store # i /\ kube'[i].pod \in {"none", "done"}
    <3>1. dedupe[i] = 0 \/ dedupe[i] = 1
      BY <1>0, <2>2, <2>6, Numbers
    <3>2. store # i
      BY <1>0, <2>1, <3>1
    <3>3. CASE kube[i].st = "failed"
      <4>1. kube[i].age = Keep
        BY <1>0, <3>1, <3>3, Numbers
      <4> QED
        BY <1>6, <3>2, <3>3, <4>1, TickFields, Numbers
    <3>4. CASE kube[i].st \in {"succeeded", "deleted", "gone"}
      BY <1>0, <1>6, <3>2, <3>4, TickFields
    <3> QED
      BY <1>0, <3>3, <3>4
  <2>7. spawning' # i
    BY <2>1, Numbers DEF Jobs
  <2> QED
    BY <1>0, <1>1, <2>3, <2>5, <2>6, <2>7 DEF Settled
<1> QED
  BY <1>2, <1>3, <1>4, <1>5, <1>6, Zenon DEF ClusterStep

LEMMA OnceNext ==
  ASSUME KeepPremise, Shape, OnceInv, [Next]_vars
  PROVE  OnceInv'
<1>0. \A i \in Jobs : i \notin raced /\ i \notin early => Once(i)
  BY DEF OnceInv
<1>1. ASSUME \A i \in Jobs : i \notin raced' /\ i \notin early' => Once(i)' PROVE OnceInv'
  BY <1>1 DEF OnceInv
<1>2. CASE QuietStep
  <2>1. ASSUME NEW i \in Jobs, i \notin raced', i \notin early' PROVE Once(i)'
    <3>1. UNCHANGED <<kube, dedupe, reports, raced, early>> /\ QuietWork
      BY <1>2 DEF QuietStep
    <3>2. store' \in {0, store, spawning} /\ spawning' \in {0, spawning} /\ i # 0
      BY <1>2, Numbers DEF QuietStep, Jobs
    <3>3. Once(i)
      BY <1>0, <2>1, <3>1
    <3>4. Publishing(i)' \subseteq Publishing(i)
      BY <3>1 DEF Publishing, QuietWork
    <3>5. reports[i] > 0 => Settled(i)'
      BY <3>1, <3>2, <3>3, OnceParts DEF Settled
    <3> QED
      BY <3>1, <3>3, <3>4, <3>5, FewerPublish
  <2> QED
    BY <1>1, <2>1
<1>3. CASE ClusterStep
  <2>1. ASSUME NEW i \in Jobs, i \notin raced', i \notin early' PROVE Once(i)'
    <3>1. UNCHANGED <<work, reports, early>> /\ raced \subseteq raced'
      BY <1>3, ClusterFrame
    <3>2. Once(i)
      BY <1>0, <2>1, <3>1
    <3>3. Publishing(i)' \subseteq Publishing(i)
      BY <3>1 DEF Publishing
    <3>4. reports[i] > 0 => Settled(i)'
      BY <1>3, <2>1, <3>2, OnceParts, SettledCluster
    <3> QED
      BY <3>1, <3>2, <3>3, <3>4, FewerPublish
  <2> QED
    BY <1>1, <2>1
<1>4. CASE Restart
  <2>1. ASSUME NEW i \in Jobs, i \notin raced', i \notin early' PROVE Once(i)'
    <3>1. /\ reports' = reports /\ ~(reports[i] > 0)
          /\ \A v \in Workers : work'[v].pc = "idle"
      BY <1>4, <2>1 DEF Restart, Idle
    <3>2. Publishing(i)' = {}
      BY <3>1 DEF Publishing
    <3> QED
      BY <3>1, <3>2, OncePartsNext
  <2> QED
    BY <1>1, <2>1
<1>5. ASSUME NEW j \in Jobs, BeginStep(j) PROVE OnceInv'
  <2>1. PICK w \in Workers, task \in 0 .. MaxJobs : \E reason : Begins(w, j, task, reason) /\ Cause(j, reason)
    BY <1>5 DEF BeginStep
  <2>2. PICK reason : Begins(w, j, task, reason) /\ Cause(j, reason)
    BY <2>1
  <2>3. UNCHANGED <<kube, store, spawning, dedupe, reports, early>>
    BY <1>5 DEF BeginStep
  <2>4. /\ dedupe[j] = 0 /\ work'[w].job = j
        /\ \A v \in Workers : v # w => work'[v] = work[v]
        /\ raced' = IF Publishing(j) = {} THEN raced ELSE raced \union {j}
    BY <2>2 DEF Begins
  <2>5. ASSUME NEW i \in Jobs, i \notin raced', i \notin early' PROVE Once(i)'
    <3>1. Once(i)
      BY <1>0, <2>3, <2>4, <2>5
    <3>2. CASE i # j
      <4>1. Publishing(i)' \subseteq Publishing(i)
        BY <2>4, <3>2 DEF Publishing
      <4>2. reports[i] > 0 => Settled(i)'
        BY <2>3, <3>1, OnceParts DEF Settled
      <4> QED
        BY <2>3, <3>1, <4>1, <4>2, FewerPublish
    <3>3. CASE i = j
      <4>1. Publishing(j) = {}
        BY <2>4, <2>5, <3>3
      <4>2. Publishing(j)' \subseteq {w}
        BY <2>4, <4>1 DEF Publishing
      <4>3. ~(reports[j] > 0)
        <5> SUFFICES ASSUME reports[j] > 0 PROVE FALSE
          OBVIOUS
        <5>1. Settled(j)
          BY <3>1, <3>3, OnceParts
        <5>2. store # j /\ kube[j].pod \in {"none", "done"}
          BY <2>4, <5>1 DEF Settled
        <5>3. kube[j].age \in 0 .. Keep
          BY DEF Shape, JobShape, JobRecord
        <5>4. kube[j].st # "failed"
          BY <2>4, <5>1, <5>3, Numbers DEF Settled
        <5>5. classifyPodFailure(j) = ""
          BY <5>2 DEF classifyPodFailure
        <5> QED
          BY <2>2, <5>2, <5>4, <5>5 DEF Cause, IsJobFailed
      <4> QED
        BY <2>3, <3>3, <4>2, <4>3, OncePartsNext
    <3> QED
      BY <3>2, <3>3
  <2> QED
    BY <1>1, <2>5
<1>6. ASSUME NEW w \in Workers, publishFailure(w) PROVE OnceInv'
  <2>1. /\ UNCHANGED <<kube, store, spawning, raced>> /\ work[w].pc = "publish"
        /\ work'[w].pc # "publish" /\ \A v \in Workers : v # w => work'[v] = work[v]
    BY <1>6, PublishWork
  <2>2. early' = IF Active(work[w].job) THEN early \union {work[w].job} ELSE early
    BY <1>6 DEF publishFailure
  <2>3. ASSUME NEW i \in Jobs, i \notin raced', i \notin early' PROVE Once(i)'
    <3>1. Once(i)
      BY <1>0, <2>1, <2>2, <2>3
    <3>2. CASE i # work[w].job
      <4>1. dedupe'[i] = dedupe[i] /\ reports'[i] = reports[i]
        BY <1>6, <3>2, PublishFields
      <4>2. Publishing(i)' \subseteq Publishing(i)
        BY <2>1 DEF Publishing
      <4>3. reports[i] > 0 => Settled(i)'
        BY <2>1, <3>1, <4>1, OnceParts DEF Settled
      <4> QED
        BY <3>1, <4>1, <4>2, <4>3, FewerPublish
    <3>3. CASE i = work[w].job
      <4>1. w \in Publishing(i)
        BY <2>1, <3>3 DEF Publishing
      <4>2. Publishing(i)' = {}
        <5>1. \A v \in Publishing(i) : v = w
          BY <3>1, <4>1, OnceParts
        <5> QED
          BY <2>1, <5>1 DEF Publishing
      <4>3. ~(reports[i] > 0)
        BY <3>1, <4>1, OnceParts
      <4>4. reports[i] = 0
        <5>1. reports[i] \in 0 .. 2
          BY DEF Shape, MaxReports
        <5> QED
          BY <4>3, <5>1
      <4>5. kube[i].st # "none" /\ reports'[i] = 1 /\ dedupe'[i] = Ttl
        BY <1>6, <3>3, <4>4, PublishFields
      <4>6. kube[i].st # "active"
        BY <2>2, <2>3, <3>3 DEF Active
      <4>7. kube[i].age \in 0 .. Keep
        BY DEF Shape, JobShape, JobRecord
      <4>8. Ttl + kube[i].age > Keep /\ Ttl # 0
        BY <4>7, Numbers DEF KeepPremise
      <4>9. Settled(i)'
        BY <2>1, <4>5, <4>6, <4>8 DEF Settled
      <4> QED
        BY <4>2, <4>9, OncePartsNext
    <3> QED
      BY <3>2, <3>3
  <2> QED
    BY <1>1, <2>3
<1>7. ASSUME NEW fails \in BOOLEAN, PublishClearCurrentJob(fails) PROVE OnceInv'
  <2>1. /\ UNCHANGED <<kube, store, spawning, reports, raced, early>> /\ QuietWork
    BY <1>7, ClearQuiet
  <2>2. ASSUME NEW i \in Jobs, i \notin raced', i \notin early' PROVE Once(i)'
    <3>1. Once(i)
      BY <1>0, <2>1, <2>2
    <3>2. Publishing(i)' \subseteq Publishing(i)
      BY <2>1 DEF Publishing, QuietWork
    <3>3. dedupe'[i] \in {dedupe[i], Ttl}
      BY <1>7, ClearFields
    <3>4. kube[i].age \in 0 .. Keep
      BY DEF Shape, JobShape, JobRecord
    <3>5. Ttl + kube[i].age > Keep /\ Ttl # 0
      BY <3>4, Numbers DEF KeepPremise
    <3>6. reports[i] > 0 => Settled(i)'
      BY <2>1, <3>1, <3>3, <3>5, OnceParts DEF Settled
    <3> QED
      BY <2>1, <3>1, <3>2, <3>6, FewerPublish
  <2> QED
    BY <1>1, <2>2
<1> QED
  BY <1>2, <1>3, <1>4, <1>5, <1>6, <1>7, StepKinds

(* A Job's failure costs the task one trigger, however often the informers *)
(* deliver it and whichever of the three goroutines sees it, unless two of *)
(* them are at it at once, the process restarts, the Job was reported      *)
(* before it ended, or its key expires while it is still the task's entry; *)
(* for any failure path and any interleaving, if a finished Job is         *)
(* collected before dedupeTTL is over (checkDedupe, recordDedupe).         *)
THEOREM ReportedOnce == ASSUME KeepPremise PROVE Spec => []OneReport
<1>1. Init => OnceInv
  <2> SUFFICES ASSUME Init PROVE OnceInv
    OBVIOUS
  <2>1. \A j \in Jobs : reports[j] = 0 /\ Publishing(j) = {}
    BY DEF Init, Publishing, Idle
  <2> QED
    BY <2>1, OnceParts DEF OnceInv
<1>2. Shape /\ OnceInv => OneReport
  <2> SUFFICES ASSUME Shape, OnceInv PROVE OneReport
    OBVIOUS
  <2>1. \A j \in Jobs : reports[j] \in 0 .. 2
    BY DEF Shape, MaxReports
  <2>2. \A j \in Jobs : j \notin raced \union early => (reports[j] > 0 => reports[j] = 1)
    BY DEF OnceInv, Once
  <2> QED
    BY <2>1, <2>2 DEF OneReport
<1>3. Shape /\ OnceInv /\ [Next]_vars => OnceInv'
  BY OnceNext
<1> QED
  BY <1>1, <1>2, <1>3, ShapeInit, ShapeNext, PTL DEF Spec

-----------------------------------------------------------------------------
(* No failure is lost.                                                     *)

(* Where Jobs are and what may still go wrong, but for moves and restarts. *)
LEMMA Places ==
  ASSUME Shape, [Next]_vars
  PROVE  \/ /\ UNCHANGED <<conf, watched, synced>>
            /\ left'.move = left.move /\ left'.restart = left.restart /\ left'.error <= left.error
         \/ \E n \in Namespaces : ConfigMoves(n) \/ startNamespaceInformer(n) \/ HasSynced(n)
         \/ Restart
<1> USE DEF cluster, informers, records
<1> DEFINE Still == /\ UNCHANGED <<conf, watched, synced>>
                    /\ left'.move = left.move /\ left'.restart = left.restart /\ left'.error <= left.error
<1>0. BudgetShape
  BY DEF Shape
<1>1. ASSUME UNCHANGED <<conf, watched, synced>>, left' = left PROVE Still
  <2>1. left.error \in Nat
    BY <1>0 DEF BudgetShape
  <2> QED
    BY <1>1, <2>1
<1>2. ASSUME UNCHANGED <<conf, watched, synced>>,
             NEW kind \in {"ill", "fence", "evict", "error"}, Spend(kind)
      PROVE  Still
  <2>1. left.error \in Nat
    BY <1>0 DEF BudgetShape
  <2>2. /\ left'.move = left.move /\ left'.restart = left.restart
        /\ left'.error = left.error \/ left'.error = left.error - 1
    BY <1>0, <1>2, SpendStep
  <2> QED
    BY <1>2, <2>1, <2>2
<1> HIDE DEF Still
<1>3. ASSUME UNCHANGED vars PROVE Still
  BY <1>1, <1>3 DEF vars
<1>4. ASSUME NEW j \in Jobs, SpawnJob(j) \/ HandleJob(j) \/ HandlePod(j) \/ DeleteIfCurrentJob(j) PROVE Still
  <2>1. UNCHANGED <<conf, watched, synced, left>>
    BY <1>4 DEF SpawnJob, HandleJob, HandlePod, DeleteIfCurrentJob
  <2> QED
    BY <1>1, <2>1
<1>5. ASSUME NEW j \in Jobs, NEW pod \in {"running", "unscheduled", "waiting", "evicted"}, PodMoves(j, pod)
      PROVE  Still
  <2>1. UNCHANGED <<conf, watched, synced>> /\ (left' = left \/ Spend("ill"))
    BY <1>5 DEF PodMoves
  <2> QED
    BY <1>1, <1>2, <2>1
<1>6. ASSUME NEW j \in Jobs, NEW end \in Failures \union {[cond |-> "Complete", pod |-> "done"]},
             JobEnds(j, end)
      PROVE  Still
  <2>1. UNCHANGED <<conf, watched, synced, left>>
    BY <1>6 DEF JobEnds
  <2> QED
    BY <1>1, <2>1
<1>7. ASSUME storeSpawnedJob \/ Tick PROVE Still
  <2>1. UNCHANGED <<conf, watched, synced, left>>
    BY <1>7 DEF storeSpawnedJob, Tick
  <2> QED
    BY <1>1, <2>1
<1>8. ASSUME DeleteJob \/ cleanupTerminalTask PROVE Still
  <2>1. UNCHANGED <<conf, watched, synced>> /\ (Spend("fence") \/ Spend("evict"))
    BY <1>8 DEF DeleteJob, cleanupTerminalTask
  <2> QED
    BY <1>2, <2>1
<1>9. ASSUME NEW w \in Workers, publishFailure(w) \/ PublishError(w) PROVE Still
  <2>1. UNCHANGED <<conf, watched, synced>> /\ (left' = left \/ Spend("error"))
    BY <1>9 DEF publishFailure, PublishError
  <2> QED
    BY <1>1, <1>2, <2>1
<1>10. ASSUME NEW fails \in BOOLEAN, PublishClearCurrentJob(fails) \/ EvictEntry(fails) PROVE Still
  <2>1. UNCHANGED <<conf, watched, synced>> /\ (left' = left \/ Spend("error"))
    BY <1>10, EvictStep DEF PublishClearCurrentJob
  <2> QED
    BY <1>1, <1>2, <2>1
<1>11. ASSUME NEW reason \in zombieReasonValues, sweepTask(reason) PROVE Still
  <2>1. UNCHANGED <<conf, watched, synced, left>>
    BY <1>11 DEF sweepTask
  <2> QED
    BY <1>1, <2>1
<1> QED
  BY <1>3, <1>4, <1>5, <1>6, <1>7, <1>8, <1>9, <1>10, <1>11, Zenon DEF Next, Still

LEMMA JobPlaces ==
  ASSUME Shape, [Next]_vars, NEW i \in Jobs
  PROVE  kube'[i].ns \in {kube[i].ns, conf}
<1>1. CASE kube' = kube
  BY <1>1
<1>2. ASSUME NEW j \in Jobs, SpawnJob(j) PROVE kube'[i].ns \in {kube[i].ns, conf}
  BY <1>2, SpawnFields
<1>3. ASSUME NEW j \in Jobs, NEW pod \in {"running", "unscheduled", "waiting", "evicted"}, PodMoves(j, pod)
      PROVE  kube'[i].ns = kube[i].ns
  BY <1>3, MoveFields
<1>4. ASSUME NEW j \in Jobs, NEW end \in Failures \union {[cond |-> "Complete", pod |-> "done"]},
             JobEnds(j, end)
      PROVE  kube'[i].ns = kube[i].ns
  BY <1>4, EndFields
<1>5. CASE DeleteJob \/ Tick \/ Restart
  BY <1>5, DeleteFields, TickFields, RestartFields
<1>6. CASE ClusterStep \/ Restart
  BY <1>2, <1>3, <1>4, <1>5, <1>6 DEF ClusterStep
<1>7. ASSUME \/ QuietStep
             \/ \E j \in Jobs : BeginStep(j)
             \/ \E w \in Workers : publishFailure(w)
             \/ \E fails \in BOOLEAN : PublishClearCurrentJob(fails)
      PROVE  kube' = kube
  BY <1>7, PublishWork, ClearQuiet DEF QuietStep, BeginStep
<1> QED
  BY <1>1, <1>6, <1>7, StepKinds

LEMMA MoveSpends ==
  ASSUME Shape, NEW n, ConfigMoves(n)
  PROVE  /\ left.move \in Nat /\ left.move > 0 /\ left'.move = left.move - 1
         /\ left'.error = left.error /\ left'.restart = left.restart
<1>1. Spend("move") /\ BudgetShape
  BY DEF ConfigMoves, Shape
<1>2. left.move > 0
  BY <1>1 DEF Spend
<1> QED
  BY <1>1, <1>2, SpendStep DEF BudgetShape

LEMMA RestartSpends ==
  ASSUME Shape, Restart
  PROVE  /\ left.restart \in Nat /\ left.restart > 0 /\ left'.move = left.move
         /\ left'.error = left.error
<1>1. Spend("restart") /\ BudgetShape
  BY DEF Restart, Shape
<1>2. left.restart > 0
  BY <1>1 DEF Spend
<1> QED
  BY <1>1, <1>2, SpendStep DEF BudgetShape

LEMMA PlaceNext ==
  ASSUME Shape, PlaceInv, [Next]_vars
  PROVE  PlaceInv'
<1>0. left.move \in Nat /\ left.move <= 1 /\ (conf # Home => left.move = 0)
  BY DEF PlaceInv, Shape, BudgetShape
<1>1. \A i \in Jobs : kube'[i].ns \in {Home, conf}
  BY JobPlaces DEF PlaceInv
<1>2. CASE conf' = conf /\ left'.move = left.move
  BY <1>0, <1>1, <1>2 DEF PlaceInv
<1>3. ASSUME NEW n \in Namespaces, ConfigMoves(n) PROVE PlaceInv'
  <2>1. left'.move = 0 /\ conf = Home
    BY <1>0, <1>3, MoveSpends
  <2> QED
    BY <1>1, <2>1 DEF PlaceInv
<1>4. ASSUME NEW n \in Namespaces, startNamespaceInformer(n) \/ HasSynced(n) PROVE PlaceInv'
  BY <1>2, <1>4 DEF startNamespaceInformer, HasSynced, cluster
<1>5. CASE Restart
  BY <1>2, <1>5, RestartSpends DEF Restart
<1> QED
  BY <1>2, <1>3, <1>4, <1>5, Places

LEMMA PatienceNumber == Patience \in Nat /\ Patience <= Window /\ Patience <= Keep + 1
BY Numbers DEF Patience

LEMMA SlackNext ==
  ASSUME Shape, SlackInv, [Next]_vars
  PROVE  SlackInv'
<1>0. /\ left.error \in Nat /\ left.move \in Nat /\ left.restart \in Nat /\ left'.error \in Nat
      /\ Patience \in Nat
  BY ShapeNext, PatienceNumber DEF Shape, BudgetShape
<1>1. CASE /\ UNCHANGED <<conf, watched, synced>>
           /\ left'.move = left.move /\ left'.restart = left.restart /\ left'.error <= left.error
  BY <1>0, <1>1 DEF SlackInv
<1>2. ASSUME NEW n \in Namespaces, ConfigMoves(n) PROVE SlackInv'
  <2>1. left.error + 2 <= Patience
    BY <1>0, <1>2, MoveSpends DEF SlackInv
  <2> QED
    BY <1>2, <2>1, MoveSpends DEF SlackInv
<1>3. ASSUME NEW n \in Namespaces, startNamespaceInformer(n) \/ HasSynced(n) PROVE SlackInv'
  <2>1. left' = left /\ n \in ({Home, conf} \ watched) \union (watched \ synced)
    BY <1>3 DEF startNamespaceInformer, HasSynced, resolveJobWatcherNamespaces
  <2>2. left.error + 2 <= Patience
    BY <2>1 DEF SlackInv
  <2> QED
    BY <2>1, <2>2 DEF SlackInv
<1>4. CASE Restart
  <2>1. left.error + 2 <= Patience
    BY <1>0, <1>4, RestartSpends DEF SlackInv
  <2> QED
    BY <1>4, <2>1, RestartSpends DEF SlackInv
<1> QED
  BY <1>1, <1>2, <1>3, <1>4, Places

LEMMA AloneNext ==
  ASSUME Shape, InOrder, AloneInv, [Next]_vars
  PROVE  AloneInv'
<1>1. CASE kube' = kube
  BY <1>1 DEF AloneInv
<1>2. ASSUME NEW j \in Jobs, SpawnJob(j) PROVE AloneInv'
  <2>1. kube[j].st = "none"
    BY <1>2 DEF SpawnJob
  <2>2. \A i \in Jobs : j < i => kube'[i].st = "none"
    BY <1>2, <2>1, SpawnFields DEF InOrder, Jobs
  <2>3. \A i \in Jobs : i # j /\ kube'[i].alone => kube'[i].st = "gone"
    BY <1>2, SpawnFields
  <2> QED
    BY <2>2, <2>3 DEF AloneInv
<1>3. ASSUME \A i \in Jobs : kube'[i].alone = kube[i].alone /\ (kube[i].st = "gone" => kube'[i].st = "gone"),
             Advances
      PROVE  AloneInv'
  BY <1>3 DEF AloneInv, Advances
<1>4. ASSUME ClusterStep \/ Restart, ~\E j \in Jobs : SpawnJob(j), NEW i \in Jobs
      PROVE  kube'[i].alone = kube[i].alone /\ (kube[i].st = "gone" => kube'[i].st = "gone")
  <2>1. ASSUME NEW j \in Jobs, NEW pod \in {"running", "unscheduled", "waiting", "evicted"}, PodMoves(j, pod)
        PROVE  kube'[i].alone = kube[i].alone /\ (kube[i].st = "gone" => kube'[i].st = "gone")
    BY <2>1, MoveFields
  <2>2. ASSUME NEW j \in Jobs, NEW end \in Failures \union {[cond |-> "Complete", pod |-> "done"]},
               JobEnds(j, end)
        PROVE  kube'[i].alone = kube[i].alone /\ (kube[i].st = "gone" => kube'[i].st = "gone")
    <3>1. kube[j].st = "active"
      BY <2>2 DEF JobEnds, Active
    <3> QED
      BY <2>2, <3>1, EndFields
  <2>3. CASE DeleteJob \/ Tick \/ Restart
    BY <2>3, DeleteFields, TickFields, RestartFields
  <2> QED
    BY <1>4, <2>1, <2>2, <2>3 DEF ClusterStep
<1>5. CASE ClusterStep \/ Restart
  BY <1>2, <1>3, <1>4, <1>5, ClusterAdvances
<1>6. ASSUME \/ QuietStep
             \/ \E j \in Jobs : BeginStep(j)
             \/ \E w \in Workers : publishFailure(w)
             \/ \E fails \in BOOLEAN : PublishClearCurrentJob(fails)
      PROVE  kube' = kube
  BY <1>6, PublishWork, ClearQuiet DEF QuietStep, BeginStep
<1> QED
  BY <1>1, <1>5, <1>6, StepKinds

LEMMA KeyNext ==
  ASSUME Shape, KeyInv, [Next]_vars
  PROVE  KeyInv'
<1>0. /\ \A i \in Jobs : dedupe[i] > 0 /\ kube[i].st \in {"active", "failed"} => reports[i] > 0
      /\ \A i \in Jobs : kube[i].st = "none" => dedupe[i] = 0
      /\ \A i \in Jobs : kube[i].st \in {"none", "active", "failed", "succeeded", "deleted", "gone"}
      /\ \A i \in Jobs : dedupe[i] \in 0 .. Ttl
  BY DEF KeyInv, Shape, JobShape, JobRecord
<1>1. CASE UNCHANGED <<kube, dedupe, reports>>
  BY <1>0, <1>1 DEF KeyInv
<1>2. CASE ClusterStep
  <2>1. reports' = reports
    BY <1>2, ClusterFrame
  <2>2. ASSUME NEW i \in Jobs PROVE dedupe'[i] > 0 => dedupe[i] > 0
    <3>1. CASE Tick
      BY <1>0, <3>1, TickKeys, Numbers
    <3>2. CASE ~Tick
      BY <1>2, <3>2 DEF ClusterStep, SpawnJob, PodMoves, JobEnds, DeleteJob
    <3> QED
      BY <3>1, <3>2
  <2>3. ASSUME NEW i \in Jobs, kube'[i].st \in {"active", "failed"}
        PROVE  kube[i].st \in {"none", "active", "failed"}
    <3>1. kube[i].st \in Ended => kube'[i].st \in Ended
      <4>1. ASSUME NEW j \in Jobs, SpawnJob(j) PROVE kube[i].st \in Ended => kube'[i].st \in Ended
        <5>1. kube[j].st = "none"
          BY <4>1 DEF SpawnJob
        <5> QED
          BY <4>1, <5>1, SpawnFields DEF Ended
      <4>2. ASSUME NEW j \in Jobs, NEW pod \in {"running", "unscheduled", "waiting", "evicted"}, PodMoves(j, pod)
            PROVE  kube[i].st \in Ended => kube'[i].st \in Ended
        BY <4>2, MoveFields
      <4>3. ASSUME NEW j \in Jobs, NEW end \in Failures \union {[cond |-> "Complete", pod |-> "done"]},
                   JobEnds(j, end)
            PROVE  kube[i].st \in Ended => kube'[i].st \in Ended
        <5>1. kube[j].st = "active"
          BY <4>3 DEF JobEnds, Active
        <5> QED
          BY <4>3, <5>1, EndFields DEF Ended
      <4>4. CASE DeleteJob \/ Tick
        BY <4>4, DeleteFields, TickFields DEF Ended
      <4> QED
        BY <1>2, <4>1, <4>2, <4>3, <4>4 DEF ClusterStep
    <3> QED
      BY <1>0, <2>3, <3>1 DEF Ended
  <2> QED
    BY <1>0, <2>1, <2>2, <2>3 DEF KeyInv
<1>3. CASE Restart
  BY <1>3 DEF Restart, KeyInv
<1>4. ASSUME NEW w \in Workers, publishFailure(w) PROVE KeyInv'
  <2>1. kube' = kube
    BY <1>4, PublishWork
  <2>2. ASSUME NEW i \in Jobs PROVE reports'[i] > 0 \/ (dedupe'[i] = dedupe[i] /\ reports'[i] = reports[i])
    BY <1>4, PublishFields
  <2> QED
    BY <1>0, <2>1, <2>2 DEF KeyInv
<1>5. ASSUME NEW fails \in BOOLEAN, PublishClearCurrentJob(fails) PROVE KeyInv'
  <2>1. kube' = kube /\ reports' = reports
    BY <1>5, ClearQuiet
  <2>2. ASSUME NEW i \in Jobs PROVE kube[i].st \in Ended \/ dedupe'[i] = dedupe[i]
    BY <1>5, ClearFields
  <2> QED
    BY <1>0, <2>1, <2>2 DEF KeyInv, Ended
<1>6. ASSUME QuietStep \/ \E j \in Jobs : BeginStep(j) PROVE UNCHANGED <<kube, dedupe, reports>>
  BY <1>6 DEF QuietStep, BeginStep
<1> QED
  BY <1>1, <1>2, <1>3, <1>4, <1>5, <1>6, StepKinds

LEMMA Delivered ==
  ASSUME NEW jobs, NEW j \in DOMAIN jobs, NEW S, jobs[j].ns \in S, jobs[j].st = "failed"
  PROVE  <<"job", j>> \in Deliveries(jobs, S)
<1>1. j \in {i \in {x \in DOMAIN jobs : jobs[x].ns \in S} : jobs[i].st \in {"failed", "succeeded"}}
  OBVIOUS
<1> QED
  BY <1>1 DEF Deliveries

(* A step that takes nothing away from a failure that waits. *)
LEMMA Waits ==
  ASSUME Shape, Shape', NEW j \in Jobs, InTime(j), kube'[j].age = kube[j].age, kube'[j].ns = kube[j].ns,
         kube[j].age \in Nat, synced \subseteq synced', left'.error <= left.error,
         Pending(j) => Pending(j)'
  PROVE  InTime(j)'
<1>1. left.error \in Nat /\ left'.error \in Nat /\ Patience \in Nat
  BY PatienceNumber DEF Shape, BudgetShape
<1>2. CASE Pending(j)
  BY <1>1, <1>2 DEF InTime
<1>3. CASE ~Pending(j)
  <2>1. kube[j].age + left.error + 2 <= Patience
    BY <1>3 DEF InTime
  <2>2. kube[j].age + left'.error + 2 <= Patience /\ kube[j].age + left'.error + 1 <= Patience
    BY <1>1, <2>1
  <2> QED
    BY <2>2 DEF InTime
<1> QED
  BY <1>2, <1>3

(* A Job that has just failed is delivered, or is not watched yet. *)
LEMMA FailsInTime ==
  ASSUME Shape, PlaceInv, SlackInv, NEW j \in Jobs,
         NEW end \in Failures \union {[cond |-> "Complete", pod |-> "done"]},
         JobEnds(j, end), Unreported(j)'
  PROVE  InTime(j)'
<1>0. /\ UNCHANGED <<conf, watched, synced, left>> /\ kube[j].st = "active"
      /\ due' = due \union {d \in Deliveries(kube', watched) : d[2] = j}
  BY DEF JobEnds, Active, informers
<1>1. /\ kube'[j].st = "failed" /\ kube'[j].ns = kube[j].ns /\ DOMAIN kube' = Jobs
      /\ kube'[j].age = 0
  BY <1>0, EndFields DEF Unreported, Shape, JobShape
<1>2. /\ left.error \in Nat /\ Patience \in Nat /\ left.error + 1 <= Patience
      /\ synced \subseteq watched /\ kube[j].ns \in {Home, conf}
      /\ kube[j].ns \notin synced => left.error + 2 <= Patience
  <2>1. left.error \in Nat /\ Patience \in Nat /\ synced \subseteq watched /\ kube[j].ns \in {Home, conf}
    BY PatienceNumber DEF Shape, BudgetShape, InformerShape, PlaceInv
  <2> QED
    BY <2>1 DEF SlackInv
<1>3. CASE kube[j].ns \in watched
  <2>1. <<"job", j>> \in Deliveries(kube', watched)
    BY <1>1, <1>3, Delivered
  <2>2. Pending(j)'
    BY <1>0, <2>1 DEF Pending
  <2> QED
    BY <1>0, <1>1, <1>2, <2>2 DEF InTime
<1>4. CASE kube[j].ns \notin watched
  BY <1>0, <1>1, <1>2, <1>4 DEF InTime
<1> QED
  BY <1>3, <1>4

(* With every resync a failure that waits is delivered again. *)
LEMMA TicksInTime ==
  ASSUME Shape, PlaceInv, NEW j \in Jobs, Unreported(j), InTime(j), Tick
  PROVE  kube[j].age < Keep /\ InTime(j)'
<1>0. /\ due = {} /\ work["jobs"] = Idle /\ synced = watched /\ conf \in watched
      /\ UNCHANGED <<watched, synced, left>> /\ due' = Deliveries(kube', watched)
  BY DEF Tick, informers
<1>1. /\ left.error \in Nat /\ kube[j].age \in Nat /\ kube[j].st = "failed"
      /\ kube[j].ns \in {Home, conf} /\ Home \in watched
  BY Numbers DEF Shape, BudgetShape, JobShape, JobRecord, InformerShape, PlaceInv, Unreported
<1>2. ~Pending(j)
  BY <1>0 DEF Pending, Idle
<1>3. kube[j].age + left.error + 2 <= Patience
  BY <1>2 DEF InTime
<1>4. kube[j].age < Keep
  BY <1>1, <1>3, PatienceNumber, Numbers
<1>5. /\ kube'[j].st = "failed" /\ kube'[j].age = kube[j].age + 1 /\ kube'[j].ns = kube[j].ns
      /\ DOMAIN kube' = Jobs
  BY <1>1, <1>4, TickFields, Numbers
<1>6. kube'[j].ns \in watched
  BY <1>0, <1>1, <1>5
<1>7. <<"job", j>> \in Deliveries(kube', watched)
  BY <1>5, <1>6, Delivered
<1>8. Pending(j)'
  BY <1>0, <1>7 DEF Pending
<1>9. kube'[j].age + left'.error + 1 <= Patience
  BY <1>0, <1>1, <1>3, <1>5, PatienceNumber
<1> QED
  BY <1>0, <1>4, <1>6, <1>8, <1>9 DEF InTime

(* The Job handler publishes a failure, or has to wait for the caches. *)
LEMMA HandledInTime ==
  ASSUME Shape, InOrder, PlaceInv, SlackInv, AloneInv, KeyInv,
         NEW j \in Jobs, Unreported(j), InTime(j), HandleJob(j)
  PROVE  InTime(j)'
<1>0. /\ UNCHANGED <<kube, conf, watched, synced, left>> /\ <<"job", j>> \in due
  BY HandleJobStep
<1>1. /\ left.error \in Nat /\ Patience \in Nat /\ Patience <= Window /\ kube[j].age \in Nat
      /\ kube[j].ns \in {Home, conf}
  BY PatienceNumber, Numbers DEF Shape, BudgetShape, JobShape, JobRecord, PlaceInv
<1>2. /\ kube[j].st = "failed" /\ kube[j].fresh /\ kube[j].alone /\ ~(reports[j] > 0)
  BY DEF Unreported
<1>3. kube[j].age + left.error + 1 <= Patience
  BY <1>0 DEF InTime, Pending
<1>4. CASE kube[j].ns \notin synced
  <2>1. kube[j].age = 0 /\ left.error + 2 <= Patience
    BY <1>1, <1>4 DEF InTime, SlackInv
  <2> QED
    BY <1>0, <1>1, <1>3, <2>1 DEF InTime
<1>5. CASE kube[j].ns \in synced
  <2>1. IsJobFailed(j) /\ namespaceReady(j) /\ ~(dedupe[j] > 0)
    BY <1>2, <1>5 DEF IsJobFailed, namespaceReady, KeyInv
  <2>2. freshStoreMissFailure(j)
    <3>1. kube[j].age < Window
      BY <1>1, <1>3, Numbers
    <3> QED
      BY <1>2, <3>1 DEF freshStoreMissFailure
  <2>3. \A i \in Jobs : ~Active(i)
    <3> SUFFICES ASSUME NEW i \in Jobs, kube[i].st = "active" PROVE FALSE
      BY DEF Active
    <3>1. ~(i < j)
      BY <1>2 DEF InOrder
    <3>2. ~(j < i)
      BY <1>2 DEF AloneInv
    <3> QED
      BY <1>2, <3>1, <3>2 DEF Jobs
  <2>4. \E task \in 0 .. MaxJobs : Begins("jobs", j, task, failureReason(j))
    BY <2>1, <2>2, <2>3, HandleJobStep
  <2>5. Pending(j)'
    BY <2>4 DEF Begins, Pending
  <2> QED
    BY <1>0, <1>3, <1>5, <2>5 DEF InTime
<1> QED
  BY <1>4, <1>5

LEMMA AwaitNext ==
  ASSUME Shape, InOrder, PlaceInv, SlackInv, AloneInv, KeyInv, AwaitInv, [Next]_vars
  PROVE  AwaitInv'
<1> SUFFICES ASSUME NEW j \in Jobs, Unreported(j)' PROVE InTime(j)'
  BY DEF AwaitInv
<1>0. Shape' /\ kube[j].age \in Nat /\ left.error \in Nat /\ "jobs" \in Workers
  BY ShapeNext, Numbers DEF Shape, JobShape, JobRecord, BudgetShape, Workers
<1>1. Unreported(j) => InTime(j)
  BY DEF AwaitInv
<1>2. ASSUME kube'[j] = kube[j], reports' = reports, synced \subseteq synced', left'.error <= left.error,
             Pending(j) => Pending(j)'
      PROVE  InTime(j)'
  <2>1. Unreported(j)
    BY <1>2 DEF Unreported
  <2> QED
    BY <1>0, <1>1, <1>2, <2>1, Waits
<1>3. ASSUME due \subseteq due', work'["jobs"] = work["jobs"], Pending(j) PROVE Pending(j)'
  BY <1>3 DEF Pending
<1>4. ASSUME left' = left PROVE left'.error <= left.error
  BY <1>0, <1>4
<1>5. CASE UNCHANGED vars
  <2>1. UNCHANGED <<kube, reports, synced, left, due, work>>
    BY <1>5 DEF vars
  <2> QED
    BY <1>2, <1>3, <1>4, <2>1
<1>6. ASSUME NEW i \in Jobs, SpawnJob(i) PROVE FALSE
  BY <1>6, SpawnFields DEF Unreported
<1>7. ASSUME NEW i \in Jobs, HandleJob(i) PROVE InTime(j)'
  <2>1. /\ UNCHANGED <<kube, reports, synced, left>> /\ due' = due \ {<<"job", i>>}
        /\ work["jobs"] = Idle
    BY <1>7, HandleJobStep
  <2>2. CASE i = j
    BY <1>1, <1>7, <2>1, <2>2, HandledInTime DEF Unreported
  <2>3. CASE i # j
    <3>1. Pending(j) => Pending(j)'
      BY <2>1, <2>3 DEF Pending, Idle
    <3> QED
      BY <1>2, <1>4, <2>1, <3>1
  <2> QED
    BY <2>2, <2>3
<1>8. ASSUME NEW i \in Jobs, HandlePod(i) PROVE InTime(j)'
  <2>1. /\ UNCHANGED <<kube, reports, synced, left>> /\ due' = due \ {<<"pod", i>>}
        /\ work'["jobs"] = work["jobs"]
    BY <1>0, <1>8, HandlePodStep
  <2>2. Pending(j) => Pending(j)'
    BY <2>1 DEF Pending
  <2> QED
    BY <1>2, <1>4, <2>1, <2>2
<1>9. ASSUME \/ storeSpawnedJob
             \/ cleanupTerminalTask
             \/ \E i \in Jobs : DeleteIfCurrentJob(i)
             \/ \E n \in Namespaces : ConfigMoves(n) \/ startNamespaceInformer(n) \/ HasSynced(n)
      PROVE  InTime(j)'
  <2>1. /\ UNCHANGED <<kube, reports, work>> /\ due \subseteq due' /\ synced \subseteq synced'
        /\ left' = left \/ Spend("evict") \/ Spend("move")
    BY <1>9 DEF storeSpawnedJob, cleanupTerminalTask, DeleteIfCurrentJob, ConfigMoves,
                startNamespaceInformer, HasSynced, cluster, informers, records
  <2>2. left'.error <= left.error
    BY <1>0, <1>4, <2>1, SpendStep DEF Shape
  <2> QED
    BY <1>2, <1>3, <2>1, <2>2
<1>10. ASSUME NEW i \in Jobs, NEW pod \in {"running", "unscheduled", "waiting", "evicted"}, PodMoves(i, pod)
       PROVE  InTime(j)'
  <2>1. /\ UNCHANGED <<reports, synced, work>> /\ due \subseteq due'
        /\ left' = left \/ Spend("ill")
        /\ kube[i].st = "active"
    BY <1>10 DEF PodMoves, Active, informers, records
  <2>2. kube'[j] = kube[j]
    BY <1>10, <2>1, MoveFields DEF Unreported
  <2>3. left'.error <= left.error
    BY <1>0, <1>4, <2>1, SpendStep DEF Shape
  <2> QED
    BY <1>2, <1>3, <2>1, <2>2, <2>3
<1>11. ASSUME NEW i \in Jobs, NEW end \in Failures \union {[cond |-> "Complete", pod |-> "done"]},
              JobEnds(i, end)
       PROVE  InTime(j)'
  <2>1. UNCHANGED <<reports, synced, work, left>> /\ due \subseteq due'
    BY <1>11 DEF JobEnds, informers, records
  <2>2. CASE i = j
    BY <1>11, <2>2, FailsInTime
  <2>3. CASE i # j
    <3>1. kube'[j] = kube[j]
      BY <1>11, <2>3, EndFields
    <3> QED
      BY <1>2, <1>3, <1>4, <2>1, <3>1
  <2> QED
    BY <2>2, <2>3
<1>12. CASE DeleteJob
  <2>1. UNCHANGED <<reports, synced, work>> /\ due \subseteq due' /\ Spend("fence")
    BY <1>12 DEF DeleteJob, informers, records
  <2>2. /\ kube[j].st = "failed" /\ kube'[j].age = kube[j].age /\ kube'[j].ns = kube[j].ns
        /\ kube'[j].fresh = kube[j].fresh /\ kube'[j].alone = kube[j].alone
    BY <1>12, DeleteFields DEF Unreported
  <2>3. left'.error <= left.error
    BY <1>0, <2>1, SpendStep DEF Shape
  <2>4. Unreported(j)
    BY <2>1, <2>2 DEF Unreported
  <2> QED
    BY <1>0, <1>1, <1>3, <2>1, <2>2, <2>3, <2>4, Waits
<1>13. ASSUME NEW w \in Workers, publishFailure(w) PROVE InTime(j)'
  <2>1. /\ UNCHANGED <<kube, synced, due, left>>
    BY <1>13 DEF publishFailure, cluster, informers
  <2>2. /\ work'[w].pc # "publish" /\ \A v \in Workers : v # w => work'[v] = work[v]
    BY <1>13, PublishWork
  <2>3. work[w].job # j /\ reports'[j] = reports[j]
    BY <1>13, PublishFields DEF Unreported
  <2>4. Pending(j) => Pending(j)'
    BY <1>0, <2>1, <2>2, <2>3 DEF Pending
  <2>5. Unreported(j)
    BY <2>1, <2>3 DEF Unreported
  <2> QED
    BY <1>0, <1>1, <1>4, <2>1, <2>4, <2>5, Waits
<1>14. ASSUME NEW w \in Workers, PublishError(w) PROVE InTime(j)'
  <2>1. UNCHANGED <<kube, synced, reports>> /\ Spend("error")
    BY <1>14 DEF PublishError, cluster, informers, records
  <2>2. left'.error = left.error - 1
    BY <2>1, SpendStep DEF Shape
  <2>3. Unreported(j)
    BY <2>1 DEF Unreported
  <2>4. kube[j].age + left.error + 1 <= Patience
    BY <1>0, <1>1, <2>3, PatienceNumber DEF InTime
  <2>5. /\ kube'[j].age + left'.error + 1 <= Patience /\ kube'[j].age + left'.error + 2 <= Patience
    BY <1>0, <2>1, <2>2, <2>4, PatienceNumber
  <2> QED
    BY <1>1, <2>1, <2>3, <2>5 DEF InTime
<1>15. ASSUME NEW fails \in BOOLEAN, PublishClearCurrentJob(fails) \/ EvictEntry(fails) PROVE InTime(j)'
  <2>1. /\ UNCHANGED <<kube, synced, reports, due>> /\ (left' = left \/ Spend("error"))
        /\ work["jobs"].pc # "publish"
    BY <1>15, EvictStep DEF PublishClearCurrentJob, cluster, informers, records
  <2>2. left'.error <= left.error
    <3>1. CASE left' = left
      BY <1>4, <3>1
    <3>2. CASE Spend("error")
      BY <1>0, <3>2, SpendStep DEF Shape
    <3> QED
      BY <2>1, <3>1, <3>2
  <2>3. Pending(j) => Pending(j)'
    BY <2>1 DEF Pending
  <2> QED
    BY <1>2, <2>1, <2>2, <2>3
<1>16. ASSUME NEW reason \in zombieReasonValues, sweepTask(reason) PROVE InTime(j)'
  <2>1. UNCHANGED <<kube, synced, reports, due, left>> /\ work'["jobs"] = work["jobs"]
    BY <1>0, <1>16, SweepStep
  <2> QED
    BY <1>2, <1>3, <1>4, <2>1
<1>17. CASE Tick
  <2>1. reports' = reports
    BY <1>17 DEF Tick
  <2>2. kube[j].st \in {"none", "active", "failed", "succeeded", "deleted", "gone"}
    BY DEF Shape, JobShape, JobRecord
  <2>3. Unreported(j)
    BY <1>17, <2>1, <2>2, TickFields DEF Unreported
  <2> QED
    BY <1>1, <1>17, <2>3, TicksInTime
<1>18. CASE Restart
  BY <1>18, RestartFields DEF Unreported
<1> QED
  BY <1>5, <1>6, <1>7, <1>8, <1>9, <1>10, <1>11, <1>12, <1>13, <1>14, <1>15, <1>16, <1>17, <1>18, Zenon
  DEF Next

LEMMA ReportsGrow ==
  ASSUME Shape, [Next]_vars, NEW j \in Jobs, reports[j] > 0
  PROVE  reports'[j] > 0
<1>1. CASE reports' = reports
  BY <1>1
<1>2. ASSUME NEW w \in Workers, publishFailure(w) PROVE reports'[j] > 0
  BY <1>2, PublishFields
<1>3. ASSUME \/ QuietStep \/ ClusterStep \/ Restart
             \/ \E i \in Jobs : BeginStep(i)
             \/ \E fails \in BOOLEAN : PublishClearCurrentJob(fails)
      PROVE  reports' = reports
  BY <1>3, ClusterFrame, ClearQuiet DEF QuietStep, BeginStep, Restart
<1> QED
  BY <1>1, <1>2, <1>3, StepKinds

(* A Job that is collected was collected before, or had failed or succeeded *)
(* and was kept for as long as Jobs are.                                    *)
LEMMA Collected ==
  ASSUME Shape, [Next]_vars, NEW j \in Jobs, kube'[j].st = "gone"
  PROVE  /\ kube'[j].cond = kube[j].cond /\ (kube'[j].fresh => kube[j].fresh)
         /\ kube'[j].alone => kube[j].alone
         /\ \/ kube[j].st = "gone"
            \/ Tick /\ kube[j].st \in {"failed", "succeeded"} /\ kube[j].age = Keep
<1> DEFINE Goal == /\ kube'[j].cond = kube[j].cond /\ (kube'[j].fresh => kube[j].fresh)
                   /\ kube'[j].alone => kube[j].alone
                   /\ \/ kube[j].st = "gone"
                      \/ Tick /\ kube[j].st \in {"failed", "succeeded"} /\ kube[j].age = Keep
<1>0. kube[j].st \in {"none", "active", "failed", "succeeded", "deleted", "gone"}
  BY DEF Shape, JobShape, JobRecord
<1>1. CASE kube' = kube
  BY <1>1
<1>2. ASSUME NEW i \in Jobs, SpawnJob(i) PROVE Goal
  BY <1>2, SpawnFields
<1>3. ASSUME NEW i \in Jobs, NEW pod \in {"running", "unscheduled", "waiting", "evicted"}, PodMoves(i, pod)
      PROVE  Goal
  BY <1>3, MoveFields
<1>4. ASSUME NEW i \in Jobs, NEW end \in Failures \union {[cond |-> "Complete", pod |-> "done"]},
             JobEnds(i, end)
      PROVE  Goal
  BY <1>4, EndFields
<1>5. ASSUME DeleteJob PROVE Goal
  BY <1>5, DeleteFields
<1>6. ASSUME Tick PROVE Goal
  BY <1>0, <1>6, TickFields
<1>7. ASSUME Restart PROVE Goal
  BY <1>7, RestartFields
<1>8. ASSUME \/ QuietStep
             \/ \E i \in Jobs : BeginStep(i)
             \/ \E w \in Workers : publishFailure(w)
             \/ \E fails \in BOOLEAN : PublishClearCurrentJob(fails)
      PROVE  kube' = kube
  BY <1>8, PublishWork, ClearQuiet DEF QuietStep, BeginStep
<1>9. CASE ClusterStep \/ Restart
  BY <1>2, <1>3, <1>4, <1>5, <1>6, <1>7, <1>9 DEF ClusterStep
<1> QED
  BY <1>1, <1>8, <1>9, StepKinds

LEMMA FailureNext ==
  ASSUME Shape, PlaceInv, AwaitInv, FailureReported, [Next]_vars
  PROVE  FailureReported'
<1> SUFFICES ASSUME NEW j \in Jobs, kube'[j].st = "gone", kube'[j].cond # "Complete",
                    kube'[j].fresh, kube'[j].alone
             PROVE  reports'[j] > 0
  BY DEF FailureReported
<1>1. kube[j].cond # "Complete" /\ kube[j].fresh /\ kube[j].alone
  BY Collected
<1>2. CASE kube[j].st = "gone"
  BY <1>1, <1>2, ReportsGrow DEF FailureReported
<1>3. CASE Tick /\ kube[j].st \in {"failed", "succeeded"} /\ kube[j].age = Keep
  <2>1. kube[j].st = "failed" /\ reports[j] \in 0 .. 2
    BY <1>1, <1>3 DEF Shape, JobShape, MaxReports
  <2>2. reports[j] # 0
    <3> SUFFICES ASSUME reports[j] = 0 PROVE FALSE
      OBVIOUS
    <3>1. Unreported(j)
      BY <1>1, <2>1 DEF Unreported
    <3>2. kube[j].age < Keep
      BY <1>3, <3>1, TicksInTime DEF AwaitInv
    <3> QED
      BY <1>3, <3>2, Numbers
  <2>3. reports[j] > 0
    BY <2>1, <2>2
  <2> QED
    BY <2>3, ReportsGrow
<1> QED
  BY <1>2, <1>3, Collected

(* No failure disappears unreported: a Job that failed under this watcher  *)
(* and had no successor before it was collected has been reported, by      *)
(* whatever path its store entry left, if the publishes that fail leave    *)
(* one resync for the publish that succeeds - within the window for        *)
(* failures without an entry and before the Job is collected - and one     *)
(* more where caches may have to sync first (HandleJob,                    *)
(* publishStoreMissFailure, storeMissPublishWindow).                       *)
THEOREM NoFailureLost == ASSUME ReportPremise PROVE Spec => []FailureReported
<1>1. Init => ReportInv
  <2> SUFFICES ASSUME Init PROVE ReportInv
    OBVIOUS
  <2>1. /\ \A j \in Jobs : kube[j].st = "none" /\ kube[j].ns = Home /\ dedupe[j] = 0
        /\ conf = Home /\ watched = {Home} /\ synced = {Home}
    BY DEF Init, Unborn
  <2>2. /\ left.move <= 1
        /\ \/ left.error + 2 <= Patience
           \/ left.error + 1 <= Patience /\ left.move = 0 /\ left.restart = 0
    BY DEF Init, ReportPremise
  <2>3. PlaceInv /\ SlackInv
    BY <2>1, <2>2 DEF PlaceInv, SlackInv
  <2>4. AloneInv /\ KeyInv /\ AwaitInv /\ FailureReported
    BY <2>1 DEF AloneInv, KeyInv, AwaitInv, Unreported, FailureReported
  <2> QED
    BY <2>3, <2>4 DEF ReportInv
<1>2. Shape /\ InOrder /\ ReportInv /\ [Next]_vars => ReportInv'
  BY PlaceNext, SlackNext, AloneNext, KeyNext, AwaitNext, FailureNext DEF ReportInv
<1>3. ReportInv => FailureReported
  BY DEF ReportInv
<1>4. Shape /\ InOrder /\ [Next]_vars => InOrder'
  BY OrderNext
<1>5. Init => InOrder
  BY HealthInit
<1> QED
  BY <1>1, <1>2, <1>3, <1>4, <1>5, ShapeInit, ShapeNext, PTL DEF Spec

=============================================================================
