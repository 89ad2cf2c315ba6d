-------------------------- MODULE SpawnFunnelProofs -------------------------
(***************************************************************************)
(* What SpawnFunnel promises for every set of tasks, every fleet of Configs *)
(* and every history of edits, faults and crashes: the state stays well    *)
(* formed, a task has a second Job and an assignee a Job above its cap only *)
(* for creates that were answered with an error, and an eviction beats     *)
(* every replay collected before it.                                       *)
(*                                                                         *)
(* The inductive invariant Inv has three parts.  Shapes says what the      *)
(* state is made of; in it, every item a loop still has in hand carries an *)
(* epoch that is out of date unless the task was not evicted since.        *)
(* Locked ties the lock of an assignee to the goroutine that is about to   *)
(* create a Job for it.  Counted is about the pass cache: what it misses   *)
(* of the running Jobs was created by calls that failed, each of them      *)
(* missed once, and a goroutine at the create has counted rightly up to    *)
(* those.                                                                  *)
(***************************************************************************)
EXTENDS SpawnFunnel, FiniteSetTheorems, SequenceTheorems, TLAPS

JobRecords == [task : Tasks, asg : Assignees, st : {"run", "done", "over"}]

(* The record was routed to the first Config of its name. *)
Routed(rec) ==
    /\ AsgOf(rec) \in Assignees
    /\ ConfigFor(rec) = ConfigNamed[AsgOf(rec)]

(* An item of goroutine p: the loops' carry an epoch of the task, and one  *)
(* that is up to date saw the last eviction.                               *)
GoodItem(p, item) ==
    /\ item.task \in Tasks
    /\ item.pos \in 1..Len(log[item.task])
    /\ Routed(item.rec)
    /\ p \in Looping => /\ item.claim \in 0..epoch[item.task]
                        /\ item.claim = epoch[item.task] => evicted[item.task] = item.born

Shape(me) ==
    /\ me = [pc |-> me.pc, item |-> me.item, todo |-> me.todo, snap |-> me.snap,
             cache |-> me.cache, index |-> me.index]
    /\ me.todo \in Seq(Range(me.todo))
    /\ me.cache = [a \in Assignees |-> me.cache[a]]

CacheEntries == [active : SUBSET Tasks, gen : Nat]

(* A pass cache, when the generations are g: only the reconcile pass has   *)
(* one, and no entry is from the future.                                   *)
GoodCache(p, cache, g) ==
    \A a \in Assignees :
        cache[a] # Unread => /\ p = "reconcile"
                             /\ cache[a] \in CacheEntries
                             /\ cache[a].gen <= g[a]

GoodProc(p, me) ==
    /\ Shape(me)
    /\ me.pc \in {"idle", "gather", "drive", "lock", "spawn"}
    /\ me.pc \in {"drive", "lock", "spawn"} => GoodItem(p, me.item)
    /\ \A i \in DOMAIN me.todo : GoodItem(p, me.todo[i])
    /\ me.pc = "gather" => p = "reconcile" /\ \A t \in Tasks : me.snap[t] \in 0..Len(log[t])
    /\ GoodCache(p, me.cache, gen)

LogShape ==
    /\ log = [t \in Tasks |-> log[t]]
    /\ \A t \in Tasks : log[t] \in Seq(Range(log[t]))
    /\ evt \in [Tasks -> Nat]
    /\ seen \in [Tasks -> Nat]
    /\ \A t \in Tasks : evt[t] <= Len(log[t]) /\ seen[t] <= Len(log[t])

GoodEntry(t) ==
    parked[t] # NoEntry => parked[t].pos \in 1..Len(log[t]) /\ Routed(parked[t].rec)

ParkedShape ==
    /\ parked = [t \in Tasks |-> parked[t]]
    /\ \A t \in Tasks : GoodEntry(t)

JobsShape ==
    /\ jobs \in Seq(JobRecords)
    /\ lost \in [Assignees -> Nat]
    /\ stored \in [Tasks -> Nat]
    /\ \A t \in Tasks : stored[t] <= Len(jobs)

MemoryShape ==
    /\ epoch \in [Tasks -> Nat]
    /\ evicted \in [Tasks -> Nat]
    /\ gen \in [Assignees -> Nat]
    /\ lock \in [Assignees -> Procs \union {Free}]

ProcsShape ==
    /\ ps = [p \in Procs |-> ps[p]]
    /\ \A p \in Procs : \A me \in {ps[p]} : GoodProc(p, me)

Shapes == LogShape /\ ParkedShape /\ JobsShape /\ MemoryShape /\ ProcsShape

(* A goroutine at the create holds the lock of the assignee, and nobody    *)
(* else holds one.                                                         *)
Locked ==
    /\ \A p \in Procs : ps[p].pc = "spawn" => lock[AsgOf(ps[p].item.rec)] = p
    /\ \A a \in Assignees :
          lock[a] # Free => ps[lock[a]].pc = "spawn" /\ AsgOf(ps[lock[a]].item.rec) = a

(* The running tasks of an assignee that the pass cache does not know. *)
Missed(a) ==
    IF Cached("reconcile", a) THEN ListActiveJobs(a) \ ps["reconcile"].cache[a].active ELSE {}

(* Second Jobs and missed tasks together are as many as failed creates. *)
SecondsCounted(a) ==
    Cardinality(RunningJobs(a)) + Cardinality(Missed(a))
        <= Cardinality(ListActiveJobs(a)) + lost[a]

MissesCounted(a) == Cardinality(Missed(a)) <= lost[a]

CapHolds(a) ==
    Capped(ConfigNamed[a]) =>
        Cardinality(ListActiveJobs(a)) <= CapOf(ConfigNamed[a]).cap + lost[a]

(* A Job for task t may be created for a. *)
MayCreate(t, a) ==
    /\ t \in ListActiveJobs(a) =>
          Cardinality(RunningJobs(a)) + 1 <= Cardinality(ListActiveJobs(a)) + lost[a]
    /\ Capped(ConfigNamed[a]) =>
          Cardinality(ListActiveJobs(a)) < CapOf(ConfigNamed[a]).cap + lost[a]

Counted ==
    /\ \A a \in Assignees : SecondsCounted(a) /\ MissesCounted(a) /\ CapHolds(a)
    /\ \A p \in Procs : ps[p].pc = "spawn" =>
          \A item \in {ps[p].item} : MayCreate(item.task, AsgOf(item.rec))

Inv == Shapes /\ Locked /\ Counted

-----------------------------------------------------------------------------
(* Routing. *)

(* A set of naturals has a least element. *)
LEMMA LeastNatural ==
    ASSUME NEW S, S \subseteq Nat, S # {}
    PROVE  Min(S) \in S
<1>1. \E n \in S : \A m \in S : ~(<<m, n>> \in OpToRel(<, Nat))
  BY NatLessThanWellFounded, WFMin
<1>2. PICK n \in S : \A m \in S : ~(m < n)
  BY <1>1 DEF OpToRel
<1>3. \A m \in S : n <= m
  BY <1>2
<1> QED
  BY <1>3 DEF Min

(* A name some Config has leads to the first of them. *)
LEMMA NamedConfig ==
    ASSUME NEW a \in Assignees
    PROVE  /\ ConfigNamed[a] \in Range(Configs)
           /\ ConfigNamed[a].assignee = a
<1> DEFINE S == {i \in DOMAIN Configs : Configs[i].assignee = a}
<1>1. DOMAIN Configs = 1..Len(Configs) /\ Len(Configs) \in Nat
  BY ConfigConstants, LenProperties
<1>2. S # {} /\ S \subseteq Nat
  BY <1>1 DEF Assignees, Range
<1>3. Min(S) \in S
  <2> HIDE DEF S
  <2> QED BY <1>2, LeastNatural
<1>4. ConfigNamed[a] = Configs[Min(S)]
  BY DEF ConfigNamed
<1> QED
  BY <1>3, <1>4 DEF Range

LEMMA ResolvedIsNamed ==
    ASSUME NEW name, Resolve(name) # NotFound
    PROVE  /\ Resolve(name).assignee \in Assignees
           /\ Resolve(name) = ConfigNamed[Resolve(name).assignee]
<1>1. \E a \in Assignees : Resolve(name) = ConfigNamed[a]
  BY DEF Resolve
<1> QED
  BY <1>1, NamedConfig

(* The event path drives a record that names a Config. *)
LEMMA FilteredRouted ==
    ASSUME NEW rec, parseAndFilter(rec) = "run"
    PROVE  Routed(rec)
<1>1. resolveConfig(rec) # NotFound /\ rec.assignee # None
  BY DEF parseAndFilter
<1>2. Resolve(rec.assignee) # NotFound
  BY <1>1 DEF resolveConfig
<1> QED
  BY <1>2, ResolvedIsNamed DEF Routed, AsgOf, ConfigFor

(* So does the reconcile pass. *)
LEMMA CandidateRouted ==
    ASSUME NEW rec, gatherCandidate(rec)
    PROVE  Routed(rec)
<1>1. /\ resolveConfigForReconcile(rec) # NotFound
      /\ rec.assignee # None
  BY DEF gatherCandidate, reconcileTask
<1>2. resolveConfig(rec) = Resolve(rec.assignee)
  BY <1>1 DEF resolveConfig
<1>3. Resolve(rec.assignee) # NoConfig
  <2>1. CASE Resolve(rec.assignee) = NotFound
    BY <2>1 DEF NotFound, NoConfig
  <2>2. CASE Resolve(rec.assignee) # NotFound
    BY <2>2, ResolvedIsNamed, NamedConfig, ConfigConstants
  <2> QED BY <2>1, <2>2
<1>4. Resolve(rec.assignee) # NotFound
  BY <1>1, <1>2, <1>3 DEF resolveConfigForReconcile
<1> QED
  BY <1>4, ResolvedIsNamed DEF Routed, AsgOf, ConfigFor

(* A bound is a natural number. *)
LEMMA CapIsNatural ==
    ASSUME NEW a \in Assignees
    PROVE  CapOf(ConfigNamed[a]).cap \in Nat
<1> DEFINE config == ConfigNamed[a]
           limits == {q.pods : q \in {r \in config.quotas : config.class \in r.classes /\ r.pods # None}}
           quota == podQuotaFromQuotas(config.quotas, config.class)
<1>1. config.max \in Int /\ \A q \in config.quotas : q.pods \in Nat \union {None}
  BY NamedConfig, ConfigConstants
<1>2. limits \subseteq Nat
  BY <1>1
<1>3. quota.limit \in Nat /\ quota.bounded \in BOOLEAN
  <2>1. CASE limits = {}
    BY <2>1 DEF podQuotaFromQuotas
  <2>2. CASE limits # {}
    <3>1. Min(limits) \in Nat
      <4> HIDE DEF limits
      <4> QED BY <2>2, <1>2, LeastNatural
    <3>2. quota = [limit |-> Min(limits), bounded |-> TRUE]
      BY <2>2 DEF podQuotaFromQuotas
    <3> QED
      BY <3>1, <3>2
  <2> QED BY <2>1, <2>2
<1> HIDE DEF quota, limits
<1>4. \A m \in Int : Max({m, 0}) \in Nat
  BY DEF Max
<1>5. \A m, n \in Int : m >= 0 /\ n >= 0 => Min({m, n}) \in Nat
  BY DEF Min
<1>6. CapOf(config) = effectiveConcurrencyCap(config.max, quota)
  BY DEF CapOf, quota
<1> HIDE DEF config
<1>7. effectiveConcurrencyCap(config.max, quota).cap \in Nat
  <2>1. Max({quota.limit, 0}) \in Nat
    BY <1>3, <1>4
  <2>2. CASE ~quota.bounded
    BY <2>2, <1>1, <1>4 DEF effectiveConcurrencyCap
  <2>3. CASE quota.bounded /\ config.max <= 0
    BY <2>3, <2>1 DEF effectiveConcurrencyCap
  <2>4. CASE quota.bounded /\ ~(config.max <= 0)
    <3>1. PICK pods \in Nat : pods = Max({quota.limit, 0})
      BY <2>1
    <3>2. PICK max \in Int : max = config.max
      BY <1>1
    <3>3. Min({pods, max}) \in Nat
      BY <2>4, <3>2, <1>5
    <3> QED
      BY <2>4, <3>1, <3>2, <3>3 DEF effectiveConcurrencyCap
  <2> QED
    BY <1>3, <2>2, <2>3, <2>4
<1> QED
  BY <1>6, <1>7 DEF config

-----------------------------------------------------------------------------
(* Jobs. *)

FiniteCounts(a) ==
    /\ IsFiniteSet(RunningJobs(a))
    /\ ListActiveJobs(a) \subseteq Tasks
    /\ IsFiniteSet(ListActiveJobs(a))
    /\ IsFiniteSet(Missed(a))
    /\ Cardinality(RunningJobs(a)) \in Nat
    /\ Cardinality(ListActiveJobs(a)) \in Nat
    /\ Cardinality(Missed(a)) \in Nat

LEMMA CountsFinite == JobsShape => \A a \in Assignees : FiniteCounts(a)
<1> SUFFICES ASSUME JobsShape, NEW a \in Assignees PROVE FiniteCounts(a)
  OBVIOUS
<1>1. Len(jobs) \in Nat /\ DOMAIN jobs = 1..Len(jobs) /\ \A j \in JobIds : jobs[j] \in JobRecords
  BY LenProperties, ElementOfSeq DEF JobsShape, JobIds
<1>2. IsFiniteSet(JobIds)
  BY <1>1, FS_Interval DEF JobIds
<1>3. IsFiniteSet(RunningJobs(a))
  BY <1>2, FS_Subset DEF RunningJobs
<1>4. ListActiveJobs(a) \subseteq Tasks
  BY <1>1 DEF ListActiveJobs, RunningJobs, JobRecords
<1>5. Missed(a) \subseteq ListActiveJobs(a)
  BY DEF Missed
<1>6. IsFiniteSet(ListActiveJobs(a)) /\ IsFiniteSet(Missed(a))
  BY <1>4, <1>5, FS_Subset, FunnelConstants
<1> QED
  BY <1>3, <1>4, <1>5, <1>6, FS_CardinalityType DEF FiniteCounts

LEMMA CountsFiniteNext == (JobsShape => \A a \in Assignees : FiniteCounts(a))'
<1> QED
  BY CountsFinite, PTL

LEMMA JobAppended ==
    ASSUME JobsShape, NEW t \in Tasks, NEW b \in Assignees,
           jobs' = Append(jobs, [task |-> t, asg |-> b, st |-> "run"])
    PROVE  /\ jobs' \in Seq(JobRecords)
           /\ Len(jobs') = Len(jobs) + 1
           /\ Len(jobs) \in Nat
           /\ Len(jobs) + 1 \notin RunningJobs(b)
           /\ RunningJobs(b)' = RunningJobs(b) \union {Len(jobs) + 1}
           /\ ListActiveJobs(b)' = ListActiveJobs(b) \union {t}
           /\ \A a \in Assignees \ {b} : /\ RunningJobs(a)' = RunningJobs(a)
                                         /\ ListActiveJobs(a)' = ListActiveJobs(a)
<1> DEFINE job == [task |-> t, asg |-> b, st |-> "run"]
           n == Len(jobs)
<1>1. n \in Nat /\ DOMAIN jobs = 1..n /\ job \in JobRecords
  BY LenProperties DEF JobsShape, JobRecords
<1>2. /\ jobs' \in Seq(JobRecords)
      /\ Len(jobs') = n + 1
      /\ \A i \in 1..n : jobs'[i] = jobs[i]
      /\ jobs'[n + 1] = job
  BY <1>1, AppendProperties DEF JobsShape
<1>3. \A i : i \in 1..(n + 1) <=> (i \in 1..n \/ i = n + 1)
  BY <1>1
<1>4. n + 1 \notin 1..n
  BY <1>1
<1>5. JobIds = 1..n /\ JobIds' = 1..(n + 1)
  BY <1>2 DEF JobIds
<1>6. job.task = t /\ job.asg = b /\ job.st = "run"
  OBVIOUS
<1> HIDE DEF n, job
<1>7. RunningJobs(b)' = RunningJobs(b) \union {n + 1}
  BY <1>2, <1>3, <1>4, <1>5, <1>6 DEF RunningJobs
<1>8. ASSUME NEW a \in Assignees, a # b
      PROVE  RunningJobs(a)' = RunningJobs(a)
  BY <1>2, <1>3, <1>4, <1>5, <1>6, <1>8 DEF RunningJobs
<1>9. \A a : RunningJobs(a) \subseteq 1..n
  BY <1>5 DEF RunningJobs
<1>10. ListActiveJobs(b)' = ListActiveJobs(b) \union {t}
  BY <1>2, <1>6, <1>7, <1>9 DEF ListActiveJobs
<1>11. ASSUME NEW a \in Assignees, a # b
       PROVE  ListActiveJobs(a)' = ListActiveJobs(a)
  BY <1>2, <1>8, <1>9, <1>11 DEF ListActiveJobs
<1> QED
  BY <1>1, <1>2, <1>4, <1>7, <1>8, <1>9, <1>10, <1>11 DEF n

LEMMA JobOver ==
    ASSUME JobsShape, NEW j \in JobIds, NEW st \in {"done", "over"},
           jobs' = [jobs EXCEPT ![j].st = st]
    PROVE  /\ jobs' \in Seq(JobRecords)
           /\ Len(jobs') = Len(jobs)
           /\ \A a \in Assignees :
                 /\ RunningJobs(a)' = RunningJobs(a) \ {j}
                 /\ ListActiveJobs(a)' \subseteq ListActiveJobs(a)
                 /\ ListActiveJobs(a) \subseteq ListActiveJobs(a)' \union {jobs[j].task}
                 /\ j \notin RunningJobs(a) => ListActiveJobs(a)' = ListActiveJobs(a)
<1> DEFINE n == Len(jobs)
           job == [jobs[j] EXCEPT !.st = st]
<1>1. n \in Nat /\ DOMAIN jobs = 1..n /\ j \in 1..n /\ \A i \in 1..n : jobs[i] \in JobRecords
  BY LenProperties, ElementOfSeq DEF JobsShape, JobIds
<1>2. job \in JobRecords /\ job.task = jobs[j].task /\ job.asg = jobs[j].asg /\ job.st = st
  BY <1>1 DEF JobRecords
<1>3. /\ jobs' \in Seq(JobRecords)
      /\ Len(jobs') = n
      /\ jobs'[j] = job
      /\ \A i \in 1..n : i # j => jobs'[i] = jobs[i]
  BY <1>1, <1>2, ExceptSeq DEF JobsShape
<1>4. JobIds = 1..n /\ JobIds' = 1..n
  BY <1>3 DEF JobIds
<1> HIDE DEF n, job
<1>5. ASSUME NEW a \in Assignees
      PROVE  /\ RunningJobs(a)' = RunningJobs(a) \ {j}
             /\ RunningJobs(a) \subseteq 1..n
  <2>1. st # "run"
    OBVIOUS
  <2> QED
    BY <1>2, <1>3, <1>4, <2>1 DEF RunningJobs
<1>6. ASSUME NEW a \in Assignees
      PROVE  /\ ListActiveJobs(a)' \subseteq ListActiveJobs(a)
             /\ ListActiveJobs(a) \subseteq ListActiveJobs(a)' \union {jobs[j].task}
             /\ j \notin RunningJobs(a) => ListActiveJobs(a)' = ListActiveJobs(a)
  BY <1>3, <1>5 DEF ListActiveJobs
<1> QED
  BY <1>3, <1>5, <1>6 DEF n

-----------------------------------------------------------------------------
(* Counting. *)

LEMMA OneLess ==
    ASSUME NEW A, NEW B, NEW x, IsFiniteSet(B), A \subseteq B, B \subseteq A \union {x}
    PROVE  \/ A = B
           \/ x \in B /\ x \notin A /\ Cardinality(B) = Cardinality(A) + 1
<1>1. SUFFICES ASSUME A # B PROVE x \in B /\ x \notin A /\ Cardinality(B) = Cardinality(A) + 1
  OBVIOUS
<1>2. x \in B /\ x \notin A /\ B = A \union {x}
  BY <1>1
<1>3. IsFiniteSet(A)
  BY FS_Subset
<1> QED
  BY <1>2, <1>3, FS_AddElement

(* A Job ends: all counts go down together. *)
LEMMA EndedCounts ==
    ASSUME JobsShape, JobsShape', NEW j \in JobIds, NEW st \in {"done", "over"},
           jobs' = [jobs EXCEPT ![j].st = st], NEW a \in Assignees,
           lost' = lost, gen' = gen,
           ps'["reconcile"].cache = ps["reconcile"].cache
    PROVE  /\ SecondsCounted(a) => SecondsCounted(a)'
           /\ MissesCounted(a) => MissesCounted(a)'
           /\ CapHolds(a) => CapHolds(a)'
           /\ \A t \in Tasks : MayCreate(t, a) => MayCreate(t, a)'
<1> DEFINE R == RunningJobs(a)
           L == ListActiveJobs(a)
           M == Missed(a)
<1>1. /\ R' = R \ {j}
      /\ L' \subseteq L
      /\ L \subseteq L' \union {jobs[j].task}
      /\ j \notin R => L' = L
  BY JobOver
<1>2. M' \subseteq M
  BY <1>1 DEF Missed, Cached
<1>3. /\ IsFiniteSet(R) /\ IsFiniteSet(L) /\ IsFiniteSet(M)
      /\ Cardinality(R) \in Nat /\ Cardinality(L) \in Nat /\ Cardinality(M) \in Nat
      /\ Cardinality(R') \in Nat /\ Cardinality(L') \in Nat /\ Cardinality(M') \in Nat
  BY CountsFinite, CountsFiniteNext DEF FiniteCounts
<1>4. Cardinality(M') <= Cardinality(M) /\ Cardinality(L') <= Cardinality(L)
  BY <1>1, <1>2, <1>3, FS_Subset
<1>5. \/ L' = L /\ Cardinality(R') <= Cardinality(R)
      \/ Cardinality(L) = Cardinality(L') + 1 /\ Cardinality(R) = Cardinality(R') + 1
  <2>1. CASE j \notin R
    <3>1. R' = R
      BY <2>1, <1>1
    <3> QED BY <2>1, <1>1, <1>3, <3>1
  <2>2. CASE j \in R
    <3>1. Cardinality(R') = Cardinality(R) - 1
      BY <2>2, <1>1, <1>3, FS_RemoveElement
    <3>2. L' = L \/ Cardinality(L) = Cardinality(L') + 1
      BY <1>1, <1>3, OneLess
    <3> QED BY <3>1, <3>2, <1>3
  <2> QED BY <2>1, <2>2
<1>6. lost[a] \in Nat /\ lost'[a] = lost[a]
  BY DEF JobsShape
<1>7. CapOf(ConfigNamed[a]).cap \in Nat
  BY CapIsNatural
<1>8. SecondsCounted(a) => SecondsCounted(a)'
  BY <1>3, <1>4, <1>5, <1>6 DEF SecondsCounted
<1>9. MissesCounted(a) => MissesCounted(a)'
  BY <1>3, <1>4, <1>6 DEF MissesCounted
<1>10. CapHolds(a) => CapHolds(a)'
  BY <1>3, <1>4, <1>6, <1>7 DEF CapHolds
<1>11. ASSUME NEW t \in Tasks, MayCreate(t, a)
       PROVE  MayCreate(t, a)'
  BY <1>1, <1>3, <1>4, <1>5, <1>6, <1>7, <1>11 DEF MayCreate
<1> QED
  BY <1>8, <1>9, <1>10, <1>11

(* No Job of the assignee starts or ends. *)
LEMMA SameCounts ==
    ASSUME NEW a \in Assignees,
           RunningJobs(a)' = RunningJobs(a), ListActiveJobs(a)' = ListActiveJobs(a),
           lost'[a] = lost[a], JobsShape, JobsShape',
           Missed(a)' \in {{}, Missed(a)}
    PROVE  /\ SecondsCounted(a) => SecondsCounted(a)'
           /\ MissesCounted(a) => MissesCounted(a)'
           /\ CapHolds(a) => CapHolds(a)'
           /\ \A t \in Tasks : MayCreate(t, a) => MayCreate(t, a)'
<1>1. /\ Cardinality(RunningJobs(a)) \in Nat /\ Cardinality(ListActiveJobs(a)) \in Nat
      /\ Cardinality(Missed(a)) \in Nat
  BY CountsFinite DEF FiniteCounts
<1>2. Cardinality(Missed(a)') = Cardinality(Missed(a)) \/ Cardinality(Missed(a)') = 0
  BY FS_EmptySet
<1>3. lost[a] \in Nat
  BY DEF JobsShape
<1>4. CapHolds(a) => CapHolds(a)'
  BY DEF CapHolds
<1>5. \A t \in Tasks : MayCreate(t, a) => MayCreate(t, a)'
  BY DEF MayCreate
<1> QED
  BY <1>1, <1>2, <1>3, <1>4, <1>5 DEF SecondsCounted, MissesCounted

(* A Job is created for a: the answer moves the generation, or the process *)
(* restarts, or the create counts as lost and the cache stays.             *)
LEMMA CreatedCounts ==
    ASSUME JobsShape, JobsShape', NEW t \in Tasks, NEW a \in Assignees,
           jobs' = Append(jobs, [task |-> t, asg |-> a, st |-> "run"]),
           MayCreate(t, a), SecondsCounted(a), MissesCounted(a), CapHolds(a),
           \/ ~Cached("reconcile", a)' /\ lost'[a] \in {lost[a], lost[a] + 1}
           \/ /\ lost'[a] = lost[a] + 1
              /\ Cached("reconcile", a)' = Cached("reconcile", a)
              /\ Cached("reconcile", a) =>
                    ps'["reconcile"].cache[a] = ps["reconcile"].cache[a]
    PROVE  SecondsCounted(a)' /\ MissesCounted(a)' /\ CapHolds(a)'
<1> DEFINE R == RunningJobs(a)
           L == ListActiveJobs(a)
           M == Missed(a)
<1>1. R' = R \union {Len(jobs) + 1} /\ Len(jobs) + 1 \notin R /\ L' = L \union {t}
  BY JobAppended
<1>2. /\ IsFiniteSet(R) /\ IsFiniteSet(L) /\ IsFiniteSet(M)
      /\ Cardinality(R) \in Nat /\ Cardinality(L) \in Nat /\ Cardinality(M) \in Nat
      /\ Cardinality(R') \in Nat /\ Cardinality(L') \in Nat /\ Cardinality(M') \in Nat
  BY CountsFinite, CountsFiniteNext DEF FiniteCounts
<1>3. Cardinality(R') = Cardinality(R) + 1
  BY <1>1, <1>2, FS_AddElement
<1>4. Cardinality(L') = IF t \in L THEN Cardinality(L) ELSE Cardinality(L) + 1
  BY <1>1, <1>2, FS_AddElement
<1>5. lost[a] \in Nat /\ CapOf(ConfigNamed[a]).cap \in Nat
  BY CapIsNatural DEF JobsShape
<1>6. CapHolds(a)'
  BY <1>2, <1>4, <1>5 DEF CapHolds, MayCreate
<1>7. CASE ~Cached("reconcile", a)' /\ lost'[a] \in {lost[a], lost[a] + 1}
  <2>1. Cardinality(M') = 0
    BY <1>7, FS_EmptySet DEF Missed
  <2>2. t \in L => Cardinality(R) + 1 <= Cardinality(L) + lost[a]
    BY DEF MayCreate
  <2>3. Cardinality(R) <= Cardinality(L) + lost[a]
    BY <1>2, <1>5 DEF SecondsCounted
  <2>4. Cardinality(R') + Cardinality(M') <= Cardinality(L') + lost'[a]
    BY <1>7, <1>2, <1>3, <1>4, <1>5, <2>1, <2>2, <2>3
  <2> QED
    BY <1>6, <1>7, <1>5, <2>1, <2>4 DEF SecondsCounted, MissesCounted
<1>8. CASE /\ lost'[a] = lost[a] + 1
           /\ Cached("reconcile", a)' = Cached("reconcile", a)
           /\ Cached("reconcile", a) => ps'["reconcile"].cache[a] = ps["reconcile"].cache[a]
  <2>1. M \subseteq M' /\ M' \subseteq M \union {t}
    BY <1>1, <1>8 DEF Missed
  <2>2. t \in L => M' = M
    BY <1>1, <1>8 DEF Missed
  <2>3. IsFiniteSet(M')
    BY CountsFiniteNext DEF FiniteCounts
  <2>4. Cardinality(M') <= Cardinality(M) + 1
    <3>1. M = M' \/ Cardinality(M') = Cardinality(M) + 1
      <4> HIDE DEF M
      <4> QED BY <2>1, <2>3, OneLess
    <3>2. Cardinality(M') = Cardinality(M) \/ Cardinality(M') = Cardinality(M) + 1
      BY <3>1
    <3> HIDE DEF M
    <3> QED BY <3>2, <1>2
  <2>5. Cardinality(R) + Cardinality(M) <= Cardinality(L) + lost[a]
    BY DEF SecondsCounted
  <2>6. Cardinality(R') + Cardinality(M') <= Cardinality(L') + lost'[a]
    <3>1. CASE t \in L
      BY <3>1, <1>8, <1>2, <1>3, <1>4, <1>5, <2>2, <2>5
    <3>2. CASE t \notin L
      BY <3>2, <1>8, <1>2, <1>3, <1>4, <1>5, <2>4, <2>5
    <3> QED BY <3>1, <3>2
  <2>7. Cardinality(M') <= lost'[a]
    BY <1>8, <1>2, <1>5, <2>4 DEF MissesCounted
  <2> QED
    BY <1>6, <2>6, <2>7 DEF SecondsCounted, MissesCounted
<1> QED
  BY <1>7, <1>8

-----------------------------------------------------------------------------
(* Goroutines. *)

LEMMA IdleGood == \A p \in Procs : GoodProc(p, Idle)
<1>1. Idle = [pc |-> "idle", item |-> NoItem, todo |-> <<>>, snap |-> [t \in Tasks |-> 0],
              cache |-> [a \in Assignees |-> Unread], index |-> Unread]
  BY DEF Idle
<1>2. <<>> \in Seq(Range(<<>>)) /\ DOMAIN <<>> = {}
  BY EmptySeq
<1>3. /\ Idle.pc = "idle" /\ Idle.todo = <<>>
      /\ Idle.cache = [a \in Assignees |-> Unread]
  BY <1>1
<1>4. Shape(Idle)
  BY <1>1, <1>2, <1>3 DEF Shape
<1>5. \A p \in Procs : GoodCache(p, Idle.cache, gen)
  BY <1>3 DEF GoodCache
<1> QED
  BY <1>2, <1>3, <1>4, <1>5 DEF GoodProc

LEMMA IdleGoodNext == (\A p \in Procs : GoodProc(p, Idle))'
<1> QED
  BY IdleGood, PTL

(* What a goroutine must have to go on with its next item. *)
Supplied(p, me) ==
    /\ Shape(me)
    /\ \A i \in DOMAIN me.todo : GoodItem(p, me.todo[i])
    /\ GoodCache(p, me.cache, gen)

(* What Drive makes of a goroutine's state. *)
LEMMA DriveIs ==
    ASSUME NEW me, NEW item,
           me = [pc |-> me.pc, item |-> me.item, todo |-> me.todo, snap |-> me.snap,
                 cache |-> me.cache, index |-> me.index]
    PROVE  Drive(me, item) =
             [pc |-> IF item.rec.job = NoJob THEN "lock" ELSE "drive", item |-> item,
              todo |-> me.todo, snap |-> me.snap, cache |-> me.cache, index |-> me.index]
<1> DEFINE pc == IF item.rec.job = NoJob THEN "lock" ELSE "drive"
<1>1. PICK b, c, d, e, f : me = [pc |-> me.pc, item |-> b, todo |-> c, snap |-> d,
                                 cache |-> e, index |-> f]
  OBVIOUS
<1>2. me.todo = c /\ me.snap = d /\ me.cache = e /\ me.index = f
  BY <1>1
<1>3. Drive(me, item) = [[me EXCEPT !.pc = pc] EXCEPT !.item = item]
  BY DEF Drive
<1> HIDE DEF pc
<1>4. [me EXCEPT !.pc = pc] = [pc |-> pc, item |-> b, todo |-> c, snap |-> d,
                               cache |-> e, index |-> f]
  BY <1>1
<1>5. PICK m : m = [me EXCEPT !.pc = pc]
  OBVIOUS
<1>6. Drive(me, item) = [m EXCEPT !.item = item]
  BY <1>3, <1>5
<1>7. m = [pc |-> pc, item |-> b, todo |-> c, snap |-> d, cache |-> e, index |-> f]
  BY <1>4, <1>5
<1>8. [m EXCEPT !.item = item] =
          [pc |-> pc, item |-> item, todo |-> c, snap |-> d, cache |-> e, index |-> f]
  BY <1>7
<1> QED
  BY <1>2, <1>6, <1>8 DEF pc

LEMMA DriveGood ==
    \A p \in Procs : \A me, item :
        Supplied(p, me) /\ GoodItem(p, item) => GoodProc(p, Drive(me, item))
<1> SUFFICES ASSUME NEW p \in Procs, NEW me, NEW item, Supplied(p, me), GoodItem(p, item)
             PROVE  GoodProc(p, Drive(me, item))
  OBVIOUS
<1> DEFINE pc == IF item.rec.job = NoJob THEN "lock" ELSE "drive"
           n == Drive(me, item)
<1>1. me = [pc |-> me.pc, item |-> me.item, todo |-> me.todo, snap |-> me.snap,
            cache |-> me.cache, index |-> me.index]
  BY DEF Supplied, Shape
<1>2. n = [pc |-> pc, item |-> item, todo |-> me.todo, snap |-> me.snap,
           cache |-> me.cache, index |-> me.index]
  BY <1>1, DriveIs
<1>3. /\ n.pc = pc /\ n.item = item /\ n.todo = me.todo /\ n.snap = me.snap
      /\ n.cache = me.cache /\ n.index = me.index /\ pc \in {"lock", "drive"}
  BY <1>2
<1> HIDE DEF n, pc
<1>4. Shape(n)
  BY <1>2, <1>3 DEF Supplied, Shape
<1>5. GoodProc(p, n)
  BY <1>3, <1>4 DEF GoodProc, Supplied
<1> QED
  BY <1>5 DEF n

(* The next item is the head of the rest; with none the goroutine is idle. *)
LEMMA NextItemIs ==
    ASSUME NEW me, Shape(me)
    PROVE  \/ NextItem(me) = Idle
           \/ /\ NextItem(me).pc \in {"drive", "lock"}
              /\ NextItem(me).cache = me.cache
<1>1. CASE me.todo = <<>>
  BY <1>1 DEF NextItem
<1>2. CASE me.todo # <<>>
  <2> DEFINE pc == IF Head(me.todo).rec.job = NoJob THEN "lock" ELSE "drive"
  <2>1. NextItem(me) = [pc |-> pc, item |-> Head(me.todo), todo |-> Tail(me.todo),
                        snap |-> me.snap, cache |-> me.cache, index |-> me.index]
    BY <1>2 DEF NextItem, Drive, Shape
  <2> QED
    BY <2>1
<1> QED
  BY <1>1, <1>2

LEMMA NextItemGood ==
    \A p \in Procs : \A me : Supplied(p, me) => GoodProc(p, NextItem(me))
<1> SUFFICES ASSUME NEW p \in Procs, NEW me, Supplied(p, me)
             PROVE  GoodProc(p, NextItem(me))
  OBVIOUS
<1>1. CASE me.todo = <<>>
  BY <1>1, IdleGood DEF NextItem
<1>2. CASE me.todo # <<>>
  <2> DEFINE rest == [me EXCEPT !.todo = Tail(@)]
             S == Range(me.todo)
  <2>1. me.todo \in Seq(S) /\ DOMAIN me.todo = 1..Len(me.todo) /\ Len(me.todo) \in Nat \ {0}
    BY <1>2, LenProperties, EmptySeq DEF Supplied, Shape
  <2>2. Head(me.todo) = me.todo[1]
    BY <1>2, <2>1
  <2>3. /\ Tail(me.todo) \in Seq(S)
        /\ Len(Tail(me.todo)) = Len(me.todo) - 1
        /\ \A i \in 1..Len(Tail(me.todo)) : Tail(me.todo)[i] = me.todo[i + 1]
    BY <1>2, <2>1, HeadTailProperties
  <2>4. DOMAIN Tail(me.todo) = 1..Len(Tail(me.todo))
    BY <2>3, LenProperties
  <2>5. Tail(me.todo) \in Seq(Range(Tail(me.todo)))
    BY <2>3, SeqOfRange
  <2>6. me = [pc |-> me.pc, item |-> me.item, todo |-> me.todo, snap |-> me.snap,
              cache |-> me.cache, index |-> me.index]
    BY DEF Supplied, Shape
  <2>7. PICK a, b, c, d, e, f : me = [pc |-> a, item |-> b, todo |-> c, snap |-> d,
                                      cache |-> e, index |-> f]
    BY <2>6
  <2>8. rest = [me EXCEPT !.todo = Tail(c)]
    BY <2>7
  <2> HIDE DEF rest
  <2>9. rest = [pc |-> a, item |-> b, todo |-> Tail(c), snap |-> d, cache |-> e, index |-> f]
    BY <2>7, <2>8
  <2>10. /\ rest = [pc |-> me.pc, item |-> me.item, todo |-> Tail(me.todo), snap |-> me.snap,
                   cache |-> me.cache, index |-> me.index]
        /\ rest.todo = Tail(me.todo) /\ rest.cache = me.cache
    BY <2>7, <2>9
  <2>11. Shape(rest)
    BY <2>5, <2>10 DEF Supplied, Shape
  <2>12. GoodItem(p, me.todo[1])
    BY <2>1 DEF Supplied
  <2>13. ASSUME NEW i \in DOMAIN rest.todo PROVE GoodItem(p, rest.todo[i])
    <3>1. i \in 1..Len(Tail(me.todo)) /\ i + 1 \in 1..Len(me.todo)
      BY <2>13, <2>1, <2>3, <2>4, <2>10
    <3>2. rest.todo[i] = me.todo[i + 1]
      BY <3>1, <2>3, <2>10
    <3> QED
      BY <3>1, <3>2, <2>1 DEF Supplied
  <2>14. Supplied(p, rest)
    BY <2>10, <2>11, <2>13 DEF Supplied
  <2>15. NextItem(me) = Drive(rest, me.todo[1])
    BY <1>2, <2>2 DEF NextItem, rest
  <2> QED
    BY <2>12, <2>14, <2>15, DriveGood
<1> QED
  BY <1>1, <1>2

LEMMA NextItemGoodNext ==
    (\A p \in Procs : \A me : Supplied(p, me) => GoodProc(p, NextItem(me)))'
<1> QED
  BY NextItemGood, PTL

-----------------------------------------------------------------------------
(* What a step leaves of the goroutines it does not touch. *)

LogGrows ==
    \A t \in Tasks : Len(log[t]) \in Nat /\ Len(log'[t]) \in Nat /\ Len(log[t]) <= Len(log'[t])

(* A task that is evicted either moves its epoch on, or nobody has it in   *)
(* hand with the present one.                                              *)
EpochsFollow ==
    \A t \in Tasks :
        \/ epoch'[t] = epoch[t] /\ evicted'[t] = evicted[t]
        \/ epoch'[t] = epoch[t] + 1
        \/ epoch'[t] = epoch[t] /\ ~ClaimHeld(t)

GenerationsGrow ==
    \A a \in Assignees : gen[a] \in Nat /\ gen'[a] \in Nat /\ gen[a] <= gen'[a]

LEMMA ItemKept ==
    ASSUME NEW p \in Procs, NEW item, GoodItem(p, item), LogGrows, MemoryShape,
           \/ epoch'[item.task] = epoch[item.task] /\ evicted'[item.task] = evicted[item.task]
           \/ epoch'[item.task] = epoch[item.task] + 1
           \/ epoch'[item.task] = epoch[item.task] /\ item.claim # epoch[item.task]
    PROVE  GoodItem(p, item)'
<1>1. item.task \in Tasks /\ Routed(item.rec)
  BY DEF GoodItem
<1>2. item.pos \in 1..Len(log'[item.task])
  BY <1>1 DEF GoodItem, LogGrows
<1>3. epoch[item.task] \in Nat
  BY <1>1 DEF MemoryShape
<1>4. p \in Looping => /\ item.claim \in 0..epoch'[item.task]
                       /\ item.claim = epoch'[item.task] => evicted'[item.task] = item.born
  BY <1>3 DEF GoodItem
<1>5. Routed(item.rec)'
  BY <1>1 DEF Routed, AsgOf, ConfigFor
<1> QED
  BY <1>1, <1>2, <1>4, <1>5 DEF GoodItem

LEMMA ProcKept ==
    ASSUME NEW p \in Procs, NEW me, me = ps[p], GoodProc(p, me),
           LogGrows, EpochsFollow, GenerationsGrow, MemoryShape
    PROVE  GoodProc(p, me)'
<1>1. ASSUME NEW item, GoodItem(p, item), item = me.item \/ item \in Range(me.todo)
      PROVE  GoodItem(p, item)'
  <2>1. item.task \in Tasks
    BY <1>1 DEF GoodItem
  <2>2. ~ClaimHeld(item.task) => item.claim # epoch[item.task]
    BY <1>1, <2>1 DEF ClaimHeld
  <2> QED
    BY <1>1, <2>1, <2>2, ItemKept DEF EpochsFollow
<1>2. me.pc \in {"drive", "lock", "spawn"} => GoodItem(p, me.item)'
  BY <1>1 DEF GoodProc
<1>3. ASSUME NEW i \in DOMAIN me.todo PROVE GoodItem(p, me.todo[i])'
  <2>1. GoodItem(p, me.todo[i]) /\ me.todo[i] \in Range(me.todo)
    BY <1>3 DEF GoodProc, Range
  <2> QED
    BY <2>1, <1>1
<1>4. GoodCache(p, me.cache, gen')
  BY DEF GoodProc, GoodCache, GenerationsGrow, CacheEntries
<1>5. me.pc = "gather" => p = "reconcile" /\ \A t \in Tasks : me.snap[t] \in 0..Len(log'[t])
  BY DEF GoodProc, LogGrows
<1>6. GoodCache(p, me.cache, gen)'
  BY <1>4 DEF GoodCache
<1>7. Shape(me)
  BY DEF GoodProc
<1>8. me.pc \in {"idle", "gather", "drive", "lock", "spawn"}
  BY DEF GoodProc
<1> QED
  BY <1>2, <1>3, <1>5, <1>6, <1>7, <1>8 DEF GoodProc

(* A goroutine whose state is well formed is supplied for the next item. *)
LEMMA ProcSupplied == \A p \in Procs : \A me : GoodProc(p, me) => Supplied(p, me)
<1> QED
  BY DEF GoodProc, Supplied

LEMMA ProcSuppliedNext == (\A p \in Procs : \A me : GoodProc(p, me) => Supplied(p, me))'
<1> QED
  BY ProcSupplied, PTL

(* Only goroutine p moves. *)
LEMMA OneMoves ==
    ASSUME ProcsShape, MemoryShape, LogGrows, EpochsFollow, GenerationsGrow,
           NEW p \in Procs, NEW me, ps' = [ps EXCEPT ![p] = me], GoodProc(p, me)'
    PROVE  ProcsShape'
<1>1. ps' = [q \in Procs |-> ps'[q]]
  BY DEF ProcsShape
<1>2. ps'[p] = me /\ \A q \in Procs : q # p => ps'[q] = ps[q]
  BY DEF ProcsShape
<1>3. ASSUME NEW q \in Procs, NEW x \in {ps'[q]}
      PROVE  GoodProc(q, x)'
  <2>1. CASE q = p
    BY <2>1, <1>2
  <2>2. CASE q # p
    BY <2>2, <1>2, ProcKept DEF ProcsShape
  <2> QED BY <2>1, <2>2
<1> QED
  BY <1>1, <1>3 DEF ProcsShape

(* No goroutine moves. *)
LEMMA NoneMoves ==
    ASSUME ProcsShape, MemoryShape, LogGrows, EpochsFollow, GenerationsGrow, ps' = ps
    PROVE  ProcsShape'
<1>1. ASSUME NEW q \in Procs, NEW x \in {ps'[q]}
      PROVE  GoodProc(q, x)'
  BY <1>1, ProcKept DEF ProcsShape
<1> QED
  BY <1>1 DEF ProcsShape

(* The goroutine goes on with the next item. *)
LEMMA MovesOn ==
    ASSUME ProcsShape, MemoryShape, LogGrows, EpochsFollow, GenerationsGrow,
           NEW p \in Procs, ps' = [ps EXCEPT ![p] = NextItem(ps[p])]
    PROVE  ProcsShape'
<1>1. PICK me : me = ps[p]
  OBVIOUS
<1>2. GoodProc(p, me)'
  BY <1>1, ProcKept DEF ProcsShape
<1>3. Supplied(p, me)'
  BY <1>2, ProcSuppliedNext
<1>4. GoodProc(p, NextItem(me))'
  BY <1>3, NextItemGoodNext
<1>5. PICK n : n = NextItem(me)
  OBVIOUS
<1>6. GoodProc(p, n)'
  BY <1>4, <1>5
<1> QED
  BY <1>1, <1>5, <1>6, OneMoves

-----------------------------------------------------------------------------
(* Steps that create no Job. *)

(* Nobody arrives at the create, and nobody leaves it. *)
SpawnersStay ==
    \A p \in Procs :
        /\ ps'[p].pc = "spawn" <=> ps[p].pc = "spawn"
        /\ ps[p].pc = "spawn" => ps'[p].item = ps[p].item

LEMMA LockedKept ==
    ASSUME Locked, MemoryShape, SpawnersStay, lock' = lock
    PROVE  Locked'
<1>1. ASSUME NEW p \in Procs, ps'[p].pc = "spawn"
      PROVE  lock'[AsgOf(ps'[p].item.rec)] = p
  BY <1>1 DEF Locked, SpawnersStay
<1>2. ASSUME NEW a \in Assignees, lock'[a] # Free
      PROVE  ps'[lock'[a]].pc = "spawn" /\ AsgOf(ps'[lock'[a]].item.rec) = a
  <2>1. lock[a] \in Procs
    BY <1>2 DEF MemoryShape
  <2> QED
    BY <1>2, <2>1 DEF Locked, SpawnersStay
<1> QED
  BY <1>1, <1>2 DEF Locked, AsgOf, ConfigFor

LEMMA CountedKept ==
    ASSUME Shapes, Counted, JobsShape', SpawnersStay, jobs' = jobs, lost' = lost,
           \A a \in Assignees : Missed(a)' \in {{}, Missed(a)}
    PROVE  Counted'
<1>1. \A a \in Assignees : /\ RunningJobs(a)' = RunningJobs(a)
                           /\ ListActiveJobs(a)' = ListActiveJobs(a)
  BY DEF RunningJobs, ListActiveJobs, JobIds
<1>2. ASSUME NEW a \in Assignees
      PROVE  SecondsCounted(a)' /\ MissesCounted(a)' /\ CapHolds(a)'
  BY <1>1, SameCounts DEF Counted, Shapes
<1>3. ASSUME NEW p \in Procs, ps'[p].pc = "spawn", NEW item \in {ps'[p].item}
      PROVE  MayCreate(item.task, AsgOf(item.rec))'
  <2>1. item = ps[p].item /\ ps[p].pc = "spawn"
    BY <1>3 DEF SpawnersStay
  <2>2. GoodItem(p, item) /\ MayCreate(item.task, AsgOf(item.rec))
    BY <2>1 DEF Counted, Shapes, ProcsShape, GoodProc
  <2>3. AsgOf(item.rec) \in Assignees /\ item.task \in Tasks
    BY <2>2 DEF GoodItem, Routed
  <2> QED
    BY <2>2, <2>3, <1>1, SameCounts DEF Shapes
<1> QED
  BY <1>2, <1>3 DEF Counted

(* The pass cache is as it was, or gone. *)
CacheStays ==
    \/ ps'["reconcile"].cache = ps["reconcile"].cache
    \/ ps'["reconcile"].cache = [a \in Assignees |-> Unread]

LEMMA MissedKept ==
    ASSUME CacheStays, jobs' = jobs, gen' = gen
    PROVE  \A a \in Assignees : Missed(a)' \in {{}, Missed(a)}
<1> SUFFICES ASSUME NEW a \in Assignees PROVE Missed(a)' \in {{}, Missed(a)}
  OBVIOUS
<1>1. ListActiveJobs(a)' = ListActiveJobs(a)
  BY DEF RunningJobs, ListActiveJobs, JobIds
<1>2. CASE ps'["reconcile"].cache = ps["reconcile"].cache
  BY <1>1, <1>2 DEF Missed, Cached
<1>3. CASE ps'["reconcile"].cache = [b \in Assignees |-> Unread]
  BY <1>3 DEF Missed, Cached
<1> QED
  BY <1>2, <1>3 DEF CacheStays

(* A step that leaves the Jobs, the locks and everyone at the create alone. *)
LEMMA QuietStep ==
    ASSUME Inv, Shapes', SpawnersStay, CacheStays,
           jobs' = jobs, lost' = lost, gen' = gen, lock' = lock
    PROVE  Inv'
<1>1. Locked'
  BY LockedKept DEF Inv, Shapes
<1>2. Counted'
  BY CountedKept, MissedKept DEF Inv, Shapes
<1> QED
  BY <1>1, <1>2 DEF Inv

(* One goroutine that is not at the create goes on with its next item. *)
LEMMA QuietMove ==
    ASSUME ProcsShape, NEW p \in Procs, ps[p].pc # "spawn",
           ps' = [ps EXCEPT ![p] = NextItem(ps[p])]
    PROVE  SpawnersStay /\ CacheStays
<1>1. ps'[p] = NextItem(ps[p]) /\ \A q \in Procs : q # p => ps'[q] = ps[q]
  BY DEF ProcsShape
<1>2. Shape(ps[p])
  BY DEF ProcsShape, GoodProc
<1>3. \/ ps'[p] = Idle
      \/ ps'[p].pc \in {"drive", "lock"} /\ ps'[p].cache = ps[p].cache
  BY <1>1, <1>2, NextItemIs
<1>4. Idle.pc = "idle" /\ Idle.cache = [a \in Assignees |-> Unread]
  BY DEF Idle
<1>5. SpawnersStay
  BY <1>1, <1>3, <1>4 DEF SpawnersStay
<1>6. CacheStays
  BY <1>1, <1>3, <1>4 DEF CacheStays, Procs
<1> QED
  BY <1>5, <1>6

-----------------------------------------------------------------------------
(* Parts of the state a step rarely touches. *)

LEMMA LogStays ==
    ASSUME LogShape, log' = log
    PROVE  LogGrows
<1> QED
  BY LenProperties DEF LogShape, LogGrows

LEMMA LogWritten ==
    ASSUME LogShape, NEW t \in Tasks, NEW rec, Write(t, rec)
    PROVE  /\ LogGrows
           /\ log' = [u \in Tasks |-> log'[u]]
           /\ \A u \in Tasks : log'[u] \in Seq(Range(log'[u]))
<1>1. log'[t] = Append(log[t], rec) /\ \A u \in Tasks : u # t => log'[u] = log[u]
  BY DEF Write, LogShape
<1>2. log' = [u \in Tasks |-> log'[u]]
  BY DEF Write, LogShape
<1>3. \A u \in Tasks : log[u] \in Seq(Range(log[u])) /\ Len(log[u]) \in Nat
  BY LenProperties DEF LogShape
<1> DEFINE S == Range(log[t]) \union {rec}
<1>4. log[t] \in Seq(S)
  BY <1>3, SeqMonotonic
<1>5. log'[t] \in Seq(S) /\ Len(log'[t]) = Len(log[t]) + 1
  BY <1>1, <1>4, AppendProperties
<1>6. log'[t] \in Seq(Range(log'[t]))
  BY <1>5, SeqOfRange
<1>7. ASSUME NEW u \in Tasks
      PROVE  log'[u] \in Seq(Range(log'[u])) /\ Len(log'[u]) \in Nat /\ Len(log[u]) <= Len(log'[u])
  <2>1. CASE u = t
    BY <2>1, <1>3, <1>5, <1>6
  <2>2. CASE u # t
    BY <2>2, <1>1, <1>3
  <2> QED BY <2>1, <2>2
<1> QED
  BY <1>2, <1>3, <1>7 DEF LogGrows

LEMMA ClocksStay ==
    ASSUME MemoryShape, epoch' = epoch, evicted' = evicted, gen' = gen
    PROVE  EpochsFollow /\ GenerationsGrow
<1> QED
  BY DEF MemoryShape, EpochsFollow, GenerationsGrow

LEMMA StoredNext ==
    ASSUME JobsShape, jobs' \in Seq(JobRecords), Len(jobs) <= Len(jobs'),
           lost' \in [Assignees -> Nat], NEW t \in Tasks, NEW j \in 0..Len(jobs'),
           stored' = stored \/ stored' = [stored EXCEPT ![t] = j]
    PROVE  JobsShape'
<1>1. Len(jobs) \in Nat /\ Len(jobs') \in Nat
  BY LenProperties DEF JobsShape
<1>2. /\ stored \in [Tasks -> Nat]
      /\ \A u \in Tasks : stored[u] <= Len(jobs)
  BY DEF JobsShape
<1>3. stored' \in [Tasks -> Nat]
  BY <1>1, <1>2
<1>4. ASSUME NEW u \in Tasks PROVE stored'[u] <= Len(jobs')
  <2>1. stored'[u] = stored[u] \/ stored'[u] = j
    BY <1>2
  <2> QED
    BY <1>1, <1>2, <2>1
<1> QED
  BY <1>3, <1>4 DEF JobsShape

LEMMA ParkedNext ==
    ASSUME ParkedShape, LogGrows, parked' = [t \in Tasks |-> parked'[t]],
           \A t \in Tasks :
              \/ parked'[t] \in {parked[t], NoEntry}
              \/ \E n \in 1..Len(log[t]) : \E rec :
                    Routed(rec) /\ parked'[t] = [pos |-> n, rec |-> rec]
    PROVE  ParkedShape'
<1>1. ASSUME NEW t \in Tasks, parked'[t] # NoEntry
      PROVE  parked'[t].pos \in 1..Len(log'[t]) /\ Routed(parked'[t].rec)
  <2>1. Len(log[t]) \in Nat /\ Len(log'[t]) \in Nat /\ Len(log[t]) <= Len(log'[t])
    BY DEF LogGrows
  <2>2. CASE parked'[t] = parked[t]
    BY <1>1, <2>1, <2>2 DEF ParkedShape, GoodEntry
  <2>3. CASE \E n \in 1..Len(log[t]) : \E rec :
                Routed(rec) /\ parked'[t] = [pos |-> n, rec |-> rec]
    <3>1. PICK n, rec : /\ n \in 1..Len(log[t])
                        /\ Routed(rec) /\ parked'[t] = [pos |-> n, rec |-> rec]
      BY <2>3
    <3>2. parked'[t].pos = n /\ parked'[t].rec = rec
      BY <3>1
    <3> QED
      BY <3>1, <3>2, <2>1
  <2> QED
    BY <1>1, <2>2, <2>3
<1>2. ASSUME NEW t \in Tasks PROVE GoodEntry(t)'
  BY <1>1, <1>2 DEF GoodEntry, Routed, AsgOf, ConfigFor
<1> QED
  BY <1>2 DEF ParkedShape

LEMMA ParkedStays ==
    ASSUME ParkedShape, LogGrows, parked' = parked
    PROVE  ParkedShape'
<1>1. parked' = [t \in Tasks |-> parked'[t]]
  BY DEF ParkedShape
<1> QED
  BY <1>1, ParkedNext

LEMMA EntryStored ==
    ASSUME ParkedShape, LogGrows, NEW p \in Procs, NEW item, GoodItem(p, item),
           parked' = parked \/
           parked' = [parked EXCEPT ![item.task] = [pos |-> item.pos, rec |-> item.rec]]
    PROVE  ParkedShape'
<1>1. CASE parked' = parked
  BY <1>1, ParkedStays
<1>2. CASE parked' = [parked EXCEPT ![item.task] = [pos |-> item.pos, rec |-> item.rec]]
  <2>1. parked' = [t \in Tasks |-> parked'[t]]
    BY <1>2 DEF ParkedShape
  <2>2. /\ item.task \in Tasks /\ item.pos \in 1..Len(log[item.task]) /\ Routed(item.rec)
        /\ parked'[item.task] = [pos |-> item.pos, rec |-> item.rec]
        /\ \A t \in Tasks : t # item.task => parked'[t] = parked[t]
    BY <1>2 DEF ParkedShape, GoodItem
  <2> QED
    BY <2>1, <2>2, ParkedNext
<1> QED
  BY <1>1, <1>2

(* removeDeferredEntry: the epoch follows every eviction. *)
LEMMA Removed ==
    ASSUME MemoryShape, NEW T \in SUBSET Tasks, removeDeferredEntry(T),
           \A t \in Tasks \ T : evicted'[t] = evicted[t]
    PROVE  EpochsFollow /\ epoch' \in [Tasks -> Nat]
<1>1. \A t \in Tasks : epoch'[t] = IF t \in T /\ ClaimHeld(t) THEN epoch[t] + 1 ELSE epoch[t]
  BY DEF removeDeferredEntry
<1>2. EpochsFollow
  BY <1>1 DEF EpochsFollow
<1>3. epoch' \in [Tasks -> Nat]
  BY DEF removeDeferredEntry, MemoryShape
<1> QED
  BY <1>2, <1>3

LEMMA RemovedParked ==
    ASSUME ParkedShape, LogGrows, NEW T,
           parked' = [t \in Tasks |-> IF t \in T THEN NoEntry ELSE parked[t]]
    PROVE  ParkedShape'
<1>1. parked' = [t \in Tasks |-> parked'[t]] /\ \A t \in Tasks : parked'[t] \in {parked[t], NoEntry}
  OBVIOUS
<1> QED
  BY <1>1, ParkedNext

-----------------------------------------------------------------------------
(* The actions, one by one. *)

(* Nobody moves, so nobody is at the create who was not, and no cache changes. *)
LEMMA StillQuiet ==
    ASSUME ps' = ps
    PROVE  SpawnersStay /\ CacheStays
<1> QED
  BY DEF SpawnersStay, CacheStays

LEMMA EditTaskInv ==
    ASSUME Inv, NEW t \in Tasks, NEW rec \in Edits, EditTask(t, rec)
    PROVE  Inv'
<1>1. PICK x : Write(t, x)
  BY DEF EditTask
<1>2. /\ UNCHANGED <<jobs, lost, evt, seen, ps, evicted, parked, epoch, stored, gen, lock>>
      /\ LogShape /\ ParkedShape /\ JobsShape /\ MemoryShape /\ ProcsShape
  BY DEF EditTask, memory, Inv, Shapes
<1>3. /\ LogGrows
      /\ log' = [u \in Tasks |-> log'[u]]
      /\ \A u \in Tasks : log'[u] \in Seq(Range(log'[u]))
  BY <1>1, <1>2, LogWritten
<1>4. LogShape'
  BY <1>2, <1>3 DEF LogShape, LogGrows
<1>5. EpochsFollow /\ GenerationsGrow
  BY <1>2, ClocksStay
<1>6. ParkedShape' /\ ProcsShape'
  BY <1>2, <1>3, <1>5, ParkedStays, NoneMoves
<1>7. JobsShape' /\ MemoryShape'
  BY <1>2 DEF JobsShape, MemoryShape
<1>8. Shapes'
  BY <1>4, <1>6, <1>7 DEF Shapes
<1> QED
  BY <1>2, <1>8, StillQuiet, QuietStep

LEMMA ViewConsumeInv ==
    ASSUME Inv, NEW t \in Tasks, ViewConsume(t)
    PROVE  Inv'
<1>1. /\ UNCHANGED <<log, jobs, lost, evt, ps, evicted, parked, epoch, stored, gen, lock>>
      /\ seen[t] < Len(log[t])
      /\ seen' = [seen EXCEPT ![t] = @ + 1]
      /\ LogShape /\ ParkedShape /\ JobsShape /\ MemoryShape /\ ProcsShape
  BY DEF ViewConsume, world, memory, Inv, Shapes
<1>2. LogGrows
  BY <1>1, LogStays
<1>3. LogShape'
  <2>1. seen' \in [Tasks -> Nat] /\ \A u \in Tasks : seen'[u] <= Len(log[u])
    BY <1>1, <1>2 DEF LogShape, LogGrows
  <2> QED
    BY <1>1, <2>1 DEF LogShape
<1>4. EpochsFollow /\ GenerationsGrow
  BY <1>1, ClocksStay
<1>5. ParkedShape' /\ ProcsShape'
  BY <1>1, <1>2, <1>4, ParkedStays, NoneMoves
<1>6. JobsShape' /\ MemoryShape'
  BY <1>1 DEF JobsShape, MemoryShape
<1>7. Shapes'
  BY <1>3, <1>5, <1>6 DEF Shapes
<1> QED
  BY <1>1, <1>7, StillQuiet, QuietStep

LEMMA EventRefusedInv ==
    ASSUME Inv, NEW t \in Tasks, EventRefused(t)
    PROVE  Inv'
<1> DEFINE n == evt[t] + 1
<1>1. /\ UNCHANGED <<log, jobs, lost, seen, gen, lock, ps>>
      /\ n <= Len(log[t])
      /\ removeDeferredEntry({t})
      /\ stored' = stored \/ stored' = [stored EXCEPT ![t] = NoJob]
      /\ evt' = [evt EXCEPT ![t] = n]
      /\ evicted' = [evicted EXCEPT ![t] = n]
      /\ LogShape /\ ParkedShape /\ JobsShape /\ MemoryShape /\ ProcsShape
  BY DEF EventRefused, world, Inv, Shapes
<1>2. LogGrows
  BY <1>1, LogStays
<1>3. LogShape'
  <2>1. evt' \in [Tasks -> Nat] /\ \A u \in Tasks : evt'[u] <= Len(log[u])
    BY <1>1, <1>2 DEF LogShape, LogGrows
  <2> QED
    BY <1>1, <2>1 DEF LogShape
<1>4. \A u \in Tasks \ {t} : evicted'[u] = evicted[u]
  BY <1>1 DEF MemoryShape
<1>5. EpochsFollow /\ epoch' \in [Tasks -> Nat]
  BY <1>1, <1>4, Removed
<1>6. GenerationsGrow
  BY <1>1 DEF GenerationsGrow, MemoryShape
<1>7. ParkedShape'
  BY <1>1, <1>2, RemovedParked DEF removeDeferredEntry
<1>8. ProcsShape'
  BY <1>1, <1>2, <1>5, <1>6, NoneMoves
<1>9. evicted' \in [Tasks -> Nat]
  BY <1>1 DEF MemoryShape, LogShape
<1>10. MemoryShape'
  BY <1>1, <1>5, <1>9 DEF MemoryShape
<1>11. JobsShape'
  <2>1. Len(jobs) \in Nat
    BY <1>1, LenProperties DEF JobsShape
  <2>2. jobs' \in Seq(JobRecords) /\ Len(jobs) <= Len(jobs') /\ lost' \in [Assignees -> Nat]
        /\ NoJob \in 0..Len(jobs')
    BY <1>1, <2>1 DEF JobsShape, NoJob
  <2> QED
    BY <1>1, <2>2, StoredNext
<1>12. Shapes'
  BY <1>3, <1>7, <1>8, <1>10, <1>11 DEF Shapes
<1> QED
  BY <1>1, <1>12, StillQuiet, QuietStep

(* JobEnds and GraceElapses. *)
LEMMA JobOverInv ==
    ASSUME Inv, NEW j \in JobIds, JobEnds(j) \/ GraceElapses(j)
    PROVE  Inv'
<1>1. PICK st \in {"done", "over"} : jobs' = [jobs EXCEPT ![j].st = st]
  BY DEF JobEnds, GraceElapses
<1>2. /\ UNCHANGED <<log, lost, evt, seen, ps, evicted, parked, epoch, stored, gen, lock>>
      /\ LogShape /\ ParkedShape /\ JobsShape /\ MemoryShape /\ ProcsShape
  BY DEF JobEnds, GraceElapses, memory, Inv, Shapes
<1>3. LogShape' /\ LogGrows
  BY <1>2, LogStays DEF LogShape
<1>4. EpochsFollow /\ GenerationsGrow
  BY <1>2, ClocksStay
<1>5. ParkedShape' /\ ProcsShape'
  BY <1>2, <1>3, <1>4, ParkedStays, NoneMoves
<1>6. jobs' \in Seq(JobRecords) /\ Len(jobs') = Len(jobs)
  BY <1>1, <1>2, JobOver
<1>7. JobsShape' /\ MemoryShape'
  BY <1>2, <1>6 DEF JobsShape, MemoryShape
<1>8. Shapes'
  BY <1>3, <1>5, <1>7 DEF Shapes
<1>9. Locked'
  BY <1>2, StillQuiet, LockedKept DEF Inv
<1>10. ASSUME NEW a \in Assignees
       PROVE  /\ SecondsCounted(a)' /\ MissesCounted(a)' /\ CapHolds(a)'
              /\ \A t \in Tasks : MayCreate(t, a) => MayCreate(t, a)'
  BY <1>1, <1>2, <1>7, EndedCounts DEF Inv, Counted
<1>11. ASSUME NEW p \in Procs, ps'[p].pc = "spawn", NEW item \in {ps'[p].item}
       PROVE  MayCreate(item.task, AsgOf(item.rec))'
  <2>1. item = ps[p].item /\ ps[p].pc = "spawn"
    BY <1>2, <1>11
  <2>2. GoodItem(p, item) /\ MayCreate(item.task, AsgOf(item.rec))
    BY <1>2, <2>1 DEF Inv, Counted, ProcsShape, GoodProc
  <2>3. AsgOf(item.rec) \in Assignees /\ item.task \in Tasks
    BY <2>2 DEF GoodItem, Routed
  <2> QED
    BY <2>2, <2>3, <1>10
<1>12. Counted'
  BY <1>10, <1>11 DEF Counted
<1> QED
  BY <1>8, <1>9, <1>12 DEF Inv

LEMMA DriveGoodNext ==
    (\A p \in Procs : \A me, item :
        Supplied(p, me) /\ GoodItem(p, item) => GoodProc(p, Drive(me, item)))'
<1> QED
  BY DriveGood, PTL

(* One goroutine that is not at the create, and does not get there, moves. *)
LEMMA MoveQuiet ==
    ASSUME ProcsShape, NEW p \in Procs, NEW n, ps' = [ps EXCEPT ![p] = n],
           ps[p].pc # "spawn", n.pc # "spawn",
           n.cache = ps[p].cache \/ n.cache = [a \in Assignees |-> Unread]
    PROVE  SpawnersStay /\ CacheStays
<1>1. ps'[p] = n /\ \A q \in Procs : q # p => ps'[q] = ps[q]
  BY DEF ProcsShape
<1>2. SpawnersStay
  BY <1>1 DEF SpawnersStay
<1>3. CacheStays
  BY <1>1 DEF CacheStays, Procs
<1> QED
  BY <1>2, <1>3

(* An item that is made now. *)
LEMMA ItemMade ==
    ASSUME MemoryShape, NEW p \in Procs, NEW t \in Tasks, NEW n \in 1..Len(log[t]), NEW rec,
           Routed(rec), NEW claim, p \in Looping => claim = epoch[t],
           NEW item, item = Item(t, n, rec, claim)
    PROVE  GoodItem(p, item)
<1>1. /\ item.task = t /\ item.pos = n /\ item.rec = rec
      /\ item.claim = claim /\ item.born = evicted[t]
  BY DEF Item
<1>2. epoch[t] \in Nat
  BY DEF MemoryShape
<1> QED
  BY <1>1, <1>2 DEF GoodItem

LEMMA ConsumeMessageInv ==
    ASSUME Inv, NEW t \in Tasks, ConsumeMessage(t)
    PROVE  Inv'
<1> DEFINE n == evt[t] + 1
           rec == Record(t, n)
<1>1. /\ UNCHANGED <<log, jobs, lost, seen, parked, epoch, stored, gen, lock, evicted>>
      /\ ps["event"].pc = "idle"
      /\ n <= Len(log[t])
      /\ parseAndFilter(rec) = "run"
      /\ \/ ps' = [ps EXCEPT !["event"] = Drive(Idle, Item(t, n, rec, NoClaim))] /\ evt' = evt
         \/ ps' = ps /\ evt' = [evt EXCEPT ![t] = n]
      /\ LogShape /\ ParkedShape /\ JobsShape /\ MemoryShape /\ ProcsShape
  BY DEF ConsumeMessage, MayStart, world, memory, Inv, Shapes
<1>2. LogGrows
  BY <1>1, LogStays
<1>3. LogShape'
  <2>1. evt' \in [Tasks -> Nat] /\ \A u \in Tasks : evt'[u] <= Len(log[u])
    BY <1>1, <1>2 DEF LogShape, LogGrows
  <2> QED
    BY <1>1, <2>1 DEF LogShape
<1>4. EpochsFollow /\ GenerationsGrow
  BY <1>1, ClocksStay
<1>5. ParkedShape' /\ JobsShape' /\ MemoryShape'
  BY <1>1, <1>2, ParkedStays DEF JobsShape, MemoryShape
<1>6. CASE ps' = ps /\ evt' = [evt EXCEPT ![t] = n]
  <2>1. Shapes'
    BY <1>1, <1>2, <1>3, <1>4, <1>5, <1>6, NoneMoves DEF Shapes
  <2> QED
    BY <1>1, <1>6, <2>1, StillQuiet, QuietStep
<1>7. CASE ps' = [ps EXCEPT !["event"] = Drive(Idle, Item(t, n, rec, NoClaim))]
  <2>1. PICK item : item = Item(t, n, rec, NoClaim)
    OBVIOUS
  <2>2. n \in 1..Len(log[t]) /\ "event" \in Procs /\ "event" \notin Looping
    BY <1>1, <1>2 DEF LogShape, LogGrows, Procs, Looping
  <2>3. PICK x : x = rec
    OBVIOUS
  <2>4. Routed(x)
    BY <2>3, <1>1, FilteredRouted
  <2>5. GoodItem("event", item)
    <3> HIDE DEF n, rec
    <3> QED BY <2>1, <2>2, <2>3, <2>4, <1>1, ItemMade
  <2>6. item.task \in Tasks
    BY <2>5 DEF GoodItem
  <2>7. GoodItem("event", item)'
    BY <2>2, <2>5, <2>6, <1>1, <1>2, ItemKept
  <2>8. Supplied("event", Idle)'
    BY <2>2, IdleGoodNext, ProcSuppliedNext
  <2>9. PICK m : m = Drive(Idle, item)
    OBVIOUS
  <2>10. GoodProc("event", m)'
    BY <2>2, <2>7, <2>8, <2>9, DriveGoodNext
  <2>11. ps' = [ps EXCEPT !["event"] = m]
    BY <1>7, <2>1, <2>9
  <2>12. ProcsShape'
    BY <1>1, <1>2, <1>4, <2>2, <2>10, <2>11, OneMoves
  <2>13. m.pc # "spawn" /\ m.cache = [a \in Assignees |-> Unread]
    <3>1. Idle = [pc |-> "idle", item |-> NoItem, todo |-> <<>>, snap |-> [u \in Tasks |-> 0],
                  cache |-> [a \in Assignees |-> Unread], index |-> Unread]
      BY DEF Idle
    <3>2. Idle = [pc |-> Idle.pc, item |-> Idle.item, todo |-> Idle.todo, snap |-> Idle.snap,
                  cache |-> Idle.cache, index |-> Idle.index]
      BY <3>1
    <3>3. Idle.cache = [a \in Assignees |-> Unread]
      BY <3>1
    <3>4. m = [pc |-> IF item.rec.job = NoJob THEN "lock" ELSE "drive", item |-> item,
               todo |-> Idle.todo, snap |-> Idle.snap, cache |-> Idle.cache, index |-> Idle.index]
      BY <2>9, <3>2, DriveIs
    <3> QED
      BY <3>3, <3>4
  <2>14. SpawnersStay /\ CacheStays
    BY <1>1, <2>2, <2>11, <2>13, MoveQuiet
  <2>15. Shapes'
    BY <1>3, <1>5, <2>12 DEF Shapes
  <2> QED
    BY <1>1, <2>14, <2>15, QuietStep
<1> QED
  BY <1>1, <1>6, <1>7

(* The state a loop starts an item list with. *)
LEMMA LoopIs ==
    ASSUME NEW over, NEW todo
    PROVE  [Idle EXCEPT !.index = over, !.todo = todo] =
             [pc |-> "idle", item |-> NoItem, todo |-> todo, snap |-> [t \in Tasks |-> 0],
              cache |-> [a \in Assignees |-> Unread], index |-> over]
<1> DEFINE snap == [t \in Tasks |-> 0]
           cache == [a \in Assignees |-> Unread]
<1>1. PICK m : m = [Idle EXCEPT !.index = over]
  OBVIOUS
<1>2. [Idle EXCEPT !.index = over, !.todo = todo] = [m EXCEPT !.todo = todo]
  BY <1>1
<1>3. Idle = [pc |-> "idle", item |-> NoItem, todo |-> <<>>, snap |-> snap,
              cache |-> cache, index |-> Unread]
  BY DEF Idle
<1> HIDE DEF snap, cache
<1>4. m = [pc |-> "idle", item |-> NoItem, todo |-> <<>>, snap |-> snap,
           cache |-> cache, index |-> over]
  BY <1>1, <1>3
<1>5. [m EXCEPT !.todo = todo] = [pc |-> "idle", item |-> NoItem, todo |-> todo, snap |-> snap,
                                  cache |-> cache, index |-> over]
  BY <1>4
<1> QED
  BY <1>2, <1>5 DEF snap, cache

(* A loop starts with a list of well-formed items. *)
ItemList(todo, n) == todo = [i \in 1..n |-> todo[i]]

LoopStart(over, todo) == NextItem([Idle EXCEPT !.index = over, !.todo = todo])

LEMMA LoopGood ==
    ASSUME NEW p \in Procs, NEW n \in Nat, NEW todo, NEW over, ItemList(todo, n),
           \A i \in 1..n : GoodItem(p, todo[i])',
           NEW m, m = LoopStart(over, todo)
    PROVE  /\ GoodProc(p, m)'
           /\ m.pc # "spawn"
           /\ m.cache = [a \in Assignees |-> Unread]
<1>1. PICK me : me = [Idle EXCEPT !.index = over, !.todo = todo]
  OBVIOUS
<1>2. me = [pc |-> "idle", item |-> NoItem, todo |-> todo, snap |-> [t \in Tasks |-> 0],
            cache |-> [a \in Assignees |-> Unread], index |-> over]
  BY <1>1, LoopIs
<1>3. /\ me.todo = todo /\ me.cache = [a \in Assignees |-> Unread]
      /\ me = [pc |-> me.pc, item |-> me.item, todo |-> me.todo, snap |-> me.snap,
               cache |-> me.cache, index |-> me.index]
  BY <1>2
<1>4. todo \in Seq(Range(todo))
  <2>1. todo \in [1..n -> Range(todo)]
    BY DEF Range, ItemList
  <2> QED
    BY <2>1, SeqDef
<1>5. Shape(me)
  BY <1>3, <1>4 DEF Shape
<1>6. GoodCache(p, me.cache, gen)'
  BY <1>3 DEF GoodCache
<1>7. \A i \in DOMAIN me.todo : GoodItem(p, me.todo[i])'
  BY <1>3 DEF ItemList
<1>8. Supplied(p, me)'
  BY <1>5, <1>6, <1>7 DEF Supplied
<1>9. GoodProc(p, NextItem(me))'
  BY <1>8, NextItemGoodNext
<1>10. NextItem(me).pc # "spawn" /\ NextItem(me).cache = [a \in Assignees |-> Unread]
  <2>1. Idle.pc = "idle" /\ Idle.cache = [a \in Assignees |-> Unread]
    BY DEF Idle
  <2> QED
    BY <1>3, <1>5, <2>1, NextItemIs
<1>11. m = NextItem(me)
  BY <1>1 DEF LoopStart
<1> QED
  BY <1>9, <1>10, <1>11

(* A loop's list, in the order s of some tasks. *)
LEMMA OrderedTasks ==
    ASSUME NEW S \in SUBSET Tasks, NEW rec, NEW s \in Orders(S, rec)
    PROVE  \E n \in Nat : DOMAIN s = 1..n /\ \A i \in 1..n : s[i] \in S
<1>1. IsFiniteSet(S)
  BY FS_Subset, FunnelConstants
<1>2. Cardinality(S) \in Nat
  BY <1>1, FS_CardinalityType
<1>3. s \in [1..Cardinality(S) -> S]
  BY DEF Orders
<1> QED
  BY <1>2, <1>3

LEMMA evalDeferredRespawnsInv ==
    ASSUME Inv, NEW due \in SUBSET Tasks, evalDeferredRespawns(due)
    PROVE  Inv'
<1>1. /\ UNCHANGED <<log, jobs, lost, evt, seen, epoch, stored, gen, lock, evicted>>
      /\ ps["deferred"].pc = "idle"
      /\ \A t \in due : parked[t] # NoEntry
      /\ parked' = [t \in Tasks |-> IF t \in due THEN NoEntry ELSE parked[t]]
      /\ LogShape /\ ParkedShape /\ JobsShape /\ MemoryShape /\ ProcsShape
  BY DEF evalDeferredRespawns, MayStart, world, Inv, Shapes
<1>2. PICK over \in SUBSET Tasks :
          \E s \in Orders(due \ over, [t \in due |-> parked[t].rec]) :
             ps' = [ps EXCEPT !["deferred"] = NextItem(
                    [Idle EXCEPT !.index = over,
                                 !.todo = [i \in DOMAIN s |->
                                     Item(s[i], parked[s[i]].pos, parked[s[i]].rec, epoch[s[i]])]])]
  BY DEF evalDeferredRespawns
<1>3. PICK s \in Orders(due \ over, [t \in due |-> parked[t].rec]) :
             ps' = [ps EXCEPT !["deferred"] = NextItem(
                    [Idle EXCEPT !.index = over,
                                 !.todo = [i \in DOMAIN s |->
                                     Item(s[i], parked[s[i]].pos, parked[s[i]].rec, epoch[s[i]])]])]
  BY <1>2
<1>4. LogGrows /\ LogShape'
  BY <1>1, LogStays DEF LogShape
<1>5. EpochsFollow /\ GenerationsGrow
  BY <1>1, ClocksStay
<1>6. ParkedShape' /\ JobsShape' /\ MemoryShape'
  BY <1>1, <1>4, RemovedParked DEF JobsShape, MemoryShape
<1>7. PICK n \in Nat : DOMAIN s = 1..n /\ \A i \in 1..n : s[i] \in due \ over
  BY OrderedTasks
<1>8. PICK todo : todo = [i \in DOMAIN s |->
                            Item(s[i], parked[s[i]].pos, parked[s[i]].rec, epoch[s[i]])]
  OBVIOUS
<1>9. ItemList(todo, n)
  BY <1>7, <1>8 DEF ItemList
<1>10. "deferred" \in Procs /\ "deferred" \in Looping
  BY DEF Procs, Looping
<1>11. ASSUME NEW i \in 1..n PROVE GoodItem("deferred", todo[i])'
  <2>1. PICK t \in Tasks : t = s[i] /\ t \in due
    BY <1>7
  <2>2. PICK m, rec, claim : m = parked[t].pos /\ rec = parked[t].rec /\ claim = epoch[t]
    OBVIOUS
  <2>3. m \in 1..Len(log[t]) /\ Routed(rec)
    BY <1>1, <2>1, <2>2 DEF ParkedShape, GoodEntry
  <2>4. PICK item : item = todo[i]
    OBVIOUS
  <2>5. item = Item(t, m, rec, claim)
    BY <1>7, <1>8, <2>1, <2>2, <2>4
  <2>6. GoodItem("deferred", item)
    BY <1>1, <1>10, <2>2, <2>3, <2>5, ItemMade
  <2>7. item.task \in Tasks
    BY <2>6 DEF GoodItem
  <2>8. GoodItem("deferred", item)'
    BY <1>1, <1>4, <1>10, <2>6, <2>7, ItemKept
  <2> QED
    BY <2>4, <2>8
<1>12. PICK me : me = LoopStart(over, todo)
  OBVIOUS
<1>13. \A i \in 1..n : GoodItem("deferred", todo[i])'
  BY <1>11
<1>14. GoodProc("deferred", me)' /\ me.pc # "spawn" /\ me.cache = [a \in Assignees |-> Unread]
  BY <1>9, <1>10, <1>13, <1>12, LoopGood
<1>15. ps' = [ps EXCEPT !["deferred"] = me]
  BY <1>3, <1>8, <1>12 DEF LoopStart
<1>16. ProcsShape'
  BY <1>1, <1>4, <1>5, <1>10, <1>14, <1>15, OneMoves
<1>17. SpawnersStay /\ CacheStays
  BY <1>1, <1>10, <1>14, <1>15, MoveQuiet
<1>18. Shapes'
  BY <1>4, <1>6, <1>16 DEF Shapes
<1> QED
  BY <1>1, <1>17, <1>18, QuietStep

(* The goroutine moves to a well-formed state away from the create, and    *)
(* nothing else of the process but its parked entries and its clocks does. *)
LEMMA LoopMoves ==
    ASSUME Inv, NEW p \in Procs, NEW me, ps' = [ps EXCEPT ![p] = me], GoodProc(p, me)',
           ps[p].pc # "spawn", me.pc # "spawn", me.cache = [a \in Assignees |-> Unread],
           LogGrows, EpochsFollow, GenerationsGrow,
           LogShape', ParkedShape', JobsShape', MemoryShape',
           jobs' = jobs, lost' = lost, gen' = gen, lock' = lock
    PROVE  Inv'
<1>1. ProcsShape /\ MemoryShape
  BY DEF Inv, Shapes
<1>2. ProcsShape'
  BY <1>1, OneMoves
<1>3. SpawnersStay /\ CacheStays
  BY <1>1, MoveQuiet
<1>4. Shapes'
  BY <1>2 DEF Shapes
<1> QED
  BY <1>3, <1>4, QuietStep

LEMMA ReconcileOnceInv ==
    ASSUME Inv, ReconcileOnce
    PROVE  Inv'
<1>1. /\ UNCHANGED <<log, jobs, lost, evt, seen, parked, epoch, stored, gen, lock, evicted>>
      /\ ps["reconcile"].pc = "idle"
      /\ ps' = [ps EXCEPT !["reconcile"] = [Idle EXCEPT !.pc = "gather", !.snap = seen]]
      /\ LogShape /\ ParkedShape /\ JobsShape /\ MemoryShape /\ ProcsShape
  BY DEF ReconcileOnce, MayStart, world, memory, Inv, Shapes
<1>2. LogGrows /\ LogShape'
  BY <1>1, LogStays DEF LogShape
<1>3. EpochsFollow /\ GenerationsGrow
  BY <1>1, ClocksStay
<1>4. ParkedShape' /\ JobsShape' /\ MemoryShape'
  BY <1>1, <1>2, ParkedStays DEF JobsShape, MemoryShape
<1>5. "reconcile" \in Procs
  BY DEF Procs
<1>6. PICK x : x = seen
  OBVIOUS
<1>7. PICK cache : cache = [a \in Assignees |-> Unread]
  OBVIOUS
<1>8. PICK old : old = [t \in Tasks |-> 0]
  OBVIOUS
<1>9. PICK m : m = [Idle EXCEPT !.pc = "gather"]
  OBVIOUS
<1>10. PICK me : me = [m EXCEPT !.snap = x]
  OBVIOUS
<1>11. Idle = [pc |-> "idle", item |-> NoItem, todo |-> <<>>, snap |-> old,
               cache |-> cache, index |-> Unread]
  BY <1>7, <1>8 DEF Idle
<1>12. m = [pc |-> "gather", item |-> NoItem, todo |-> <<>>, snap |-> old,
            cache |-> cache, index |-> Unread]
  BY <1>9, <1>11
<1>13. me = [pc |-> "gather", item |-> NoItem, todo |-> <<>>, snap |-> x,
             cache |-> cache, index |-> Unread]
  BY <1>10, <1>12
<1>14. ps' = [ps EXCEPT !["reconcile"] = me]
  BY <1>1, <1>6, <1>9, <1>10
<1>15. /\ me.pc = "gather" /\ me.todo = <<>> /\ me.snap = x /\ me.cache = cache
       /\ me = [pc |-> me.pc, item |-> me.item, todo |-> me.todo, snap |-> me.snap,
                cache |-> me.cache, index |-> me.index]
  BY <1>13
<1>16. GoodProc("reconcile", me)'
  <2>1. <<>> \in Seq(Range(<<>>)) /\ DOMAIN <<>> = {}
    BY EmptySeq
  <2>2. Shape(me)
    BY <1>7, <1>15, <2>1 DEF Shape
  <2>3. GoodCache("reconcile", me.cache, gen)'
    BY <1>7, <1>15 DEF GoodCache
  <2>4. \A t \in Tasks : me.snap[t] \in 0..Len(log'[t])
    BY <1>1, <1>2, <1>6, <1>15 DEF LogShape, LogGrows
  <2> QED
    BY <1>15, <2>1, <2>2, <2>3, <2>4 DEF GoodProc
<1> QED
  BY <1>1, <1>2, <1>3, <1>4, <1>5, <1>7, <1>14, <1>15, <1>16, LoopMoves

LEMMA gatherCandidatesInv ==
    ASSUME Inv, gatherCandidates
    PROVE  Inv'
<1> DEFINE snap == ps["reconcile"].snap
           Rec(t) == Record(t, snap[t])
           owned == {t \in Tasks : snap[t] > 0 /\ Accepts(Rec(t).vault)}
           foreign == {t \in owned : isForeignCluster(Rec(t))}
           eligible == {t \in owned : gatherCandidate(Rec(t))}
           items(s) == [i \in DOMAIN s |-> Item(s[i], snap[s[i]], Rec(s[i]), epoch[s[i]])]
<1>1. /\ UNCHANGED <<log, jobs, lost, evt, seen, stored, gen, lock, evicted>>
      /\ ps["reconcile"].pc = "gather"
      /\ removeDeferredEntry(foreign)
      /\ LogShape /\ ParkedShape /\ JobsShape /\ MemoryShape /\ ProcsShape
  BY DEF gatherCandidates, world, Inv, Shapes
<1>2. PICK over \in SUBSET Tasks :
          \E s \in Orders(eligible \ over, [t \in eligible |-> Rec(t)]) :
             ps' = [ps EXCEPT !["reconcile"] =
                       NextItem([Idle EXCEPT !.index = over, !.todo = items(s)])]
  BY DEF gatherCandidates
<1>3. PICK s \in Orders(eligible \ over, [t \in eligible |-> Rec(t)]) :
          ps' = [ps EXCEPT !["reconcile"] =
                    NextItem([Idle EXCEPT !.index = over, !.todo = items(s)])]
  BY <1>2
<1>4. LogGrows /\ LogShape'
  BY <1>1, LogStays DEF LogShape
<1>5. EpochsFollow /\ epoch' \in [Tasks -> Nat]
  <2>1. foreign \in SUBSET Tasks /\ \A t \in Tasks \ foreign : evicted'[t] = evicted[t]
    BY <1>1
  <2> HIDE DEF foreign
  <2> QED BY <1>1, <2>1, Removed
<1>6. GenerationsGrow
  BY <1>1 DEF GenerationsGrow, MemoryShape
<1>7. ParkedShape'
  <2>1. PICK T : T = foreign
    OBVIOUS
  <2>2. parked' = [t \in Tasks |-> IF t \in T THEN NoEntry ELSE parked[t]]
    BY <1>1, <2>1 DEF removeDeferredEntry
  <2> QED BY <1>1, <1>4, <2>2, RemovedParked
<1>8. JobsShape' /\ MemoryShape'
  BY <1>1, <1>5 DEF JobsShape, MemoryShape
<1>9. "reconcile" \in Procs /\ "reconcile" \in Looping
  BY DEF Procs, Looping
<1>10. PICK n \in Nat : DOMAIN s = 1..n /\ \A i \in 1..n : s[i] \in eligible \ over
  <2>1. eligible \ over \in SUBSET Tasks
    OBVIOUS
  <2> HIDE DEF eligible
  <2> QED BY <2>1, OrderedTasks
<1>11. PICK todo : todo = items(s)
  OBVIOUS
<1>12. ItemList(todo, n)
  BY <1>10, <1>11 DEF ItemList
<1>13. ASSUME NEW i \in 1..n PROVE GoodItem("reconcile", todo[i])'
  <2>1. PICK t \in Tasks : t = s[i] /\ t \in eligible
    BY <1>10
  <2>2. PICK m, rec, claim : m = snap[t] /\ rec = Rec(t) /\ claim = epoch[t]
    OBVIOUS
  <2>3. m \in 1..Len(log[t])
    BY <1>1, <1>4, <1>9, <2>1, <2>2 DEF ProcsShape, GoodProc, LogGrows
  <2>4. Routed(rec)
    BY <2>1, <2>2, CandidateRouted
  <2>5. PICK item : item = todo[i]
    OBVIOUS
  <2>6. item = Item(t, m, rec, claim)
    BY <1>10, <1>11, <2>1, <2>2, <2>5
  <2>7. GoodItem("reconcile", item) /\ item.task = t
    BY <1>1, <1>9, <2>2, <2>3, <2>4, <2>6, ItemMade DEF Item
  <2>8. epoch'[t] = epoch[t] + 1 \/ epoch'[t] = epoch[t]
    BY <1>5 DEF EpochsFollow
  <2>9. GoodItem("reconcile", item)'
    BY <1>1, <1>4, <1>9, <2>7, <2>8, ItemKept
  <2> QED
    BY <2>5, <2>9
<1>14. \A i \in 1..n : GoodItem("reconcile", todo[i])'
  BY <1>13
<1>15. PICK me : me = LoopStart(over, todo)
  OBVIOUS
<1>16. GoodProc("reconcile", me)' /\ me.pc # "spawn" /\ me.cache = [a \in Assignees |-> Unread]
  BY <1>9, <1>12, <1>14, <1>15, LoopGood
<1>17. ps' = [ps EXCEPT !["reconcile"] = me]
  BY <1>3, <1>11, <1>15 DEF LoopStart
<1> QED
  BY <1>1, <1>4, <1>5, <1>6, <1>7, <1>8, <1>9, <1>16, <1>17, LoopMoves

LEMMA AbortPassInv ==
    ASSUME Inv, AbortPass
    PROVE  Inv'
<1>1. /\ UNCHANGED <<log, jobs, lost, evt, seen, parked, epoch, stored, gen, lock, evicted>>
      /\ ps["reconcile"].pc # "spawn"
      /\ ps' = [ps EXCEPT !["reconcile"] = Idle]
      /\ LogShape /\ ParkedShape /\ JobsShape /\ MemoryShape /\ ProcsShape
  BY DEF AbortPass, world, memory, Inv, Shapes
<1>2. LogGrows /\ LogShape'
  BY <1>1, LogStays DEF LogShape
<1>3. EpochsFollow /\ GenerationsGrow
  BY <1>1, ClocksStay
<1>4. ParkedShape' /\ JobsShape' /\ MemoryShape'
  BY <1>1, <1>2, ParkedStays DEF JobsShape, MemoryShape
<1>5. "reconcile" \in Procs
  BY DEF Procs
<1>6. PICK me : me = Idle
  OBVIOUS
<1>7. me.pc = "idle" /\ me.cache = [a \in Assignees |-> Unread]
  BY <1>6 DEF Idle
<1>8. GoodProc("reconcile", me)'
  BY <1>5, <1>6, IdleGoodNext
<1>9. ps' = [ps EXCEPT !["reconcile"] = me]
  BY <1>1, <1>6
<1> QED
  BY <1>1, <1>2, <1>3, <1>4, <1>5, <1>7, <1>8, <1>9, LoopMoves

-----------------------------------------------------------------------------
(* The spawn path up to the create. *)

(* The consumer is through with an event, or it was not the consumer. *)
LEMMA EventDone ==
    ASSUME LogShape, ProcsShape, LogGrows, NEW p \in Procs, ps[p].pc \in {"drive", "lock", "spawn"},
           \/ evt' = evt
           \/ evt' = IF p = "event" THEN [evt EXCEPT ![ps[p].item.task] = ps[p].item.pos] ELSE evt
    PROVE  evt' \in [Tasks -> Nat] /\ \A t \in Tasks : evt'[t] <= Len(log'[t])
<1>1. PICK item : item = ps[p].item
  OBVIOUS
<1>2. item.task \in Tasks /\ item.pos \in 1..Len(log[item.task])
  BY <1>1 DEF ProcsShape, GoodProc, GoodItem
<1>3. /\ evt \in [Tasks -> Nat]
      /\ \A t \in Tasks : /\ evt[t] <= Len(log[t]) /\ Len(log[t]) \in Nat
                          /\ Len(log'[t]) \in Nat /\ Len(log[t]) <= Len(log'[t])
  BY DEF LogShape, LogGrows
<1>4. evt' = evt \/ evt' = [evt EXCEPT ![item.task] = item.pos]
  BY <1>1
<1>5. evt' \in [Tasks -> Nat]
  BY <1>2, <1>3, <1>4
<1>6. ASSUME NEW t \in Tasks PROVE evt'[t] <= Len(log'[t])
  <2>1. evt'[t] = evt[t] \/ (t = item.task /\ evt'[t] = item.pos)
    BY <1>2, <1>3, <1>4
  <2> QED
    BY <2>1, <1>2, <1>3
<1> QED
  BY <1>5, <1>6

(* The goroutine moves within the spawn path, its item and its cache with it. *)
LEMMA PcSet ==
    \A p \in Procs : \A me : \A pc \in {"lock", "spawn"} :
        GoodProc(p, me) /\ me.pc \in {"drive", "lock"} =>
            \A m \in {[me EXCEPT !.pc = pc]} :
                GoodProc(p, m) /\ m.pc = pc /\ m.item = me.item /\ m.cache = me.cache
<1> SUFFICES ASSUME NEW p \in Procs, NEW me, NEW pc \in {"lock", "spawn"},
                    GoodProc(p, me), me.pc \in {"drive", "lock"},
                    NEW m, m = [me EXCEPT !.pc = pc]
             PROVE  GoodProc(p, m) /\ m.pc = pc /\ m.item = me.item /\ m.cache = me.cache
  OBVIOUS
<1>1. me = [pc |-> me.pc, item |-> me.item, todo |-> me.todo, snap |-> me.snap,
            cache |-> me.cache, index |-> me.index]
  BY DEF GoodProc, Shape
<1>2. PICK a, b, c, d, e, f : me = [pc |-> a, item |-> b, todo |-> c, snap |-> d,
                                    cache |-> e, index |-> f]
  BY <1>1
<1>3. m = [pc |-> pc, item |-> b, todo |-> c, snap |-> d, cache |-> e, index |-> f]
  BY <1>2
<1>4. /\ m.pc = pc /\ m.item = me.item /\ m.todo = me.todo /\ m.snap = me.snap
      /\ m.cache = me.cache /\ m.index = me.index
      /\ m = [pc |-> m.pc, item |-> m.item, todo |-> m.todo, snap |-> m.snap,
              cache |-> m.cache, index |-> m.index]
  BY <1>2, <1>3
<1>5. Shape(m)
  BY <1>4 DEF GoodProc, Shape
<1> QED
  BY <1>4, <1>5 DEF GoodProc

LEMMA PcSetNext ==
    (\A p \in Procs : \A me : \A pc \in {"lock", "spawn"} :
        GoodProc(p, me) /\ me.pc \in {"drive", "lock"} =>
            \A m \in {[me EXCEPT !.pc = pc]} :
                GoodProc(p, m) /\ m.pc = pc /\ m.item = me.item /\ m.cache = me.cache)'
<1> QED
  BY PcSet, PTL

LEMMA RefusedInv ==
    ASSUME Inv, NEW p \in Procs, Refused(p)
    PROVE  Inv'
<1>1. /\ UNCHANGED <<log, jobs, lost, seen, parked, epoch, stored, gen, lock, evicted>>
      /\ ps[p].pc \in {"drive", "lock"}
      /\ ps' = [ps EXCEPT ![p] = NextItem(ps[p])]
      /\ evt' = IF p = "event" THEN [evt EXCEPT ![ps[p].item.task] = ps[p].item.pos] ELSE evt
      /\ LogShape /\ ParkedShape /\ JobsShape /\ MemoryShape /\ ProcsShape
  BY DEF Refused, Done, DoneAs, world, memory, Inv, Shapes
<1>2. LogGrows
  BY <1>1, LogStays
<1>3. evt' \in [Tasks -> Nat] /\ \A t \in Tasks : evt'[t] <= Len(log'[t])
  BY <1>1, <1>2, EventDone
<1>4. LogShape'
  BY <1>1, <1>3 DEF LogShape
<1>5. EpochsFollow /\ GenerationsGrow
  BY <1>1, ClocksStay
<1>6. ParkedShape' /\ JobsShape' /\ MemoryShape'
  BY <1>1, <1>2, ParkedStays DEF JobsShape, MemoryShape
<1>7. ProcsShape'
  BY <1>1, <1>2, <1>5, MovesOn
<1>8. SpawnersStay /\ CacheStays
  BY <1>1, QuietMove
<1>9. Shapes'
  BY <1>4, <1>6, <1>7 DEF Shapes
<1> QED
  BY <1>1, <1>8, <1>9, QuietStep

LEMMA checkActiveCurrentJobInv ==
    ASSUME Inv, NEW p \in Procs, NEW deleted \in BOOLEAN, checkActiveCurrentJob(p, deleted)
    PROVE  Inv'
<1>1. PICK item : item = ps[p].item
  OBVIOUS
<1> DEFINE moved == ps' = [ps EXCEPT ![p] = NextItem(ps[p])]
           ready == ps' = [ps EXCEPT ![p].pc = "lock"]
<1>2. /\ UNCHANGED <<log, jobs, lost, seen, epoch, gen, lock, evicted>>
      /\ ps[p].pc = "drive"
      /\ moved \/ ready
      /\ parked' = parked \/
         parked' = [parked EXCEPT ![item.task] = [pos |-> item.pos, rec |-> item.rec]]
      /\ stored' = stored \/ stored' = [stored EXCEPT ![item.task] = NoJob]
      /\ \/ evt' = evt
         \/ evt' = IF p = "event" THEN [evt EXCEPT ![ps[p].item.task] = ps[p].item.pos] ELSE evt
      /\ LogShape /\ ParkedShape /\ JobsShape /\ MemoryShape /\ ProcsShape
  BY <1>1 DEF checkActiveCurrentJob, storeGraceWindowDeferral, Done, DoneAs, world, Inv, Shapes
<1>3. LogGrows
  BY <1>2, LogStays
<1>4. evt' \in [Tasks -> Nat] /\ \A t \in Tasks : evt'[t] <= Len(log'[t])
  BY <1>2, <1>3, EventDone
<1>5. LogShape'
  BY <1>2, <1>4 DEF LogShape
<1>6. EpochsFollow /\ GenerationsGrow
  BY <1>2, ClocksStay
<1>7. GoodItem(p, item) /\ item.task \in Tasks
  BY <1>1, <1>2 DEF ProcsShape, GoodProc, GoodItem
<1>8. ParkedShape'
  BY <1>2, <1>3, <1>7, EntryStored
<1>9. JobsShape'
  <2>1. Len(jobs) \in Nat
    BY <1>2, LenProperties DEF JobsShape
  <2>2. /\ jobs' \in Seq(JobRecords) /\ Len(jobs) <= Len(jobs') /\ lost' \in [Assignees -> Nat]
        /\ NoJob \in 0..Len(jobs')
    BY <1>2, <2>1 DEF JobsShape, NoJob
  <2> QED
    BY <1>2, <1>7, <2>2, StoredNext
<1>10. MemoryShape'
  BY <1>2 DEF MemoryShape
<1>11. CASE moved
  <2>1. ProcsShape' /\ SpawnersStay /\ CacheStays
    BY <1>2, <1>3, <1>6, <1>11, MovesOn, QuietMove
  <2>2. Shapes'
    BY <1>5, <1>8, <1>9, <1>10, <2>1 DEF Shapes
  <2> QED
    BY <1>2, <2>1, <2>2, QuietStep
<1>12. CASE ready
  <2>1. PICK me : me = ps[p]
    OBVIOUS
  <2>2. PICK m : m = [me EXCEPT !.pc = "lock"]
    OBVIOUS
  <2>3. ps' = [ps EXCEPT ![p] = m]
    BY <1>12, <2>1, <2>2
  <2>4. GoodProc(p, me)'
    BY <1>2, <1>3, <1>6, <2>1, ProcKept DEF ProcsShape
  <2>5. GoodProc(p, m)' /\ m.pc = "lock" /\ m.cache = me.cache
    <3>1. me.pc \in {"drive", "lock"}
      BY <1>2, <2>1
    <3> QED
      BY <2>2, <2>4, <3>1, PcSetNext
  <2>6. ProcsShape'
    BY <1>2, <1>3, <1>6, <2>3, <2>5, OneMoves
  <2>7. SpawnersStay /\ CacheStays
    BY <1>2, <2>1, <2>3, <2>5, MoveQuiet
  <2>8. Shapes'
    BY <1>5, <1>8, <1>9, <1>10, <2>6 DEF Shapes
  <2> QED
    BY <1>2, <2>7, <2>8, QuietStep
<1> QED
  BY <1>2, <1>11, <1>12

(* What the pass remembers of a lookup. *)
LEMMA RememberGood ==
    ASSUME ProcsShape, MemoryShape, NEW p \in Procs, NEW a \in Assignees,
           NEW listed, listed \subseteq Tasks, NEW r, r = Remember(p, a, listed)
    PROVE  /\ GoodProc(p, r)
           /\ r.pc = ps[p].pc /\ r.item = ps[p].item /\ r.todo = ps[p].todo
           /\ \A b \in Assignees : b # a => r.cache[b] = ps[p].cache[b]
           /\ p # "reconcile" => r.cache = ps[p].cache
           /\ p = "reconcile" => r.cache[a].active = listed
<1>1. PICK me : me = ps[p]
  OBVIOUS
<1>2. GoodProc(p, me)
  BY <1>1 DEF ProcsShape
<1>3. CASE p # "reconcile"
  BY <1>1, <1>2, <1>3 DEF Remember
<1>4. CASE p = "reconcile"
  <2>1. PICK entry : entry = [active |-> listed, gen |-> gen[a]]
    OBVIOUS
  <2>2. r = [me EXCEPT !.cache[a] = entry]
    BY <1>1, <1>4, <2>1 DEF Remember
  <2>3. /\ me = [pc |-> me.pc, item |-> me.item, todo |-> me.todo, snap |-> me.snap,
                 cache |-> me.cache, index |-> me.index]
        /\ me.cache = [b \in Assignees |-> me.cache[b]]
        /\ me.todo \in Seq(Range(me.todo))
    BY <1>2 DEF GoodProc, Shape
  <2>4. PICK x1, x2, x3, x4, c, x6 :
            me = [pc |-> x1, item |-> x2, todo |-> x3, snap |-> x4, cache |-> c, index |-> x6]
    BY <2>3
  <2>5. PICK d : d = [c EXCEPT ![a] = entry]
    OBVIOUS
  <2>6. c = me.cache
    BY <2>4
  <2>7. r = [pc |-> x1, item |-> x2, todo |-> x3, snap |-> x4, cache |-> d, index |-> x6]
    BY <2>2, <2>4, <2>5
  <2>8. /\ r.pc = me.pc /\ r.item = me.item /\ r.todo = me.todo /\ r.snap = me.snap
        /\ r.cache = d
        /\ r = [pc |-> r.pc, item |-> r.item, todo |-> r.todo, snap |-> r.snap,
                cache |-> r.cache, index |-> r.index]
    BY <2>4, <2>7
  <2>9. c = [b \in Assignees |-> c[b]]
    BY <2>3, <2>6
  <2>10. /\ d = [b \in Assignees |-> d[b]]
         /\ d[a] = entry
         /\ \A b \in Assignees : b # a => d[b] = c[b]
    BY <2>5, <2>9
  <2>11. Shape(r)
    BY <2>3, <2>8, <2>10 DEF Shape
  <2>12. GoodCache(p, r.cache, gen)
    <3>1. entry \in CacheEntries /\ entry.gen <= gen[a]
      BY <2>1 DEF CacheEntries, MemoryShape
    <3>2. GoodCache(p, c, gen)
      BY <1>2, <2>6 DEF GoodProc
    <3> QED
      BY <1>4, <2>8, <2>10, <3>1, <3>2 DEF GoodCache
  <2>13. GoodProc(p, r)
    BY <1>2, <2>8, <2>11, <2>12 DEF GoodProc
  <2> QED
    BY <1>1, <1>4, <2>1, <2>6, <2>8, <2>10, <2>13
<1> QED
  BY <1>3, <1>4

(* A lookup is the list or what the pass cached; it names tasks, and what  *)
(* it lacks of the list the cache lacks.                                   *)
LEMMA LookupMisses ==
    ASSUME JobsShape, ProcsShape, NEW p \in Procs, NEW a \in Assignees,
           NEW listed \in activeJobsFor(p, a)
    PROVE  /\ listed \subseteq Tasks
           /\ \/ listed = ListActiveJobs(a)
              \/ /\ p = "reconcile"
                 /\ Cached(p, a)
                 /\ listed = ps[p].cache[a].active
                 /\ Missed(a) = ListActiveJobs(a) \ listed
<1>1. ListActiveJobs(a) \in SUBSET Tasks
  BY CountsFinite DEF FiniteCounts
<1>2. CASE listed = ListActiveJobs(a)
  BY <1>1, <1>2
<1>3. CASE Cached(p, a) /\ listed = ps[p].cache[a].active
  <2>1. PICK cache : cache = ps[p].cache
    OBVIOUS
  <2>2. GoodCache(p, cache, gen)
    BY <2>1 DEF ProcsShape, GoodProc
  <2>3. cache[a] # Unread
    BY <1>3, <2>1 DEF Cached
  <2>4. p = "reconcile" /\ cache[a] \in CacheEntries
    BY <2>2, <2>3 DEF GoodCache
  <2>5. listed \subseteq Tasks
    BY <1>3, <2>1, <2>4 DEF CacheEntries
  <2> QED
    BY <1>3, <2>4, <2>5 DEF Missed
<1> QED
  BY <1>2, <1>3 DEF activeJobsFor

(* After the lookup is remembered the cache misses what it missed, or      *)
(* nothing.                                                                *)
LEMMA MissedRemembered ==
    ASSUME JobsShape, ProcsShape, MemoryShape, NEW p \in Procs, NEW a \in Assignees,
           NEW listed \in activeJobsFor(p, a), NEW r, r = Remember(p, a, listed),
           NEW m, m.cache = r.cache \/ m.cache = Idle.cache,
           ps'[p] = m, \A q \in Procs : q # p => ps'[q] = ps[q], jobs' = jobs, gen' = gen
    PROVE  \A b \in Assignees : Missed(b)' \in {{}, Missed(b)}
<1> SUFFICES ASSUME NEW b \in Assignees PROVE Missed(b)' \in {{}, Missed(b)}
  OBVIOUS
<1>1. ListActiveJobs(b)' = ListActiveJobs(b)
  BY DEF RunningJobs, ListActiveJobs, JobIds
<1>2. Idle.cache = [c \in Assignees |-> Unread]
  BY DEF Idle
<1>3. CASE p # "reconcile"
  <2>1. ps'["reconcile"] = ps["reconcile"]
    BY <1>3 DEF Procs
  <2> QED
    BY <1>1, <2>1 DEF Missed, Cached
<1>4. CASE p = "reconcile" /\ m.cache = Idle.cache
  BY <1>2, <1>4 DEF Missed, Cached
<1>5. CASE p = "reconcile" /\ m.cache = r.cache
  <2>1. listed \subseteq Tasks
    BY LookupMisses
  <2>2. /\ b # a => r.cache[b] = ps[p].cache[b]
        /\ r.cache[a].active = listed
    BY <1>5, <2>1, RememberGood
  <2>3. ps'["reconcile"].cache[b] = r.cache[b]
    BY <1>5
  <2>4. CASE b # a
    BY <1>1, <1>5, <2>2, <2>3, <2>4 DEF Missed, Cached
  <2>5. CASE b = a
    <3>1. ps'["reconcile"].cache[a].active = listed
      BY <2>2, <2>3, <2>5
    <3>2. Missed(a)' \in {{}, ListActiveJobs(a) \ listed}
      BY <1>1, <2>5, <3>1 DEF Missed
    <3>3. ListActiveJobs(a) \ listed \in {{}, Missed(a)}
      BY LookupMisses
    <3> QED
      BY <2>5, <3>2, <3>3
  <2> QED BY <2>4, <2>5
<1> QED
  BY <1>3, <1>4, <1>5

(* Neither lookup forbids the create: it is within what is promised. *)
LEMMA LookupsAllow ==
    ASSUME JobsShape, ProcsShape, Counted, NEW p \in Procs, NEW a \in Assignees, NEW t \in Tasks,
           NEW own \in activeJobsFor(p, a), NEW count \in activeJobsFor(p, a),
           t \notin own, ~AtCap(count, ConfigNamed[a])
    PROVE  MayCreate(t, a)
<1> DEFINE R == RunningJobs(a)
           L == ListActiveJobs(a)
           M == Missed(a)
<1>1. /\ IsFiniteSet(R) /\ IsFiniteSet(L) /\ IsFiniteSet(M)
      /\ Cardinality(R) \in Nat /\ Cardinality(L) \in Nat /\ Cardinality(M) \in Nat
  BY CountsFinite DEF FiniteCounts
<1>2. lost[a] \in Nat /\ CapOf(ConfigNamed[a]).cap \in Nat
  BY CapIsNatural DEF JobsShape
<1>3. /\ Cardinality(R) + Cardinality(M) <= Cardinality(L) + lost[a]
      /\ Cardinality(M) <= lost[a]
  BY DEF Counted, SecondsCounted, MissesCounted
<1>4. own = L \/ M = L \ own
  BY LookupMisses
<1>5. count \subseteq Tasks /\ (count = L \/ M = L \ count)
  BY LookupMisses
<1> HIDE DEF R, L, M
<1>6. ASSUME t \in L PROVE Cardinality(R) + 1 <= Cardinality(L) + lost[a]
  <2>1. M # {}
    BY <1>4, <1>6
  <2>2. Cardinality(M) # 0
    BY <1>1, <2>1, FS_EmptySet
  <2> QED
    BY <1>1, <1>2, <1>3, <2>2
<1>7. IsFiniteSet(count) /\ Cardinality(count) \in Nat
  BY <1>5, FunnelConstants, FS_Subset, FS_CardinalityType
<1>8. Cardinality(L) <= Cardinality(count) + lost[a]
  <2>1. CASE count = L
    BY <2>1, <1>1, <1>2
  <2>2. CASE M = L \ count
    <3>1. L \subseteq count \union M
      BY <2>2
    <3>2. /\ IsFiniteSet(count \union M)
          /\ Cardinality(count \union M) =
                Cardinality(count) + Cardinality(M) - Cardinality(count \cap M)
      BY <1>1, <1>7, FS_Union
    <3>3. Cardinality(count \cap M) = 0
      <4>1. count \cap M = {}
        BY <2>2
      <4> QED BY <4>1, FS_EmptySet
    <3>4. Cardinality(L) <= Cardinality(count \union M)
      BY <3>1, <3>2, FS_Subset
    <3> QED
      BY <1>1, <1>2, <1>3, <1>7, <3>2, <3>3, <3>4
  <2> QED BY <1>5, <2>1, <2>2
<1>9. Capped(ConfigNamed[a]) => Cardinality(count) < CapOf(ConfigNamed[a]).cap
  BY <1>2, <1>7 DEF AtCap, AtConcurrencyCap
<1>10. Capped(ConfigNamed[a]) => Cardinality(L) < CapOf(ConfigNamed[a]).cap + lost[a]
  BY <1>1, <1>2, <1>7, <1>8, <1>9
<1> QED
  BY <1>6, <1>10 DEF MayCreate, R, L

(* Nothing a goroutine's state is judged by changes. *)
LEMMA ProcSame ==
    ASSUME log' = log, epoch' = epoch, evicted' = evicted, gen' = gen,
           NEW p \in Procs, NEW me, GoodProc(p, me)
    PROVE  GoodProc(p, me)'
<1>1. ASSUME NEW item, GoodItem(p, item) PROVE GoodItem(p, item)'
  <2>1. Routed(item.rec)'
    BY <1>1 DEF GoodItem, Routed, AsgOf, ConfigFor
  <2> QED
    BY <1>1, <2>1 DEF GoodItem
<1>2. GoodCache(p, me.cache, gen)'
  <2>1. GoodCache(p, me.cache, gen')
    BY DEF GoodProc
  <2> QED
    BY <2>1 DEF GoodCache
<1>3. Shape(me)
  BY DEF GoodProc
<1> QED
  BY <1>1, <1>2, <1>3 DEF GoodProc

LEMMA spawnIfNeededClaimedInv ==
    ASSUME Inv, NEW p \in Procs, spawnIfNeededClaimed(p)
    PROVE  Inv'
<1>1. PICK item : item = ps[p].item
  OBVIOUS
<1>2. PICK a : a = AsgOf(item.rec)
  OBVIOUS
<1> DEFINE moved == /\ \E listed \in activeJobsFor(p, a) :
                          ps' = [ps EXCEPT ![p] = NextItem(Remember(p, a, listed))]
                    /\ lock' = lock
           taken == /\ \E own, count \in activeJobsFor(p, a) :
                          /\ item.task \notin own
                          /\ ~AtCap(count, ConfigFor(item.rec))
                          /\ ps' = [ps EXCEPT ![p] = [Remember(p, a, count) EXCEPT !.pc = "spawn"]]
                    /\ lock' = [lock EXCEPT ![a] = p]
<1>3. /\ UNCHANGED <<log, jobs, lost, seen, epoch, stored, gen, evicted>>
      /\ ps[p].pc = "lock"
      /\ lock[a] = Free
      /\ moved \/ taken
      /\ parked' = parked \/
         parked' = [parked EXCEPT ![item.task] = [pos |-> item.pos, rec |-> item.rec]]
      /\ \/ evt' = evt
         \/ evt' = IF p = "event" THEN [evt EXCEPT ![ps[p].item.task] = ps[p].item.pos] ELSE evt
  BY <1>1, <1>2 DEF spawnIfNeededClaimed, Park, isJobActive, lockAssigneeSpawn, DoneAs, world
<1> HIDE DEF moved, taken
<1>4. LogShape /\ ParkedShape /\ JobsShape /\ MemoryShape /\ ProcsShape /\ Locked /\ Counted
  BY DEF Inv, Shapes
<1>5. LogGrows
  BY <1>3, <1>4, LogStays
<1>6. LogShape'
  <2>1. evt' \in [Tasks -> Nat] /\ \A t \in Tasks : evt'[t] <= Len(log'[t])
    BY <1>3, <1>4, <1>5, EventDone
  <2> QED
    BY <1>3, <1>4, <2>1 DEF LogShape
<1>7. EpochsFollow /\ GenerationsGrow
  BY <1>3, <1>4, ClocksStay
<1>8. GoodItem(p, item) /\ item.task \in Tasks /\ Routed(item.rec)
  BY <1>1, <1>3, <1>4 DEF ProcsShape, GoodProc, GoodItem
<1>9. a \in Assignees /\ ConfigFor(item.rec) = ConfigNamed[a]
  BY <1>2, <1>8 DEF Routed
<1>10. ParkedShape'
  BY <1>3, <1>4, <1>5, <1>8, EntryStored
<1>11. JobsShape'
  BY <1>3, <1>4 DEF JobsShape
<1>12. CASE moved
  <2>1. PICK listed \in activeJobsFor(p, a) :
            ps' = [ps EXCEPT ![p] = NextItem(Remember(p, a, listed))]
    BY <1>12 DEF moved
  <2>2. PICK r : r = Remember(p, a, listed)
    OBVIOUS
  <2>3. listed \subseteq Tasks
    BY <1>4, <1>9, LookupMisses
  <2>4. GoodProc(p, r) /\ r.pc = "lock"
    <3>1. GoodProc(p, r) /\ r.pc = ps[p].pc
      BY <1>4, <1>9, <2>2, <2>3, RememberGood
    <3> QED
      BY <1>3, <3>1
  <2>5. GoodProc(p, r)'
    BY <1>3, <2>4, ProcSame
  <2>6. PICK m : m = NextItem(r)
    OBVIOUS
  <2>7. GoodProc(p, m)'
    BY <2>5, <2>6, ProcSuppliedNext, NextItemGoodNext
  <2>8. ps' = [ps EXCEPT ![p] = m]
    BY <2>1, <2>2, <2>6
  <2>9. m.pc # "spawn" /\ (m.cache = r.cache \/ m.cache = Idle.cache)
    <3>1. Shape(r)
      BY <2>4 DEF GoodProc
    <3>2. Idle.pc = "idle"
      BY DEF Idle
    <3> QED
      BY <2>6, <3>1, <3>2, NextItemIs
  <2>10. ProcsShape'
    BY <1>4, <1>5, <1>7, <2>7, <2>8, OneMoves
  <2>11. ps'[p] = m /\ \A q \in Procs : q # p => ps'[q] = ps[q]
    BY <1>4, <2>8 DEF ProcsShape
  <2>12. SpawnersStay
    BY <1>3, <2>9, <2>11 DEF SpawnersStay
  <2>13. \A b \in Assignees : Missed(b)' \in {{}, Missed(b)}
    BY <1>3, <1>4, <1>9, <2>2, <2>9, <2>11, MissedRemembered
  <2>14. MemoryShape'
    BY <1>3, <1>4, <1>12 DEF MemoryShape, moved
  <2>15. Shapes'
    BY <1>6, <1>10, <1>11, <2>10, <2>14 DEF Shapes
  <2>16. Counted'
    BY <1>3, <1>4, <1>11, <2>12, <2>13, CountedKept DEF Inv
  <2>17. Locked'
    BY <1>4, <1>12, <2>12, LockedKept DEF moved
  <2> QED
    BY <2>15, <2>16, <2>17 DEF Inv
<1>13. CASE taken
  <2>1. lock' = [lock EXCEPT ![a] = p]
    BY <1>13 DEF taken
  <2>2. PICK own \in activeJobsFor(p, a), count \in activeJobsFor(p, a) :
          /\ item.task \notin own
          /\ ~AtCap(count, ConfigFor(item.rec))
          /\ ps' = [ps EXCEPT ![p] = [Remember(p, a, count) EXCEPT !.pc = "spawn"]]
    BY <1>13 DEF taken
  <2>3. PICK r : r = Remember(p, a, count)
    OBVIOUS
  <2>4. count \subseteq Tasks
    BY <1>4, <1>9, LookupMisses
  <2>5. GoodProc(p, r) /\ r.pc = "lock" /\ r.item = item
    <3>1. GoodProc(p, r) /\ r.pc = ps[p].pc /\ r.item = ps[p].item
      BY <1>4, <1>9, <2>3, <2>4, RememberGood
    <3> QED
      BY <1>1, <1>3, <3>1
  <2>6. PICK m : m = [r EXCEPT !.pc = "spawn"]
    OBVIOUS
  <2>7. GoodProc(p, m) /\ m.pc = "spawn" /\ m.item = item /\ m.cache = r.cache
    BY <2>5, <2>6, PcSet
  <2>8. ps' = [ps EXCEPT ![p] = m]
    BY <2>2, <2>3, <2>6
  <2>9. ps'[p] = m /\ \A q \in Procs : q # p => ps'[q] = ps[q]
    BY <1>4, <2>8 DEF ProcsShape
  <2>10. GoodProc(p, m)'
    BY <1>3, <2>7, ProcSame
  <2>11. ProcsShape'
    BY <1>4, <1>5, <1>7, <2>8, <2>10, OneMoves
  <2>12. MemoryShape'
    BY <1>3, <1>4, <1>9, <2>1 DEF MemoryShape
  <2>13. Shapes'
    BY <1>6, <1>10, <1>11, <2>11, <2>12 DEF Shapes
  <2>14. Locked'
    <3>1. ASSUME NEW q \in Procs, NEW x \in {ps'[q].item}, ps'[q].pc = "spawn"
          PROVE  lock'[AsgOf(x.rec)] = q
      <4>1. CASE q = p
        BY <1>2, <1>4, <1>9, <2>1, <2>7, <2>9, <3>1, <4>1 DEF MemoryShape
      <4>2. CASE q # p
        <5>1. ps[q].pc = "spawn" /\ x = ps[q].item
          BY <2>9, <3>1, <4>2
        <5>2. lock[AsgOf(x.rec)] = q
          BY <1>4, <5>1 DEF Locked
        <5>3. AsgOf(x.rec) # a
          BY <1>3, <5>2 DEF Procs, Free
        <5> QED
          BY <1>4, <2>1, <5>2, <5>3 DEF MemoryShape
      <4> QED BY <4>1, <4>2
    <3>2. ASSUME NEW b \in Assignees, lock'[b] # Free, NEW q, q = lock'[b],
                 NEW x \in {ps'[q].item}
          PROVE  ps'[q].pc = "spawn" /\ AsgOf(x.rec) = b
      <4>1. CASE b = a
        <5>1. q = p
          BY <1>4, <1>9, <2>1, <3>2, <4>1 DEF MemoryShape
        <5> QED
          BY <1>2, <2>7, <2>9, <3>2, <4>1, <5>1
      <4>2. CASE b # a
        <5>1. q = lock[b] /\ q \in Procs
          BY <1>4, <2>1, <3>2, <4>2 DEF MemoryShape
        <5>2. ps[q].pc = "spawn" /\ \A y \in {ps[q].item} : AsgOf(y.rec) = b
          BY <1>4, <3>2, <5>1 DEF Locked
        <5>3. q # p
          BY <1>3, <5>2
        <5> QED
          BY <2>9, <3>2, <5>1, <5>2, <5>3
      <4> QED BY <4>1, <4>2
    <3> QED
      BY <3>1, <3>2 DEF Locked, AsgOf, ConfigFor
  <2>15. \A b \in Assignees : Missed(b)' \in {{}, Missed(b)}
    BY <1>3, <1>4, <1>9, <2>3, <2>7, <2>9, MissedRemembered
  <2>16. \A b \in Assignees : /\ RunningJobs(b)' = RunningJobs(b)
                              /\ ListActiveJobs(b)' = ListActiveJobs(b)
    BY <1>3 DEF RunningJobs, ListActiveJobs, JobIds
  <2>17. ASSUME NEW b \in Assignees
         PROVE  /\ SecondsCounted(b)' /\ MissesCounted(b)' /\ CapHolds(b)'
                /\ \A t \in Tasks : MayCreate(t, b) => MayCreate(t, b)'
    BY <1>3, <1>4, <1>11, <2>15, <2>16, SameCounts DEF Counted
  <2>18. ASSUME NEW q \in Procs, ps'[q].pc = "spawn", NEW x \in {ps'[q].item}
         PROVE  MayCreate(x.task, AsgOf(x.rec))'
    <3>1. x.task \in Tasks /\ AsgOf(x.rec) \in Assignees /\ MayCreate(x.task, AsgOf(x.rec))
      <4>1. CASE q = p
        <5>1. x = item
          BY <2>7, <2>9, <2>18, <4>1
        <5>2. MayCreate(item.task, a)
          BY <1>4, <1>8, <1>9, <2>2, LookupsAllow
        <5> QED
          BY <1>2, <1>8, <1>9, <5>1, <5>2
      <4>2. CASE q # p
        <5>1. ps[q].pc = "spawn" /\ x = ps[q].item
          BY <2>9, <2>18, <4>2
        <5>2. GoodItem(q, x) /\ MayCreate(x.task, AsgOf(x.rec))
          BY <1>4, <5>1 DEF Counted, ProcsShape, GoodProc
        <5> QED
          BY <5>2 DEF GoodItem, Routed
      <4> QED BY <4>1, <4>2
    <3> QED
      BY <2>17, <3>1
  <2>19. Counted'
    BY <2>17, <2>18 DEF Counted
  <2> QED
    BY <2>13, <2>14, <2>19 DEF Inv
<1> QED
  BY <1>3, <1>12, <1>13

-----------------------------------------------------------------------------
(* The create, and restarts. *)

CacheKept(a) ==
    /\ Cached("reconcile", a)' = Cached("reconcile", a)
    /\ Cached("reconcile", a) => ps'["reconcile"].cache[a] = ps["reconcile"].cache[a]

CacheFollows(a) == ~Cached("reconcile", a)' \/ CacheKept(a)

(* A goroutine at the create goes on: the pass keeps its cache or drops it. *)
LEMMA CacheMoves ==
    ASSUME ProcsShape, NEW p \in Procs, ps' = [ps EXCEPT ![p] = NextItem(ps[p])]
    PROVE  CacheStays /\ ps'[p].pc # "spawn" /\ \A q \in Procs : q # p => ps'[q] = ps[q]
<1>1. ps'[p] = NextItem(ps[p]) /\ \A q \in Procs : q # p => ps'[q] = ps[q]
  BY DEF ProcsShape
<1>2. Shape(ps[p])
  BY DEF ProcsShape, GoodProc
<1>3. \/ ps'[p] = Idle
      \/ ps'[p].pc \in {"drive", "lock"} /\ ps'[p].cache = ps[p].cache
  BY <1>1, <1>2, NextItemIs
<1>4. Idle.pc = "idle" /\ Idle.cache = [a \in Assignees |-> Unread]
  BY DEF Idle
<1>5. CacheStays
  BY <1>1, <1>3, <1>4 DEF CacheStays, Procs
<1> QED
  BY <1>1, <1>3, <1>4, <1>5

LEMMA CacheSameGeneration ==
    ASSUME CacheStays, NEW a \in Assignees, gen'[a] = gen[a]
    PROVE  CacheFollows(a)
<1>1. CASE ps'["reconcile"].cache = ps["reconcile"].cache
  BY <1>1 DEF CacheFollows, CacheKept, Cached
<1>2. CASE ps'["reconcile"].cache = [b \in Assignees |-> Unread]
  BY <1>2 DEF CacheFollows, Cached
<1> QED
  BY <1>1, <1>2 DEF CacheStays

(* The generation moved on: no entry of the cache is used any more. *)
LEMMA CacheOutdated ==
    ASSUME ProcsShape, MemoryShape, CacheStays, NEW a \in Assignees, gen'[a] = gen[a] + 1
    PROVE  ~Cached("reconcile", a)'
<1>1. CASE ps'["reconcile"].cache = ps["reconcile"].cache
  <2>1. PICK cache : cache = ps["reconcile"].cache
    OBVIOUS
  <2>2. GoodCache("reconcile", cache, gen)
    BY <2>1 DEF ProcsShape, GoodProc, Procs
  <2>3. gen[a] \in Nat
    BY DEF MemoryShape
  <2>4. cache[a] # Unread => cache[a].gen \in Nat /\ cache[a].gen <= gen[a]
    BY <2>2 DEF GoodCache, CacheEntries
  <2> QED
    BY <1>1, <2>1, <2>3, <2>4 DEF Cached
<1>2. CASE ps'["reconcile"].cache = [b \in Assignees |-> Unread]
  BY <1>2 DEF Cached
<1> QED
  BY <1>1, <1>2 DEF CacheStays

(* A goroutine at the create: what it has in hand. *)
LEMMA AtCreate ==
    ASSUME Inv, NEW p \in Procs, ps[p].pc = "spawn", NEW item, item = ps[p].item,
           NEW a, a = AsgOf(item.rec)
    PROVE  /\ item.task \in Tasks /\ a \in Assignees /\ lock[a] = p
           /\ MayCreate(item.task, a)
           /\ NewJob(p) = [task |-> item.task, asg |-> a, st |-> "run"]
<1>1. GoodItem(p, item)
  BY DEF Inv, Shapes, ProcsShape, GoodProc
<1>2. item.task \in Tasks /\ a \in Assignees
  BY <1>1 DEF GoodItem, Routed
<1>3. lock[a] = p /\ MayCreate(item.task, a)
  BY DEF Inv, Locked, Counted
<1> QED
  BY <1>2, <1>3 DEF NewJob

(* The counts after SpawnJob, whatever its answer was. *)
LEMMA AfterCreate ==
    ASSUME Inv, JobsShape', NEW p \in Procs, ps[p].pc = "spawn", NEW item, item = ps[p].item,
           NEW a, a = AsgOf(item.rec),
           \A b \in Assignees : b # a => CacheFollows(b) /\ lost'[b] = lost[b],
           \/ jobs' = jobs /\ lost' = lost /\ CacheFollows(a)
           \/ /\ jobs' = Append(jobs, NewJob(p))
              /\ \/ ~Cached("reconcile", a)' /\ lost'[a] \in {lost[a], lost[a] + 1}
                 \/ lost'[a] = lost[a] + 1 /\ CacheKept(a)
    PROVE  /\ \A b \in Assignees : SecondsCounted(b)' /\ MissesCounted(b)' /\ CapHolds(b)'
           /\ \A b \in Assignees : b # a =>
                 \A t \in Tasks : MayCreate(t, b) => MayCreate(t, b)'
<1>1. /\ item.task \in Tasks /\ a \in Assignees
      /\ MayCreate(item.task, a)
      /\ NewJob(p) = [task |-> item.task, asg |-> a, st |-> "run"]
  BY AtCreate
<1>2. JobsShape /\ \A b \in Assignees : SecondsCounted(b) /\ MissesCounted(b) /\ CapHolds(b)
  BY DEF Inv, Shapes, Counted
<1>3. ASSUME NEW b \in Assignees, RunningJobs(b)' = RunningJobs(b),
             ListActiveJobs(b)' = ListActiveJobs(b), lost'[b] = lost[b], CacheFollows(b)
      PROVE  /\ SecondsCounted(b)' /\ MissesCounted(b)' /\ CapHolds(b)'
             /\ \A t \in Tasks : MayCreate(t, b) => MayCreate(t, b)'
  <2>1. Missed(b)' \in {{}, Missed(b)}
    BY <1>3 DEF Missed, CacheFollows, CacheKept
  <2> QED
    BY <1>2, <1>3, <2>1, SameCounts
<1>4. CASE jobs' = jobs /\ lost' = lost /\ CacheFollows(a)
  <2>1. \A b \in Assignees : /\ RunningJobs(b)' = RunningJobs(b)
                             /\ ListActiveJobs(b)' = ListActiveJobs(b)
                             /\ lost'[b] = lost[b]
                             /\ CacheFollows(b)
    BY <1>4 DEF RunningJobs, ListActiveJobs, JobIds
  <2> QED
    BY <1>3, <2>1
<1>5. CASE /\ jobs' = Append(jobs, NewJob(p))
           /\ \/ ~Cached("reconcile", a)' /\ lost'[a] \in {lost[a], lost[a] + 1}
              \/ lost'[a] = lost[a] + 1 /\ CacheKept(a)
  <2>1. jobs' = Append(jobs, [task |-> item.task, asg |-> a, st |-> "run"])
    BY <1>1, <1>5
  <2>2. SecondsCounted(a)' /\ MissesCounted(a)' /\ CapHolds(a)'
    <3>1. PICK t : t = item.task
      OBVIOUS
    <3> QED
      BY <1>1, <1>2, <1>5, <2>1, <3>1, CreatedCounts DEF CacheKept
  <2>3. \A b \in Assignees : b # a => /\ RunningJobs(b)' = RunningJobs(b)
                                      /\ ListActiveJobs(b)' = ListActiveJobs(b)
    <3>1. PICK t : t = item.task
      OBVIOUS
    <3> QED
      BY <1>1, <1>2, <2>1, <3>1, JobAppended
  <2>4. ASSUME NEW b \in Assignees, b # a
        PROVE  /\ SecondsCounted(b)' /\ MissesCounted(b)' /\ CapHolds(b)'
               /\ \A t \in Tasks : MayCreate(t, b) => MayCreate(t, b)'
    BY <1>3, <2>3, <2>4
  <2> QED
    BY <2>2, <2>4
<1> QED
  BY <1>4, <1>5

(* The goroutine leaves the create and its lock. *)
LEMMA LeavesCreate ==
    ASSUME Inv, Shapes', NEW p \in Procs, ps[p].pc = "spawn", NEW item, item = ps[p].item,
           NEW a, a = AsgOf(item.rec),
           ps'[p].pc # "spawn", \A q \in Procs : q # p => ps'[q] = ps[q],
           Unlock(p),
           \A b \in Assignees : SecondsCounted(b)' /\ MissesCounted(b)' /\ CapHolds(b)',
           \A b \in Assignees : b # a => \A t \in Tasks : MayCreate(t, b) => MayCreate(t, b)'
    PROVE  Inv'
<1>1. a \in Assignees /\ lock[a] = p
  BY AtCreate
<1>2. \A b \in Assignees : lock'[b] = IF lock[b] = p THEN Free ELSE lock[b]
  BY DEF Unlock
<1>3. Locked /\ MemoryShape /\ ProcsShape /\ Counted
  BY DEF Inv, Shapes
<1>4. ASSUME NEW q \in Procs, ps'[q].pc = "spawn", NEW x \in {ps'[q].item}
      PROVE  /\ q # p /\ x = ps[q].item /\ ps[q].pc = "spawn"
             /\ x.task \in Tasks /\ AsgOf(x.rec) \in Assignees /\ lock[AsgOf(x.rec)] = q
             /\ AsgOf(x.rec) # a /\ MayCreate(x.task, AsgOf(x.rec))
  <2>1. q # p /\ x = ps[q].item /\ ps[q].pc = "spawn"
    BY <1>4
  <2>2. PICK b : b = AsgOf(x.rec)
    OBVIOUS
  <2>3. x.task \in Tasks /\ b \in Assignees /\ lock[b] = q /\ MayCreate(x.task, b)
    BY <2>1, <2>2, AtCreate
  <2> QED
    BY <1>1, <2>1, <2>2, <2>3
<1>5. ASSUME NEW q \in Procs, ps'[q].pc = "spawn", NEW x \in {ps'[q].item}
      PROVE  lock'[AsgOf(x.rec)] = q
  BY <1>2, <1>4, <1>5
<1>6. ASSUME NEW b \in Assignees, NEW q, q = lock'[b], q # Free, NEW x \in {ps'[q].item}
      PROVE  ps'[q].pc = "spawn" /\ AsgOf(x.rec) = b
  <2>1. q = lock[b] /\ q # p /\ q \in Procs
    BY <1>2, <1>3, <1>6 DEF MemoryShape
  <2>2. ps[q].pc = "spawn" /\ \A y \in {ps[q].item} : AsgOf(y.rec) = b
    BY <1>3, <1>6, <2>1 DEF Locked
  <2> QED
    BY <1>6, <2>1, <2>2
<1>7. Locked'
  BY <1>5, <1>6 DEF Locked, AsgOf, ConfigFor
<1>8. ASSUME NEW q \in Procs, ps'[q].pc = "spawn", NEW x \in {ps'[q].item}
      PROVE  MayCreate(x.task, AsgOf(x.rec))'
  BY <1>4, <1>8
<1>9. Counted'
  BY <1>8 DEF Counted
<1> QED
  BY <1>7, <1>9 DEF Inv

(* A restart leaves the vault, the topic and the Jobs. *)
LEMMA RestartedInv ==
    ASSUME Inv, Restarted, log' = log, evt' = evt, evicted' = evicted,
           jobs' \in Seq(JobRecords), lost' \in [Assignees -> Nat],
           \A a \in Assignees : SecondsCounted(a)' /\ MissesCounted(a)' /\ CapHolds(a)'
    PROVE  Inv'
<1>1. /\ parked' = [t \in Tasks |-> NoEntry]
      /\ epoch' = [t \in Tasks |-> 0]
      /\ stored' = [t \in Tasks |-> 0]
      /\ gen' = [a \in Assignees |-> 0]
      /\ lock' = [a \in Assignees |-> Free]
      /\ seen' = [t \in Tasks |-> 0]
      /\ ps' = [p \in Procs |-> Idle]
  BY DEF Restarted, NoJob
<1>2. LogShape /\ MemoryShape
  BY DEF Inv, Shapes
<1>3. LogShape'
  BY <1>1, <1>2, LenProperties DEF LogShape
<1>4. ParkedShape'
  <2>1. \A t \in Tasks : GoodEntry(t)'
    BY <1>1 DEF GoodEntry
  <2> QED
    BY <1>1, <2>1 DEF ParkedShape
<1>5. JobsShape'
  <2>1. Len(jobs') \in Nat
    BY LenProperties
  <2> QED
    BY <1>1, <2>1 DEF JobsShape
<1>6. MemoryShape'
  BY <1>1, <1>2 DEF MemoryShape
<1>7. ProcsShape'
  <2>1. ASSUME NEW p \in Procs, NEW me \in {ps'[p]} PROVE GoodProc(p, me)'
    <3>1. me = Idle
      BY <1>1, <2>1
    <3> QED
      BY <3>1, IdleGoodNext
  <2> QED
    BY <1>1, <2>1 DEF ProcsShape
<1>8. Shapes'
  BY <1>3, <1>4, <1>5, <1>6, <1>7 DEF Shapes
<1>9. \A p \in Procs : ps'[p].pc # "spawn"
  BY <1>1 DEF Idle
<1>10. Locked'
  BY <1>1, <1>9 DEF Locked
<1>11. Counted'
  BY <1>9 DEF Counted
<1> QED
  BY <1>8, <1>10, <1>11 DEF Inv

LEMMA RestartedCache ==
    ASSUME Restarted, NEW a \in Assignees
    PROVE  ~Cached("reconcile", a)'
<1>1. ps'["reconcile"] = Idle
  BY DEF Restarted, Procs
<1>2. Idle.cache = [b \in Assignees |-> Unread]
  BY DEF Idle
<1> QED
  BY <1>1, <1>2 DEF Cached

(* The Job table after the create. *)
LEMMA JobsCreated ==
    ASSUME Inv, NEW p \in Procs, ps[p].pc = "spawn", jobs' = Append(jobs, NewJob(p))
    PROVE  jobs' \in Seq(JobRecords) /\ Len(jobs) \in Nat /\ Len(jobs') = Len(jobs) + 1
<1>1. PICK item, a, t : item = ps[p].item /\ a = AsgOf(item.rec) /\ t = item.task
  OBVIOUS
<1>2. t \in Tasks /\ a \in Assignees /\ NewJob(p) = [task |-> t, asg |-> a, st |-> "run"]
  BY <1>1, AtCreate
<1>3. jobs' = Append(jobs, [task |-> t, asg |-> a, st |-> "run"])
  BY <1>2
<1> QED
  BY <1>2, <1>3, JobAppended DEF Inv, Shapes

(* The goroutine is through with the create, in the same process. *)
LEMMA CreateDone ==
    ASSUME Inv, NEW p \in Procs, ps[p].pc = "spawn", NEW item, item = ps[p].item,
           NEW a, a = AsgOf(item.rec), Done(p), Unlock(p),
           LogGrows, log' = [u \in Tasks |-> log'[u]],
           \A u \in Tasks : log'[u] \in Seq(Range(log'[u])),
           JobsShape', UNCHANGED <<seen, parked, epoch, evicted>>,
           \A b \in Assignees : b # a => lost'[b] = lost[b],
           \/ gen' = gen /\ jobs' = jobs /\ lost' = lost
           \/ gen' = gen /\ jobs' = Append(jobs, NewJob(p)) /\ lost'[a] = lost[a] + 1
           \/ /\ gen' = [gen EXCEPT ![a] = @ + 1]
              /\ jobs' = Append(jobs, NewJob(p))
              /\ lost' = lost
    PROVE  Inv'
<1>1. /\ LogShape /\ ParkedShape /\ JobsShape /\ MemoryShape /\ ProcsShape
      /\ ps' = [ps EXCEPT ![p] = NextItem(ps[p])]
      /\ evt' = IF p = "event" THEN [evt EXCEPT ![ps[p].item.task] = ps[p].item.pos] ELSE evt
  BY DEF Inv, Shapes, Done, DoneAs
<1>2. item.task \in Tasks /\ a \in Assignees
  BY AtCreate
<1>3. CacheStays /\ ps'[p].pc # "spawn" /\ \A q \in Procs : q # p => ps'[q] = ps[q]
  BY <1>1, CacheMoves
<1>4. /\ gen' \in [Assignees -> Nat]
      /\ gen'[a] \in {gen[a], gen[a] + 1}
      /\ \A b \in Assignees : b # a => gen'[b] = gen[b]
  BY <1>1, <1>2 DEF MemoryShape
<1>5. GenerationsGrow
  BY <1>1, <1>4 DEF MemoryShape, GenerationsGrow
<1>6. EpochsFollow
  BY DEF EpochsFollow
<1>7. ProcsShape'
  BY <1>1, <1>5, <1>6, MovesOn
<1>8. LogShape'
  <2>1. evt' \in [Tasks -> Nat] /\ \A t \in Tasks : evt'[t] <= Len(log'[t])
    BY <1>1, EventDone
  <2>2. \A t \in Tasks : seen'[t] <= Len(log'[t])
    BY <1>1 DEF LogShape, LogGrows
  <2> QED
    BY <1>1, <2>1, <2>2 DEF LogShape
<1>9. ParkedShape'
  BY <1>1, ParkedStays
<1>10. MemoryShape'
  <2>1. lock' \in [Assignees -> Procs \union {Free}]
    BY <1>1 DEF MemoryShape, Unlock
  <2> QED
    BY <1>1, <1>4, <2>1 DEF MemoryShape
<1>11. Shapes'
  BY <1>7, <1>8, <1>9, <1>10 DEF Shapes
<1>12. \A b \in Assignees : b # a => CacheFollows(b) /\ lost'[b] = lost[b]
  BY <1>3, <1>4, CacheSameGeneration
<1>13. \/ jobs' = jobs /\ lost' = lost /\ CacheFollows(a)
       \/ /\ jobs' = Append(jobs, NewJob(p))
          /\ \/ ~Cached("reconcile", a)' /\ lost'[a] \in {lost[a], lost[a] + 1}
             \/ lost'[a] = lost[a] + 1 /\ CacheKept(a)
  <2>1. CASE gen' = gen
    <3>1. CacheFollows(a)
      BY <1>2, <1>3, <2>1, CacheSameGeneration
    <3> QED
      BY <1>1, <1>2, <2>1, <3>1 DEF CacheFollows, MemoryShape
  <2>2. CASE gen' = [gen EXCEPT ![a] = @ + 1]
    <3>1. gen'[a] = gen[a] + 1 /\ gen[a] \in Nat
      BY <1>1, <1>2, <2>2 DEF MemoryShape
    <3>2. ~Cached("reconcile", a)'
      BY <1>1, <1>2, <1>3, <3>1, CacheOutdated
    <3>3. gen' # gen
      BY <3>1
    <3> QED
      BY <3>2, <3>3
  <2> QED
    BY <2>1, <2>2
<1>14. /\ \A b \in Assignees : SecondsCounted(b)' /\ MissesCounted(b)' /\ CapHolds(b)'
       /\ \A b \in Assignees : b # a =>
             \A t \in Tasks : MayCreate(t, b) => MayCreate(t, b)'
  BY <1>12, <1>13, AfterCreate
<1> QED
  BY <1>3, <1>11, <1>14, LeavesCreate

LEMMA finishSpawnInv ==
    ASSUME Inv, NEW p \in Procs, finishSpawn(p)
    PROVE  Inv'
<1>1. PICK item, a, t : item = ps[p].item /\ a = AsgOf(item.rec) /\ t = item.task
  OBVIOUS
<1>2. /\ ps[p].pc = "spawn"
      /\ jobs' = Append(jobs, NewJob(p))
      /\ gen' = [gen EXCEPT ![a] = @ + 1]
      /\ stored' = [stored EXCEPT ![t] = Len(jobs) + 1]
      /\ Done(p) /\ Unlock(p)
      /\ UNCHANGED <<lost, seen, parked, epoch, evicted>>
  BY <1>1 DEF finishSpawn, createJob, bumpSpawnGen, storeSpawnedJob
<1>3. LogShape /\ JobsShape
  BY DEF Inv, Shapes
<1>4. t \in Tasks /\ a \in Assignees
  BY <1>1, <1>2, AtCreate
<1>5. /\ LogGrows
      /\ log' = [u \in Tasks |-> log'[u]]
      /\ \A u \in Tasks : log'[u] \in Seq(Range(log'[u]))
  <2>1. CASE log' = log
    BY <1>3, <2>1, LogStays DEF LogShape
  <2>2. CASE log' # log
    <3>1. PICK x : Write(t, x)
      BY <1>1, <2>2 DEF finishSpawn, PublishSpawnNotification
    <3> QED
      BY <1>3, <1>4, <3>1, LogWritten
  <2> QED BY <2>1, <2>2
<1>6. JobsShape'
  <2>1. jobs' \in Seq(JobRecords) /\ Len(jobs) \in Nat /\ Len(jobs') = Len(jobs) + 1
    BY <1>2, JobsCreated
  <2>2. Len(jobs) + 1 \in 0..Len(jobs') /\ Len(jobs) <= Len(jobs') /\ lost' \in [Assignees -> Nat]
    BY <1>2, <1>3, <2>1 DEF JobsShape
  <2> QED
    BY <1>2, <1>3, <1>4, <2>1, <2>2, StoredNext
<1> QED
  BY <1>1, <1>2, <1>5, <1>6, CreateDone

LEMMA CountFailsInv ==
    ASSUME Inv, NEW p \in Procs, CountFails(p)
    PROVE  Inv'
<1>1. PICK item, a, t : item = ps[p].item /\ a = AsgOf(item.rec) /\ t = item.task
  OBVIOUS
<1>2. /\ ps[p].pc = "spawn"
      /\ jobs' = Append(jobs, NewJob(p))
      /\ UNCHANGED <<log, lost, evicted>>
      /\ LogShape /\ JobsShape
  BY DEF CountFails, createJob, Inv, Shapes
<1>3. t \in Tasks /\ a \in Assignees
  BY <1>1, <1>2, AtCreate
<1>4. jobs' \in Seq(JobRecords) /\ Len(jobs) \in Nat /\ Len(jobs') = Len(jobs) + 1
  BY <1>2, JobsCreated
<1>5. lost' \in [Assignees -> Nat]
  BY <1>2 DEF JobsShape
<1>6. CASE p = "reconcile"
  <2>1. /\ gen' = [gen EXCEPT ![a] = @ + 1]
        /\ stored' = [stored EXCEPT ![t] = Len(jobs) + 1]
        /\ Done(p) /\ Unlock(p)
        /\ UNCHANGED <<seen, parked, epoch>>
    BY <1>1, <1>6 DEF CountFails, bumpSpawnGen, storeSpawnedJob
  <2>2. /\ LogGrows
        /\ log' = [u \in Tasks |-> log'[u]]
        /\ \A u \in Tasks : log'[u] \in Seq(Range(log'[u]))
    BY <1>2, LogStays DEF LogShape
  <2>3. JobsShape'
    <3>1. Len(jobs) + 1 \in 0..Len(jobs') /\ Len(jobs) <= Len(jobs')
      BY <1>4
    <3> QED
      BY <1>2, <1>3, <1>4, <1>5, <2>1, <3>1, StoredNext
  <2> QED
    BY <1>1, <1>2, <2>1, <2>2, <2>3, CreateDone
<1>7. CASE p # "reconcile"
  <2>1. Restarted /\ evt' = evt
    BY <1>7 DEF CountFails
  <2>2. JobsShape'
    BY <1>4, <1>5, <2>1 DEF JobsShape, Restarted, NoJob
  <2>3. \A b \in Assignees : ~Cached("reconcile", b)'
    BY <2>1, RestartedCache
  <2>4. \A b \in Assignees : SecondsCounted(b)' /\ MissesCounted(b)' /\ CapHolds(b)'
    BY <1>1, <1>2, <1>3, <2>2, <2>3, AfterCreate DEF CacheFollows
  <2> QED
    BY <1>2, <1>4, <1>5, <2>1, <2>4, RestartedInv
<1> QED
  BY <1>6, <1>7

LEMMA SpawnFailsInv ==
    ASSUME Inv, NEW p \in Procs, NEW created \in BOOLEAN, NEW permanent \in BOOLEAN,
           SpawnFails(p, created, permanent)
    PROVE  Inv'
<1>1. PICK item, a : item = ps[p].item /\ a = AsgOf(item.rec)
  OBVIOUS
<1>2. /\ ps[p].pc = "spawn"
      /\ \/ jobs' = jobs /\ lost' = lost
         \/ jobs' = Append(jobs, NewJob(p)) /\ lost' = [lost EXCEPT ![a] = @ + 1]
      /\ UNCHANGED <<log, evicted>>
      /\ LogShape /\ JobsShape
  BY <1>1 DEF SpawnFails, Inv, Shapes
<1>3. a \in Assignees
  BY <1>1, <1>2, AtCreate
<1>4. /\ jobs' \in Seq(JobRecords) /\ Len(jobs) \in Nat /\ Len(jobs') \in Nat
      /\ Len(jobs) <= Len(jobs')
  <2>1. CASE jobs' = jobs
    BY <1>2, <2>1, LenProperties DEF JobsShape
  <2>2. CASE jobs' = Append(jobs, NewJob(p))
    BY <1>2, <2>2, JobsCreated
  <2> QED BY <1>2, <2>1, <2>2
<1>5. /\ lost' \in [Assignees -> Nat]
      /\ \A b \in Assignees : b # a => lost'[b] = lost[b]
      /\ \/ jobs' = jobs /\ lost' = lost
         \/ jobs' = Append(jobs, NewJob(p)) /\ lost'[a] = lost[a] + 1
  BY <1>2, <1>3 DEF JobsShape
<1>6. CASE p = "event" /\ ~permanent
  <2>1. Restarted /\ evt' = evt
    BY <1>6 DEF SpawnFails
  <2>2. JobsShape'
    BY <1>4, <1>5, <2>1 DEF JobsShape, Restarted, NoJob
  <2>3. \A b \in Assignees : ~Cached("reconcile", b)'
    BY <2>1, RestartedCache
  <2>4. \A b \in Assignees : SecondsCounted(b)' /\ MissesCounted(b)' /\ CapHolds(b)'
    BY <1>1, <1>2, <1>3, <1>5, <2>2, <2>3, AfterCreate DEF CacheFollows
  <2> QED
    BY <1>2, <1>4, <1>5, <2>1, <2>4, RestartedInv
<1>7. CASE ~(p = "event" /\ ~permanent)
  <2>1. Done(p) /\ Unlock(p) /\ UNCHANGED <<seen, parked, epoch, stored, gen>>
    BY <1>7 DEF SpawnFails
  <2>2. /\ LogGrows
        /\ log' = [u \in Tasks |-> log'[u]]
        /\ \A u \in Tasks : log'[u] \in Seq(Range(log'[u]))
    BY <1>2, LogStays DEF LogShape
  <2>3. JobsShape'
    BY <1>2, <1>4, <1>5, <2>1 DEF JobsShape
  <2> QED
    BY <1>1, <1>2, <1>5, <2>1, <2>2, <2>3, CreateDone
<1> QED
  BY <1>6, <1>7

LEMMA CrashInv ==
    ASSUME Inv, Crash
    PROVE  Inv'
<1>1. Restarted /\ UNCHANGED <<log, jobs, lost, evt, evicted>> /\ JobsShape /\ Counted
  BY DEF Crash, world, Inv, Shapes
<1>2. jobs' \in Seq(JobRecords) /\ lost' \in [Assignees -> Nat] /\ Len(jobs') \in Nat
  BY <1>1, LenProperties DEF JobsShape
<1>3. JobsShape'
  BY <1>1, <1>2 DEF JobsShape, Restarted, NoJob
<1>4. ASSUME NEW a \in Assignees
      PROVE  SecondsCounted(a)' /\ MissesCounted(a)' /\ CapHolds(a)'
  <2>1. Missed(a)' = {}
    BY <1>1, RestartedCache DEF Missed
  <2>2. RunningJobs(a)' = RunningJobs(a) /\ ListActiveJobs(a)' = ListActiveJobs(a)
    BY <1>1 DEF RunningJobs, ListActiveJobs, JobIds
  <2> QED
    BY <1>1, <1>3, <2>1, <2>2, SameCounts DEF Counted
<1> QED
  BY <1>1, <1>2, <1>4, RestartedInv

-----------------------------------------------------------------------------
(* The invariant. *)

LEMMA InitInv == Init => Inv
<1> SUFFICES ASSUME Init PROVE Inv
  OBVIOUS
<1>1. PICK start \in Starts :
        /\ log = [t \in Tasks |-> <<start.rec[t]>>]
        /\ evt = start.evt
  BY DEF Init
<1>2. /\ jobs = <<>>
      /\ lost = [a \in Assignees |-> 0]
      /\ seen = [t \in Tasks |-> 1]
      /\ parked = [t \in Tasks |-> NoEntry]
      /\ epoch = [t \in Tasks |-> 0]
      /\ stored = [t \in Tasks |-> 0]
      /\ gen = [a \in Assignees |-> 0]
      /\ lock = [a \in Assignees |-> Free]
      /\ ps = [p \in Procs |-> Idle]
      /\ evicted = [t \in Tasks |-> 0]
  BY DEF Init, NoJob
<1>3. LogShape
  <2>1. ASSUME NEW t \in Tasks
        PROVE  log[t] \in Seq(Range(log[t])) /\ Len(log[t]) = 1
    <3>1. PICK x : x = start.rec[t]
      OBVIOUS
    <3>2. log[t] = <<x>>
      BY <1>1, <3>1
    <3>3. <<x>> \in Seq({x}) /\ Len(<<x>>) = 1
      OBVIOUS
    <3> QED
      BY <3>2, <3>3, SeqOfRange
  <2>2. evt \in [Tasks -> 0..1]
    BY <1>1, FunnelConstants
  <2>3. evt \in [Tasks -> Nat] /\ \A t \in Tasks : evt[t] <= 1
    BY <2>2
  <2>4. log = [t \in Tasks |-> log[t]]
    BY <1>1
  <2>5. seen \in [Tasks -> Nat] /\ \A t \in Tasks : seen[t] <= 1
    BY <1>2
  <2> QED
    BY <2>1, <2>3, <2>4, <2>5 DEF LogShape
<1>4. ParkedShape
  <2>1. \A t \in Tasks : GoodEntry(t)
    BY <1>2 DEF GoodEntry
  <2> QED
    BY <1>2, <2>1 DEF ParkedShape
<1>5. JobsShape
  <2>1. <<>> \in Seq(JobRecords) /\ Len(<<>>) = 0
    BY EmptySeq
  <2> QED
    BY <1>2, <2>1 DEF JobsShape
<1>6. MemoryShape
  BY <1>2 DEF MemoryShape
<1>7. ProcsShape
  BY <1>2, IdleGood DEF ProcsShape
<1>8. Idle.pc = "idle" /\ Idle.cache = [a \in Assignees |-> Unread]
  BY DEF Idle
<1>9. Locked
  BY <1>2, <1>8 DEF Locked
<1>10. ASSUME NEW a \in Assignees
       PROVE  SecondsCounted(a) /\ MissesCounted(a) /\ CapHolds(a)
  <2>1. RunningJobs(a) = {}
    BY <1>2, EmptySeq DEF RunningJobs, JobIds
  <2>2. ListActiveJobs(a) = {} /\ Missed(a) = {}
    BY <2>1 DEF ListActiveJobs, Missed
  <2>3. Cardinality({}) = 0 /\ lost[a] = 0 /\ CapOf(ConfigNamed[a]).cap \in Nat
    BY <1>2, FS_EmptySet, CapIsNatural
  <2> QED
    BY <2>1, <2>2, <2>3 DEF SecondsCounted, MissesCounted, CapHolds
<1>11. Counted
  BY <1>2, <1>8, <1>10 DEF Counted
<1> QED
  BY <1>3, <1>4, <1>5, <1>6, <1>7, <1>9, <1>11 DEF Inv, Shapes

LEMMA StutterInv ==
    ASSUME Inv, UNCHANGED vars
    PROVE  Inv'
<1>1. UNCHANGED <<log, jobs, lost, evt, seen, parked, epoch, stored, gen, lock, ps, evicted>>
  BY DEF vars
<1>2. LogShape /\ ParkedShape /\ JobsShape /\ MemoryShape /\ ProcsShape
  BY DEF Inv, Shapes
<1>3. LogGrows /\ LogShape'
  BY <1>1, <1>2, LogStays DEF LogShape
<1>4. EpochsFollow /\ GenerationsGrow
  BY <1>1, <1>2, ClocksStay
<1>5. ParkedShape' /\ ProcsShape' /\ JobsShape' /\ MemoryShape'
  BY <1>1, <1>2, <1>3, <1>4, ParkedStays, NoneMoves DEF JobsShape, MemoryShape
<1>6. Shapes'
  BY <1>3, <1>5 DEF Shapes
<1> QED
  BY <1>1, <1>6, StillQuiet, QuietStep

LEMMA NextInv == Inv /\ [Next]_vars => Inv'
<1> SUFFICES ASSUME Inv, [Next]_vars PROVE Inv'
  OBVIOUS
<1>1. CASE UNCHANGED vars
  BY <1>1, StutterInv
<1>2. CASE Environment
  BY <1>2, EditTaskInv, JobOverInv, CrashInv DEF Environment
<1>3. CASE \E t \in Tasks : ViewConsume(t) \/ EventRefused(t) \/ ConsumeMessage(t)
  BY <1>3, ViewConsumeInv, EventRefusedInv, ConsumeMessageInv
<1>4. CASE \E due \in SUBSET Tasks : evalDeferredRespawns(due)
  BY <1>4, evalDeferredRespawnsInv
<1>5. CASE ReconcileOnce \/ gatherCandidates \/ AbortPass
  BY <1>5, ReconcileOnceInv, gatherCandidatesInv, AbortPassInv
<1>6. CASE \E p \in Procs : SpawnPath(p)
  <2>1. PICK p \in Procs : SpawnPath(p)
    BY <1>6
  <2>2. CASE \E deleted \in BOOLEAN : checkActiveCurrentJob(p, deleted)
    BY <2>2, checkActiveCurrentJobInv
  <2>3. CASE spawnIfNeededClaimed(p) \/ Refused(p) \/ finishSpawn(p) \/ CountFails(p)
    BY <2>3, spawnIfNeededClaimedInv, RefusedInv, finishSpawnInv, CountFailsInv
  <2>4. CASE \E created, permanent \in BOOLEAN : SpawnFails(p, created, permanent)
    BY <2>4, SpawnFailsInv
  <2> QED
    BY <2>1, <2>2, <2>3, <2>4 DEF SpawnPath
<1> QED
  BY <1>1, <1>2, <1>3, <1>4, <1>5, <1>6 DEF Next

LEMMA Invariant == Spec => []Inv
<1> QED
  BY InitInv, NextInv, PTL DEF Spec

-----------------------------------------------------------------------------
(* The results. *)

(* In every state every position points into its log, parked entries and   *)
(* stored Jobs exist, and a lock is held only by a goroutine that is at the *)
(* create: no path through spawnIfNeededClaimed, its errors included,      *)
(* leaves a lock behind.                                                   *)
THEOREM WellFormed == Spec => []TypeOK
<1>1. Inv => TypeOK
  <2> SUFFICES ASSUME Inv PROVE TypeOK
    OBVIOUS
  <2>1. LogShape /\ ParkedShape /\ JobsShape /\ Locked
    BY DEF Inv, Shapes
  <2>2. ASSUME NEW t \in Tasks PROVE parked[t].pos \in 0..Len(log[t])
    <3>1. Len(log[t]) \in Nat
      BY <2>1, LenProperties DEF LogShape
    <3>2. CASE parked[t] = NoEntry
      BY <3>1, <3>2 DEF NoEntry
    <3>3. CASE parked[t] # NoEntry
      BY <2>1, <3>1, <3>3 DEF ParkedShape, GoodEntry
    <3> QED BY <3>2, <3>3
  <2>3. ASSUME NEW t \in Tasks PROVE stored[t] \in 0..Len(jobs)
    BY <2>1, LenProperties DEF JobsShape
  <2> QED
    BY <2>1, <2>2, <2>3 DEF TypeOK, LogShape, Locked
<1> QED
  BY <1>1, Invariant, PTL

(* The running tasks of a capped assignee are never more than its cap and  *)
(* the creates that were answered with an error, whatever the order of     *)
(* events, passes, cache lookups, failures and restarts                    *)
(* (deferIfAtConcurrencyCap, activeJobsFor, lockAssigneeSpawn).            *)
THEOREM CapKept == Spec => []CapRespected
<1>1. Inv => CapRespected
  BY DEF Inv, Counted, CapHolds, CapRespected
<1> QED
  BY <1>1, Invariant, PTL

(* An assignee has at most as many running Jobs as running tasks and       *)
(* creates that were answered with an error: without such an answer no     *)
(* task has two, whichever goroutines drive it (isJobActive under          *)
(* lockAssigneeSpawn, spawnGens).                                          *)
THEOREM SecondJobsCounted == Spec => []OneJobPerTask
<1>1. Inv => OneJobPerTask
  <2> SUFFICES ASSUME Inv, NEW a \in Assignees
               PROVE  Cardinality(RunningJobs(a)) <= Cardinality(ListActiveJobs(a)) + lost[a]
    BY DEF OneJobPerTask
  <2>1. /\ Cardinality(RunningJobs(a)) \in Nat /\ Cardinality(ListActiveJobs(a)) \in Nat
        /\ Cardinality(Missed(a)) \in Nat /\ lost[a] \in Nat
    BY CountsFinite DEF Inv, Shapes, FiniteCounts, JobsShape
  <2>2. SecondsCounted(a)
    BY DEF Inv, Counted
  <2> QED
    BY <2>1, <2>2 DEF SecondsCounted
<1> QED
  BY <1>1, Invariant, PTL

-----------------------------------------------------------------------------
(* Evictions. *)

(* What EvictionBeatsReplay says of one loop. *)
Beaten(p) ==
    \/ ps[p].pc = "lock" /\ ps'[p].pc = "spawn"
    \/ /\ ps[p].pc \in {"drive", "lock"}
       /\ parked'[ps[p].item.task] \notin {parked[ps[p].item.task], NoEntry}
       /\ ps'[p] # ps[p]
    => evicted[ps[p].item.task] = ps[p].item.born

LEMMA BeatenBy ==
    ASSUME Inv, NEW p \in Looping,
           \/ ps'[p] = ps[p]
           \/ ps[p].pc \notin {"drive", "lock"}
           \/ /\ ps'[p].pc # "spawn"
              /\ parked' = parked \/ parked' = [t \in Tasks |-> NoEntry]
           \/ claimStillValid(ps[p].item)
    PROVE  Beaten(p)
<1>1. CASE ps'[p] = ps[p] \/ ps[p].pc \notin {"drive", "lock"}
  BY <1>1 DEF Beaten
<1>2. CASE ps[p].pc \in {"drive", "lock"}
  <2>1. PICK item : item = ps[p].item
    OBVIOUS
  <2>2. GoodItem(p, item) /\ p \in Procs
    BY <1>2, <2>1 DEF Inv, Shapes, ProcsShape, GoodProc, Looping, Procs
  <2>3. CASE /\ ps'[p].pc # "spawn"
             /\ parked' = parked \/ parked' = [t \in Tasks |-> NoEntry]
    <3>1. item.task \in Tasks
      BY <2>2 DEF GoodItem
    <3>2. parked'[item.task] \in {parked[item.task], NoEntry}
      BY <2>3, <3>1
    <3> QED
      BY <2>1, <2>3, <3>2 DEF Beaten
  <2>4. CASE claimStillValid(item)
    <3>1. item.task \in Tasks /\ item.claim \in 0..epoch[item.task]
      BY <2>2 DEF GoodItem
    <3>2. epoch[item.task] \in Nat
      BY <3>1 DEF Inv, Shapes, MemoryShape
    <3>3. item.claim # NoClaim
      BY <3>1, <3>2, FunnelConstants DEF NoClaim
    <3>4. evicted[item.task] = item.born
      BY <2>2, <2>4, <3>3 DEF claimStillValid, GoodItem
    <3> QED
      BY <2>1, <3>4 DEF Beaten
  <2> QED
    BY <1>1, <1>2, <2>1, <2>3, <2>4
<1> QED
  BY <1>1, <1>2

LEMMA RestartBeaten ==
    ASSUME Inv, NEW p \in Looping, Restarted
    PROVE  Beaten(p)
<1>1. ps'[p] = Idle /\ parked' = [t \in Tasks |-> NoEntry]
  BY DEF Restarted, Looping, Procs
<1>2. Idle.pc = "idle"
  BY DEF Idle
<1> QED
  BY <1>1, <1>2, BeatenBy

(* Outside the spawn path the loops only start, stop or restart. *)
LEMMA OthersBeaten ==
    ASSUME Inv, NEW p \in Looping,
           \/ Environment
           \/ \E t \in Tasks : ViewConsume(t) \/ EventRefused(t) \/ ConsumeMessage(t)
           \/ \E due \in SUBSET Tasks : evalDeferredRespawns(due)
           \/ ReconcileOnce \/ gatherCandidates \/ AbortPass
    PROVE  Beaten(p)
<1>1. ProcsShape /\ p \in Procs
  BY DEF Inv, Shapes, Looping, Procs
<1>2. CASE Environment
  <2>1. CASE Crash
    BY <2>1, RestartBeaten DEF Crash
  <2>2. CASE ~Crash
    <3>1. ps' = ps
      BY <1>2, <2>2 DEF Environment, EditTask, JobEnds, GraceElapses
    <3> QED
      BY <3>1, BeatenBy
  <2> QED BY <2>1, <2>2
<1>3. CASE \E t \in Tasks : ViewConsume(t) \/ EventRefused(t) \/ ConsumeMessage(t)
  <2>1. ps' = ps \/ \E me : ps' = [ps EXCEPT !["event"] = me]
    BY <1>3 DEF ViewConsume, EventRefused, ConsumeMessage
  <2>2. ps'[p] = ps[p]
    BY <1>1, <2>1 DEF Looping, ProcsShape
  <2> QED
    BY <2>2, BeatenBy
<1>4. CASE \E due \in SUBSET Tasks : evalDeferredRespawns(due)
  <2>1. ps["deferred"].pc = "idle" /\ \E me : ps' = [ps EXCEPT !["deferred"] = me]
    BY <1>4 DEF evalDeferredRespawns, MayStart
  <2>2. ps'[p] = ps[p] \/ ps[p].pc \notin {"drive", "lock"}
    BY <1>1, <2>1 DEF ProcsShape
  <2> QED
    BY <2>2, BeatenBy
<1>5. CASE ReconcileOnce \/ gatherCandidates
  <2>1. ps["reconcile"].pc \in {"idle", "gather"} /\ \E me : ps' = [ps EXCEPT !["reconcile"] = me]
    BY <1>5 DEF ReconcileOnce, gatherCandidates, MayStart
  <2>2. ps'[p] = ps[p] \/ ps[p].pc \notin {"drive", "lock"}
    BY <1>1, <2>1 DEF ProcsShape
  <2> QED
    BY <2>2, BeatenBy
<1>6. CASE AbortPass
  <2>1. ps' = [ps EXCEPT !["reconcile"] = Idle] /\ parked' = parked
    BY <1>6 DEF AbortPass, memory
  <2>2. ps'[p] = ps[p] \/ ps'[p] = Idle
    BY <1>1, <2>1 DEF ProcsShape
  <2>3. Idle.pc = "idle"
    BY DEF Idle
  <2> QED
    BY <2>1, <2>2, <2>3, BeatenBy
<1> QED
  BY <1>2, <1>3, <1>4, <1>5, <1>6

LEMMA SpawnPathBeaten ==
    ASSUME Inv, NEW p \in Looping, NEW q \in Procs, SpawnPath(q)
    PROVE  Beaten(p)
<1>1. ProcsShape /\ MemoryShape /\ JobsShape /\ p \in Procs
  BY DEF Inv, Shapes, Looping, Procs
<1>2. CASE Restarted
  BY <1>2, RestartBeaten
<1>3. CASE ~Restarted /\ q # p
  <2>1. \E me : ps' = [ps EXCEPT ![q] = me]
    <3>1. CASE \E deleted \in BOOLEAN : checkActiveCurrentJob(q, deleted)
      <4>1. Done(q) \/ ps' = [ps EXCEPT ![q].pc = "lock"]
        BY <3>1 DEF checkActiveCurrentJob
      <4> QED
        BY <4>1 DEF Done, DoneAs
    <3>2. CASE spawnIfNeededClaimed(q)
      BY <3>2 DEF spawnIfNeededClaimed, DoneAs
    <3>3. CASE Refused(q) \/ finishSpawn(q)
      BY <3>3 DEF Refused, finishSpawn, Done, DoneAs
    <3>4. CASE CountFails(q)
      BY <1>3, <3>4 DEF CountFails, Done, DoneAs
    <3>5. CASE \E created, permanent \in BOOLEAN : SpawnFails(q, created, permanent)
      BY <1>3, <3>5 DEF SpawnFails, Done, DoneAs
    <3> QED
      BY <3>1, <3>2, <3>3, <3>4, <3>5 DEF SpawnPath
  <2>2. ps'[p] = ps[p]
    BY <1>1, <1>3, <2>1 DEF ProcsShape
  <2> QED
    BY <2>2, BeatenBy
<1>4. CASE q = p
  <2>1. CASE \E deleted \in BOOLEAN : checkActiveCurrentJob(p, deleted)
    <3>1. PICK deleted \in BOOLEAN : checkActiveCurrentJob(p, deleted)
      BY <2>1
    <3>2. CASE Done(p)
      <4>1. ps'[p].pc # "spawn"
        BY <1>1, <3>2, CacheMoves DEF Done, DoneAs
      <4>2. parked' = parked \/ claimStillValid(ps[p].item)
        BY <3>1 DEF checkActiveCurrentJob, storeGraceWindowDeferral
      <4> QED
        BY <4>1, <4>2, BeatenBy
    <3>3. CASE ~Done(p)
      <4>1. ps' = [ps EXCEPT ![p].pc = "lock"] /\ parked' = parked
        BY <3>1, <3>3 DEF checkActiveCurrentJob
      <4>2. ps'[p].pc = "lock"
        <5>1. PICK me : me = ps[p]
          OBVIOUS
        <5>2. me = [pc |-> me.pc, item |-> me.item, todo |-> me.todo, snap |-> me.snap,
                    cache |-> me.cache, index |-> me.index]
          BY <1>1, <5>1 DEF ProcsShape, GoodProc, Shape
        <5>3. ps'[p] = [me EXCEPT !.pc = "lock"]
          BY <1>1, <4>1, <5>1 DEF ProcsShape
        <5> QED
          BY <5>2, <5>3
      <4> QED
        BY <4>1, <4>2, BeatenBy
    <3> QED BY <3>2, <3>3
  <2>2. CASE spawnIfNeededClaimed(p)
    <3>1. PICK item, a : item = ps[p].item /\ a = AsgOf(item.rec)
      OBVIOUS
    <3>2. \/ claimStillValid(item)
          \/ /\ parked' = parked
             /\ \E listed \in activeJobsFor(p, a) :
                   ps' = [ps EXCEPT ![p] = NextItem(Remember(p, a, listed))]
      BY <2>2, <3>1 DEF spawnIfNeededClaimed, finalSpawnRefusals, Park, DoneAs
    <3>3. CASE claimStillValid(item)
      BY <3>1, <3>3, BeatenBy
    <3>4. CASE /\ parked' = parked
               /\ \E listed \in activeJobsFor(p, a) :
                     ps' = [ps EXCEPT ![p] = NextItem(Remember(p, a, listed))]
      <4>1. PICK listed \in activeJobsFor(p, a) :
                ps' = [ps EXCEPT ![p] = NextItem(Remember(p, a, listed))]
        BY <3>4
      <4>2. PICK r : r = Remember(p, a, listed)
        OBVIOUS
      <4>3. GoodItem(p, item)
        BY <1>1, <2>2, <3>1 DEF spawnIfNeededClaimed, ProcsShape, GoodProc
      <4>4. a \in Assignees
        BY <3>1, <4>3 DEF GoodItem, Routed
      <4>5. listed \subseteq Tasks
        BY <1>1, <4>4, LookupMisses
      <4>6. Shape(r)
        BY <1>1, <4>2, <4>4, <4>5, RememberGood DEF GoodProc
      <4>7. ps'[p] = NextItem(r)
        BY <1>1, <4>1, <4>2 DEF ProcsShape
      <4>8. Idle.pc = "idle"
        BY DEF Idle
      <4>9. ps'[p].pc # "spawn"
        BY <4>6, <4>7, <4>8, NextItemIs
      <4> QED
        BY <3>4, <4>9, BeatenBy
    <3> QED BY <3>2, <3>3, <3>4
  <2>3. CASE Refused(p)
    <3>1. parked' = parked /\ ps' = [ps EXCEPT ![p] = NextItem(ps[p])]
      BY <2>3 DEF Refused, memory, Done, DoneAs
    <3>2. ps'[p].pc # "spawn"
      BY <1>1, <3>1, CacheMoves
    <3> QED
      BY <3>1, <3>2, BeatenBy
  <2>4. CASE \/ finishSpawn(p) \/ CountFails(p)
             \/ \E created, permanent \in BOOLEAN : SpawnFails(p, created, permanent)
    <3>1. ps[p].pc = "spawn"
      BY <2>4 DEF finishSpawn, CountFails, SpawnFails, createJob
    <3> QED
      BY <3>1, BeatenBy
  <2> QED
    BY <1>4, <2>1, <2>2, <2>3, <2>4 DEF SpawnPath
<1> QED
  BY <1>2, <1>3, <1>4

(* Once an event has evicted a task, no replay or candidate that was       *)
(* collected before it passes the final check or parks its old record,     *)
(* however the consumer, the two loops and the restarts are interleaved    *)
(* (removeDeferredEntry moves the epoch that claimStillValid compares).    *)
THEOREM EvictionWins == Spec => EvictionBeatsReplay
<1>1. ASSUME Inv, [Next]_vars
      PROVE  [\A p \in Looping :
                LET item == ps[p].item
                IN  \/ ps[p].pc = "lock" /\ ps'[p].pc = "spawn"
                    \/ /\ ps[p].pc \in {"drive", "lock"}
                       /\ parked'[item.task] \notin {parked[item.task], NoEntry}
                       /\ ps'[p] # ps[p]
                    => evicted[item.task] = item.born]_vars
  <2>1. CASE UNCHANGED vars
    BY <2>1
  <2>2. CASE Next
    <3>1. \A p \in Looping : Beaten(p)
      BY <1>1, <2>2, OthersBeaten, SpawnPathBeaten DEF Next
    <3> QED
      BY <3>1 DEF Beaten
  <2> QED
    BY <1>1, <2>1, <2>2
<1> QED
  BY <1>1, Invariant, PTL DEF Spec, EvictionBeatsReplay

=============================================================================
