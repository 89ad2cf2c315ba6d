-------------------------- MODULE TaskRoutingProofs -------------------------
(***************************************************************************)
(* What TaskRouting promises for every record, every fleet of Configs and  *)
(* every order in which commands are applied or lost and events consumed.  *)
(*                                                                         *)
(* The two filters agree by what they compute.  That a waiting task keeps  *)
(* its place needs an invariant: a stamp that has reached one of the       *)
(* records file, topic, view stays in all the later ones (Onward), and a   *)
(* parked task whose stamp the process does not remember has it in the     *)
(* view, so no second stamp is taken during a wait (Waiting).              *)
(*                                                                         *)
(* The trigger budget is kept by a ledger: every spawn of the present      *)
(* scope is in the file or charged to `uncounted', but for one whose count *)
(* is under way (Accounted), and while the count of another scope is under *)
(* way all of them are charged (Charged).                                  *)
(***************************************************************************)
EXTENDS TaskRouting, FiniteSetTheorems, SequenceTheorems, TLAPS

Fields == DOMAIN FirstRecord

(* A record whose stamp is older than now. *)
GoodRec(rec, now) ==
    /\ rec = [key \in Fields |-> rec[key]]
    /\ rec.queued \in 0..(now - 1)

GoodCmd(cmd, now) ==
    "queued" \in DOMAIN cmd.changes => cmd.changes.queued \in 1..(now - 1)

Records ==
    /\ GoodRec(file, clock)
    /\ GoodRec(view, clock)
    /\ topic \in Seq(Range(topic))
    /\ \A i \in DOMAIN topic : GoodRec(topic[i], clock)
    /\ parked # None => GoodRec(parked, clock)

GoodCmds(seq, now) ==
    /\ seq \in Seq(Range(seq))
    /\ \A i \in DOMAIN seq : GoodCmd(seq[i], now)

Commands == GoodCmds(cmds, clock)

Clocks ==
    /\ clock \in Nat \ {0}
    /\ since \in Nat
    /\ stamp \in 0..(clock - 1)

EditsLeft ==
    /\ left = [kind \in DOMAIN left |-> left[kind]]
    /\ "patch" \in DOMAIN left
    /\ \A patch \in left.patch : "queued" \notin DOMAIN patch

(* A stamp in a record is in every later one: view, topic, file. *)
Onward ==
    /\ view.queued # 0 => file.queued # 0
    /\ \A i \in DOMAIN topic :
          /\ view.queued # 0 => topic[i].queued # 0
          /\ topic[i].queued # 0 => file.queued # 0
          /\ \A j \in DOMAIN topic : i < j /\ topic[i].queued # 0 => topic[j].queued # 0

(* No stamp is taken while the task waits. *)
Waiting ==
    parked # None => /\ parked.queued \in 1..since
                     /\ clock <= since + 1
                     /\ stamp = 0 => view.queued # 0

Inv == Records /\ Commands /\ Clocks /\ EditsLeft /\ Onward /\ Waiting

-----------------------------------------------------------------------------
(* The filters. *)

(* A set of naturals has a least element. *)
LEMMA LeastNatural ==
    ASSUME NEW S, S \subseteq Nat, S # {}
    PROVE  Min(S) \in S
<1>1. \E n \in S : \A m \in S : ~(<<m, n>> \in OpToRel(<, Nat))
  BY NatLessThanWellFounded, WFMin
<1>2. PICK n \in S : \A m \in S : ~(m < n)
  BY <1>1 DEF OpToRel
<1>3. \A m \in S : n <= m
  BY <1>2
<1> QED
  BY <1>3 DEF Min

(* A name some Config has leads to one. *)
LEMMA NamedConfig ==
    ASSUME NEW a \in Assignees
    PROVE  ConfigNamed[a] \in Range(Configs)
<1> DEFINE S == {i \in DOMAIN Configs : Configs[i].assignee = a}
<1>1. DOMAIN Configs = 1..Len(Configs) /\ Len(Configs) \in Nat
  BY ConfigConstants, LenProperties
<1>2. S # {} /\ S \subseteq Nat
  BY <1>1 DEF Assignees, Range
<1>3. Min(S) \in S
  <2> HIDE DEF S
  <2> QED BY <1>2, LeastNatural
<1>4. ConfigNamed[a] = Configs[Min(S)]
  BY DEF ConfigNamed
<1> QED
  BY <1>3, <1>4 DEF Range

(* A name resolves to a Config or to none, never to an ambiguity. *)
LEMMA Resolved ==
    ASSUME NEW name
    PROVE  Resolve(name) \notin {Ambiguous, NoConfig}
<1>1. CASE \E a \in Assignees : Resolve(name) = ConfigNamed[a]
  BY <1>1, NamedConfig, ConfigConstants
<1>2. CASE Resolve(name) = NotFound
  BY <1>2 DEF NotFound, Ambiguous, NoConfig
<1> QED
  BY <1>1, <1>2 DEF Resolve

(* On a record with an assignee the two paths use one Config. *)
LEMMA SameConfig ==
    ASSUME NEW rec, rec.assignee # None
    PROVE  /\ resolveConfigForReconcile(rec) = resolveConfig(rec)
           /\ resolveConfig(rec) # Ambiguous
  BY Resolved DEF resolveConfigForReconcile, resolveConfig

LEMMA FiltersAgreeOn ==
    ASSUME NEW rec, rec.assignee # None
    PROVE  parseAndFilter(rec) = "run" <=> reconcileTask(rec) = "run"
<1>1. PICK config : config = resolveConfig(rec)
  OBVIOUS
<1>2. resolveConfigForReconcile(rec) = config /\ config # Ambiguous
  BY <1>1, SameConfig
<1> QED
  BY <1>1, <1>2 DEF parseAndFilter, reconcileTask

-----------------------------------------------------------------------------
(* Records and commands. *)

(* Time passes. *)
LEMMA LaterRec ==
    ASSUME NEW rec, NEW m \in Nat, NEW n \in Nat, m <= n, GoodRec(rec, m)
    PROVE  GoodRec(rec, n)
  BY DEF GoodRec

(* A write leaves a good record, and takes no stamp away. *)
LEMMA WrittenGood ==
    ASSUME NEW rec, NEW now \in Nat, NEW changes, GoodRec(rec, now),
           "queued" \in DOMAIN changes => changes.queued \in 1..(now - 1)
    PROVE  /\ GoodRec(Written(changes, rec), now)
           /\ rec.queued # 0 => Written(changes, rec).queued # 0
<1>1. PICK new : new = Written(changes, rec)
  OBVIOUS
<1>2. DOMAIN rec = Fields /\ "queued" \in Fields
  BY RoutingConstants DEF GoodRec, Fields
<1>3. new = [key \in Fields |-> IF key \in DOMAIN changes THEN changes[key] ELSE rec[key]]
  BY <1>1, <1>2 DEF Written
<1>4. new = [key \in Fields |-> new[key]]
  BY <1>3
<1>5. new.queued = IF "queued" \in DOMAIN changes THEN changes.queued ELSE rec.queued
  BY <1>2, <1>3
<1>6. new.queued \in 0..(now - 1) /\ (rec.queued # 0 => new.queued # 0)
  BY <1>5 DEF GoodRec
<1> QED
  BY <1>1, <1>4, <1>6 DEF GoodRec

LEMMA AppliedGood ==
    ASSUME NEW cmd, NEW clears, GoodRec(file, clock), GoodCmd(cmd, clock), clock \in Nat
    PROVE  /\ GoodRec(Applied(cmd, clears), clock)
           /\ file.queued # 0 => Applied(cmd, clears).queued # 0
<1>1. CASE cmd.op = "update"
  BY <1>1, WrittenGood DEF Applied, GoodCmd
<1>2. CASE cmd.op # "update"
  <2>1. PICK a : a = IF clears /\ file.max # None /\ file.trig + 1 >= file.max THEN None ELSE file.assignee
    OBVIOUS
  <2>2. PICK mid : mid = [file EXCEPT !.trig = @ + 1]
    OBVIOUS
  <2>3. PICK new : new = [mid EXCEPT !.assignee = a]
    OBVIOUS
  <2>4. DOMAIN file = Fields /\ {"trig", "assignee", "queued"} \subseteq Fields
    BY RoutingConstants DEF GoodRec, Fields
  <2>5. DOMAIN mid = Fields /\ mid.queued = file.queued
    BY <2>2, <2>4
  <2>6. new = [key \in Fields |-> new[key]] /\ new.queued = file.queued
    BY <2>3, <2>4, <2>5
  <2>7. new = Applied(cmd, clears)
    BY <1>2, <2>1, <2>2, <2>3, <2>4 DEF Applied
  <2> QED
    BY <2>6, <2>7 DEF GoodRec
<1> QED
  BY <1>1, <1>2

(* What a queue of commands holds after one is taken or some are added. *)
HoldsRest(rest, seq, i) ==
    /\ \A j \in DOMAIN seq \ {i} : \E k \in DOMAIN rest : rest[k] = seq[j]
    /\ \A k \in DOMAIN rest : \E j \in DOMAIN seq : rest[k] = seq[j]

HoldsAll(sent, seq, msgs) ==
    /\ \A j \in DOMAIN seq : \E k \in DOMAIN sent : sent[k] = seq[j]
    /\ \A j \in DOMAIN msgs : \E k \in DOMAIN sent : sent[k] = msgs[j]
    /\ \A k \in DOMAIN sent : \/ \E j \in DOMAIN seq : sent[k] = seq[j]
                              \/ \E j \in DOMAIN msgs : sent[k] = msgs[j]

LEMMA RestOf ==
    ASSUME NEW S, NEW seq, seq \in Seq(S), NEW i \in DOMAIN seq, NEW rest, rest = RemoveAt(seq, i)
    PROVE  rest \in Seq(S) /\ HoldsRest(rest, seq, i)
<1>1. PICK n : n = Len(seq)
  OBVIOUS
<1>2. n \in Nat /\ DOMAIN seq = 1..n /\ i \in 1..n
  BY <1>1, LenProperties
<1>3. \A k \in 1..n : seq[k] \in S
  BY <1>2, ElementOfSeq
<1>4. PICK a, b : a = SubSeq(seq, 1, i - 1) /\ b = SubSeq(seq, i + 1, n)
  OBVIOUS
<1>5. /\ a \in Seq(S)
      /\ Len(a) = i - 1
      /\ \A k \in 1..(i - 1) : a[k] = seq[k]
  <2>1. \A k \in 1..(i - 1) : seq[k] \in S
    BY <1>2, <1>3
  <2>2. /\ a \in Seq(S)
        /\ Len(a) = IF 1 <= i - 1 THEN (i - 1) - 1 + 1 ELSE 0
        /\ \A k \in 1..((i - 1) - 1 + 1) : a[k] = seq[1 + k - 1]
    BY <1>2, <1>4, <2>1, SubSeqProperties
  <2> QED BY <1>2, <2>2
<1>6. /\ b \in Seq(S)
      /\ Len(b) = n - i
      /\ \A k \in 1..(n - i) : b[k] = seq[i + k]
  <2>1. \A k \in (i + 1)..n : seq[k] \in S
    BY <1>2, <1>3
  <2>2. /\ b \in Seq(S)
        /\ Len(b) = IF i + 1 <= n THEN n - (i + 1) + 1 ELSE 0
        /\ \A k \in 1..(n - (i + 1) + 1) : b[k] = seq[(i + 1) + k - 1]
    BY <1>2, <1>4, <2>1, SubSeqProperties
  <2>3. Len(b) = n - i
    BY <1>2, <2>2
  <2>4. \A k \in 1..(n - i) : b[k] = seq[i + k]
    <3> TAKE k \in 1..(n - i)
    <3>1. k \in 1..(n - (i + 1) + 1) /\ (i + 1) + k - 1 = i + k
      BY <1>2
    <3> QED BY <2>2, <3>1
  <2> QED BY <2>2, <2>3, <2>4
<1>7. /\ rest \in Seq(S)
      /\ Len(rest) = n - 1
      /\ \A k \in 1..(n - 1) : rest[k] = IF k <= i - 1 THEN a[k] ELSE b[k - (i - 1)]
  <2>1. /\ rest \in Seq(S)
        /\ Len(rest) = Len(a) + Len(b)
        /\ \A k \in 1..(Len(a) + Len(b)) : rest[k] = IF k <= Len(a) THEN a[k] ELSE b[k - Len(a)]
    <3>1. rest = a \o b
      BY <1>1, <1>4 DEF RemoveAt
    <3> QED BY <1>5, <1>6, <3>1, ConcatProperties
  <2>2. (i - 1) + (n - i) = n - 1 /\ i - 1 \in Int /\ n - i \in Int
    BY <1>2
  <2> QED BY <1>5, <1>6, <2>1, <2>2
<1>8. DOMAIN rest = 1..(n - 1)
  BY <1>7, LenProperties
<1>9. \A k \in 1..(n - 1) : k <= i - 1 => k \in 1..n /\ rest[k] = seq[k]
  BY <1>2, <1>5, <1>7
<1>10. ASSUME NEW k \in 1..(n - 1), ~(k <= i - 1)
       PROVE  k + 1 \in 1..n /\ rest[k] = seq[k + 1]
  <2>1. PICK j : j = k - (i - 1)
    OBVIOUS
  <2>2. j \in 1..(n - i) /\ i + j = k + 1 /\ k + 1 \in 1..n
    BY <1>2, <1>10, <2>1
  <2>3. rest[k] = b[j]
    BY <1>2, <1>7, <1>10, <2>1
  <2> QED BY <1>6, <2>2, <2>3
<1>11. \A k \in DOMAIN rest : \E j \in DOMAIN seq : rest[k] = seq[j]
  BY <1>2, <1>8, <1>9, <1>10
<1>12. ASSUME NEW j \in 1..n, j # i
       PROVE  \E k \in 1..(n - 1) : rest[k] = seq[j]
  <2>1. CASE j < i
    <3>1. j \in 1..(n - 1) /\ j <= i - 1
      BY <1>2, <2>1
    <3> QED BY <1>9, <3>1
  <2>2. CASE j > i
    <3>1. PICK k : k = j - 1
      OBVIOUS
    <3>2. k \in 1..(n - 1) /\ ~(k <= i - 1) /\ k + 1 = j
      BY <1>2, <2>2, <3>1
    <3> QED BY <1>10, <3>2
  <2> QED BY <1>2, <1>12, <2>1, <2>2
<1> QED
  BY <1>2, <1>7, <1>8, <1>11, <1>12 DEF HoldsRest

LEMMA AllOf ==
    ASSUME NEW S, NEW seq, seq \in Seq(S), NEW msgs, msgs \in Seq(S), NEW sent, sent = seq \o msgs
    PROVE  sent \in Seq(S) /\ HoldsAll(sent, seq, msgs)
<1>1. PICK k, l : k = Len(seq) /\ l = Len(msgs)
  OBVIOUS
<1>2. /\ sent \in Seq(S)
      /\ Len(sent) = Len(seq) + Len(msgs)
      /\ \A i \in 1..(Len(seq) + Len(msgs)) :
            sent[i] = IF i <= Len(seq) THEN seq[i] ELSE msgs[i - Len(seq)]
  BY ConcatProperties
<1>3. /\ k \in Nat /\ DOMAIN seq = 1..k
      /\ l \in Nat /\ DOMAIN msgs = 1..l
      /\ DOMAIN sent = 1..(k + l)
  BY <1>1, <1>2, LenProperties
<1>4. \A i \in 1..(k + l) : sent[i] = IF i <= k THEN seq[i] ELSE msgs[i - k]
  BY <1>1, <1>2
<1>5. \A j \in 1..k : \E i \in 1..(k + l) : sent[i] = seq[j]
  <2> TAKE j \in 1..k
  <2>1. j \in 1..(k + l) /\ j <= k
    BY <1>3
  <2> QED BY <1>4, <2>1
<1>6. \A j \in 1..l : \E i \in 1..(k + l) : sent[i] = msgs[j]
  <2> TAKE j \in 1..l
  <2>1. PICK i : i = k + j
    OBVIOUS
  <2>2. i \in 1..(k + l) /\ ~(i <= k) /\ i - k = j
    BY <1>3, <2>1
  <2> QED BY <1>4, <2>2
<1>7. \A i \in 1..(k + l) : \/ \E j \in 1..k : sent[i] = seq[j]
                           \/ \E j \in 1..l : sent[i] = msgs[j]
  <2> TAKE i \in 1..(k + l)
  <2>1. CASE i <= k
    <3>1. i \in 1..k
      BY <1>3, <2>1
    <3> QED BY <1>4, <2>1, <3>1
  <2>2. CASE ~(i <= k)
    <3>1. i - k \in 1..l
      BY <1>3, <2>2
    <3> QED BY <1>4, <2>2, <3>1
  <2> QED BY <2>1, <2>2
<1>8. \A j \in DOMAIN seq : \E i \in DOMAIN sent : sent[i] = seq[j]
  BY <1>3, <1>5
<1>9. \A j \in DOMAIN msgs : \E i \in DOMAIN sent : sent[i] = msgs[j]
  BY <1>3, <1>6
<1>10. \A i \in DOMAIN sent : \/ \E j \in DOMAIN seq : sent[i] = seq[j]
                              \/ \E j \in DOMAIN msgs : sent[i] = msgs[j]
  BY <1>3, <1>7
<1> QED
  BY <1>2, <1>8, <1>9, <1>10 DEF HoldsAll

LEMMA SentAll ==
    ASSUME NEW seq, NEW m \in Nat, NEW n \in Nat, m <= n, GoodCmds(seq, m),
           NEW msgs, GoodCmds(msgs, n)
    PROVE  GoodCmds(seq \o msgs, n) /\ HoldsAll(seq \o msgs, seq, msgs)
<1>1. PICK S : S = Range(seq) \union Range(msgs)
  OBVIOUS
<1>2. seq \in Seq(S) /\ msgs \in Seq(S)
  BY <1>1, SeqMonotonic DEF GoodCmds
<1>3. PICK sent : sent = seq \o msgs
  OBVIOUS
<1>4. sent \in Seq(S) /\ HoldsAll(sent, seq, msgs)
  BY <1>2, <1>3, AllOf
<1>5. \A i \in DOMAIN seq : GoodCmd(seq[i], n)
  BY DEF GoodCmds, GoodCmd
<1>6. \A k \in DOMAIN sent : GoodCmd(sent[k], n)
  BY <1>4, <1>5 DEF GoodCmds, HoldsAll
<1>7. sent \in Seq(Range(sent))
  BY <1>4, SeqOfRange
<1> QED
  BY <1>3, <1>4, <1>6, <1>7 DEF GoodCmds

LEMMA SentOne ==
    ASSUME NEW seq, NEW m \in Nat, NEW n \in Nat, m <= n, GoodCmds(seq, m), NEW cmd, GoodCmd(cmd, n)
    PROVE  GoodCmds(seq \o <<cmd>>, n) /\ HoldsAll(seq \o <<cmd>>, seq, <<cmd>>)
<1>1. PICK msgs : msgs = <<cmd>>
  OBVIOUS
<1>2. msgs \in Seq({cmd}) /\ DOMAIN msgs = {1} /\ msgs[1] = cmd
  BY <1>1
<1>3. GoodCmds(msgs, n)
  BY <1>2, SeqOfRange DEF GoodCmds
<1> QED
  BY <1>1, <1>3, SentAll

LEMMA SentTwo ==
    ASSUME NEW seq, NEW now \in Nat, GoodCmds(seq, now),
           NEW c, GoodCmd(c, now), NEW d, GoodCmd(d, now)
    PROVE  GoodCmds(seq \o <<c, d>>, now) /\ HoldsAll(seq \o <<c, d>>, seq, <<c, d>>)
<1>1. PICK msgs : msgs = <<c, d>>
  OBVIOUS
<1>2. msgs \in Seq({c, d}) /\ DOMAIN msgs = {1, 2} /\ msgs[1] = c /\ msgs[2] = d
  BY <1>1
<1>3. GoodCmds(msgs, now)
  BY <1>2, SeqOfRange DEF GoodCmds
<1> QED
  BY <1>1, <1>3, SentAll

LEMMA Taken ==
    ASSUME NEW seq, NEW now, GoodCmds(seq, now), NEW i \in DOMAIN seq
    PROVE  GoodCmds(RemoveAt(seq, i), now) /\ HoldsRest(RemoveAt(seq, i), seq, i)
<1>1. PICK rest : rest = RemoveAt(seq, i)
  OBVIOUS
<1>2. PICK S : S = Range(seq)
  OBVIOUS
<1>3. rest \in Seq(S) /\ HoldsRest(rest, seq, i)
  BY <1>1, <1>2, RestOf DEF GoodCmds
<1>4. \A k \in DOMAIN rest : GoodCmd(rest[k], now)
  BY <1>3 DEF GoodCmds, HoldsRest
<1>5. rest \in Seq(Range(rest))
  BY <1>3, SeqOfRange
<1> QED
  BY <1>1, <1>3, <1>4, <1>5 DEF GoodCmds

(* No command but the queue entry writes a stamp. *)
LEMMA NoStamp ==
    /\ \A now : GoodCmd(PublishIncrementTriggerCount, now)
    /\ \A now, task : GoodCmd(PublishTypeMismatchFailure(task), now)
    /\ \A now, a : GoodCmd(PublishRestoreAssignee(a), now)
    /\ \A now, key : GoodCmd(PublishTriggerBudgetRefusal(key), now)
    /\ \A now, task : GoodCmd(recordTriggerSpawn(task), now)
    /\ \A now, task, class : GoodCmd(Update(crashFailureUpdates(task, class)), now)
<1>1. \A now : GoodCmd(PublishIncrementTriggerCount, now)
  BY DEF GoodCmd, PublishIncrementTriggerCount, Increment
<1>2. \A now, task : GoodCmd(PublishTypeMismatchFailure(task), now)
  BY DEF GoodCmd, PublishTypeMismatchFailure, Update
<1>3. \A now, a : GoodCmd(PublishRestoreAssignee(a), now)
  BY DEF GoodCmd, PublishRestoreAssignee, Update
<1>4. \A now, key : GoodCmd(PublishTriggerBudgetRefusal(key), now)
  BY DEF GoodCmd, PublishTriggerBudgetRefusal, Update
<1>5. \A now, write : GoodCmd(PublishSetTriggerScope(write), now)
  BY DEF GoodCmd, PublishSetTriggerScope, Update
<1>6. \A now, task : GoodCmd(recordTriggerSpawn(task), now)
  BY <1>1, <1>5 DEF recordTriggerSpawn
<1>7. \A now, task, class : GoodCmd(Update(crashFailureUpdates(task, class)), now)
  BY DEF GoodCmd, Update, crashFailureUpdates
<1> QED
  BY <1>1, <1>2, <1>3, <1>4, <1>6, <1>7

LEMMA StampSent ==
    ASSUME NEW at \in Nat \ {0}
    PROVE  GoodCmd(PublishQueueEntry(at), at + 1)
  BY DEF GoodCmd, PublishQueueEntry, Update

LEMMA Spent ==
    ASSUME NEW kind, kind # "patch", EditsLeft, Spend(kind)
    PROVE  EditsLeft'
  BY DEF EditsLeft, Spend

-----------------------------------------------------------------------------
(* The spawn path. *)

(* The place of a task in the queue: a stamp that is known to the record,  *)
(* the view or the process, or else a new one.                             *)
LEMMA StampTaken ==
    ASSUME Clocks, NEW rec, GoodRec(rec, clock), GoodRec(view', clock)
    PROVE  /\ stampQueueEntry(rec) \in 1..clock
           /\ stampQueueEntry(rec) = clock => rec.queued = 0 /\ view'.queued = 0 /\ stamp = 0
           /\ stampQueueEntry(rec) # clock => rec.queued # 0 \/ view'.queued # 0 \/ stamp # 0
  BY DEF Clocks, GoodRec, stampQueueEntry, queuedAtFromView

(* What a goroutine starts the spawn path with: by is who it is, rec the   *)
(* record, entry what stays parked meanwhile.                              *)
Drives(rec, entry, by) ==
    /\ GoodRec(rec, clock)
    /\ GoodRec(view', clock)
    /\ parked # None /\ stamp = 0 => view'.queued # 0
    /\ by = "deferred" => parked # None /\ rec = parked /\ entry = None
    /\ by # "deferred" => rec = view' /\ entry = parked

(* What it leaves. *)
Driven ==
    /\ GoodCmds(cmds', clock')
    /\ Clocks'
    /\ EditsLeft'
    /\ clock <= clock'
    /\ parked' # None => GoodRec(parked', clock')
    /\ Waiting'

(* Everything but the parked entry, the stamps and the commands stays. *)
LEMMA DrivenQuietly ==
    ASSUME Inv, GoodRec(view', clock), parked # None /\ stamp = 0 => view'.queued # 0,
           UNCHANGED <<clock, since>>, EditsLeft', GoodCmds(cmds', clock),
           parked' \in {parked, None},
           stamp' \in {stamp, 0}, parked' # None => stamp' = stamp
    PROVE  Driven
<1>1. Clocks'
  BY DEF Inv, Clocks
<1>2. parked' # None => GoodRec(parked', clock')
  BY DEF Inv, Records
<1>3. Waiting'
  BY DEF Inv, Waiting
<1>4. clock <= clock'
  BY DEF Inv, Clocks
<1> QED
  BY <1>1, <1>2, <1>3, <1>4 DEF Driven

LEMMA ParkDrives ==
    ASSUME Inv, NEW rec, NEW entry, NEW by, Drives(rec, entry, by), Park(rec, entry, by)
    PROVE  Driven
<1>1. PICK at : at = stampQueueEntry(rec)
  OBVIOUS
<1>2. /\ Spend("full")
      /\ parked' = IF by # "event" /\ entry # None THEN entry ELSE [rec EXCEPT !.queued = at]
      /\ stamp' = IF at = clock THEN at ELSE stamp
      /\ clock' = IF at = clock THEN clock + 1 ELSE clock
      /\ since' = IF parked = None THEN clock ELSE since
      /\ cmds' = IF at = clock THEN cmds \o <<PublishQueueEntry(at)>> ELSE cmds
  BY <1>1 DEF Park, recordQueuedAtStamp, Send, NothingSent
<1>3. /\ at \in 1..clock
      /\ at = clock => rec.queued = 0 /\ view'.queued = 0 /\ stamp = 0
      /\ at # clock => rec.queued # 0 \/ view'.queued # 0 \/ stamp # 0
  BY <1>1, StampTaken DEF Inv, Drives
<1>4. EditsLeft'
  BY <1>2, Spent DEF Inv
<1>5. at = clock => parked = None
  BY <1>3 DEF Inv, Waiting, Drives
<1>6. clock \in Nat \ {0} /\ since \in Nat /\ stamp \in 0..(clock - 1)
  BY DEF Inv, Clocks
<1>7. clock <= clock' /\ Clocks'
  BY <1>2, <1>3, <1>6 DEF Clocks
<1>8. GoodCmds(cmds', clock')
  <2>1. CASE at = clock
    <3>1. GoodCmd(PublishQueueEntry(at), clock')
      BY <1>2, <1>6, <2>1, StampSent
    <3>2. clock' \in Nat /\ GoodCmds(cmds, clock)
      BY <1>7 DEF Inv, Commands, Clocks
    <3>3. GoodCmds(cmds \o <<PublishQueueEntry(at)>>, clock')
      BY <1>6, <1>7, <3>1, <3>2, SentOne
    <3> QED BY <1>2, <2>1, <3>3
  <2>2. CASE at # clock
    BY <1>2, <2>2 DEF Inv, Commands
  <2> QED BY <2>1, <2>2
<1>9. PICK own : own = [rec EXCEPT !.queued = at]
  OBVIOUS
<1>10. own.queued = at /\ own = [key \in Fields |-> own[key]]
  BY <1>9, RoutingConstants DEF Drives, GoodRec, Fields
<1>11. GoodRec(own, clock')
  BY <1>2, <1>3, <1>6, <1>10 DEF GoodRec
<1>12. parked' = own \/ (parked' = parked /\ parked # None)
  BY <1>2, <1>9 DEF Drives
<1>13. parked' # None => GoodRec(parked', clock')
  BY <1>6, <1>7, <1>11, <1>12, LaterRec DEF Inv, Records, Clocks
<1>14. Waiting'
  <2>1. CASE parked = None
    <3>1. parked'.queued \in 1..since' /\ clock' <= since' + 1
      BY <1>2, <1>3, <1>6, <1>10, <1>12, <2>1
    <3>2. stamp' = 0 => view'.queued # 0
      BY <1>2, <1>3, <1>6, <2>1 DEF Drives
    <3> QED BY <3>1, <3>2 DEF Waiting
  <2>2. CASE parked # None
    <3>1. at # clock /\ clock' = clock /\ since' = since /\ stamp' = stamp
      BY <1>2, <1>5, <2>2
    <3>2. clock <= since + 1 /\ parked.queued \in 1..since
      BY <2>2 DEF Inv, Waiting
    <3>3. parked'.queued \in 1..since'
      BY <1>3, <1>6, <1>10, <1>12, <3>1, <3>2
    <3>4. stamp' = 0 => view'.queued # 0
      BY <2>2, <3>1 DEF Drives
    <3> QED BY <3>1, <3>2, <3>3, <3>4 DEF Waiting
  <2> QED BY <2>1, <2>2
<1> QED
  BY <1>4, <1>7, <1>8, <1>13, <1>14 DEF Driven

LEMMA DriveKeeps ==
    ASSUME Inv, NEW rec, NEW entry, NEW by, NEW full, Drives(rec, entry, by), Drive(rec, entry, by, full)
    PROVE  Driven
<1>1. /\ GoodRec(view', clock)
      /\ parked # None /\ stamp = 0 => view'.queued # 0
      /\ entry \in {parked, None}
      /\ by = "deferred" => entry = None
  BY DEF Drives
<1>2. clock \in Nat /\ GoodCmds(cmds, clock) /\ EditsLeft
  BY DEF Inv, Clocks, Commands
<1>3. CASE parked' = entry /\ clearQueuedAtStampIfNotDeferred(by, entry) /\ NothingSent
           /\ UNCHANGED <<running, told, clock, since, history, left>>
  <2>1. EditsLeft' /\ GoodCmds(cmds', clock)
    BY <1>2, <1>3 DEF EditsLeft, NothingSent
  <2>2. stamp' \in {stamp, 0} /\ (parked' # None => stamp' = stamp)
    BY <1>3 DEF clearQueuedAtStampIfNotDeferred
  <2> QED BY <1>1, <1>3, <2>1, <2>2, DrivenQuietly
<1>4. CASE Park(rec, entry, by)
  BY <1>4, ParkDrives
<1>5. CASE /\ parked' = entry
           /\ clearQueuedAtStampIfNotDeferred(by, entry)
           /\ \/ triggerBudgetRefusesSpawn(rec) /\ UNCHANGED <<running, history, left>>
              \/ SpawnJob(rec) /\ UNCHANGED told
              \/ OutOfRuns(rec) /\ NothingSent /\ UNCHANGED <<running, told, history, left>>
           /\ UNCHANGED <<clock, since>>
  <2>1. EditsLeft'
    <3>1. CASE left' = left
      BY <1>2, <3>1 DEF EditsLeft
    <3>2. CASE Spend("run")
      BY <1>2, <3>2, Spent
    <3> QED BY <1>5, <3>1, <3>2 DEF SpawnJob
  <2>2. GoodCmds(cmds', clock)
    <3>1. CASE cmds' = cmds
      BY <1>2, <3>1
    <3>2. CASE cmds' = cmds \o <<PublishTriggerBudgetRefusal(RefusalKey(rec))>>
      BY <1>2, <3>2, NoStamp, SentOne
    <3>3. CASE cmds' = cmds \o <<recordTriggerSpawn(rec)>>
      BY <1>2, <3>3, NoStamp, SentOne
    <3> QED
      BY <1>5, <3>1, <3>2, <3>3
         DEF triggerBudgetRefusesSpawn, recordTriggerRefusal, SpawnJob, Send, NothingSent
  <2>3. stamp' \in {stamp, 0} /\ (parked' # None => stamp' = stamp)
    BY <1>5 DEF clearQueuedAtStampIfNotDeferred
  <2> QED BY <1>1, <1>5, <2>1, <2>2, <2>3, DrivenQuietly
<1> QED
  BY <1>3, <1>4, <1>5 DEF Drive

(* The task leaves the queue or stays, and at most one command is sent. *)
LEMMA StaysDriven ==
    ASSUME Inv, GoodRec(view', clock), parked # None /\ stamp = 0 => view'.queued # 0, Stays,
           removeDeferredEntry \/ UNCHANGED <<parked, stamp>>,
           NEW cmd, GoodCmd(cmd, clock), NothingSent \/ Send(<<cmd>>)
    PROVE  Driven
<1>1. clock \in Nat /\ GoodCmds(cmds, clock) /\ EditsLeft
  BY DEF Inv, Clocks, Commands
<1>2. UNCHANGED <<clock, since>> /\ EditsLeft'
  BY <1>1 DEF Stays, EditsLeft
<1>3. GoodCmds(cmds', clock)
  <2>1. CASE cmds' = cmds
    BY <1>1, <2>1
  <2>2. CASE cmds' = cmds \o <<cmd>>
    BY <1>1, <2>2, SentOne
  <2> QED BY <2>1, <2>2 DEF NothingSent, Send
<1>4. /\ parked' \in {parked, None}
      /\ stamp' \in {stamp, 0}
      /\ parked' # None => stamp' = stamp
  BY DEF removeDeferredEntry
<1> QED
  BY <1>2, <1>3, <1>4, DrivenQuietly

-----------------------------------------------------------------------------
(* The way of a record: file, topic, view. *)

(* A change of the record is published. *)
LEMMA Published ==
    ASSUME Inv, GoodRec(file', clock), file.queued # 0 => file'.queued # 0,
           topic' \in {topic, Append(topic, file')},
           UNCHANGED <<view, parked, stamp, clock, since>>
    PROVE  Records' /\ Clocks' /\ Onward' /\ Waiting'
<1>1. PICK n : n = Len(topic)
  OBVIOUS
<1>2. topic \in Seq(Range(topic)) /\ n \in Nat /\ DOMAIN topic = 1..n
  BY <1>1, LenProperties DEF Inv, Records
<1>3. /\ topic' \in Seq(Range(topic'))
      /\ \A i \in DOMAIN topic' : \/ i \in 1..n /\ topic'[i] = topic[i]
                                  \/ i = n + 1 /\ topic'[i] = file'
  <2>1. CASE topic' = topic
    BY <1>2, <2>1
  <2>2. CASE topic' = Append(topic, file')
    <3>1. PICK new, S : new = topic' /\ S = Range(topic) \union {file'}
      OBVIOUS
    <3>2. topic \in Seq(S) /\ file' \in S
      BY <1>2, <3>1, SeqMonotonic
    <3>3. /\ new \in Seq(S)
          /\ Len(new) = n + 1
          /\ \A i \in 1..n : new[i] = topic[i]
          /\ new[n + 1] = file'
      BY <1>1, <2>2, <3>1, <3>2, AppendProperties
    <3>4. DOMAIN new = 1..(n + 1) /\ new \in Seq(Range(new))
      BY <3>3, LenProperties, SeqOfRange
    <3> QED BY <1>2, <3>1, <3>3, <3>4
  <2> QED BY <2>1, <2>2
<1>4. \A i \in DOMAIN topic' : GoodRec(topic'[i], clock)
  BY <1>2, <1>3 DEF Inv, Records
<1>5. Records'
  BY <1>3, <1>4 DEF Inv, Records
<1>6. view.queued # 0 => file.queued # 0
  BY DEF Inv, Onward
<1>7. ASSUME NEW i \in DOMAIN topic'
      PROVE  /\ view.queued # 0 => topic'[i].queued # 0
             /\ topic'[i].queued # 0 => file'.queued # 0
  BY <1>2, <1>3, <1>6 DEF Inv, Onward
<1>8. ASSUME NEW i \in DOMAIN topic', NEW j \in DOMAIN topic', i < j, topic'[i].queued # 0
      PROVE  topic'[j].queued # 0
  <2>1. i \in 1..n /\ topic'[i] = topic[i]
    BY <1>2, <1>3, <1>8
  <2>2. CASE j \in 1..n /\ topic'[j] = topic[j]
    BY <1>2, <1>8, <2>1, <2>2 DEF Inv, Onward
  <2>3. CASE topic'[j] = file'
    BY <1>7, <1>8, <2>3
  <2> QED BY <1>3, <2>2, <2>3
<1>9. Onward'
  BY <1>6, <1>7, <1>8 DEF Onward
<1>10. Waiting' /\ Clocks'
  BY DEF Inv, Waiting, Clocks
<1> QED
  BY <1>5, <1>9, <1>10

(* The oldest record of the topic is consumed. *)
LEMMA Consumed ==
    ASSUME Inv, topic # <<>>, topic' = Tail(topic), view' = Head(topic), file' = file
    PROVE  /\ GoodRec(view', clock)
           /\ view.queued # 0 => view'.queued # 0
           /\ topic' \in Seq(Range(topic'))
           /\ \A i \in DOMAIN topic' : GoodRec(topic'[i], clock)
           /\ Onward'
<1>1. PICK n : n = Len(topic)
  OBVIOUS
<1>2. PICK S : S = Range(topic)
  OBVIOUS
<1>3. topic \in Seq(S) /\ n \in Nat /\ DOMAIN topic = 1..n
  BY <1>1, <1>2, LenProperties DEF Inv, Records
<1>4. n # 0
  BY <1>1, <1>3, EmptySeq
<1>5. PICK new : new = topic'
  OBVIOUS
<1>6. /\ view' = topic[1]
      /\ new \in Seq(S)
      /\ Len(new) = n - 1
      /\ \A i \in 1..(n - 1) : new[i] = topic[i + 1]
  BY <1>1, <1>3, <1>5, HeadTailProperties
<1>7. DOMAIN new = 1..(n - 1) /\ new \in Seq(Range(new))
  BY <1>6, LenProperties, SeqOfRange
<1>8. 1 \in DOMAIN topic /\ \A i \in DOMAIN new : i + 1 \in DOMAIN topic /\ 1 < i + 1
  BY <1>3, <1>4, <1>7
<1>9. GoodRec(view', clock) /\ (view.queued # 0 => view'.queued # 0)
  BY <1>6, <1>8 DEF Inv, Records, Onward
<1>10. \A i \in DOMAIN new : GoodRec(new[i], clock)
  BY <1>6, <1>7, <1>8 DEF Inv, Records
<1>11. view'.queued # 0 => file.queued # 0
  BY <1>6, <1>8 DEF Inv, Onward
<1>12. ASSUME NEW i \in DOMAIN new
       PROVE  /\ view'.queued # 0 => new[i].queued # 0
              /\ new[i].queued # 0 => file.queued # 0
  BY <1>6, <1>7, <1>8 DEF Inv, Onward
<1>13. ASSUME NEW i \in DOMAIN new, NEW j \in DOMAIN new, i < j, new[i].queued # 0
       PROVE  new[j].queued # 0
  <2>1. PICK k, l : k = i + 1 /\ l = j + 1
    OBVIOUS
  <2>2. k \in DOMAIN topic /\ l \in DOMAIN topic /\ k < l
    BY <1>7, <1>8, <1>13, <2>1
  <2>3. new[i] = topic[k] /\ new[j] = topic[l]
    BY <1>6, <1>7, <2>1
  <2> QED BY <1>13, <2>2, <2>3 DEF Inv, Onward
<1>14. Onward'
  BY <1>5, <1>11, <1>12, <1>13 DEF Onward
<1> QED
  BY <1>5, <1>7, <1>9, <1>10, <1>14

(* The spawn path and the records together. *)
LEMMA DrivenInv ==
    ASSUME Inv, Driven, file' = file, GoodRec(view', clock), Onward',
           topic' \in Seq(Range(topic')), \A i \in DOMAIN topic' : GoodRec(topic'[i], clock)
    PROVE  Inv'
<1>1. clock \in Nat /\ clock' \in Nat /\ clock <= clock'
  BY DEF Inv, Driven, Clocks
<1>2. GoodRec(file', clock') /\ GoodRec(view', clock')
  BY <1>1, LaterRec DEF Inv, Records
<1>3. \A i \in DOMAIN topic' : GoodRec(topic'[i], clock')
  BY <1>1, LaterRec
<1>4. Records'
  BY <1>2, <1>3 DEF Driven, Records
<1> QED
  BY <1>4 DEF Inv, Driven, Commands

LEMMA SameRecords ==
    ASSUME Inv, UNCHANGED <<file, topic, view>>
    PROVE  /\ GoodRec(view', clock)
           /\ topic' \in Seq(Range(topic'))
           /\ \A i \in DOMAIN topic' : GoodRec(topic'[i], clock)
           /\ Onward'
           /\ parked # None /\ stamp = 0 => view'.queued # 0
  BY DEF Inv, Records, Onward, Waiting

-----------------------------------------------------------------------------
(* The actions, one by one. *)

LEMMA InitInv == Init => Inv
<1> SUFFICES ASSUME Init PROVE Inv
  OBVIOUS
<1>1. GoodRec(FirstRecord, 1)
  BY RoutingConstants DEF GoodRec, Fields
<1>2. topic \in Seq({FirstRecord}) /\ DOMAIN topic = {1} /\ topic[1] = FirstRecord
  BY DEF Init
<1>3. Records
  BY <1>1, <1>2, SeqOfRange DEF Init, Records
<1>4. Commands
  <2>1. cmds \in Seq({}) /\ DOMAIN cmds = {}
    BY DEF Init
  <2> QED BY <2>1, SeqOfRange DEF Commands, GoodCmds
<1>5. Clocks /\ EditsLeft /\ Waiting
  BY RoutingConstants DEF Init, Clocks, EditsLeft, Waiting
<1>6. Onward
  BY <1>2, RoutingConstants DEF Init, Onward
<1> QED
  BY <1>3, <1>4, <1>5, <1>6 DEF Inv

LEMMA ApplyInv ==
    ASSUME Inv, NEW i \in DOMAIN cmds, NEW clears, ApplyCommand(i, clears)
    PROVE  Inv'
<1>1. GoodCmd(cmds[i], clock) /\ clock \in Nat /\ GoodRec(file, clock)
  BY DEF Inv, Commands, GoodCmds, Clocks, Records
<1>2. GoodRec(file', clock) /\ (file.queued # 0 => file'.queued # 0)
  BY <1>1, AppliedGood DEF ApplyCommand
<1>3. Records' /\ Clocks' /\ Onward' /\ Waiting'
  BY <1>2, Published DEF ApplyCommand, memory
<1>4. Commands'
  BY Taken DEF Inv, Commands, ApplyCommand
<1>5. EditsLeft'
  BY DEF Inv, EditsLeft, ApplyCommand
<1> QED
  BY <1>3, <1>4, <1>5 DEF Inv

LEMMA LoseInv ==
    ASSUME Inv, NEW i \in DOMAIN cmds, LoseCommand(i)
    PROVE  Inv'
<1>1. Commands'
  BY Taken DEF Inv, Commands, LoseCommand
<1>2. EditsLeft'
  BY Spent DEF Inv, LoseCommand
<1>3. Records' /\ Clocks' /\ Onward' /\ Waiting'
  BY DEF Inv, Records, Clocks, Onward, Waiting, LoseCommand, memory
<1> QED
  BY <1>1, <1>2, <1>3 DEF Inv

LEMMA EditInv ==
    ASSUME Inv, NEW patch \in left.patch, EditTask(patch)
    PROVE  Inv'
<1>1. clock \in Nat /\ GoodRec(file, clock) /\ "queued" \notin DOMAIN patch
  BY DEF Inv, Clocks, Records, EditsLeft
<1>2. GoodRec(file', clock) /\ (file.queued # 0 => file'.queued # 0)
  BY <1>1, WrittenGood DEF EditTask
<1>3. Records' /\ Clocks' /\ Onward' /\ Waiting'
  BY <1>2, Published DEF EditTask, memory
<1>4. Commands'
  BY DEF Inv, Commands, EditTask
<1>5. EditsLeft'
  BY DEF Inv, EditsLeft, EditTask
<1> QED
  BY <1>3, <1>4, <1>5 DEF Inv

LEMMA JobEndsInv ==
    ASSUME Inv, NEW class, JobEnds(class)
    PROVE  Inv'
<1>1. clock \in Nat /\ GoodCmds(cmds, clock) /\ clock' = clock
  BY DEF Inv, Clocks, Commands, JobEnds
<1>2. Commands'
  <2>1. CASE cmds' = cmds
    BY <1>1, <2>1 DEF Commands
  <2>2. CASE cmds' = cmds \o <<Update(crashFailureUpdates(running, class)), PublishIncrementTriggerCount>>
    BY <1>1, <2>2, NoStamp, SentTwo DEF Commands
  <2> QED BY <2>1, <2>2 DEF JobEnds, NothingSent, Send
<1>3. EditsLeft'
  <2>1. CASE left' = left
    BY <2>1 DEF Inv, EditsLeft
  <2>2. CASE Spend("crash")
    BY <2>2, Spent DEF Inv
  <2> QED BY <2>1, <2>2 DEF JobEnds
<1>4. Records' /\ Clocks' /\ Onward' /\ Waiting'
  BY DEF Inv, Records, Clocks, Onward, Waiting, JobEnds, memory
<1> QED
  BY <1>2, <1>3, <1>4 DEF Inv

LEMMA ConsumeInv ==
    ASSUME Inv, NEW full, ConsumeMessage(full)
    PROVE  Inv'
<1>1. PICK rec : rec = Head(topic)
  OBVIOUS
<1>2. topic # <<>> /\ topic' = Tail(topic) /\ view' = rec /\ file' = file
  BY <1>1 DEF ConsumeMessage
<1>3. /\ GoodRec(view', clock)
      /\ view.queued # 0 => view'.queued # 0
      /\ topic' \in Seq(Range(topic'))
      /\ \A i \in DOMAIN topic' : GoodRec(topic'[i], clock)
      /\ Onward'
  BY <1>1, <1>2, Consumed
<1>4. parked # None /\ stamp = 0 => view'.queued # 0
  BY <1>3 DEF Inv, Waiting
<1>5. Driven
  <2>1. CASE Drive(rec, parked, "event", full)
    <3>1. Drives(rec, parked, "event")
      BY <1>2, <1>3, <1>4 DEF Drives
    <3> QED BY <2>1, <3>1, DriveKeeps
  <2>2. CASE NothingSent /\ UNCHANGED <<parked, stamp>> /\ Stays
    BY <1>3, <1>4, <2>2, NoStamp, StaysDriven
  <2>3. CASE Send(<<PublishTypeMismatchFailure(rec)>>) /\ removeDeferredEntry /\ Stays
    <3>1. GoodCmd(PublishTypeMismatchFailure(rec), clock)
      BY NoStamp
    <3> QED BY <1>3, <1>4, <2>3, <3>1, StaysDriven
  <2>4. CASE removeDeferredEntry /\ NothingSent /\ Stays
    BY <1>3, <1>4, <2>4, NoStamp, StaysDriven
  <2> QED BY <1>1, <2>1, <2>2, <2>3, <2>4 DEF ConsumeMessage
<1> QED
  BY <1>2, <1>3, <1>5, DrivenInv

LEMMA ReconcileInv ==
    ASSUME Inv, NEW full, ReconcileOnce(full)
    PROVE  Inv'
<1>1. UNCHANGED <<file, topic, view>>
  BY DEF ReconcileOnce
<1>2. /\ GoodRec(view', clock)
      /\ topic' \in Seq(Range(topic'))
      /\ \A i \in DOMAIN topic' : GoodRec(topic'[i], clock)
      /\ Onward'
      /\ parked # None /\ stamp = 0 => view'.queued # 0
  BY <1>1, SameRecords
<1>3. PICK config : config = resolveConfigForReconcile(view)
  OBVIOUS
<1>4. Driven
  <2>1. CASE Drive(view, parked, "reconcile", full)
    <3>1. Drives(view, parked, "reconcile")
      BY <1>1, <1>2 DEF Drives
    <3> QED BY <2>1, <3>1, DriveKeeps
  <2>2. CASE restoreParkedAssignee(config) /\ UNCHANGED <<parked, stamp>> /\ Stays
    <3>1. PICK cmd : cmd = PublishRestoreAssignee(config.assignee)
      OBVIOUS
    <3>2. GoodCmd(cmd, clock) /\ Send(<<cmd>>)
      BY <2>2, <3>1, NoStamp DEF restoreParkedAssignee
    <3> QED BY <1>2, <2>2, <3>2, StaysDriven
  <2>3. CASE Send(<<PublishTypeMismatchFailure(view)>>) /\ UNCHANGED <<parked, stamp>> /\ Stays
    <3>1. GoodCmd(PublishTypeMismatchFailure(view), clock)
      BY NoStamp
    <3> QED BY <1>2, <2>3, <3>1, StaysDriven
  <2>4. CASE removeDeferredEntry /\ NothingSent /\ Stays
    BY <1>2, <2>4, NoStamp, StaysDriven
  <2> QED BY <1>3, <2>1, <2>2, <2>3, <2>4 DEF ReconcileOnce
<1> QED
  BY <1>1, <1>2, <1>4, DrivenInv

LEMMA DeferredInv ==
    ASSUME Inv, NEW full, evalDeferredRespawns(full)
    PROVE  Inv'
<1>1. UNCHANGED <<file, topic, view>> /\ parked # None
  BY DEF evalDeferredRespawns
<1>2. /\ GoodRec(view', clock)
      /\ topic' \in Seq(Range(topic'))
      /\ \A i \in DOMAIN topic' : GoodRec(topic'[i], clock)
      /\ Onward'
      /\ parked # None /\ stamp = 0 => view'.queued # 0
  BY <1>1, SameRecords
<1>3. Drives(parked, None, "deferred")
  BY <1>1, <1>2 DEF Drives, Inv, Records
<1>4. Driven
  BY <1>3, DriveKeeps DEF evalDeferredRespawns
<1> QED
  BY <1>1, <1>2, <1>4, DrivenInv

LEMMA DedupeInv ==
    ASSUME Inv, DedupeExpires
    PROVE  Inv'
  BY DEF Inv, Records, Commands, Clocks, EditsLeft, Onward, Waiting, DedupeExpires

LEMMA RestartInv ==
    ASSUME Inv, Restart
    PROVE  Inv'
<1>1. EditsLeft'
  BY Spent DEF Inv, Restart
<1>2. Records' /\ Commands' /\ Clocks' /\ Onward' /\ Waiting'
  BY DEF Inv, Records, Commands, Clocks, Onward, Waiting, Restart
<1> QED
  BY <1>1, <1>2 DEF Inv

LEMMA NextInv == Inv /\ [Next]_vars => Inv'
<1> SUFFICES ASSUME Inv, [Next]_vars PROVE Inv'
  OBVIOUS
<1>1. CASE UNCHANGED vars
  BY <1>1 DEF Inv, Records, Commands, Clocks, EditsLeft, Onward, Waiting, vars
<1>2. ASSUME NEW i \in DOMAIN cmds, NEW clears \in BOOLEAN, ApplyCommand(i, clears) PROVE Inv'
  BY <1>2, ApplyInv
<1>3. ASSUME NEW i \in DOMAIN cmds, LoseCommand(i) PROVE Inv'
  BY <1>3, LoseInv
<1>4. ASSUME NEW patch \in left.patch, EditTask(patch) PROVE Inv'
  BY <1>4, EditInv
<1>5. ASSUME NEW class \in Crashes \union {"success"}, JobEnds(class) PROVE Inv'
  BY <1>5, JobEndsInv
<1>6. ASSUME NEW full \in BOOLEAN, ConsumeMessage(full) PROVE Inv'
  BY <1>6, ConsumeInv
<1>7. ASSUME NEW full \in BOOLEAN, ReconcileOnce(full) PROVE Inv'
  BY <1>7, ReconcileInv
<1>8. ASSUME NEW full \in BOOLEAN, evalDeferredRespawns(full) PROVE Inv'
  BY <1>8, DeferredInv
<1>9. CASE DedupeExpires
  BY <1>9, DedupeInv
<1>10. CASE Restart
  BY <1>10, RestartInv
<1> QED
  BY <1>1, <1>2, <1>3, <1>4, <1>5, <1>6, <1>7, <1>8, <1>9, <1>10 DEF Next

LEMMA Invariant == Spec => []Inv
  BY InitInv, NextInv, PTL DEF Spec

-----------------------------------------------------------------------------
(* The results. *)

(* The record of a task keeps its keys, and every queue stamp, in the      *)
(* file, in a parked entry or in the memory of the process, was taken      *)
(* before now, whatever commands are applied or lost and in any order.     *)
THEOREM RoutingTypeCorrect == Spec => []TypeOK
<1>1. Inv => TypeOK
  BY DEF Inv, Records, Clocks, Waiting, GoodRec, Fields, TypeOK
<1> QED
  BY <1>1, Invariant, PTL

(* A task that waits behind the cap keeps its place: no event, replay,     *)
(* stale record, lost command or restart of the process gives a parked     *)
(* task a stamp from after its wait began (stampQueueEntry).               *)
THEOREM PlaceIsKept == Spec => []PlaceKept
<1>1. Inv => PlaceKept
  BY DEF Inv, Clocks, Waiting, PlaceKept
<1> QED
  BY <1>1, Invariant, PTL

(* The event path and the reconcile pass drive the same records among      *)
(* those with an assignee, for every fleet of Configs, two Configs of one  *)
(* name or one type included (parseAndFilter, reconcileTask).              *)
THEOREM OneFilter == Spec => []FiltersAgree
<1>1. FiltersAgree
  BY FiltersAgreeOn DEF FiltersAgree
<1> QED
  BY <1>1, PTL

-----------------------------------------------------------------------------
(* The trigger budget. *)

MaxRuns == maxTriggers(FirstRecord)

(* The record has a budget from the start, and people leave it: they edit  *)
(* neither cap nor count nor scope, and do not take a ref away.            *)
EditKeepsBudget(patch) ==
    /\ "max" \notin DOMAIN patch
    /\ "trig" \notin DOMAIN patch
    /\ "scope" \notin DOMAIN patch
    /\ "ref" \in DOMAIN patch => patch.ref # None

BudgetPremise ==
    /\ None \notin Nat
    /\ FirstRecord.max \in (Nat \ {0}) \union {None}
    /\ FirstRecord.trig \in Nat
    /\ "ref" \in Fields
    /\ FirstRecord.max # None \/ FirstRecord.ref # None
    /\ \A budget \in Budgets : \A patch \in budget.patch : EditKeepsBudget(patch)

Budgeted(rec) ==
    /\ rec.trig \in Nat
    /\ maxTriggers(rec) = MaxRuns
    /\ rec.max # None \/ rec.ref # None

(* The command writes a count. *)
Sets(cmd) == cmd.op = "update" /\ "trig" \in DOMAIN cmd.changes

BudgetCmd(cmd) ==
    /\ cmd.op \in {"update", "increment"}
    /\ cmd.op = "increment" => DOMAIN cmd.changes = {}
    /\ "ref" \notin DOMAIN cmd.changes
    /\ "max" \in DOMAIN cmd.changes => cmd.changes.max = MaxRuns
    /\ "scope" \in DOMAIN cmd.changes <=> "trig" \in DOMAIN cmd.changes
    /\ "trig" \in DOMAIN cmd.changes => cmd.changes.trig \in Nat \ {0}

(* A command that does not touch the count. *)
PlainCmd(cmd) == BudgetCmd(cmd) /\ ~Sets(cmd)

BudgetRecords ==
    /\ Budgeted(file)
    /\ Budgeted(view)
    /\ \A i \in DOMAIN topic : Budgeted(topic[i])
    /\ parked # None => Budgeted(parked)
    /\ running # None => Budgeted(running)

BudgetCmds == \A i \in DOMAIN cmds : BudgetCmd(cmds[i])

BudgetEdits == \A patch \in left.patch : EditKeepsBudget(patch)

(* The count of the scope in the record. *)
Filed(rec, scope) == IF rec.scope = scope THEN rec.trig ELSE 0

(* The command will raise it. *)
Delivers(cmd, rec, scope) ==
    \/ cmd.op = "increment" /\ rec.scope = scope
    \/ Sets(cmd) /\ cmd.changes.scope = scope /\ cmd.changes.trig > Filed(rec, scope)

(* Every spawn of the present scope is in the file or charged, but for one *)
(* whose count is under way.                                               *)
Accounted(n, charged, rec, scope, seq) ==
    \/ n <= charged + Filed(rec, scope)
    \/ /\ n <= charged + Filed(rec, scope) + 1
       /\ \E i \in DOMAIN seq : Delivers(seq[i], rec, scope)

(* While the count of another scope is under way, every spawn is charged. *)
Charged(n, charged, scope, seq) ==
    \A i \in DOMAIN seq : Sets(seq[i]) /\ seq[i].changes.scope # scope => n <= charged

Ledger(n, charged, rec, scope, seq) ==
    /\ n \in Nat
    /\ charged \in Nat
    /\ Accounted(n, charged, rec, scope, seq)
    /\ Charged(n, charged, scope, seq)
    /\ n <= MaxRuns + charged

BudgetInv ==
    /\ BudgetRecords
    /\ BudgetCmds
    /\ BudgetEdits
    /\ Ledger(spawned, uncounted, file, last, cmds)

LEMMA MaxRunsNatural ==
    ASSUME BudgetPremise
    PROVE  MaxRuns \in Nat \ {0} /\ MaxRuns # None
  BY DEF BudgetPremise, MaxRuns, maxTriggers, defaultMaxTriggers

(* A record keeps its budget under every write. *)
LEMMA WrittenBudgeted ==
    ASSUME BudgetPremise, NEW rec, NEW changes, DOMAIN rec = Fields, Budgeted(rec),
           "ref" \in DOMAIN changes => changes.ref # None,
           "max" \in DOMAIN changes => changes.max = MaxRuns,
           "trig" \in DOMAIN changes => changes.trig \in Nat
    PROVE  Budgeted(Written(changes, rec))
<1>1. PICK new : new = Written(changes, rec)
  OBVIOUS
<1>2. {"ref", "max", "trig"} \subseteq Fields
  BY RoutingConstants DEF BudgetPremise, Fields
<1>3. new = [key \in Fields |-> IF key \in DOMAIN changes THEN changes[key] ELSE rec[key]]
  BY <1>1 DEF Written
<1>4. /\ new.ref = IF "ref" \in DOMAIN changes THEN changes.ref ELSE rec.ref
      /\ new.max = IF "max" \in DOMAIN changes THEN changes.max ELSE rec.max
      /\ new.trig = IF "trig" \in DOMAIN changes THEN changes.trig ELSE rec.trig
  BY <1>2, <1>3
<1>5. new.trig \in Nat
  BY <1>4 DEF Budgeted
<1>6. maxTriggers(new) = MaxRuns
  BY <1>4, MaxRunsNatural DEF Budgeted, maxTriggers
<1>7. new.max # None \/ new.ref # None
  BY <1>4, MaxRunsNatural DEF Budgeted
<1> QED
  BY <1>1, <1>5, <1>6, <1>7 DEF Budgeted

LEMMA WrittenScope ==
    ASSUME NEW rec, NEW changes, DOMAIN rec = Fields
    PROVE  /\ Written(changes, rec).scope = IF "scope" \in DOMAIN changes THEN changes.scope ELSE rec.scope
           /\ Written(changes, rec).trig = IF "trig" \in DOMAIN changes THEN changes.trig ELSE rec.trig
  BY RoutingConstants DEF Written, Fields

(* The record after an increment. *)
LEMMA IncrementedRecord ==
    ASSUME NEW cmd, NEW clears, cmd.op = "increment", DOMAIN file = Fields, "ref" \in Fields
    PROVE  \A new \in {Applied(cmd, clears)} :
              /\ new.trig = file.trig + 1
              /\ new.scope = file.scope
              /\ new.max = file.max
              /\ new.ref = file.ref
<1>1. PICK a : a = IF clears /\ file.max # None /\ file.trig + 1 >= file.max THEN None ELSE file.assignee
  OBVIOUS
<1>2. PICK mid : mid = [file EXCEPT !.trig = @ + 1]
  OBVIOUS
<1>3. PICK new : new = [mid EXCEPT !.assignee = a]
  OBVIOUS
<1>4. {"trig", "assignee", "scope", "max", "ref"} \subseteq Fields
  BY RoutingConstants DEF Fields
<1>5. /\ DOMAIN mid = Fields
      /\ mid.trig = file.trig + 1
      /\ mid.scope = file.scope
      /\ mid.max = file.max
      /\ mid.ref = file.ref
  BY <1>2, <1>4
<1>6. /\ new.trig = mid.trig
      /\ new.scope = mid.scope
      /\ new.max = mid.max
      /\ new.ref = mid.ref
  BY <1>3, <1>4, <1>5
<1>7. new = Applied(cmd, clears)
  BY <1>1, <1>2, <1>3, <1>4 DEF Applied
<1> QED
  BY <1>5, <1>6, <1>7

LEMMA AppliedBudgeted ==
    ASSUME BudgetPremise, NEW cmd, NEW clears, BudgetCmd(cmd), DOMAIN file = Fields, Budgeted(file)
    PROVE  Budgeted(Applied(cmd, clears))
<1>1. CASE cmd.op = "update"
  BY <1>1, WrittenBudgeted DEF BudgetCmd, Applied
<1>2. CASE cmd.op = "increment"
  <2>1. PICK new : new = Applied(cmd, clears)
    OBVIOUS
  <2>2. /\ new.trig = file.trig + 1
        /\ new.max = file.max
        /\ new.ref = file.ref
    BY <1>2, <2>1, IncrementedRecord DEF BudgetPremise
  <2> QED BY <2>1, <2>2 DEF Budgeted, maxTriggers
<1> QED
  BY <1>1, <1>2 DEF BudgetCmd

(* A stamp does not touch the budget. *)
LEMMA StampedBudgeted ==
    ASSUME BudgetPremise, NEW rec, NEW at, DOMAIN rec = Fields, Budgeted(rec)
    PROVE  Budgeted([rec EXCEPT !.queued = at])
<1>1. {"ref", "max", "trig", "queued"} \subseteq Fields
  BY RoutingConstants DEF BudgetPremise, Fields
<1>2. PICK new : new = [rec EXCEPT !.queued = at]
  OBVIOUS
<1>3. new.ref = rec.ref /\ new.max = rec.max /\ new.trig = rec.trig
  BY <1>1, <1>2
<1> QED
  BY <1>2, <1>3 DEF Budgeted, maxTriggers

(* The commands other than the count of a spawn. *)
LEMMA PlainCmds ==
    /\ PlainCmd(PublishIncrementTriggerCount)
    /\ \A task : PlainCmd(PublishTypeMismatchFailure(task))
    /\ \A a : PlainCmd(PublishRestoreAssignee(a))
    /\ \A key : PlainCmd(PublishTriggerBudgetRefusal(key))
    /\ \A at : PlainCmd(PublishQueueEntry(at))
<1>1. PlainCmd(PublishIncrementTriggerCount)
  BY DEF PlainCmd, BudgetCmd, Sets, PublishIncrementTriggerCount, Increment
<1>2. \A task : PlainCmd(PublishTypeMismatchFailure(task))
  BY DEF PlainCmd, BudgetCmd, Sets, PublishTypeMismatchFailure, Update
<1>3. \A a : PlainCmd(PublishRestoreAssignee(a))
  BY DEF PlainCmd, BudgetCmd, Sets, PublishRestoreAssignee, Update
<1>4. \A key : PlainCmd(PublishTriggerBudgetRefusal(key))
  BY DEF PlainCmd, BudgetCmd, Sets, PublishTriggerBudgetRefusal, Update
<1>5. \A at : PlainCmd(PublishQueueEntry(at))
  BY DEF PlainCmd, BudgetCmd, Sets, PublishQueueEntry, Update
<1> QED
  BY <1>1, <1>2, <1>3, <1>4, <1>5

(* A crash arms the cap the record already has. *)
LEMMA CrashCmd ==
    ASSUME NEW rec, NEW class, Budgeted(rec)
    PROVE  PlainCmd(Update(crashFailureUpdates(rec, class)))
  BY DEF PlainCmd, BudgetCmd, Sets, Update, crashFailureUpdates, Budgeted, maxTriggers

(* The count of a spawn. *)
LEMMA SpawnCmd ==
    ASSUME NEW rec, Budgeted(rec)
    PROVE  \A cmd \in {recordTriggerSpawn(rec)} :
              /\ BudgetCmd(cmd)
              /\ \/ cmd.op = "increment" /\ rec.scope = triggerScope(rec)
                 \/ /\ Sets(cmd)
                    /\ cmd.changes.scope = triggerScope(rec)
                    /\ rec.scope \notin {None, triggerScope(rec)} \/ cmd.changes.trig = rec.trig + 1
<1>1. PICK scope : scope = triggerScope(rec)
  OBVIOUS
<1>2. PICK cmd : cmd = recordTriggerSpawn(rec)
  OBVIOUS
<1>3. CASE rec.scope \notin {None, scope}
  <2>1. cmd = Update([scope |-> scope, trig |-> 1])
    BY <1>1, <1>2, <1>3 DEF recordTriggerSpawn, triggerBudgetWrite, PublishSetTriggerScope
  <2> QED BY <1>1, <1>2, <1>3, <2>1 DEF Update, BudgetCmd, Sets
<1>4. CASE rec.scope = None
  <2>1. cmd = Update([scope |-> scope, trig |-> rec.trig + 1])
    BY <1>1, <1>2, <1>4 DEF recordTriggerSpawn, triggerBudgetWrite, PublishSetTriggerScope
  <2> QED BY <1>1, <1>2, <1>4, <2>1 DEF Update, BudgetCmd, Sets, Budgeted
<1>5. CASE rec.scope # None /\ rec.scope = scope
  <2>1. cmd = Increment
    BY <1>1, <1>2, <1>5 DEF recordTriggerSpawn, triggerBudgetWrite, PublishIncrementTriggerCount
  <2> QED BY <1>1, <1>2, <1>5, <2>1 DEF Increment, BudgetCmd
<1> QED
  BY <1>3, <1>4, <1>5

(* The ledger. *)

HoldsPlus(sent, seq, cmd) ==
    /\ \A j \in DOMAIN seq : \E k \in DOMAIN sent : sent[k] = seq[j]
    /\ \E k \in DOMAIN sent : sent[k] = cmd
    /\ \A k \in DOMAIN sent : sent[k] = cmd \/ \E j \in DOMAIN seq : sent[k] = seq[j]

HoldsPlain(sent, seq) ==
    /\ \A j \in DOMAIN seq : \E k \in DOMAIN sent : sent[k] = seq[j]
    /\ \A k \in DOMAIN sent : ~Sets(sent[k]) \/ \E j \in DOMAIN seq : sent[k] = seq[j]

(* Commands leave the queue and others, which do not touch the count, come. *)
LEMMA LedgerKept ==
    ASSUME NEW n, NEW charged, NEW rec, NEW new, NEW scope, NEW seq, NEW sent,
           Ledger(n, charged, rec, scope, seq), rec.trig \in Nat,
           new.scope = rec.scope, new.trig = rec.trig,
           HoldsPlain(sent, seq)
    PROVE  Ledger(n, charged, new, scope, sent)
<1>1. Filed(new, scope) = Filed(rec, scope)
  BY DEF Filed
<1>2. ASSUME NEW cmd PROVE Delivers(cmd, new, scope) <=> Delivers(cmd, rec, scope)
  BY <1>1 DEF Delivers
<1>3. Accounted(n, charged, new, scope, sent)
  BY <1>1, <1>2 DEF Ledger, Accounted, HoldsPlain
<1>4. Charged(n, charged, scope, sent)
  BY DEF Ledger, Charged, HoldsPlain
<1> QED
  BY <1>3, <1>4 DEF Ledger

(* A command is lost. *)
LEMMA LedgerLost ==
    ASSUME NEW n, NEW charged, NEW more, NEW rec, NEW scope, NEW seq, NEW rest, NEW i \in DOMAIN seq,
           Ledger(n, charged, rec, scope, seq), MaxRuns \in Nat, rec.trig \in Nat, BudgetCmd(seq[i]),
           more = IF Counts(seq[i]) THEN charged + 1 ELSE charged,
           HoldsRest(rest, seq, i)
    PROVE  Ledger(n, more, rec, scope, rest)
<1>1. n \in Nat /\ charged \in Nat /\ more \in Nat /\ charged <= more /\ Filed(rec, scope) \in Nat
  BY DEF Ledger, Filed
<1>2. Charged(n, more, scope, rest)
  BY <1>1 DEF Ledger, Charged, HoldsRest
<1>3. Accounted(n, more, rec, scope, rest)
  <2>1. CASE n <= charged + Filed(rec, scope)
    BY <1>1, <2>1 DEF Accounted
  <2>2. CASE n <= charged + Filed(rec, scope) + 1 /\ \E j \in DOMAIN seq : Delivers(seq[j], rec, scope)
    <3>1. PICK j \in DOMAIN seq : Delivers(seq[j], rec, scope)
      BY <2>2
    <3>2. CASE j = i
      <4>1. Counts(seq[i])
        BY <3>1, <3>2 DEF Delivers, Sets, Counts
      <4> QED BY <1>1, <2>2, <4>1 DEF Accounted
    <3>3. CASE j # i
      <4>1. PICK k \in DOMAIN rest : rest[k] = seq[j]
        BY <3>3 DEF HoldsRest
      <4> QED BY <1>1, <2>2, <3>1, <4>1 DEF Accounted
    <3> QED BY <3>2, <3>3
  <2> QED BY <2>1, <2>2 DEF Ledger, Accounted
<1> QED
  BY <1>1, <1>2, <1>3 DEF Ledger

(* A command is applied to the record: what it takes away is charged. *)
LEMMA LedgerApplied ==
    ASSUME NEW n, NEW charged, NEW more, NEW rec, NEW new, NEW scope, NEW seq, NEW rest,
           NEW i \in DOMAIN seq, NEW cmd, cmd = seq[i],
           Ledger(n, charged, rec, scope, seq), MaxRuns \in Nat,
           rec.trig \in Nat, \A j \in DOMAIN seq : BudgetCmd(seq[j]),
           HoldsRest(rest, seq, i),
           \/ Sets(cmd) /\ new.scope = cmd.changes.scope /\ new.trig = cmd.changes.trig
           \/ cmd.op = "increment" /\ new.scope = rec.scope /\ new.trig = rec.trig + 1
           \/ cmd.op = "update" /\ ~Sets(cmd) /\ new.scope = rec.scope /\ new.trig = rec.trig,
           more = IF Sets(cmd) /\ cmd.changes.scope = rec.scope /\ cmd.changes.trig < rec.trig
                  THEN charged + (rec.trig - cmd.changes.trig) ELSE charged
    PROVE  Ledger(n, more, new, scope, rest)
<1>1. PICK old : old = Filed(rec, scope)
  OBVIOUS
<1>2. PICK now : now = Filed(new, scope)
  OBVIOUS
<1>3. Sets(cmd) => cmd.changes.trig \in Nat \ {0}
  BY DEF BudgetCmd, Sets
<1>4. /\ n \in Nat /\ charged \in Nat /\ more \in Nat /\ charged <= more
      /\ old \in Nat /\ now \in Nat
  BY <1>1, <1>2, <1>3 DEF Ledger, Filed
<1>5. Charged(n, more, scope, rest)
  BY <1>4 DEF Ledger, Charged, HoldsRest
<1>6. Accounted(n, more, new, scope, rest)
  <2>1. CASE Sets(cmd) /\ cmd.changes.scope # scope
    <3>1. n <= charged
      BY <2>1 DEF Ledger, Charged
    <3> QED BY <1>2, <1>4, <3>1 DEF Accounted
  <2>2. CASE Sets(cmd) /\ cmd.changes.scope = scope
    <3>1. new.scope = scope /\ now = cmd.changes.trig
      BY <1>2, <2>2 DEF Filed, Sets
    <3>2. CASE now > old
      <4>1. n <= charged + now
        BY <1>1, <1>4, <3>2 DEF Ledger, Accounted
      <4> QED BY <1>2, <1>4, <4>1 DEF Accounted
    <3>3. CASE now <= old
      <4>1. rec.scope = scope /\ old = rec.trig
        BY <1>1, <1>3, <2>2, <3>1, <3>3 DEF Filed
      <4>2. more + now = charged + old
        BY <1>4, <2>2, <3>1, <3>3, <4>1
      <4>3. CASE n <= charged + old
        BY <1>2, <1>4, <4>2, <4>3 DEF Accounted
      <4>4. CASE n <= charged + old + 1 /\ \E j \in DOMAIN seq : Delivers(seq[j], rec, scope)
        <5>1. PICK j \in DOMAIN seq : Delivers(seq[j], rec, scope)
          BY <4>4
        <5>2. j # i
          BY <1>1, <1>4, <2>2, <3>1, <3>3, <5>1 DEF Delivers, Sets
        <5>3. PICK k \in DOMAIN rest : rest[k] = seq[j]
          BY <5>2 DEF HoldsRest
        <5>4. n <= more + now + 1
          BY <1>4, <4>2, <4>4
        <5>5. CASE seq[j].op = "increment"
          BY <1>2, <3>1, <5>3, <5>4, <5>5 DEF Accounted, Delivers
        <5>6. CASE Sets(seq[j]) /\ seq[j].changes.scope = scope /\ seq[j].changes.trig > old
          <6>1. seq[j].changes.trig \in Nat
            BY <5>6 DEF BudgetCmd, Sets
          <6>2. seq[j].changes.trig > now
            BY <1>4, <3>3, <5>6, <6>1
          <6> QED BY <1>2, <5>3, <5>4, <5>6, <6>2 DEF Accounted, Delivers
        <5> QED BY <1>1, <5>1, <5>5, <5>6 DEF Delivers
      <4> QED BY <1>1, <4>3, <4>4 DEF Ledger, Accounted
    <3> QED BY <1>4, <3>2, <3>3
  <2>3. CASE cmd.op = "increment" /\ new.scope = rec.scope /\ new.trig = rec.trig + 1
    <3>1. ~Sets(cmd) /\ more = charged
      BY <2>3 DEF Sets
    <3>2. CASE rec.scope = scope
      <4>1. now = old + 1
        BY <1>1, <1>2, <2>3, <3>2 DEF Filed
      <4>2. n <= more + now
        BY <1>1, <1>4, <3>1, <4>1 DEF Ledger, Accounted
      <4> QED BY <1>2, <4>2 DEF Accounted
    <3>3. CASE rec.scope # scope
      <4>1. now = 0 /\ old = 0
        BY <1>1, <1>2, <2>3, <3>3 DEF Filed
      <4>2. CASE n <= charged + old
        BY <1>2, <1>4, <3>1, <4>1, <4>2 DEF Accounted
      <4>3. CASE n <= charged + old + 1 /\ \E j \in DOMAIN seq : Delivers(seq[j], rec, scope)
        <5>1. PICK j \in DOMAIN seq : Delivers(seq[j], rec, scope)
          BY <4>3
        <5>2. Sets(seq[j]) /\ seq[j].changes.scope = scope /\ seq[j].changes.trig > now
          BY <1>1, <3>3, <4>1, <5>1 DEF Delivers
        <5>3. PICK k \in DOMAIN rest : rest[k] = seq[j]
          BY <3>1, <5>2 DEF HoldsRest
        <5> QED BY <1>2, <3>1, <4>1, <4>3, <5>2, <5>3 DEF Accounted, Delivers
      <4> QED BY <1>1, <4>2, <4>3 DEF Ledger, Accounted
    <3> QED BY <3>2, <3>3
  <2>4. CASE cmd.op = "update" /\ ~Sets(cmd) /\ new.scope = rec.scope /\ new.trig = rec.trig
    <3>1. more = charged /\ now = old
      BY <1>1, <1>2, <2>4 DEF Filed
    <3>2. CASE n <= charged + old
      BY <1>2, <3>1, <3>2 DEF Accounted
    <3>3. CASE n <= charged + old + 1 /\ \E j \in DOMAIN seq : Delivers(seq[j], rec, scope)
      <4>1. PICK j \in DOMAIN seq : Delivers(seq[j], rec, scope)
        BY <3>3
      <4>2. j # i
        BY <2>4, <4>1 DEF Delivers
      <4>3. PICK k \in DOMAIN rest : rest[k] = seq[j]
        BY <4>2 DEF HoldsRest
      <4>4. Delivers(rest[k], new, scope)
        BY <1>1, <1>2, <2>4, <3>1, <4>1, <4>3 DEF Delivers
      <4> QED BY <1>2, <3>1, <3>3, <4>4 DEF Accounted
    <3> QED BY <1>1, <3>2, <3>3 DEF Ledger, Accounted
  <2> QED BY <2>1, <2>2, <2>3, <2>4
<1> QED
  BY <1>4, <1>5, <1>6 DEF Ledger

(* A spawn from a record that lacks a count is charged. *)
LEMMA LedgerCharged ==
    ASSUME NEW n, NEW m, NEW charged, NEW rec, NEW scope, NEW new, NEW seq, NEW sent, NEW cmd,
           Ledger(n, charged, rec, scope, seq), MaxRuns \in Nat \ {0}, rec.trig \in Nat,
           m = IF scope = new THEN n + 1 ELSE 1,
           Sets(cmd) => cmd.changes.scope = new,
           HoldsPlus(sent, seq, cmd)
    PROVE  Ledger(m, charged + 1, rec, new, sent)
<1>1. n \in Nat /\ charged \in Nat /\ m \in Nat /\ Filed(rec, new) \in Nat
  BY DEF Ledger, Filed
<1>2. CASE scope # new
  <2>1. m <= charged + 1
    BY <1>1, <1>2
  <2> QED BY <1>1, <2>1 DEF Ledger, Accounted, Charged, HoldsPlus
<1>3. CASE scope = new
  <2>1. m = n + 1
    BY <1>3
  <2>2. Charged(m, charged + 1, new, sent)
    BY <1>1, <1>3, <2>1 DEF Ledger, Charged, HoldsPlus
  <2>3. Accounted(m, charged + 1, rec, new, sent)
    BY <1>1, <1>3, <2>1 DEF Ledger, Accounted, HoldsPlus
  <2> QED BY <1>1, <2>1, <2>2, <2>3 DEF Ledger
<1> QED
  BY <1>2, <1>3

(* A spawn from the record as it is, with no count under way, is not. *)
LEMMA LedgerCounted ==
    ASSUME NEW n, NEW m, NEW charged, NEW rec, NEW scope, NEW new, NEW seq, NEW sent, NEW cmd,
           Ledger(n, charged, rec, scope, seq), MaxRuns \in Nat \ {0}, rec.trig \in Nat,
           m = IF scope = new THEN n + 1 ELSE 1,
           \A j \in DOMAIN seq : ~Counts(seq[j]),
           BudgetCmd(cmd),
           \/ cmd.op = "increment" /\ rec.scope = new
           \/ Sets(cmd) /\ cmd.changes.scope = new /\ (rec.scope # new \/ cmd.changes.trig = rec.trig + 1),
           rec.scope = new => rec.trig < MaxRuns,
           HoldsPlus(sent, seq, cmd)
    PROVE  Ledger(m, charged, rec, new, sent)
<1>1. PICK filed : filed = Filed(rec, new)
  OBVIOUS
<1>2. n \in Nat /\ charged \in Nat /\ m \in Nat /\ filed \in Nat
  BY <1>1 DEF Ledger, Filed
<1>3. Delivers(cmd, rec, new)
  BY <1>1, <1>2 DEF Delivers, Filed, BudgetCmd, Sets
<1>4. \A j \in DOMAIN seq : ~Sets(seq[j]) /\ seq[j].op # "increment"
  BY DEF Counts, Sets
<1>5. n <= charged + Filed(rec, scope)
  BY <1>4 DEF Ledger, Accounted, Delivers
<1>6. m <= charged + filed + 1
  BY <1>1, <1>2, <1>5
<1>7. Accounted(m, charged, rec, new, sent)
  BY <1>1, <1>3, <1>6 DEF Accounted, HoldsPlus
<1>8. Charged(m, charged, new, sent)
  BY <1>4 DEF Charged, Sets, HoldsPlus
<1>9. filed + 1 <= MaxRuns
  BY <1>1, <1>2 DEF Filed
<1>10. m <= MaxRuns + charged
  BY <1>2, <1>6, <1>9
<1> QED
  BY <1>2, <1>7, <1>8, <1>10 DEF Ledger

LEMMA QueueGrows ==
    ASSUME Inv, NEW cmd
    PROVE  HoldsPlus(cmds \o <<cmd>>, cmds, cmd)
<1>1. PICK msgs : msgs = <<cmd>>
  OBVIOUS
<1>2. PICK S : S = Range(cmds) \union {cmd}
  OBVIOUS
<1>3. DOMAIN msgs = {1} /\ msgs[1] = cmd
  BY <1>1
<1>4. cmds \in Seq(S) /\ msgs \in Seq(S)
  BY <1>1, <1>2, SeqMonotonic DEF Inv, Commands, GoodCmds
<1>5. PICK sent : sent = cmds \o msgs
  OBVIOUS
<1>6. HoldsAll(sent, cmds, msgs)
  BY <1>4, <1>5, AllOf
<1>7. HoldsPlus(sent, cmds, cmd)
  BY <1>3, <1>6 DEF HoldsAll, HoldsPlus
<1> QED
  BY <1>1, <1>5, <1>7

LEMMA QueueGrowsByTwo ==
    ASSUME Inv, NEW c, NEW d
    PROVE  HoldsAll(cmds \o <<c, d>>, cmds, <<c, d>>)
<1>1. PICK msgs : msgs = <<c, d>>
  OBVIOUS
<1>2. PICK S : S = Range(cmds) \union {c, d}
  OBVIOUS
<1>3. cmds \in Seq(S) /\ msgs \in Seq(S)
  BY <1>1, <1>2, SeqMonotonic DEF Inv, Commands, GoodCmds
<1>4. PICK sent : sent = cmds \o msgs
  OBVIOUS
<1>5. HoldsAll(sent, cmds, msgs)
  BY <1>3, <1>4, AllOf
<1> QED
  BY <1>1, <1>4, <1>5

(* At most a command that does not touch the count is sent. *)
LEMMA PlainStep ==
    ASSUME Inv, BudgetInv, NEW cmd, PlainCmd(cmd), cmds' \in {cmds, cmds \o <<cmd>>}, UNCHANGED history
    PROVE  BudgetCmds' /\ Ledger(spawned', uncounted', file, last', cmds')
<1>1. PICK sent : sent = cmds'
  OBVIOUS
<1>2. HoldsPlain(sent, cmds) /\ \A k \in DOMAIN sent : BudgetCmd(sent[k])
  <2>1. CASE sent = cmds
    BY <2>1 DEF HoldsPlain, BudgetInv, BudgetCmds
  <2>2. CASE sent = cmds \o <<cmd>>
    <3>1. HoldsPlus(sent, cmds, cmd)
      BY <2>2, QueueGrows
    <3> QED BY <3>1 DEF HoldsPlus, HoldsPlain, PlainCmd, BudgetInv, BudgetCmds
  <2> QED BY <1>1, <2>1, <2>2
<1>3. Ledger(spawned, uncounted, file, last, cmds) /\ file.trig \in Nat
  BY DEF BudgetInv, BudgetRecords, Budgeted
<1>4. Ledger(spawned, uncounted, file, last, sent)
  BY <1>2, <1>3, LedgerKept
<1>5. BudgetCmds'
  BY <1>1, <1>2 DEF BudgetCmds
<1> QED
  BY <1>1, <1>4, <1>5 DEF history

LEMMA SpawnStep ==
    ASSUME BudgetPremise, Inv, BudgetInv, NEW rec, Budgeted(rec), SpawnJob(rec)
    PROVE  BudgetCmds' /\ Ledger(spawned', uncounted', file, last', cmds')
<1>1. PICK cmd : cmd = recordTriggerSpawn(rec)
  OBVIOUS
<1>2. PICK scope : scope = triggerScope(rec)
  OBVIOUS
<1>3. PICK sent : sent = cmds'
  OBVIOUS
<1>4. /\ BudgetCmd(cmd)
      /\ \/ cmd.op = "increment" /\ rec.scope = scope
         \/ /\ Sets(cmd)
            /\ cmd.changes.scope = scope
            /\ rec.scope \notin {None, scope} \/ cmd.changes.trig = rec.trig + 1
  BY <1>1, <1>2, SpawnCmd
<1>5. HoldsPlus(sent, cmds, cmd)
  BY <1>1, <1>3, QueueGrows DEF SpawnJob, Send
<1>6. BudgetCmds'
  BY <1>3, <1>4, <1>5 DEF BudgetInv, BudgetCmds, HoldsPlus
<1>7. /\ Ledger(spawned, uncounted, file, last, cmds)
      /\ file.trig \in Nat
      /\ MaxRuns \in Nat \ {0}
  BY MaxRunsNatural DEF BudgetInv, BudgetRecords, Budgeted
<1>8. PICK m : m = IF last = scope THEN spawned + 1 ELSE 1
  OBVIOUS
<1>9. spawned' = m /\ last' = scope /\ uncounted' = IF Uncounted(rec) THEN uncounted + 1 ELSE uncounted
  BY <1>2, <1>8 DEF SpawnJob
<1>10. CASE Uncounted(rec)
  <2>1. Sets(cmd) => cmd.changes.scope = scope
    BY <1>4 DEF Sets
  <2>2. Ledger(m, uncounted + 1, file, scope, sent)
    BY <1>5, <1>7, <1>8, <2>1, LedgerCharged
  <2> QED BY <1>3, <1>6, <1>9, <1>10, <2>2
<1>11. CASE ~Uncounted(rec)
  <2>1. /\ rec.trig = file.trig
        /\ rec.scope = file.scope
        /\ \A j \in DOMAIN cmds : ~Counts(cmds[j])
    BY <1>11 DEF Uncounted
  <2>2. file.scope = scope => file.trig < MaxRuns
    <3>1. rec.scope = scope => ~(rec.trig >= maxTriggers(rec))
      BY <1>2 DEF SpawnJob, checkTriggerBudget, Budgeted
    <3> QED BY <1>7, <2>1, <3>1 DEF Budgeted
  <2>3. \/ cmd.op = "increment" /\ file.scope = scope
        \/ Sets(cmd) /\ cmd.changes.scope = scope /\ (file.scope # scope \/ cmd.changes.trig = file.trig + 1)
    BY <1>4, <2>1
  <2>4. Ledger(m, uncounted, file, scope, sent)
    BY <1>4, <1>5, <1>7, <1>8, <2>1, <2>2, <2>3, LedgerCounted
  <2> QED BY <1>3, <1>6, <1>9, <1>11, <2>4
<1> QED
  BY <1>10, <1>11

LEMMA SpentBudget ==
    ASSUME NEW kind, kind # "patch", EditsLeft, BudgetEdits, Spend(kind)
    PROVE  BudgetEdits'
<1>1. left'.patch = left.patch
  BY DEF Spend, EditsLeft
<1> QED
  BY <1>1 DEF BudgetEdits

(* What the spawn path leaves. *)
BudgetDriven ==
    /\ BudgetCmds'
    /\ BudgetEdits'
    /\ parked' # None => Budgeted(parked')
    /\ running' # None => Budgeted(running')
    /\ Ledger(spawned', uncounted', file, last', cmds')

LEMMA DriveBudget ==
    ASSUME BudgetPremise, Inv, BudgetInv, NEW rec, NEW entry, NEW by, NEW full,
           Drives(rec, entry, by), Budgeted(rec), entry \in {parked, None}, Drive(rec, entry, by, full)
    PROVE  BudgetDriven
<1>1. /\ BudgetEdits /\ EditsLeft
      /\ parked # None => Budgeted(parked)
      /\ running # None => Budgeted(running)
  BY DEF Inv, BudgetInv, BudgetRecords
<1>2. CASE parked' = entry /\ NothingSent /\ UNCHANGED <<running, history, left>>
  <2>1. BudgetCmds' /\ Ledger(spawned', uncounted', file, last', cmds')
    BY <1>2, PlainCmds, PlainStep DEF NothingSent
  <2>2. BudgetEdits'
    BY <1>1, <1>2 DEF BudgetEdits
  <2> QED BY <1>1, <1>2, <2>1, <2>2 DEF BudgetDriven
<1>3. CASE Park(rec, entry, by)
  <2>1. PICK at : at = stampQueueEntry(rec)
    OBVIOUS
  <2>2. /\ Spend("full")
        /\ parked' = IF by # "event" /\ entry # None THEN entry ELSE [rec EXCEPT !.queued = at]
        /\ cmds' \in {cmds, cmds \o <<PublishQueueEntry(at)>>}
        /\ UNCHANGED <<running, history>>
    BY <1>3, <2>1 DEF Park, Send, NothingSent
  <2>3. BudgetCmds' /\ Ledger(spawned', uncounted', file, last', cmds')
    BY <2>2, PlainCmds, PlainStep
  <2>4. Budgeted([rec EXCEPT !.queued = at])
    BY StampedBudgeted DEF Drives, GoodRec
  <2>5. parked' # None => Budgeted(parked')
    BY <1>1, <2>2, <2>4
  <2>6. BudgetEdits'
    BY <1>1, <2>2, SpentBudget
  <2> QED BY <1>1, <2>2, <2>3, <2>5, <2>6 DEF BudgetDriven
<1>4. CASE parked' = entry /\ triggerBudgetRefusesSpawn(rec) /\ UNCHANGED <<running, history, left>>
  <2>1. cmds' \in {cmds, cmds \o <<PublishTriggerBudgetRefusal(RefusalKey(rec))>>}
    BY <1>4 DEF triggerBudgetRefusesSpawn, recordTriggerRefusal, Send, NothingSent
  <2>2. BudgetCmds' /\ Ledger(spawned', uncounted', file, last', cmds')
    BY <1>4, <2>1, PlainCmds, PlainStep
  <2>3. BudgetEdits'
    BY <1>1, <1>4 DEF BudgetEdits
  <2> QED BY <1>1, <1>4, <2>2, <2>3 DEF BudgetDriven
<1>5. CASE parked' = entry /\ SpawnJob(rec)
  <2>1. BudgetCmds' /\ Ledger(spawned', uncounted', file, last', cmds')
    BY <1>5, SpawnStep
  <2>2. BudgetEdits' /\ running' = rec
    BY <1>1, <1>5, SpentBudget DEF SpawnJob
  <2> QED BY <1>1, <1>5, <2>1, <2>2 DEF BudgetDriven
<1> QED
  BY <1>2, <1>3, <1>4, <1>5 DEF Drive

LEMMA StaysBudget ==
    ASSUME Inv, BudgetInv, Stays, parked' \in {parked, None},
           NEW cmd, PlainCmd(cmd), NothingSent \/ Send(<<cmd>>)
    PROVE  BudgetDriven
<1>1. cmds' \in {cmds, cmds \o <<cmd>>} /\ UNCHANGED <<running, history, left>>
  BY DEF NothingSent, Send, Stays
<1>2. BudgetCmds' /\ Ledger(spawned', uncounted', file, last', cmds')
  BY <1>1, PlainStep
<1> QED
  BY <1>1, <1>2 DEF BudgetInv, BudgetRecords, BudgetEdits, BudgetDriven

(* What the spawn path leaves, and the records, together. *)
LEMMA DrivenBudget ==
    ASSUME BudgetInv, BudgetDriven, file' = file, Budgeted(view'),
           \A i \in DOMAIN topic' : Budgeted(topic'[i])
    PROVE  BudgetInv'
  BY DEF BudgetInv, BudgetRecords, BudgetDriven

LEMMA InitBudget ==
    ASSUME BudgetPremise, Init
    PROVE  BudgetInv
<1>1. Budgeted(FirstRecord)
  BY DEF BudgetPremise, Budgeted, MaxRuns
<1>2. DOMAIN topic = {1} /\ topic[1] = FirstRecord /\ DOMAIN cmds = {}
  BY DEF Init
<1>3. BudgetRecords /\ BudgetCmds
  BY <1>1, <1>2 DEF Init, BudgetRecords, BudgetCmds
<1>4. BudgetEdits
  BY DEF Init, BudgetPremise, BudgetEdits
<1>5. Filed(file, last) \in Nat
  BY <1>1 DEF Init, Filed, Budgeted
<1>6. Ledger(spawned, uncounted, file, last, cmds)
  BY <1>2, <1>5, MaxRunsNatural DEF Init, Ledger, Accounted, Charged
<1> QED
  BY <1>3, <1>4, <1>6 DEF BudgetInv

(* A record is published. *)
LEMMA PublishedBudget ==
    ASSUME Inv, BudgetRecords, Budgeted(file'), topic' \in {topic, Append(topic, file')},
           UNCHANGED <<view, parked, running>>
    PROVE  BudgetRecords'
<1>1. PICK new : new = file'
  OBVIOUS
<1>2. PICK S : S = Range(topic) \union {new}
  OBVIOUS
<1>3. topic \in Seq(S) /\ new \in S
  BY <1>2, SeqMonotonic DEF Inv, Records
<1>4. PICK n : n = Len(topic)
  OBVIOUS
<1>5. n \in Nat /\ DOMAIN topic = 1..n
  BY <1>3, <1>4, LenProperties
<1>6. PICK later : later = topic'
  OBVIOUS
<1>7. \A i \in DOMAIN later : Budgeted(later[i])
  <2>1. CASE later = topic
    BY <2>1 DEF BudgetRecords
  <2>2. CASE later = Append(topic, new)
    <3>1. /\ later \in Seq(S)
          /\ Len(later) = n + 1
          /\ \A i \in 1..n : later[i] = topic[i]
          /\ later[n + 1] = new
      BY <1>3, <1>4, <2>2, AppendProperties
    <3>2. DOMAIN later = 1..(n + 1)
      BY <3>1, LenProperties
    <3>3. \A i \in DOMAIN later : i \in 1..n \/ i = n + 1
      BY <1>5, <3>2
    <3> QED BY <1>1, <1>5, <3>1, <3>3 DEF BudgetRecords
  <2> QED BY <1>1, <1>6, <2>1, <2>2
<1> QED
  BY <1>6, <1>7 DEF BudgetRecords

LEMMA ApplyBudget ==
    ASSUME BudgetPremise, Inv, BudgetInv, NEW i \in DOMAIN cmds, NEW clears, ApplyCommand(i, clears)
    PROVE  BudgetInv'
<1>1. PICK cmd : cmd = cmds[i]
  OBVIOUS
<1>2. PICK new : new = file'
  OBVIOUS
<1>3. PICK rest : rest = cmds'
  OBVIOUS
<1>4. PICK more : more = uncounted'
  OBVIOUS
<1>5. /\ BudgetCmd(cmd)
      /\ DOMAIN file = Fields
      /\ Budgeted(file)
      /\ file.trig \in Nat
  BY <1>1 DEF BudgetInv, BudgetCmds, BudgetRecords, Budgeted, Inv, Records, GoodRec
<1>6. new = Applied(cmd, clears) /\ Budgeted(new)
  BY <1>1, <1>2, <1>5, AppliedBudgeted DEF ApplyCommand
<1>7. BudgetRecords'
  BY <1>2, <1>6, PublishedBudget DEF BudgetInv, ApplyCommand, memory
<1>8. GoodCmds(rest, clock) /\ HoldsRest(rest, cmds, i)
  BY <1>3, Taken DEF Inv, Commands, ApplyCommand
<1>9. BudgetCmds'
  BY <1>3, <1>8 DEF BudgetInv, BudgetCmds, HoldsRest
<1>10. BudgetEdits'
  BY DEF BudgetInv, BudgetEdits, ApplyCommand
<1>11. \/ Sets(cmd) /\ new.scope = cmd.changes.scope /\ new.trig = cmd.changes.trig
       \/ cmd.op = "increment" /\ new.scope = file.scope /\ new.trig = file.trig + 1
       \/ cmd.op = "update" /\ ~Sets(cmd) /\ new.scope = file.scope /\ new.trig = file.trig
  <2>1. CASE cmd.op = "update"
    <3>1. new = Written(cmd.changes, file)
      BY <1>6, <2>1 DEF Applied
    <3> QED BY <1>5, <2>1, <3>1, WrittenScope DEF Sets, BudgetCmd
  <2>2. CASE cmd.op = "increment"
    BY <1>5, <1>6, <2>2, IncrementedRecord DEF BudgetPremise
  <2> QED BY <1>5, <2>1, <2>2 DEF BudgetCmd
<1>12. uncounted \in Nat
  BY DEF BudgetInv, Ledger
<1>13. more = IF Sets(cmd) /\ cmd.changes.scope = file.scope /\ cmd.changes.trig < file.trig
              THEN uncounted + (file.trig - cmd.changes.trig) ELSE uncounted
  <2>1. more = uncounted + Overwritten(cmd)
    BY <1>1, <1>4 DEF ApplyCommand
  <2> QED BY <1>12, <2>1 DEF Overwritten, Sets
<1>14. Ledger(spawned, uncounted, file, last, cmds) /\ MaxRuns \in Nat
       /\ \A j \in DOMAIN cmds : BudgetCmd(cmds[j])
  BY MaxRunsNatural DEF BudgetInv, BudgetCmds
<1>15. Ledger(spawned, more, new, last, rest)
  BY <1>1, <1>5, <1>8, <1>11, <1>13, <1>14, LedgerApplied
<1>16. Ledger(spawned', uncounted', file', last', cmds')
  BY <1>2, <1>3, <1>4, <1>15 DEF ApplyCommand
<1> QED
  BY <1>7, <1>9, <1>10, <1>16 DEF BudgetInv

LEMMA LoseBudget ==
    ASSUME BudgetPremise, Inv, BudgetInv, NEW i \in DOMAIN cmds, LoseCommand(i)
    PROVE  BudgetInv'
<1>1. PICK rest : rest = cmds'
  OBVIOUS
<1>2. PICK more : more = uncounted'
  OBVIOUS
<1>3. GoodCmds(rest, clock) /\ HoldsRest(rest, cmds, i)
  BY <1>1, Taken DEF Inv, Commands, LoseCommand
<1>4. BudgetCmds'
  BY <1>1, <1>3 DEF BudgetInv, BudgetCmds, HoldsRest
<1>5. BudgetEdits'
  BY SpentBudget DEF Inv, BudgetInv, LoseCommand
<1>6. BudgetRecords'
  BY DEF BudgetInv, BudgetRecords, LoseCommand, memory
<1>7. /\ Ledger(spawned, uncounted, file, last, cmds)
      /\ MaxRuns \in Nat
      /\ file.trig \in Nat
      /\ BudgetCmd(cmds[i])
  BY MaxRunsNatural DEF BudgetInv, BudgetCmds, BudgetRecords, Budgeted
<1>8. more = IF Counts(cmds[i]) THEN uncounted + 1 ELSE uncounted
  BY <1>2 DEF LoseCommand
<1>9. Ledger(spawned, more, file, last, rest)
  BY <1>3, <1>7, <1>8, LedgerLost
<1>10. Ledger(spawned', uncounted', file', last', cmds')
  BY <1>1, <1>2, <1>9 DEF LoseCommand
<1> QED
  BY <1>4, <1>5, <1>6, <1>10 DEF BudgetInv

LEMMA EditBudget ==
    ASSUME BudgetPremise, Inv, BudgetInv, NEW patch \in left.patch, EditTask(patch)
    PROVE  BudgetInv'
<1>1. PICK new : new = file'
  OBVIOUS
<1>2. /\ EditKeepsBudget(patch)
      /\ DOMAIN file = Fields
      /\ Budgeted(file)
      /\ file.trig \in Nat
      /\ new = Written(patch, file)
  BY <1>1 DEF BudgetInv, BudgetEdits, BudgetRecords, Budgeted, Inv, Records, GoodRec, EditTask
<1>3. Budgeted(new)
  BY <1>2, WrittenBudgeted DEF EditKeepsBudget
<1>4. BudgetRecords'
  BY <1>1, <1>3, PublishedBudget DEF BudgetInv, EditTask, memory
<1>5. BudgetEdits'
  <2>1. left'.patch = {}
    BY DEF EditTask, Inv, EditsLeft
  <2> QED BY <2>1 DEF BudgetEdits
<1>6. BudgetCmds'
  BY DEF BudgetInv, BudgetCmds, EditTask
<1>7. new.scope = file.scope /\ new.trig = file.trig
  BY <1>2, WrittenScope DEF EditKeepsBudget
<1>8. HoldsPlain(cmds, cmds) /\ Ledger(spawned, uncounted, file, last, cmds)
  BY DEF HoldsPlain, BudgetInv
<1>9. Ledger(spawned, uncounted, new, last, cmds)
  BY <1>2, <1>7, <1>8, LedgerKept
<1>10. Ledger(spawned', uncounted', file', last', cmds')
  BY <1>1, <1>9 DEF EditTask, history
<1> QED
  BY <1>4, <1>5, <1>6, <1>10 DEF BudgetInv

LEMMA JobEndsBudget ==
    ASSUME BudgetPremise, Inv, BudgetInv, NEW class, JobEnds(class)
    PROVE  BudgetInv'
<1>1. PICK sent : sent = cmds'
  OBVIOUS
<1>2. HoldsPlain(sent, cmds) /\ \A k \in DOMAIN sent : BudgetCmd(sent[k])
  <2>1. CASE sent = cmds
    BY <2>1 DEF HoldsPlain, BudgetInv, BudgetCmds
  <2>2. CASE sent = cmds \o <<Update(crashFailureUpdates(running, class)), PublishIncrementTriggerCount>>
    <3>1. PICK c, d : c = Update(crashFailureUpdates(running, class)) /\ d = PublishIncrementTriggerCount
      OBVIOUS
    <3>2. PICK msgs : msgs = <<c, d>>
      OBVIOUS
    <3>3. DOMAIN msgs = {1, 2} /\ msgs[1] = c /\ msgs[2] = d
      BY <3>2
    <3>4. HoldsAll(sent, cmds, msgs)
      BY <2>2, <3>1, <3>2, QueueGrowsByTwo
    <3>5. PlainCmd(c) /\ PlainCmd(d)
      BY <3>1, CrashCmd, PlainCmds DEF JobEnds, BudgetInv, BudgetRecords
    <3>6. \A k \in DOMAIN sent : sent[k] \in {c, d} \/ \E j \in DOMAIN cmds : sent[k] = cmds[j]
      BY <3>3, <3>4 DEF HoldsAll
    <3>7. \A j \in DOMAIN cmds : \E k \in DOMAIN sent : sent[k] = cmds[j]
      BY <3>4 DEF HoldsAll
    <3> QED BY <3>5, <3>6, <3>7 DEF HoldsPlain, PlainCmd, BudgetInv, BudgetCmds
  <2> QED BY <1>1, <2>1, <2>2 DEF JobEnds, NothingSent, Send
<1>3. BudgetCmds'
  BY <1>1, <1>2 DEF BudgetCmds
<1>4. BudgetEdits'
  <2>1. CASE left' = left
    BY <2>1 DEF BudgetInv, BudgetEdits
  <2>2. CASE Spend("crash")
    BY <2>2, SpentBudget DEF Inv, BudgetInv
  <2> QED BY <2>1, <2>2 DEF JobEnds
<1>5. BudgetRecords'
  BY DEF BudgetInv, BudgetRecords, JobEnds, memory
<1>6. Ledger(spawned, uncounted, file, last, cmds) /\ file.trig \in Nat
  BY DEF BudgetInv, BudgetRecords, Budgeted
<1>7. Ledger(spawned, uncounted, file, last, sent)
  BY <1>2, <1>6, LedgerKept
<1>8. Ledger(spawned', uncounted', file', last', cmds')
  BY <1>1, <1>7 DEF JobEnds, history
<1> QED
  BY <1>3, <1>4, <1>5, <1>8 DEF BudgetInv

LEMMA ConsumedBudget ==
    ASSUME Inv, BudgetInv, topic # <<>>, topic' = Tail(topic), view' = Head(topic)
    PROVE  Budgeted(view') /\ \A i \in DOMAIN topic' : Budgeted(topic'[i])
<1>1. PICK n : n = Len(topic)
  OBVIOUS
<1>2. PICK S : S = Range(topic)
  OBVIOUS
<1>3. topic \in Seq(S) /\ n \in Nat /\ DOMAIN topic = 1..n
  BY <1>1, <1>2, LenProperties DEF Inv, Records
<1>4. n # 0
  BY <1>1, <1>3, EmptySeq
<1>5. PICK new : new = topic'
  OBVIOUS
<1>6. /\ view' = topic[1]
      /\ new \in Seq(S)
      /\ Len(new) = n - 1
      /\ \A i \in 1..(n - 1) : new[i] = topic[i + 1]
  BY <1>1, <1>3, <1>5, HeadTailProperties
<1>7. DOMAIN new = 1..(n - 1)
  BY <1>6, LenProperties
<1>8. 1 \in DOMAIN topic /\ \A i \in DOMAIN new : i + 1 \in DOMAIN topic
  BY <1>3, <1>4, <1>7
<1> QED
  BY <1>5, <1>6, <1>7, <1>8 DEF BudgetInv, BudgetRecords

LEMMA ConsumeBudget ==
    ASSUME BudgetPremise, Inv, BudgetInv, NEW full, ConsumeMessage(full)
    PROVE  BudgetInv'
<1>1. PICK rec : rec = Head(topic)
  OBVIOUS
<1>2. topic # <<>> /\ topic' = Tail(topic) /\ view' = rec /\ file' = file
  BY <1>1 DEF ConsumeMessage
<1>3. Budgeted(view') /\ \A i \in DOMAIN topic' : Budgeted(topic'[i])
  BY <1>1, <1>2, ConsumedBudget
<1>4. GoodRec(view', clock) /\ (parked # None /\ stamp = 0 => view'.queued # 0)
  BY <1>1, <1>2, Consumed DEF Inv, Waiting
<1>5. BudgetDriven
  <2>1. CASE Drive(rec, parked, "event", full)
    <3>1. Drives(rec, parked, "event")
      BY <1>2, <1>4 DEF Drives
    <3> QED BY <1>2, <1>3, <2>1, <3>1, DriveBudget
  <2>2. CASE NothingSent /\ UNCHANGED <<parked, stamp>> /\ Stays
    BY <2>2, PlainCmds, StaysBudget
  <2>3. CASE Send(<<PublishTypeMismatchFailure(rec)>>) /\ removeDeferredEntry /\ Stays
    <3>1. PlainCmd(PublishTypeMismatchFailure(rec)) /\ parked' = None
      BY <2>3, PlainCmds DEF removeDeferredEntry
    <3> QED BY <2>3, <3>1, StaysBudget
  <2>4. CASE removeDeferredEntry /\ NothingSent /\ Stays
    BY <2>4, PlainCmds, StaysBudget DEF removeDeferredEntry
  <2> QED BY <1>1, <2>1, <2>2, <2>3, <2>4 DEF ConsumeMessage
<1> QED
  BY <1>2, <1>3, <1>5, DrivenBudget

LEMMA ReconcileBudget ==
    ASSUME BudgetPremise, Inv, BudgetInv, NEW full, ReconcileOnce(full)
    PROVE  BudgetInv'
<1>1. UNCHANGED <<file, topic, view>>
  BY DEF ReconcileOnce
<1>2. Budgeted(view') /\ \A i \in DOMAIN topic' : Budgeted(topic'[i])
  BY <1>1 DEF BudgetInv, BudgetRecords
<1>3. GoodRec(view', clock) /\ (parked # None /\ stamp = 0 => view'.queued # 0)
  BY <1>1, SameRecords
<1>4. PICK config : config = resolveConfigForReconcile(view)
  OBVIOUS
<1>5. BudgetDriven
  <2>1. CASE Drive(view, parked, "reconcile", full)
    <3>1. Drives(view, parked, "reconcile")
      BY <1>1, <1>3 DEF Drives
    <3> QED BY <1>1, <1>2, <2>1, <3>1, DriveBudget
  <2>2. CASE restoreParkedAssignee(config) /\ UNCHANGED <<parked, stamp>> /\ Stays
    <3>1. PICK cmd : cmd = PublishRestoreAssignee(config.assignee)
      OBVIOUS
    <3>2. PlainCmd(cmd) /\ Send(<<cmd>>)
      BY <2>2, <3>1, PlainCmds DEF restoreParkedAssignee
    <3> QED BY <2>2, <3>2, StaysBudget
  <2>3. CASE Send(<<PublishTypeMismatchFailure(view)>>) /\ UNCHANGED <<parked, stamp>> /\ Stays
    <3>1. PlainCmd(PublishTypeMismatchFailure(view))
      BY PlainCmds
    <3> QED BY <2>3, <3>1, StaysBudget
  <2>4. CASE removeDeferredEntry /\ NothingSent /\ Stays
    BY <2>4, PlainCmds, StaysBudget DEF removeDeferredEntry
  <2> QED BY <1>4, <2>1, <2>2, <2>3, <2>4 DEF ReconcileOnce
<1> QED
  BY <1>1, <1>2, <1>5, DrivenBudget

LEMMA DeferredBudget ==
    ASSUME BudgetPremise, Inv, BudgetInv, NEW full, evalDeferredRespawns(full)
    PROVE  BudgetInv'
<1>1. UNCHANGED <<file, topic, view>> /\ parked # None
  BY DEF evalDeferredRespawns
<1>2. Budgeted(view') /\ (\A i \in DOMAIN topic' : Budgeted(topic'[i])) /\ Budgeted(parked)
  BY <1>1 DEF BudgetInv, BudgetRecords
<1>3. Drives(parked, None, "deferred")
  BY <1>1, SameRecords DEF Drives, Inv, Records
<1>4. BudgetDriven
  BY <1>2, <1>3, DriveBudget DEF evalDeferredRespawns
<1> QED
  BY <1>1, <1>2, <1>4, DrivenBudget

LEMMA RestartBudget ==
    ASSUME Inv, BudgetInv, Restart
    PROVE  BudgetInv'
<1>1. BudgetEdits'
  BY SpentBudget DEF Inv, BudgetInv, Restart
<1> QED
  BY <1>1 DEF BudgetInv, BudgetRecords, BudgetCmds, Restart, history

LEMMA NextBudget ==
    ASSUME BudgetPremise
    PROVE  Inv /\ BudgetInv /\ [Next]_vars => BudgetInv'
<1> SUFFICES ASSUME Inv, BudgetInv, [Next]_vars PROVE BudgetInv'
  OBVIOUS
<1>1. CASE UNCHANGED vars
  BY <1>1 DEF BudgetInv, BudgetRecords, BudgetCmds, BudgetEdits, vars
<1>2. ASSUME NEW i \in DOMAIN cmds, NEW clears \in BOOLEAN, ApplyCommand(i, clears) PROVE BudgetInv'
  BY <1>2, ApplyBudget
<1>3. ASSUME NEW i \in DOMAIN cmds, LoseCommand(i) PROVE BudgetInv'
  BY <1>3, LoseBudget
<1>4. ASSUME NEW patch \in left.patch, EditTask(patch) PROVE BudgetInv'
  BY <1>4, EditBudget
<1>5. ASSUME NEW class \in Crashes \union {"success"}, JobEnds(class) PROVE BudgetInv'
  BY <1>5, JobEndsBudget
<1>6. ASSUME NEW full \in BOOLEAN, ConsumeMessage(full) PROVE BudgetInv'
  BY <1>6, ConsumeBudget
<1>7. ASSUME NEW full \in BOOLEAN, ReconcileOnce(full) PROVE BudgetInv'
  BY <1>7, ReconcileBudget
<1>8. ASSUME NEW full \in BOOLEAN, evalDeferredRespawns(full) PROVE BudgetInv'
  BY <1>8, DeferredBudget
<1>9. CASE DedupeExpires
  BY <1>9 DEF BudgetInv, BudgetRecords, BudgetCmds, BudgetEdits, DedupeExpires, history
<1>10. CASE Restart
  BY <1>10, RestartBudget
<1> QED
  BY <1>1, <1>2, <1>3, <1>4, <1>5, <1>6, <1>7, <1>8, <1>9, <1>10 DEF Next

(* A task runs no more often in one scope than its budget allows, but for  *)
(* the counts that were missing in the record a spawn was decided from,    *)
(* were lost, or were overwritten by the count of an older record,         *)
(* whatever is crashed, restarted, parked, replayed, lost or applied late, *)
(* as long as people leave the budget alone (checkTriggerBudget,           *)
(* recordTriggerSpawn).                                                    *)
THEOREM BudgetKept ==
    ASSUME BudgetPremise
    PROVE  Spec => []BudgetHolds
<1>1. BudgetInv => BudgetHolds
  BY MaxRunsNatural DEF BudgetInv, BudgetRecords, Budgeted, Ledger, BudgetHolds
<1>2. Init => Inv /\ BudgetInv
  BY InitInv, InitBudget
<1>3. (Inv /\ BudgetInv) /\ [Next]_vars => (Inv /\ BudgetInv)'
  BY NextInv, NextBudget
<1> QED
  BY <1>1, <1>2, <1>3, PTL DEF Spec

=============================================================================
