------------------------ MODULE RedriveStreakProofs ------------------------
(***************************************************************************)
(* The refs of RedriveStreak for any clusters, phases, cap, window, number *)
(* of attempts and choice of failing requests: two publishers that number  *)
(* their refs from lists that are out of date never give out one number    *)
(* twice, and every ref stems from a failure of its phase.                 *)
(*                                                                         *)
(* That a reported failure is counted is not inductive: its ref comes      *)
(* after its report has begun.  CountInv follows the failure through the   *)
(* report: it is before its put, or has left a ref that is as young.       *)
(***************************************************************************)
EXTENDS RedriveStreak, TLAPS

(* The refs and the reports as records. *)
StreakRef(r) == r = [phase |-> r.phase, n |-> r.n, left |-> r.left, sha |-> r.sha]
ReasonRef(r) == r = [phase |-> r.phase, reason |-> r.reason, n |-> r.n, sha |-> r.sha]
UnderWay(r) == r = [pc |-> r.pc, phase |-> r.phase, reason |-> r.reason, sha |-> r.sha,
                    listed |-> r.listed, attempt |-> r.attempt]

(* A ref or a report stems from a failure of its phase. *)
Stems(r) == r.sha \in DOMAIN failed /\ r.phase = failed[r.sha].phase

TaskType ==
  /\ failed \in Seq([phase : Phases, reason : Kinds, left : 0 .. Window])
  /\ task \in [phase : Phases, status : {"open", "broken", "transient"}]
  /\ left \in Remaining
  /\ job # Nothing => job = [phase |-> job.phase, sha |-> Len(failed) + 1] /\ job.phase \in Phases

ReportType ==
  /\ rep = [c \in Publishers |-> rep[c]]
  /\ \A c \in Publishers : rep[c] = Idle \/ (UnderWay(rep[c]) /\ Stems(rep[c]))

StreaksType ==
  /\ \A r \in streaks : StreakRef(r) /\ Stems(r) /\ r.left \in 0 .. Window
  /\ \A r, s \in streaks : r.phase = s.phase /\ r.n = s.n => r = s

ReasonsType ==
  /\ \A r \in reasons : ReasonRef(r) /\ Stems(r)
  /\ \A r, s \in reasons : r.phase = s.phase /\ r.reason = s.reason /\ r.n = s.n => r = s

StreakInv == TaskType /\ ReportType /\ StreaksType /\ ReasonsType

-----------------------------------------------------------------------------
(* Values. *)

\* What is left of a time after a tick.
LEMMA Ticked ==
  ASSUME NEW x \in 0 .. Window
  PROVE  Max({x - 1, 0}) = IF x = 0 THEN 0 ELSE x - 1
<1> DEFINE m == IF x - 1 >= 0 THEN x - 1 ELSE 0
           P(y) == y \in {x - 1, 0} /\ \A z \in {x - 1, 0} : y >= z
<1>1. x \in Int /\ 0 <= x /\ x <= Window /\ Window \in Nat
  BY RedriveConstants
<1>2. P(m)
  BY <1>1
<1>3. P(Max({x - 1, 0}))
  <2>1. \E y : P(y)
    BY <1>2
  <2>2. Max({x - 1, 0}) = CHOOSE y : P(y)
    BY DEF Max
  <2> HIDE DEF P
  <2> QED
    BY <2>1, <2>2
<1> QED
  BY <1>1, <1>3

\* A failure or a ref after a tick.
Aged(x) == [x EXCEPT !.left = Max({@ - 1, 0})]

\* A failure stays one of its phase.
LEMMA AgedType ==
  ASSUME NEW x \in [phase : Phases, reason : Kinds, left : 0 .. Window]
  PROVE  /\ Aged(x) \in [phase : Phases, reason : Kinds, left : 0 .. Window] /\ Aged(x).phase = x.phase
         /\ Aged(x).left = IF x.left = 0 THEN 0 ELSE x.left - 1
<1> DEFINE m == Max({x.left - 1, 0})
<1>1. m \in 0 .. Window /\ m = IF x.left = 0 THEN 0 ELSE x.left - 1
  BY Ticked, RedriveConstants
<1>2. Aged(x) = [x EXCEPT !.left = m]
  BY DEF Aged
<1> HIDE DEF m
<1> QED
  BY <1>1, <1>2

\* A streak ref keeps all but its time.
LEMMA AgedRef ==
  ASSUME NEW r, StreakRef(r), r.left \in 0 .. Window
  PROVE  /\ StreakRef(Aged(r)) /\ Aged(r).left \in 0 .. Window
         /\ Aged(r).phase = r.phase /\ Aged(r).n = r.n /\ Aged(r).sha = r.sha
         /\ Aged(r).left = IF r.left = 0 THEN 0 ELSE r.left - 1
<1> DEFINE m == Max({r.left - 1, 0})
<1>1. m \in 0 .. Window /\ m = IF r.left = 0 THEN 0 ELSE r.left - 1
  BY Ticked, RedriveConstants
<1>2. Aged(r) = [r EXCEPT !.left = m]
  BY DEF Aged
<1> HIDE DEF m
<1>3. Aged(r) = [phase |-> r.phase, n |-> r.n, left |-> m, sha |-> r.sha]
  BY <1>2 DEF StreakRef
<1> QED
  BY <1>1, <1>3 DEF StreakRef

\* What is known of a failure stays known while failures are only added or get older.
LEMMA StemsKept ==
  ASSUME NEW r, Stems(r), DOMAIN failed \subseteq DOMAIN failed',
         \A i \in DOMAIN failed : failed'[i].phase = failed[i].phase
  PROVE  r.sha \in DOMAIN failed' /\ r.phase = failed'[r.sha].phase
BY DEF Stems

\* The parts, when what they speak of is unchanged.
LEMMA SameParts ==
  ASSUME StreakInv, UNCHANGED failed
  PROVE  /\ UNCHANGED <<task, left, job>> => TaskType'
         /\ UNCHANGED rep => ReportType'
         /\ UNCHANGED streaks => StreaksType'
         /\ UNCHANGED reasons => ReasonsType'
BY DEF StreakInv, TaskType, ReportType, StreaksType, ReasonsType, Stems

\* Fewer refs are refs.
LEMMA FewerRefs ==
  ASSUME StreakInv, UNCHANGED failed
  PROVE  /\ streaks' \subseteq streaks => StreaksType'
         /\ reasons' \subseteq reasons => ReasonsType'
BY DEF StreakInv, StreaksType, ReasonsType, Stems

\* What a request takes away leaves counts.
LEMMA Spent ==
  ASSUME left \in Remaining,
         NEW kind \in {"run", "move", "reopen", "pass", "twice", "read", "put", "clear"},
         Spend(kind)
  PROVE  left' \in Remaining
BY DEF Spend, Remaining

\* A report moves on, and its failure stays the same.
LEMMA ReportMoves ==
  ASSUME StreakInv, UNCHANGED failed, NEW c \in Publishers, rep[c] # Idle,
         NEW r, rep' = [rep EXCEPT ![c] = r],
         r = Idle \/ (UnderWay(r) /\ r.sha = rep[c].sha /\ r.phase = rep[c].phase)
  PROVE  ReportType'
<1>1. rep' = [d \in Publishers |-> rep'[d]]
  BY DEF StreakInv, ReportType
<1>2. ASSUME NEW d \in Publishers
      PROVE  rep'[d] = Idle \/ (UnderWay(rep'[d]) /\ Stems(rep'[d]))
  <2>1. CASE d = c
    <3>1. rep'[d] = r
      BY <2>1 DEF StreakInv, ReportType
    <3>2. Stems(rep[c])
      BY DEF StreakInv, ReportType
    <3> QED
      BY <3>1, <3>2 DEF Stems
  <2>2. CASE d # c
    <3>1. rep'[d] = rep[d]
      BY <2>2 DEF StreakInv, ReportType
    <3> QED
      BY <3>1 DEF StreakInv, ReportType
  <2> QED
    BY <2>1, <2>2
<1>3. \A d \in Publishers : Stems(rep'[d]) => Stems(rep[d])'
  BY DEF Stems
<1> QED
  BY <1>1, <1>2, <1>3 DEF ReportType, UnderWay, Idle

-----------------------------------------------------------------------------
(* The task and its runs. *)

\* A run begins under the number its failure will have, a closed task has its verdict.
LEMMA Decided ==
  ASSUME StreakInv, NEW c \in Publishers, NEW count, NEW list, Decide(c, count, list)
  PROVE  /\ UNCHANGED <<streaks, reasons, rep, failed>>
         /\ task' \in [phase : Phases, status : {"open", "broken", "transient"}]
         /\ job' # Nothing => job' = [phase |-> job'.phase, sha |-> Len(failed') + 1] /\ job'.phase \in Phases
<1> DEFINE verdict == redriveStreakCapped(count, list)
<1>1. UNCHANGED <<streaks, reasons, rep, failed>>
  BY DEF Decide, store
<1>2. \/ task' = task /\ job' = [phase |-> task.phase, sha |-> Len(failed) + 1]
      \/ /\ verdict \in {"broken", "transient"}
         /\ task' = [task EXCEPT !.status = verdict]
         /\ job' = job
  BY DEF Decide, PublishAbort
<1> HIDE DEF verdict
<1> QED
  BY <1>1, <1>2 DEF StreakInv, TaskType

\* A decision and what it spends.
LEMMA DecideKeeps ==
  ASSUME StreakInv, NEW c \in Publishers, NEW count, NEW list, Decide(c, count, list),
         left' \in Remaining
  PROVE  StreakInv'
<1>1. TaskType'
  BY Decided DEF StreakInv, TaskType
<1> QED
  BY <1>1, Decided, SameParts DEF StreakInv

\* What may still happen, with another number of runs or of failing reads.
LEMMA CountSpent ==
  ASSUME NEW b \in Remaining, NEW x \in Int
  PROVE  [b EXCEPT !.run = x] \in Remaining /\ [b EXCEPT !.read = x] \in Remaining
BY DEF Remaining

\* A decision takes a run away when it starts one.
LEMMA LiveSpends ==
  ASSUME StreakInv, left' = [left EXCEPT !.run = IF job' = Nothing THEN @ ELSE @ - 1]
  PROVE  left' \in Remaining
<1> DEFINE x == IF job' = Nothing THEN left.run ELSE left.run - 1
<1>1. left \in Remaining
  BY DEF StreakInv, TaskType
<1>2. x \in Int
  BY <1>1 DEF Remaining
<1>3. left' = [left EXCEPT !.run = x]
  OBVIOUS
<1> HIDE DEF x
<1> QED
  BY <1>1, <1>2, <1>3, CountSpent

\* The decisions: live, with a read that fails, and from the snapshot of a pass.
LEMMA DecidesKeep ==
  ASSUME StreakInv, NEW c \in Publishers,
         \/ DecideLive(c)
         \/ \E count, list : DecideBlind(c, count, list)
         \/ DecideInPass(c)
  PROVE  StreakInv'
<1>1. CASE DecideLive(c)
  <2>1. PICK list \in ReasonLists(reasons, task.phase) : Decide(c, Count(streaks, task.phase), list)
    BY <1>1 DEF DecideLive
  <2>2. left' \in Remaining
    BY <1>1, LiveSpends DEF DecideLive
  <2> QED
    BY <2>1, <2>2, DecideKeeps
<1>2. CASE \E count, list : DecideBlind(c, count, list)
  <2>1. PICK count, list : DecideBlind(c, count, list)
    BY <1>2
  <2>2. left' \in Remaining
    <3> DEFINE x == IF job' = Nothing THEN left.run ELSE left.run - 1
    <3>1. left' = [[left EXCEPT !.read = left.read - 1] EXCEPT !.run = x]
      BY <2>1 DEF DecideBlind
    <3>2. x \in Int /\ left.read - 1 \in Int /\ left \in Remaining
      BY DEF StreakInv, TaskType, Remaining
    <3> HIDE DEF x
    <3>3. [left EXCEPT !.read = left.read - 1] \in Remaining
      BY <3>2, CountSpent
    <3> QED
      BY <3>1, <3>2, <3>3, CountSpent
  <2>3. Decide(c, count, list)
    BY <2>1 DEF DecideBlind
  <2> QED
    BY <2>2, <2>3, DecideKeeps
<1>3. CASE DecideInPass(c)
  <2>1. PICK list : Decide(c, Count(snap[c].streaks, task.phase), list)
    BY <1>3 DEF DecideInPass
  <2>2. left' \in Remaining
    BY <1>3, LiveSpends DEF DecideInPass
  <2> QED
    BY <2>1, <2>2, DecideKeeps
<1> QED
  BY <1>1, <1>2, <1>3

\* A pass reads, and spends one of its kind.
LEMMA PassKeeps ==
  ASSUME StreakInv, NEW c \in Publishers, StartPass(c) \/ PassReasons(c) \/ EndPass(c)
  PROVE  StreakInv'
<1>1. UNCHANGED <<streaks, reasons, task, job, rep, failed>>
  BY DEF StartPass, PassReasons, EndPass, store, history
<1>2. left' \in Remaining
  BY Spent DEF StartPass, PassReasons, EndPass, StreakInv, TaskType
<1>3. TaskType'
  BY <1>1, <1>2 DEF StreakInv, TaskType
<1> QED
  BY <1>1, <1>3, SameParts DEF StreakInv

\* The task moves to another phase, is opened again, or its closing is consumed.
LEMMA TaskMoves ==
  ASSUME StreakInv,
         (\E phase \in Phases : PhaseMoves(phase)) \/ Reopen
  PROVE  StreakInv'
<1>1. UNCHANGED <<streaks, reasons, job, rep, failed>>
  BY DEF PhaseMoves, Reopen, store, history
<1>2. left' \in Remaining
  BY Spent DEF PhaseMoves, Reopen, StreakInv, TaskType
<1>3. task' \in [phase : Phases, status : {"open", "broken", "transient"}]
  BY DEF PhaseMoves, Reopen, StreakInv, TaskType
<1>4. TaskType'
  BY <1>1, <1>2, <1>3 DEF StreakInv, TaskType
<1> QED
  BY <1>1, <1>4, SameParts DEF StreakInv

\* clearRedriveStreak: the refs go, or stay when the request fails.
LEMMA ClearKeeps ==
  ASSUME StreakInv, NEW c \in Publishers, NEW fails \in BOOLEAN, clearRedriveStreak(c, fails)
  PROVE  StreakInv'
<1>1. UNCHANGED <<task, job, rep, failed>>
  BY DEF clearRedriveStreak
<1>2. left' \in Remaining
  BY Spent DEF clearRedriveStreak, StreakInv, TaskType
<1>3. streaks' \subseteq streaks /\ reasons' \subseteq reasons
  BY DEF clearRedriveStreak, clearRedriveRefs, store
<1>4. TaskType'
  BY <1>1, <1>2 DEF StreakInv, TaskType
<1> QED
  BY <1>1, <1>3, <1>4, SameParts, FewerRefs DEF StreakInv

\* Older failures are the same failures, and refs lose their time, not their number.
LEMMA TickKeeps ==
  ASSUME StreakInv, Tick
  PROVE  StreakInv'
<1> DEFINE F == [phase : Phases, reason : Kinds, left : 0 .. Window]
<1>1. /\ UNCHANGED <<reasons, task, job, rep, left>>
      /\ failed' = [i \in DOMAIN failed |-> Aged(failed[i])]
      /\ streaks' = {Aged(r) : r \in streaks}
  BY DEF Tick, Aged
<1>2. /\ failed' \in Seq(F)
      /\ Len(failed') = Len(failed) /\ DOMAIN failed' = DOMAIN failed
      /\ \A i \in DOMAIN failed : failed'[i].phase = failed[i].phase
  <2>1. failed \in Seq(F) /\ DOMAIN failed = 1 .. Len(failed) /\ Len(failed) \in Nat
    BY DEF StreakInv, TaskType
  <2>2. \A x \in F : Aged(x) \in F /\ Aged(x).phase = x.phase
    BY AgedType
  <2> HIDE DEF F
  <2>3. \A i \in 1 .. Len(failed) : failed[i] \in F
    BY <2>1
  <2>4. failed' = [i \in 1 .. Len(failed) |-> Aged(failed[i])]
    BY <1>1, <2>1
  <2>5. failed' \in [1 .. Len(failed) -> F]
    BY <2>2, <2>3, <2>4
  <2>6. failed' \in Seq(F) /\ Len(failed') = Len(failed) /\ DOMAIN failed' = 1 .. Len(failed)
    BY <2>1, <2>5
  <2> QED
    BY <2>1, <2>2, <2>3, <2>4, <2>6
<1>3. TaskType'
  BY <1>1, <1>2 DEF StreakInv, TaskType
<1>4. \A r : Stems(r) => r.sha \in DOMAIN failed' /\ r.phase = failed'[r.sha].phase
  BY <1>2 DEF Stems
<1>5. ReportType'
  <2>1. \A c \in Publishers : Stems(rep[c]) => Stems(rep[c])'
    BY <1>1, <1>4 DEF Stems
  <2> QED
    BY <1>1, <2>1 DEF StreakInv, ReportType, UnderWay
<1>6. ReasonsType'
  <2>1. \A r \in reasons : Stems(r) => Stems(r)'
    BY <1>4 DEF Stems
  <2> QED
    BY <1>1, <2>1 DEF StreakInv, ReasonsType
<1>7. StreaksType'
  <2>1. ASSUME NEW r \in streaks
        PROVE  /\ StreakRef(Aged(r)) /\ Aged(r).left \in 0 .. Window
               /\ Aged(r).phase = r.phase /\ Aged(r).n = r.n
               /\ Aged(r).sha \in DOMAIN failed' /\ Aged(r).phase = failed'[Aged(r).sha].phase
    <3>1. StreakRef(r) /\ Stems(r) /\ r.left \in 0 .. Window
      BY DEF StreakInv, StreaksType
    <3>2. r.sha \in DOMAIN failed' /\ r.phase = failed'[r.sha].phase
      BY <3>1, <1>4
    <3> QED
      BY <3>1, <3>2, AgedRef
  <2>2. \A r, s \in streaks : r.phase = s.phase /\ r.n = s.n => r = s
    BY DEF StreakInv, StreaksType
  <2>3. \A r \in streaks' : /\ StreakRef(r) /\ r.left \in 0 .. Window
                           /\ r.sha \in DOMAIN failed' /\ r.phase = failed'[r.sha].phase
    BY <1>1, <2>1
  <2>4. \A r, s \in streaks' : r.phase = s.phase /\ r.n = s.n => r = s
    BY <1>1, <2>1, <2>2
  <2> QED
    BY <2>3, <2>4 DEF StreaksType, Stems
<1> QED
  BY <1>3, <1>5, <1>6, <1>7 DEF StreakInv

\* The failure of the Job is the next one, and its reports are about it.
LEMMA FailKeeps ==
  ASSUME StreakInv, NEW reason \in left.kinds, NEW watchers \in SUBSET Publishers,
         JobFails(reason, watchers)
  PROVE  StreakInv'
<1> DEFINE f == [phase |-> job.phase, reason |-> reason, left |-> Window]
           F == [phase : Phases, reason : Kinds, left : 0 .. Window]
<1>1. /\ job = [phase |-> job.phase, sha |-> Len(failed) + 1] /\ job.phase \in Phases
      /\ failed \in Seq(F) /\ left \in Remaining
  BY DEF JobFails, StreakInv, TaskType
<1>2. f \in F
  BY <1>1, RedriveConstants DEF Remaining
<1>3. failed' = Append(failed, f)
  BY DEF JobFails
<1> HIDE DEF f, F
<1>4. /\ failed' \in Seq(F)
      /\ DOMAIN failed \subseteq DOMAIN failed'
      /\ \A i \in DOMAIN failed : failed'[i] = failed[i]
      /\ Len(failed) + 1 \in DOMAIN failed' /\ failed'[Len(failed) + 1] = f
  BY <1>1, <1>2, <1>3
<1>5. left' \in Remaining
  BY <1>1, Spent DEF JobFails
<1>6. TaskType'
  BY <1>4, <1>5 DEF JobFails, StreakInv, TaskType, F
<1>7. ReportType'
  <2> DEFINE new == Report(reason)
  <2>1. rep' = [c \in Publishers |-> IF c \in watchers THEN new ELSE rep[c]]
    BY DEF JobFails
  <2>2. UnderWay(new) /\ new.sha = Len(failed) + 1 /\ new.phase = job.phase
    BY <1>1 DEF Report, UnderWay
  <2>3. new.phase = failed'[new.sha].phase /\ new.sha \in DOMAIN failed'
    BY <1>4, <2>2 DEF f
  <2> HIDE DEF new
  <2>4. ASSUME NEW c \in Publishers
        PROVE  rep'[c] = Idle \/ (UnderWay(rep'[c]) /\ Stems(rep[c])')
    <3>1. CASE c \in watchers
      BY <2>1, <2>2, <2>3, <3>1 DEF Stems
    <3>2. CASE c \notin watchers
      <4>1. rep'[c] = rep[c]
        BY <2>1, <3>2
      <4>2. Stems(rep[c]) => rep[c].sha \in DOMAIN failed' /\ rep[c].phase = failed'[rep[c].sha].phase
        BY <1>4 DEF Stems
      <4>3. rep[c] = Idle \/ (UnderWay(rep[c]) /\ Stems(rep[c]))
        BY DEF StreakInv, ReportType
      <4> QED
        BY <4>1, <4>2, <4>3 DEF Stems
    <3> QED
      BY <3>1, <3>2
  <2>5. rep' = [c \in Publishers |-> rep'[c]]
    BY <2>1
  <2> QED
    BY <2>4, <2>5 DEF ReportType, UnderWay, Idle
<1>8. UNCHANGED <<streaks, reasons>>
  BY DEF JobFails, store
<1>9. \A r : Stems(r) => r.sha \in DOMAIN failed' /\ r.phase = failed'[r.sha].phase
  BY <1>4 DEF Stems
<1>10. StreaksType' /\ ReasonsType'
  BY <1>8, <1>9 DEF StreakInv, StreaksType, ReasonsType, Stems
<1> QED
  BY <1>6, <1>7, <1>10 DEF StreakInv

-----------------------------------------------------------------------------
(* The reports. *)

\* The count and the clear at the start of a streak.
LEMMA FailureKeeps ==
  ASSUME StreakInv, NEW c \in Publishers, NEW fails \in BOOLEAN,
         recordRedriveFailure(c, fails) \/ clearReasonsForNewStreak(c, fails)
  PROVE  StreakInv'
<1>1. UNCHANGED <<streaks, task, job, failed>> /\ reasons' \subseteq reasons
  BY DEF recordRedriveFailure, clearReasonsForNewStreak, clearRedriveRefs, store
<1>2. left' \in Remaining
  BY Spent DEF recordRedriveFailure, clearReasonsForNewStreak, StreakInv, TaskType
<1>3. TaskType'
  BY <1>1, <1>2 DEF StreakInv, TaskType
<1>4. PICK pc : rep' = [rep EXCEPT ![c] = [rep[c] EXCEPT !.pc = pc]]
  <2>1. \E pc : ReportGoes(c, pc)
    BY DEF recordRedriveFailure, clearReasonsForNewStreak
  <2> QED
    BY <2>1 DEF ReportGoes
<1>5. rep[c] # Idle
  BY DEF recordRedriveFailure, clearReasonsForNewStreak, Idle
<1> DEFINE r == [rep[c] EXCEPT !.pc = pc]
<1>6. UnderWay(r) /\ r.sha = rep[c].sha /\ r.phase = rep[c].phase
  BY <1>5 DEF StreakInv, ReportType, UnderWay
<1>7. rep' = [rep EXCEPT ![c] = r]
  BY <1>4
<1> HIDE DEF r
<1>8. ReportType'
  BY <1>1, <1>5, <1>6, <1>7, ReportMoves
<1> QED
  BY <1>1, <1>3, <1>8, SameParts, FewerRefs DEF StreakInv

\* The updates of a report: its failure stays.
LEMMA ReportFields ==
  ASSUME NEW r, UnderWay(r), NEW x
  PROVE  /\ [r EXCEPT !.pc = x] = [pc |-> x, phase |-> r.phase, reason |-> r.reason, sha |-> r.sha,
                                   listed |-> r.listed, attempt |-> r.attempt]
         /\ [r EXCEPT !.listed = x] = [pc |-> r.pc, phase |-> r.phase, reason |-> r.reason, sha |-> r.sha,
                                       listed |-> x, attempt |-> r.attempt]
         /\ [r EXCEPT !.attempt = x] = [pc |-> r.pc, phase |-> r.phase, reason |-> r.reason, sha |-> r.sha,
                                        listed |-> r.listed, attempt |-> x]
BY DEF UnderWay

Updated(r, x, y, z) == [r EXCEPT !.pc = x, !.listed = y, !.attempt = z]

\* Several of them at once.
LEMMA ReportUpdates ==
  ASSUME NEW r, UnderWay(r), NEW x, NEW y, NEW z
  PROVE  Updated(r, x, y, z) = [pc |-> x, phase |-> r.phase, reason |-> r.reason, sha |-> r.sha,
                                listed |-> y, attempt |-> z]
<1> DEFINE a == [r EXCEPT !.pc = x]
           b == [a EXCEPT !.listed = y]
           d == [b EXCEPT !.attempt = z]
<1>1. a = [pc |-> x, phase |-> r.phase, reason |-> r.reason, sha |-> r.sha,
           listed |-> r.listed, attempt |-> r.attempt]
  BY ReportFields
<1>2. b = [pc |-> x, phase |-> r.phase, reason |-> r.reason, sha |-> r.sha,
           listed |-> y, attempt |-> r.attempt]
  <2> HIDE DEF a
  <2> QED
    BY <1>1
<1>3. d = [pc |-> x, phase |-> r.phase, reason |-> r.reason, sha |-> r.sha,
           listed |-> y, attempt |-> z]
  <2> HIDE DEF b
  <2> QED
    BY <1>2
<1>4. Updated(r, x, y, z) = d
  BY DEF Updated
<1> QED
  BY <1>3, <1>4, Zenon

\* The list, which the first attempt of the streak prunes.
LEMMA ListKeeps ==
  ASSUME StreakInv, NEW c \in Publishers, redriveListForTask(c)
  PROVE  StreakInv'
<1>1. UNCHANGED <<reasons, task, job, left, failed>> /\ streaks' \subseteq streaks
  BY DEF redriveListForTask, pruneExpired, history
<1>2. TaskType'
  BY <1>1, SameParts
<1>3. rep[c] # Idle
  BY DEF redriveListForTask, Idle
<1> DEFINE pc == IF rep[c].pc = "list" THEN "put" ELSE "rput"
           listed == IF rep[c].pc = "list" THEN streaks' ELSE reasons
           r == [[rep[c] EXCEPT !.pc = pc] EXCEPT !.listed = listed]
<1>4. rep' = [rep EXCEPT ![c] = r]
  BY DEF redriveListForTask, StreakInv, ReportType
<1>5. UnderWay(r) /\ r.sha = rep[c].sha /\ r.phase = rep[c].phase
  <2> HIDE DEF pc, listed
  <2>1. UnderWay(rep[c])
    BY <1>3 DEF StreakInv, ReportType
  <2>2. r = [pc |-> pc, phase |-> rep[c].phase, reason |-> rep[c].reason, sha |-> rep[c].sha,
             listed |-> listed, attempt |-> rep[c].attempt]
    <3> DEFINE a == [rep[c] EXCEPT !.pc = pc]
    <3>1. a = [pc |-> pc, phase |-> rep[c].phase, reason |-> rep[c].reason, sha |-> rep[c].sha,
               listed |-> rep[c].listed, attempt |-> rep[c].attempt]
      BY <2>1, ReportFields
    <3> HIDE DEF a
    <3>2. r = [a EXCEPT !.listed = listed]
      BY DEF a
    <3> HIDE DEF r
    <3> QED
      BY <3>1, <3>2
  <2> HIDE DEF r
  <2> QED
    BY <2>2 DEF UnderWay
<1> HIDE DEF r
<1>6. ReportType'
  BY <1>1, <1>3, <1>4, <1>5, ReportMoves
<1> QED
  BY <1>1, <1>2, <1>6, SameParts, FewerRefs DEF StreakInv

\* What follows an attempt, a conflict or not.
LEMMA AfterKeeps ==
  ASSUME StreakInv, UNCHANGED failed, NEW c \in Publishers, rep[c] # Idle,
         NEW conflict \in BOOLEAN, After(c, conflict)
  PROVE  ReportType'
<1> DEFINE again == [pc |-> IF rep[c].pc = "put" THEN "list" ELSE "rlist", phase |-> rep[c].phase,
                     reason |-> rep[c].reason, sha |-> rep[c].sha,
                     listed |-> {}, attempt |-> rep[c].attempt + 1]
           step == [pc |-> "rlist", phase |-> rep[c].phase, reason |-> rep[c].reason,
                    sha |-> rep[c].sha, listed |-> {}, attempt |-> 1]
           r == IF conflict /\ rep[c].attempt < MaxAttempts THEN again
                ELSE IF rep[c].pc \in {"list", "put"} THEN step ELSE Idle
<1>1. UnderWay(rep[c])
  BY DEF StreakInv, ReportType
<1>2. Updated(rep[c], IF rep[c].pc = "put" THEN "list" ELSE "rlist", {}, rep[c].attempt + 1) = again
  BY <1>1, ReportUpdates
<1>3. ReasonStep(c) = step
  <2>1. ReasonStep(c) = Updated(rep[c], "rlist", {}, 1)
    BY DEF ReasonStep, Updated
  <2> QED
    BY <1>1, <2>1, ReportUpdates
<1>4. rep' = [rep EXCEPT ![c] = r]
  <2> DEFINE pc == IF rep[c].pc = "put" THEN "list" ELSE "rlist"
             s == IF conflict /\ rep[c].attempt < MaxAttempts
                  THEN Updated(rep[c], pc, {}, rep[c].attempt + 1)
                  ELSE IF rep[c].pc \in {"list", "put"} THEN ReasonStep(c) ELSE Idle
  <2>1. rep' = [rep EXCEPT ![c] = s]
    BY DEF After, Updated
  <2>2. s = r
    BY <1>2, <1>3
  <2> QED
    BY <2>1, <2>2
<1>5. r = Idle \/ (UnderWay(r) /\ r.sha = rep[c].sha /\ r.phase = rep[c].phase)
  BY DEF UnderWay
<1> HIDE DEF r
<1> QED
  BY <1>4, <1>5, ReportMoves

\* A list or a put that fails.
LEMMA FailsKeeps ==
  ASSUME StreakInv, NEW c \in Publishers, RecordFails(c)
  PROVE  StreakInv'
<1>1. UNCHANGED <<streaks, reasons, task, job, failed>>
  BY DEF RecordFails, store
<1>2. left' \in Remaining
  BY Spent DEF RecordFails, StreakInv, TaskType
<1>3. TaskType'
  BY <1>1, <1>2 DEF StreakInv, TaskType
<1>4. rep[c] # Idle
  BY DEF RecordFails, Idle
<1>5. ReportType'
  BY <1>1, <1>4, AfterKeeps DEF RecordFails
<1> QED
  BY <1>1, <1>3, <1>5, SameParts DEF StreakInv

\* The put of the streak ref: the key was free in the store, whatever the list said.
LEMMA StreakKeeps ==
  ASSUME StreakInv, NEW c \in Publishers, recordRedriveStreak(c)
  PROVE  StreakInv'
<1> DEFINE n == nextRedriveNumber(rep[c].listed, rep[c].phase)
           conflict == Taken(streaks, [phase |-> rep[c].phase, n |-> n])
           ref == [phase |-> rep[c].phase, n |-> n, left |-> Window, sha |-> rep[c].sha]
<1>1. UNCHANGED <<reasons, task, job, left, failed>>
  BY DEF recordRedriveStreak
<1>2. rep[c] # Idle
  BY DEF recordRedriveStreak, Idle
<1>3. ReportType'
  <2>1. conflict \in BOOLEAN /\ After(c, conflict)
    BY DEF recordRedriveStreak, Taken
  <2> HIDE DEF conflict
  <2> QED
    BY <1>1, <1>2, <2>1, AfterKeeps
<1>4. streaks' \subseteq streaks \union {ref} /\ (conflict => streaks' = streaks)
  BY DEF recordRedriveStreak, Created, redriveDeleteOtherPhases
<1> HIDE DEF n
<1>5. ASSUME ~conflict, NEW r \in streaks PROVE ~(r.phase = rep[c].phase /\ r.n = n)
  <2> DEFINE key == [phase |-> rep[c].phase, n |-> n]
  <2>1. DOMAIN key = {"phase", "n"} /\ key["phase"] = rep[c].phase /\ key["n"] = n
    OBVIOUS
  <2>2. \E f \in DOMAIN key : r[f] # key[f]
    BY <1>5 DEF Taken
  <2> HIDE DEF key
  <2> QED
    BY <2>1, <2>2
<1>6. StreakRef(ref) /\ Stems(ref) /\ ref.left \in 0 .. Window /\ ref.phase = rep[c].phase /\ ref.n = n
  BY <1>2, RedriveConstants DEF StreakRef, Stems, StreakInv, ReportType
<1>7. StreaksType'
  <2>1. CASE conflict
    BY <1>1, <1>4, <2>1, SameParts
  <2>2. CASE ~conflict
    <3> HIDE DEF conflict, ref
    <3>1. \A r \in streaks' : StreakRef(r) /\ Stems(r) /\ r.left \in 0 .. Window
      BY <1>4, <1>6 DEF StreakInv, StreaksType
    <3>2. \A r, s \in streaks' : r.phase = s.phase /\ r.n = s.n => r = s
      BY <1>4, <1>5, <1>6, <2>2 DEF StreakInv, StreaksType
    <3> QED
      BY <1>1, <3>1, <3>2 DEF StreaksType, Stems
  <2> QED
    BY <2>1, <2>2
<1> QED
  BY <1>1, <1>3, <1>7, SameParts DEF StreakInv

\* The put of the reason ref.
LEMMA ReasonKeeps ==
  ASSUME StreakInv, NEW c \in Publishers, recordRedriveReason(c)
  PROVE  StreakInv'
<1> DEFINE n == nextRedriveNumber(rep[c].listed, rep[c].phase)
           conflict == Taken(reasons, [phase |-> rep[c].phase, reason |-> rep[c].reason, n |-> n])
           ref == [phase |-> rep[c].phase, reason |-> rep[c].reason, n |-> n, sha |-> rep[c].sha]
<1>1. UNCHANGED <<streaks, task, job, left, failed>>
  BY DEF recordRedriveReason, history
<1>2. rep[c] # Idle
  BY DEF recordRedriveReason, Idle
<1>3. ReportType'
  <2>1. conflict \in BOOLEAN /\ After(c, conflict)
    BY DEF recordRedriveReason, Taken
  <2> HIDE DEF conflict
  <2> QED
    BY <1>1, <1>2, <2>1, AfterKeeps
<1>4. reasons' \subseteq reasons \union {ref} /\ (conflict => reasons' = reasons)
  BY DEF recordRedriveReason, Created, redriveDeleteOtherPhases
<1> HIDE DEF n
<1>5. ASSUME ~conflict, NEW r \in reasons
      PROVE  ~(r.phase = rep[c].phase /\ r.reason = rep[c].reason /\ r.n = n)
  <2> DEFINE key == [phase |-> rep[c].phase, reason |-> rep[c].reason, n |-> n]
  <2>1. /\ DOMAIN key = {"phase", "reason", "n"} /\ key["phase"] = rep[c].phase
        /\ key["reason"] = rep[c].reason /\ key["n"] = n
    OBVIOUS
  <2>2. \E f \in DOMAIN key : r[f] # key[f]
    BY <1>5 DEF Taken
  <2> HIDE DEF key
  <2> QED
    BY <2>1, <2>2
<1>6. /\ ReasonRef(ref) /\ Stems(ref)
      /\ ref.phase = rep[c].phase /\ ref.reason = rep[c].reason /\ ref.n = n
  BY <1>2 DEF ReasonRef, Stems, StreakInv, ReportType
<1>7. ReasonsType'
  <2>1. CASE conflict
    BY <1>1, <1>4, <2>1, SameParts
  <2>2. CASE ~conflict
    <3> HIDE DEF conflict, ref
    <3>1. \A r \in reasons' : ReasonRef(r) /\ Stems(r)
      BY <1>4, <1>6 DEF StreakInv, ReasonsType
    <3>2. \A r, s \in reasons' : r.phase = s.phase /\ r.reason = s.reason /\ r.n = s.n => r = s
      BY <1>4, <1>5, <1>6, <2>2 DEF StreakInv, ReasonsType
    <3> QED
      BY <1>1, <3>1, <3>2 DEF ReasonsType, Stems
  <2> QED
    BY <2>1, <2>2
<1> QED
  BY <1>1, <1>3, <1>7, SameParts DEF StreakInv

-----------------------------------------------------------------------------
\* No failure, no refs, no reports.
LEMMA StreakInit ==
  ASSUME RedriveInit
  PROVE  StreakInv
<1>1. left \in Remaining
  BY RedriveConstants DEF RedriveInit
<1>2. failed \in Seq([phase : Phases, reason : Kinds, left : 0 .. Window])
  BY DEF RedriveInit
<1> QED
  BY <1>1, <1>2, RedriveConstants DEF RedriveInit, StreakInv, TaskType, ReportType, StreaksType, ReasonsType

\* Every action preserves the invariant.
LEMMA StreakNext ==
  ASSUME StreakInv, [RedriveNext]_redriveVars
  PROVE  StreakInv'
<1>1. ASSUME NEW c \in Deciders,
             \/ DecideLive(c)
             \/ \E list \in ReasonLists(reasons, task.phase) : DecideBlind(c, inMemoryRedriveCount(c), list)
             \/ DecideBlind(c, Count(streaks, task.phase), <<>>)
             \/ Passing(c)
      PROVE  StreakInv'
  <2>1. \/ DecideLive(c)
        \/ \E count, list : DecideBlind(c, count, list)
        \/ DecideInPass(c)
        \/ StartPass(c) \/ PassReasons(c) \/ EndPass(c)
    BY <1>1, Zenon DEF Passing
  <2> QED
    BY <2>1, DecidesKeep, PassKeeps, RedriveConstants
<1>2. ASSUME NEW c \in Publishers, Reporting(c) PROVE StreakInv'
  BY <1>2, FailureKeeps, ListKeeps, StreakKeeps, ReasonKeeps, FailsKeeps DEF Reporting
<1>3. ASSUME NEW c \in Publishers, \E fails \in BOOLEAN : clearRedriveStreak(c, fails) PROVE StreakInv'
  BY <1>3, ClearKeeps
<1>4. ASSUME NEW reason \in left.kinds, NEW watchers \in SUBSET Publishers \ {{}}, JobFails(reason, watchers)
      PROVE  StreakInv'
  BY <1>4, FailKeeps
<1>5. CASE (\E phase \in Phases : PhaseMoves(phase)) \/ Reopen
  BY <1>5, TaskMoves
<1>6. CASE Tick
  BY <1>6, TickKeeps
<1>7. CASE UNCHANGED redriveVars
  <2>1. UNCHANGED <<streaks, reasons, task, job, rep, failed, left>>
    BY <1>7 DEF redriveVars
  <2> QED
    BY <2>1, SameParts DEF StreakInv
<1> QED
  BY <1>1, <1>2, <1>3, <1>4, <1>5, <1>6, <1>7 DEF RedriveNext

(* Whatever lists are out of date, requests fail, phases move and tasks    *)
(* are closed while failures are reported: no number is given out twice,   *)
(* and every ref is of a failure that happened in its phase (recordRedriveRef, *)
(* redriveDeleteOtherPhases).                                              *)
THEOREM RefsNumberedOnce == RedriveSpec => []StreakTypeOK
<1>1. RedriveInit => StreakInv
  BY StreakInit
<1>2. StreakInv /\ [RedriveNext]_redriveVars => StreakInv'
  BY StreakNext
<1>3. StreakInv => StreakTypeOK
  BY DEF StreakInv, StreaksType, ReasonsType, Stems, StreakTypeOK
<1> QED
  BY <1>1, <1>2, <1>3, PTL DEF RedriveSpec

-----------------------------------------------------------------------------
(* Every failure counts. *)

(* The report of the failure is before its put, or it has left a ref that  *)
(* is as young as the failure.                                             *)
Tracked(i, c) ==
  \/ rep[c].pc \in {"count", "clear", "list", "put"} /\ rep[c].sha = i
  \/ \E r \in streaks : r.sha = i /\ r.left >= failed[i].left

(* The failures that FailureCounted is about, their reports over or not. *)
Counts(i, c) ==
  /\ lost = {} /\ task.status = "open"
  /\ failed[i].left > 0 /\ <<i, c>> \in own
  /\ \A j \in DOMAIN failed : failed[j].phase = failed[i].phase

TrackInv == \A i \in DOMAIN failed, c \in Publishers : Counts(i, c) => Tracked(i, c)

(* A task that is open has no closing to be consumed, and the present      *)
(* streak consists of failures that happened.                              *)
OpenInv ==
  /\ task.status = "open" => ending = {}
  /\ \A i, c : <<i, c>> \in own => i \in DOMAIN failed

CountInv == StreakInv /\ OpenInv /\ TrackInv

\* No new failure, and what is tracked stays tracked.
LEMMA TrackKept ==
  ASSUME CountInv, UNCHANGED failed, own' \subseteq own, lost' = {} => lost = {},
         task'.status = "open" => (task.status = "open" \/ own' = {}),
         \A i \in DOMAIN failed, c \in Publishers : Counts(i, c) /\ lost' = {} /\ Tracked(i, c) => Tracked(i, c)'
  PROVE  TrackInv'
<1> SUFFICES ASSUME NEW i \in DOMAIN failed, NEW c \in Publishers, Counts(i, c)'
             PROVE  Tracked(i, c)'
  BY DEF TrackInv
<1>1. Counts(i, c) /\ lost' = {}
  BY DEF Counts
<1> QED
  BY <1>1 DEF CountInv, TrackInv

\* ... which it does while reports and refs stay as they are.
LEMMA TrackSame ==
  ASSUME CountInv, UNCHANGED <<failed, rep, streaks>>, own' \subseteq own, lost \subseteq lost',
         task'.status = "open" => (task.status = "open" \/ own' = {})
  PROVE  TrackInv'
<1>1. lost' = {} => lost = {}
  OBVIOUS
<1>2. \A i \in DOMAIN failed, c \in Publishers : Tracked(i, c) => Tracked(i, c)'
  BY DEF Tracked
<1> QED
  BY <1>1, <1>2, TrackKept

\* The decisions and the passes.
LEMMA DecideTracks ==
  ASSUME CountInv, NEW c \in Publishers, NEW count, NEW list, Decide(c, count, list), lost \subseteq lost'
  PROVE  OpenInv' /\ TrackInv'
<1> DEFINE verdict == redriveStreakCapped(count, list)
<1>1. UNCHANGED <<streaks, rep, failed, own>> /\ task.status = "open"
  BY DEF Decide, store
<1>2. \/ UNCHANGED <<task, ending>>
      \/ /\ verdict \in {"broken", "transient"}
         /\ task' = [task EXCEPT !.status = verdict]
  BY DEF Decide, PublishAbort
<1> HIDE DEF verdict
<1>3. OpenInv'
  BY <1>1, <1>2 DEF CountInv, OpenInv, StreakInv, TaskType
<1> QED
  BY <1>1, <1>3, TrackSame

\* ... live, with a read that fails, and from the snapshot of a pass.
LEMMA DecidesTrack ==
  ASSUME CountInv, NEW c \in Publishers,
         \/ DecideLive(c)
         \/ \E count, list : DecideBlind(c, count, list)
         \/ DecideInPass(c)
  PROVE  OpenInv' /\ TrackInv'
<1>1. lost \subseteq lost' /\ \E count, list : Decide(c, count, list)
  BY DEF DecideLive, DecideBlind, DecideInPass
<1> QED
  BY <1>1, DecideTracks

\* A pass only reads.
LEMMA PassTracks ==
  ASSUME CountInv, NEW c \in Publishers, StartPass(c) \/ PassReasons(c) \/ EndPass(c)
  PROVE  OpenInv' /\ TrackInv'
<1>1. UNCHANGED <<streaks, task, rep, failed, own, lost, ending>>
  BY DEF StartPass, PassReasons, EndPass, store, history
<1> QED
  BY <1>1, TrackSame DEF CountInv, OpenInv

\* A task that moves, or is opened again with a new streak.
LEMMA TaskTracks ==
  ASSUME CountInv, (\E phase \in Phases : PhaseMoves(phase)) \/ Reopen
  PROVE  OpenInv' /\ TrackInv'
<1>1. /\ UNCHANGED <<streaks, rep, failed, lost, ending>> /\ own' \subseteq own
      /\ (ending = {} /\ own' = {}) \/ task.status = "open"
  BY DEF PhaseMoves, Reopen, store, history
<1> QED
  BY <1>1, TrackSame DEF CountInv, OpenInv

\* Refs are cleared only while the task is closed.
LEMMA ClearTracks ==
  ASSUME CountInv, NEW c \in Publishers, NEW fails \in BOOLEAN, clearRedriveStreak(c, fails)
  PROVE  OpenInv' /\ TrackInv'
<1>1. c \in ending /\ UNCHANGED <<task, failed, own>>
  BY DEF clearRedriveStreak
<1>2. task'.status # "open"
  BY <1>1 DEF CountInv, OpenInv
<1> QED
  BY <1>1, <1>2 DEF CountInv, OpenInv, TrackInv, Counts

\* A failure and the refs it left get older together.
LEMMA TickTracks ==
  ASSUME CountInv, Tick
  PROVE  OpenInv' /\ TrackInv'
<1>1. /\ UNCHANGED <<task, rep, ending, own, lost>>
      /\ failed' = [i \in DOMAIN failed |-> Aged(failed[i])]
      /\ streaks' = {Aged(r) : r \in streaks}
      /\ \A c \in Publishers : rep[c] = Idle
  BY DEF Tick, Aged
<1>2. DOMAIN failed' = DOMAIN failed
  BY <1>1
<1>3. ASSUME NEW i \in DOMAIN failed
      PROVE  /\ failed[i].left \in 0 .. Window /\ failed'[i].phase = failed[i].phase
             /\ failed'[i].left = IF failed[i].left = 0 THEN 0 ELSE failed[i].left - 1
  <2> DEFINE F == [phase : Phases, reason : Kinds, left : 0 .. Window]
  <2>1. failed[i] \in F
    <3>1. failed \in Seq(F)
      BY DEF CountInv, StreakInv, TaskType
    <3> HIDE DEF F
    <3> QED
      BY <3>1
  <2>2. failed'[i] = Aged(failed[i])
    BY <1>1
  <2> QED
    BY <2>1, <2>2, AgedType
<1>4. ASSUME NEW i \in DOMAIN failed, NEW c \in Publishers, Counts(i, c)' PROVE Tracked(i, c)'
  <2>1. Counts(i, c)
    BY <1>1, <1>2, <1>3, <1>4, RedriveConstants DEF Counts
  <2>2. PICK r \in streaks : r.sha = i /\ r.left >= failed[i].left
    BY <1>1, <2>1 DEF CountInv, TrackInv, Tracked, Idle
  <2>3. StreakRef(r) /\ r.left \in 0 .. Window
    BY DEF CountInv, StreakInv, StreaksType
  <2>4. Aged(r).sha = i /\ Aged(r).left >= failed'[i].left
    BY <1>3, <2>2, <2>3, AgedRef, RedriveConstants
  <2>5. Aged(r) \in streaks'
    BY <1>1
  <2> QED
    BY <2>4, <2>5 DEF Tracked
<1>5. OpenInv'
  BY <1>1, <1>2 DEF CountInv, OpenInv
<1> QED
  BY <1>2, <1>4, <1>5 DEF TrackInv

\* The failure of the Job is tracked by the reports that begin with it.
LEMMA FailTracks ==
  ASSUME CountInv, NEW reason \in left.kinds, NEW watchers \in SUBSET Publishers,
         JobFails(reason, watchers)
  PROVE  OpenInv' /\ TrackInv'
<1> DEFINE F == [phase : Phases, reason : Kinds, left : 0 .. Window]
           f == [phase |-> job.phase, reason |-> reason, left |-> Window]
<1>1. job.sha = Len(failed) + 1 /\ failed \in Seq(F)
  BY DEF JobFails, CountInv, StreakInv, TaskType
<1>2. failed' = Append(failed, f)
  BY DEF JobFails
<1> HIDE DEF F, f
<1>3. /\ DOMAIN failed = 1 .. Len(failed) /\ DOMAIN failed' = 1 .. Len(failed) + 1 /\ Len(failed) \in Nat
      /\ \A i \in DOMAIN failed : failed'[i] = failed[i]
  BY <1>1, <1>2
<1>4. /\ UNCHANGED <<streaks, task, ending, lost>>
      /\ \A c \in watchers : rep[c] = Idle
      /\ rep' = [c \in Publishers |-> IF c \in watchers THEN Report(reason) ELSE rep[c]]
  BY DEF JobFails, store
<1>5. ASSUME NEW i, NEW c, <<i, c>> \in own'
      PROVE  (i = Len(failed) + 1 /\ c \in watchers) \/ <<i, c>> \in own
  BY <1>1, <1>5 DEF JobFails
<1>6. OpenInv'
  BY <1>3, <1>4, <1>5 DEF CountInv, OpenInv
<1>7. ASSUME NEW i \in DOMAIN failed', NEW c \in Publishers, Counts(i, c)' PROVE Tracked(i, c)'
  <2>1. <<i, c>> \in own'
    BY <1>7 DEF Counts
  <2>2. CASE <<i, c>> \in own
    <3>1. i \in DOMAIN failed
      BY <2>2 DEF CountInv, OpenInv
    <3>2. Counts(i, c)
      BY <1>3, <1>4, <1>7, <2>2, <3>1 DEF Counts
    <3>3. Tracked(i, c)
      BY <3>1, <3>2 DEF CountInv, TrackInv
    <3>4. CASE c \in watchers
      BY <1>3, <1>4, <3>1, <3>3, <3>4 DEF Tracked, Idle
    <3>5. CASE c \notin watchers
      BY <1>3, <1>4, <3>1, <3>3, <3>5 DEF Tracked
    <3> QED
      BY <3>4, <3>5
  <2>3. CASE i = Len(failed) + 1 /\ c \in watchers
    <3>1. rep'[c].pc = "count" /\ rep'[c].sha = i
      BY <1>1, <1>4, <2>3 DEF Report
    <3> QED
      BY <3>1 DEF Tracked
  <2> QED
    BY <1>5, <2>1, <2>2, <2>3
<1> QED
  BY <1>6, <1>7 DEF TrackInv

(* The report of c has not yet put its ref. *)
BeforePut(c) == rep[c].pc \in {"count", "clear", "list", "put"}

(* A ref as young as its failure. *)
Young(r, i) == r.sha = i /\ r.left >= failed[i].left

\* A step of a report: the young refs of failures that count stay, and its own
\* failure is still to be put, or has its ref, or a request failed.
LEMMA ReportTracks ==
  ASSUME CountInv, NEW c \in Publishers, UNCHANGED <<failed, task, ending>>,
         own' \subseteq own, lost \subseteq lost',
         \A d \in Publishers : d # c => rep'[d] = rep[d],
         \A i \in DOMAIN failed, d \in Publishers :
             Counts(i, d) => \A r \in streaks : Young(r, i) => r \in streaks',
         BeforePut(c) /\ lost' = {} =>
             \/ rep'[c].pc \in {"count", "clear", "list", "put"} /\ rep'[c].sha = rep[c].sha
             \/ \E r \in streaks' : Young(r, rep[c].sha)
  PROVE  OpenInv' /\ TrackInv'
<1>1. lost' = {} => lost = {}
  OBVIOUS
<1>2. ASSUME NEW i \in DOMAIN failed, NEW d \in Publishers, Counts(i, d), lost' = {}, Tracked(i, d)
      PROVE  Tracked(i, d)'
  <2>1. CASE \E r \in streaks : Young(r, i)
    <3>1. \E r \in streaks' : Young(r, i)
      BY <1>2, <2>1
    <3> QED
      BY <3>1 DEF Young, Tracked
  <2>2. CASE BeforePut(d) /\ rep[d].sha = i /\ d # c
    BY <2>2 DEF Tracked, BeforePut
  <2>3. CASE BeforePut(c) /\ rep[c].sha = i /\ d = c
    BY <1>2, <2>3 DEF Tracked, Young
  <2> QED
    BY <1>2, <2>1, <2>2, <2>3 DEF Tracked, BeforePut, Young
<1>3. TrackInv'
  BY <1>1, <1>2, TrackKept
<1> QED
  BY <1>3 DEF CountInv, OpenInv

\* The count and the clear at the start of a streak.
LEMMA FailureTracks ==
  ASSUME CountInv, NEW c \in Publishers, NEW fails \in BOOLEAN,
         recordRedriveFailure(c, fails) \/ clearReasonsForNewStreak(c, fails)
  PROVE  OpenInv' /\ TrackInv'
<1>1. UNCHANGED <<streaks, failed, task, ending, own>> /\ lost \subseteq lost'
  BY DEF recordRedriveFailure, clearReasonsForNewStreak, store
<1>2. PICK pc \in {"clear", "list"} : rep' = [rep EXCEPT ![c] = [rep[c] EXCEPT !.pc = pc]]
  <2>1. \E pc \in {"clear", "list"} : ReportGoes(c, pc)
    BY DEF recordRedriveFailure, clearReasonsForNewStreak
  <2> QED
    BY <2>1 DEF ReportGoes
<1>3. UnderWay(rep[c]) /\ rep = [d \in Publishers |-> rep[d]]
  BY DEF recordRedriveFailure, clearReasonsForNewStreak, Idle, CountInv, StreakInv, ReportType
<1> DEFINE r == [rep[c] EXCEPT !.pc = pc]
<1>4. r.pc = pc /\ r.sha = rep[c].sha
  BY <1>3 DEF UnderWay
<1> HIDE DEF r
<1>5. rep' = [rep EXCEPT ![c] = r]
  BY <1>2 DEF r
<1>6. rep'[c] = r /\ \A d \in Publishers : d # c => rep'[d] = rep[d]
  BY <1>3, <1>5
<1> QED
  BY <1>1, <1>4, <1>6, ReportTracks

\* The list prunes no ref that is still young.
LEMMA ListTracks ==
  ASSUME CountInv, NEW c \in Publishers, redriveListForTask(c)
  PROVE  OpenInv' /\ TrackInv'
<1>1. UNCHANGED <<failed, task, ending, own, lost>>
  BY DEF redriveListForTask, history
<1>2. streaks' = streaks \/ streaks' = pruneExpired
  BY DEF redriveListForTask
<1>3. ASSUME NEW i \in DOMAIN failed, NEW d \in Publishers, Counts(i, d),
             NEW r \in streaks, Young(r, i)
      PROVE  r \in streaks'
  <2>1. failed[i].left > 0 /\ r.left >= failed[i].left
    BY <1>3 DEF Counts, Young
  <2>2. failed[i].left \in Nat
    <3> DEFINE F == [phase : Phases, reason : Kinds, left : 0 .. Window]
    <3>1. failed \in Seq(F)
      BY DEF CountInv, StreakInv, TaskType
    <3>2. \A f \in F : f.left \in Nat
      BY RedriveConstants
    <3> HIDE DEF F
    <3> QED
      BY <3>1, <3>2
  <2>3. r.left # 0
    BY <2>1, <2>2
  <2> QED
    BY <1>2, <2>3 DEF pruneExpired, redriveStreakRefExpired
<1>4. UnderWay(rep[c]) /\ rep = [d \in Publishers |-> rep[d]]
  BY DEF redriveListForTask, Idle, CountInv, StreakInv, ReportType
<1> DEFINE pc == IF rep[c].pc = "list" THEN "put" ELSE "rput"
           listed == IF rep[c].pc = "list" THEN streaks' ELSE reasons
           a == [rep[c] EXCEPT !.pc = pc]
           s == [a EXCEPT !.listed = listed]
<1>5. rep' = [rep EXCEPT ![c] = s]
  BY <1>4 DEF redriveListForTask
<1>6. s.pc = pc /\ s.sha = rep[c].sha
  <2> HIDE DEF pc, listed
  <2>1. a.pc = pc /\ a.sha = rep[c].sha /\ UnderWay(a)
    BY <1>4 DEF UnderWay
  <2> HIDE DEF a
  <2> QED
    BY <2>1 DEF UnderWay
<1> HIDE DEF s
<1>7. rep'[c] = s /\ \A d \in Publishers : d # c => rep'[d] = rep[d]
  BY <1>4, <1>5
<1>8. BeforePut(c) => s.pc = "put"
  BY <1>6 DEF redriveListForTask, BeforePut
<1> HIDE DEF pc
<1> QED
  BY <1>1, <1>3, <1>6, <1>7, <1>8, ReportTracks

\* What follows an attempt concerns this report alone; after a conflict that is
\* not the last it is again before its put.
LEMMA AfterGoes ==
  ASSUME StreakInv, NEW c \in Publishers, rep[c] # Idle,
         NEW conflict \in BOOLEAN, After(c, conflict)
  PROVE  /\ \A d \in Publishers : d # c => rep'[d] = rep[d]
         /\ conflict /\ rep[c].attempt < MaxAttempts =>
              rep'[c].sha = rep[c].sha /\ (rep[c].pc = "put" => rep'[c].pc = "list")
<1> DEFINE pc == IF rep[c].pc = "put" THEN "list" ELSE "rlist"
           again == Updated(rep[c], pc, {}, rep[c].attempt + 1)
           s == IF conflict /\ rep[c].attempt < MaxAttempts THEN again
                ELSE IF rep[c].pc \in {"list", "put"} THEN ReasonStep(c) ELSE Idle
<1>1. UnderWay(rep[c]) /\ rep = [d \in Publishers |-> rep[d]]
  BY DEF StreakInv, ReportType
<1>2. rep' = [rep EXCEPT ![c] = s]
  BY DEF After, Updated
<1>3. again.sha = rep[c].sha /\ again.pc = pc
  BY <1>1, ReportUpdates
<1> HIDE DEF again
<1>4. conflict /\ rep[c].attempt < MaxAttempts => s = again
  OBVIOUS
<1> HIDE DEF s
<1>5. rep'[c] = s /\ \A d \in Publishers : d # c => rep'[d] = rep[d]
  BY <1>1, <1>2
<1> QED
  BY <1>3, <1>4, <1>5

\* The put of the streak ref: it has a ref of its own, or it tries again, or the
\* conflict is an error; the refs it deletes are of other phases.
LEMMA StreakTracks ==
  ASSUME CountInv, NEW c \in Publishers, recordRedriveStreak(c)
  PROVE  OpenInv' /\ TrackInv'
<1> DEFINE n == nextRedriveNumber(rep[c].listed, rep[c].phase)
           conflict == Taken(streaks, [phase |-> rep[c].phase, n |-> n])
           ref == [phase |-> rep[c].phase, n |-> n, left |-> Window, sha |-> rep[c].sha]
<1>1. UNCHANGED <<failed, task, ending>> /\ own' \subseteq own /\ lost \subseteq lost'
  BY DEF recordRedriveStreak, Exhausted
<1>2. /\ StreakInv /\ rep[c] # Idle /\ rep[c].pc = "put"
      /\ Stems(rep[c])
  BY DEF recordRedriveStreak, Idle, CountInv, StreakInv, ReportType
<1>3. conflict \in BOOLEAN /\ After(c, conflict)
  BY DEF recordRedriveStreak, Taken
<1>4. /\ conflict => streaks' = streaks
      /\ ~conflict => streaks' = Created(streaks, ref, rep[c].listed)
      /\ conflict /\ ~(rep[c].attempt < MaxAttempts) => lost' # {}
  BY DEF recordRedriveStreak, Exhausted
<1> HIDE DEF conflict, n
<1>5. ref.phase = rep[c].phase /\ ref.sha = rep[c].sha /\ ref.left = Window
  OBVIOUS
<1> HIDE DEF ref
<1>6. ~conflict => ref \in streaks' /\ \A r \in streaks : r.phase = rep[c].phase => r \in streaks'
  BY <1>4, <1>5 DEF Created, redriveDeleteOtherPhases
<1>7. failed[rep[c].sha].left <= Window
  <2> DEFINE F == [phase : Phases, reason : Kinds, left : 0 .. Window]
  <2>1. failed \in Seq(F) /\ rep[c].sha \in DOMAIN failed
    BY <1>2 DEF StreakInv, TaskType, Stems
  <2>2. \A f \in F : f.left <= Window
    BY RedriveConstants
  <2> HIDE DEF F
  <2> QED
    BY <2>1, <2>2
<1>8. ~conflict => \E r \in streaks' : Young(r, rep[c].sha)
  <2>1. Young(ref, rep[c].sha)
    BY <1>5, <1>7, RedriveConstants DEF Young
  <2> QED
    BY <1>6, <2>1
<1>9. ASSUME NEW i \in DOMAIN failed, NEW d \in Publishers, Counts(i, d),
             NEW r \in streaks, Young(r, i)
      PROVE  r \in streaks'
  <2>1. r.sha = i /\ Stems(r)
    BY <1>2, <1>9 DEF Young, StreakInv, StreaksType
  <2>2. r.phase = rep[c].phase
    BY <1>2, <1>9, <2>1 DEF Stems, Counts
  <2> QED
    BY <1>3, <1>4, <1>6, <2>2
<1>10. /\ \A d \in Publishers : d # c => rep'[d] = rep[d]
       /\ conflict /\ rep[c].attempt < MaxAttempts =>
            rep'[c].sha = rep[c].sha /\ (rep[c].pc = "put" => rep'[c].pc = "list")
  BY <1>2, <1>3, AfterGoes
<1>11. lost' = {} =>
         \/ rep'[c].pc \in {"count", "clear", "list", "put"} /\ rep'[c].sha = rep[c].sha
         \/ \E r \in streaks' : Young(r, rep[c].sha)
  BY <1>2, <1>3, <1>4, <1>8, <1>10
<1> QED
  BY <1>1, <1>9, <1>10, <1>11, ReportTracks

\* The put of the reason comes after that of the streak.
LEMMA ReasonTracks ==
  ASSUME CountInv, NEW c \in Publishers, recordRedriveReason(c)
  PROVE  OpenInv' /\ TrackInv'
<1>1. UNCHANGED <<streaks, failed, task, ending, own>> /\ lost \subseteq lost'
  BY DEF recordRedriveReason, Exhausted
<1>2. StreakInv /\ rep[c] # Idle /\ ~BeforePut(c)
  BY DEF recordRedriveReason, Idle, CountInv, BeforePut
<1>3. \E conflict \in BOOLEAN : After(c, conflict)
  BY DEF recordRedriveReason, Taken
<1>4. \A d \in Publishers : d # c => rep'[d] = rep[d]
  BY <1>2, <1>3, AfterGoes
<1> QED
  BY <1>1, <1>2, <1>4, ReportTracks

\* A list or a put that fails is an error.
LEMMA FailsTracks ==
  ASSUME CountInv, NEW c \in Publishers, RecordFails(c)
  PROVE  OpenInv' /\ TrackInv'
<1>1. UNCHANGED <<failed, task, ending, own>> /\ lost' # {}
  BY DEF RecordFails
<1> QED
  BY <1>1 DEF CountInv, OpenInv, TrackInv, Counts

-----------------------------------------------------------------------------
\* No failure, no streak.
LEMMA CountInit ==
  ASSUME RedriveInit
  PROVE  CountInv
BY StreakInit DEF RedriveInit, CountInv, OpenInv, TrackInv

\* Every action keeps the failures counted.
LEMMA CountNext ==
  ASSUME CountInv, [RedriveNext]_redriveVars
  PROVE  CountInv'
<1>1. ASSUME NEW c \in Deciders,
             \/ DecideLive(c)
             \/ \E list \in ReasonLists(reasons, task.phase) : DecideBlind(c, inMemoryRedriveCount(c), list)
             \/ DecideBlind(c, Count(streaks, task.phase), <<>>)
             \/ Passing(c)
      PROVE  OpenInv' /\ TrackInv'
  <2>1. \/ DecideLive(c)
        \/ \E count, list : DecideBlind(c, count, list)
        \/ DecideInPass(c)
        \/ StartPass(c) \/ PassReasons(c) \/ EndPass(c)
    BY <1>1, Zenon DEF Passing
  <2> QED
    BY <2>1, DecidesTrack, PassTracks, RedriveConstants
<1>2. ASSUME NEW c \in Publishers, Reporting(c) PROVE OpenInv' /\ TrackInv'
  BY <1>2, FailureTracks, ListTracks, StreakTracks, ReasonTracks, FailsTracks DEF Reporting
<1>3. ASSUME NEW c \in Publishers, \E fails \in BOOLEAN : clearRedriveStreak(c, fails)
      PROVE  OpenInv' /\ TrackInv'
  BY <1>3, ClearTracks
<1>4. ASSUME NEW reason \in left.kinds, NEW watchers \in SUBSET Publishers \ {{}}, JobFails(reason, watchers)
      PROVE  OpenInv' /\ TrackInv'
  BY <1>4, FailTracks
<1>5. ASSUME (\E phase \in Phases : PhaseMoves(phase)) \/ Reopen PROVE OpenInv' /\ TrackInv'
  BY <1>5, TaskTracks
<1>6. ASSUME Tick PROVE OpenInv' /\ TrackInv'
  BY <1>6, TickTracks
<1>7. ASSUME UNCHANGED redriveVars PROVE OpenInv' /\ TrackInv'
  <2>1. UNCHANGED <<streaks, task, rep, failed, own, lost, ending>>
    BY <1>7 DEF redriveVars
  <2> QED
    BY <2>1, TrackSame DEF CountInv, OpenInv
<1>8. OpenInv' /\ TrackInv'
  BY <1>1, <1>2, <1>3, <1>4, <1>5, <1>6, <1>7 DEF RedriveNext
<1> QED
  BY <1>8, StreakNext DEF CountInv

(* Whatever other reports ran beside it, with conflicts and lists that were *)
(* out of date, a failure that was reported without an error is counted as  *)
(* long as it is young: only a move to another phase or a closed task takes *)
(* its ref away (recordRedriveRef, pruneExpired, redriveDeleteOtherPhases). *)
THEOREM FailuresCounted == RedriveSpec => []FailureCounted
<1>1. RedriveInit => CountInv
  BY CountInit
<1>2. CountInv /\ [RedriveNext]_redriveVars => CountInv'
  BY CountNext
<1>3. CountInv => FailureCounted
  <2> SUFFICES ASSUME CountInv, NEW i \in DOMAIN failed, lost = {}, failed[i].left > 0,
                      \A c \in Publishers : rep[c] = Idle,
                      \A j \in DOMAIN failed : failed[j].phase = failed[i].phase,
                      task.status = "open", \E c \in Publishers : <<i, c>> \in own
               PROVE  \E r \in streaks : r.sha = i
    BY DEF FailureCounted
  <2>1. PICK c \in Publishers : <<i, c>> \in own
    OBVIOUS
  <2>2. Tracked(i, c)
    BY <2>1 DEF CountInv, TrackInv, Counts
  <2> QED
    BY <2>2 DEF Tracked, Idle
<1> QED
  BY <1>1, <1>2, <1>3, PTL DEF RedriveSpec
=============================================================================
