------------------------ MODULE SuccessRecordProofs ------------------------
(***************************************************************************)
(* Proofs about SuccessRecord: the types, that concurrent records and      *)
(* prunes never lose the newest success, that a success on record is not   *)
(* run again, and that no park overtakes a phase on its way to the vault.  *)
(***************************************************************************)
EXTENDS SuccessRecord, TLAPS

\* A Record call that is past its create has a completion that was in the store, and what
\* it is about to delete is older than that one.
RecordInv ==
  \A p \in Pods :
    /\ rec[p].pc # "idle" => rec[p].keep \in Completion
    /\ rec[p].pc \in {"list", "prune"} => rec[p].keep \in recorded
    /\ rec[p].pc = "prune" => \A r \in rec[p].todo : r.at < rec[p].keep.at

StoreInv == TypeOK /\ RecordInv /\ NewestRecordSurvives

\* A completion's time is a number.
LEMMA CompletionTime ==
  ASSUME NEW s \in Completion
  PROVE  s.at \in Nat /\ s.phase \in Phases
<1>1. MaxTime \in Nat
  BY ConstantsAssumption
<1>2. QED
  BY <1>1 DEF Completion, Time

\* A call that is not in progress is well-typed.
LEMMA NoRecordType == NoRecord \in Record
BY DEF NoRecord, Record

-----------------------------------------------------------------------------
(* The deciding side.                                                      *)

\* What lastSuccess finds is a completion: of the memory or of the store.
LEMMA LastSuccessType ==
  ASSUME TypeOK, NEW p \in Pods, NEW read \in SUBSET Completion, NEW s \in LastSuccess(p, read)
  PROVE  s \in Completion
<1>1. s \in read \cup {memory[p]} /\ s # NoCompletion
  BY DEF LastSuccess, Latest, KnownSuccesses
<1>2. memory[p] \in Completion \cup {NoCompletion}
  BY DEF TypeOK
<1>3. QED
  BY <1>1, <1>2

\* Whatever was read, a decision spawns, suppresses or parks and keeps the types.
LEMMA SuppressOrParkType ==
  ASSUME TypeOK, NEW p \in Pods, NEW read \in SUBSET Completion, SuppressOrPark(p, read)
  PROVE  /\ memory' \in [Pods -> Completion \cup {NoCompletion}]
         /\ job' \in Phases \cup {NoJob}
         /\ writes' \subseteq Write
         /\ parkPublished' \in [Pods -> ParkRecord \cup {NoPark}]
<1>1. LetSpawn => /\ job' \in Phases \cup {NoJob}
                  /\ writes' \subseteq Write
                  /\ parkPublished' \in [Pods -> ParkRecord \cup {NoPark}]
  BY DEF SuppressOrPark, LetSpawn, TypeOK
<1>2. Suppress => /\ job' \in Phases \cup {NoJob}
                  /\ writes' \subseteq Write
                  /\ parkPublished' \in [Pods -> ParkRecord \cup {NoPark}]
  BY DEF Suppress, TypeOK
<1>3. ASSUME NEW s \in Completion, Park(p, s)
      PROVE  /\ job' \in Phases \cup {NoJob}
             /\ writes' \subseteq Write
             /\ parkPublished' \in [Pods -> ParkRecord \cup {NoPark}]
  <2>1. CASE LetSpawn
    BY <2>1, <1>1
  <2>2. CASE Suppress
    BY <2>2, <1>2
  <2>3. CASE /\ writes' = writes \cup {[to |-> HumanReview, at |-> now, of |-> s]}
             /\ parkPublished' = [parkPublished EXCEPT ![p] =
                  [completedAt |-> s.at, publishedAt |-> now]]
             /\ UNCHANGED job
    <3>1. s.at \in Time /\ now \in Time
      BY DEF Completion, TypeOK
    <3>2. [to |-> HumanReview, at |-> now, of |-> s] \in Write
      BY <3>1 DEF Write
    <3>3. [completedAt |-> s.at, publishedAt |-> now] \in ParkRecord
      BY <3>1 DEF ParkRecord
    <3>4. QED
      BY <2>3, <3>2, <3>3 DEF TypeOK
  <2>4. QED
    BY <1>3, <2>1, <2>2, <2>3 DEF Park
<1>4. CASE LastSuccess(p, read) = {}
  BY <1>4, <1>1 DEF SuppressOrPark, TypeOK
<1>5. CASE LastSuccess(p, read) # {}
  <2>1. PICK s \in LastSuccess(p, read) :
          /\ memory' = [memory EXCEPT ![p] = MarkSucceeded(@, s)]
          /\ IF RecentlySucceeded(s) THEN Suppress
             ELSE IF recurring THEN LetSpawn
             ELSE Park(p, s)
    BY <1>5 DEF SuppressOrPark
  <2>2. s \in Completion
    BY LastSuccessType
  <2>3. memory' \in [Pods -> Completion \cup {NoCompletion}]
    BY <2>1, <2>2 DEF MarkSucceeded, TypeOK
  <2>4. CASE Suppress
    BY <2>3, <2>4, <1>2
  <2>5. CASE LetSpawn
    BY <2>3, <2>5, <1>1
  <2>6. CASE Park(p, s)
    BY <2>2, <2>3, <2>6, <1>3
  <2>7. QED
    BY <2>1, <2>4, <2>5, <2>6
<1>6. QED
  BY <1>4, <1>5

-----------------------------------------------------------------------------
(* The steps.                                                              *)

\* Every step keeps the types and what a Record call in progress relies on.
LEMMA TypeStep ==
  ASSUME TypeOK, RecordInv, [Next]_vars
  PROVE  TypeOK'
<1>1. CASE UNCHANGED vars
  BY <1>1 DEF TypeOK, vars
<1>2. ASSUME NEW p \in Pods, NEW s \in completed, HandleSucceededJob(p, s) PROVE TypeOK'
  <2>1. s \in Completion
    BY DEF TypeOK
  <2>2. [pc |-> "put", keep |-> s, todo |-> {}] \in Record
    BY <2>1 DEF Record
  <2>3. memory' \in [Pods -> Completion \cup {NoCompletion}]
    BY <1>2, <2>1 DEF HandleSucceededJob, MarkSucceeded, TypeOK
  <2>4. QED
    BY <1>2, <2>2, <2>3 DEF HandleSucceededJob, TypeOK
<1>3. ASSUME NEW p \in Pods, Put(p) PROVE TypeOK'
  <2>1. rec[p] \in Record /\ rec[p].keep \in Completion
    BY <1>3 DEF TypeOK, RecordInv, Put
  <2>2. [pc |-> "list", keep |-> rec[p].keep, todo |-> {}] \in Record
    BY <2>1 DEF Record
  <2>3. rec' \in [Pods -> Record]
    BY <1>3, <2>2, NoRecordType DEF Put, TypeOK
  <2>4. refs' \subseteq Completion /\ recorded' \subseteq Completion
    BY <1>3, <2>1 DEF Put, TypeOK
  <2>5. QED
    BY <1>3, <2>3, <2>4 DEF Put, TypeOK
<1>4. ASSUME NEW p \in Pods, ListForPrune(p) PROVE TypeOK'
  <2>1. rec[p] \in Record /\ Superseded(rec[p].keep) \subseteq Completion
    BY DEF TypeOK, Superseded
  <2>2. [pc |-> "prune", keep |-> rec[p].keep, todo |-> Superseded(rec[p].keep)] \in Record
    BY <2>1 DEF Record
  <2>3. rec' \in [Pods -> Record]
    BY <1>4, <2>2, NoRecordType DEF ListForPrune, TypeOK
  <2>4. QED
    BY <1>4, <2>3 DEF ListForPrune, TypeOK
<1>5. ASSUME NEW p \in Pods, PruneOne(p) PROVE TypeOK'
  <2>1. PICK r \in rec[p].todo :
          /\ refs' = refs \ {r} \/ UNCHANGED refs
          /\ rec' = [rec EXCEPT ![p] =
               IF @.todo = {r} THEN NoRecord
               ELSE [pc |-> "prune", keep |-> @.keep, todo |-> @.todo \ {r}]]
    BY <1>5 DEF PruneOne
  <2>2. rec[p] \in Record
    BY DEF TypeOK
  <2>3. [pc |-> "prune", keep |-> rec[p].keep, todo |-> rec[p].todo \ {r}] \in Record
    BY <2>2 DEF Record
  <2>4. rec' \in [Pods -> Record] /\ refs' \subseteq Completion
    BY <2>1, <2>3, NoRecordType DEF TypeOK
  <2>5. QED
    BY <1>5, <2>4 DEF PruneOne, TypeOK
<1>6. ASSUME NEW p \in Pods, Decide(p) PROVE TypeOK'
  <2>1. refs \in SUBSET Completion /\ SuppressOrPark(p, refs)
    BY <1>6 DEF Decide, TypeOK
  <2>2. QED
    BY <1>6, <2>1, SuppressOrParkType DEF Decide, TypeOK
<1>7. ASSUME NEW p \in Pods, DecideBlind(p) PROVE TypeOK'
  <2>1. {} \in SUBSET Completion /\ SuppressOrPark(p, {})
    BY <1>7 DEF DecideBlind
  <2>2. QED
    BY <1>7, <2>1, SuppressOrParkType DEF DecideBlind, TypeOK
<1>8. ASSUME NEW p \in Pods, PruneSucceededBefore(p) PROVE TypeOK'
  BY <1>8 DEF PruneSucceededBefore, TypeOK
<1>9. ASSUME NEW p \in Pods, Crash(p) PROVE TypeOK'
  BY <1>9, NoRecordType DEF Crash, TypeOK
<1>10. CASE JobSucceeds
  <2>1. [phase |-> job, at |-> now] \in Completion
    BY <1>10 DEF JobSucceeds, TypeOK, Completion
  <2>2. \A to \in Phases : [to |-> to, at |-> now, of |-> [phase |-> job, at |-> now]] \in Write
    BY <2>1 DEF TypeOK, Write
  <2>3. QED
    BY <1>10, <2>1, <2>2 DEF JobSucceeds, TypeOK
<1>11. CASE JobFails
  BY <1>11 DEF JobFails, TypeOK
<1>12. CASE WriteBack
  BY <1>12 DEF WriteBack, TypeOK, Write
<1>13. CASE ReArm
  BY <1>13 DEF ReArm, TypeOK
<1>14. CASE Elapse
  <2>1. now' \in Time
    BY <1>14, ConstantsAssumption DEF Elapse, TypeOK, Time
  <2>2. QED
    BY <1>14, <2>1 DEF Elapse, TypeOK
<1>15. QED
  BY <1>1, <1>2, <1>3, <1>4, <1>5, <1>6, <1>7, <1>8, <1>9, <1>10, <1>11, <1>12, <1>13, <1>14
     DEF Next

\* A call starts with the completion to record, puts it before it prunes, and only ever
\* lists older ones.
LEMMA RecordStep ==
  ASSUME TypeOK, RecordInv, [Next]_vars
  PROVE  RecordInv'
<1>1. ASSUME UNCHANGED rec, recorded \subseteq recorded' PROVE RecordInv'
  BY <1>1 DEF RecordInv
<1>2. ASSUME NEW p \in Pods, NEW s \in completed, HandleSucceededJob(p, s) PROVE RecordInv'
  BY <1>2 DEF HandleSucceededJob, RecordInv, TypeOK
<1>3. ASSUME NEW p \in Pods, Put(p) PROVE RecordInv'
  <2>1. rec[p].keep \in Completion /\ recorded \subseteq recorded'
    BY <1>3 DEF RecordInv, Put
  <2>2. \A q \in Pods : q # p => rec'[q] = rec[q]
    BY <1>3 DEF Put, TypeOK
  <2>3. \/ rec'[p] = NoRecord
        \/ /\ rec'[p].pc = "list" /\ rec'[p].keep = rec[p].keep
           /\ rec[p].keep \in recorded'
    BY <1>3 DEF Put, TypeOK, Record
  <2>4. QED
    BY <2>1, <2>2, <2>3 DEF RecordInv, NoRecord
<1>4. ASSUME NEW p \in Pods, ListForPrune(p) PROVE RecordInv'
  <2>1. \A q \in Pods : q # p => rec'[q] = rec[q]
    BY <1>4 DEF ListForPrune, TypeOK
  <2>2. \/ rec'[p] = NoRecord
        \/ rec'[p] = [pc |-> "prune", keep |-> rec[p].keep, todo |-> Superseded(rec[p].keep)]
    BY <1>4 DEF ListForPrune, TypeOK
  <2>3. rec[p].keep \in Completion /\ rec[p].keep \in recorded /\ UNCHANGED recorded
    BY <1>4 DEF RecordInv, ListForPrune
  <2>4. QED
    BY <2>1, <2>2, <2>3 DEF RecordInv, NoRecord, Superseded
<1>5. ASSUME NEW p \in Pods, PruneOne(p) PROVE RecordInv'
  <2>1. \A q \in Pods : q # p => rec'[q] = rec[q]
    BY <1>5 DEF PruneOne, TypeOK
  <2>2. PICK r \in rec[p].todo :
          \/ rec'[p] = NoRecord
          \/ rec'[p] = [pc |-> "prune", keep |-> rec[p].keep, todo |-> rec[p].todo \ {r}]
    BY <1>5 DEF PruneOne, TypeOK
  <2>3. /\ rec[p].keep \in Completion /\ rec[p].keep \in recorded /\ UNCHANGED recorded
        /\ \A q \in rec[p].todo : q.at < rec[p].keep.at
    BY <1>5 DEF RecordInv, PruneOne
  <2>4. QED
    BY <2>1, <2>2, <2>3 DEF RecordInv, NoRecord
<1>6. ASSUME NEW p \in Pods, Crash(p) PROVE RecordInv'
  BY <1>6 DEF Crash, RecordInv, NoRecord, TypeOK
<1>7. ASSUME NEW p \in Pods, Decide(p) \/ DecideBlind(p) \/ PruneSucceededBefore(p)
      PROVE  RecordInv'
  BY <1>7, <1>1 DEF Decide, DecideBlind, PruneSucceededBefore
<1>8. CASE JobSucceeds \/ JobFails \/ WriteBack \/ ReArm \/ Elapse \/ UNCHANGED vars
  BY <1>8, <1>1 DEF JobSucceeds, JobFails, WriteBack, ReArm, Elapse, vars
<1>9. QED
  BY <1>2, <1>3, <1>4, <1>5, <1>6, <1>7, <1>8 DEF Next

\* A delete that makes room for a recorded, newer completion leaves a newest one behind:
\* the deleted record is older than that completion, whose own survivor is not deleted.
LEMMA DeleteKeepsNewest ==
  ASSUME refs \subseteq Completion, recorded \subseteq Completion, NewestRecordSurvives,
         NEW keep \in recorded, NEW r \in Completion, r.at < keep.at, NEW q \in recorded
  PROVE  \E s \in refs \ {r} : s = q \/ s.at > q.at
<1>1. PICK s \in refs : s = q \/ s.at > q.at
  BY DEF NewestRecordSurvives
<1>2. PICK k \in refs : k = keep \/ k.at > keep.at
  BY DEF NewestRecordSurvives
<1>3. {s.at, k.at, q.at, r.at, keep.at} \subseteq Nat
  BY CompletionTime
<1>4. k # r
  BY <1>2, <1>3
<1>5. CASE s # r
  BY <1>1, <1>5
<1>6. CASE s = r
  <2>1. k.at > q.at
    BY <1>1, <1>2, <1>3, <1>6
  <2>2. QED
    BY <2>1, <1>4
<1>7. QED
  BY <1>5, <1>6

\* Creates and deletes of any number of calls keep the newest record.
LEMMA NewestStep ==
  ASSUME TypeOK, RecordInv, NewestRecordSurvives, [Next]_vars
  PROVE  NewestRecordSurvives'
<1>1. ASSUME UNCHANGED <<refs, recorded>> PROVE NewestRecordSurvives'
  BY <1>1 DEF NewestRecordSurvives
<1>2. ASSUME NEW p \in Pods, Put(p) PROVE NewestRecordSurvives'
  BY <1>2 DEF Put, NewestRecordSurvives
<1>3. ASSUME NEW p \in Pods, PruneOne(p) PROVE NewestRecordSurvives'
  <2>1. PICK r \in rec[p].todo : refs' = refs \ {r} \/ UNCHANGED refs
    BY <1>3 DEF PruneOne
  <2>2. r \in Completion /\ rec[p].keep \in recorded /\ r.at < rec[p].keep.at
    BY <1>3 DEF PruneOne, RecordInv, TypeOK, Record
  <2>3. UNCHANGED recorded
    BY <1>3 DEF PruneOne
  <2>4. CASE UNCHANGED refs
    BY <2>3, <2>4, <1>1
  <2>5. CASE refs' = refs \ {r}
    <3>1. \A q \in recorded : \E s \in refs \ {r} : s = q \/ s.at > q.at
      BY <2>2, DeleteKeepsNewest DEF TypeOK
    <3>2. QED
      BY <2>3, <2>5, <3>1 DEF NewestRecordSurvives
  <2>6. QED
    BY <2>1, <2>4, <2>5
<1>4. ASSUME NEW p \in Pods,
             \/ \E s \in completed : HandleSucceededJob(p, s)
             \/ ListForPrune(p) \/ Decide(p) \/ DecideBlind(p)
             \/ PruneSucceededBefore(p) \/ Crash(p)
      PROVE  NewestRecordSurvives'
  BY <1>4, <1>1 DEF HandleSucceededJob, ListForPrune, Decide, DecideBlind,
                    PruneSucceededBefore, Crash
<1>5. CASE JobSucceeds \/ JobFails \/ WriteBack \/ ReArm \/ Elapse \/ UNCHANGED vars
  BY <1>5, <1>1 DEF JobSucceeds, JobFails, WriteBack, ReArm, Elapse, vars
<1>6. QED
  BY <1>2, <1>3, <1>4, <1>5 DEF Next

\* The inductive invariant holds at the start, when nothing is recorded.
LEMMA StoreInit == Init => StoreInv
<1>1. ASSUME Init PROVE TypeOK
  <2>1. now \in Time
    BY <1>1, ConstantsAssumption DEF Init, Time
  <2>2. QED
    BY <1>1, <2>1, NoRecordType DEF Init, TypeOK
<1>2. ASSUME Init PROVE RecordInv /\ NewestRecordSurvives
  BY <1>2 DEF Init, RecordInv, NewestRecordSurvives, NoRecord
<1>3. QED
  BY <1>1, <1>2 DEF StoreInv

\* The types of the records, the memories, the parks and the calls in progress.
THEOREM SuccessTypeCorrect == Spec => []TypeOK
<1>1. StoreInv /\ [Next]_vars => StoreInv'
  BY TypeStep, RecordStep, NewestStep DEF StoreInv
<1>2. StoreInv => TypeOK
  BY DEF StoreInv
<1>3. QED
  BY StoreInit, <1>1, <1>2, PTL DEF Spec

\* Record and keepOnly: with any number of pods that record and prune at once, on listings
\* however old, and with every failure of a request, a success on record leaves the store
\* only for a newer one.
THEOREM NewestSuccessKept == Spec => []NewestRecordSurvives
<1>1. StoreInv /\ [Next]_vars => StoreInv'
  BY TypeStep, RecordStep, NewestStep DEF StoreInv
<1>2. StoreInv => NewestRecordSurvives
  BY DEF StoreInv
<1>3. QED
  BY StoreInit, <1>1, <1>2, PTL DEF Spec

-----------------------------------------------------------------------------
(* What the records, the memories and the parks know.                      *)

\* Every success that is known anywhere has happened.
KnownInv ==
  /\ refs \cup recorded \cup rearmed \subseteq completed
  /\ \A p \in Pods : /\ memory[p] # NoCompletion => memory[p] \in completed
                     /\ rec[p].pc # "idle" => rec[p].keep \in completed

\* A published phase lands in time; one that is not a park was published with a success.
WriteInv ==
  /\ \A w \in writes : w.at <= now /\ now - w.at <= WriteBackTime
  /\ \A w \in writes : w.to # HumanReview => w.of \in completed /\ w.at = w.of.at
  /\ \A s \in completed : s.at <= now

\* A park that was published is on its way to the vault, or has landed with nothing behind it
\* that would undo it.
Landing(park) == \E w \in writes : w.to = HumanReview /\ w.at = park.publishedAt
Landed == phase = HumanReview /\ \A w \in writes : w.to = HumanReview

\* The park of a success that no other has followed.
Current(park) == \A s \in completed : s.at <= park.completedAt

\* What a pod remembers of a park: only an operator brings the task back from it.
ParkInv ==
  \A p \in Pods : parkPublished[p] # NoPark =>
    LET park == parkPublished[p] IN
    /\ park.completedAt + RespawnGrace <= park.publishedAt /\ park.publishedAt <= now
    /\ Current(park) => Landing(park) \/ Landed \/ Latest(completed) \subseteq rearmed

\* The constants and the clock are numbers.
LEMMA Numbers ==
  ASSUME TypeOK
  PROVE  /\ now \in Nat /\ RespawnGrace \in Nat /\ Cadence \in Nat /\ Retention \in Nat
         /\ WriteBackTime \in Nat /\ WriteBackTime < RespawnGrace
         /\ RespawnGrace <= Retention /\ Cadence <= Retention
         /\ \A s \in completed : s.at \in Nat /\ s.phase \in Phases /\ s # NoCompletion
         /\ \A w \in writes : w.at \in Nat /\ w.of.at \in Nat
         /\ \A p \in Pods : parkPublished[p] # NoPark =>
              parkPublished[p].completedAt \in Nat /\ parkPublished[p].publishedAt \in Nat
<1>1. MaxTime \in Nat /\ {RespawnGrace, Cadence, Retention, WriteBackTime} \subseteq Nat
  BY ConstantsAssumption
<1>2. now \in Nat /\ Time \subseteq Nat
  BY <1>1 DEF TypeOK, Time
<1>3. \A s \in completed : s.at \in Nat /\ s.phase \in Phases /\ s # NoCompletion
  BY CompletionTime, NullAssumption DEF TypeOK
<1>4. ASSUME NEW w \in writes PROVE w.at \in Nat /\ w.of.at \in Nat
  <2>1. w.at \in Time /\ w.of \in Completion
    BY DEF TypeOK, Write
  <2>2. QED
    BY <2>1, <1>2, CompletionTime
<1>5. ASSUME NEW p \in Pods, parkPublished[p] # NoPark
      PROVE  parkPublished[p].completedAt \in Nat /\ parkPublished[p].publishedAt \in Nat
  <2>1. parkPublished[p] \in ParkRecord
    BY <1>5 DEF TypeOK
  <2>2. QED
    BY <2>1, <1>2 DEF ParkRecord
<1>6. QED
  BY <1>1, <1>2, <1>3, <1>4, <1>5, TimingAssumption

\* A park goes out for a success that is past its grace, and is remembered.
Parks(p, s) ==
  /\ ~recurring /\ ~InGrace(s.at)
  /\ writes' = writes \cup {[to |-> HumanReview, at |-> now, of |-> s]}
  /\ parkPublished' = [parkPublished EXCEPT ![p] = [completedAt |-> s.at, publishedAt |-> now]]
  /\ UNCHANGED job

\* A task that is held back by nothing is spawned only like this.
MaySpawn(p, s) ==
  /\ ~RecentlySucceeded(s)
  /\ recurring \/ (ParkedBefore(p, s) /\ ~ParkAwaitsWriteBack(p, s))

\* What a decision may do: nothing, spawn, or park.
LEMMA DecisionKinds ==
  ASSUME NEW p \in Pods, NEW read, SuppressOrPark(p, read)
  PROVE  /\ phase \in Phases /\ job = NoJob
         /\ \/ UNCHANGED memory
            \/ \E s \in LastSuccess(p, read) :
                 memory' = [memory EXCEPT ![p] = MarkSucceeded(@, s)]
         /\ \/ UNCHANGED <<job, writes, parkPublished>>
            \/ \E s \in LastSuccess(p, read) : Parks(p, s)
            \/ /\ UNCHANGED <<writes, parkPublished>>
               /\ \/ LastSuccess(p, read) = {}
                  \/ \E s \in LastSuccess(p, read) : MaySpawn(p, s)
<1>1. phase \in Phases /\ job = NoJob
  BY DEF SuppressOrPark
<1>2. CASE LastSuccess(p, read) = {}
  BY <1>1, <1>2 DEF SuppressOrPark, LetSpawn
<1>3. CASE LastSuccess(p, read) # {}
  <2>1. PICK s \in LastSuccess(p, read) :
          /\ memory' = [memory EXCEPT ![p] = MarkSucceeded(@, s)]
          /\ IF RecentlySucceeded(s) THEN Suppress
             ELSE IF recurring THEN LetSpawn
             ELSE Park(p, s)
    BY <1>3 DEF SuppressOrPark
  <2>2. CASE RecentlySucceeded(s)
    BY <1>1, <2>1, <2>2 DEF Suppress
  <2>3. CASE ~RecentlySucceeded(s) /\ recurring
    BY <1>1, <2>1, <2>3 DEF LetSpawn, MaySpawn
  <2>4. CASE ~RecentlySucceeded(s) /\ ~recurring
    <3>1. Park(p, s) /\ ~InGrace(s.at)
      BY <2>1, <2>4 DEF RecentlySucceeded
    <3>2. CASE ParkedBefore(p, s)
      BY <1>1, <2>1, <2>4, <3>1, <3>2 DEF Park, LetSpawn, Suppress, MaySpawn
    <3>3. CASE ~ParkedBefore(p, s)
      BY <1>1, <2>1, <2>4, <3>1, <3>3 DEF Park, Suppress, Parks
    <3>4. QED
      BY <3>2, <3>3
  <2>5. QED
    BY <2>2, <2>3, <2>4
<1>4. QED
  BY <1>2, <1>3

\* What lastSuccess finds has happened, at the task's phase.
LEMMA FoundCompleted ==
  ASSUME KnownInv, NEW p \in Pods, NEW read \in SUBSET completed, NEW s \in LastSuccess(p, read)
  PROVE  s \in completed /\ s.phase = phase
BY DEF LastSuccess, Latest, KnownSuccesses, KnownInv

\* Deciding learns of completions only.
LEMMA DecisionKnown ==
  ASSUME TypeOK, KnownInv, NEW p \in Pods, NEW read \in SUBSET completed, SuppressOrPark(p, read),
         UNCHANGED <<completed, refs, rec, recorded, rearmed>>
  PROVE  KnownInv'
<1>1. CASE UNCHANGED memory
  BY <1>1 DEF KnownInv
<1>2. ASSUME NEW s \in LastSuccess(p, read), memory' = [memory EXCEPT ![p] = MarkSucceeded(@, s)]
      PROVE  KnownInv'
  <2>1. s \in completed
    BY FoundCompleted
  <2>2. QED
    BY <1>2, <2>1 DEF KnownInv, MarkSucceeded, TypeOK
<1>3. QED
  BY <1>1, <1>2, DecisionKinds

\* Records, memories and calls in progress are about Jobs that have succeeded.
LEMMA KnownStep ==
  ASSUME TypeOK, KnownInv, [Next]_vars
  PROVE  KnownInv'
<1>1. CASE UNCHANGED vars
  BY <1>1 DEF KnownInv, vars
<1>2. ASSUME NEW p \in Pods, NEW s \in completed, HandleSucceededJob(p, s) PROVE KnownInv'
  BY <1>2 DEF HandleSucceededJob, MarkSucceeded, KnownInv, TypeOK
<1>3. ASSUME NEW p \in Pods, Put(p) PROVE KnownInv'
  <2>1. rec[p].keep \in completed /\ UNCHANGED <<completed, memory, rearmed>>
    BY <1>3 DEF KnownInv, Put
  <2>2. (refs' \cup recorded') \subseteq completed
    BY <1>3, <2>1 DEF KnownInv, Put
  <2>3. \A q \in Pods : rec'[q].pc # "idle" => rec'[q].keep \in completed
    BY <1>3, <2>1 DEF KnownInv, Put, TypeOK, NoRecord
  <2>4. QED
    BY <2>1, <2>2, <2>3 DEF KnownInv
<1>4. ASSUME NEW p \in Pods, ListForPrune(p) PROVE KnownInv'
  BY <1>4 DEF ListForPrune, KnownInv, TypeOK, NoRecord
<1>5. ASSUME NEW p \in Pods, PruneOne(p) PROVE KnownInv'
  BY <1>5 DEF PruneOne, KnownInv, TypeOK, NoRecord
<1>6. ASSUME NEW p \in Pods, Decide(p) PROVE KnownInv'
  <2>1. refs \in SUBSET completed /\ SuppressOrPark(p, refs)
        /\ UNCHANGED <<completed, refs, rec, recorded, rearmed>>
    BY <1>6 DEF Decide, KnownInv
  <2>2. QED
    BY <2>1, DecisionKnown
<1>7. ASSUME NEW p \in Pods, DecideBlind(p) PROVE KnownInv'
  <2>1. {} \in SUBSET completed /\ SuppressOrPark(p, {})
        /\ UNCHANGED <<completed, refs, rec, recorded, rearmed>>
    BY <1>7 DEF DecideBlind
  <2>2. QED
    BY <2>1, DecisionKnown
<1>8. ASSUME NEW p \in Pods, PruneSucceededBefore(p) PROVE KnownInv'
  BY <1>8 DEF PruneSucceededBefore, KnownInv, TypeOK
<1>9. ASSUME NEW p \in Pods, Crash(p) PROVE KnownInv'
  BY <1>9 DEF Crash, KnownInv, TypeOK, NoRecord
<1>10. CASE JobSucceeds
  BY <1>10 DEF JobSucceeds, KnownInv
<1>11. CASE JobFails \/ WriteBack \/ ReArm \/ Elapse
  BY <1>11 DEF JobFails, WriteBack, ReArm, Elapse, KnownInv
<1>12. QED
  BY <1>1, <1>2, <1>3, <1>4, <1>5, <1>6, <1>7, <1>8, <1>9, <1>10, <1>11 DEF Next

\* A step neither publishes nor completes, or it publishes a park, or a Job succeeds, or a
\* write lands, or time passes.
PublishKinds ==
  \/ UNCHANGED <<now, completed, writes, parkPublished, phase, rearmed>>
  \/ /\ \E p \in Pods, s \in completed : Parks(p, s)
     /\ UNCHANGED <<now, completed, phase, rearmed>>
  \/ \E p \in Pods : /\ parkPublished' = [parkPublished EXCEPT ![p] = NoPark]
                     /\ UNCHANGED <<now, completed, writes, phase, rearmed>>
  \/ JobSucceeds \/ WriteBack \/ ReArm \/ Elapse

LEMMA PublishSteps ==
  ASSUME KnownInv, [Next]_vars
  PROVE  PublishKinds
<1>1. CASE UNCHANGED vars
  BY <1>1 DEF vars, PublishKinds
<1>2. ASSUME NEW p \in Pods,
             \/ \E s \in completed : HandleSucceededJob(p, s)
             \/ Put(p) \/ ListForPrune(p) \/ PruneOne(p) \/ PruneSucceededBefore(p)
      PROVE  PublishKinds
  BY <1>2 DEF HandleSucceededJob, Put, ListForPrune, PruneOne, PruneSucceededBefore, PublishKinds
<1>3. ASSUME NEW p \in Pods, NEW read \in SUBSET completed, SuppressOrPark(p, read),
             UNCHANGED <<now, completed, phase, rearmed>>
      PROVE  PublishKinds
  <2>1. \/ UNCHANGED <<writes, parkPublished>>
        \/ \E s \in LastSuccess(p, read) : Parks(p, s)
    BY <1>3, DecisionKinds
  <2>2. CASE UNCHANGED <<writes, parkPublished>>
    BY <1>3, <2>2 DEF PublishKinds
  <2>3. ASSUME NEW s \in LastSuccess(p, read), Parks(p, s) PROVE PublishKinds
    <3>1. s \in completed
      BY FoundCompleted
    <3>2. QED
      BY <1>3, <2>3, <3>1 DEF PublishKinds
  <2>4. QED
    BY <2>1, <2>2, <2>3
<1>4. ASSUME NEW p \in Pods, Decide(p) PROVE PublishKinds
  <2>1. refs \in SUBSET completed /\ SuppressOrPark(p, refs) /\ UNCHANGED <<now, completed, phase, rearmed>>
    BY <1>4 DEF Decide, KnownInv
  <2>2. QED
    BY <2>1, <1>3
<1>5. ASSUME NEW p \in Pods, DecideBlind(p) PROVE PublishKinds
  <2>1. {} \in SUBSET completed /\ SuppressOrPark(p, {}) /\ UNCHANGED <<now, completed, phase, rearmed>>
    BY <1>5 DEF DecideBlind
  <2>2. QED
    BY <2>1, <1>3
<1>6. ASSUME NEW p \in Pods, Crash(p) PROVE PublishKinds
  BY <1>6 DEF Crash, PublishKinds
<1>7. CASE JobFails
  BY <1>7 DEF JobFails, PublishKinds
<1>8. CASE JobSucceeds \/ WriteBack \/ ReArm \/ Elapse
  BY <1>8 DEF PublishKinds
<1>9. QED
  BY <1>1, <1>2, <1>4, <1>5, <1>6, <1>7, <1>8 DEF Next

\* The controller does not let a published phase wait longer than WriteBackTime.
LEMMA WriteStep ==
  ASSUME TypeOK, WriteInv, PublishKinds
  PROVE  WriteInv'
<1>1. CASE UNCHANGED <<now, completed, writes>>
  BY <1>1 DEF WriteInv
<1>2. ASSUME NEW p \in Pods, NEW s \in completed, Parks(p, s), UNCHANGED <<now, completed>>
      PROVE  WriteInv'
  BY <1>2, Numbers DEF Parks, WriteInv
<1>3. CASE JobSucceeds
  BY <1>3, Numbers DEF JobSucceeds, WriteInv
<1>4. CASE WriteBack
  BY <1>4 DEF WriteBack, WriteInv
<1>5. CASE ReArm
  BY <1>5 DEF ReArm, WriteInv
<1>6. CASE Elapse
  <2>1. /\ now' = now + 1 /\ UNCHANGED <<writes, completed>>
        /\ \A w \in writes : now - w.at < WriteBackTime
    BY <1>6 DEF Elapse
  <2>2. QED
    BY <2>1, Numbers DEF WriteInv
<1>7. QED
  BY <1>1, <1>2, <1>3, <1>4, <1>5, <1>6 DEF PublishKinds

\* Behind a park that is the first to land nothing is left but parks: a Job's phase is as old
\* as its success, and no success has followed.
LEMMA ParkLands ==
  ASSUME TypeOK, WriteInv, NEW park, park.publishedAt \in Nat, park.completedAt \in Nat,
         park.completedAt + RespawnGrace <= park.publishedAt, Current(park),
         NEW v \in writes, v.at >= park.publishedAt
  PROVE  v.to = HumanReview
<1>1. SUFFICES ASSUME v.to # HumanReview PROVE FALSE
  OBVIOUS
<1>2. v.of \in completed /\ v.at = v.of.at
  BY <1>1 DEF WriteInv
<1>3. v.at <= park.completedAt
  BY <1>2 DEF Current
<1>4. QED
  BY <1>3, Numbers

\* The memory of a park stays true: of the next success, of the writes that land, of time.
LEMMA ParkStep ==
  ASSUME TypeOK, WriteInv, KnownInv, ParkInv, PublishKinds
  PROVE  ParkInv'
<1>1. CASE UNCHANGED <<now, completed, writes, parkPublished, phase, rearmed>>
  BY <1>1 DEF ParkInv, Current, Landing, Landed, Latest
<1>2. ASSUME NEW p \in Pods, NEW s \in completed, Parks(p, s),
             UNCHANGED <<now, completed, phase, rearmed>>
      PROVE  ParkInv'
  <2> DEFINE new == [to |-> HumanReview, at |-> now, of |-> s]
  <2>1. writes' = writes \cup {new} /\ new \in writes' /\ new.to = HumanReview /\ new.at = now
    BY <1>2 DEF Parks
  <2>2. ASSUME NEW q \in Pods, parkPublished'[q] # NoPark
        PROVE  /\ parkPublished'[q].completedAt + RespawnGrace <= parkPublished'[q].publishedAt
               /\ parkPublished'[q].publishedAt <= now'
               /\ Current(parkPublished[q])' =>
                    Landing(parkPublished[q])' \/ Landed' \/ (Latest(completed) \subseteq rearmed)'
    <3>1. CASE q = p
      <4>1. parkPublished'[p] = [completedAt |-> s.at, publishedAt |-> now]
        BY <1>2 DEF Parks, TypeOK
      <4>2. s.at + RespawnGrace <= now
        BY <1>2, Numbers DEF Parks, InGrace
      <4>3. Landing(parkPublished[q])'
        <5>1. parkPublished'[q].publishedAt = now
          BY <3>1, <4>1
        <5>2. \E w \in writes' : w.to = HumanReview /\ w.at = parkPublished'[q].publishedAt
          <6> HIDE DEF new
          <6>1. QED
            BY <2>1, <5>1
        <5>3. QED
          BY <5>2 DEF Landing
      <4>4. now' = now /\ now \in Nat
        BY <1>2, Numbers
      <4>5. QED
        BY <3>1, <4>1, <4>2, <4>3, <4>4
    <3>2. CASE q # p
      <4>1. parkPublished'[q] = parkPublished[q]
        BY <1>2, <3>2 DEF Parks, TypeOK
      <4>2. Landing(parkPublished[q]) => Landing(parkPublished[q])'
        BY <2>1, <4>1 DEF Landing
      <4>3. Landed => Landed'
        BY <1>2, <2>1 DEF Landed
      <4>4. QED
        BY <1>2, <2>2, <4>1, <4>2, <4>3 DEF ParkInv, Current, Latest
    <3>3. QED
      BY <3>1, <3>2
  <2>3. QED
    BY <2>2 DEF ParkInv
<1>3. ASSUME NEW p \in Pods, parkPublished' = [parkPublished EXCEPT ![p] = NoPark],
             UNCHANGED <<now, completed, writes, phase, rearmed>>
      PROVE  ParkInv'
  <2>1. \A q \in Pods : parkPublished'[q] # NoPark => parkPublished'[q] = parkPublished[q]
    BY <1>3 DEF TypeOK
  <2>2. QED
    BY <1>3, <2>1 DEF ParkInv, Current, Landing, Landed, Latest
<1>4. CASE JobSucceeds
  <2>1. /\ [phase |-> job, at |-> now] \in completed'
        /\ UNCHANGED <<now, parkPublished>>
    BY <1>4 DEF JobSucceeds
  <2>2. ASSUME NEW q \in Pods, parkPublished[q] # NoPark PROVE ~Current(parkPublished[q])'
    <3>1. parkPublished[q].completedAt < now
      BY <2>2, Numbers DEF ParkInv
    <3>2. QED
      BY <2>1, <3>1, <2>2, Numbers DEF Current
  <2>3. QED
    BY <2>1, <2>2 DEF ParkInv
<1>5. CASE WriteBack
  <2>1. PICK w \in writes : /\ \A v \in writes : w.at <= v.at
                            /\ phase' = w.to
                            /\ writes' = writes \ {w}
    BY <1>5 DEF WriteBack
  <2>2. UNCHANGED <<now, completed, parkPublished, rearmed>>
    BY <1>5 DEF WriteBack
  <2>3. ASSUME NEW q \in Pods, parkPublished[q] # NoPark, Current(parkPublished[q])
        PROVE  Landing(parkPublished[q])' \/ Landed' \/ (Latest(completed) \subseteq rearmed)'
    <3>1. CASE Landing(parkPublished[q]) /\ w.at = parkPublished[q].publishedAt
      <4>1. \A v \in writes : v.to = HumanReview
        BY <2>1, <2>3, <3>1, ParkLands, Numbers DEF ParkInv
      <4>2. QED
        BY <2>1, <4>1 DEF Landed
    <3>2. CASE Landing(parkPublished[q]) /\ w.at # parkPublished[q].publishedAt
      BY <2>1, <2>2, <3>2 DEF Landing
    <3>3. CASE Landed
      BY <2>1, <3>3 DEF Landed
    <3>4. CASE Latest(completed) \subseteq rearmed
      BY <2>2, <3>4 DEF Latest
    <3>5. QED
      BY <2>3, <3>1, <3>2, <3>3, <3>4 DEF ParkInv
  <2>4. QED
    BY <2>2, <2>3 DEF ParkInv, Current
<1>6. CASE ReArm
  <2>1. rearmed' = completed /\ UNCHANGED <<now, completed, parkPublished>>
    BY <1>6 DEF ReArm
  <2>2. (Latest(completed) \subseteq rearmed)'
    BY <2>1 DEF Latest
  <2>3. QED
    BY <2>1, <2>2 DEF ParkInv
<1>7. CASE Elapse
  <2>1. now' = now + 1 /\ UNCHANGED <<completed, writes, parkPublished, phase, rearmed>>
    BY <1>7 DEF Elapse
  <2>2. QED
    BY <2>1, Numbers DEF ParkInv, Current, Landing, Landed, Latest
<1>8. QED
  BY <1>1, <1>2, <1>3, <1>4, <1>5, <1>6, <1>7 DEF PublishKinds

\* The invariant behind the decisions.
SuccessInv == StoreInv /\ KnownInv /\ WriteInv /\ ParkInv

LEMMA SuccessInit == Init => SuccessInv
<1>1. Init => KnownInv /\ WriteInv
  BY DEF Init, KnownInv, WriteInv, NoRecord
<1>2. Init => ParkInv
  BY DEF Init, ParkInv
<1>3. QED
  BY <1>1, <1>2, StoreInit DEF SuccessInv

LEMMA SuccessStep == SuccessInv /\ [Next]_vars => SuccessInv'
<1>1. SUFFICES ASSUME SuccessInv, [Next]_vars PROVE SuccessInv'
  OBVIOUS
<1>2. StoreInv'
  BY <1>1, TypeStep, RecordStep, NewestStep DEF SuccessInv, StoreInv
<1>3. KnownInv'
  BY <1>1, KnownStep DEF SuccessInv, StoreInv
<1>4. WriteInv' /\ ParkInv'
  BY <1>1, PublishSteps, WriteStep, ParkStep DEF SuccessInv, StoreInv
<1>5. QED
  BY <1>2, <1>3, <1>4 DEF SuccessInv

\* The newest success, once recorded, is in the store.
LEMMA NewestInStore ==
  ASSUME SuccessInv, NEW s \in Latest(completed) \cap recorded
  PROVE  s \in refs
<1>1. PICK r \in refs : r = s \/ r.at > s.at
  BY DEF SuccessInv, StoreInv, NewestRecordSurvives
<1>2. r \in completed /\ s \in completed /\ r.at <= s.at
  BY DEF SuccessInv, KnownInv, Latest
<1>3. r.at \in Nat /\ s.at \in Nat
  BY <1>2, Numbers DEF SuccessInv, StoreInv
<1>4. QED
  BY <1>1, <1>2, <1>3

\* What lastSuccess finds is as new as the newest success, if that is not expired.
LEMMA NewestFound ==
  ASSUME SuccessInv, NEW p \in Pods, NEW s \in Latest(completed) \cap recorded,
         s.phase = phase, ~Expired(s)
  PROVE  s \in LastSuccess(p, refs) /\ LastSuccess(p, refs) = {s}
<1>1. s \in refs /\ s \in completed
  BY NewestInStore DEF Latest
<1>2. s \in KnownSuccesses(p, refs)
  BY <1>1, Numbers DEF KnownSuccesses, SuccessInv, StoreInv
<1>3. KnownSuccesses(p, refs) \subseteq completed
  BY DEF KnownSuccesses, SuccessInv, KnownInv
<1>4. \A r \in KnownSuccesses(p, refs) : r.at <= s.at
  BY <1>3 DEF Latest
<1>5. s \in LastSuccess(p, refs)
  BY <1>2, <1>4 DEF LastSuccess, Latest
<1>6. ASSUME NEW r \in LastSuccess(p, refs) PROVE r = s
  <2>1. r \in completed /\ r.phase = phase
    BY <1>3 DEF LastSuccess, Latest, KnownSuccesses
  <2>2. s.at <= r.at
    BY <1>2 DEF LastSuccess, Latest
  <2>3. r.at <= s.at
    BY <2>1 DEF Latest
  <2>4. r.at = s.at
    BY <1>1, <2>1, <2>2, <2>3, Numbers DEF SuccessInv, StoreInv
  <2>5. r \in Completion /\ s \in Completion
    BY <1>1, <2>1 DEF SuccessInv, StoreInv, TypeOK
  <2>6. QED
    BY <2>1, <2>4, <2>5 DEF Completion
<1>7. QED
  BY <1>5, <1>6

\* A decision that lets the newest success of the phase be run again has its reason.
LEMMA SpawnHasReason ==
  ASSUME SuccessInv, NEW p \in Pods, Decide(p), job' # job,
         NEW s \in Latest(completed) \cap recorded, s.phase = phase
  PROVE  IF recurring THEN now >= s.at + Cadence ELSE Expired(s) \/ s \in rearmed
<1>1. s \in completed
  BY DEF Latest
<1>2. /\ now \in Nat /\ RespawnGrace \in Nat /\ Cadence \in Nat /\ Retention \in Nat
      /\ WriteBackTime \in Nat /\ s.at \in Nat
      /\ WriteBackTime < RespawnGrace /\ Cadence <= Retention
  BY <1>1, Numbers DEF SuccessInv, StoreInv
<1>3. CASE Expired(s)
  BY <1>2, <1>3 DEF Expired
<1>4. CASE ~Expired(s)
  <2>1. LastSuccess(p, refs) = {s}
    BY <1>4, NewestFound
  <2>2. SuppressOrPark(p, refs)
    BY DEF Decide
  <2>3. phase \in Phases /\ MaySpawn(p, s)
    <3>1. ~\E r \in LastSuccess(p, refs) : Parks(p, r)
      BY DEF Parks
    <3>2. QED
      BY <2>1, <2>2, <3>1, DecisionKinds
  <2>4. CASE recurring
    BY <1>2, <2>3, <2>4 DEF MaySpawn, RecentlySucceeded
  <2>5. CASE ~recurring
    <3>1. ParkedBefore(p, s) /\ ~ParkAwaitsWriteBack(p, s)
      BY <2>3, <2>5 DEF MaySpawn
    <3>2. parkPublished[p] # NoPark /\ parkPublished[p].completedAt = s.at
      BY <3>1 DEF ParkedBefore
    <3>3. Current(parkPublished[p])
      BY <3>2 DEF Current, Latest
    <3>4. parkPublished[p].publishedAt \in Nat /\ now - parkPublished[p].publishedAt > WriteBackTime
      BY <1>2, <3>1, <3>2, Numbers DEF ParkAwaitsWriteBack, InGrace, SuccessInv, StoreInv
    <3>5. ~Landing(parkPublished[p])
      BY <1>2, <3>4, Numbers DEF Landing, SuccessInv, StoreInv, WriteInv
    <3>6. ~Landed
      BY <2>3, ConstantsAssumption DEF Landed
    <3>7. s \in rearmed
      BY <3>2, <3>3, <3>5, <3>6 DEF SuccessInv, ParkInv
    <3>8. QED
      BY <2>5, <3>7
  <2>6. QED
    BY <2>4, <2>5
<1>5. QED
  BY <1>3, <1>4

\* suppressOrPark: for any number of pods, replaced at any time, with every failure but that
\* of its own read, a pod runs a phase again whose newest success is on record only after the
\* cadence of a recurring task, and any other only after an operator's re-arm or past the
\* retention.
THEOREM SuccessIsNotRerun == Spec => SuccessNotRerun
<1>1. ASSUME SuccessInv, [Next]_vars
      PROVE  [\A p \in Pods : Decide(p) /\ job' # job =>
                \A s \in Latest(completed) \cap recorded :
                  s.phase = phase =>
                    IF recurring THEN now >= s.at + Cadence ELSE Expired(s) \/ s \in rearmed]_vars
  BY <1>1, SpawnHasReason
<1>2. QED
  BY SuccessInit, SuccessStep, <1>1, PTL DEF Spec, SuccessNotRerun

\* A phase that a recorded Job of the task's phase has on the way holds a park back: the
\* success is found, it is the newest there is, and within its grace.
LEMMA ParkWaits ==
  ASSUME SuccessInv, NEW p \in Pods, Decide(p), writes' # writes,
         NEW w \in writes, w.of.phase = phase, w.of \in refs
  PROVE  w.to = HumanReview
<1>1. SUFFICES ASSUME w.to # HumanReview PROVE FALSE
  OBVIOUS
<1>2. w.of \in completed /\ w.at = w.of.at /\ now - w.at <= WriteBackTime
  BY <1>1 DEF SuccessInv, WriteInv
<1>3. /\ now \in Nat /\ RespawnGrace \in Nat /\ Retention \in Nat /\ WriteBackTime \in Nat
      /\ w.of.at \in Nat /\ w.of # NoCompletion
      /\ WriteBackTime < RespawnGrace /\ RespawnGrace <= Retention
  BY <1>2, Numbers DEF SuccessInv, StoreInv
<1>4. PICK s \in LastSuccess(p, refs) : Parks(p, s)
  BY DecisionKinds DEF Decide
<1>5. s \in completed
  BY FoundCompleted DEF SuccessInv, KnownInv
<1>6. s.at + RespawnGrace <= now
  BY <1>3, <1>4, <1>5, Numbers DEF Parks, InGrace, SuccessInv, StoreInv
<1>7. w.of \in KnownSuccesses(p, refs)
  BY <1>2, <1>3 DEF KnownSuccesses, Expired
<1>8. w.of.at <= s.at
  BY <1>7 DEF LastSuccess, Latest
<1>9. QED
  BY <1>2, <1>3, <1>5, <1>6, <1>8, Numbers DEF SuccessInv, StoreInv

\* parkSucceededWithoutPhaseMove: no pod takes a phase that is still on its way to the vault
\* for an agent that did not move on, whatever fails and whoever decides at the same time.
THEOREM ParksAfterWriteBack == Spec => ParkAfterWriteBack
<1>1. ASSUME SuccessInv, [Next]_vars
      PROVE  [\A p \in Pods : Decide(p) /\ writes' # writes =>
                \A w \in writes : w.of.phase = phase /\ w.of \in refs => w.to = HumanReview]_vars
  BY <1>1, ParkWaits
<1>2. QED
  BY SuccessInit, SuccessStep, <1>1, PTL DEF Spec, ParkAfterWriteBack

=============================================================================
