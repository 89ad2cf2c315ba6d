---------------------------- MODULE RedriveStreak ---------------------------
(***************************************************************************)
(* How many times a failing task is run again                              *)
(* (pkg/handler/task_event_handler_redrive.go, redrive_streak_cache.go,    *)
(* pkg/claim/redrive_refs.go, redrive_streak_store.go,                     *)
(* redrive_reason_store.go, pkg/result_publisher.go).                      *)
(*                                                                         *)
(* Every published failure leaves two refs in the shared ref store: one    *)
(* that counts and one that names the reason.  They are written by         *)
(* separate requests that may fail, by clusters that do not know of each   *)
(* other, and only the first expires.  Before a run the spawn path counts  *)
(* the live refs, live or in a snapshot of the reconcile pass; at the cap  *)
(* it reads the reasons and closes the task, runs it once more, or refuses.*)
(*                                                                         *)
(* One task.  Its Jobs are numbered; the number of the Job stands for the  *)
(* sha of the refs its failure leaves.  Passes and reports are short next  *)
(* to the window (seconds to 6 h), so time does not pass during them.      *)
(***************************************************************************)
EXTENDS Integers, Sequences, FiniteSets, FiniteSetsExt, SequencesExt

CONSTANTS
    Publishers,   \* the clusters, each of which publishes the failures it sees
    Deciders,     \* the clusters whose tasks include this one
    Phases, FirstPhase,   \* of the task, and where it starts
    Cap,          \* maxConsecutiveRedrives
    Extra,        \* transientRedriveBudget
    Window,       \* RedriveStreakLeaseDuration, in ticks
    MaxAttempts,  \* redriveStreakMaxCreateAttempts
    Budgets,      \* what may happen, and how often: [run, move, reopen, pass, twice,
                  \* read, put, clear], and the failure classes that occur: [kinds]
    Nothing

Kinds == UNION {b.kinds : b \in Budgets}

Remaining == [run : Int, move : Int, reopen : Int, pass : Int, twice : Int,
              read : Int, put : Int, clear : Int, kinds : SUBSET Kinds]

ASSUME RedriveConstants ==
    /\ Window \in Nat /\ FirstPhase \in Phases
    /\ Deciders \subseteq Publishers
    /\ Budgets \subseteq Remaining

VARIABLES
    streaks,  \* refs claims/redrive/<task>/<phase>/<n>: [phase, n, left, sha]
    reasons,  \* refs claims/redrive-reason/<task>/<phase>/<reason>/<n>: [phase, reason, n, sha]
    task,     \* the record: [phase, status]
    job,      \* the running Job: [phase, sha], or Nothing
    mem,      \* redriveStreaks of each process: [count, phase, left]
    snap,     \* passRedriveStreakCache of a pass under way, or Nothing
    rep,      \* the failure report each publisher is at
    ending,   \* clusters that have yet to consume the event of the closed task
    failed,   \* history: the failures so far, [phase, reason, left], by Job
    own,      \* history: the reports of the present streak: <<Job, cluster>>
    lost,     \* history: the kinds of request that failed, of "read", "put", "clear"
    left      \* what may still happen

redriveVars == <<streaks, reasons, task, job, mem, snap, rep, ending, failed, own, lost, left>>
store == <<streaks, reasons>>
history == <<failed, own, lost>>

Idle == [pc |-> "idle"]
NoStreak == [count |-> 0, phase |-> Nothing, left |-> 0]

RedriveInit ==
    /\ streaks = {} /\ reasons = {}
    /\ task = [phase |-> FirstPhase, status |-> "open"]
    /\ job = Nothing
    /\ mem = [c \in Publishers |-> NoStreak]
    /\ snap = [c \in Publishers |-> Nothing]
    /\ rep = [c \in Publishers |-> Idle]
    /\ ending = {}
    /\ failed = <<>>
    /\ own = {}
    /\ lost = {}
    /\ left \in Budgets

Spend(kind) == left[kind] > 0 /\ left' = [left EXCEPT ![kind] = @ - 1]

-----------------------------------------------------------------------------
(* The stores. *)

\* Mutant: streak refs do not expire.
NeverExpired(ref) == FALSE

redriveStreakRefExpired(ref) == ref.left = 0

At(refs, phase) == {r \in refs : r.phase = phase}

(* Count; Snapshot counts the same way. *)
Count(refs, phase) == Cardinality({r \in At(refs, phase) : ~redriveStreakRefExpired(r)})

(* Reasons: by number, oldest first; refs of two reasons may share one, and *)
(* then the order of the two is open.                                       *)
ReasonLists(refs, phase) ==
    LET here == At(refs, phase)
    IN  {[i \in DOMAIN s |-> s[i].reason] :
            s \in {t \in SetToSeqs(here) : \A i, j \in DOMAIN t : i < j => t[i].n <= t[j].n}}

nextRedriveNumber(refs, phase) == Max({r.n : r \in At(refs, phase)} \union {0}) + 1

\* Mutant: the put replaces what is there.
PutReplaces(refs, key) == FALSE

(* Put with an empty expected sha: the key must not exist. *)
Taken(refs, key) == \E r \in refs : \A f \in DOMAIN key : r[f] = key[f]

redriveDeleteOtherPhases(refs, listed, phase) == {r \in refs : r.phase = phase \/ r \notin listed}

pruneExpired == {r \in streaks : ~redriveStreakRefExpired(r)}

(* Clear: the refs of the task, whatever their phase. *)
clearRedriveRefs(refs) == {}

-----------------------------------------------------------------------------
(* The cap (redriveStreakCapped). *)

brokenRedriveReasons == {"pod_crash_no_stdout", "pod_oom_killed", "type_mismatch"}

classifyRedriveReasons(list, count) ==
    LET recent == SubSeq(list, Len(list) - Min({count, Len(list)}) + 1, Len(list))
    IN  CASE count < 1 \/ Range(recent) \subseteq {"unknown"} -> "unknown"
          [] /\ Len(recent) >= Cap
             /\ Cardinality(Range(recent)) = 1
             /\ recent[1] \in brokenRedriveReasons -> "broken"
          [] OTHER -> "transient"

inMemoryRedriveCount(c) ==
    IF mem[c].phase = task.phase /\ mem[c].left > 0 THEN mem[c].count ELSE 0

(* What a count and a list of reasons lead to. *)
redriveStreakCapped(count, list) ==
    LET class == classifyRedriveReasons(list, count)
    IN  CASE count < Cap -> "run"
          [] count >= Cap /\ class = "transient" /\ count < Cap + Extra -> "run"
          [] OTHER -> class

(* recordRedriveSpawn: the attempts of this process, in memory. *)
recordRedriveSpawn(c) ==
    mem' = [mem EXCEPT ![c] = [count |-> inMemoryRedriveCount(c) + 1, phase |-> task.phase, left |-> Window]]

(* PublishAbort closes the task; its event reaches every cluster.  A       *)
(* duplicate within the dedupe window is dropped, which only delays it.    *)
PublishAbort(verdict) ==
    /\ task' = [task EXCEPT !.status = verdict]
    /\ ending' = Publishers

(* One decision.  A count that cannot be read leaves memory; reasons that  *)
(* cannot be read are no evidence.  A run comes only when none is under    *)
(* way; a refusal for want of evidence changes nothing.                    *)
Decide(c, count, list) ==
    LET verdict == redriveStreakCapped(count, list)
    IN  /\ task.status = "open" /\ job = Nothing
        /\ \/ /\ verdict = "run" /\ left.run > 0
              /\ job' = [phase |-> task.phase, sha |-> Len(failed) + 1]
              /\ recordRedriveSpawn(c)
              /\ UNCHANGED <<task, ending>>
           \/ /\ verdict \in {"broken", "transient"}
              /\ PublishAbort(verdict)
              /\ UNCHANGED <<job, mem>>
        /\ UNCHANGED <<store, snap, rep, failed, own>>

DecideLive(c) ==
    /\ \E list \in ReasonLists(reasons, task.phase) : Decide(c, Count(streaks, task.phase), list)
    /\ left' = [left EXCEPT !.run = IF job' = Nothing THEN @ ELSE @ - 1]
    /\ lost' = lost

(* The read of the count fails, or, at the cap, that of the reasons. *)
DecideBlind(c, count, list) ==
    /\ left.read > 0
    /\ Decide(c, count, list)
    /\ left' = [left EXCEPT !.read = @ - 1, !.run = IF job' = Nothing THEN @ ELSE @ - 1]
    /\ lost' = lost \union {"read"}

(* The reconcile pass: one snapshot of the counts, and later, when a task  *)
(* at its cap asks for them, one of the reasons.                           *)
StartPass(c) ==
    /\ snap[c] = Nothing
    /\ Spend("pass")
    /\ snap' = [snap EXCEPT ![c] = [streaks |-> streaks, reasons |-> Nothing]]
    /\ UNCHANGED <<store, task, job, mem, rep, ending, history>>

PassReasons(c) ==
    /\ snap[c] # Nothing /\ snap[c].reasons = Nothing
    /\ snap' = [snap EXCEPT ![c].reasons = reasons]
    /\ UNCHANGED <<store, task, job, mem, rep, ending, history, left>>

DecideInPass(c) ==
    /\ snap[c] # Nothing
    /\ snap[c].reasons = Nothing => Count(snap[c].streaks, task.phase) < Cap
    /\ \E list \in IF snap[c].reasons = Nothing THEN {<<>>} ELSE ReasonLists(snap[c].reasons, task.phase) :
          Decide(c, Count(snap[c].streaks, task.phase), list)
    /\ left' = [left EXCEPT !.run = IF job' = Nothing THEN @ ELSE @ - 1]
    /\ lost' = lost

EndPass(c) ==
    /\ snap[c] # Nothing
    /\ snap' = [snap EXCEPT ![c] = Nothing]
    /\ UNCHANGED <<store, task, job, mem, rep, ending, history, left>>

-----------------------------------------------------------------------------
(* The task. *)

Report(reason) == [pc |-> "count", phase |-> job.phase, reason |-> reason, sha |-> job.sha,
                   listed |-> {}, attempt |-> 1]

(* The failure of the Job begins a streak: the last failure was too long   *)
(* ago.                                                                    *)
Begins == \A i \in own : failed[i[1]].left = 0

(* The Job fails, and those that watch it publish the failure: one cluster, *)
(* or two replicas during a rollout.                                        *)
JobFails(reason, watchers) ==
    /\ job # Nothing
    /\ \A c \in watchers : rep[c] = Idle
    /\ IF Cardinality(watchers) = 1 THEN left' = left ELSE Spend("twice")
    /\ rep' = [c \in Publishers |-> IF c \in watchers THEN Report(reason) ELSE rep[c]]
    /\ failed' = Append(failed, [phase |-> job.phase, reason |-> reason, left |-> Window])
    /\ own' = {<<job.sha, c>> : c \in watchers} \union (IF Begins THEN {} ELSE own)
    /\ job' = Nothing
    /\ UNCHANGED <<store, task, mem, snap, ending, lost>>

(* The agent or a person moves the task to another phase, running or not. *)
PhaseMoves(phase) ==
    /\ task.status = "open" /\ phase # task.phase
    /\ Spend("move")
    /\ task' = [task EXCEPT !.phase = phase]
    /\ UNCHANGED <<store, job, mem, snap, rep, ending, history>>

(* clearRedriveStreak, when the event of the closed task is consumed. *)
clearRedriveStreak(c, fails) ==
    /\ c \in ending
    /\ ending' = ending \ {c}
    /\ mem' = [mem EXCEPT ![c] = NoStreak]
    /\ IF fails THEN Spend("clear") /\ UNCHANGED store /\ lost' = lost \union {"clear"}
       ELSE /\ streaks' = clearRedriveRefs(streaks) /\ reasons' = clearRedriveRefs(reasons)
            /\ UNCHANGED <<left, lost>>
    /\ UNCHANGED <<task, job, snap, rep, failed, own>>

(* A person opens the closed task again. *)
Reopen ==
    /\ task.status # "open" /\ ending = {}
    /\ Spend("reopen")
    /\ task' = [task EXCEPT !.status = "open"]
    /\ own' = {}
    /\ UNCHANGED <<store, job, mem, snap, rep, ending, failed, lost>>

Tick ==
    /\ \A c \in Publishers : snap[c] = Nothing /\ rep[c] = Idle
    /\ \E r \in streaks : ~redriveStreakRefExpired(r)
    /\ streaks' = {[r EXCEPT !.left = Max({@ - 1, 0})] : r \in streaks}
    /\ mem' = [c \in Publishers |-> [mem[c] EXCEPT !.left = Max({@ - 1, 0})]]
    /\ failed' = [i \in DOMAIN failed |-> [failed[i] EXCEPT !.left = Max({@ - 1, 0})]]
    /\ UNCHANGED <<reasons, task, job, snap, rep, ending, own, lost, left>>

-----------------------------------------------------------------------------
(* The publisher (recordRedriveFailure, then recordRedriveReason).  Every  *)
(* request is a step; its failure is logged and the report goes on.        *)

ReportGoes(c, pc) == rep' = [rep EXCEPT ![c].pc = pc]

recordRedriveFailure(c, fails) ==
    LET n == Count(streaks, rep[c].phase)
    IN  /\ rep[c].pc = "count"
        /\ IF fails
           THEN Spend("read") /\ ReportGoes(c, "list") /\ lost' = lost \union {"read"}
           ELSE left' = left /\ ReportGoes(c, IF n = 0 THEN "clear" ELSE "list") /\ lost' = lost
        /\ UNCHANGED <<store, task, job, mem, snap, ending, failed, own>>

\* Mutant: the reasons of the streak before stay.
keepReasonsForNewStreak(c, fails) ==
    /\ rep[c].pc = "clear"
    /\ ReportGoes(c, "list")
    /\ UNCHANGED <<store, task, job, mem, snap, ending, history, left>>

clearReasonsForNewStreak(c, fails) ==
    /\ rep[c].pc = "clear"
    /\ ReportGoes(c, "list")
    /\ IF fails THEN Spend("clear") /\ reasons' = reasons /\ lost' = lost \union {"clear"}
       ELSE reasons' = clearRedriveRefs(reasons) /\ UNCHANGED <<left, lost>>
    /\ UNCHANGED <<streaks, task, job, mem, snap, ending, failed, own>>

(* The list before the first attempt and after each conflict; the streak   *)
(* store prunes what has expired before the first one.                     *)
redriveListForTask(c) ==
    LET prunes == rep[c].pc = "list" /\ rep[c].attempt = 1
    IN  /\ rep[c].pc \in {"list", "rlist"}
        /\ streaks' = IF prunes THEN pruneExpired ELSE streaks
        /\ rep' = [rep EXCEPT ![c].pc = IF @ = "list" THEN "put" ELSE "rput",
                              ![c].listed = IF rep[c].pc = "list" THEN streaks' ELSE reasons]
        /\ UNCHANGED <<reasons, task, job, mem, snap, ending, history, left>>

ReasonStep(c) == [rep[c] EXCEPT !.pc = "rlist", !.listed = {}, !.attempt = 1]

\* Mutant: a conflict is not tried again.
AfterOnce(c, conflict) ==
    rep' = [rep EXCEPT ![c] = IF @.pc \in {"list", "put"} THEN ReasonStep(c) ELSE Idle]

(* What follows an attempt: the reason after the streak, nothing after the *)
(* reason, and after a conflict another list, MaxAttempts times in all.    *)
After(c, conflict) ==
    LET again == [rep[c] EXCEPT !.pc = IF @ = "put" THEN "list" ELSE "rlist",
                                !.listed = {}, !.attempt = @ + 1]
    IN  rep' = [rep EXCEPT ![c] = IF conflict /\ rep[c].attempt < MaxAttempts THEN again
                                  ELSE IF rep[c].pc \in {"list", "put"} THEN ReasonStep(c) ELSE Idle]

(* The last attempt meets a conflict: recordRedriveRef returns the error.  *)
Exhausted(c, conflict) ==
    lost' = IF conflict /\ ~(rep[c].attempt < MaxAttempts) THEN lost \union {"put"} ELSE lost

Created(refs, ref, listed) == redriveDeleteOtherPhases(refs \union {ref}, listed, ref.phase)

recordRedriveStreak(c) ==
    LET n == nextRedriveNumber(rep[c].listed, rep[c].phase)
        conflict == Taken(streaks, [phase |-> rep[c].phase, n |-> n])
        ref == [phase |-> rep[c].phase, n |-> n, left |-> Window, sha |-> rep[c].sha]
    IN  /\ rep[c].pc = "put"
        /\ streaks' = IF conflict THEN streaks ELSE Created(streaks, ref, rep[c].listed)
        /\ After(c, conflict)
        /\ own' = IF conflict THEN own
                  ELSE {i \in own : \/ failed[i[1]].phase = ref.phase \/ i[1] > ref.sha
                                    \/ rep[i[2]] # Idle \/ \E r \in streaks' : r.sha = i[1]}
        /\ Exhausted(c, conflict)
        /\ UNCHANGED <<reasons, task, job, mem, snap, ending, failed, left>>

recordRedriveReason(c) ==
    LET n == nextRedriveNumber(rep[c].listed, rep[c].phase)
        conflict == Taken(reasons, [phase |-> rep[c].phase, reason |-> rep[c].reason, n |-> n])
        ref == [phase |-> rep[c].phase, reason |-> rep[c].reason, n |-> n, sha |-> rep[c].sha]
    IN  /\ rep[c].pc = "rput"
        /\ reasons' = IF conflict THEN reasons ELSE Created(reasons, ref, rep[c].listed)
        /\ After(c, conflict)
        /\ Exhausted(c, conflict)
        /\ UNCHANGED <<streaks, task, job, mem, snap, ending, failed, own, left>>

(* A list or a put fails with anything but a conflict, and the report goes *)
(* on without it.                                                          *)
RecordFails(c) ==
    /\ rep[c].pc \in {"list", "put", "rlist", "rput"}
    /\ Spend("put")
    /\ After(c, FALSE)
    /\ lost' = lost \union {"put"}
    /\ UNCHANGED <<store, task, job, mem, snap, ending, failed, own>>

-----------------------------------------------------------------------------
Reporting(c) ==
    \/ \E fails \in BOOLEAN : recordRedriveFailure(c, fails) \/ clearReasonsForNewStreak(c, fails)
    \/ redriveListForTask(c)
    \/ recordRedriveStreak(c)
    \/ recordRedriveReason(c)
    \/ RecordFails(c)

Passing(c) == StartPass(c) \/ PassReasons(c) \/ DecideInPass(c) \/ EndPass(c)

RedriveNext ==
    \/ \E c \in Deciders :
          \/ DecideLive(c)
          \/ \E list \in ReasonLists(reasons, task.phase) : DecideBlind(c, inMemoryRedriveCount(c), list)
          \/ DecideBlind(c, Count(streaks, task.phase), <<>>)
          \/ Passing(c)
    \/ \E c \in Publishers :
          \/ Reporting(c)
          \/ \E fails \in BOOLEAN : clearRedriveStreak(c, fails)
    \/ \E reason \in left.kinds, watchers \in SUBSET Publishers \ {{}} : JobFails(reason, watchers)
    \/ \E phase \in Phases : PhaseMoves(phase)
    \/ Reopen
    \/ Tick

RedriveSpec == RedriveInit /\ [][RedriveNext]_redriveVars

(* Reports and passes end, the event of a closed task is consumed, every   *)
(* executor goes on deciding, and the clock does not stop.                 *)
Fairness ==
    /\ \A c \in Deciders : WF_redriveVars(EndPass(c)) /\ WF_redriveVars(DecideLive(c))
    /\ \A c \in Publishers :
          /\ WF_redriveVars(Reporting(c))
          /\ WF_redriveVars(clearRedriveStreak(c, FALSE))
    /\ WF_redriveVars(Tick)

FairRedrive == RedriveSpec /\ Fairness

-----------------------------------------------------------------------------
(* Refs are numbered once per key and stem from failures that happened.    *)
StreakTypeOK ==
    /\ \A r, s \in streaks : r.phase = s.phase /\ r.n = s.n => r = s
    /\ \A r, s \in reasons : <<r.phase, r.reason, r.n>> = <<s.phase, s.reason, s.n>> => r = s
    /\ \A r \in streaks \union reasons : r.sha \in DOMAIN failed /\ r.phase = failed[r.sha].phase
    /\ \A r \in streaks : r.left \in 0..Window

(* A task is closed as broken only on the failures of its present streak:  *)
(* Cap reports at its phase gave one and the same broken reason, and none   *)
(* is left over from a streak that ended by phase, window or closure       *)
(* (clearReasonsForNewStreak, classifyRedriveReasons).  Writes that fail   *)
(* only weaken the evidence; a read or a clear that fails may leave the    *)
(* reasons of an older streak in it, and so may a pass that outlasts the   *)
(* streak it has read: the property is for budgets without that.           *)
EvidenceIsOwn ==
    [][ task.status = "open" /\ task'.status = "broken" /\ lost' \subseteq {"put"} =>
          \E reason \in brokenRedriveReasons :
              Cardinality({i \in own : failed[i[1]].reason = reason /\ failed[i[1]].phase = task.phase}) >= Cap
      ]_redriveVars

(* A failure whose report is over and met no error counts as long as it is *)
(* young, whatever other reports ran beside it: only a move to another     *)
(* phase or a closed task takes its ref away (recordRedriveRef).           *)
FailureCounted ==
    \A i \in DOMAIN failed :
        /\ lost = {}
        /\ failed[i].left > 0
        /\ \A c \in Publishers : rep[c] = Idle
        /\ \A j \in DOMAIN failed : failed[j].phase = failed[i].phase
        /\ task.status = "open" /\ \E c \in Publishers : <<i, c>> \in own
        => \E r \in streaks : r.sha = i

(* A task at its cap is not left behind: it runs again or is closed, or    *)
(* the model is out of runs (redriveStreakRefExpired: "a streak ref that   *)
(* never expires makes the cap permanent").                                *)
NotStranded == []<>(job # Nothing \/ task.status # "open" \/ left.run = 0)

=============================================================================
