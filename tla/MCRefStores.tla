---------------------------- MODULE MCRefStores -----------------------------
(* What the executor keeps in the ref store beside the leases, for TLC: the *)
(* scheme declaration, the redrive streaks, and the keys that name both and *)
(* the claims.  The three have no ref in common, so each behaviour follows  *)
(* one of them and the others stay as they start.                           *)
EXTENDS SchemeGuard, ClaimKey, RedriveStreak, TLC

CONSTANTS a, b, p1, p2

VARIABLE focus

(* What may go wrong with three runs of the task, one thing at a time. *)
MCBudgets ==
    LET crash == "pod_crash_no_stdout"
        runs == [run |-> 3, move |-> 0, reopen |-> 0, pass |-> 0, twice |-> 0,
                 read |-> 0, put |-> 0, clear |-> 0, kinds |-> {crash, "deadline_exceeded"}]
    IN  { [runs EXCEPT !.put = 1],
          [runs EXCEPT !.move = 2, !.kinds = {crash}],
          [runs EXCEPT !.pass = 1, !.kinds = {crash}],
          [runs EXCEPT !.reopen = 1, !.clear = 1, !.kinds = {crash}],
          [runs EXCEPT !.run = 2, !.twice = 1],
          [runs EXCEPT !.read = 1, !.kinds = {crash, "unknown"}] }

(* Texts short enough to enumerate and long enough for owner and name to    *)
(* share a hyphen; bodies with a pull request of another repository, in     *)
(* other capitals, with a zero in front, with two numbers, and with none.   *)
Texts(n) == UNION {[1..k -> {"a", "A", "-", ".", "/", "lock", "~"}] : k \in 0..n}
Line(o, r, n) == [owner |-> o, repo |-> r, number |-> n]
Bodies ==
    { <<>>,
      <<Line(<<"a">>, <<"A">>, <<"0", "7">>)>>,
      <<Line(<<"a">>, <<"-">>, <<"1">>), Line(<<"a">>, <<"a">>, <<"1", "0">>)>>,
      <<Line(<<"a">>, <<"a">>, <<"7">>), Line(<<"a">>, <<"a">>, <<"1">>)>>,
      <<Line(<<"a">>, <<"a">>, <<"0">>)>>,
      <<Line(<<"a">>, <<"a">>, <<"1", "~">>)>> }
Tasks ==
    LET task0 == [type |-> "release", id |-> <<"a">>, repo |-> <<>>, cloneURL |-> <<"a", "/", "a">>, body |-> <<>>]
    IN  {[task0 EXCEPT !.repo = raw] : raw \in Texts(4)}
        \union {[task0 EXCEPT !.type = "pr-review", !.repo = raw, !.body = body] : raw \in Texts(3), body \in Bodies}
        \union {[task0 EXCEPT !.type = "code", !.id = id] : id \in Texts(3)}
Targets ==
    {Target(id, o, r, n) : id \in Texts(1), o \in Texts(1), r \in Texts(1), n \in {<<>>, <<"7">>, <<".", ".">>}}

all == <<vars, redriveVars, focus, asked>>

NoneAsked == [tasks |-> {}, targets |-> {}]

MCInit ==
    /\ Init /\ RedriveInit
    /\ \/ focus = "scheme" /\ asked = NoneAsked /\ left.put = 1
       \/ focus = "redrive" /\ asked = NoneAsked /\ mine = [c \in Clusters |-> "v2"]
       \/ /\ focus = "keys" /\ left.put = 1 /\ mine = [c \in Clusters |-> "v2"]
          /\ \/ \E t \in Tasks : asked = [NoneAsked EXCEPT !.tasks = {t}]
             \/ \E t \in Targets : asked = [NoneAsked EXCEPT !.targets = {t}]

MCNext ==
    \/ focus = "scheme" /\ Next /\ UNCHANGED <<redriveVars, focus, asked>>
    \/ focus = "redrive" /\ RedriveNext /\ UNCHANGED <<vars, focus, asked>>

MCSpec == MCInit /\ [][MCNext]_all /\ Fairness

=============================================================================
