---------------------------- MODULE SchemeGuard -----------------------------
(***************************************************************************)
(* The guard of the claim-key scheme (pkg/claim/scheme.go) and the claim   *)
(* that follows it (acquireSpawnClaim).  Clusters whose binaries derive    *)
(* different keys for one task do not exclude each other, so each compares *)
(* its scheme with the one the fleet has declared in the ref claims/scheme *)
(* and refuses to claim under another.                                     *)
(*                                                                         *)
(* One task.  A check is several requests; binaries are replaced by ones   *)
(* of another scheme at any time, and a person may delete the declaration. *)
(* A check that reaches no verdict admits the claim.                       *)
(***************************************************************************)
EXTENDS Naturals

CONSTANTS
    Clusters,
    Schemes,
    MaxRounds,  \* bound: how often the declaration is withdrawn
    None

Claims == [scheme : Schemes, verdict : Nat \union {None}]

ASSUME SchemeConstants ==
    None \notin Schemes /\ None \notin Clusters /\ None \notin Nat /\ None \notin Claims

VARIABLES
    declared,  \* the ref claims/scheme: a scheme, or None
    round,     \* history: how often it has been withdrawn
    mine,      \* ClaimKeySchemeVersion of the binary each cluster runs
    pc,        \* where the Check of each cluster is: "idle", "put", "reread" or "claim"
    verdict,   \* history: the round whose declaration admitted, or None for "unreadable"
    owner,     \* the claim refs of the task, one per scheme: a cluster, or None
    claim      \* the claim a cluster holds: [scheme, verdict], or None

vars == <<declared, round, mine, pc, verdict, owner, claim>>

Init ==
    /\ declared = None
    /\ round = 0
    /\ mine \in [Clusters -> Schemes]
    /\ pc = [c \in Clusters |-> "idle"]
    /\ verdict = [c \in Clusters |-> None]
    /\ owner = [s \in Schemes |-> None]
    /\ claim = [c \in Clusters |-> None]

Goto(c, p) == pc' = [pc EXCEPT ![c] = p]

-----------------------------------------------------------------------------
(* The ways a check ends.  refuse and admitUnreadable return at once, and  *)
(* so does confirm; the claim is the next request.                         *)

refuse(c) == Goto(c, "idle") /\ UNCHANGED verdict

admitUnreadable(c) == Goto(c, "claim") /\ verdict' = [verdict EXCEPT ![c] = None]

confirm(c) == Goto(c, "claim") /\ verdict' = [verdict EXCEPT ![c] = round]

\* Mutant: the declared scheme is not compared.
JudgeNothing(c) == confirm(c)

Judge(c) == IF declared = mine[c] THEN confirm(c) ELSE refuse(c)

(* Check: the first read. *)
Check(c) ==
    /\ pc[c] = "idle" /\ claim[c] = None
    /\ IF declared = None THEN Goto(c, "put") /\ UNCHANGED verdict ELSE Judge(c)
    /\ UNCHANGED <<declared, round, mine, owner, claim>>

(* bootstrap: the create, with an empty expected sha. *)
bootstrap(c) ==
    /\ pc[c] = "put"
    /\ IF declared = None
       THEN declared' = mine[c] /\ confirm(c)
       ELSE UNCHANGED <<declared, verdict>> /\ Goto(c, "reread")
    /\ UNCHANGED <<round, mine, owner, claim>>

\* Mutant: a lost create counts as a confirmation.
rereadSkipped(c) ==
    /\ pc[c] = "reread"
    /\ confirm(c)
    /\ UNCHANGED <<declared, round, mine, owner, claim>>

(* The read after a lost create; a declaration that is gone again is no    *)
(* verdict.                                                                *)
reread(c) ==
    /\ pc[c] = "reread"
    /\ IF declared = None THEN admitUnreadable(c) ELSE Judge(c)
    /\ UNCHANGED <<declared, round, mine, owner, claim>>

(* A request fails with anything but a conflict.  The create may have      *)
(* landed all the same.                                                    *)
RequestFails(c) ==
    /\ pc[c] \in {"put", "reread"} \/ (pc[c] = "idle" /\ claim[c] = None)
    /\ declared' \in IF pc[c] = "put" /\ declared = None THEN {None, mine[c]} ELSE {declared}
    /\ admitUnreadable(c)
    /\ UNCHANGED <<round, mine, owner, claim>>

-----------------------------------------------------------------------------
(* ClaimPair on the key the binary derives; a conflict ends the attempt.   *)
acquireSpawnClaim(c) ==
    /\ pc[c] = "claim"
    /\ Goto(c, "idle")
    /\ IF owner[mine[c]] = None
       THEN /\ owner' = [owner EXCEPT ![mine[c]] = c]
            /\ claim' = [claim EXCEPT ![c] = [scheme |-> mine[c], verdict |-> verdict[c]]]
       ELSE UNCHANGED <<owner, claim>>
    /\ UNCHANGED <<declared, round, mine, verdict>>

(* The Job is over. *)
Release(c) ==
    /\ claim[c] # None
    /\ owner' = [owner EXCEPT ![claim[c].scheme] = None]
    /\ claim' = [claim EXCEPT ![c] = None]
    /\ UNCHANGED <<declared, round, mine, pc, verdict>>

(* A new binary.  It recovers the claims of the old one under the keys     *)
(* they have.  A create in flight may still land.                          *)
Restart(c, scheme) ==
    /\ mine' = [mine EXCEPT ![c] = scheme]
    /\ declared' \in IF pc[c] = "put" /\ declared = None THEN {None, mine[c]} ELSE {declared}
    /\ Goto(c, "idle")
    /\ UNCHANGED <<round, verdict, owner, claim>>

(* A person deletes the declaration, so that the fleet can move on. *)
Withdraw ==
    /\ declared # None /\ round < MaxRounds
    /\ declared' = None
    /\ round' = round + 1
    /\ UNCHANGED <<mine, pc, verdict, owner, claim>>

Next ==
    \/ \E c \in Clusters :
          \/ Check(c) \/ bootstrap(c) \/ reread(c) \/ RequestFails(c)
          \/ acquireSpawnClaim(c) \/ Release(c)
          \/ \E scheme \in Schemes : Restart(c, scheme)
    \/ Withdraw

Spec == Init /\ [][Next]_vars

-----------------------------------------------------------------------------
TypeOK ==
    /\ declared \in Schemes \union {None}
    /\ round \in Nat
    /\ mine \in [Clusters -> Schemes]
    /\ pc \in [Clusters -> {"idle", "put", "reread", "claim"}]
    /\ verdict \in [Clusters -> Nat \union {None}]
    /\ owner \in [Schemes -> Clusters \union {None}]
    /\ claim \in [Clusters -> Claims \union {None}]

(* Two clusters hold claims of one task at the same time only when one of  *)
(* them had no verdict, or the declaration was withdrawn between the two:  *)
(* however checks, creates, lost answers and new binaries interleave, one  *)
(* declaration admits one scheme (Check, bootstrap).                       *)
NoSplitClaim ==
    \A c, d \in Clusters :
        claim[c] # None /\ claim[d] # None /\ c # d =>
            claim[c].verdict = None \/ claim[d].verdict = None \/ claim[c].verdict # claim[d].verdict

(* The guard keeps the promise of FleetScheme: claims with a verdict join  *)
(* the round that gave it.                                                 *)
Fleet == INSTANCE FleetScheme WITH
    fleet <- declared,
    member <- [c \in Clusters |-> IF claim[c] = None THEN None ELSE claim[c].verdict]

ImplementsFleet == Fleet!Spec

=============================================================================
