---------------------------- MODULE FleetScheme -----------------------------
(***************************************************************************)
(* What the claim scheme guard promises a fleet (the comments of           *)
(* pkg/claim/scheme.go): whichever cluster declares first declares for     *)
(* everyone, the declaration flips atomically, and a task is claimed only  *)
(* by a cluster that derives what the fleet has declared.  A claim made    *)
(* without a verdict ("unreadable") is not part of the promise.            *)
(***************************************************************************)
EXTENDS Naturals

CONSTANTS Clusters, Schemes, None

VARIABLES
    fleet,   \* the scheme of the fleet, or None
    round,   \* how often the declaration has been withdrawn
    member   \* the round in which a cluster claimed under the fleet's scheme, or None

vars == <<fleet, round, member>>

Init == fleet = None /\ round = 0 /\ member = [c \in Clusters |-> None]

Declare(scheme) ==
    /\ fleet = None
    /\ fleet' = scheme
    /\ UNCHANGED <<round, member>>

(* At most one cluster has a claim of one round. *)
Claim(c, r) ==
    /\ r \in 0..round
    /\ \A d \in Clusters : member[d] # r
    /\ member' = [member EXCEPT ![c] = r]
    /\ UNCHANGED <<fleet, round>>

Leave(c) ==
    /\ member' = [member EXCEPT ![c] = None]
    /\ UNCHANGED <<fleet, round>>

Withdraw ==
    /\ fleet' = None
    /\ round' = round + 1
    /\ UNCHANGED member

Next ==
    \/ \E scheme \in Schemes : Declare(scheme)
    \/ \E c \in Clusters : Leave(c) \/ \E r \in 0..round : Claim(c, r)
    \/ Withdraw

Spec == Init /\ [][Next]_vars

=============================================================================
