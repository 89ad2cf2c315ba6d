------------------------------ MODULE TaskRuns ------------------------------
(***************************************************************************)
(* What the claims promise to those that only see tasks and their Jobs     *)
(* ("exactly one executor may run a task at a time",                       *)
(* docs/claim-lease-protocol.md:4), for the tasks that are not to be run   *)
(* again after a lost claim.  No leases, tokens, fences, requests or       *)
(* processes: a task has an owner, and its run is started by the owner     *)
(* while there is no other.  The owner does not give a task up while it    *)
(* runs it, and who takes a task from its owner hands it to a person: a    *)
(* run may outlive the ownership only of a parked task.                    *)
(*                                                                         *)
(* One pass of the lease loop serves several tasks, so a step is one of    *)
(* each task.                                                              *)
(***************************************************************************)
CONSTANTS Clusters, Tasks, Nobody

VARIABLES
    owner,   \* of a task: the cluster that has its claim, or Nobody
    runs,    \* of a task: the clusters with a Job of it
    parked   \* the tasks handed to a person

vars == <<owner, runs, parked>>

Init ==
    /\ owner = [t \in Tasks |-> Nobody]
    /\ runs = [t \in Tasks |-> {}]
    /\ parked = {}

ParkedAsBefore(t) == t \in parked' <=> t \in parked

Begin(t) ==
    /\ owner[t] # Nobody /\ runs[t] = {}
    /\ runs'[t] = {owner[t]}
    /\ owner'[t] = owner[t] /\ ParkedAsBefore(t)

(* The run ends, the owner gives the task up, or both. *)
End(t) ==
    /\ runs'[t] \in {runs[t], {}}
    /\ \/ owner'[t] = owner[t]
       \/ owner'[t] = Nobody /\ owner[t] \notin runs'[t]
    /\ ParkedAsBefore(t)

Take(t) ==
    /\ owner'[t] \in Clusters
    /\ owner[t] = Nobody \/ t \in parked'
    /\ t \in parked => t \in parked'
    /\ runs'[t] = runs[t]

Next == \A t \in Tasks : Begin(t) \/ End(t) \/ Take(t)

Spec == Init /\ [][Next]_vars

=============================================================================
