-------------------------- MODULE MCLeaseManager --------------------------
(* Instances of LeaseManager for TLC.  The time unit stands for the 60 s of *)
(* FenceMargin; the configurations choose the clusters, the keys and the    *)
(* faults.                                                                  *)
EXTENDS LeaseManager, TLC

CONSTANTS c1, c2, k1, k2, t1, t2

OneKey == (t1 :> k1)
SharedKey == (t1 :> k1 @@ t2 :> k1)

(* States that differ only in what no guard will read again are the same:   *)
(* which token a lease has beyond being the current one, the renew and      *)
(* jobless timers of a claim on its way out, and the jobless timers of one  *)
(* that another release path owns.                                          *)
Relevant(c, k) ==
  LET h == held[c][k]
      leaving == h.releasePending \/ h.pendingDeletion # "no" IN
  IF h = NotHeld THEN h
  ELSE [h EXCEPT
    !.token = CurrentToken(c, k),
    !.renewAge = IF leaving THEN 0 ELSE @,
    !.renewNextTick = @ /\ ~leaving,
    !.jobless = IF JoblessEligible(h) THEN @ ELSE None,
    !.checkAge = IF JoblessEligible(h) THEN @ ELSE None]

View ==
  <<[k \in Keys |-> IF store[k] = Free THEN Free ELSE [store[k] EXCEPT !.token = 0]],
    [c \in Clusters |-> [k \in Keys |-> Relevant(c, k)]],
    op, spawn, jobs, stray, doneAge, parked, up, recovered, fenceAge>>

Symmetry == Permutations({c1, c2})

=============================================================================
