-------------------------- MODULE MCSuccessRecord --------------------------
(* Instances of SuccessRecord for TLC.                                      *)
EXTENDS SuccessRecord, TLC

CONSTANTS p1, p2, planning, execution

Symmetry == {f @@ g : f \in Permutations(Pods), g \in Permutations(Phases)}

=============================================================================
