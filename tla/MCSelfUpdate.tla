---------------------------- MODULE MCSelfUpdate ----------------------------
(* SelfUpdate with a few invocations, interchangeable.                     *)
EXTENDS SelfUpdate, TLC

CONSTANTS p1, p2, p3

MCProcs == {p1, p2, p3}
Symmetry == Permutations(MCProcs)

=============================================================================
