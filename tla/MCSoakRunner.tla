---------------------------- MODULE MCSoakRunner ----------------------------
(* Small instances of the soak run. *)
EXTENDS SoakRunner, TLC

CONSTANTS r1, n1, n2

MCPermutations == Permutations({n1, n2})
=============================================================================
