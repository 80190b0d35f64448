----------------------------- MODULE MCRsiCycle -----------------------------
(* Small instance of the improvement cycle for TLC. *)
EXTENDS RsiCycle, TLC

CONSTANTS e1, e2, c1, c2

MCEngines == {e1, e2}
MCCands == {c1, c2}
MCSymmetry == Permutations(MCEngines) \union Permutations(MCCands)
=============================================================================
