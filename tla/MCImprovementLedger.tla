------------------------ MODULE MCImprovementLedger ------------------------
(* Small instance of the ledger for TLC. *)
EXTENDS ImprovementLedger, TLC

CONSTANTS p1, p2, b1

MCProcs == {p1, p2}
MCBlobs == {b1}
MCSymmetry == Permutations(MCProcs)
=============================================================================
