---------------------------- MODULE MCBlindJudge ----------------------------
(* Small instances of the judge and the promotion gate. *)
EXTENDS BlindJudge, TLC

CONSTANTS j1, j2, c1, c2

\* Both judges are run with the default cycle id.
MCCycleOf == [j \in Judges |-> "cycle-genesis"]

\* One policy that pins the two cases and admits at half of them, and one that pins the
\* other set and does not allow the subject.
MCPolicies == <<[pin |-> 1, ratio |-> 50, allowed |-> TRUE],
                [pin |-> 2, ratio |-> 100, allowed |-> FALSE]>>

MCHoldouts == <<2, 1>>

MCPermutations == Permutations({c1, c2}) \union Permutations({j1, j2})
=============================================================================
