---------------------------- MODULE MCSampleLog -----------------------------
(* A small instance of the sample log and the ranking. *)
EXTENDS SampleLog, TLC

CONSTANTS e1, e2, a, b

Took(us, failed) == [us |-> us, failed |-> failed]

\* A cycle with a slow proposal that failed, and a quick one that ended after the build.
MCTimings ==
  {[s \in Stage |-> IF s = "Propose" THEN Took(9, TRUE) ELSE Took(1, FALSE)],
   [s \in {"Observe", "Propose", "BuildJail"} |-> Took(2, FALSE)]}

MCPermutations == Permutations({e1, e2}) \cup Permutations({a, b})
=============================================================================
