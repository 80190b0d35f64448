--------------------------- MODULE EvidenceStore ---------------------------
(***************************************************************************)
(* What the observation log of one generation promises its readers, with   *)
(* no file, no writer and no crash: a set of observations that only grows, *)
(* holds at most one observation for each id, and is frozen by the seal.   *)
(***************************************************************************)
CONSTANT Observations   \* records with a field `id`

VARIABLES stored, frozen

evars == <<stored, frozen>>

\* At most one observation of S carries a given id.
OnePerId(S) == \A o1, o2 \in S : o1.id = o2.id => o1 = o2

Init ==
  /\ stored = {}
  /\ frozen = FALSE

\* New observations become permanent: several at once when one sync commits
\* what earlier, unacknowledged writes had left in the file.
Store ==
  /\ ~frozen
  /\ \E S \in SUBSET Observations :
        /\ stored \subseteq S
        /\ OnePerId(S)
        /\ stored' = S
  /\ UNCHANGED frozen

\* The seal freezes the set, together with what its own sync commits.
Freeze ==
  /\ ~frozen
  /\ \E S \in SUBSET Observations :
        /\ stored \subseteq S
        /\ OnePerId(S)
        /\ stored' = S
  /\ frozen' = TRUE

Next == Store \/ Freeze

Spec == Init /\ [][Next]_evars
=============================================================================
