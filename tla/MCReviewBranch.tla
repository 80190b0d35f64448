--------------------------- MODULE MCReviewBranch ---------------------------
(* A small instance of the ratifiers. *)
EXTENDS ReviewBranch, TLC

CONSTANTS r1, r2

File(lines) == [mode |-> "100644", lines |-> lines]
Link == [mode |-> "120000", lines |-> {}]

A == <<"docs", "a">>
Ledger == <<"src", "ledger", "m">>

MCFirstTree == (A :> File({"x"})) @@ (<<"docs", "link">> :> Link) @@ (Ledger :> File({"x"}))

\* The owner edits the file, adds a file, and turns the directory into a file.
MCTrees ==
  {[MCFirstTree EXCEPT ![A].lines = {"x", "secret"}],
   MCFirstTree @@ (<<"docs", "b">> :> File({"x"})),
   (<<"docs">> :> File({"x"})) @@ (Ledger :> File({"x"}))}

MCRoots == {<<".", "docs", "">>, <<"src">>}
MCProtected == {<<"src", "ledger">>, <<"tests">>}

Prop(id, raw, lines) == [id |-> id, target_file |-> raw, lines |-> lines]

MCProposals ==
  {Prop("p", A, {"x", "y"}), Prop("p", <<".", "docs", "", "a">>, {"x", "secret"}),
   Prop("q", <<"docs", "link", "c">>, {"y"}), Prop("q", A, {"x"}),
   Prop("q", Ledger, {"y"}), Prop("q", <<"docs", "..", "src", "ledger", "m">>, {"y"}),
   Prop("q", <<"docs", "..", "docs", "b">>, {"z"}), Prop("q", <<"docs", "b">>, {"z"}),
   Prop("q", <<"", "docs", "a">>, {"y"}), Prop("a b", A, {"y"})}

MCPermutations == Permutations(Ratifiers)
=============================================================================
