----------------------------- MODULE SoakRunner -----------------------------
(***************************************************************************)
(* The soak run of src/src/soak/runner.rs with the quarantine tracker and  *)
(* the manifest of src/src/soak/manifest.rs.                               *)
(*                                                                         *)
(* A run goes through a fixed number of cycles, each with a fixed number   *)
(* of candidates, and reports only at the end: everything its manifest     *)
(* says is kept in memory until then, while the ledger and the directory   *)
(* of admitted candidates change on the way. Runs share both with each     *)
(* other and with the engine; errors of some steps end the run, errors of  *)
(* others are ignored, and a run may be killed anywhere.                   *)
(*                                                                         *)
(* A block hash is the block's position: the ledger only grows, and a      *)
(* Merkle root is the number of blocks it covers (see ImprovementLedger).  *)
(***************************************************************************)
EXTENDS Integers, Sequences, FiniteSets

CONSTANTS
  Runs,               \* invocations of the soak command, each with a run id of its own
  Nodes,              \* nodes of the capability graph
  Explanations,       \* causal explanations a ranking may give for a node
  Metrics,            \* latency deltas a receipt may report
  TotalCycles,        \* config.total_cycles; the default is 5
  CandidatesPerCycle, \* config.candidates_per_cycle; the default is 3
  ExhaustedAfter,     \* failures until a pairing is exhausted; the code has 3
  MaxNotes            \* bound: blocks without a receipt, of this and of other processes

ASSUME SoakAssumption ==
  /\ {TotalCycles, CandidatesPerCycle, MaxNotes} \subseteq Nat
  /\ ExhaustedAfter \in Nat \ {0}
  /\ Metrics \subseteq Int

VARIABLES
  ledger,     \* the blocks, in order
  run,        \* the locals of run_batch
  staged,     \* .rsi/admitted/<block hash>/
  manifests   \* saved manifests, by run

soakVars == <<ledger, run, staged, manifests>>

NoBlock == 0
NoWinner == 0
NoNode == "none"

\* A string the tracker hashes: a bare explanation, or the text of a hypothesis.
Plain(e) == [about |-> NoNode, why |-> e]
hypothesis_problem(n, e) == [about |-> n, why |-> e]

\* The text of the hypothesis itself, which tells of the node's rank and is in no pairing.
observed_problem(n) == [rank_of |-> n]

pairing_key(n, text) == [node |-> n, text |-> text]
Keys == {pairing_key(n, t) : n \in Nodes,
         t \in {Plain(e) : e \in Explanations}
               \union {hypothesis_problem(m, e) : m \in Nodes, e \in Explanations}}

NewTracker == [failures |-> [k \in Keys |-> 0], exhausted |-> {}]

is_exhausted(t, n, text) == pairing_key(n, text) \in t.exhausted

record_failure(t, k) ==
  [failures |-> [t.failures EXCEPT ![k] = @ + 1],
   exhausted |-> IF t.failures[k] + 1 >= ExhaustedAfter THEN t.exhausted \union {k}
                 ELSE t.exhausted]

\* Fault: a success lifts the mark but leaves the count.
record_success_KeepsCount(t, k) == [t EXCEPT !.exhausted = @ \ {k}]

record_success(t, k) == [failures |-> [t.failures EXCEPT ![k] = 0],
                         exhausted |-> t.exhausted \ {k}]

Fresh == [pc |-> "idle", cycle |-> 1, node |-> NoNode, explained |-> <<>>,
          candidates |-> <<>>, winner |-> NoWinner, tracker |-> NewTracker,
          cycles |-> <<>>, admitted |-> <<>>, evaluated |-> 0, wins |-> 0]

SoakInit ==
  /\ ledger = <<>>
  /\ run = [r \in Runs |-> Fresh]
  /\ staged = {}
  /\ manifests = [r \in Runs |-> <<>>]

At(r, place) == run[r].pc = place

\* The heads of the two loops: before cycle i, and before candidate i.
CycleLoop(i) == IF i > TotalCycles THEN "finish" ELSE "observe"
CandidateLoop(i) == IF i > CandidatesPerCycle THEN "select" ELSE "candidate"

\* What the tracker is told of in this cycle.
Problem(r) == hypothesis_problem(run[r].node, run[r].explained[run[r].node])
Key(r) == pairing_key(run[r].node, Problem(r))

Evaluation(r, i, admitted, metric) ==
  [run |-> r, cycle |-> run[r].cycle, index |-> i, admitted |-> admitted, metric |-> metric]

\* A block that carries no receipt.
Note == [run |-> NoNode, cycle |-> 0, index |-> 0, admitted |-> FALSE, metric |-> 0]

AppendNote ==
  /\ Cardinality({i \in DOMAIN ledger : ledger[i] = Note}) < MaxNotes
  /\ ledger' = Append(ledger, Note)

\* The engine and other tools append blocks of their own.
OtherAppends == AppendNote /\ UNCHANGED <<run, staged, manifests>>

-----------------------------------------------------------------------------
(* The start of the run and of a cycle. *)

\* Without a usable key the run fails before anything is written.
NoKey(r) ==
  /\ At(r, "idle")
  /\ run' = [run EXCEPT ![r].pc = "failed"]
  /\ UNCHANGED <<ledger, staged, manifests>>

\* A failed preflight check leaves a manifest that says so, if it can be saved.
PreflightAborted(r) ==
  /\ At(r, "idle")
  /\ run' = [run EXCEPT ![r].pc = "failed"]
  /\ \E saved \in BOOLEAN :
       manifests' = IF saved THEN [manifests EXCEPT ![r] = <<[status |-> "PREFLIGHT_ABORTED"]>>]
                    ELSE manifests
  /\ UNCHANGED <<ledger, staged>>

Preflight(r) ==
  /\ At(r, "idle")
  /\ run' = [run EXCEPT ![r].pc = CycleLoop(1)]
  /\ UNCHANGED <<ledger, staged, manifests>>

\* The ranking has every node of the graph, in an order that the samples decide; the code
\* leaves the cycle loop on an empty ranking, but the graph always has its nodes. The
\* tracker is asked for the bare explanation. If all are exhausted the first is taken.
Choose(r) ==
  /\ At(r, "observe")
  /\ \E first \in Nodes, explained \in [Nodes -> Explanations] :
       LET open == {n \in Nodes : ~is_exhausted(run[r].tracker, n, Plain(explained[n]))}
       IN  \E n \in Nodes :
             /\ IF open = {} \/ first \in open THEN n = first ELSE n \in open
             /\ run' = [run EXCEPT ![r].pc = CandidateLoop(1), ![r].node = n,
                                   ![r].explained = explained, ![r].candidates = <<>>,
                                   ![r].winner = NoWinner]
  /\ UNCHANGED <<ledger, staged, manifests>>

\* The observation or the graph fails.
ObserveFailed(r) ==
  /\ At(r, "observe")
  /\ run' = [run EXCEPT ![r].pc = "failed"]
  /\ UNCHANGED <<ledger, staged, manifests>>

-----------------------------------------------------------------------------
(* The candidates of a cycle: one record each, whatever becomes of them. *)

Index(r) == Len(run[r].candidates) + 1

Record(admitted, metric, block) == [admitted |-> admitted, metric |-> metric, block |-> block]

NotJudged == Record(FALSE, 0, NoBlock)

Recorded(r, c) ==
  [run EXCEPT ![r].candidates = Append(@, c), ![r].evaluated = @ + 1,
              ![r].pc = CandidateLoop(Index(r) + 1)]

\* Neither the model nor, for the first candidate, the scan has a proposal.
NoProposal(r) ==
  /\ At(r, "candidate")
  /\ run' = Recorded(r, NotJudged)
  /\ UNCHANGED <<ledger, staged, manifests>>

\* A rejection before the verdict: `let _ = ledger.append_block(...)` notes it, if the
\* ledger takes the block, and the next candidate is tried.
Rejected(r) ==
  /\ At(r, "candidate")
  /\ AppendNote \/ ledger' = ledger
  /\ run' = Recorded(r, NotJudged)
  /\ UNCHANGED <<staged, manifests>>

NotPermitted(r) == Rejected(r)   \* the target is outside the writable prefixes
NotStaged(r) == Rejected(r)
NotBuilt(r) == Rejected(r)
NotInvariant(r) == Rejected(r)   \* an invariant fails, or the scores are not balanced

\* Fault: a judge error is recorded but not counted.
JudgeError_NotCounted(r) ==
  /\ At(r, "candidate")
  /\ AppendNote \/ ledger' = ledger
  /\ run' = [Recorded(r, NotJudged) EXCEPT ![r].evaluated = run[r].evaluated]
  /\ UNCHANGED <<staged, manifests>>

JudgeError(r) == Rejected(r)

\* The receipt is on the ledger before the record names its block.
Judged(r) ==
  /\ At(r, "candidate")
  /\ \E admitted \in BOOLEAN, metric \in Metrics :
       /\ ledger' = Append(ledger, Evaluation(r, Index(r), admitted, metric))
       /\ run' = Recorded(r, Record(admitted, metric, Len(ledger) + 1))
  /\ UNCHANGED <<staged, manifests>>

\* Fault: the record goes on without a block of its own.
EvaluationNotAppended_Ignored(r) ==
  /\ At(r, "candidate")
  /\ \E admitted \in BOOLEAN, metric \in Metrics :
       run' = Recorded(r, Record(admitted, metric, Len(ledger)))
  /\ UNCHANGED <<ledger, staged, manifests>>

\* A receipt that the ledger does not take ends the run.
EvaluationNotAppended(r) ==
  /\ At(r, "candidate")
  /\ run' = [run EXCEPT ![r].pc = "failed"]
  /\ UNCHANGED <<ledger, staged, manifests>>

-----------------------------------------------------------------------------
(* The end of a cycle. *)

Admissible(r) == {i \in DOMAIN run[r].candidates : run[r].candidates[i].admitted}

NoneAdmissible(r) ==
  /\ At(r, "select") /\ Admissible(r) = {}
  /\ run' = [run EXCEPT ![r].pc = "checkpoint",
                        ![r].tracker = record_failure(@, Key(r))]
  /\ UNCHANGED <<ledger, staged, manifests>>

\* The order after the stable sort by latency delta. A delta that is not a number, which the
\* code takes for equal to every other, is left out.
Better(r, i, j) ==
  LET a == run[r].candidates[i].metric
      b == run[r].candidates[j].metric
  IN  a < b \/ (a = b /\ i <= j)

\* The winner's patch, receipt and block are written under the block's hash; a file that
\* cannot be written is missing there and nothing else notices.
Winner(r) ==
  /\ At(r, "select")
  /\ \E w \in Admissible(r) :
       /\ \A i \in Admissible(r) : Better(r, w, i)
       /\ LET b == run[r].candidates[w].block
          IN  /\ run' = [run EXCEPT ![r].pc = "checkpoint", ![r].winner = w,
                                    ![r].tracker = record_success(@, Key(r)),
                                    ![r].wins = @ + 1, ![r].admitted = Append(@, b)]
              /\ staged' = staged \union
                   {[run |-> r, cycle |-> run[r].cycle, index |-> w, block |-> b]}
  /\ UNCHANGED <<ledger, manifests>>

\* `ledger.checkpoint(...).ok()`: the root, or none.
CheckpointRoots == {NoBlock, Len(ledger)}

\* The cycle's own checkpoint is like the final one and its root is left out. The record
\* tells the problem of the hypothesis and not the text that the tracker was given; the
\* pairing is history and in no file.
EndCycle(r) ==
  /\ At(r, "checkpoint")
  /\ run' = [run EXCEPT
       ![r].pc = CycleLoop(run[r].cycle + 1),
       ![r].cycle = @ + 1,
       ![r].cycles = Append(@, [node |-> run[r].node, problem |-> observed_problem(run[r].node),
                                candidates |-> run[r].candidates,
                                winner |-> run[r].winner, pairing |-> Key(r)])]
  /\ UNCHANGED <<ledger, staged, manifests>>

Manifest(r, root) ==
  [status |-> "SUCCESS", cycles |-> run[r].cycles, admitted |-> run[r].admitted,
   exhausted |-> run[r].tracker.exhausted, root |-> root,
   evaluated |-> run[r].evaluated, wins |-> run[r].wins]

\* Fault: the last block is not under the root.
Finish_WithoutTip(r) ==
  /\ At(r, "finish") /\ ledger # <<>>
  /\ manifests' = [manifests EXCEPT ![r] = <<Manifest(r, Len(ledger) - 1)>>]
  /\ run' = [run EXCEPT ![r] = [Fresh EXCEPT !.pc = "done"]]
  /\ UNCHANGED <<ledger, staged>>

Finish(r) ==
  /\ At(r, "finish")
  /\ \E root \in CheckpointRoots : manifests' = [manifests EXCEPT ![r] = <<Manifest(r, root)>>]
  /\ run' = [run EXCEPT ![r] = [Fresh EXCEPT !.pc = "done"]]
  /\ UNCHANGED <<ledger, staged>>

\* The manifest cannot be saved, or the process is killed: what was kept in memory is gone.
Lost(r) ==
  /\ run[r].pc \notin {"idle", "failed", "done"}
  /\ run' = [run EXCEPT ![r] = [Fresh EXCEPT !.pc = "failed"]]
  /\ UNCHANGED <<ledger, staged, manifests>>

SoakStep(r) ==
  \/ NoKey(r) \/ PreflightAborted(r) \/ Preflight(r) \/ Choose(r) \/ ObserveFailed(r)
  \/ NoProposal(r) \/ NotPermitted(r) \/ NotStaged(r) \/ NotBuilt(r) \/ NotInvariant(r)
  \/ JudgeError(r) \/ Judged(r) \/ EvaluationNotAppended(r) \/ NoneAdmissible(r)
  \/ Winner(r) \/ EndCycle(r) \/ Finish(r) \/ Lost(r)

SoakNext == OtherAppends \/ \E r \in Runs : SoakStep(r)

SoakSpec == SoakInit /\ [][SoakNext]_soakVars

-----------------------------------------------------------------------------
(* Properties. *)

Saved == {r \in Runs : manifests[r] # <<>> /\ manifests[r][1].status = "SUCCESS"}

\* A saved manifest accounts for every candidate of every cycle, although a candidate
\* leaves the loop at any of seven places, and its totals are those of its records. The
\* winner of a cycle has the lowest latency delta of the candidates that the judge admitted
\* in it, and a cycle without a winner has none.
ManifestAccounts ==
  \A r \in Saved : LET m == manifests[r][1] IN
    /\ Len(m.cycles) = TotalCycles
    /\ \A i \in DOMAIN m.cycles : Len(m.cycles[i].candidates) = CandidatesPerCycle
    /\ m.evaluated = TotalCycles * CandidatesPerCycle
    /\ m.wins = Cardinality({i \in DOMAIN m.cycles : m.cycles[i].winner # NoWinner})
    /\ m.wins = Len(m.admitted)
    /\ \A i \in DOMAIN m.cycles :
         LET c == m.cycles[i]
             good == {k \in DOMAIN c.candidates : c.candidates[k].admitted}
         IN  IF c.winner = NoWinner THEN good = {}
             ELSE /\ c.winner \in good
                  /\ \A k \in good : c.candidates[c.winner].metric <= c.candidates[k].metric

\* A candidate is staged for review only under the block of its own evaluation, and that
\* block says admitted, also if the run dies later and no manifest tells of it.
StagedIsOnLedger ==
  \A s \in staged :
    /\ s.block \in DOMAIN ledger
    /\ LET b == ledger[s.block]
       IN  /\ b.admitted
           /\ <<b.run, b.cycle, b.index>> = <<s.run, s.cycle, s.index>>

\* The final root of a manifest, if there is one, covers every block the manifest names,
\* whatever other processes append meanwhile.
RootCoversAdmitted ==
  \A r \in Saved : LET m == manifests[r][1] IN
    m.root # NoBlock =>
      \A i \in DOMAIN m.admitted : m.admitted[i] <= m.root /\ ledger[m.admitted[i]].admitted

\* The pairings a manifest lists as exhausted are those that failed often enough since
\* they last succeeded, counted over the cycles of the run that the tracker was told of. The
\* cycles' own records hold another text, so a reader of the manifest cannot count this.
ExhaustedMeansFailed ==
  \A r \in Saved : LET m == manifests[r][1] IN
    \A k \in Keys :
      LET mine == {i \in DOMAIN m.cycles : m.cycles[i].pairing = k}
          since == {i \in mine : \A j \in mine : j >= i => m.cycles[j].winner = NoWinner}
      IN  k \in m.exhausted <=> Cardinality(since) >= ExhaustedAfter

\* "Find top bottleneck not quarantined": a cycle works on an exhausted pairing only if
\* every node's pairing is exhausted.
ExhaustedIsSkipped ==
  \A r \in Runs : At(r, "candidate") =>
    LET quarantined(n) ==
          is_exhausted(run[r].tracker, n, hypothesis_problem(n, run[r].explained[n]))
    IN  quarantined(run[r].node) => \A n \in Nodes : quarantined(n)

=============================================================================
