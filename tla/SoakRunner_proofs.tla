-------------------------- MODULE SoakRunner_proofs -------------------------
(***************************************************************************)
(* Proofs that what a soak run stages for review, and what its manifest    *)
(* names under its root, is on the ledger as an admitted evaluation, and   *)
(* that the manifest's own totals, winners and exhausted pairings are      *)
(* those of its cycles: for any number of runs, cycles, candidates and     *)
(* foreign blocks, whichever steps fail and wherever a run is killed.      *)
(***************************************************************************)
EXTENDS SoakRunner, TLAPS, FiniteSetTheorems

Blocks == [run : Runs \cup {NoNode}, cycle : Nat, index : Nat,
           admitted : BOOLEAN, metric : Int]
Records == [admitted : BOOLEAN, metric : Int, block : Nat]
Fields == {"pc", "cycle", "node", "explained", "candidates", "winner", "tracker",
           "cycles", "admitted", "evaluated", "wins"}

\* What the argument needs to know of the types.
RunTyped(r) ==
  /\ DOMAIN run[r] = Fields
  /\ run[r].cycle \in Nat
  /\ run[r].candidates \in Seq(Records)
  /\ run[r].admitted \in Seq(Nat)
SoakShape ==
  /\ ledger \in Seq(Blocks)
  /\ DOMAIN run = Runs /\ DOMAIN manifests = Runs

OnLedger(b) == b \in DOMAIN ledger /\ ledger[b].admitted

\* The strengthening, for the memory of one run. While candidates are collected and
\* compared, the record of an admitted one names the block of its own evaluation.
CandidatesOnLedger(r) ==
  run[r].pc \in {"candidate", "select"} =>
    \A i \in DOMAIN run[r].candidates :
      LET c == run[r].candidates[i]
      IN  c.admitted =>
            /\ OnLedger(c.block)
            /\ <<ledger[c.block].run, ledger[c.block].cycle, ledger[c.block].index>>
                 = <<r, run[r].cycle, i>>
AdmittedOnLedger(r) == \A i \in DOMAIN run[r].admitted : OnLedger(run[r].admitted[i])
RunInv(r) == RunTyped(r) /\ CandidatesOnLedger(r) /\ AdmittedOnLedger(r)

\* The same of a saved manifest, which outlives the memory of its run.
ManifestOnLedger(r) ==
  LET m == manifests[r][1]
  IN  \A i \in DOMAIN m.admitted :
        OnLedger(m.admitted[i]) /\ (m.root # NoBlock => m.admitted[i] <= m.root)
ManifestsOnLedger == \A r \in Saved : ManifestOnLedger(r)

SoakInv ==
  SoakShape /\ (\A r \in Runs : RunInv(r)) /\ ManifestsOnLedger /\ StagedIsOnLedger

-----------------------------------------------------------------------------
(* The ledger only grows, and what is on it stays there. *)

Grows ==
  /\ ledger' \in Seq(Blocks)
  /\ \A b \in DOMAIN ledger : b \in DOMAIN ledger' /\ ledger'[b] = ledger[b]

LEMMA AppendGrows ==
  ASSUME ledger \in Seq(Blocks), NEW b \in Blocks, ledger' = Append(ledger, b)
  PROVE  /\ Grows
         /\ Len(ledger) + 1 \in DOMAIN ledger' /\ ledger'[Len(ledger) + 1] = b
  BY DEF Grows

LEMMA NoteGrows ==
  ASSUME ledger \in Seq(Blocks), AppendNote \/ ledger' = ledger
  PROVE  Grows
<1>1. Note \in Blocks
  BY DEF Note, Blocks
<1>2. CASE ledger' = ledger
  BY <1>2 DEF Grows
<1>3. CASE ledger' = Append(ledger, Note)
  BY <1>1, <1>3, AppendGrows
<1>4. QED
  BY <1>2, <1>3 DEF AppendNote

\* A run, a manifest and the staged candidates that a step leaves alone keep their part.
LEMMA RunKept ==
  ASSUME Grows, NEW r \in Runs, RunInv(r), run'[r] = run[r]
  PROVE  RunInv(r)'
  BY DEF Grows, RunInv, RunTyped, CandidatesOnLedger, AdmittedOnLedger, OnLedger

LEMMA ManifestsKept ==
  ASSUME Grows, ManifestsOnLedger, manifests' = manifests
  PROVE  ManifestsOnLedger'
  BY DEF Grows, ManifestsOnLedger, ManifestOnLedger, OnLedger, Saved

LEMMA StagedKept ==
  ASSUME Grows, StagedIsOnLedger, staged' = staged
  PROVE  StagedIsOnLedger'
  BY DEF Grows, StagedIsOnLedger

-----------------------------------------------------------------------------
(* The steps of a run on its own memory. *)

\* The run neither collects nor compares candidates after the step, and names no block
\* that it did not name before.
Leaves(r) ==
  /\ DOMAIN run'[r] = Fields
  /\ run'[r].pc \notin {"candidate", "select"}
  /\ run'[r].cycle \in Nat
  /\ run'[r].candidates \in Seq(Records)
  /\ run'[r].admitted \in {run[r].admitted, <<>>}

LEMMA LeavesStep ==
  ASSUME Grows, NEW r \in Runs, RunInv(r), Leaves(r)
  PROVE  RunInv(r)'
<1>1. RunTyped(r)'
  <2>1. CASE run'[r].admitted = run[r].admitted
    BY <2>1 DEF RunInv, RunTyped, Leaves
  <2>2. CASE run'[r].admitted = <<>>
    <3>1. <<>> \in Seq(Nat)
      OBVIOUS
    <3>2. QED
      BY <2>2, <3>1 DEF RunTyped, Leaves
  <2>3. QED
    BY <2>1, <2>2 DEF Leaves
<1>2. CandidatesOnLedger(r)'
  BY DEF CandidatesOnLedger, Leaves
<1>3. AdmittedOnLedger(r)'
  BY DEF AdmittedOnLedger, OnLedger, Leaves, Grows, RunInv, RunTyped
<1>4. QED
  BY <1>1, <1>2, <1>3 DEF RunInv

LEMMA LeavingSteps ==
  ASSUME SoakShape, NEW r \in Runs, RunInv(r),
         \/ NoKey(r) \/ PreflightAborted(r) \/ Preflight(r) \/ ObserveFailed(r)
         \/ EvaluationNotAppended(r) \/ NoneAdmissible(r) \/ EndCycle(r)
         \/ Finish(r) \/ Lost(r)
  PROVE  Leaves(r)
<1> USE DEF SoakShape, RunInv, RunTyped, Fields, Leaves
<1>1. CASE NoKey(r)
  BY <1>1 DEF NoKey
<1>2. CASE PreflightAborted(r)
  BY <1>2 DEF PreflightAborted
<1>3. CASE Preflight(r)
  BY <1>3 DEF Preflight, CycleLoop
<1>4. CASE ObserveFailed(r)
  BY <1>4 DEF ObserveFailed
<1>5. CASE EvaluationNotAppended(r)
  BY <1>5 DEF EvaluationNotAppended
<1>6. CASE NoneAdmissible(r)
  <2>1. PICK t : run' = [run EXCEPT ![r].pc = "checkpoint", ![r].tracker = t]
    BY <1>6 DEF NoneAdmissible
  <2>2. QED
    BY <2>1
<1>7. CASE EndCycle(r)
  <2>1. PICK c : run' = [run EXCEPT ![r].pc = CycleLoop(run[r].cycle + 1), ![r].cycle = @ + 1,
                                    ![r].cycles = c]
    BY <1>7 DEF EndCycle
  <2>2. QED
    BY <2>1 DEF CycleLoop
<1>8. CASE Finish(r)
  BY <1>8 DEF Finish, Fresh
<1>9. CASE Lost(r)
  BY <1>9 DEF Lost, Fresh
<1>10. QED
  BY <1>1, <1>2, <1>3, <1>4, <1>5, <1>6, <1>7, <1>8, <1>9

\* A cycle starts without candidates.
LEMMA ChooseStep ==
  ASSUME Grows, SoakShape, NEW r \in Runs, RunInv(r), Choose(r)
  PROVE  RunInv(r)'
<1>1. PICK n, e : run' = [run EXCEPT ![r].pc = CandidateLoop(1), ![r].node = n,
                                     ![r].explained = e, ![r].candidates = <<>>,
                                     ![r].winner = NoWinner]
  BY DEF Choose
<1>2. /\ DOMAIN run'[r] = Fields /\ run'[r].candidates = <<>>
      /\ run'[r].cycle = run[r].cycle /\ run'[r].admitted = run[r].admitted
  BY <1>1 DEF SoakShape, RunInv, RunTyped, Fields
<1>3. RunTyped(r)' /\ CandidatesOnLedger(r)'
  BY <1>2 DEF RunInv, RunTyped, CandidatesOnLedger
<1>4. AdmittedOnLedger(r)'
  BY <1>2 DEF AdmittedOnLedger, OnLedger, Grows, RunInv
<1>5. QED
  BY <1>3, <1>4 DEF RunInv

\* A record is added: either it is not admitted, or its evaluation is on the ledger.
LEMMA RecordedStep ==
  ASSUME Grows, SoakShape, NEW r \in Runs, RunInv(r), At(r, "candidate"), NEW c \in Records,
         run' = Recorded(r, c),
         c.admitted =>
           /\ c.block \in DOMAIN ledger' /\ ledger'[c.block].admitted
           /\ ledger'[c.block].run = r /\ ledger'[c.block].cycle = run[r].cycle
           /\ ledger'[c.block].index = Index(r)
  PROVE  RunInv(r)'
<1>1. /\ DOMAIN run'[r] = Fields /\ run'[r].candidates = Append(run[r].candidates, c)
      /\ run'[r].cycle = run[r].cycle /\ run'[r].admitted = run[r].admitted
  BY DEF SoakShape, RunInv, RunTyped, Fields, Recorded
<1>2. RunTyped(r)'
  BY <1>1 DEF RunInv, RunTyped
<1>3. \A i \in DOMAIN run'[r].candidates :
        \/ i \in DOMAIN run[r].candidates /\ run'[r].candidates[i] = run[r].candidates[i]
        \/ i = Index(r) /\ run'[r].candidates[i] = c
  BY <1>1 DEF RunInv, RunTyped, Index
<1>4. CandidatesOnLedger(r)'
  BY <1>1, <1>3 DEF CandidatesOnLedger, OnLedger, Grows, RunInv, At
<1>5. AdmittedOnLedger(r)'
  BY <1>1 DEF AdmittedOnLedger, OnLedger, Grows, RunInv
<1>6. QED
  BY <1>2, <1>4, <1>5 DEF RunInv

\* The winner is one of the admitted records, so its block is on the ledger.
LEMMA WinnerStep ==
  ASSUME SoakShape, NEW r \in Runs, RunInv(r), StagedIsOnLedger, Winner(r)
  PROVE  RunInv(r)' /\ StagedIsOnLedger'
<1>1. PICK w \in Admissible(r) : \E t, n :
        LET b == run[r].candidates[w].block
        IN  /\ run' = [run EXCEPT ![r].pc = "checkpoint", ![r].winner = w, ![r].tracker = t,
                                  ![r].wins = n, ![r].admitted = Append(@, b)]
            /\ staged' = staged \union
                 {[run |-> r, cycle |-> run[r].cycle, index |-> w, block |-> b]}
  BY DEF Winner
<1> DEFINE b == run[r].candidates[w].block
<1>2. /\ w \in DOMAIN run[r].candidates /\ run[r].candidates[w].admitted
      /\ b \in Nat
  <2>1. w \in DOMAIN run[r].candidates /\ run[r].candidates[w].admitted
    BY DEF Admissible
  <2>2. run[r].candidates \in Seq(Records)
    BY DEF RunInv, RunTyped
  <2>3. run[r].candidates[w] \in Records
    BY <2>1, <2>2
  <2>4. QED
    BY <2>1, <2>3 DEF Records
<1>3. /\ b \in DOMAIN ledger /\ ledger[b].admitted
      /\ <<ledger[b].run, ledger[b].cycle, ledger[b].index>> = <<r, run[r].cycle, w>>
  BY <1>2 DEF RunInv, CandidatesOnLedger, OnLedger, Winner, At
<1>4. ledger' = ledger
  BY DEF Winner
<1>5. /\ DOMAIN run'[r] = Fields /\ run'[r].pc = "checkpoint"
      /\ run'[r].candidates = run[r].candidates
      /\ run'[r].cycle = run[r].cycle /\ run'[r].admitted = Append(run[r].admitted, b)
  BY <1>1 DEF SoakShape, RunInv, RunTyped, Fields
<1>6. staged' = staged \union
        {[run |-> r, cycle |-> run[r].cycle, index |-> w, block |-> b]}
  BY <1>1
<1> HIDE DEF b
<1>7. RunTyped(r)' /\ CandidatesOnLedger(r)'
  BY <1>2, <1>5 DEF RunInv, RunTyped, CandidatesOnLedger
<1>8. AdmittedOnLedger(r)'
  BY <1>3, <1>4, <1>5 DEF RunInv, RunTyped, AdmittedOnLedger, OnLedger
<1>9. StagedIsOnLedger'
  BY <1>3, <1>4, <1>6 DEF StagedIsOnLedger
<1>10. QED
  BY <1>7, <1>8, <1>9 DEF RunInv

\* A manifest is saved: its blocks are on the ledger, which the root, if any, covers.
LEMMA FinishStep ==
  ASSUME SoakShape, NEW r \in Runs, RunInv(r), ManifestsOnLedger, Finish(r)
  PROVE  ManifestsOnLedger'
<1>1. PICK root \in {NoBlock, Len(ledger)} :
        manifests' = [manifests EXCEPT ![r] = <<Manifest(r, root)>>]
  BY DEF Finish, CheckpointRoots
<1>2. ledger' = ledger
  BY DEF Finish
<1>3. \A s \in Saved' : s # r => s \in Saved /\ manifests'[s] = manifests[s]
  BY <1>1 DEF Saved, SoakShape
<1>4. \A s \in Saved' : s # r => ManifestOnLedger(s)'
  BY <1>2, <1>3 DEF ManifestsOnLedger, ManifestOnLedger, OnLedger
<1>5. manifests'[r][1].admitted = run[r].admitted /\ manifests'[r][1].root = root
  BY <1>1 DEF SoakShape, Manifest
<1>6. \A i \in DOMAIN run[r].admitted :
        /\ OnLedger(run[r].admitted[i])
        /\ run[r].admitted[i] \in Nat /\ run[r].admitted[i] <= Len(ledger)
  BY DEF RunInv, RunTyped, AdmittedOnLedger, OnLedger, SoakShape
<1>7. ManifestOnLedger(r)'
  BY <1>2, <1>5, <1>6 DEF ManifestOnLedger, OnLedger, NoBlock
<1>8. QED
  BY <1>4, <1>7 DEF ManifestsOnLedger

LEMMA AbortedStep ==
  ASSUME SoakShape, Grows, NEW r \in Runs, ManifestsOnLedger, PreflightAborted(r)
  PROVE  ManifestsOnLedger'
<1>1. CASE manifests' = manifests
  BY <1>1, ManifestsKept
<1>2. CASE manifests' = [manifests EXCEPT ![r] = <<[status |-> "PREFLIGHT_ABORTED"]>>]
  <2>1. \A s \in Saved' : s \in Saved /\ manifests'[s] = manifests[s]
    BY <1>2 DEF Saved, SoakShape
  <2>2. QED
    BY <2>1 DEF Grows, ManifestsOnLedger, ManifestOnLedger, OnLedger
<1>3. QED
  BY <1>1, <1>2 DEF PreflightAborted

-----------------------------------------------------------------------------
(* The steps together. *)

\* A run changes nothing of the memory of another run.
LEMMA OwnMemory ==
  ASSUME SoakShape, NEW r \in Runs, SoakStep(r)
  PROVE  DOMAIN run' = Runs /\ \A s \in Runs \ {r} : run'[s] = run[s]
  BY DEF SoakShape, SoakStep, NoKey, PreflightAborted, Preflight, Choose, ObserveFailed,
     NoProposal, NotPermitted, NotStaged, NotBuilt, NotInvariant, JudgeError, Rejected, Judged,
     EvaluationNotAppended, NoneAdmissible, Winner, EndCycle, Finish, Lost, Recorded

LEMMA ManifestsDomain ==
  ASSUME SoakShape, NEW r \in Runs, SoakStep(r)
  PROVE  DOMAIN manifests' = Runs
  BY DEF SoakShape, SoakStep, NoKey, PreflightAborted, Preflight, Choose, ObserveFailed,
     NoProposal, NotPermitted, NotStaged, NotBuilt, NotInvariant, JudgeError, Rejected, Judged,
     EvaluationNotAppended, NoneAdmissible, Winner, EndCycle, Finish, Lost

\* What a step of a run does to the four parts of the invariant it can disturb.
LEMMA SoakStepKeeps ==
  ASSUME SoakInv, NEW r \in Runs, SoakStep(r)
  PROVE  Grows /\ RunInv(r)' /\ ManifestsOnLedger' /\ StagedIsOnLedger'
<1>1. SoakShape /\ RunInv(r) /\ ManifestsOnLedger /\ StagedIsOnLedger /\ ledger \in Seq(Blocks)
  BY DEF SoakInv, SoakShape
<1>2. CASE \/ NoKey(r) \/ Preflight(r) \/ ObserveFailed(r) \/ EvaluationNotAppended(r)
           \/ NoneAdmissible(r) \/ EndCycle(r) \/ Lost(r)
  <2>1. UNCHANGED <<ledger, staged, manifests>>
    BY <1>2 DEF NoKey, Preflight, ObserveFailed, EvaluationNotAppended, NoneAdmissible,
       EndCycle, Lost
  <2>2. Grows
    BY <1>1, <2>1, NoteGrows
  <2>3. QED
    BY <1>1, <1>2, <2>1, <2>2, LeavingSteps, LeavesStep, ManifestsKept, StagedKept
<1>3. CASE PreflightAborted(r)
  <2>1. UNCHANGED <<ledger, staged>>
    BY <1>3 DEF PreflightAborted
  <2>2. Grows
    BY <1>1, <2>1, NoteGrows
  <2>3. QED
    BY <1>1, <1>3, <2>1, <2>2, LeavingSteps, LeavesStep, AbortedStep, StagedKept
<1>4. CASE Finish(r)
  <2>1. UNCHANGED <<ledger, staged>>
    BY <1>4 DEF Finish
  <2>2. Grows
    BY <1>1, <2>1, NoteGrows
  <2>3. QED
    BY <1>1, <1>4, <2>1, <2>2, LeavingSteps, LeavesStep, FinishStep, StagedKept
<1>5. CASE Choose(r)
  <2>1. UNCHANGED <<ledger, staged, manifests>>
    BY <1>5 DEF Choose
  <2>2. Grows
    BY <1>1, <2>1, NoteGrows
  <2>3. QED
    BY <1>1, <1>5, <2>1, <2>2, ChooseStep, ManifestsKept, StagedKept
<1>6. CASE NoProposal(r) \/ Rejected(r)
  <2>1. /\ At(r, "candidate") /\ run' = Recorded(r, NotJudged)
        /\ AppendNote \/ ledger' = ledger
        /\ UNCHANGED <<staged, manifests>>
    BY <1>6 DEF NoProposal, Rejected
  <2>2. Grows
    BY <1>1, <2>1, NoteGrows
  <2>3. NotJudged \in Records /\ ~NotJudged.admitted
    BY DEF NotJudged, Record, Records, NoBlock
  <2>4. RunInv(r)'
    BY <1>1, <2>1, <2>2, <2>3, RecordedStep
  <2>5. QED
    BY <1>1, <2>1, <2>2, <2>4, ManifestsKept, StagedKept
<1>7. CASE Judged(r)
  <2>1. PICK admitted \in BOOLEAN, metric \in Metrics :
          /\ ledger' = Append(ledger, Evaluation(r, Index(r), admitted, metric))
          /\ run' = Recorded(r, Record(admitted, metric, Len(ledger) + 1))
    BY <1>7 DEF Judged
  <2>2. PICK e : e = Evaluation(r, Index(r), admitted, metric)
    OBVIOUS
  <2>3. PICK c : c = Record(admitted, metric, Len(ledger) + 1)
    OBVIOUS
  <2>4. Index(r) \in Nat /\ metric \in Int /\ Len(ledger) + 1 \in Nat
    BY <1>1, SoakAssumption DEF Index, RunInv, RunTyped
  <2>5. e \in Blocks /\ c \in Records
    BY <1>1, <2>2, <2>3, <2>4 DEF Evaluation, Record, Blocks, Records, RunInv, RunTyped
  <2>6. /\ e.run = r /\ e.cycle = run[r].cycle /\ e.index = Index(r) /\ e.admitted = admitted
        /\ c.admitted = admitted /\ c.block = Len(ledger) + 1
    BY <2>2, <2>3 DEF Evaluation, Record
  <2>7. /\ At(r, "candidate") /\ UNCHANGED <<staged, manifests>>
        /\ ledger' = Append(ledger, e) /\ run' = Recorded(r, c)
    BY <1>7, <2>1, <2>2, <2>3 DEF Judged
  <2>8. /\ Grows
        /\ Len(ledger) + 1 \in DOMAIN ledger' /\ ledger'[Len(ledger) + 1] = e
    BY <1>1, <2>5, <2>7, AppendGrows
  <2>9. c.admitted =>
          /\ c.block \in DOMAIN ledger' /\ ledger'[c.block].admitted
          /\ ledger'[c.block].run = r /\ ledger'[c.block].cycle = run[r].cycle
          /\ ledger'[c.block].index = Index(r)
    BY <2>6, <2>8
  <2>10. RunInv(r)'
    BY <1>1, <2>5, <2>7, <2>8, <2>9, RecordedStep
  <2>11. QED
    BY <1>1, <2>7, <2>8, <2>10, ManifestsKept, StagedKept
<1>8. CASE Winner(r)
  <2>1. UNCHANGED <<ledger, manifests>>
    BY <1>8 DEF Winner
  <2>2. Grows
    BY <1>1, <2>1, NoteGrows
  <2>3. QED
    BY <1>1, <1>8, <2>1, <2>2, WinnerStep, ManifestsKept
<1>9. QED
  BY <1>2, <1>3, <1>4, <1>5, <1>6, <1>7, <1>8
  DEF SoakStep, NotPermitted, NotStaged, NotBuilt, NotInvariant, JudgeError

LEMMA SoakInvInductive ==
  ASSUME SoakInv, [SoakNext]_soakVars
  PROVE  SoakInv'
<1>1. ledger \in Seq(Blocks)
  BY DEF SoakInv, SoakShape
<1>2. CASE OtherAppends \/ UNCHANGED soakVars
  <2>1. (AppendNote \/ ledger' = ledger) /\ UNCHANGED <<run, staged, manifests>>
    BY <1>2 DEF OtherAppends, soakVars
  <2>2. Grows
    BY <1>1, <2>1, NoteGrows
  <2>3. \A s \in Runs : RunInv(s)'
    BY <2>1, <2>2, RunKept DEF SoakInv
  <2>4. ManifestsOnLedger' /\ StagedIsOnLedger'
    BY <2>1, <2>2, ManifestsKept, StagedKept DEF SoakInv
  <2>5. QED
    BY <2>1, <2>2, <2>3, <2>4 DEF SoakInv, SoakShape, Grows
<1>3. ASSUME NEW r \in Runs, SoakStep(r) PROVE SoakInv'
  <2>1. Grows /\ RunInv(r)' /\ ManifestsOnLedger' /\ StagedIsOnLedger'
    BY <1>3, SoakStepKeeps
  <2>2. DOMAIN run' = Runs /\ DOMAIN manifests' = Runs
        /\ \A s \in Runs \ {r} : run'[s] = run[s]
    BY <1>3, OwnMemory, ManifestsDomain DEF SoakInv
  <2>3. \A s \in Runs : RunInv(s)'
    BY <2>1, <2>2, RunKept DEF SoakInv
  <2>4. QED
    BY <2>1, <2>2, <2>3 DEF SoakInv, SoakShape, Grows
<1>4. QED
  BY <1>2, <1>3 DEF SoakNext

LEMMA SoakInvInitially ==
  ASSUME SoakInit
  PROVE  SoakInv
<1>1. SoakShape /\ StagedIsOnLedger
  BY DEF SoakInit, SoakShape, StagedIsOnLedger
<1>2. ManifestsOnLedger
  BY DEF SoakInit, ManifestsOnLedger, Saved
<1>3. ASSUME NEW r \in Runs PROVE RunInv(r)
  <2>1. run[r] = Fresh
    BY DEF SoakInit
  <2>2. <<>> \in Seq(Records) /\ <<>> \in Seq(Nat)
    OBVIOUS
  <2>3. RunTyped(r)
    BY <2>1, <2>2 DEF RunTyped, Fresh, Fields
  <2>4. CandidatesOnLedger(r) /\ AdmittedOnLedger(r)
    BY <2>1 DEF CandidatesOnLedger, AdmittedOnLedger, Fresh
  <2>5. QED
    BY <2>3, <2>4 DEF RunInv
<1>4. QED
  BY <1>1, <1>2, <1>3 DEF SoakInv

LEMMA SoakAlways == SoakSpec => []SoakInv
  BY SoakInvInitially, SoakInvInductive, PTL DEF SoakSpec

\* What a run stages under .rsi/admitted is the evaluation of that very candidate on the
\* ledger, with an admitting verdict, for any number of concurrent runs.
THEOREM StagedOnLedger == SoakSpec => []StagedIsOnLedger
<1>1. SoakInv => StagedIsOnLedger
  BY DEF SoakInv
<1>2. QED
  BY <1>1, SoakAlways, PTL

\* The final root of a saved manifest covers the admitted blocks that the manifest names,
\* however the blocks of other processes fall between them.
THEOREM RootCovers == SoakSpec => []RootCoversAdmitted
<1>1. SoakInv => RootCoversAdmitted
  BY DEF SoakInv, ManifestsOnLedger, ManifestOnLedger, OnLedger, RootCoversAdmitted
<1>2. QED
  BY <1>1, SoakAlways, PTL

-----------------------------------------------------------------------------
(* What a run keeps until it writes its manifest. *)

Texts == {Plain(e) : e \in Explanations}
           \cup {hypothesis_problem(m, e) : m \in Nodes, e \in Explanations}
CycleRecords ==
  [node : Nodes, problem : {observed_problem(n) : n \in Nodes}, candidates : Seq(Records),
   winner : Nat, pairing : Keys]

\* A cycle as its record will tell it, and the cycles as the manifest would tell them now:
\* the tracker and the totals learn of a cycle's end one step before its record is kept.
Entry(w) ==
  [node |-> w.node, problem |-> observed_problem(w.node), candidates |-> w.candidates,
   winner |-> w.winner,
   pairing |-> pairing_key(w.node, hypothesis_problem(w.node, w.explained[w.node]))]
Told(w) == IF w.pc = "checkpoint" THEN Append(w.cycles, Entry(w)) ELSE w.cycles

Winners(cs) == {i \in DOMAIN cs : cs[i].winner # NoWinner}
Mine(cs, k) == {i \in DOMAIN cs : cs[i].pairing = k}
Since(cs, k) == {i \in Mine(cs, k) : \A j \in Mine(cs, k) : j >= i => cs[j].winner = NoWinner}

WellChosen(c) ==
  LET good == {k \in DOMAIN c.candidates : c.candidates[k].admitted}
  IN  /\ Len(c.candidates) = CandidatesPerCycle
      /\ IF c.winner = NoWinner THEN good = {}
         ELSE /\ c.winner \in good
              /\ \A k \in good : c.candidates[c.winner].metric <= c.candidates[k].metric

InCycle == {"candidate", "select", "checkpoint"}
Working == InCycle \cup {"observe", "finish"}

\* What one run keeps in memory, by the place it is at.
BookTyped(w) ==
  /\ DOMAIN w = Fields
  /\ w.cycles \in Seq(CycleRecords)
  /\ w.candidates \in Seq(Records) /\ w.admitted \in Seq(Nat)
  /\ DOMAIN w.tracker = {"failures", "exhausted"} /\ w.tracker.failures \in [Keys -> Nat]
  /\ w.cycle \in Nat /\ w.evaluated \in Nat /\ w.wins \in Nat
  /\ w.pc \in InCycle =>
       w.node \in Nodes /\ w.explained \in [Nodes -> Explanations] /\ w.winner \in Nat
Before(w) == (w.cycle - 1) * CandidatesPerCycle   \* the candidates of earlier cycles
Lengths(w) ==
  /\ w.cycle \in 1..(TotalCycles + 1) /\ Len(w.cycles) = w.cycle - 1
  /\ w.pc = "finish" <=> w.cycle = TotalCycles + 1
  /\ w.pc = "candidate" => Len(w.candidates) < CandidatesPerCycle
  /\ w.pc \in {"select", "checkpoint"} => Len(w.candidates) = CandidatesPerCycle
  /\ w.evaluated = Before(w) + (IF w.pc \in InCycle THEN Len(w.candidates) ELSE 0)
  /\ w.pc \in {"candidate", "select"} => w.winner = NoWinner
Totals(w) ==
  /\ w.wins = Cardinality(Winners(Told(w))) /\ w.wins = Len(w.admitted)
  /\ \A i \in DOMAIN Told(w) : WellChosen(Told(w)[i])
Tracked(w) ==
  \A k \in Keys :
    /\ w.tracker.failures[k] = Cardinality(Since(Told(w), k))
    /\ k \in w.tracker.exhausted <=> w.tracker.failures[k] >= ExhaustedAfter
Book(w) == BookTyped(w) /\ Lengths(w) /\ Totals(w) /\ Tracked(w)

-----------------------------------------------------------------------------
(* One more cycle in the list. *)

\* The earlier cycles keep their places.
LEMMA AppendedCycle ==
  ASSUME NEW cs \in Seq(CycleRecords), NEW c \in CycleRecords
  PROVE  /\ Append(cs, c) \in Seq(CycleRecords)
         /\ Len(Append(cs, c)) = Len(cs) + 1
         /\ DOMAIN Append(cs, c) = DOMAIN cs \cup {Len(cs) + 1}
         /\ Len(cs) + 1 \notin DOMAIN cs
         /\ \A i \in DOMAIN cs : Append(cs, c)[i] = cs[i] /\ i \in Nat /\ i < Len(cs) + 1
         /\ Append(cs, c)[Len(cs) + 1] = c
<1> HIDE DEF CycleRecords
<1>1. QED
  OBVIOUS

\* Sets of cycles are finite, so they can be counted.
LEMMA CyclesFinite ==
  ASSUME NEW cs \in Seq(CycleRecords), NEW S \in SUBSET DOMAIN cs
  PROVE  IsFiniteSet(S)
<1>1. DOMAIN cs = 1..Len(cs) /\ Len(cs) \in Int
  OBVIOUS
<1>2. IsFiniteSet(DOMAIN cs)
  BY <1>1, FS_Interval
<1>3. QED
  BY <1>2, FS_Subset

\* A cycle with a winner adds one to the cycles with a winner.
LEMMA AppendedWinner ==
  ASSUME NEW cs \in Seq(CycleRecords), NEW c \in CycleRecords
  PROVE  /\ c.winner = NoWinner => Winners(Append(cs, c)) = Winners(cs)
         /\ c.winner # NoWinner =>
              Cardinality(Winners(Append(cs, c))) = Cardinality(Winners(cs)) + 1
<1> DEFINE n == Len(cs) + 1
           d == Append(cs, c)
<1>1. /\ DOMAIN d = DOMAIN cs \cup {n} /\ n \notin DOMAIN cs
      /\ \A i \in DOMAIN cs : d[i] = cs[i]
      /\ d[n] = c
  BY AppendedCycle
<1> HIDE DEF n, d
<1>2. Winners(cs) \subseteq DOMAIN cs
  BY DEF Winners
<1>3. IsFiniteSet(Winners(cs)) /\ n \notin Winners(cs)
  BY <1>1, <1>2, CyclesFinite
<1>4. c.winner = NoWinner => Winners(d) = Winners(cs)
  BY <1>1 DEF Winners
<1>5. c.winner # NoWinner => Winners(d) = Winners(cs) \cup {n}
  BY <1>1 DEF Winners
<1>6. QED
  BY <1>3, <1>4, <1>5, FS_AddElement DEF d

\* A cycle without a winner adds one to the failures of its pairing since its last success,
\* a cycle with a winner takes them all away, and other pairings are as before.
LEMMA AppendedSince ==
  ASSUME NEW cs \in Seq(CycleRecords), NEW c \in CycleRecords, NEW k
  PROVE  /\ c.pairing # k => Since(Append(cs, c), k) = Since(cs, k)
         /\ c.pairing = k /\ c.winner = NoWinner =>
              Cardinality(Since(Append(cs, c), k)) = Cardinality(Since(cs, k)) + 1
         /\ c.pairing = k /\ c.winner # NoWinner =>
              Since(Append(cs, c), k) = {}
         /\ Cardinality(Since(cs, k)) \in Nat
<1> DEFINE n == Len(cs) + 1
           d == Append(cs, c)
           key == c.pairing
<1>1. /\ DOMAIN d = DOMAIN cs \cup {n} /\ n \notin DOMAIN cs /\ n \in Nat
      /\ \A i \in DOMAIN cs : d[i] = cs[i] /\ i \in Nat /\ i < n
      /\ d[n] = c
  BY AppendedCycle
<1> HIDE DEF n, d
<1>2. /\ key # k => Mine(d, k) = Mine(cs, k)
      /\ key = k => Mine(d, k) = Mine(cs, k) \cup {n}
  BY <1>1 DEF Mine
<1>3. Mine(cs, k) \subseteq DOMAIN cs
  BY DEF Mine
<1> HIDE DEF key
<1>4. Since(cs, k) \subseteq DOMAIN cs
  BY <1>3 DEF Since
<1>5. IsFiniteSet(Since(cs, k)) /\ n \notin Since(cs, k)
  BY <1>1, <1>4, CyclesFinite
<1>6. key # k => Since(d, k) = Since(cs, k)
  BY <1>1, <1>2, <1>3 DEF Since
<1>7. ASSUME key = k, c.winner = NoWinner
      PROVE  Since(d, k) = Since(cs, k) \cup {n}
  <2>1. ASSUME NEW i \in Since(d, k) PROVE i \in Since(cs, k) \cup {n}
    BY <1>1, <1>2, <1>3, <1>7 DEF Since
  <2>2. ASSUME NEW i \in Since(cs, k) PROVE i \in Since(d, k)
    BY <1>1, <1>2, <1>3, <1>7 DEF Since
  <2>3. n \in Since(d, k)
    <3>1. \A j \in Mine(d, k) : j >= n => j = n
      BY <1>1, <1>2, <1>3, <1>7
    <3>2. QED
      BY <1>1, <1>2, <1>7, <3>1 DEF Since
  <2>4. QED
    BY <2>1, <2>2, <2>3
<1>8. ASSUME key = k, c.winner # NoWinner
      PROVE  Since(d, k) = {}
  <2> SUFFICES ASSUME NEW i \in Since(d, k) PROVE FALSE
    OBVIOUS
  <2>1. n \in Mine(d, k) /\ i \in Mine(d, k)
    BY <1>2, <1>8 DEF Since
  <2>2. n >= i
    BY <1>1, <1>2, <1>3, <1>8, <2>1
  <2>3. QED
    BY <1>1, <1>8, <2>1, <2>2 DEF Since
<1>9. Cardinality(Since(cs, k)) \in Nat
  BY <1>5, FS_CardinalityType
<1>10. key = k /\ c.winner = NoWinner => Cardinality(Since(d, k)) = Cardinality(Since(cs, k)) + 1
  BY <1>5, <1>7, FS_AddElement
<1>11. QED
  BY <1>6, <1>8, <1>9, <1>10 DEF d, key

-----------------------------------------------------------------------------
(* The steps of a run on what it keeps. *)

\* The four steps that take a run to its next cycle or candidate, on its memory alone.
Started(w) == w = [Fresh EXCEPT !.pc = CycleLoop(1)]
Chosen(w, v, n, e) ==
  v = [w EXCEPT !.pc = CandidateLoop(1), !.node = n, !.explained = e, !.candidates = <<>>,
                !.winner = NoWinner]
OneMore(w, v, c) ==
  v = [w EXCEPT !.candidates = Append(@, c), !.evaluated = @ + 1,
                !.pc = CandidateLoop(Len(w.candidates) + 1 + 1)]
CycleKept(w, v) ==
  v = [w EXCEPT !.pc = CycleLoop(w.cycle + 1), !.cycle = @ + 1,
                !.cycles = Append(@, Entry(w))]

\* Nothing is counted before the first cycle.
LEMMA PreflightBook ==
  ASSUME NEW w, Started(w)
  PROVE  Book(w)
<1>1. /\ w.pc = CycleLoop(1) /\ DOMAIN w = Fields /\ w.cycle = 1 /\ w.candidates = <<>>
      /\ w.tracker = NewTracker /\ w.cycles = <<>> /\ w.admitted = <<>>
      /\ w.evaluated = 0 /\ w.wins = 0
  BY DEF Started, Fresh, Fields
<1>2. w.pc = IF 1 > TotalCycles THEN "finish" ELSE "observe"
  BY <1>1 DEF CycleLoop
<1>3. Told(w) = <<>>
  BY <1>1, <1>2 DEF Told
<1>4. BookTyped(w)
  <2>1. <<>> \in Seq(CycleRecords) /\ <<>> \in Seq(Records) /\ <<>> \in Seq(Nat)
    OBVIOUS
  <2>2. DOMAIN NewTracker = {"failures", "exhausted"} /\ NewTracker.failures \in [Keys -> Nat]
    BY DEF NewTracker
  <2>3. w.pc \notin InCycle
    BY <1>2 DEF InCycle
  <2>4. QED
    BY <1>1, <2>1, <2>2, <2>3 DEF BookTyped
<1>5. Lengths(w)
  <2>1. Before(w) = 0 /\ Len(w.cycles) = 0 /\ w.pc \notin InCycle
    BY <1>1, <1>2, SoakAssumption DEF Before, InCycle
  <2>2. QED
    BY <1>1, <1>2, <2>1, SoakAssumption DEF Lengths
<1>6. Winners(<<>>) = {} /\ \A k : Since(<<>>, k) = {}
  BY DEF Winners, Since, Mine
<1>7. Totals(w)
  <2>1. Cardinality(Winners(Told(w))) = 0
    BY <1>3, <1>6, FS_EmptySet
  <2>2. DOMAIN Told(w) = {} /\ Len(w.admitted) = 0
    BY <1>1, <1>3
  <2>3. QED
    BY <1>1, <2>1, <2>2 DEF Totals
<1>8. Tracked(w)
  <2>1. \A k \in Keys : NewTracker.failures[k] = 0 /\ k \notin NewTracker.exhausted
    BY DEF NewTracker
  <2>2. ~(0 >= ExhaustedAfter)
    BY SoakAssumption
  <2>3. QED
    BY <1>1, <1>3, <1>6, <2>1, <2>2, FS_EmptySet DEF Tracked
<1>9. QED
  BY <1>4, <1>5, <1>7, <1>8 DEF Book

\* A cycle starts without candidates and without a winner.
LEMMA ChooseBook ==
  ASSUME NEW w, NEW n \in Nodes, NEW e \in [Nodes -> Explanations], Book(w), w.pc = "observe",
         NEW v, Chosen(w, v, n, e)
  PROVE  Book(v)
<1>1. /\ v.pc = CandidateLoop(1) /\ v.node = n /\ v.explained = e /\ v.candidates = <<>>
      /\ v.winner = NoWinner /\ DOMAIN v = Fields /\ v.cycle = w.cycle /\ v.tracker = w.tracker
      /\ v.cycles = w.cycles /\ v.admitted = w.admitted /\ v.evaluated = w.evaluated
      /\ v.wins = w.wins
  BY DEF Chosen, Book, BookTyped, Fields
<1>2. v.pc = IF 1 > CandidatesPerCycle THEN "select" ELSE "candidate"
  BY <1>1 DEF CandidateLoop
<1>3. Told(v) = Told(w)
  BY <1>1, <1>2 DEF Told
<1>4. BookTyped(v)
  <2>1. <<>> \in Seq(Records)
    OBVIOUS
  <2>2. QED
    BY <1>1, <2>1 DEF Book, BookTyped, NoWinner
<1>5. Lengths(v)
  <2>1. Len(v.candidates) = 0 /\ Before(v) = Before(w)
    BY <1>1 DEF Before
  <2>2. QED
    BY <1>1, <1>2, <2>1, SoakAssumption DEF Book, Lengths, InCycle
<1>6. Totals(v)
  BY <1>1, <1>3 DEF Book, Totals
<1>7. Tracked(v)
  BY <1>1, <1>3 DEF Book, Tracked
<1>8. QED
  BY <1>4, <1>5, <1>6, <1>7 DEF Book

\* One record and one evaluation, until the cycle has all its candidates.
LEMMA RecordedBook ==
  ASSUME NEW w, NEW c \in Records, Book(w), w.pc = "candidate", NEW v, OneMore(w, v, c)
  PROVE  Book(v)
<1>1. /\ v.pc = CandidateLoop(Len(w.candidates) + 1 + 1)
      /\ v.candidates = Append(w.candidates, c) /\ v.evaluated = w.evaluated + 1
      /\ v.node = w.node /\ v.explained = w.explained
      /\ v.winner = w.winner /\ DOMAIN v = Fields /\ v.cycle = w.cycle /\ v.tracker = w.tracker
      /\ v.cycles = w.cycles /\ v.admitted = w.admitted
      /\ v.wins = w.wins
  BY DEF OneMore, Book, BookTyped, Fields
<1>2. w.candidates \in Seq(Records)
  BY DEF Book, BookTyped
<1>3. /\ Append(w.candidates, c) \in Seq(Records)
      /\ Len(Append(w.candidates, c)) = Len(w.candidates) + 1 /\ Len(w.candidates) \in Nat
  <2> HIDE DEF Records
  <2>1. QED
    BY <1>2
<1>4. v.pc = IF Len(w.candidates) + 1 + 1 > CandidatesPerCycle THEN "select" ELSE "candidate"
  BY <1>1 DEF CandidateLoop
<1>5. Told(v) = Told(w)
  BY <1>1, <1>4 DEF Told
<1>6. BookTyped(v)
  BY <1>1, <1>3 DEF Book, BookTyped, InCycle
<1>7. Lengths(v)
  <2>1. Before(v) = Before(w) /\ Before(w) \in Int
    BY <1>1, SoakAssumption DEF Before, Book, BookTyped
  <2>2. w.evaluated = Before(w) + Len(w.candidates) /\ Len(w.candidates) < CandidatesPerCycle
    BY DEF Book, Lengths, InCycle
  <2>3. v.evaluated = Before(v) + Len(v.candidates)
    BY <1>1, <1>3, <2>1, <2>2
  <2>4. v.pc \in {"candidate", "select"} /\ v.pc \in InCycle
    BY <1>4 DEF InCycle
  <2>5. /\ v.pc = "candidate" => Len(v.candidates) < CandidatesPerCycle
        /\ v.pc = "select" => Len(v.candidates) = CandidatesPerCycle
    BY <1>1, <1>3, <1>4, <2>2, SoakAssumption
  <2>6. v.cycle \in 1..(TotalCycles + 1) /\ Len(v.cycles) = v.cycle - 1
        /\ v.cycle # TotalCycles + 1 /\ v.winner = NoWinner
    BY <1>1 DEF Book, Lengths
  <2>7. QED
    BY <2>3, <2>4, <2>5, <2>6 DEF Lengths
<1>8. Totals(v)
  BY <1>1, <1>5 DEF Book, Totals
<1>9. Tracked(v)
  BY <1>1, <1>5 DEF Book, Tracked
<1>10. QED
  BY <1>6, <1>7, <1>8, <1>9 DEF Book

\* The record of a cycle and the pairing it is about.
LEMMA EntryTyped ==
  ASSUME NEW w, w.node \in Nodes, w.explained \in [Nodes -> Explanations],
         w.candidates \in Seq(Records), w.winner \in Nat
  PROVE  Entry(w) \in CycleRecords
<1> DEFINE e == w.explained[w.node]
<1>1. e \in Explanations
  OBVIOUS
<1> HIDE DEF e
<1>2. hypothesis_problem(w.node, e) \in Texts
  BY <1>1 DEF Texts
<1>3. Keys = {pairing_key(n, q) : n \in Nodes, q \in Texts}
  BY DEF Keys, Texts
<1>4. pairing_key(w.node, hypothesis_problem(w.node, e)) \in Keys
  BY <1>2, <1>3
<1>5. QED
  BY <1>4 DEF Entry, CycleRecords, e

\* The record of the cycle is what the totals already told.
LEMMA EndCycleBook ==
  ASSUME NEW w, Book(w), w.pc = "checkpoint", NEW v, CycleKept(w, v)
  PROVE  Book(v)
<1>1. /\ v.pc = CycleLoop(w.cycle + 1) /\ v.cycle = w.cycle + 1
      /\ v.cycles = Append(w.cycles, Entry(w))
      /\ v.candidates = w.candidates /\ v.evaluated = w.evaluated
      /\ DOMAIN v = Fields /\ v.tracker = w.tracker
      /\ v.admitted = w.admitted /\ v.wins = w.wins
  BY DEF CycleKept, Book, BookTyped, Fields
<1>2. v.pc = IF w.cycle + 1 > TotalCycles THEN "finish" ELSE "observe"
  BY <1>1 DEF CycleLoop
<1>3. Told(v) = Told(w)
  BY <1>1, <1>2 DEF Told
<1>4. Entry(w) \in CycleRecords
  BY EntryTyped DEF Book, BookTyped, InCycle
<1>5. w.cycles \in Seq(CycleRecords)
  BY DEF Book, BookTyped
<1>6. v.cycles \in Seq(CycleRecords) /\ Len(v.cycles) = Len(w.cycles) + 1
  BY <1>1, <1>4, <1>5, AppendedCycle
<1>7. BookTyped(v)
  BY <1>1, <1>2, <1>6 DEF Book, BookTyped, InCycle
<1>8. Lengths(v)
  <2>1. w.evaluated = Before(w) + CandidatesPerCycle /\ w.cycle \in Nat
    BY DEF Book, BookTyped, Lengths, InCycle
  <2>2. Before(v) = Before(w) + CandidatesPerCycle /\ Before(v) \in Int
    BY <1>1, <2>1, SoakAssumption DEF Before
  <2>3. w.cycle \in 1..TotalCycles /\ Len(w.cycles) = w.cycle - 1
    BY SoakAssumption DEF Book, Lengths
  <2>4. v.pc \notin InCycle
    BY <1>2 DEF InCycle
  <2>5. v.evaluated = Before(v) + 0
    BY <1>1, <2>1, <2>2
  <2>6. v.cycle \in 1..(TotalCycles + 1) /\ Len(v.cycles) = v.cycle - 1
        /\ (v.pc = "finish" <=> v.cycle = TotalCycles + 1)
    BY <1>1, <1>2, <1>6, <2>3, SoakAssumption
  <2>7. QED
    BY <2>4, <2>5, <2>6 DEF Lengths, InCycle
<1>9. Totals(v)
  BY <1>1, <1>3 DEF Book, Totals
<1>10. Tracked(v)
  BY <1>1, <1>3 DEF Book, Tracked
<1>11. QED
  BY <1>7, <1>8, <1>9, <1>10 DEF Book

\* The selection at the end of a cycle: the tracker and the totals take the cycle as its
\* record will tell it.
Selected(w, v, t, n, a) ==
  /\ DOMAIN v = Fields /\ v.pc = "checkpoint" /\ v.tracker = t /\ v.wins = n /\ v.admitted = a
  /\ v.node = w.node /\ v.explained = w.explained /\ v.candidates = w.candidates
  /\ v.cycle = w.cycle /\ v.cycles = w.cycles /\ v.evaluated = w.evaluated

\* What the tracker has after a cycle on pairing k, with `won` winners.
TrackerAfter(t, u, k, won) ==
  /\ DOMAIN u = {"failures", "exhausted"} /\ u.failures \in [Keys -> Nat]
  /\ \A q \in Keys \ {k} :
       u.failures[q] = t.failures[q] /\ (q \in u.exhausted <=> q \in t.exhausted)
  /\ won = 0 => /\ u.failures[k] = t.failures[k] + 1
                /\ k \in u.exhausted <=>
                     t.failures[k] + 1 >= ExhaustedAfter \/ k \in t.exhausted
  /\ won # 0 => u.failures[k] = 0 /\ k \notin u.exhausted

LEMMA TrackerSteps ==
  ASSUME NEW t, t.failures \in [Keys -> Nat], NEW k \in Keys
  PROVE  /\ TrackerAfter(t, record_failure(t, k), k, 0)
         /\ TrackerAfter(t, record_success(t, k), k, 1)
<1>1. TrackerAfter(t, record_failure(t, k), k, 0)
  <2> DEFINE u == record_failure(t, k)
  <2>1. /\ DOMAIN u = {"failures", "exhausted"}
        /\ u.failures = [t.failures EXCEPT ![k] = @ + 1]
        /\ u.exhausted = IF t.failures[k] + 1 >= ExhaustedAfter THEN t.exhausted \union {k}
                         ELSE t.exhausted
    BY DEF record_failure
  <2> HIDE DEF u
  <2>2. TrackerAfter(t, u, k, 0)
    BY <2>1 DEF TrackerAfter
  <2>3. QED
    BY <2>2 DEF u
<1>2. TrackerAfter(t, record_success(t, k), k, 1)
  <2> DEFINE u == record_success(t, k)
  <2>1. /\ DOMAIN u = {"failures", "exhausted"}
        /\ u.failures = [t.failures EXCEPT ![k] = 0]
        /\ u.exhausted = t.exhausted \ {k}
    BY DEF record_success
  <2> HIDE DEF u
  <2>2. TrackerAfter(t, u, k, 1)
    BY <2>1 DEF TrackerAfter
  <2>3. QED
    BY <2>2 DEF u
<1>3. QED
  BY <1>1, <1>2

\* The tracker after the selection.
Verdict(w, won) ==
  LET key == Entry(w).pairing
  IN  IF won = 0 THEN record_failure(w.tracker, key) ELSE record_success(w.tracker, key)

LEMMA SelectBook ==
  ASSUME NEW w, Book(w), w.pc = "select", NEW v, v.winner \in Nat,
         NEW won \in {0, 1}, won = 0 <=> v.winner = NoWinner,
         NEW a \in Seq(Nat), Len(a) = w.wins + won,
         Selected(w, v, Verdict(w, won), w.wins + won, a),
         WellChosen(Entry(v))
  PROVE  Book(v)
<1> DEFINE key == Entry(w).pairing
           t == IF won = 0 THEN record_failure(w.tracker, key) ELSE record_success(w.tracker, key)
           c == Entry(v)
<1>1. /\ v.pc = "checkpoint" /\ v.tracker = t /\ v.wins = w.wins + won /\ v.admitted = a
      /\ v.node = w.node /\ v.explained = w.explained /\ DOMAIN v = Fields
      /\ v.candidates = w.candidates /\ v.cycle = w.cycle
      /\ v.cycles = w.cycles /\ v.evaluated = w.evaluated
  <2> HIDE DEF t
  <2>1. Selected(w, v, t, w.wins + won, a)
    BY DEF t, Verdict
  <2>2. QED
    BY <2>1 DEF Selected
<1> HIDE DEF t
<1>2. /\ w.node \in Nodes /\ w.explained \in [Nodes -> Explanations]
      /\ w.cycles \in Seq(CycleRecords) /\ w.candidates \in Seq(Records)
      /\ w.wins \in Nat /\ w.cycle \in Nat /\ w.evaluated \in Nat
      /\ DOMAIN w.tracker = {"failures", "exhausted"} /\ w.tracker.failures \in [Keys -> Nat]
  BY DEF Book, BookTyped, InCycle
<1>3. c \in CycleRecords
  BY <1>1, <1>2, EntryTyped
<1>4. c.pairing = key /\ c.winner = v.winner /\ key \in Keys
  <2>1. c.pairing = key /\ c.winner = v.winner
    BY <1>1 DEF Entry
  <2>2. c.pairing \in Keys
    BY <1>3 DEF CycleRecords
  <2>3. QED
    BY <2>1, <2>2
<1>5. Told(w) = w.cycles /\ Told(v) = Append(w.cycles, c)
  BY <1>1 DEF Told
<1> HIDE DEF key, c
<1>6. TrackerAfter(w.tracker, t, key, won)
  <2>1. CASE won = 0
    <3>1. t = record_failure(w.tracker, key)
      BY <2>1 DEF t
    <3>2. QED
      BY <1>2, <1>4, <2>1, <3>1, TrackerSteps, Zenon
  <2>2. CASE won = 1
    <3>1. t = record_success(w.tracker, key)
      BY <2>2 DEF t
    <3>2. QED
      BY <1>2, <1>4, <2>2, <3>1, TrackerSteps, Zenon
  <2>3. QED
    BY <2>1, <2>2
<1>7. BookTyped(v)
  BY <1>1, <1>2, <1>6 DEF BookTyped, TrackerAfter
<1>8. Lengths(v)
  <2>1. Before(v) = Before(w)
    BY <1>1 DEF Before
  <2>2. QED
    BY <1>1, <2>1 DEF Book, Lengths, InCycle
<1>9. Totals(v)
  <2>1. w.wins = Cardinality(Winners(w.cycles))
    BY <1>5 DEF Book, Totals
  <2>2. v.wins = Cardinality(Winners(Told(v)))
    <3>1. CASE won = 0
      BY <1>1, <1>2, <1>3, <1>4, <1>5, <2>1, <3>1, AppendedWinner
    <3>2. CASE won = 1
      BY <1>1, <1>2, <1>3, <1>4, <1>5, <2>1, <3>2, AppendedWinner
    <3>3. QED
      BY <3>1, <3>2
  <2>3. \A i \in DOMAIN Told(v) : WellChosen(Told(v)[i])
    <3>1. \A i \in DOMAIN w.cycles : WellChosen(w.cycles[i])
      BY <1>5 DEF Book, Totals
    <3>2. WellChosen(c)
      BY DEF c
    <3>3. QED
      BY <1>2, <1>3, <1>4, <1>5, <3>1, <3>2, AppendedCycle
  <2>4. QED
    BY <1>1, <2>2, <2>3 DEF Totals
<1>10. Tracked(v)
  <2> SUFFICES ASSUME NEW k \in Keys
               PROVE  /\ t.failures[k] = Cardinality(Since(Append(w.cycles, c), k))
                      /\ k \in t.exhausted <=> t.failures[k] >= ExhaustedAfter
    BY <1>1, <1>5 DEF Tracked
  <2>1. /\ w.tracker.failures[k] = Cardinality(Since(w.cycles, k))
        /\ k \in w.tracker.exhausted <=> w.tracker.failures[k] >= ExhaustedAfter
        /\ w.tracker.failures[k] \in Nat
    BY <1>2, <1>5 DEF Book, Tracked
  <2>2. CASE k # key
    <3>1. Since(Append(w.cycles, c), k) = Since(w.cycles, k)
      BY <1>2, <1>3, <1>4, <2>2, AppendedSince
    <3>2. QED
      BY <1>6, <2>1, <2>2, <3>1 DEF TrackerAfter
  <2>3. CASE k = key /\ won = 0
    <3>1. Cardinality(Since(Append(w.cycles, c), k)) = Cardinality(Since(w.cycles, k)) + 1
      BY <1>2, <1>3, <1>4, <2>3, AppendedSince
    <3>2. QED
      BY <1>6, <2>1, <2>3, <3>1, SoakAssumption DEF TrackerAfter
  <2>4. CASE k = key /\ won = 1
    <3>1. Since(Append(w.cycles, c), k) = {}
      <4>1. c.winner # NoWinner /\ c.pairing = k
        BY <1>4, <2>4
      <4>2. QED
        BY <1>2, <1>3, <1>4, <4>1, AppendedSince, Zenon
    <3>2. Cardinality(Since(Append(w.cycles, c), k)) = 0
      BY <3>1, FS_EmptySet
    <3>3. ~(0 >= ExhaustedAfter)
      BY SoakAssumption
    <3>4. QED
      BY <1>6, <2>4, <3>2, <3>3 DEF TrackerAfter
  <2>5. QED
    BY <2>2, <2>3, <2>4
<1>11. QED
  BY <1>7, <1>8, <1>9, <1>10 DEF Book

-----------------------------------------------------------------------------
(* The actions. *)

\* What a saved manifest says of its cycles.
Accounts(m) ==
  /\ Len(m.cycles) = TotalCycles /\ m.evaluated = TotalCycles * CandidatesPerCycle
  /\ m.wins = Cardinality(Winners(m.cycles)) /\ m.wins = Len(m.admitted)
  /\ \A i \in DOMAIN m.cycles : WellChosen(m.cycles[i])
  /\ \A k \in Keys : k \in m.exhausted <=> Cardinality(Since(m.cycles, k)) >= ExhaustedAfter

\* The strengthening: the books of every run at work, and every saved manifest.
RunBook(w) == (w.pc = "idle" => w = Fresh) /\ (w.pc \in Working => Book(w))
BookInv ==
  /\ \A r \in Runs : RunBook(run[r])
  /\ \A r \in Saved : Accounts(manifests[r][1])

\* Each action on the books of its own run; a run that ended has none to keep.
LEMMA RunBookStep ==
  ASSUME SoakInv, NEW r \in Runs, RunBook(run[r]), SoakStep(r)
  PROVE  RunBook(run'[r])
<1> DEFINE w == run[r]
           v == run'[r]
<1>1. DOMAIN run = Runs /\ DOMAIN w = Fields
  BY DEF SoakInv, SoakShape, RunInv, RunTyped
<1> SUFFICES v.pc # "idle" /\ (v.pc \in Working => Book(v))
  BY DEF RunBook
<1>2. CASE NoKey(r) \/ PreflightAborted(r) \/ ObserveFailed(r) \/ EvaluationNotAppended(r)
  <2>1. v.pc = "failed"
    BY <1>1, <1>2 DEF NoKey, PreflightAborted, ObserveFailed, EvaluationNotAppended, Fields
  <2>2. QED
    BY <2>1 DEF Working, InCycle
<1>3. CASE Finish(r) \/ Lost(r)
  <2>1. v.pc \in {"done", "failed"}
    BY <1>1, <1>3 DEF Finish, Lost, Fresh
  <2>2. QED
    BY <2>1 DEF Working, InCycle
<1>4. CASE Preflight(r)
  <2>1. w = Fresh
    BY <1>4 DEF Preflight, At, RunBook
  <2>2. Started(v)
    BY <1>1, <1>4, <2>1 DEF Preflight, Started
  <2>3. Book(v)
    BY <2>2, PreflightBook
  <2>4. v.pc # "idle"
    BY <2>2 DEF Started, Fresh, CycleLoop
  <2>5. QED
    BY <2>3, <2>4
<1>5. CASE Choose(r)
  <2>1. w.pc = "observe" /\ Book(w)
    BY <1>5 DEF Choose, At, RunBook, Working
  <2>2. PICK n \in Nodes, e \in [Nodes -> Explanations] :
          run' = [run EXCEPT ![r].pc = CandidateLoop(1), ![r].node = n, ![r].explained = e,
                             ![r].candidates = <<>>, ![r].winner = NoWinner]
    BY <1>5 DEF Choose
  <2>3. Chosen(w, v, n, e) /\ v.pc = CandidateLoop(1)
    BY <1>1, <2>2 DEF Chosen, Fields
  <2>4. Book(v)
    BY <2>1, <2>3, ChooseBook
  <2>5. QED
    BY <2>3, <2>4 DEF CandidateLoop
<1>6. ASSUME NEW c \in Records, At(r, "candidate"), run' = Recorded(r, c)
      PROVE  v.pc # "idle" /\ Book(v)
  <2>1. w.pc = "candidate" /\ Book(w)
    BY <1>6 DEF At, RunBook, Working, InCycle
  <2>2. OneMore(w, v, c) /\ v.pc = CandidateLoop(Len(w.candidates) + 1 + 1)
    BY <1>1, <1>6 DEF OneMore, Recorded, Index, Fields
  <2>3. Book(v)
    BY <2>1, <2>2, RecordedBook
  <2>4. QED
    BY <2>2, <2>3 DEF CandidateLoop
<1>7. CASE NoProposal(r) \/ Rejected(r)
  <2>1. At(r, "candidate") /\ run' = Recorded(r, NotJudged)
    BY <1>7 DEF NoProposal, Rejected
  <2>2. NotJudged \in Records
    BY DEF NotJudged, Record, Records, NoBlock
  <2>3. QED
    BY <1>6, <2>1, <2>2
<1>8. CASE Judged(r)
  <2>1. PICK admitted \in BOOLEAN, metric \in Metrics :
          run' = Recorded(r, Record(admitted, metric, Len(ledger) + 1))
    BY <1>8 DEF Judged
  <2>2. Len(ledger) + 1 \in Nat /\ metric \in Int
    BY SoakAssumption DEF SoakInv, SoakShape
  <2>3. Record(admitted, metric, Len(ledger) + 1) \in Records /\ At(r, "candidate")
    BY <1>8, <2>2 DEF Record, Records, Judged
  <2>4. QED
    BY <1>6, <2>1, <2>3
<1>9. CASE EndCycle(r)
  <2>1. w.pc = "checkpoint" /\ Book(w)
    BY <1>9 DEF EndCycle, At, RunBook, Working, InCycle
  <2>2. run' = [run EXCEPT ![r].pc = CycleLoop(run[r].cycle + 1), ![r].cycle = @ + 1,
                           ![r].cycles = Append(@, Entry(w))]
    BY <1>9 DEF EndCycle, Entry, Key, Problem
  <2>3. CycleKept(w, v) /\ v.pc = CycleLoop(w.cycle + 1)
    BY <1>1, <2>2 DEF CycleKept, Fields
  <2>4. Book(v)
    BY <2>1, <2>3, EndCycleBook
  <2>5. QED
    BY <2>3, <2>4 DEF CycleLoop
<1>10. CASE NoneAdmissible(r)
  <2>1. w.pc = "select" /\ Book(w)
    BY <1>10 DEF NoneAdmissible, At, RunBook, Working, InCycle
  <2>2. /\ w.winner = NoWinner /\ w.wins \in Nat /\ w.admitted \in Seq(Nat)
        /\ Len(w.admitted) = w.wins /\ Len(w.candidates) = CandidatesPerCycle
    BY <2>1 DEF Book, BookTyped, Lengths, Totals
  <2> DEFINE t == Verdict(w, 0)
  <2>3. run' = [run EXCEPT ![r].pc = "checkpoint", ![r].tracker = t]
    BY <1>10 DEF NoneAdmissible, Key, Problem, Entry, Verdict
  <2> HIDE DEF t
  <2>4. /\ DOMAIN v = Fields /\ v.pc = "checkpoint" /\ v.tracker = t /\ v.wins = w.wins
        /\ v.admitted = w.admitted /\ v.winner = w.winner
        /\ v.node = w.node /\ v.explained = w.explained /\ v.candidates = w.candidates
        /\ v.cycle = w.cycle /\ v.cycles = w.cycles /\ v.evaluated = w.evaluated
    BY <1>1, <2>3 DEF Fields
  <2> HIDE DEF v, w
  <2>5. Selected(w, v, t, w.wins + 0, w.admitted)
    BY <2>2, <2>4 DEF Selected
  <2>6. WellChosen(Entry(v))
    <3>1. {i \in DOMAIN w.candidates : w.candidates[i].admitted} = {}
      BY <1>10 DEF NoneAdmissible, Admissible, w
    <3>2. Entry(v).candidates = w.candidates /\ Entry(v).winner = NoWinner
      BY <2>2, <2>4 DEF Entry
    <3>3. QED
      BY <2>2, <3>1, <3>2 DEF WellChosen
  <2>7. v.winner \in Nat /\ v.winner = NoWinner /\ Len(w.admitted) = w.wins + 0
    BY <2>2, <2>4 DEF NoWinner
  <2>8. Book(v)
    BY <2>1, <2>2, <2>5, <2>6, <2>7, SelectBook DEF t
  <2>9. QED
    BY <2>4, <2>8
<1>11. CASE Winner(r)
  <2>1. w.pc = "select" /\ Book(w)
    BY <1>11 DEF Winner, At, RunBook, Working, InCycle
  <2>2. /\ w.wins \in Nat /\ w.admitted \in Seq(Nat) /\ w.candidates \in Seq(Records)
        /\ Len(w.admitted) = w.wins /\ Len(w.candidates) = CandidatesPerCycle
    BY <2>1 DEF Book, BookTyped, Lengths, Totals
  <2>3. PICK x \in Admissible(r) :
          /\ \A i \in Admissible(r) : Better(r, x, i)
          /\ run' = [run EXCEPT ![r].pc = "checkpoint", ![r].winner = x,
                                ![r].tracker = record_success(@, Key(r)),
                                ![r].wins = @ + 1,
                                ![r].admitted = Append(@, run[r].candidates[x].block)]
    BY <1>11 DEF Winner
  <2> DEFINE t == Verdict(w, 1)
             a == Append(w.admitted, w.candidates[x].block)
  <2>4. run' = [run EXCEPT ![r].pc = "checkpoint", ![r].winner = x, ![r].tracker = t,
                           ![r].wins = @ + 1, ![r].admitted = a]
    <3>1. t = record_success(w.tracker, Key(r))
      BY DEF Key, Problem, Entry, Verdict
    <3>2. QED
      BY <1>1, <2>3, <3>1 DEF Fields
  <2> HIDE DEF t, a
  <2>5. /\ DOMAIN v = Fields /\ v.pc = "checkpoint" /\ v.tracker = t /\ v.wins = w.wins + 1
        /\ v.admitted = a /\ v.winner = x
        /\ v.node = w.node /\ v.explained = w.explained /\ v.candidates = w.candidates
        /\ v.cycle = w.cycle /\ v.cycles = w.cycles /\ v.evaluated = w.evaluated
    BY <1>1, <2>4 DEF Fields
  <2>6. \A i \in Admissible(r) : w.candidates[x].metric <= w.candidates[i].metric
    <3>1. \A i \in Admissible(r) : i \in DOMAIN w.candidates /\ w.candidates[i].metric \in Int
      <4>1. \A i \in DOMAIN w.candidates : w.candidates[i] \in Records
        BY <2>2
      <4>2. QED
        BY <4>1 DEF Admissible, Records
    <3>2. QED
      BY <2>3, <3>1 DEF Better
  <2>7. Admissible(r) = {i \in DOMAIN w.candidates : w.candidates[i].admitted}
    BY DEF Admissible
  <2> HIDE DEF v, w
  <2>8. x \in DOMAIN w.candidates /\ x \in Nat /\ x # NoWinner
    BY <2>2, <2>7 DEF NoWinner
  <2>9. a \in Seq(Nat) /\ Len(a) = w.wins + 1
    <3>1. w.candidates[x].block \in Nat
      <4>1. w.candidates[x] \in Records
        BY <2>2, <2>8
      <4>2. QED
        BY <4>1 DEF Records
    <3>2. QED
      BY <2>2, <3>1 DEF a
  <2>10. Selected(w, v, t, w.wins + 1, a)
    BY <2>5 DEF Selected
  <2>11. WellChosen(Entry(v))
    <3>1. Entry(v).candidates = w.candidates /\ Entry(v).winner = x
      BY <2>5 DEF Entry
    <3>2. QED
      BY <2>2, <2>6, <2>7, <2>8, <3>1 DEF WellChosen
  <2>12. Book(v)
    BY <2>1, <2>5, <2>8, <2>9, <2>10, <2>11, SelectBook DEF t
  <2>13. QED
    BY <2>5, <2>12
<1>12. QED
  BY <1>2, <1>3, <1>4, <1>5, <1>7, <1>8, <1>9, <1>10, <1>11
  DEF SoakStep, NotPermitted, NotStaged, NotBuilt, NotInvariant, JudgeError

\* The manifest is written from the memory of a run that went through all its cycles.
LEMMA FinishAccounts ==
  ASSUME SoakInv, NEW r \in Runs, RunBook(run[r]), Finish(r)
  PROVE  /\ \A s \in Saved' : s # r => s \in Saved /\ manifests'[s] = manifests[s]
         /\ Accounts(manifests'[r][1])
<1> DEFINE w == run[r]
<1>1. w.pc = "finish" /\ Book(w)
  BY DEF Finish, At, RunBook, Working
<1>2. PICK root \in CheckpointRoots : manifests' = [manifests EXCEPT ![r] = <<Manifest(r, root)>>]
  BY DEF Finish
<1>3. \A s \in Saved' : s # r => s \in Saved /\ manifests'[s] = manifests[s]
  BY <1>2 DEF Saved, SoakInv, SoakShape
<1> DEFINE m == manifests'[r][1]
<1>4. /\ m.cycles = w.cycles /\ m.admitted = w.admitted /\ m.exhausted = w.tracker.exhausted
      /\ m.evaluated = w.evaluated /\ m.wins = w.wins
  BY <1>2 DEF SoakInv, SoakShape, Manifest
<1> HIDE DEF m, w
<1>5. Told(w) = w.cycles
  BY <1>1 DEF Told
<1>6. w.cycle = TotalCycles + 1 /\ Len(w.cycles) = TotalCycles /\ w.evaluated = Before(w) + 0
  BY <1>1, SoakAssumption DEF Book, Lengths, InCycle
<1>7. w.evaluated = TotalCycles * CandidatesPerCycle
  BY <1>6, SoakAssumption DEF Before
<1>8. /\ w.wins = Cardinality(Winners(w.cycles)) /\ w.wins = Len(w.admitted)
      /\ \A i \in DOMAIN w.cycles : WellChosen(w.cycles[i])
  BY <1>1, <1>5 DEF Book, Totals
<1>9. \A k \in Keys :
        k \in w.tracker.exhausted <=> Cardinality(Since(w.cycles, k)) >= ExhaustedAfter
  BY <1>1, <1>5 DEF Book, Tracked
<1>10. Accounts(m)
  BY <1>4, <1>6, <1>7, <1>8, <1>9 DEF Accounts
<1>11. QED
  BY <1>3, <1>10 DEF m

LEMMA BookInvInductive ==
  ASSUME SoakInv, BookInv, [SoakNext]_soakVars
  PROVE  BookInv'
<1>1. CASE OtherAppends \/ UNCHANGED soakVars
  BY <1>1 DEF OtherAppends, soakVars, BookInv, Saved
<1>2. ASSUME NEW r \in Runs, SoakStep(r) PROVE BookInv'
  <2>1. RunBook(run'[r]) /\ \A s \in Runs \ {r} : run'[s] = run[s]
    BY <1>2, RunBookStep, OwnMemory DEF BookInv, SoakInv
  <2>2. \A s \in Runs : RunBook(run'[s])
    BY <2>1 DEF BookInv
  <2>3. \A s \in Saved' : Accounts(manifests'[s][1])
    <3>1. CASE Finish(r)
      BY <3>1, FinishAccounts DEF BookInv
    <3>2. CASE PreflightAborted(r)
      <4>1. \A s \in Saved' : s \in Saved /\ manifests'[s] = manifests[s]
        BY <3>2 DEF PreflightAborted, Saved, SoakInv, SoakShape
      <4>2. QED
        BY <4>1 DEF BookInv
    <3>3. CASE ~Finish(r) /\ ~PreflightAborted(r)
      <4>1. manifests' = manifests
        BY <1>2, <3>3 DEF SoakStep, NoKey, Preflight, Choose, ObserveFailed,
          NoProposal, NotPermitted, NotStaged, NotBuilt, NotInvariant, JudgeError, Rejected,
          Judged, EvaluationNotAppended, NoneAdmissible, Winner, EndCycle, Lost
      <4>2. QED
        BY <4>1 DEF BookInv, Saved
    <3>4. QED
      BY <3>1, <3>2, <3>3
  <2>4. QED
    BY <2>2, <2>3 DEF BookInv
<1>3. QED
  BY <1>1, <1>2 DEF SoakNext

LEMMA BookAlways == SoakSpec => []BookInv
<1>1. SoakInit => BookInv
  BY DEF SoakInit, BookInv, RunBook, Fresh, Working, InCycle, Saved
<1>2. SoakInv /\ BookInv /\ [SoakNext]_soakVars => BookInv'
  BY BookInvInductive
<1>3. QED
  BY <1>1, <1>2, SoakAlways, PTL DEF SoakSpec

\* A saved manifest accounts for every candidate of every cycle with the right totals and the
\* right winners, for any number of cycles and candidates and whichever way each candidate
\* left the loop.
THEOREM ManifestsAccount == SoakSpec => []ManifestAccounts
<1>1. BookInv => ManifestAccounts
  BY DEF BookInv, Accounts, ManifestAccounts, WellChosen, Winners
<1>2. QED
  BY <1>1, BookAlways, PTL

\* The pairings a manifest lists as exhausted are exactly those that failed often enough since
\* their last success, over all cycles of the run: no failure is counted twice, lost, or
\* kept over a success.
THEOREM ExhaustedFailed == SoakSpec => []ExhaustedMeansFailed
<1>1. BookInv => ExhaustedMeansFailed
  BY DEF BookInv, Accounts, ExhaustedMeansFailed, Since, Mine
<1>2. QED
  BY <1>1, BookAlways, PTL

=============================================================================
