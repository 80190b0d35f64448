------------------------------ MODULE RsiCycle ------------------------------
(***************************************************************************)
(* The improvement cycle of src/src/daemon.rs (RsiEngine), from a proposed *)
(* candidate to a promoted generation and a review branch, with the        *)
(* promotion gate and the ratifier it calls.                               *)
(*                                                                         *)
(* Engines are processes that run cycles on one rsi_root (the daemon and   *)
(* the cycle command): they share the ledger, the sample logs, the active  *)
(* link and the build output root /tmp/spark-rsi-target, and no lock.      *)
(* Most appends to the ledger ignore their error, three of them end the    *)
(* cycle or refuse the candidate; an engine may be killed anywhere.        *)
(*                                                                         *)
(* The judge inside the engine issues version 1 receipts, which the gate   *)
(* refuses: with Receipts = {"own_v1"} nothing is ever promoted. The code  *)
(* after the gate is written for the receipt of a separate judge, and is   *)
(* reached in the model with "separate_v2" among the Receipts.             *)
(***************************************************************************)
EXTENDS Naturals

CONSTANTS
  Engines,
  Cands,        \* proposals: each has a fresh id and is handled by one cycle
  NoCand,
  Receipts,     \* receipts the judge may return: "own_v1" from the judge inside
                \* the engine, "separate_v2" bound and signed by a separate one
  MinSamples,   \* config.measure_min_samples
  MaxCycles,    \* bound: cycles started
  MaxFaults     \* bound: failed fatal appends, failed swaps and killed engines

ASSUME CycleAssumption ==
  /\ NoCand \notin Cands
  /\ Receipts \subseteq {"own_v1", "separate_v2"}
  /\ {MinSamples, MaxCycles, MaxFaults} \subseteq Nat

VARIABLES
  eng,         \* what each engine is doing: the locals of run_cycle_inner
  used,        \* candidates proposed so far
  exe,         \* whose build the adapter executable in the output root is from
  staged,      \* whose build the executable copied into each generation is from
  ledger,      \* blocks, as <<kind, candidate>>
  active,      \* the generation the active link points at
  branches,    \* review branches
  complete, partial,  \* records in the two sample logs
  judged,      \* history: the receipt each candidate was admitted with
  passed,      \* history: gates passed, as <<gate, candidate>>
  exempt,      \* history: candidates that skipped the canary
  rolled,      \* history: candidates rolled back
  mixed,       \* history: candidates between whose build and copy another engine built
  finished,    \* history: cycles that returned Ok
  claims,      \* history: performance claims let through, with `finished` at that time
  cycles, faults   \* bounds

cycleVars == <<eng, used, exe, staged, ledger, active, branches, complete, partial, judged,
               passed, exempt, rolled, mixed, finished, claims, cycles, faults>>

\* The locals of a cycle that has no candidate yet.
Locals(place, left, measured) ==
  [pc |-> place, cand |-> NoCand, left |-> left, measured |-> measured, mode |-> "none",
   receipt |-> "none", enough |-> FALSE]

Idle == Locals("idle", 0, FALSE)

\* Places in run_cycle_inner.
Places == {"idle", "propose", "gates", "eligibility", "build", "built", "judge", "stage", "admit",
           "collect", "commit", "quota", "rollback", "envelope", "gate", "swap", "promote",
           "ratify", "wrap", "failed"}

At(e, place) == eng[e].pc = place
Goto(e, place) == eng' = [eng EXCEPT ![e].pc = place]

\* A step that may fail for reasons of its own, counted against the bound.
Fault == faults < MaxFaults /\ faults' = faults + 1

\* append_block whose result is ignored: any of the blocks may be missing.
TryAppend(kinds, c) == \E done \in SUBSET kinds : ledger' = ledger \union (done \X {c})

\* append_block whose error is handled by the caller.
AppendOk(kind, c) == ledger' = ledger \union {<<kind, c>>}

CycleInit ==
  /\ eng = [e \in Engines |-> Idle]
  /\ used = {}
  /\ exe = NoCand
  /\ staged = [c \in Cands |-> NoCand]
  /\ ledger = {}
  /\ active = NoCand
  /\ branches = {}
  /\ complete = 0 /\ partial = 0
  /\ judged = [c \in Cands |-> "none"]
  /\ passed = {} /\ exempt = {} /\ rolled = {} /\ mixed = {}
  /\ finished = 0 /\ claims = {}
  /\ cycles = 0 /\ faults = 0

history == <<judged, passed, exempt, rolled, mixed, finished, claims>>
disk == <<exe, staged, active, branches, complete, partial>>

-----------------------------------------------------------------------------
(* Observe, propose. *)

\* The ledger opens, the preconditions hold and the codebase is observed. The top
\* stage may be measured only when enough complete cycles are in the sample log.
StartCycle(e) ==
  /\ At(e, "idle") /\ cycles < MaxCycles
  /\ cycles' = cycles + 1
  /\ \E measured \in {m \in BOOLEAN : m => complete >= MinSamples} :
       eng' = [eng EXCEPT ![e] = Locals("propose", 2, measured)]
  /\ UNCHANGED <<used, disk, ledger, history, faults>>

\* observe_codebase failed, or the stage graph could not be built: the observe stage
\* has left its sample, so the cycle is recorded as partial. (A cycle that fails
\* earlier, at the ledger, the holdouts or the key, changes nothing.)
ObserveFailed(e) ==
  /\ At(e, "idle") /\ cycles < MaxCycles
  /\ cycles' = cycles + 1
  /\ partial' = partial + 1
  /\ UNCHANGED <<eng, used, exe, staged, active, branches, complete, ledger, history, faults>>

\* Fault: the id is not fresh and may be handed out again.
NextCandidate_Reused(e, c) ==
  /\ At(e, "propose") /\ eng[e].left > 0
  /\ eng' = [eng EXCEPT ![e].pc = "gates", ![e].cand = c, ![e].left = @ - 1]
  /\ UNCHANGED <<used, disk, ledger, history, cycles, faults>>

\* The next candidate: from the model seat, then from the unslop scan.
NextCandidate(e, c) ==
  /\ At(e, "propose") /\ eng[e].left > 0
  /\ c \in Cands \ used
  /\ used' = used \union {c}
  /\ eng' = [eng EXCEPT ![e].pc = "gates", ![e].cand = c, ![e].left = @ - 1]
  /\ UNCHANGED <<disk, ledger, history, cycles, faults>>

NoWinner(e) ==
  /\ At(e, "propose")
  /\ eng' = [eng EXCEPT ![e].pc = "wrap", ![e].cand = NoCand]
  /\ UNCHANGED <<used, disk, ledger, history, cycles, faults>>

\* The candidate is dropped with a note and the loop goes on to the next one.
Continue(e) == Goto(e, "propose") /\ TryAppend({"note"}, eng[e].cand)

\* check_claim: a performance claim needs a measured diagnosis.
check_claim(e, performance) == performance => eng[e].measured

\* A claim without diagnosis, a target outside the roots, a tier 2 change without
\* the operator's signature, or a sandbox that cannot be made.
GatesRefuse(e) ==
  /\ At(e, "gates")
  /\ Continue(e)
  /\ UNCHANGED <<used, disk, history, cycles, faults>>

GatesPass(e, performance) ==
  /\ At(e, "gates")
  /\ check_claim(e, performance)
  /\ Goto(e, "eligibility")
  /\ claims' = IF performance THEN claims \union {<<eng[e].cand, finished>>} ELSE claims
  /\ UNCHANGED <<used, disk, ledger, judged, passed, exempt, rolled, mixed, finished, cycles, faults>>

-----------------------------------------------------------------------------
(* Canary eligibility, build, judge. *)

\* A kind the operator exempted, and nothing executable: no canary, no build.
Exempt(e) ==
  /\ At(e, "eligibility")
  /\ eng' = [eng EXCEPT ![e].pc = "judge", ![e].mode = "exempt"]
  /\ exempt' = exempt \union {eng[e].cand}
  /\ UNCHANGED <<used, disk, ledger, judged, passed, rolled, mixed, finished, claims, cycles, faults>>

\* No adapter, the wrong workload, or a stale executable that cannot be removed:
\* judged all the same, refused at the canary. The tree may still be built.
Ineligible(e) ==
  /\ At(e, "eligibility")
  /\ \E next \in {"build", "judge"} :
       eng' = [eng EXCEPT ![e].pc = next, ![e].mode = "refused"]
  /\ TryAppend({"note"}, eng[e].cand)
  /\ UNCHANGED <<used, disk, history, cycles, faults>>

\* The operator's workload is missing or does not match its pin: the cycle fails.
WorkloadRefused(e) ==
  /\ At(e, "eligibility")
  /\ Goto(e, "failed")
  /\ TryAppend({"note"}, eng[e].cand)
  /\ UNCHANGED <<used, disk, history, cycles, faults>>

\* Fault: the executable of an earlier build is not removed.
Eligible_KeepsStale(e) ==
  /\ At(e, "eligibility")
  /\ eng' = [eng EXCEPT ![e].pc = "build", ![e].mode = "eligible"]
  /\ UNCHANGED <<used, disk, ledger, history, cycles, faults>>

\* "A file left by an earlier build is never the executable under evaluation."
Eligible(e) ==
  /\ At(e, "eligibility")
  /\ eng' = [eng EXCEPT ![e].pc = "build", ![e].mode = "eligible"]
  /\ exe' = NoCand
  /\ UNCHANGED <<used, staged, active, branches, complete, partial, ledger, history, cycles, faults>>

\* Engines that have not yet copied the executable of their own build.
Uncopied(e) ==
  {eng[f].cand : f \in {g \in Engines \ {e} :
     eng[g].mode = "eligible" /\ eng[g].pc \in {"build", "built", "judge", "stage", "admit"}}}

\* cargo build succeeded; it may not have produced the adapter executable.
BuildOk(e) ==
  /\ At(e, "build")
  /\ Goto(e, "built")
  /\ \/ exe' = eng[e].cand /\ mixed' = mixed \union Uncopied(e)
     \/ UNCHANGED <<exe, mixed>>
  /\ UNCHANGED <<used, staged, active, branches, complete, partial, ledger, judged, passed, exempt,
                 rolled, finished, claims, cycles, faults>>

BuildFailed(e) ==
  /\ At(e, "build")
  /\ Continue(e)
  /\ UNCHANGED <<used, disk, history, cycles, faults>>

\* The build did not produce the adapter executable: no longer eligible.
BuiltMissing(e) ==
  /\ At(e, "built")
  /\ eng[e].mode = "eligible" /\ exe = NoCand
  /\ eng' = [eng EXCEPT ![e].pc = "judge", ![e].mode = "refused"]
  /\ TryAppend({"note"}, eng[e].cand)
  /\ UNCHANGED <<used, disk, history, cycles, faults>>

BuiltPresent(e) ==
  /\ At(e, "built")
  /\ eng[e].mode = "eligible" => exe # NoCand
  /\ Goto(e, "judge")
  /\ UNCHANGED <<used, disk, ledger, history, cycles, faults>>

\* Invariants failed, the tension is out of balance, or the judge failed.
JudgeRefuses(e) ==
  /\ At(e, "judge")
  /\ Continue(e)
  /\ UNCHANGED <<used, disk, history, cycles, faults>>

\* The receipt is on the ledger before anything is made of it; the candidate it
\* admits is the cycle's winner.
JudgeAnswers(e, receipt, admitted) ==
  /\ At(e, "judge")
  /\ AppendOk("evaluation", eng[e].cand)
  /\ \/ /\ admitted
        /\ eng' = [eng EXCEPT ![e].pc = "stage", ![e].receipt = receipt]
        /\ judged' = [judged EXCEPT ![eng[e].cand] = receipt]
     \/ ~admitted /\ Goto(e, "propose") /\ UNCHANGED judged
  /\ UNCHANGED <<used, disk, passed, exempt, rolled, mixed, finished, claims, cycles, faults>>

EvaluationNotAppended(e) ==
  /\ At(e, "judge")
  /\ Fault
  /\ Goto(e, "failed")
  /\ UNCHANGED <<used, disk, ledger, history, cycles>>

-----------------------------------------------------------------------------
(* Canary admission: admit_canary. *)

StageCanary(e) ==
  /\ At(e, "stage")
  /\ Goto(e, "admit")
  /\ UNCHANGED <<used, disk, ledger, history, cycles, faults>>

StageFailed(e) ==
  /\ At(e, "stage")
  /\ Fault
  /\ Goto(e, "failed")
  /\ UNCHANGED <<used, disk, ledger, history, cycles>>

AdmitExempt(e) ==
  /\ At(e, "admit") /\ eng[e].mode = "exempt"
  /\ Goto(e, "envelope")
  /\ UNCHANGED <<used, disk, ledger, history, cycles, faults>>

\* An ineligible candidate, a staged tree that differs from the evaluated one, or
\* an executable that cannot be copied.
AdmitRefused(e) ==
  /\ At(e, "admit") /\ eng[e].mode # "exempt"
  /\ Goto(e, "rollback")
  /\ UNCHANGED <<used, disk, ledger, history, cycles, faults>>

\* The built executable is copied into the generation and hashed there.
StageExecutable(e) ==
  /\ At(e, "admit") /\ eng[e].mode = "eligible"
  /\ exe # NoCand
  /\ staged' = [staged EXCEPT ![eng[e].cand] = exe]
  /\ Goto(e, "collect")
  /\ UNCHANGED <<used, exe, active, branches, complete, partial, ledger, history, cycles, faults>>

\* The executor's run: sealed with or without enough successes...
Collected(e, enough) ==
  /\ At(e, "collect")
  /\ eng' = [eng EXCEPT ![e].pc = "commit", ![e].enough = enough]
  /\ UNCHANGED <<used, disk, ledger, history, cycles, faults>>

\* ... or failed, or halted without a seal.
NotSealed(e) ==
  /\ At(e, "collect")
  /\ Goto(e, "rollback")
  /\ UNCHANGED <<used, disk, ledger, history, cycles, faults>>

\* Fault: the commitment's error is ignored, as it is for notes.
Commit_IgnoresError(e) ==
  /\ At(e, "commit")
  /\ TryAppend({"commitment"}, eng[e].cand)
  /\ Goto(e, "quota")
  /\ UNCHANGED <<used, disk, history, cycles, faults>>

\* The ledger holds the commitment before quota admission runs.
Commit(e) ==
  /\ At(e, "commit")
  /\ AppendOk("commitment", eng[e].cand)
  /\ Goto(e, "quota")
  /\ UNCHANGED <<used, disk, history, cycles, faults>>

CommitFailed(e) ==
  /\ At(e, "commit")
  /\ Fault
  /\ Goto(e, "rollback")
  /\ UNCHANGED <<used, disk, ledger, history, cycles>>

Quota(e) ==
  /\ At(e, "quota")
  /\ \/ /\ eng[e].enough
        /\ Goto(e, "envelope")
        /\ passed' = passed \union {<<"quota", eng[e].cand>>}
     \/ /\ ~eng[e].enough
        /\ Goto(e, "rollback")
        /\ UNCHANGED passed
  /\ UNCHANGED <<used, disk, ledger, judged, exempt, rolled, mixed, finished, claims, cycles, faults>>

-----------------------------------------------------------------------------
(* Safety envelope, promotion gate, promotion. *)

\* roll_back and record_decision. The supervisor of this cycle holds no active
\* generation, so the links stay; neither append's error is looked at.
RollBack(e) ==
  /\ At(e, "rollback")
  /\ Goto(e, "wrap")
  /\ rolled' = rolled \union {eng[e].cand}
  /\ TryAppend({"rollback", "decision"}, eng[e].cand)
  /\ UNCHANGED <<used, disk, judged, passed, exempt, mixed, finished, claims, cycles, faults>>

Envelope(e, ok) ==
  /\ At(e, "envelope")
  /\ \/ ok /\ Goto(e, "gate") /\ passed' = passed \union {<<"envelope", eng[e].cand>>}
     \/ ~ok /\ Goto(e, "rollback") /\ UNCHANGED passed
  /\ UNCHANGED <<used, disk, ledger, judged, exempt, rolled, mixed, finished, claims, cycles, faults>>

\* check_v2_promotion: the generation still holds the judged bytes, the operator's
\* pins are there and name a separate judge, the receipt is a version 2 receipt of
\* that judge for this parent and path, and meets the policy.
check_v2_promotion(receipt, sameBytes, policyHolds) ==
  sameBytes /\ policyHolds /\ receipt = "separate_v2"

PromotionGate(e, sameBytes, policyHolds) ==
  /\ At(e, "gate")
  /\ \/ /\ check_v2_promotion(eng[e].receipt, sameBytes, policyHolds)
        /\ Goto(e, "swap")
        /\ passed' = passed \union {<<"gate", eng[e].cand>>}
        /\ TryAppend({"decision"}, eng[e].cand)
     \/ /\ ~check_v2_promotion(eng[e].receipt, sameBytes, policyHolds)
        /\ Goto(e, "rollback")
        /\ UNCHANGED <<passed, ledger>>
  /\ UNCHANGED <<used, disk, judged, exempt, rolled, mixed, finished, claims, cycles, faults>>

SwapActive(e) ==
  /\ At(e, "swap")
  /\ active' = eng[e].cand
  /\ Goto(e, "promote")
  /\ UNCHANGED <<used, exe, staged, branches, complete, partial, ledger, history, cycles, faults>>

SwapFailed(e) ==
  /\ At(e, "swap")
  /\ Fault
  /\ Goto(e, "failed")
  /\ UNCHANGED <<used, disk, ledger, history, cycles>>

\* Fault: the promotion's error is ignored, as it is for notes.
AppendPromotion_IgnoresError(e) ==
  /\ At(e, "promote")
  /\ TryAppend({"promotion"}, eng[e].cand)
  /\ Goto(e, "ratify")
  /\ UNCHANGED <<used, disk, history, cycles, faults>>

AppendPromotion(e) ==
  /\ At(e, "promote")
  /\ AppendOk("promotion", eng[e].cand)
  /\ Goto(e, "ratify")
  /\ UNCHANGED <<used, disk, history, cycles, faults>>

\* The link is swapped, the ledger does not say so, and the cycle ends in an error.
PromotionNotAppended(e) ==
  /\ At(e, "promote")
  /\ Fault
  /\ Goto(e, "failed")
  /\ UNCHANGED <<used, disk, ledger, history, cycles>>

\* ratify_proposal: a review branch and a patch, or a rejection.
Ratify(e, accepted) ==
  /\ At(e, "ratify")
  /\ branches' = IF accepted THEN branches \union {eng[e].cand} ELSE branches
  /\ Goto(e, "wrap")
  /\ UNCHANGED <<used, exe, staged, active, complete, partial, ledger, history, cycles, faults>>

\* The branch was made and writing the patch failed.
RatifyFailed(e) ==
  /\ At(e, "ratify")
  /\ Fault
  /\ branches' = branches \union {eng[e].cand}
  /\ Goto(e, "failed")
  /\ UNCHANGED <<used, exe, staged, active, complete, partial, ledger, history, cycles>>

-----------------------------------------------------------------------------
(* The end of a cycle: record_stage_samples. *)

CycleOk(e) ==
  /\ At(e, "wrap")
  /\ eng' = [eng EXCEPT ![e] = Idle]
  /\ complete' = complete + 1
  /\ finished' = finished + 1
  /\ UNCHANGED <<used, exe, staged, active, branches, partial, ledger, judged, passed, exempt, rolled,
                 mixed, claims, cycles, faults>>

\* Fault: the samples of every cycle go to one log.
CycleErr_OneLog(e) ==
  /\ At(e, "failed")
  /\ eng' = [eng EXCEPT ![e] = Idle]
  /\ complete' = complete + 1
  /\ UNCHANGED <<used, exe, staged, active, branches, partial, ledger, history, cycles, faults>>

CycleErr(e) ==
  /\ At(e, "failed")
  /\ eng' = [eng EXCEPT ![e] = Idle]
  /\ partial' = partial + 1
  /\ UNCHANGED <<used, exe, staged, active, branches, complete, ledger, history, cycles, faults>>

\* The samples could not be written: a warning, and the cycle's result stands.
SamplesLost(e) ==
  /\ eng[e].pc \in {"wrap", "failed"}
  /\ Fault
  /\ eng' = [eng EXCEPT ![e] = Idle]
  /\ finished' = IF At(e, "wrap") THEN finished + 1 ELSE finished
  /\ UNCHANGED <<used, disk, ledger, judged, passed, exempt, rolled, mixed, claims, cycles>>

\* The process is killed.
Kill(e) ==
  /\ ~At(e, "idle")
  /\ Fault
  /\ eng' = [eng EXCEPT ![e] = Idle]
  /\ UNCHANGED <<used, disk, ledger, history, cycles>>

Terminated ==
  /\ cycles = MaxCycles /\ \A e \in Engines : At(e, "idle")
  /\ UNCHANGED cycleVars

Step(e) ==
  \/ StartCycle(e) \/ ObserveFailed(e)
  \/ \E c \in Cands : NextCandidate(e, c)
  \/ NoWinner(e) \/ GatesRefuse(e)
  \/ Exempt(e) \/ Ineligible(e) \/ WorkloadRefused(e) \/ Eligible(e)
  \/ BuildOk(e) \/ BuildFailed(e) \/ BuiltMissing(e) \/ BuiltPresent(e)
  \/ JudgeRefuses(e) \/ EvaluationNotAppended(e)
  \/ \E r \in Receipts, admitted \in BOOLEAN : JudgeAnswers(e, r, admitted)
  \/ StageCanary(e) \/ StageFailed(e) \/ AdmitExempt(e) \/ AdmitRefused(e) \/ StageExecutable(e)
  \/ \E flag \in BOOLEAN : GatesPass(e, flag) \/ Collected(e, flag) \/ Envelope(e, flag) \/ Ratify(e, flag)
  \/ NotSealed(e) \/ Commit(e) \/ CommitFailed(e) \/ Quota(e) \/ RollBack(e)
  \/ \E same, holds \in BOOLEAN : PromotionGate(e, same, holds)
  \/ SwapActive(e) \/ SwapFailed(e) \/ AppendPromotion(e) \/ PromotionNotAppended(e)
  \/ RatifyFailed(e) \/ CycleOk(e) \/ CycleErr(e) \/ SamplesLost(e) \/ Kill(e)

CycleNext == (\E e \in Engines : Step(e)) \/ Terminated

CycleSpec == CycleInit /\ [][CycleNext]_cycleVars

-----------------------------------------------------------------------------
(* Properties. *)

EngineTypeOK ==
  eng \in [Engines -> [pc : Places, cand : Cands \union {NoCand}, left : 0..2,
                       measured : BOOLEAN, mode : {"none", "exempt", "refused", "eligible"},
                       receipt : Receipts \union {"none"}, enough : BOOLEAN]]

StoreTypeOK ==
  /\ used \subseteq Cands
  /\ exe \in Cands \union {NoCand}
  /\ staged \in [Cands -> Cands \union {NoCand}]
  /\ ledger \subseteq {"note", "evaluation", "commitment", "decision", "promotion", "rollback"} \X Cands
  /\ active \in Cands \union {NoCand}
  /\ branches \subseteq Cands
  /\ judged \in [Cands -> Receipts \union {"none"}]
  /\ passed \subseteq {"quota", "envelope", "gate"} \X Cands
  /\ exempt \subseteq Cands /\ rolled \subseteq Cands /\ mixed \subseteq Cands
  /\ claims \subseteq Cands \X Nat
  /\ complete \in Nat /\ partial \in Nat /\ finished \in Nat /\ cycles \in Nat /\ faults \in Nat

\* Past the proposal an engine has a candidate, and no other engine works on it.
OwnCandidates ==
  \A e \in Engines :
    /\ eng[e].pc \notin {"idle", "propose", "wrap", "failed"} => eng[e].cand # NoCand
    /\ eng[e].cand # NoCand => eng[e].cand \in used
    /\ \A f \in Engines \ {e} : eng[e].cand = eng[f].cand => eng[e].cand = NoCand

\* Every variable has its type, and no two engines work on one candidate: proposal
\* ids are fresh, so generations, sandboxes and branches named by them are not shared.
CycleTypeOK == EngineTypeOK /\ StoreTypeOK /\ OwnCandidates

\* Quota -> envelope -> promotion gate -> Durable (docs/CANARY-CONTRACT.md), for
\* every interleaving of engines, failed appends and kills: the active generation
\* was judged by a separate judge and that is on the ledger, its sealed log is
\* committed there and met the quota unless it was exempt, it passed the envelope
\* and the gate, and it was not rolled back.
PromotionEarned ==
  active # NoCand =>
    /\ <<"evaluation", active>> \in ledger
    /\ judged[active] = "separate_v2"
    /\ active \notin exempt => <<"commitment", active>> \in ledger /\ <<"quota", active>> \in passed
    /\ {<<"envelope", active>>, <<"gate", active>>} \subseteq passed
    /\ active \notin rolled

\* "The adapter executable exists fresh from this exact tree" (run_cycle_inner): the
\* executable a canary runs was built from its candidate's own tree, whatever earlier
\* cycles left in the shared output root, unless another engine built in between.
ExecutableFromTree ==
  \A c \in Cands : staged[c] \in {c, NoCand} \/ c \in mixed

\* A change that is offered for review has its promotion on the ledger.
ReviewIsRecorded == \A c \in branches : <<"promotion", c>> \in ledger

\* "Ranking reads measurements from completed prior cycles only": a performance
\* claim is let through only after enough cycles returned Ok.
ClaimsAreMeasured == \A claim \in claims : claim[2] >= MinSamples
=============================================================================
