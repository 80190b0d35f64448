-------------------------- MODULE RsiCycle_proofs --------------------------
(***************************************************************************)
(* Proofs about the improvement cycle: the type invariant, and that what   *)
(* is active was promoted in order and what is offered for review is on    *)
(* the ledger, for every number of engines, candidates, cycles and faults. *)
(***************************************************************************)
EXTENDS RsiCycle, TLAPS

-----------------------------------------------------------------------------
(* Types. *)

EngineRecords ==
  [pc : Places, cand : Cands \union {NoCand}, left : 0..2, measured : BOOLEAN,
   mode : {"none", "exempt", "refused", "eligible"}, receipt : Receipts \union {"none"},
   enough : BOOLEAN]

\* A step leaves the locals of every engine in their types.
LEMMA EngineStep ==
  ASSUME EngineTypeOK, NEW e \in Engines, Step(e)
  PROVE  EngineTypeOK'
<1>1. CASE StartCycle(e)
  <2>1. PICK m \in BOOLEAN : eng' = [eng EXCEPT ![e] = Locals("propose", 2, m)]
    BY <1>1 DEF StartCycle
  <2>2. "propose" \in Places /\ 2 \in 0..2
    BY DEF Places
  <2>3. Locals("propose", 2, m) \in EngineRecords
    BY <2>2 DEF Locals, EngineRecords
  <2>4. QED
    BY <2>1, <2>3 DEF EngineTypeOK, EngineRecords
<1>2. CASE ObserveFailed(e)
  BY <1>2, CycleAssumption DEF EngineTypeOK, Places, ObserveFailed, At, history
<1>3. ASSUME NEW c \in Cands, NextCandidate(e, c)
      PROVE  EngineTypeOK'
  BY <1>3, CycleAssumption DEF EngineTypeOK, Places, NextCandidate, At, disk, history
<1>4. CASE NoWinner(e)
  <2>1. "wrap" \in Places
    BY DEF Places
  <2>2. eng[e] \in EngineRecords /\ eng \in [Engines -> EngineRecords]
    BY DEF EngineTypeOK, EngineRecords
  <2>3. [eng[e] EXCEPT !.pc = "wrap", !.cand = NoCand] \in EngineRecords
    BY <2>1, <2>2 DEF EngineRecords
  <2>4. eng' = [eng EXCEPT ![e] = [eng[e] EXCEPT !.pc = "wrap", !.cand = NoCand]]
    BY <1>4, <2>2 DEF NoWinner
  <2>5. QED
    BY <2>2, <2>3, <2>4 DEF EngineTypeOK, EngineRecords
<1>5. CASE GatesRefuse(e)
  BY <1>5, CycleAssumption DEF EngineTypeOK, Places, GatesRefuse, At, Goto, TryAppend, Continue,
    disk, history
<1>6. ASSUME NEW flag \in BOOLEAN, GatesPass(e, flag)
      PROVE  EngineTypeOK'
  BY <1>6, CycleAssumption DEF EngineTypeOK, Places, GatesPass, At, Goto, check_claim, disk
<1>7. CASE Exempt(e)
  <2>1. "judge" \in Places
    BY DEF Places
  <2>2. eng[e] \in EngineRecords /\ eng \in [Engines -> EngineRecords]
    BY DEF EngineTypeOK, EngineRecords
  <2>3. [eng[e] EXCEPT !.pc = "judge", !.mode = "exempt"] \in EngineRecords
    BY <2>1, <2>2 DEF EngineRecords
  <2>4. eng' = [eng EXCEPT ![e] = [eng[e] EXCEPT !.pc = "judge", !.mode = "exempt"]]
    BY <1>7, <2>2 DEF Exempt
  <2>5. QED
    BY <2>2, <2>3, <2>4 DEF EngineTypeOK, EngineRecords
<1>8. CASE Ineligible(e)
  <2>1. PICK next \in {"build", "judge"} :
           eng' = [eng EXCEPT ![e].pc = next, ![e].mode = "refused"]
    BY <1>8 DEF Ineligible
  <2>2. next \in Places
    BY DEF Places
  <2>3. QED
    BY <2>1, <2>2 DEF EngineTypeOK
<1>9. CASE WorkloadRefused(e)
  BY <1>9, CycleAssumption DEF EngineTypeOK, Places, WorkloadRefused, At, Goto, TryAppend, disk,
    history
<1>10. CASE Eligible(e)
  <2>1. "build" \in Places
    BY DEF Places
  <2>2. eng[e] \in EngineRecords /\ eng \in [Engines -> EngineRecords]
    BY DEF EngineTypeOK, EngineRecords
  <2>3. [eng[e] EXCEPT !.pc = "build", !.mode = "eligible"] \in EngineRecords
    BY <2>1, <2>2 DEF EngineRecords
  <2>4. eng' = [eng EXCEPT ![e] = [eng[e] EXCEPT !.pc = "build", !.mode = "eligible"]]
    BY <1>10, <2>2 DEF Eligible
  <2>5. QED
    BY <2>2, <2>3, <2>4 DEF EngineTypeOK, EngineRecords
<1>11. CASE BuildOk(e)
  BY <1>11, CycleAssumption DEF EngineTypeOK, Places, BuildOk, At, Goto, Uncopied
<1>12. CASE BuildFailed(e)
  BY <1>12, CycleAssumption DEF EngineTypeOK, Places, BuildFailed, At, Goto, TryAppend, Continue,
    disk, history
<1>13. CASE BuiltMissing(e)
  BY <1>13, CycleAssumption DEF EngineTypeOK, Places, BuiltMissing, At, TryAppend, disk, history
<1>14. CASE BuiltPresent(e)
  BY <1>14, CycleAssumption DEF EngineTypeOK, Places, BuiltPresent, At, Goto, disk, history
<1>15. CASE JudgeRefuses(e)
  BY <1>15, CycleAssumption DEF EngineTypeOK, Places, JudgeRefuses, At, Goto, TryAppend, Continue,
    disk, history
<1>16. ASSUME NEW r \in Receipts, NEW admitted \in BOOLEAN, JudgeAnswers(e, r, admitted)
      PROVE  EngineTypeOK'
  BY <1>16, CycleAssumption DEF EngineTypeOK, Places, JudgeAnswers, At, Goto, AppendOk, disk
<1>17. CASE EvaluationNotAppended(e)
  BY <1>17, CycleAssumption DEF EngineTypeOK, Places, EvaluationNotAppended, At, Goto, Fault,
    disk, history
<1>18. CASE StageCanary(e)
  BY <1>18, CycleAssumption DEF EngineTypeOK, Places, StageCanary, At, Goto, disk, history
<1>19. CASE StageFailed(e)
  BY <1>19, CycleAssumption DEF EngineTypeOK, Places, StageFailed, At, Goto, Fault, disk, history
<1>20. CASE AdmitExempt(e)
  BY <1>20, CycleAssumption DEF EngineTypeOK, Places, AdmitExempt, At, Goto, disk, history
<1>21. CASE AdmitRefused(e)
  BY <1>21, CycleAssumption DEF EngineTypeOK, Places, AdmitRefused, At, Goto, disk, history
<1>22. CASE StageExecutable(e)
  BY <1>22, CycleAssumption DEF EngineTypeOK, Places, StageExecutable, At, Goto, history
<1>23. ASSUME NEW flag \in BOOLEAN, Collected(e, flag)
      PROVE  EngineTypeOK'
  <2>1. "commit" \in Places
    BY DEF Places
  <2>2. QED
    BY <1>23, <2>1 DEF EngineTypeOK, Collected
<1>24. CASE NotSealed(e)
  BY <1>24, CycleAssumption DEF EngineTypeOK, Places, NotSealed, At, Goto, disk, history
<1>25. CASE Commit(e)
  BY <1>25, CycleAssumption DEF EngineTypeOK, Places, Commit, At, Goto, AppendOk, disk, history
<1>26. CASE CommitFailed(e)
  BY <1>26, CycleAssumption DEF EngineTypeOK, Places, CommitFailed, At, Goto, Fault, disk, history
<1>27. CASE Quota(e)
  BY <1>27, CycleAssumption DEF EngineTypeOK, Places, Quota, At, Goto, disk
<1>28. CASE RollBack(e)
  BY <1>28, CycleAssumption DEF EngineTypeOK, Places, RollBack, At, Goto, TryAppend, disk
<1>29. ASSUME NEW flag \in BOOLEAN, Envelope(e, flag)
      PROVE  EngineTypeOK'
  BY <1>29, CycleAssumption DEF EngineTypeOK, Places, Envelope, At, Goto, disk
<1>30. ASSUME NEW same \in BOOLEAN, NEW holds \in BOOLEAN, PromotionGate(e, same, holds)
      PROVE  EngineTypeOK'
  BY <1>30, CycleAssumption DEF EngineTypeOK, Places, PromotionGate, At, Goto, TryAppend,
    check_v2_promotion, disk
<1>31. CASE SwapActive(e)
  BY <1>31, CycleAssumption DEF EngineTypeOK, Places, SwapActive, At, Goto, history
<1>32. CASE SwapFailed(e)
  BY <1>32, CycleAssumption DEF EngineTypeOK, Places, SwapFailed, At, Goto, Fault, disk, history
<1>33. CASE AppendPromotion(e)
  BY <1>33, CycleAssumption DEF EngineTypeOK, Places, AppendPromotion, At, Goto, AppendOk, disk,
    history
<1>34. CASE PromotionNotAppended(e)
  BY <1>34, CycleAssumption DEF EngineTypeOK, Places, PromotionNotAppended, At, Goto, Fault, disk,
    history
<1>35. ASSUME NEW flag \in BOOLEAN, Ratify(e, flag)
      PROVE  EngineTypeOK'
  BY <1>35, CycleAssumption DEF EngineTypeOK, Places, Ratify, At, Goto, history
<1>36. CASE RatifyFailed(e)
  BY <1>36, CycleAssumption DEF EngineTypeOK, Places, RatifyFailed, At, Goto, Fault, history
<1>37. CASE CycleOk(e)
  BY <1>37, CycleAssumption DEF EngineTypeOK, Places, CycleOk, At, Idle, Locals
<1>38. CASE CycleErr(e)
  BY <1>38, CycleAssumption DEF EngineTypeOK, Places, CycleErr, At, history, Idle, Locals
<1>39. CASE SamplesLost(e)
  BY <1>39, CycleAssumption DEF EngineTypeOK, Places, SamplesLost, At, Fault, disk, Idle, Locals
<1>40. CASE Kill(e)
  BY <1>40, CycleAssumption DEF EngineTypeOK, Places, Kill, At, Fault, disk, history, Idle, Locals
<1>99. QED
  BY <1>1, <1>2, <1>3, <1>4, <1>5, <1>6, <1>7, <1>8, <1>9, <1>10, <1>11, <1>12, <1>13, <1>14,
    <1>15, <1>16, <1>17, <1>18, <1>19, <1>20, <1>21, <1>22, <1>23, <1>24, <1>25, <1>26, <1>27,
    <1>28, <1>29, <1>30, <1>31, <1>32, <1>33, <1>34, <1>35, <1>36, <1>37, <1>38, <1>39, <1>40 DEF
    Step

\* A step leaves the shared state and the history in their types.
LEMMA StoreStep ==
  ASSUME CycleTypeOK, NEW e \in Engines, Step(e)
  PROVE  StoreTypeOK'
<1>1. CASE StartCycle(e)
  BY <1>1, CycleAssumption DEF CycleTypeOK, EngineTypeOK, StoreTypeOK, OwnCandidates, Places,
    StartCycle, At, disk, history, Locals
<1>2. CASE ObserveFailed(e)
  BY <1>2, CycleAssumption DEF CycleTypeOK, EngineTypeOK, StoreTypeOK, OwnCandidates, Places,
    ObserveFailed, At, history
<1>3. ASSUME NEW c \in Cands, NextCandidate(e, c)
      PROVE  StoreTypeOK'
  BY <1>3, CycleAssumption DEF CycleTypeOK, EngineTypeOK, StoreTypeOK, OwnCandidates, Places,
    NextCandidate, At, disk, history
<1>4. CASE NoWinner(e)
  BY <1>4, CycleAssumption DEF CycleTypeOK, EngineTypeOK, StoreTypeOK, OwnCandidates, Places,
    NoWinner, At, disk, history
<1>5. CASE GatesRefuse(e)
  BY <1>5, CycleAssumption DEF CycleTypeOK, EngineTypeOK, StoreTypeOK, OwnCandidates, Places,
    GatesRefuse, At, Goto, TryAppend, Continue, disk, history
<1>6. ASSUME NEW flag \in BOOLEAN, GatesPass(e, flag)
      PROVE  StoreTypeOK'
  BY <1>6, CycleAssumption DEF CycleTypeOK, EngineTypeOK, StoreTypeOK, OwnCandidates, Places,
    GatesPass, At, Goto, check_claim, disk
<1>7. CASE Exempt(e)
  BY <1>7, CycleAssumption DEF CycleTypeOK, EngineTypeOK, StoreTypeOK, OwnCandidates, Places,
    Exempt, At, disk
<1>8. CASE Ineligible(e)
  BY <1>8, CycleAssumption DEF CycleTypeOK, EngineTypeOK, StoreTypeOK, OwnCandidates, Places,
    Ineligible, At, TryAppend, disk, history
<1>9. CASE WorkloadRefused(e)
  BY <1>9, CycleAssumption DEF CycleTypeOK, EngineTypeOK, StoreTypeOK, OwnCandidates, Places,
    WorkloadRefused, At, Goto, TryAppend, disk, history
<1>10. CASE Eligible(e)
  BY <1>10, CycleAssumption DEF CycleTypeOK, EngineTypeOK, StoreTypeOK, OwnCandidates, Places,
    Eligible, At, history
<1>11. CASE BuildOk(e)
  BY <1>11, CycleAssumption DEF CycleTypeOK, EngineTypeOK, StoreTypeOK, OwnCandidates, Places,
    BuildOk, At, Goto, Uncopied
<1>12. CASE BuildFailed(e)
  BY <1>12, CycleAssumption DEF CycleTypeOK, EngineTypeOK, StoreTypeOK, OwnCandidates, Places,
    BuildFailed, At, Goto, TryAppend, Continue, disk, history
<1>13. CASE BuiltMissing(e)
  BY <1>13, CycleAssumption DEF CycleTypeOK, EngineTypeOK, StoreTypeOK, OwnCandidates, Places,
    BuiltMissing, At, TryAppend, disk, history
<1>14. CASE BuiltPresent(e)
  BY <1>14, CycleAssumption DEF CycleTypeOK, EngineTypeOK, StoreTypeOK, OwnCandidates, Places,
    BuiltPresent, At, Goto, disk, history
<1>15. CASE JudgeRefuses(e)
  BY <1>15, CycleAssumption DEF CycleTypeOK, EngineTypeOK, StoreTypeOK, OwnCandidates, Places,
    JudgeRefuses, At, Goto, TryAppend, Continue, disk, history
<1>16. ASSUME NEW r \in Receipts, NEW admitted \in BOOLEAN, JudgeAnswers(e, r, admitted)
      PROVE  StoreTypeOK'
  BY <1>16, CycleAssumption DEF CycleTypeOK, EngineTypeOK, StoreTypeOK, OwnCandidates, Places,
    JudgeAnswers, At, Goto, AppendOk, disk
<1>17. CASE EvaluationNotAppended(e)
  BY <1>17, CycleAssumption DEF CycleTypeOK, EngineTypeOK, StoreTypeOK, OwnCandidates, Places,
    EvaluationNotAppended, At, Goto, Fault, disk, history
<1>18. CASE StageCanary(e)
  BY <1>18, CycleAssumption DEF CycleTypeOK, EngineTypeOK, StoreTypeOK, OwnCandidates, Places,
    StageCanary, At, Goto, disk, history
<1>19. CASE StageFailed(e)
  BY <1>19, CycleAssumption DEF CycleTypeOK, EngineTypeOK, StoreTypeOK, OwnCandidates, Places,
    StageFailed, At, Goto, Fault, disk, history
<1>20. CASE AdmitExempt(e)
  BY <1>20, CycleAssumption DEF CycleTypeOK, EngineTypeOK, StoreTypeOK, OwnCandidates, Places,
    AdmitExempt, At, Goto, disk, history
<1>21. CASE AdmitRefused(e)
  BY <1>21, CycleAssumption DEF CycleTypeOK, EngineTypeOK, StoreTypeOK, OwnCandidates, Places,
    AdmitRefused, At, Goto, disk, history
<1>22. CASE StageExecutable(e)
  BY <1>22, CycleAssumption DEF CycleTypeOK, EngineTypeOK, StoreTypeOK, OwnCandidates, Places,
    StageExecutable, At, Goto, history
<1>23. ASSUME NEW flag \in BOOLEAN, Collected(e, flag)
      PROVE  StoreTypeOK'
  BY <1>23, CycleAssumption DEF CycleTypeOK, EngineTypeOK, StoreTypeOK, OwnCandidates, Places,
    Collected, At, disk, history
<1>24. CASE NotSealed(e)
  BY <1>24, CycleAssumption DEF CycleTypeOK, EngineTypeOK, StoreTypeOK, OwnCandidates, Places,
    NotSealed, At, Goto, disk, history
<1>25. CASE Commit(e)
  BY <1>25, CycleAssumption DEF CycleTypeOK, EngineTypeOK, StoreTypeOK, OwnCandidates, Places,
    Commit, At, Goto, AppendOk, disk, history
<1>26. CASE CommitFailed(e)
  BY <1>26, CycleAssumption DEF CycleTypeOK, EngineTypeOK, StoreTypeOK, OwnCandidates, Places,
    CommitFailed, At, Goto, Fault, disk, history
<1>27. CASE Quota(e)
  BY <1>27, CycleAssumption DEF CycleTypeOK, EngineTypeOK, StoreTypeOK, OwnCandidates, Places,
    Quota, At, Goto, disk
<1>28. CASE RollBack(e)
  BY <1>28, CycleAssumption DEF CycleTypeOK, EngineTypeOK, StoreTypeOK, OwnCandidates, Places,
    RollBack, At, Goto, TryAppend, disk
<1>29. ASSUME NEW flag \in BOOLEAN, Envelope(e, flag)
      PROVE  StoreTypeOK'
  BY <1>29, CycleAssumption DEF CycleTypeOK, EngineTypeOK, StoreTypeOK, OwnCandidates, Places,
    Envelope, At, Goto, disk
<1>30. ASSUME NEW same \in BOOLEAN, NEW holds \in BOOLEAN, PromotionGate(e, same, holds)
      PROVE  StoreTypeOK'
  BY <1>30, CycleAssumption DEF CycleTypeOK, EngineTypeOK, StoreTypeOK, OwnCandidates, Places,
    PromotionGate, At, Goto, TryAppend, check_v2_promotion, disk
<1>31. CASE SwapActive(e)
  BY <1>31, CycleAssumption DEF CycleTypeOK, EngineTypeOK, StoreTypeOK, OwnCandidates, Places,
    SwapActive, At, Goto, history
<1>32. CASE SwapFailed(e)
  BY <1>32, CycleAssumption DEF CycleTypeOK, EngineTypeOK, StoreTypeOK, OwnCandidates, Places,
    SwapFailed, At, Goto, Fault, disk, history
<1>33. CASE AppendPromotion(e)
  BY <1>33, CycleAssumption DEF CycleTypeOK, EngineTypeOK, StoreTypeOK, OwnCandidates, Places,
    AppendPromotion, At, Goto, AppendOk, disk, history
<1>34. CASE PromotionNotAppended(e)
  BY <1>34, CycleAssumption DEF CycleTypeOK, EngineTypeOK, StoreTypeOK, OwnCandidates, Places,
    PromotionNotAppended, At, Goto, Fault, disk, history
<1>35. ASSUME NEW flag \in BOOLEAN, Ratify(e, flag)
      PROVE  StoreTypeOK'
  BY <1>35, CycleAssumption DEF CycleTypeOK, EngineTypeOK, StoreTypeOK, OwnCandidates, Places,
    Ratify, At, Goto, history
<1>36. CASE RatifyFailed(e)
  BY <1>36, CycleAssumption DEF CycleTypeOK, EngineTypeOK, StoreTypeOK, OwnCandidates, Places,
    RatifyFailed, At, Goto, Fault, history
<1>37. CASE CycleOk(e)
  BY <1>37, CycleAssumption DEF CycleTypeOK, EngineTypeOK, StoreTypeOK, OwnCandidates, Places,
    CycleOk, At, Idle, Locals
<1>38. CASE CycleErr(e)
  BY <1>38, CycleAssumption DEF CycleTypeOK, EngineTypeOK, StoreTypeOK, OwnCandidates, Places,
    CycleErr, At, history, Idle, Locals
<1>39. CASE SamplesLost(e)
  BY <1>39, CycleAssumption DEF CycleTypeOK, EngineTypeOK, StoreTypeOK, OwnCandidates, Places,
    SamplesLost, At, Fault, disk, Idle, Locals
<1>40. CASE Kill(e)
  BY <1>40, CycleAssumption DEF CycleTypeOK, EngineTypeOK, StoreTypeOK, OwnCandidates, Places,
    Kill, At, Fault, disk, history, Idle, Locals
<1>99. QED
  BY <1>1, <1>2, <1>3, <1>4, <1>5, <1>6, <1>7, <1>8, <1>9, <1>10, <1>11, <1>12, <1>13, <1>14,
    <1>15, <1>16, <1>17, <1>18, <1>19, <1>20, <1>21, <1>22, <1>23, <1>24, <1>25, <1>26, <1>27,
    <1>28, <1>29, <1>30, <1>31, <1>32, <1>33, <1>34, <1>35, <1>36, <1>37, <1>38, <1>39, <1>40 DEF
    Step

\* A step leaves every candidate with one engine: the next one taken is fresh.
LEMMA OwnStep ==
  ASSUME CycleTypeOK, NEW e \in Engines, Step(e)
  PROVE  OwnCandidates'
<1>1. CASE StartCycle(e)
  BY <1>1, CycleAssumption DEF CycleTypeOK, EngineTypeOK, StoreTypeOK, OwnCandidates, Places,
    StartCycle, At, disk, history, Locals
<1>2. CASE ObserveFailed(e)
  BY <1>2, CycleAssumption DEF CycleTypeOK, EngineTypeOK, StoreTypeOK, OwnCandidates, Places,
    ObserveFailed, At, history
<1>3. ASSUME NEW c \in Cands, NextCandidate(e, c)
      PROVE  OwnCandidates'
  BY <1>3, CycleAssumption DEF CycleTypeOK, EngineTypeOK, StoreTypeOK, OwnCandidates, Places,
    NextCandidate, At, disk, history
<1>4. CASE NoWinner(e)
  BY <1>4, CycleAssumption DEF CycleTypeOK, EngineTypeOK, StoreTypeOK, OwnCandidates, Places,
    NoWinner, At, disk, history
<1>5. CASE GatesRefuse(e)
  BY <1>5, CycleAssumption DEF CycleTypeOK, EngineTypeOK, StoreTypeOK, OwnCandidates, Places,
    GatesRefuse, At, Goto, TryAppend, Continue, disk, history
<1>6. ASSUME NEW flag \in BOOLEAN, GatesPass(e, flag)
      PROVE  OwnCandidates'
  BY <1>6, CycleAssumption DEF CycleTypeOK, EngineTypeOK, StoreTypeOK, OwnCandidates, Places,
    GatesPass, At, Goto, check_claim, disk
<1>7. CASE Exempt(e)
  BY <1>7, CycleAssumption DEF CycleTypeOK, EngineTypeOK, StoreTypeOK, OwnCandidates, Places,
    Exempt, At, disk
<1>8. CASE Ineligible(e)
  BY <1>8, CycleAssumption DEF CycleTypeOK, EngineTypeOK, StoreTypeOK, OwnCandidates, Places,
    Ineligible, At, TryAppend, disk, history
<1>9. CASE WorkloadRefused(e)
  BY <1>9, CycleAssumption DEF CycleTypeOK, EngineTypeOK, StoreTypeOK, OwnCandidates, Places,
    WorkloadRefused, At, Goto, TryAppend, disk, history
<1>10. CASE Eligible(e)
  BY <1>10, CycleAssumption DEF CycleTypeOK, EngineTypeOK, StoreTypeOK, OwnCandidates, Places,
    Eligible, At, history
<1>11. CASE BuildOk(e)
  BY <1>11, CycleAssumption DEF CycleTypeOK, EngineTypeOK, StoreTypeOK, OwnCandidates, Places,
    BuildOk, At, Goto, Uncopied
<1>12. CASE BuildFailed(e)
  BY <1>12, CycleAssumption DEF CycleTypeOK, EngineTypeOK, StoreTypeOK, OwnCandidates, Places,
    BuildFailed, At, Goto, TryAppend, Continue, disk, history
<1>13. CASE BuiltMissing(e)
  BY <1>13, CycleAssumption DEF CycleTypeOK, EngineTypeOK, StoreTypeOK, OwnCandidates, Places,
    BuiltMissing, At, TryAppend, disk, history
<1>14. CASE BuiltPresent(e)
  BY <1>14, CycleAssumption DEF CycleTypeOK, EngineTypeOK, StoreTypeOK, OwnCandidates, Places,
    BuiltPresent, At, Goto, disk, history
<1>15. CASE JudgeRefuses(e)
  BY <1>15, CycleAssumption DEF CycleTypeOK, EngineTypeOK, StoreTypeOK, OwnCandidates, Places,
    JudgeRefuses, At, Goto, TryAppend, Continue, disk, history
<1>16. ASSUME NEW r \in Receipts, NEW admitted \in BOOLEAN, JudgeAnswers(e, r, admitted)
      PROVE  OwnCandidates'
  BY <1>16, CycleAssumption DEF CycleTypeOK, EngineTypeOK, StoreTypeOK, OwnCandidates, Places,
    JudgeAnswers, At, Goto, AppendOk, disk
<1>17. CASE EvaluationNotAppended(e)
  BY <1>17, CycleAssumption DEF CycleTypeOK, EngineTypeOK, StoreTypeOK, OwnCandidates, Places,
    EvaluationNotAppended, At, Goto, Fault, disk, history
<1>18. CASE StageCanary(e)
  BY <1>18, CycleAssumption DEF CycleTypeOK, EngineTypeOK, StoreTypeOK, OwnCandidates, Places,
    StageCanary, At, Goto, disk, history
<1>19. CASE StageFailed(e)
  BY <1>19, CycleAssumption DEF CycleTypeOK, EngineTypeOK, StoreTypeOK, OwnCandidates, Places,
    StageFailed, At, Goto, Fault, disk, history
<1>20. CASE AdmitExempt(e)
  BY <1>20, CycleAssumption DEF CycleTypeOK, EngineTypeOK, StoreTypeOK, OwnCandidates, Places,
    AdmitExempt, At, Goto, disk, history
<1>21. CASE AdmitRefused(e)
  BY <1>21, CycleAssumption DEF CycleTypeOK, EngineTypeOK, StoreTypeOK, OwnCandidates, Places,
    AdmitRefused, At, Goto, disk, history
<1>22. CASE StageExecutable(e)
  BY <1>22, CycleAssumption DEF CycleTypeOK, EngineTypeOK, StoreTypeOK, OwnCandidates, Places,
    StageExecutable, At, Goto, history
<1>23. ASSUME NEW flag \in BOOLEAN, Collected(e, flag)
      PROVE  OwnCandidates'
  BY <1>23, CycleAssumption DEF CycleTypeOK, EngineTypeOK, StoreTypeOK, OwnCandidates, Places,
    Collected, At, disk, history
<1>24. CASE NotSealed(e)
  BY <1>24, CycleAssumption DEF CycleTypeOK, EngineTypeOK, StoreTypeOK, OwnCandidates, Places,
    NotSealed, At, Goto, disk, history
<1>25. CASE Commit(e)
  BY <1>25, CycleAssumption DEF CycleTypeOK, EngineTypeOK, StoreTypeOK, OwnCandidates, Places,
    Commit, At, Goto, AppendOk, disk, history
<1>26. CASE CommitFailed(e)
  BY <1>26, CycleAssumption DEF CycleTypeOK, EngineTypeOK, StoreTypeOK, OwnCandidates, Places,
    CommitFailed, At, Goto, Fault, disk, history
<1>27. CASE Quota(e)
  BY <1>27, CycleAssumption DEF CycleTypeOK, EngineTypeOK, StoreTypeOK, OwnCandidates, Places,
    Quota, At, Goto, disk
<1>28. CASE RollBack(e)
  BY <1>28, CycleAssumption DEF CycleTypeOK, EngineTypeOK, StoreTypeOK, OwnCandidates, Places,
    RollBack, At, Goto, TryAppend, disk
<1>29. ASSUME NEW flag \in BOOLEAN, Envelope(e, flag)
      PROVE  OwnCandidates'
  BY <1>29, CycleAssumption DEF CycleTypeOK, EngineTypeOK, StoreTypeOK, OwnCandidates, Places,
    Envelope, At, Goto, disk
<1>30. ASSUME NEW same \in BOOLEAN, NEW holds \in BOOLEAN, PromotionGate(e, same, holds)
      PROVE  OwnCandidates'
  BY <1>30, CycleAssumption DEF CycleTypeOK, EngineTypeOK, StoreTypeOK, OwnCandidates, Places,
    PromotionGate, At, Goto, TryAppend, check_v2_promotion, disk
<1>31. CASE SwapActive(e)
  BY <1>31, CycleAssumption DEF CycleTypeOK, EngineTypeOK, StoreTypeOK, OwnCandidates, Places,
    SwapActive, At, Goto, history
<1>32. CASE SwapFailed(e)
  BY <1>32, CycleAssumption DEF CycleTypeOK, EngineTypeOK, StoreTypeOK, OwnCandidates, Places,
    SwapFailed, At, Goto, Fault, disk, history
<1>33. CASE AppendPromotion(e)
  BY <1>33, CycleAssumption DEF CycleTypeOK, EngineTypeOK, StoreTypeOK, OwnCandidates, Places,
    AppendPromotion, At, Goto, AppendOk, disk, history
<1>34. CASE PromotionNotAppended(e)
  BY <1>34, CycleAssumption DEF CycleTypeOK, EngineTypeOK, StoreTypeOK, OwnCandidates, Places,
    PromotionNotAppended, At, Goto, Fault, disk, history
<1>35. ASSUME NEW flag \in BOOLEAN, Ratify(e, flag)
      PROVE  OwnCandidates'
  BY <1>35, CycleAssumption DEF CycleTypeOK, EngineTypeOK, StoreTypeOK, OwnCandidates, Places,
    Ratify, At, Goto, history
<1>36. CASE RatifyFailed(e)
  BY <1>36, CycleAssumption DEF CycleTypeOK, EngineTypeOK, StoreTypeOK, OwnCandidates, Places,
    RatifyFailed, At, Goto, Fault, history
<1>37. CASE CycleOk(e)
  BY <1>37, CycleAssumption DEF CycleTypeOK, EngineTypeOK, StoreTypeOK, OwnCandidates, Places,
    CycleOk, At, Idle, Locals
<1>38. CASE CycleErr(e)
  BY <1>38, CycleAssumption DEF CycleTypeOK, EngineTypeOK, StoreTypeOK, OwnCandidates, Places,
    CycleErr, At, history, Idle, Locals
<1>39. CASE SamplesLost(e)
  BY <1>39, CycleAssumption DEF CycleTypeOK, EngineTypeOK, StoreTypeOK, OwnCandidates, Places,
    SamplesLost, At, Fault, disk, Idle, Locals
<1>40. CASE Kill(e)
  BY <1>40, CycleAssumption DEF CycleTypeOK, EngineTypeOK, StoreTypeOK, OwnCandidates, Places,
    Kill, At, Fault, disk, history, Idle, Locals
<1>99. QED
  BY <1>1, <1>2, <1>3, <1>4, <1>5, <1>6, <1>7, <1>8, <1>9, <1>10, <1>11, <1>12, <1>13, <1>14,
    <1>15, <1>16, <1>17, <1>18, <1>19, <1>20, <1>21, <1>22, <1>23, <1>24, <1>25, <1>26, <1>27,
    <1>28, <1>29, <1>30, <1>31, <1>32, <1>33, <1>34, <1>35, <1>36, <1>37, <1>38, <1>39, <1>40 DEF
    Step

LEMMA TypeInit == CycleInit => CycleTypeOK
<1>1. CycleInit => EngineTypeOK
  BY DEF CycleInit, EngineTypeOK, Idle, Locals, Places
<1>2. CycleInit => StoreTypeOK
  BY DEF CycleInit, StoreTypeOK
<1>3. CycleInit => OwnCandidates
  <2>1. Idle.pc = "idle" /\ Idle.cand = NoCand
    BY DEF Idle, Locals
  <2>2. QED
    BY <2>1 DEF CycleInit, OwnCandidates
<1>4. QED
  BY <1>1, <1>2, <1>3 DEF CycleTypeOK

LEMMA TypeStep == CycleTypeOK /\ [CycleNext]_cycleVars => CycleTypeOK'
<1> SUFFICES ASSUME CycleTypeOK, [CycleNext]_cycleVars
             PROVE  CycleTypeOK'
  OBVIOUS
<1>1. ASSUME NEW e \in Engines, Step(e) PROVE CycleTypeOK'
  BY <1>1, EngineStep, StoreStep, OwnStep DEF CycleTypeOK
<1>2. CASE UNCHANGED cycleVars
  BY <1>2 DEF cycleVars, CycleTypeOK, EngineTypeOK, StoreTypeOK, OwnCandidates
<1>3. QED
  BY <1>1, <1>2 DEF CycleNext, Terminated

\* The locals of every engine, the shared state and the history keep their types,
\* and no two engines ever work on one candidate.
THEOREM CycleTypeCorrect == CycleSpec => []CycleTypeOK
  BY TypeInit, TypeStep, PTL DEF CycleSpec


-----------------------------------------------------------------------------
(* Promotion. *)

\* Places where an engine still decides about its candidate.
Deciding == Places \ {"idle", "propose", "wrap", "failed"}

\* What an engine has behind it at each place.
EarnedSoFar(e) ==
  LET c == eng[e].cand IN
    /\ eng[e].pc \in Deciding => c \notin rolled
    /\ eng[e].pc \in Deciding \ {"promote", "ratify"} => c # active
    /\ eng[e].pc \in Deciding \ {"gates", "eligibility", "build", "built", "judge"} =>
         <<"evaluation", c>> \in ledger /\ judged[c] = eng[e].receipt
    /\ eng[e].pc \in {"build", "built", "judge", "stage", "admit"} /\ eng[e].mode = "exempt" =>
         c \in exempt
    /\ eng[e].pc = "quota" => <<"commitment", c>> \in ledger
    /\ eng[e].pc \in {"envelope", "gate", "swap", "promote", "ratify"} /\ c \notin exempt =>
         <<"commitment", c>> \in ledger /\ <<"quota", c>> \in passed
    /\ eng[e].pc \in {"gate", "swap", "promote", "ratify"} => <<"envelope", c>> \in passed
    /\ eng[e].pc \in {"swap", "promote", "ratify"} =>
         <<"gate", c>> \in passed /\ eng[e].receipt = "separate_v2"
    /\ eng[e].pc = "ratify" => <<"promotion", c>> \in ledger

\* What is rolled back or active was proposed, so a fresh candidate is neither.
OnlyProposed == rolled \subseteq used /\ active \in used \union {NoCand}

\* The inductive invariant.
PromotionInv ==
  /\ CycleTypeOK
  /\ OnlyProposed
  /\ \A e \in Engines : EarnedSoFar(e)
  /\ PromotionEarned
  /\ ReviewIsRecorded

\* Cycles are counted when they return, claims are made by engines with a measured
\* diagnosis, and a diagnosis is taken from the log of complete cycles.
ClaimEffects(e) ==
  /\ \/ UNCHANGED <<complete, finished>>
     \/ finished' = finished + 1 /\ complete' \in {complete, complete + 1}
  /\ \/ claims' = claims
     \/ eng[e].measured /\ claims' = claims \union {<<eng[e].cand, finished>>}
  /\ eng'[e].measured => eng[e].measured \/ complete >= MinSamples

\* An engine whose canary will run the executable that is in the output root.
Waiting(e) == eng[e].mode = "eligible" /\ eng[e].pc \in {"build", "built", "judge", "stage", "admit"}

\* The executable is removed when the wait begins, replaced by builds only, and copied
\* for the engine's own candidate at the end of the wait.
BuildEffects(e) ==
  /\ mixed \subseteq mixed'
  /\ \/ exe' \in {exe, NoCand}
     \/ exe' = eng[e].cand /\ mixed' = mixed \union Uncopied(e)
  /\ \/ staged' = staged
     \/ Waiting(e) /\ exe # NoCand /\ staged' = [staged EXCEPT ![eng[e].cand] = exe]
  /\ Waiting(e)' => eng'[e].cand = eng[e].cand /\ (Waiting(e) \/ exe' = NoCand)

\* The ledger, the passed gates and the exemptions only grow; what else a step
\* writes is about its own candidate, at the place that writes it.
StepEffects(e) ==
  /\ \A f \in Engines \ {e} : eng'[f] = eng[f]
  /\ used \subseteq used' /\ ledger \subseteq ledger' /\ passed \subseteq passed' /\ exempt \subseteq exempt'
  /\ judged' = judged \/ (eng[e].pc = "judge" /\ (\A c \in Cands \ {eng[e].cand} : judged'[c] = judged[c]))
  /\ rolled' = rolled \/ (eng[e].pc = "rollback" /\ rolled' = rolled \union {eng[e].cand})
  /\ active' = active \/ (eng[e].pc = "swap" /\ active' = eng[e].cand)
  /\ branches' = branches \/ (eng[e].pc = "ratify" /\ branches' = branches \union {eng[e].cand})
  /\ ClaimEffects(e) /\ BuildEffects(e)


\* What a step may do to the state other engines rely on.
LEMMA EffectsStep ==
  ASSUME EngineTypeOK, StoreTypeOK, NEW e \in Engines, Step(e)
  PROVE  StepEffects(e)
<1>1. CASE StartCycle(e)
  BY <1>1 DEF EngineTypeOK, StoreTypeOK, StepEffects, ClaimEffects, BuildEffects, Waiting, StartCycle, At, disk, history, Locals
<1>2. CASE ObserveFailed(e)
  BY <1>2 DEF EngineTypeOK, StoreTypeOK, StepEffects, ClaimEffects, BuildEffects, Waiting, ObserveFailed, At, history
<1>3. ASSUME NEW c \in Cands, NextCandidate(e, c)
      PROVE  StepEffects(e)
  BY <1>3 DEF EngineTypeOK, StoreTypeOK, StepEffects, ClaimEffects, BuildEffects, Waiting, NextCandidate, At, disk, history
<1>4. CASE NoWinner(e)
  BY <1>4 DEF EngineTypeOK, StoreTypeOK, StepEffects, ClaimEffects, BuildEffects, Waiting, NoWinner, At, disk, history
<1>5. CASE GatesRefuse(e)
  BY <1>5 DEF EngineTypeOK, StoreTypeOK, StepEffects, ClaimEffects, BuildEffects, Waiting, GatesRefuse, At, Goto, TryAppend, Continue,
    disk, history
<1>6. ASSUME NEW flag \in BOOLEAN, GatesPass(e, flag)
      PROVE  StepEffects(e)
  BY <1>6 DEF EngineTypeOK, StoreTypeOK, StepEffects, ClaimEffects, BuildEffects, Waiting, GatesPass, At, Goto, check_claim, disk
<1>7. CASE Exempt(e)
  BY <1>7 DEF EngineTypeOK, StoreTypeOK, StepEffects, ClaimEffects, BuildEffects, Waiting, Exempt, At, disk
<1>8. CASE Ineligible(e)
  BY <1>8 DEF EngineTypeOK, StoreTypeOK, StepEffects, ClaimEffects, BuildEffects, Waiting, Ineligible, At, TryAppend, disk, history
<1>9. CASE WorkloadRefused(e)
  BY <1>9 DEF EngineTypeOK, StoreTypeOK, StepEffects, ClaimEffects, BuildEffects, Waiting, WorkloadRefused, At, Goto, TryAppend, disk,
    history
<1>10. CASE Eligible(e)
  BY <1>10 DEF EngineTypeOK, StoreTypeOK, StepEffects, ClaimEffects, BuildEffects, Waiting, Eligible, At, history
<1>11. CASE BuildOk(e)
  BY <1>11 DEF EngineTypeOK, StoreTypeOK, StepEffects, ClaimEffects, BuildEffects, Waiting, BuildOk, At, Goto, Uncopied
<1>12. CASE BuildFailed(e)
  BY <1>12 DEF EngineTypeOK, StoreTypeOK, StepEffects, ClaimEffects, BuildEffects, Waiting, BuildFailed, At, Goto, TryAppend, Continue,
    disk, history
<1>13. CASE BuiltMissing(e)
  BY <1>13 DEF EngineTypeOK, StoreTypeOK, StepEffects, ClaimEffects, BuildEffects, Waiting, BuiltMissing, At, TryAppend, disk, history
<1>14. CASE BuiltPresent(e)
  BY <1>14 DEF EngineTypeOK, StoreTypeOK, StepEffects, ClaimEffects, BuildEffects, Waiting, BuiltPresent, At, Goto, disk, history
<1>15. CASE JudgeRefuses(e)
  BY <1>15 DEF EngineTypeOK, StoreTypeOK, StepEffects, ClaimEffects, BuildEffects, Waiting, JudgeRefuses, At, Goto, TryAppend,
    Continue, disk, history
<1>16. ASSUME NEW r \in Receipts, NEW admitted \in BOOLEAN, JudgeAnswers(e, r, admitted)
      PROVE  StepEffects(e)
  BY <1>16 DEF EngineTypeOK, StoreTypeOK, StepEffects, ClaimEffects, BuildEffects, Waiting, JudgeAnswers, At, Goto, AppendOk, disk
<1>17. CASE EvaluationNotAppended(e)
  BY <1>17 DEF EngineTypeOK, StoreTypeOK, StepEffects, ClaimEffects, BuildEffects, Waiting, EvaluationNotAppended, At, Goto, Fault,
    disk, history
<1>18. CASE StageCanary(e)
  BY <1>18 DEF EngineTypeOK, StoreTypeOK, StepEffects, ClaimEffects, BuildEffects, Waiting, StageCanary, At, Goto, disk, history
<1>19. CASE StageFailed(e)
  BY <1>19 DEF EngineTypeOK, StoreTypeOK, StepEffects, ClaimEffects, BuildEffects, Waiting, StageFailed, At, Goto, Fault, disk, history
<1>20. CASE AdmitExempt(e)
  BY <1>20 DEF EngineTypeOK, StoreTypeOK, StepEffects, ClaimEffects, BuildEffects, Waiting, AdmitExempt, At, Goto, disk, history
<1>21. CASE AdmitRefused(e)
  BY <1>21 DEF EngineTypeOK, StoreTypeOK, StepEffects, ClaimEffects, BuildEffects, Waiting, AdmitRefused, At, Goto, disk, history
<1>22. CASE StageExecutable(e)
  BY <1>22 DEF EngineTypeOK, StoreTypeOK, StepEffects, ClaimEffects, BuildEffects, Waiting, StageExecutable, At, Goto, history
<1>23. ASSUME NEW flag \in BOOLEAN, Collected(e, flag)
      PROVE  StepEffects(e)
  BY <1>23 DEF EngineTypeOK, StoreTypeOK, StepEffects, ClaimEffects, BuildEffects, Waiting, Collected, At, disk, history
<1>24. CASE NotSealed(e)
  BY <1>24 DEF EngineTypeOK, StoreTypeOK, StepEffects, ClaimEffects, BuildEffects, Waiting, NotSealed, At, Goto, disk, history
<1>25. CASE Commit(e)
  BY <1>25 DEF EngineTypeOK, StoreTypeOK, StepEffects, ClaimEffects, BuildEffects, Waiting, Commit, At, Goto, AppendOk, disk, history
<1>26. CASE CommitFailed(e)
  BY <1>26 DEF EngineTypeOK, StoreTypeOK, StepEffects, ClaimEffects, BuildEffects, Waiting, CommitFailed, At, Goto, Fault, disk,
    history
<1>27. CASE Quota(e)
  BY <1>27 DEF EngineTypeOK, StoreTypeOK, StepEffects, ClaimEffects, BuildEffects, Waiting, Quota, At, Goto, disk
<1>28. CASE RollBack(e)
  BY <1>28 DEF EngineTypeOK, StoreTypeOK, StepEffects, ClaimEffects, BuildEffects, Waiting, RollBack, At, Goto, TryAppend, disk
<1>29. ASSUME NEW flag \in BOOLEAN, Envelope(e, flag)
      PROVE  StepEffects(e)
  BY <1>29 DEF EngineTypeOK, StoreTypeOK, StepEffects, ClaimEffects, BuildEffects, Waiting, Envelope, At, Goto, disk
<1>30. ASSUME NEW same \in BOOLEAN, NEW holds \in BOOLEAN, PromotionGate(e, same, holds)
      PROVE  StepEffects(e)
  BY <1>30 DEF EngineTypeOK, StoreTypeOK, StepEffects, ClaimEffects, BuildEffects, Waiting, PromotionGate, At, Goto, TryAppend,
    check_v2_promotion, disk
<1>31. CASE SwapActive(e)
  BY <1>31 DEF EngineTypeOK, StoreTypeOK, StepEffects, ClaimEffects, BuildEffects, Waiting, SwapActive, At, Goto, history
<1>32. CASE SwapFailed(e)
  BY <1>32 DEF EngineTypeOK, StoreTypeOK, StepEffects, ClaimEffects, BuildEffects, Waiting, SwapFailed, At, Goto, Fault, disk, history
<1>33. CASE AppendPromotion(e)
  BY <1>33 DEF EngineTypeOK, StoreTypeOK, StepEffects, ClaimEffects, BuildEffects, Waiting, AppendPromotion, At, Goto, AppendOk, disk,
    history
<1>34. CASE PromotionNotAppended(e)
  BY <1>34 DEF EngineTypeOK, StoreTypeOK, StepEffects, ClaimEffects, BuildEffects, Waiting, PromotionNotAppended, At, Goto, Fault,
    disk, history
<1>35. ASSUME NEW flag \in BOOLEAN, Ratify(e, flag)
      PROVE  StepEffects(e)
  BY <1>35 DEF EngineTypeOK, StoreTypeOK, StepEffects, ClaimEffects, BuildEffects, Waiting, Ratify, At, Goto, history
<1>36. CASE RatifyFailed(e)
  BY <1>36 DEF EngineTypeOK, StoreTypeOK, StepEffects, ClaimEffects, BuildEffects, Waiting, RatifyFailed, At, Goto, Fault, history
<1>37. CASE CycleOk(e)
  BY <1>37 DEF EngineTypeOK, StoreTypeOK, StepEffects, ClaimEffects, BuildEffects, Waiting, CycleOk, At, Idle, Locals
<1>38. CASE CycleErr(e)
  BY <1>38 DEF EngineTypeOK, StoreTypeOK, StepEffects, ClaimEffects, BuildEffects, Waiting, CycleErr, At, history, Idle, Locals
<1>39. CASE SamplesLost(e)
  BY <1>39 DEF EngineTypeOK, StoreTypeOK, StepEffects, ClaimEffects, BuildEffects, Waiting, SamplesLost, At, Fault, disk, Idle, Locals
<1>40. CASE Kill(e)
  BY <1>40 DEF EngineTypeOK, StoreTypeOK, StepEffects, ClaimEffects, BuildEffects, Waiting, Kill, At, Fault, disk, history, Idle,
    Locals
<1>99. QED
  BY <1>1, <1>2, <1>3, <1>4, <1>5, <1>6, <1>7, <1>8, <1>9, <1>10, <1>11, <1>12, <1>13, <1>14,
    <1>15, <1>16, <1>17, <1>18, <1>19, <1>20, <1>21, <1>22, <1>23, <1>24, <1>25, <1>26, <1>27,
    <1>28, <1>29, <1>30, <1>31, <1>32, <1>33, <1>34, <1>35, <1>36, <1>37, <1>38, <1>39, <1>40 DEF
    Step

\* A step of an engine leaves it with what its new place stands for.
LEMMA EarnedByStep ==
  ASSUME PromotionInv, NEW e \in Engines, Step(e)
  PROVE  EarnedSoFar(e)'
<1>0. /\ EngineTypeOK /\ StoreTypeOK /\ OwnCandidates /\ OnlyProposed
      /\ EarnedSoFar(e)
  BY DEF PromotionInv, CycleTypeOK
<1>1. CASE StartCycle(e)
  BY <1>1, <1>0 DEF EngineTypeOK, StoreTypeOK, EarnedSoFar, Deciding, Places, StartCycle, At,
    disk, history, Locals
<1>2. CASE ObserveFailed(e)
  BY <1>2, <1>0 DEF EngineTypeOK, StoreTypeOK, EarnedSoFar, Deciding, Places, ObserveFailed, At,
    history
<1>3. ASSUME NEW c \in Cands, NextCandidate(e, c)
      PROVE  EarnedSoFar(e)'
  <2>1. eng'[e].pc = "gates" /\ eng'[e].cand = c
    BY <1>3, <1>0 DEF NextCandidate, EngineTypeOK
  <2>2. c \notin rolled /\ c # active /\ rolled' = rolled /\ active' = active
    BY <1>3, <1>0, CycleAssumption DEF NextCandidate, OnlyProposed, disk, history
  <2>3. QED
    BY <2>1, <2>2 DEF EarnedSoFar, Deciding, Places
<1>4. CASE NoWinner(e)
  BY <1>4, <1>0 DEF EngineTypeOK, StoreTypeOK, EarnedSoFar, Deciding, Places, NoWinner, At, disk,
    history
<1>5. CASE GatesRefuse(e)
  BY <1>5, <1>0 DEF EngineTypeOK, StoreTypeOK, EarnedSoFar, Deciding, Places, GatesRefuse, At,
    Goto, TryAppend, Continue, disk, history
<1>6. ASSUME NEW flag \in BOOLEAN, GatesPass(e, flag)
      PROVE  EarnedSoFar(e)'
  <2>1. eng[e].pc = "gates" /\ eng'[e].pc = "eligibility" /\ eng'[e].cand = eng[e].cand
    BY <1>6, <1>0 DEF EngineTypeOK, GatesPass, At, Goto, check_claim, disk
  <2>2. QED
    BY <1>6, <1>0, <2>1 DEF StoreTypeOK, EarnedSoFar, Deciding, Places, GatesPass, At, Goto,
      check_claim, disk
<1>7. CASE Exempt(e)
  <2>1. /\ eng[e].pc = "eligibility" /\ eng'[e].pc = "judge" /\ eng'[e].cand = eng[e].cand
        /\ eng'[e].mode = "exempt"
    BY <1>7, <1>0 DEF EngineTypeOK, Exempt, At, disk
  <2>2. QED
    BY <1>7, <1>0, <2>1 DEF StoreTypeOK, EarnedSoFar, Deciding, Places, Exempt, At, disk
<1>8. CASE Ineligible(e)
  <2>1. /\ eng[e].pc = "eligibility" /\ eng'[e].pc \in {"build", "judge"} /\ eng'[e].cand = eng[e].cand
        /\ eng'[e].mode = "refused"
    BY <1>8, <1>0 DEF EngineTypeOK, Ineligible, At, TryAppend, disk, history
  <2>2. QED
    BY <1>8, <1>0, <2>1 DEF StoreTypeOK, EarnedSoFar, Deciding, Places, Ineligible, At, TryAppend,
      disk, history
<1>9. CASE WorkloadRefused(e)
  BY <1>9, <1>0 DEF EngineTypeOK, StoreTypeOK, EarnedSoFar, Deciding, Places, WorkloadRefused, At,
    Goto, TryAppend, disk, history
<1>10. CASE Eligible(e)
  <2>1. /\ eng[e].pc = "eligibility" /\ eng'[e].pc = "build" /\ eng'[e].cand = eng[e].cand
        /\ eng'[e].mode = "eligible"
    BY <1>10, <1>0 DEF EngineTypeOK, Eligible, At, history
  <2>2. QED
    BY <1>10, <1>0, <2>1 DEF StoreTypeOK, EarnedSoFar, Deciding, Places, Eligible, At, history
<1>11. CASE BuildOk(e)
  <2>1. /\ eng[e].pc = "build" /\ eng'[e].pc = "built" /\ eng'[e].cand = eng[e].cand
        /\ eng'[e].mode = eng[e].mode
    BY <1>11, <1>0 DEF EngineTypeOK, BuildOk, At, Goto, Uncopied
  <2>2. QED
    BY <1>11, <1>0, <2>1 DEF StoreTypeOK, EarnedSoFar, Deciding, Places, BuildOk, At, Goto,
      Uncopied
<1>12. CASE BuildFailed(e)
  BY <1>12, <1>0 DEF EngineTypeOK, StoreTypeOK, EarnedSoFar, Deciding, Places, BuildFailed, At,
    Goto, TryAppend, Continue, disk, history
<1>13. CASE BuiltMissing(e)
  <2>1. /\ eng[e].pc = "built" /\ eng'[e].pc = "judge" /\ eng'[e].cand = eng[e].cand
        /\ eng'[e].mode = "refused"
    BY <1>13, <1>0 DEF EngineTypeOK, BuiltMissing, At, TryAppend, disk, history
  <2>2. QED
    BY <1>13, <1>0, <2>1 DEF StoreTypeOK, EarnedSoFar, Deciding, Places, BuiltMissing, At,
      TryAppend, disk, history
<1>14. CASE BuiltPresent(e)
  <2>1. /\ eng[e].pc = "built" /\ eng'[e].pc = "judge" /\ eng'[e].cand = eng[e].cand
        /\ eng'[e].mode = eng[e].mode
    BY <1>14, <1>0 DEF EngineTypeOK, BuiltPresent, At, Goto, disk, history
  <2>2. QED
    BY <1>14, <1>0, <2>1 DEF StoreTypeOK, EarnedSoFar, Deciding, Places, BuiltPresent, At, Goto,
      disk, history
<1>15. CASE JudgeRefuses(e)
  BY <1>15, <1>0 DEF EngineTypeOK, StoreTypeOK, EarnedSoFar, Deciding, Places, JudgeRefuses, At,
    Goto, TryAppend, Continue, disk, history
<1>16. ASSUME NEW r \in Receipts, NEW admitted \in BOOLEAN, JudgeAnswers(e, r, admitted)
      PROVE  EarnedSoFar(e)'
  <2>1. /\ eng[e].pc = "judge" /\ eng'[e].cand = eng[e].cand
        /\ \/ eng'[e].pc = "propose"
           \/ /\ eng'[e].pc = "stage" /\ eng'[e].mode = eng[e].mode /\ eng'[e].receipt = r
              /\ judged' = [judged EXCEPT ![eng[e].cand] = r]
    BY <1>16, <1>0 DEF JudgeAnswers, At, Goto, EngineTypeOK
  <2>2. eng[e].cand \in Cands
    BY <1>0, <2>1 DEF EngineTypeOK, OwnCandidates
  <2>3. QED
    BY <1>16, <1>0, <2>1, <2>2
    DEF JudgeAnswers, AppendOk, StoreTypeOK, EarnedSoFar, Deciding, Places, disk
<1>17. CASE EvaluationNotAppended(e)
  BY <1>17, <1>0 DEF EngineTypeOK, StoreTypeOK, EarnedSoFar, Deciding, Places,
    EvaluationNotAppended, At, Goto, Fault, disk, history
<1>18. CASE StageCanary(e)
  <2>1. /\ eng[e].pc = "stage" /\ eng'[e].pc = "admit" /\ eng'[e].cand = eng[e].cand
        /\ eng'[e].receipt = eng[e].receipt /\ eng'[e].mode = eng[e].mode
    BY <1>18, <1>0 DEF EngineTypeOK, StageCanary, At, Goto, disk, history
  <2>2. QED
    BY <1>18, <1>0, <2>1 DEF StoreTypeOK, EarnedSoFar, Deciding, Places, StageCanary, At, Goto,
      disk, history
<1>19. CASE StageFailed(e)
  BY <1>19, <1>0 DEF EngineTypeOK, StoreTypeOK, EarnedSoFar, Deciding, Places, StageFailed, At,
    Goto, Fault, disk, history
<1>20. CASE AdmitExempt(e)
  <2>1. /\ eng[e].pc = "admit" /\ eng'[e].pc = "envelope" /\ eng'[e].cand = eng[e].cand
        /\ eng'[e].receipt = eng[e].receipt /\ eng'[e].mode = eng[e].mode
    BY <1>20, <1>0 DEF EngineTypeOK, AdmitExempt, At, Goto, disk, history
  <2>2. QED
    BY <1>20, <1>0, <2>1 DEF StoreTypeOK, EarnedSoFar, Deciding, Places, AdmitExempt, At, Goto,
      disk, history
<1>21. CASE AdmitRefused(e)
  <2>1. /\ eng[e].pc = "admit" /\ eng'[e].pc = "rollback" /\ eng'[e].cand = eng[e].cand
        /\ eng'[e].receipt = eng[e].receipt
    BY <1>21, <1>0 DEF EngineTypeOK, AdmitRefused, At, Goto, disk, history
  <2>2. QED
    BY <1>21, <1>0, <2>1 DEF StoreTypeOK, EarnedSoFar, Deciding, Places, AdmitRefused, At, Goto,
      disk, history
<1>22. CASE StageExecutable(e)
  <2>1. /\ eng[e].pc = "admit" /\ eng'[e].pc = "collect" /\ eng'[e].cand = eng[e].cand
        /\ eng'[e].receipt = eng[e].receipt
    BY <1>22, <1>0 DEF EngineTypeOK, StageExecutable, At, Goto, history
  <2>2. QED
    BY <1>22, <1>0, <2>1 DEF StoreTypeOK, EarnedSoFar, Deciding, Places, StageExecutable, At,
      Goto, history
<1>23. ASSUME NEW flag \in BOOLEAN, Collected(e, flag)
      PROVE  EarnedSoFar(e)'
  <2>1. /\ eng[e].pc = "collect" /\ eng'[e].pc = "commit" /\ eng'[e].cand = eng[e].cand
        /\ eng'[e].receipt = eng[e].receipt
    BY <1>23, <1>0 DEF Collected, At, EngineTypeOK
  <2>2. UNCHANGED <<ledger, judged, passed, exempt, rolled, active>>
    BY <1>23 DEF Collected, disk, history
  <2>3. QED
    BY <1>0, <2>1, <2>2 DEF EarnedSoFar, Deciding, Places
<1>24. CASE NotSealed(e)
  <2>1. /\ eng[e].pc = "collect" /\ eng'[e].pc = "rollback" /\ eng'[e].cand = eng[e].cand
        /\ eng'[e].receipt = eng[e].receipt
    BY <1>24, <1>0 DEF EngineTypeOK, NotSealed, At, Goto, disk, history
  <2>2. QED
    BY <1>24, <1>0, <2>1 DEF StoreTypeOK, EarnedSoFar, Deciding, Places, NotSealed, At, Goto,
      disk, history
<1>25. CASE Commit(e)
  <2>1. /\ eng[e].pc = "commit" /\ eng'[e].pc = "quota" /\ eng'[e].cand = eng[e].cand
        /\ eng'[e].receipt = eng[e].receipt
    BY <1>25, <1>0 DEF EngineTypeOK, Commit, At, Goto, AppendOk, disk, history
  <2>2. QED
    BY <1>25, <1>0, <2>1 DEF StoreTypeOK, EarnedSoFar, Deciding, Places, Commit, At, Goto,
      AppendOk, disk, history
<1>26. CASE CommitFailed(e)
  <2>1. /\ eng[e].pc = "commit" /\ eng'[e].pc = "rollback" /\ eng'[e].cand = eng[e].cand
        /\ eng'[e].receipt = eng[e].receipt
    BY <1>26, <1>0 DEF EngineTypeOK, CommitFailed, At, Goto, Fault, disk, history
  <2>2. QED
    BY <1>26, <1>0, <2>1 DEF StoreTypeOK, EarnedSoFar, Deciding, Places, CommitFailed, At, Goto,
      Fault, disk, history
<1>27. CASE Quota(e)
  <2>1. /\ eng[e].pc = "quota" /\ eng'[e].pc \in {"envelope", "rollback"}
        /\ eng'[e].cand = eng[e].cand /\ eng'[e].receipt = eng[e].receipt
    BY <1>27, <1>0 DEF Quota, At, Goto, EngineTypeOK
  <2>2. CASE eng'[e].pc = "rollback"
    BY <1>27, <1>0, <2>1, <2>2 DEF Quota, Goto, EarnedSoFar, Deciding, Places, disk
  <2>3. CASE eng'[e].pc = "envelope"
    BY <1>27, <1>0, <2>1, <2>3 DEF Quota, Goto, EarnedSoFar, Deciding, Places, disk,
                               EngineTypeOK
  <2>4. QED
    BY <2>1, <2>2, <2>3
<1>28. CASE RollBack(e)
  BY <1>28, <1>0 DEF EngineTypeOK, StoreTypeOK, EarnedSoFar, Deciding, Places, RollBack, At, Goto,
    TryAppend, disk
<1>29. ASSUME NEW flag \in BOOLEAN, Envelope(e, flag)
      PROVE  EarnedSoFar(e)'
  <2>1. /\ eng[e].pc = "envelope" /\ eng'[e].pc \in {"gate", "rollback"}
        /\ eng'[e].cand = eng[e].cand /\ eng'[e].receipt = eng[e].receipt
    BY <1>29, <1>0 DEF Envelope, At, Goto, EngineTypeOK
  <2>2. CASE eng'[e].pc = "rollback"
    BY <1>29, <1>0, <2>1, <2>2 DEF Envelope, Goto, EarnedSoFar, Deciding, Places, disk
  <2>3. CASE eng'[e].pc = "gate"
    BY <1>29, <1>0, <2>1, <2>3 DEF Envelope, Goto, EarnedSoFar, Deciding, Places, disk,
                               EngineTypeOK
  <2>4. QED
    BY <2>1, <2>2, <2>3
<1>30. ASSUME NEW same \in BOOLEAN, NEW holds \in BOOLEAN, PromotionGate(e, same, holds)
      PROVE  EarnedSoFar(e)'
  <2>1. /\ eng[e].pc = "gate" /\ eng'[e].pc \in {"swap", "rollback"}
        /\ eng'[e].cand = eng[e].cand /\ eng'[e].receipt = eng[e].receipt
    BY <1>30, <1>0 DEF PromotionGate, At, Goto, EngineTypeOK
  <2>2. CASE eng'[e].pc = "rollback"
    BY <1>30, <1>0, <2>1, <2>2 DEF PromotionGate, Goto, check_v2_promotion, TryAppend, EarnedSoFar, Deciding, Places, disk
  <2>3. CASE eng'[e].pc = "swap"
    BY <1>30, <1>0, <2>1, <2>3 DEF PromotionGate, Goto, check_v2_promotion, TryAppend, EarnedSoFar, Deciding, Places, disk,
                               EngineTypeOK
  <2>4. QED
    BY <2>1, <2>2, <2>3
<1>31. CASE SwapActive(e)
  <2>1. /\ eng[e].pc = "swap" /\ eng'[e].pc = "promote" /\ eng'[e].cand = eng[e].cand
        /\ eng'[e].receipt = eng[e].receipt
    BY <1>31, <1>0 DEF EngineTypeOK, SwapActive, At, Goto, history
  <2>2. QED
    BY <1>31, <1>0, <2>1 DEF StoreTypeOK, EarnedSoFar, Deciding, Places, SwapActive, At, Goto,
      history
<1>32. CASE SwapFailed(e)
  BY <1>32, <1>0 DEF EngineTypeOK, StoreTypeOK, EarnedSoFar, Deciding, Places, SwapFailed, At,
    Goto, Fault, disk, history
<1>33. CASE AppendPromotion(e)
  <2>1. /\ eng[e].pc = "promote" /\ eng'[e].pc = "ratify" /\ eng'[e].cand = eng[e].cand
        /\ eng'[e].receipt = eng[e].receipt
    BY <1>33, <1>0 DEF EngineTypeOK, AppendPromotion, At, Goto, AppendOk, disk, history
  <2>2. QED
    BY <1>33, <1>0, <2>1 DEF StoreTypeOK, EarnedSoFar, Deciding, Places, AppendPromotion, At,
      Goto, AppendOk, disk, history
<1>34. CASE PromotionNotAppended(e)
  BY <1>34, <1>0 DEF EngineTypeOK, StoreTypeOK, EarnedSoFar, Deciding, Places,
    PromotionNotAppended, At, Goto, Fault, disk, history
<1>35. ASSUME NEW flag \in BOOLEAN, Ratify(e, flag)
      PROVE  EarnedSoFar(e)'
  BY <1>35, <1>0 DEF EngineTypeOK, StoreTypeOK, EarnedSoFar, Deciding, Places, Ratify, At, Goto,
    history
<1>36. CASE RatifyFailed(e)
  BY <1>36, <1>0 DEF EngineTypeOK, StoreTypeOK, EarnedSoFar, Deciding, Places, RatifyFailed, At,
    Goto, Fault, history
<1>37. CASE CycleOk(e)
  BY <1>37, <1>0 DEF EngineTypeOK, StoreTypeOK, EarnedSoFar, Deciding, Places, CycleOk, At, Idle,
    Locals
<1>38. CASE CycleErr(e)
  BY <1>38, <1>0 DEF EngineTypeOK, StoreTypeOK, EarnedSoFar, Deciding, Places, CycleErr, At,
    history, Idle, Locals
<1>39. CASE SamplesLost(e)
  BY <1>39, <1>0 DEF EngineTypeOK, StoreTypeOK, EarnedSoFar, Deciding, Places, SamplesLost, At,
    Fault, disk, Idle, Locals
<1>40. CASE Kill(e)
  BY <1>40, <1>0 DEF EngineTypeOK, StoreTypeOK, EarnedSoFar, Deciding, Places, Kill, At, Fault,
    disk, history, Idle, Locals
<1>99. QED
  BY <1>1, <1>2, <1>3, <1>4, <1>5, <1>6, <1>7, <1>8, <1>9, <1>10, <1>11, <1>12, <1>13, <1>14,
    <1>15, <1>16, <1>17, <1>18, <1>19, <1>20, <1>21, <1>22, <1>23, <1>24, <1>25, <1>26, <1>27,
    <1>28, <1>29, <1>30, <1>31, <1>32, <1>33, <1>34, <1>35, <1>36, <1>37, <1>38, <1>39, <1>40 DEF
    Step

\* A step of one engine takes nothing away from another.
LEMMA OthersKeepTheirs ==
  ASSUME PromotionInv, NEW e \in Engines, StepEffects(e), NEW f \in Engines \ {e}
  PROVE  EarnedSoFar(f)'
<1>1. eng[f].pc \in Deciding => eng[f].cand # eng[e].cand /\ eng[f].cand \in Cands
  BY DEF PromotionInv, CycleTypeOK, EngineTypeOK, OwnCandidates, Deciding
<1>2. EarnedSoFar(f)
  BY DEF PromotionInv
<1>3. eng'[f] = eng[f]
  BY DEF StepEffects
<1>4. QED
  BY <1>1, <1>2, <1>3 DEF EarnedSoFar, StepEffects, Deciding

LEMMA PromotionStep ==
  ASSUME PromotionInv, NEW e \in Engines, Step(e)
  PROVE  PromotionInv'
<1>1. CycleTypeOK' /\ StepEffects(e) /\ EarnedSoFar(e)
  BY EngineStep, StoreStep, OwnStep, EffectsStep DEF PromotionInv, CycleTypeOK
<1>2. ASSUME NEW f \in Engines PROVE EarnedSoFar(f)'
  BY <1>1, EarnedByStep, OthersKeepTheirs
<1>3. eng[e].pc \in Deciding => eng[e].cand \in used
  BY DEF PromotionInv, CycleTypeOK, OwnCandidates, Deciding
<1>4. OnlyProposed'
  BY <1>1, <1>3 DEF PromotionInv, OnlyProposed, StepEffects, Deciding, Places
<1>5. ReviewIsRecorded'
  <2>1. eng[e].pc = "ratify" => <<"promotion", eng[e].cand>> \in ledger
    BY <1>1 DEF EarnedSoFar
  <2>2. QED
    BY <1>1, <2>1 DEF PromotionInv, ReviewIsRecorded, StepEffects
<1>6. PromotionEarned'
  <2>1. CASE active' = active
    <3>1. active # NoCand /\ eng[e].pc \in {"judge", "rollback"} => eng[e].cand # active
      BY <1>1 DEF EarnedSoFar, Deciding, Places
    <3>2. active \in Cands \union {NoCand}
      BY DEF PromotionInv, CycleTypeOK, StoreTypeOK
    <3>3. QED
      BY <1>1, <2>1, <3>1, <3>2 DEF PromotionInv, PromotionEarned, StepEffects
  <2>2. CASE eng[e].pc = "swap" /\ active' = eng[e].cand
    <3>1. judged' = judged /\ rolled' = rolled
      BY <1>1, <2>2 DEF StepEffects
    <3>2. QED
      BY <1>1, <2>2, <3>1 DEF EarnedSoFar, Deciding, Places, PromotionEarned, StepEffects
  <2>3. QED
    BY <1>1, <2>1, <2>2 DEF StepEffects
<1>7. QED
  BY <1>1, <1>2, <1>4, <1>5, <1>6 DEF PromotionInv

LEMMA PromotionInvHolds == CycleSpec => []PromotionInv
<1>1. CycleInit => PromotionInv
  <2>1. CycleInit => OnlyProposed /\ PromotionEarned /\ ReviewIsRecorded
    BY DEF CycleInit, OnlyProposed, PromotionEarned, ReviewIsRecorded
  <2>2. CycleInit => \A e \in Engines : EarnedSoFar(e)
    <3>1. Idle.pc = "idle"
      BY DEF Idle, Locals
    <3>2. QED
      BY <3>1 DEF CycleInit, EarnedSoFar, Deciding
  <2>3. QED
    BY <2>1, <2>2, TypeInit DEF PromotionInv
<1>2. PromotionInv /\ [CycleNext]_cycleVars => PromotionInv'
  <2> SUFFICES ASSUME PromotionInv, [CycleNext]_cycleVars
               PROVE  PromotionInv'
    OBVIOUS
  <2>1. ASSUME NEW e \in Engines, Step(e) PROVE PromotionInv'
    BY <2>1, PromotionStep
  <2>2. CASE UNCHANGED cycleVars
    <3>1. CycleTypeOK'
      BY <2>2, TypeStep DEF PromotionInv
    <3>2. OnlyProposed' /\ PromotionEarned' /\ ReviewIsRecorded'
      BY <2>2 DEF cycleVars, PromotionInv, OnlyProposed, PromotionEarned, ReviewIsRecorded
    <3>3. \A e \in Engines : EarnedSoFar(e)'
      BY <2>2 DEF cycleVars, PromotionInv, EarnedSoFar
    <3>4. QED
      BY <3>1, <3>2, <3>3 DEF PromotionInv
  <2>3. QED
    BY <2>1, <2>2 DEF CycleNext, Terminated
<1>3. QED
  BY <1>1, <1>2, PTL DEF CycleSpec

\* The active generation has the whole admission sequence behind it, each record
\* of it on the ledger before the step that relies on it, for any number of engines
\* on one rsi_root and wherever they are killed.
THEOREM PromotionIsEarned == CycleSpec => []PromotionEarned
<1>1. PromotionInv => PromotionEarned
  BY DEF PromotionInv
<1>2. QED
  BY <1>1, PromotionInvHolds, PTL

\* Every review branch belongs to a candidate whose promotion is on the ledger.
THEOREM ReviewsAreRecorded == CycleSpec => []ReviewIsRecorded
<1>1. PromotionInv => ReviewIsRecorded
  BY DEF PromotionInv
<1>2. QED
  BY <1>1, PromotionInvHolds, PTL

-----------------------------------------------------------------------------
(* The executable under evaluation. *)

\* While an engine waits, the executable in the output root is its own or missing, or
\* another engine has built since; so what it copies is its own.
FreshOrMixed(e) ==
  Waiting(e) => exe \in {eng[e].cand, NoCand} \/ eng[e].cand \in mixed

TreeInv ==
  /\ CycleTypeOK
  /\ \A e \in Engines : FreshOrMixed(e)
  /\ ExecutableFromTree

LEMMA TreeStep ==
  ASSUME TreeInv, NEW e \in Engines, Step(e)
  PROVE  TreeInv'
<1>1. CycleTypeOK' /\ BuildEffects(e) /\ \A f \in Engines \ {e} : eng'[f] = eng[f]
  BY EngineStep, StoreStep, OwnStep, EffectsStep DEF TreeInv, CycleTypeOK, StepEffects
<1>2. ASSUME NEW f \in Engines \ {e} PROVE FreshOrMixed(f)'
  <2>1. eng'[f] = eng[f] /\ FreshOrMixed(f)
    BY <1>1 DEF TreeInv
  <2>2. Waiting(f) => eng[f].cand \in Uncopied(e)
    BY DEF Waiting, Uncopied
  <2>3. QED
    BY <1>1, <2>1, <2>2 DEF FreshOrMixed, Waiting, BuildEffects
<1>3. FreshOrMixed(e)'
  BY <1>1 DEF TreeInv, FreshOrMixed, BuildEffects
<1>4. ExecutableFromTree'
  <2>1. CASE staged' = staged
    BY <1>1, <2>1 DEF TreeInv, ExecutableFromTree, BuildEffects
  <2>2. CASE Waiting(e) /\ exe # NoCand /\ staged' = [staged EXCEPT ![eng[e].cand] = exe]
    <3>1. exe = eng[e].cand \/ eng[e].cand \in mixed
      BY <2>2 DEF TreeInv, FreshOrMixed
    <3>2. staged \in [Cands -> Cands \union {NoCand}]
      BY DEF TreeInv, CycleTypeOK, StoreTypeOK
    <3>3. ASSUME NEW c \in Cands PROVE staged'[c] \in {c, NoCand} \/ c \in mixed'
      BY <1>1, <2>2, <3>1, <3>2 DEF TreeInv, ExecutableFromTree, BuildEffects
    <3>4. QED
      BY <3>3 DEF ExecutableFromTree
  <2>3. QED
    BY <1>1, <2>1, <2>2 DEF BuildEffects
<1>5. QED
  BY <1>1, <1>2, <1>3, <1>4 DEF TreeInv

\* "The adapter executable exists fresh from this exact tree": on any number of engines
\* that share the output root, the executable a canary runs is its candidate's own,
\* unless another engine built between its build and its copy.
THEOREM ExecutableIsFromTree == CycleSpec => []ExecutableFromTree
<1>1. CycleInit => TreeInv
  <2>1. CycleInit => \A e \in Engines : FreshOrMixed(e)
    BY DEF CycleInit, FreshOrMixed
  <2>2. QED
    BY <2>1, TypeInit DEF CycleInit, TreeInv, ExecutableFromTree
<1>2. TreeInv /\ [CycleNext]_cycleVars => TreeInv'
  <2> SUFFICES ASSUME TreeInv, [CycleNext]_cycleVars PROVE TreeInv'
    OBVIOUS
  <2>1. ASSUME NEW e \in Engines, Step(e) PROVE TreeInv'
    BY <2>1, TreeStep
  <2>2. CASE UNCHANGED cycleVars
    <3>1. CycleTypeOK'
      BY <2>2, TypeStep DEF TreeInv
    <3>2. QED
      BY <2>2, <3>1 DEF cycleVars, TreeInv, FreshOrMixed, Waiting, ExecutableFromTree
  <2>3. QED
    BY <2>1, <2>2 DEF CycleNext, Terminated
<1>3. TreeInv => ExecutableFromTree
  BY DEF TreeInv
<1>4. QED
  BY <1>1, <1>2, <1>3, PTL DEF CycleSpec

-----------------------------------------------------------------------------
(* Claims and measurements. *)

\* The log of complete cycles never runs ahead of the cycles that returned Ok, and an
\* engine that holds a measured diagnosis read it when there were enough of them.
ClaimsInv ==
  /\ CycleTypeOK
  /\ complete <= finished
  /\ \A e \in Engines : eng[e].measured => finished >= MinSamples
  /\ ClaimsAreMeasured

LEMMA ClaimsStep ==
  ASSUME ClaimsInv, NEW e \in Engines, Step(e)
  PROVE  ClaimsInv'
<1>1. /\ CycleTypeOK' /\ ClaimEffects(e) /\ \A f \in Engines \ {e} : eng'[f] = eng[f]
  BY EngineStep, StoreStep, OwnStep, EffectsStep DEF ClaimsInv, CycleTypeOK, StepEffects
<1>2. /\ complete \in Nat /\ finished \in Nat /\ MinSamples \in Nat
      /\ claims \subseteq Cands \X Nat
  BY CycleAssumption DEF ClaimsInv, CycleTypeOK, StoreTypeOK
<1>3. complete' <= finished' /\ finished <= finished' /\ finished' \in Nat
  BY <1>1, <1>2 DEF ClaimsInv, ClaimEffects
<1>4. ASSUME NEW f \in Engines, eng'[f].measured PROVE finished' >= MinSamples
  <2>1. finished >= MinSamples
    BY <1>1, <1>2, <1>4 DEF ClaimsInv, ClaimEffects
  <2>2. QED
    BY <1>2, <1>3, <2>1
<1>5. ClaimsAreMeasured'
  <2>1. CASE claims' = claims
    BY <2>1 DEF ClaimsInv, ClaimsAreMeasured
  <2>2. CASE eng[e].measured /\ claims' = claims \union {<<eng[e].cand, finished>>}
    <3>1. finished >= MinSamples
      BY <2>2 DEF ClaimsInv
    <3>2. \A claim \in claims' : claim \in claims \/ claim[2] = finished
      BY <2>2
    <3>3. QED
      BY <3>1, <3>2 DEF ClaimsInv, ClaimsAreMeasured
  <2>3. QED
    BY <1>1, <2>1, <2>2 DEF ClaimEffects
<1>6. QED
  BY <1>1, <1>3, <1>4, <1>5 DEF ClaimsInv

\* "Ranking reads measurements from completed prior cycles only": whichever engines run,
\* fail or lose their samples, a performance claim is let through only after MinSamples
\* cycles returned Ok.
THEOREM ClaimsRestOnCycles == CycleSpec => []ClaimsAreMeasured
<1>1. CycleInit => ClaimsInv
  <2>1. CycleInit => \A e \in Engines : ~eng[e].measured
    <3>1. Idle.measured = FALSE
      BY DEF Idle, Locals
    <3>2. QED
      BY <3>1 DEF CycleInit
  <2>2. QED
    BY <2>1, TypeInit DEF CycleInit, ClaimsInv, ClaimsAreMeasured
<1>2. ClaimsInv /\ [CycleNext]_cycleVars => ClaimsInv'
  <2> SUFFICES ASSUME ClaimsInv, [CycleNext]_cycleVars PROVE ClaimsInv'
    OBVIOUS
  <2>1. ASSUME NEW e \in Engines, Step(e) PROVE ClaimsInv'
    BY <2>1, ClaimsStep
  <2>2. CASE UNCHANGED cycleVars
    <3>1. CycleTypeOK'
      BY <2>2, TypeStep DEF ClaimsInv
    <3>2. QED
      BY <2>2, <3>1 DEF cycleVars, ClaimsInv, ClaimsAreMeasured
  <2>3. QED
    BY <2>1, <2>2 DEF CycleNext, Terminated
<1>3. ClaimsInv => ClaimsAreMeasured
  BY DEF ClaimsInv
<1>4. QED
  BY <1>1, <1>2, <1>3, PTL DEF CycleSpec
=============================================================================
