----------------------- MODULE SupervisorDaemon_proofs -----------------------
(***************************************************************************)
(* Proofs about the host supervisor, for every set of generations, every   *)
(* error budget and every bound: the invariant SupInv is inductive, and    *)
(* the safety properties follow from it.                                   *)
(***************************************************************************)
EXTENDS SupervisorDaemon, TLAPS

\* A frame the handler goes on to look at comes from an authenticated connection,
\* and one that names the canary was sent on the canary's own connection.
LEMMA NotRefused ==
  ASSUME SupTypeOK, pc = "recv",
         NEW f, ~Refused(f)
  PROVE  /\ auth \in Gens /\ auth \in proved
         /\ "gen" \in DOMAIN f => f.gen = auth
BY DEF SupTypeOK, Refused

\* A canary that breaks a budget on its own connection is guilty before the
\* rollback starts.
LEMMA StartRevertCause ==
  ASSUME SupInv, pc = "recv", auth = canary, auth \in Gens, StartRevert,
         UNCHANGED <<active, canary, linkVars, connVars, running, proved, raced, ordered>>,
         pid' \in BOOLEAN, txs' \in Nat, errs' \in Nat,
         conns' \in Nat, frames' \in Nat, stages' \in Nat
  PROVE  SupInv'
<1>1. canary \in guilty' /\ guilty \subseteq guilty'
  BY DEF StartRevert
<1>2. SupTypeOK'
  BY <1>1 DEF SupInv, SupTypeOK, StartRevert, linkVars, connVars, States
<1>3. ProvedBeforeActive' /\ RollbackNeedsMisbehaviour' /\ RollbackHasCause'
  BY <1>1 DEF SupInv, RollbackNeedsMisbehaviour, ProvedBeforeActive, RollbackHasCause,
              InRollback, StartRevert, linkVars
<1>4. OrderAfterSwitch' /\ RollbackProgress'
  BY DEF SupInv, OrderAfterSwitch, RollbackProgress, StartRevert, linkVars
<1> QED
  BY <1>2, <1>3, <1>4 DEF SupInv

\* Steps that only close the connection keep the invariant.
LEMMA ClosedKeepsInv ==
  ASSUME SupInv, Closed,
         UNCHANGED <<active, genVars, linkVars, running, histVars>>,
         conns' \in Nat, frames' \in Nat, stages' \in Nat
  PROVE  SupInv'
<1>1. SupTypeOK'
  BY SupAssumption DEF SupInv, SupTypeOK, Closed, genVars, linkVars, histVars, States
<1> QED
  BY <1>1 DEF SupInv, ProvedBeforeActive, RollbackNeedsMisbehaviour, OrderAfterSwitch,
              RollbackHasCause, RollbackProgress, InRollback, Closed, genVars, linkVars, histVars

\* SupInv is preserved by every step of the supervisor.
LEMMA SupInvStep == SupInv /\ [SupNext]_supVars => SupInv'
<1> SUFFICES ASSUME SupInv, [SupNext]_supVars PROVE SupInv'
  OBVIOUS
<1> USE SupAssumption
<1>t. SupTypeOK
  BY DEF SupInv
<1>1. ASSUME NEW g \in Gens, stage_canary(g) PROVE SupInv'
  <2>0. raced' \in BOOLEAN
    BY <1>1 DEF stage_canary
  <2>a. /\ canary' = g /\ state' = "Staged" /\ pid' = FALSE /\ txs' = 0 /\ errs' = 0
        /\ stages' = stages + 1
        /\ UNCHANGED <<active, link, sock, pc, auth, expected, running, proved, guilty, ordered,
                       conns, frames>>
    BY <1>1 DEF stage_canary, linkVars, connVars
  <2>1. SupTypeOK'
    <3>1. canary' \in Gens \union {NoGen}
      BY <1>1, <2>a
    <3>2. state' \in States /\ pid' \in BOOLEAN
      BY <2>a DEF States
    <3>3. txs' \in Nat /\ errs' \in Nat /\ stages' \in Nat
      BY <1>t, <2>a DEF SupTypeOK
    <3> QED
      BY <1>t, <2>0, <2>a, <3>1, <3>2, <3>3 DEF SupTypeOK
  <2> QED
    BY <1>1, <2>1 DEF stage_canary, SupInv, ProvedBeforeActive, RollbackNeedsMisbehaviour,
       OrderAfterSwitch, RollbackHasCause, RollbackProgress, InRollback, linkVars, connVars
<1>2. CASE Shutdown
  <2>1. SupTypeOK'
    BY <1>2, <1>t DEF Shutdown, SupTypeOK, genVars, linkVars, connVars, histVars, boundVars
  <2> QED
    BY <1>2, <2>1 DEF Shutdown, SupInv, ProvedBeforeActive, RollbackNeedsMisbehaviour,
       OrderAfterSwitch, RollbackHasCause, RollbackProgress, InRollback,
       genVars, linkVars, connVars, histVars, boundVars
<1>3. CASE Accept
  BY <1>3 DEF Accept, SupInv, SupTypeOK, ProvedBeforeActive, RollbackNeedsMisbehaviour,
     OrderAfterSwitch, RollbackHasCause, RollbackProgress, InRollback,
     genVars, linkVars, histVars
<1>4. CASE ServerExits
  BY <1>4 DEF ServerExits, SupInv, SupTypeOK, ProvedBeforeActive, RollbackNeedsMisbehaviour,
     OrderAfterSwitch, RollbackHasCause, RollbackProgress, InRollback,
     genVars, linkVars, connVars, histVars, boundVars
<1>5. CASE RecvFailed \/ SilentTimeout \/ ChallengeFailed \/ ChallengeTimeout \/ RollbackFailed
  BY <1>5, <1>t, ClosedKeepsInv
     DEF RecvFailed, SilentTimeout, ChallengeFailed, ChallengeTimeout, RollbackFailed,
         SupTypeOK, boundVars
<1>6. ASSUME NEW f \in ReadyFrames, RecvReady(f) PROVE SupInv'
  <2>1. CASE auth # "unauth" \/ ~check_ready(f)
    BY <1>6, <2>1, <1>t, ClosedKeepsInv DEF RecvReady, Received, SupTypeOK
  <2>2. CASE auth = "unauth" /\ check_ready(f)
    BY <1>6, <2>2 DEF RecvReady, Received, check_ready, SupInv, SupTypeOK, ProvedBeforeActive,
       RollbackNeedsMisbehaviour, OrderAfterSwitch, RollbackHasCause, RollbackProgress,
       InRollback, genVars, linkVars, histVars
  <2> QED
    BY <2>1, <2>2
<1>7. CASE ChallengeOk
  <2>1. expected \in Gens /\ proved' = proved \union {expected}
    BY <1>7, <1>t DEF ChallengeOk, SupTypeOK
  <2>2. SupTypeOK'
    BY <1>7, <1>t, <2>1 DEF ChallengeOk, SupTypeOK, States, linkVars, boundVars
  <2> QED
    BY <1>7, <2>1, <2>2 DEF ChallengeOk, SupInv, ProvedBeforeActive, RollbackNeedsMisbehaviour,
       OrderAfterSwitch, RollbackHasCause, RollbackProgress, InRollback, linkVars, boundVars
<1>8. ASSUME NEW f, RecvRefused(f) PROVE SupInv'
  BY <1>8, <1>t, ClosedKeepsInv DEF RecvRefused, Received, SupTypeOK
<1>9. ASSUME NEW f \in HeartbeatFrames, RecvHeartbeat(f) PROVE SupInv'
  <2>1. auth \in Gens /\ f.gen = auth /\ pc = "recv"
    BY <1>9, <1>t, NotRefused DEF RecvHeartbeat, Received, HeartbeatFrames
  <2>2. CASE FromCanary(f) /\ f.over
    BY <1>9, <2>1, <2>2, <1>t, StartRevertCause DEF RecvHeartbeat, Received, FromCanary, SupTypeOK
  <2>3. CASE ~(FromCanary(f) /\ f.over)
    BY <1>9, <2>3 DEF RecvHeartbeat, Received, SupInv, SupTypeOK, ProvedBeforeActive,
       RollbackNeedsMisbehaviour, OrderAfterSwitch, RollbackHasCause, RollbackProgress,
       InRollback, linkVars, connVars
  <2> QED
    BY <2>2, <2>3
<1>10. ASSUME NEW f \in ReportFrames, RecvReport(f) PROVE SupInv'
  <2>1. auth \in Gens /\ f.gen = auth /\ pc = "recv" /\ auth \in proved
    BY <1>10, <1>t, NotRefused DEF RecvReport, Received, ReportFrames
  <2>2. CASE ~FromCanary(f)
    BY <1>10, <2>2 DEF RecvReport, Received, SupInv, SupTypeOK, ProvedBeforeActive,
       RollbackNeedsMisbehaviour, OrderAfterSwitch, RollbackHasCause, RollbackProgress,
       InRollback, linkVars, connVars
  <2>3. CASE FromCanary(f)
    <3>1. txs' \in Nat /\ errs' \in Nat
      BY <1>10, <2>3, <1>t DEF RecvReport, SupTypeOK
    <3>2. PICK memoryOk \in BOOLEAN :
            \/ BudgetBroken(f, memoryOk) /\ StartRevert
            \/ ~BudgetBroken(f, memoryOk) /\ state' = "CanaryActive" /\ UNCHANGED <<guilty, pc>>
      BY <1>10, <2>3 DEF RecvReport
    <3>3. CASE StartRevert
      BY <1>10, <2>1, <2>3, <3>1, <3>3, <1>t, StartRevertCause
         DEF RecvReport, Received, FromCanary, SupTypeOK
    <3>4. CASE state' = "CanaryActive" /\ UNCHANGED <<guilty, pc>>
      BY <1>10, <2>1, <2>3, <3>1, <3>4 DEF RecvReport, Received, FromCanary, SupInv, SupTypeOK,
         ProvedBeforeActive, RollbackNeedsMisbehaviour, OrderAfterSwitch, RollbackHasCause,
         RollbackProgress, InRollback, States, linkVars, connVars
    <3> QED
      BY <3>2, <3>3, <3>4
  <2> QED
    BY <2>2, <2>3
<1>11. ASSUME NEW f \in OtherFrames, RecvOther(f) PROVE SupInv'
  <2>1. CASE f.type = "auth_response"
    BY <1>11, <2>1, <1>t, ClosedKeepsInv DEF RecvOther, Received, SupTypeOK
  <2>2. CASE f.type # "auth_response"
    BY <1>11, <2>2 DEF RecvOther, Received, SupInv, SupTypeOK, ProvedBeforeActive,
       RollbackNeedsMisbehaviour, OrderAfterSwitch, RollbackHasCause, RollbackProgress,
       InRollback, genVars, linkVars, connVars, histVars
  <2> QED
    BY <2>1, <2>2
<1>12. CASE SwapActive
  BY <1>12 DEF SwapActive, SupInv, SupTypeOK, ProvedBeforeActive, RollbackNeedsMisbehaviour,
     OrderAfterSwitch, RollbackHasCause, RollbackProgress, InRollback,
     genVars, connVars, histVars, boundVars
<1>13. CASE SwitchSocket
  BY <1>13 DEF SwitchSocket, SupInv, SupTypeOK, ProvedBeforeActive, RollbackNeedsMisbehaviour,
     OrderAfterSwitch, RollbackHasCause, RollbackProgress, InRollback,
     genVars, connVars, histVars, boundVars
<1>14. CASE MarkReverted
  BY <1>14 DEF MarkReverted, SupInv, SupTypeOK, ProvedBeforeActive, RollbackNeedsMisbehaviour,
     OrderAfterSwitch, RollbackHasCause, RollbackProgress, InRollback, States,
     linkVars, connVars, boundVars
<1>15. CASE UNCHANGED supVars
  BY <1>15 DEF SupInv, SupTypeOK, ProvedBeforeActive, RollbackNeedsMisbehaviour,
     OrderAfterSwitch, RollbackHasCause, RollbackProgress, InRollback,
     supVars, genVars, linkVars, connVars, histVars, boundVars
<1> QED
  BY <1>1, <1>2, <1>3, <1>4, <1>5, <1>6, <1>7, <1>8, <1>9, <1>10, <1>11, <1>12, <1>13, <1>14,
     <1>15 DEF SupNext, Timers, RollbackSteps, Terminated

\* The inductive invariant holds in every reachable state of the supervisor.
THEOREM SupervisorInvariant == SupSpec => []SupInv
<1>1. SupInit => SupInv
  <2> SUFFICES ASSUME SupInit PROVE SupInv
    OBVIOUS
  <2>1. SupTypeOK
    BY SupAssumption DEF SupInit, SupTypeOK, States
  <2>2. /\ ProvedBeforeActive /\ RollbackNeedsMisbehaviour /\ OrderAfterSwitch
        /\ RollbackHasCause /\ RollbackProgress
    BY DEF SupInit, ProvedBeforeActive, RollbackNeedsMisbehaviour, OrderAfterSwitch,
           RollbackHasCause, RollbackProgress, InRollback
  <2> QED
    BY <2>1, <2>2 DEF SupInv
<1> QED
  BY <1>1, SupInvStep, PTL DEF SupSpec

\* Type correctness; authentication belongs to one connection (run_server).
THEOREM SupervisorTypeCorrect == SupSpec => []SupTypeOK
BY SupervisorInvariant, PTL DEF SupInv

\* A canary is Ready or CanaryActive only after its worker answered a challenge
\* (process_worker_message), whatever is staged in between.
THEOREM ActiveCanaryProved == SupSpec => []ProvedBeforeActive
BY SupervisorInvariant, PTL DEF SupInv

\* Only misbehaviour on an authenticated connection moves the active links or
\* reverts a canary (reject, trigger_instant_rollback).
THEOREM RollbackIsEarned == SupSpec => []RollbackNeedsMisbehaviour
BY SupervisorInvariant, PTL DEF SupInv

\* RevertOrder is sent after both links are switched back (trigger_instant_rollback).
THEOREM RevertOrderIsLate == SupSpec => []OrderAfterSwitch
BY SupervisorInvariant, PTL DEF SupInv
=============================================================================
