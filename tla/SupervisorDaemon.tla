--------------------------- MODULE SupervisorDaemon ---------------------------
(***************************************************************************)
(* The host supervisor of src/src/supervisor/daemon.rs and mod.rs: the     *)
(* server loop that serves one worker connection at a time, the message    *)
(* handler with its authentication states, the early safety budgets and    *)
(* the instant rollback to the parent generation.                          *)
(*                                                                         *)
(* run_server is one task; stage_canary and shutdown are called by others  *)
(* and interleave wherever the server awaits or holds no lock: between     *)
(* reading the expected generation and the end of the HMAC challenge, and  *)
(* between marking a canary Reverting and marking it Reverted.             *)
(***************************************************************************)
EXTENDS Naturals

CONSTANTS
  Gens,              \* candidate generation ids
  NoGen,             \* no canary is staged
  ErrNum, ErrDen,    \* max_error_rate, as the fraction ErrNum / ErrDen
  MaxConns,          \* bound: connections accepted
  MaxFrames,         \* bound: frames received
  MaxStages          \* bound: calls of stage_canary

ASSUME SupAssumption ==
  /\ NoGen \notin Gens
  /\ ErrNum \in Nat /\ ErrDen \in Nat \ {0}
  /\ {MaxConns, MaxFrames, MaxStages} \subseteq Nat
  /\ {"unauth", "none"} \intersect Gens = {}

VARIABLES
  active,     \* active_generation: "parent", or "none"
  canary,     \* canary_generation's id, or NoGen
  state,      \* its GenerationState
  pid,        \* its pid is known
  txs, errs,  \* its canary_transactions and canary_errors
  link,       \* where the active symlink points: "parent", or "elsewhere"
  sock,       \* where the active socket link points
  pc,         \* where run_server is
  auth,       \* the connection: "none", "unauth", or the generation it proved
  expected,   \* the generation read before the challenge
  running,
  proved,     \* history: generations whose worker answered a challenge
  guilty,     \* history: generations that broke a budget on their own connection
  raced,      \* history: a canary was staged while a rollback was under way
  ordered,    \* history: a RevertOrder was sent
  conns, frames, stages   \* bounds

genVars == <<canary, state, pid, txs, errs>>
linkVars == <<link, sock>>
connVars == <<auth, expected>>
histVars == <<proved, guilty, raced, ordered>>
boundVars == <<conns, frames, stages>>
supVars == <<active, genVars, linkVars, pc, connVars, running, histVars, boundVars>>

States == {"Staged", "Ready", "CanaryActive", "Reverting", "Reverted"}

\* Worker frames, by what the handler tells apart.
ReadyFrames == [type : {"ready"}, gen : Gens, version : {"current", "old"}]
HeartbeatFrames == [type : {"heartbeat"}, gen : Gens, over : BOOLEAN]
ReportFrames == [type : {"report"}, gen : Gens, success : BOOLEAN, slow : BOOLEAN]
\* DrainComplete and ExecuteResult name a generation; Pong and AuthResponse do not.
OtherFrames ==
  [type : {"drain", "result"}, gen : Gens] \union [type : {"pong", "auth_response"}]

InRollback == pc \in {"rollback", "switch", "mark"}

-----------------------------------------------------------------------------
SupInit ==
  /\ active \in {"parent", "none"}
  /\ canary = NoGen /\ state = "Staged" /\ pid = FALSE /\ txs = 0 /\ errs = 0
  /\ link = "elsewhere" /\ sock = "elsewhere"
  /\ pc = "accept" /\ auth = "none" /\ expected = NoGen
  /\ running = TRUE
  /\ proved = {} /\ guilty = {} /\ raced = FALSE /\ ordered = FALSE
  /\ conns = 0 /\ frames = 0 /\ stages = 0

\* stage_canary: the generation is installed and becomes the canary, whatever
\* the server is doing with the one before it.
stage_canary(g) ==
  /\ stages < MaxStages /\ stages' = stages + 1
  /\ canary' = g /\ state' = "Staged" /\ pid' = FALSE /\ txs' = 0 /\ errs' = 0
  /\ raced' = (raced \/ InRollback)
  /\ UNCHANGED <<active, linkVars, pc, connVars, running, proved, guilty, ordered, conns, frames>>

Shutdown ==
  /\ running
  /\ running' = FALSE
  /\ UNCHANGED <<active, genVars, linkVars, pc, connVars, histVars, boundVars>>

-----------------------------------------------------------------------------
(* run_server. *)

Accept ==
  /\ pc = "accept" /\ running
  /\ conns < MaxConns /\ conns' = conns + 1
  /\ pc' = "recv" /\ auth' = "unauth"
  /\ UNCHANGED <<active, genVars, linkVars, expected, running, histVars, frames, stages>>

ServerExits ==
  /\ pc = "accept" /\ ~running
  /\ pc' = "stopped"
  /\ UNCHANGED <<active, genVars, linkVars, connVars, running, histVars, boundVars>>

\* The connection is dropped and the server goes back to accept.
Closed == pc' = "accept" /\ auth' = "none" /\ expected' = NoGen

\* A closed connection, or a frame that does not decode.
RecvFailed ==
  /\ pc = "recv"
  /\ Closed
  /\ UNCHANGED <<active, genVars, linkVars, running, histVars, boundVars>>

\* Fault: silence is waited out only while the connection is authenticated.
SilentTimeout_Authenticated ==
  /\ pc = "recv" /\ auth \in Gens
  /\ Closed
  /\ UNCHANGED <<active, genVars, linkVars, running, histVars, boundVars>>

\* The readiness deadline passed on a connection that has not authenticated.
SilentTimeout ==
  /\ pc = "recv" /\ auth = "unauth"
  /\ Closed
  /\ UNCHANGED <<active, genVars, linkVars, running, histVars, boundVars>>

\* One more frame is read.
Received == pc = "recv" /\ frames < MaxFrames /\ frames' = frames + 1

\* check_ready, for the canary staged right now.
check_ready(f) == canary # NoGen /\ f.gen = canary /\ f.version = "current"

\* A Ready starts the challenge, or is refused and closes the connection.
RecvReady(f) ==
  /\ Received
  /\ \/ /\ auth = "unauth" /\ check_ready(f)
        /\ pc' = "challenge" /\ expected' = canary
        /\ UNCHANGED auth
     \/ /\ auth # "unauth" \/ ~check_ready(f)
        /\ Closed
  /\ UNCHANGED <<active, genVars, linkVars, running, histVars, conns, stages>>

\* Fault: whatever canary is staged by now becomes Ready.
ChallengeOk_AnyCanary ==
  /\ pc = "challenge"
  /\ pc' = "recv" /\ auth' = expected /\ expected' = NoGen
  /\ proved' = proved \union {expected}
  /\ state' = "Ready" /\ pid' = TRUE
  /\ UNCHANGED <<active, canary, txs, errs, linkVars, running, guilty, raced, ordered, boundVars>>

\* The HMAC over (expected generation, nonce) verified. The canary becomes Ready
\* only if it is still the one the Ready named; the connection is authenticated
\* for that one either way.
ChallengeOk ==
  /\ pc = "challenge"
  /\ pc' = "recv" /\ auth' = expected /\ expected' = NoGen
  /\ proved' = proved \union {expected}
  /\ \/ canary = expected /\ state' = "Ready" /\ pid' = TRUE
     \/ canary # expected /\ UNCHANGED <<state, pid>>
  /\ UNCHANGED <<active, canary, txs, errs, linkVars, running, guilty, raced, ordered, boundVars>>

\* A wrong HMAC, another frame, a closed connection.
ChallengeFailed ==
  /\ pc = "challenge"
  /\ Closed
  /\ UNCHANGED <<active, genVars, linkVars, running, histVars, boundVars>>

ChallengeTimeout ==
  /\ pc = "challenge"
  /\ Closed
  /\ UNCHANGED <<active, genVars, linkVars, running, histVars, boundVars>>

\* Fault: a frame is believed on a connection that has not authenticated.
Refused_AuthenticatedOnly(f) == auth \in Gens /\ "gen" \in DOMAIN f /\ f.gen # auth

\* Frames refused before they are looked at: the connection has not authenticated,
\* or the frame names another generation than the connection's.
Refused(f) == auth = "unauth" \/ ("gen" \in DOMAIN f /\ f.gen # auth)

RecvRefused(f) ==
  /\ Received
  /\ Refused(f)
  /\ Closed
  /\ UNCHANGED <<active, genVars, linkVars, running, histVars, conns, stages>>

\* The frame comes from the canary on its own connection.
FromCanary(f) == f.gen = canary

\* The canary misbehaved: it is marked and the rollback starts.
StartRevert ==
  /\ state' = "Reverting"
  /\ guilty' = guilty \union ({auth} \intersect Gens)
  /\ pc' = "rollback"

RecvHeartbeat(f) ==
  /\ Received
  /\ ~Refused(f)
  /\ \/ FromCanary(f) /\ f.over /\ StartRevert
     \/ ~(FromCanary(f) /\ f.over) /\ UNCHANGED <<state, guilty, pc>>
  /\ UNCHANGED <<active, canary, pid, txs, errs, linkVars, connVars, running, proved, raced, ordered,
                 conns, stages>>

\* record_canary_transaction finds a budget broken. Memory is read only when the
\* pid is known; an unreadable or excessive value is `memoryOk = FALSE`.
BudgetBroken(f, memoryOk) ==
  \/ f.slow
  \/ (errs + (IF f.success THEN 0 ELSE 1)) * ErrDen > ErrNum * (txs + 1)
  \/ pid /\ ~memoryOk

\* A self-report: a broken budget starts the rollback, anything else makes the
\* canary CanaryActive, from whatever state it is in.
RecvReport(f) ==
  /\ Received
  /\ ~Refused(f)
  /\ \/ /\ FromCanary(f)
        /\ txs' = txs + 1
        /\ errs' = errs + (IF f.success THEN 0 ELSE 1)
        /\ \E memoryOk \in BOOLEAN :
             \/ BudgetBroken(f, memoryOk) /\ StartRevert
             \/ ~BudgetBroken(f, memoryOk) /\ state' = "CanaryActive" /\ UNCHANGED <<guilty, pc>>
     \/ ~FromCanary(f) /\ UNCHANGED <<txs, errs, state, guilty, pc>>
  /\ UNCHANGED <<active, canary, pid, linkVars, connVars, running, proved, raced, ordered, conns, stages>>

\* DrainComplete and Pong change nothing, an ExecuteResult is rejected and the
\* connection kept, an AuthResponse outside a handshake closes it.
RecvOther(f) ==
  /\ Received
  /\ ~Refused(f)
  /\ IF f.type = "auth_response" THEN Closed ELSE UNCHANGED <<pc, connVars>>
  /\ UNCHANGED <<active, genVars, linkVars, running, histVars, conns, stages>>

-----------------------------------------------------------------------------
(* trigger_instant_rollback. *)

\* Fault: without waiting for the links to be switched back.
SwapActive_SkipsSocket ==
  /\ pc = "rollback"
  /\ link' = (IF active = "parent" THEN "parent" ELSE link)
  /\ pc' = "mark"
  /\ UNCHANGED <<active, genVars, sock, connVars, running, histVars, boundVars>>

\* rollback_to_parent swaps the active symlink, when there is a parent.
SwapActive ==
  /\ pc = "rollback"
  /\ \/ active = "parent" /\ link' = "parent" /\ pc' = "switch"
     \/ active = "none" /\ pc' = "mark" /\ UNCHANGED link
  /\ UNCHANGED <<active, genVars, sock, connVars, running, histVars, boundVars>>

\* Then the active socket.
SwitchSocket ==
  /\ pc = "switch"
  /\ sock' = "parent" /\ pc' = "mark"
  /\ UNCHANGED <<active, genVars, link, connVars, running, histVars, boundVars>>

\* Fault: the authentication state outlives the connection.
RollbackFailed_KeepsAuth ==
  /\ pc \in {"rollback", "switch"} /\ active = "parent"
  /\ pc' = "accept"
  /\ UNCHANGED <<active, genVars, linkVars, connVars, running, histVars, boundVars>>

\* Either fails: the error closes the connection and the canary stays Reverting.
RollbackFailed ==
  /\ pc \in {"rollback", "switch"} /\ active = "parent"
  /\ Closed
  /\ UNCHANGED <<active, genVars, linkVars, running, histVars, boundVars>>

\* Whatever canary is staged by now is marked Reverted, and the order is sent.
MarkReverted ==
  /\ pc = "mark"
  /\ state' = (IF canary = NoGen THEN state ELSE "Reverted")
  /\ ordered' = TRUE
  /\ pc' = "recv"
  /\ UNCHANGED <<active, canary, pid, txs, errs, linkVars, connVars, running, proved, guilty, raced,
                 boundVars>>

-----------------------------------------------------------------------------
Terminated ==
  /\ pc = "stopped"
  /\ UNCHANGED supVars

Timers == SilentTimeout \/ ChallengeTimeout

RollbackSteps == SwapActive \/ SwitchSocket \/ MarkReverted

SupNext ==
  \/ \E g \in Gens : stage_canary(g)
  \/ Shutdown \/ Accept \/ ServerExits \/ RecvFailed
  \/ Timers
  \/ \E f \in ReadyFrames : RecvReady(f)
  \/ ChallengeOk \/ ChallengeFailed
  \/ \E f \in HeartbeatFrames \union ReportFrames \union OtherFrames : RecvRefused(f)
  \/ \E f \in HeartbeatFrames : RecvHeartbeat(f)
  \/ \E f \in ReportFrames : RecvReport(f)
  \/ \E f \in OtherFrames : RecvOther(f)
  \/ RollbackSteps \/ RollbackFailed
  \/ Terminated

SupSpec == SupInit /\ [][SupNext]_supVars

\* Timeouts fire, and the server task is scheduled.
SupFairness == WF_supVars(Timers) /\ WF_supVars(RollbackSteps) /\ WF_supVars(ServerExits)

FairSupSpec == SupSpec /\ SupFairness

-----------------------------------------------------------------------------
(* Properties. *)

\* Every variable has its type; authentication belongs to one connection, which
\* proved its generation.
SupTypeOK ==
  /\ active \in {"parent", "none"}
  /\ canary \in Gens \union {NoGen}
  /\ state \in States
  /\ pid \in BOOLEAN
  /\ txs \in Nat /\ errs \in Nat
  /\ link \in {"parent", "elsewhere"} /\ sock \in {"parent", "elsewhere"}
  /\ pc \in {"accept", "recv", "challenge", "rollback", "switch", "mark", "stopped"}
  /\ auth \in Gens \union {"none", "unauth"}
  /\ expected \in Gens \union {NoGen}
  /\ running \in BOOLEAN
  /\ proved \subseteq Gens /\ guilty \subseteq Gens
  /\ raced \in BOOLEAN /\ ordered \in BOOLEAN
  /\ (auth = "none") <=> (pc \in {"accept", "stopped"})
  /\ (auth \in Gens) => (auth \in proved)
  /\ (expected # NoGen) <=> (pc = "challenge")
  /\ conns \in Nat /\ frames \in Nat /\ stages \in Nat

\* "Only a versioned Ready for the canary generation plus a verified HMAC makes it
\* Authenticated" (process_worker_message): a canary is Ready or CanaryActive only
\* when a worker of that generation answered a challenge, even when canaries are
\* staged while challenges are pending.
ProvedBeforeActive == state \in {"Ready", "CanaryActive"} => canary \in proved

\* "A rejection never triggers a rollback" (reject): the active links move, and a
\* canary is reverted, only after that canary broke a budget on a connection it had
\* authenticated. The exception is a canary staged while another's rollback runs.
RollbackNeedsMisbehaviour ==
  /\ "parent" \in {link, sock} => guilty # {}
  /\ state \in {"Reverting", "Reverted"} => canary \in guilty \/ raced

\* A worker is told RevertOrder only after both active links are back at the parent.
OrderAfterSwitch == ordered /\ active = "parent" => link = "parent" /\ sock = "parent"

\* "Silence must not hold the server" (run_server): a connection that has not
\* authenticated is released, or authenticates.
UnauthenticatedReleased == (auth = "unauth") ~> (auth # "unauth")

-----------------------------------------------------------------------------
(* The inductive invariant behind the safety properties, by parts. *)

\* While a rollback runs, somebody is guilty of it, and it is the canary unless
\* another was staged meanwhile.
RollbackHasCause ==
  InRollback =>
    /\ guilty # {}
    /\ (state = "Reverting" /\ canary \in guilty) \/ raced

\* The rollback switches the links in order, and they stay switched.
RollbackProgress ==
  active = "parent" =>
    /\ pc \in {"switch", "mark"} => link = "parent"
    /\ pc = "mark" => sock = "parent"

SupInv ==
  /\ SupTypeOK
  /\ ProvedBeforeActive
  /\ RollbackNeedsMisbehaviour
  /\ OrderAfterSwitch
  /\ RollbackHasCause
  /\ RollbackProgress

-----------------------------------------------------------------------------
(* What the documentation says and the code does not keep. *)

\* "CanaryReport is a diagnostic that can only make the supervisor more cautious"
\* (process_worker_message): no step takes a reverted canary back to CanaryActive.
ReportOnlyMoreCautious ==
  [][(state \in {"Reverting", "Reverted"}) => (state' # "CanaryActive")]_supVars
=============================================================================
