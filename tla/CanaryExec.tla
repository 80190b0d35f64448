----------------------------- MODULE CanaryExec -----------------------------
(***************************************************************************)
(* The canary executor of src/src/supervisor/canary_exec.rs over the       *)
(* observation log, up to the quota decision of canary/admission.rs.       *)
(*                                                                         *)
(* The supervisor opens the log, launches the candidate, waits for an      *)
(* authenticated connection, issues the requests of the workload one at a  *)
(* time and records one observation each, then seals and asks for          *)
(* admission.  The worker is the candidate: it may send anything, in any   *)
(* order, at any time, or close the connection.  The supervisor may be     *)
(* killed, or lose power, between any two steps, and be started again on   *)
(* the same log.                                                           *)
(***************************************************************************)
EXTENDS ObservationLog, FiniteSets

CONSTANTS
  NumRequests,  \* requests of the pinned workload; request r is the r-th
  Target,       \* config.canary_target
  Capacity,     \* requests that fit in the socket's buffer, unread by the worker
  MaxMsgs,      \* bound: frames and connections that reach the socket over all runs,
                \* diagnostics sent after the deadline not counted
  MaxRuns,      \* bound: calls of run() on this log
  MaxFaults     \* bound: failed writes, crashes and power failures

Workload == 1..NumRequests

ASSUME ExecAssumption ==
  /\ NumRequests \in Nat \ {0}
  /\ Target \in Nat \ {0}
  /\ Ids = Workload
  /\ Statuses = {"success", "wrong_result", "timeout", "invalid_response", "connection_closed"}
  /\ Success = "success"
  /\ Capacity \in Nat
  /\ {MaxMsgs, MaxRuns, MaxFaults} \subseteq Nat

VARIABLES
  pc,        \* where run() is
  binding,   \* the identity the current run was started for
  gen,       \* GenerationInfo.state of the candidate
  conn,      \* the authenticated connection: "none", "up", "closed"
  inbox,     \* frames sent on it and not yet read
  unread,    \* requests sent on it that the worker has not read
  late,      \* the deadline of the open request has passed
  verdict,   \* the status found for the open request
  revert,    \* the run is an early safety revert
  strays,    \* reasons the stray guard has pushed to the shared list
  draining,  \* reasons drain_strays has taken and not yet appended
  admitted,  \* admit_sealed_quota's answer: "none", "yes", "no"
  issued,    \* history: requests issued in this run
  good,      \* history: correct results sent in time for an issued request,
             \* as <<binding, request>>
  ahead,     \* history: requests whose correct result was already waiting, unread,
             \* when they were issued
  msgs, runs, faults   \* bounds

runVars == <<conn, inbox, unread, late, verdict, revert, strays, draining, issued>>
boundVars == <<msgs, runs, faults>>
execVars == <<pc, binding, gen, runVars, admitted, good, ahead, boundVars>>
vars == <<logVars, execVars>>

-----------------------------------------------------------------------------
(* Worker frames (supervisor/ipc.rs WorkerMessage), by what await_result tells *)
(* apart.  from: the frame names the candidate's generation ("own"), names     *)
(* another ("foreign"), or is the candidate's in another protocol version.     *)

AnswerFrames == [type : {"result"}, req : Workload, from : {"own"}, output : {"good", "bad"}]
MislabelledFrames ==
  [type : {"result"}, req : Workload, from : {"foreign", "old_version"}, output : {"bad"}]
\* Heartbeat and CanaryReport are diagnostics; "other" is DrainComplete, Ready or
\* AuthResponse; "undecodable" a line that is no frame.
ReportFrames == [type : {"diagnostic"}, from : {"own", "foreign"}]
PlainFrames == [type : {"other", "undecodable"}]
Frames == AnswerFrames \union MislabelledFrames \union ReportFrames \union PlainFrames

\* The requests not yet observed, and the one that is open: the first of them.
Pending == Workload \ {o.id : o \in seen}
OpenRequest == CHOOSE r \in Pending : \A q \in Pending : r <= q

\* Fault: a result is taken for the open request whatever request it names.
Classify_AnyRequest(f, r) ==
  CASE f.type = "undecodable" -> "invalid_response"
    [] f.type = "other" -> "reject"
    [] f.type = "diagnostic" -> IF f.from = "own" THEN "ignore" ELSE "reject_close"
    [] f.type = "result" -> IF f.from = "own" THEN "answer" ELSE "invalid_response"

\* What await_result does with a frame while request r is open: end the wait with
\* a status, log a rejection and go on ("reject"), log one and close the
\* connection ("reject_close"), or ignore it.
Classify(f, r) ==
  CASE f.type = "undecodable" -> "invalid_response"
    [] f.type = "other" -> "reject"
    [] f.type = "diagnostic" -> IF f.from = "own" THEN "ignore" ELSE "reject_close"
    [] f.type = "result" /\ f.req = r ->
         IF f.from = "own" THEN "answer" ELSE "invalid_response"
    [] f.type = "result" /\ f.req # r ->
         IF f.from = "foreign" THEN "reject_close" ELSE "reject"

\* The status of an answer: recomputed from the bytes received, then from the
\* supervisor's clock.
AnswerStatus(f) ==
  IF late THEN "timeout" ELSE IF f.output = "good" THEN "success" ELSE "wrong_result"

\* The candidate's result, with the output the supervisor recomputes.
IsCorrect(f) == f.type = "result" /\ f.from = "own" /\ f.output = "good"

Observation(r, status) == [id |-> r, status |-> status, binding |-> binding]

\* record_rejection: the append may fail, and the failure is ignored.
record_rejection ==
  \/ RejectionOk /\ UNCHANGED faults
  \/ RejectionErr /\ faults < MaxFaults /\ faults' = faults + 1

\* A run is over: the socket, the worker and everything run() held are gone.
RunGone ==
  /\ conn' = "none" /\ inbox' = <<>> /\ unread' = 0 /\ late' = FALSE /\ verdict' = "none"
  /\ revert' = FALSE /\ strays' = 0 /\ draining' = 0 /\ issued' = {}

-----------------------------------------------------------------------------
ExecInit ==
  /\ Init
  /\ pc = "idle"
  /\ binding = header
  /\ gen = "Staged"
  /\ conn = "none" /\ inbox = <<>> /\ unread = 0 /\ late = FALSE /\ verdict = "none"
  /\ revert = FALSE /\ strays = 0 /\ draining = 0 /\ issued = {}
  /\ admitted = "none"
  /\ good = {} /\ ahead = {}
  /\ msgs = 0 /\ runs = 0 /\ faults = 0

\* run() for the identity b: the log is created, reopened or refused.
StartRun(b) ==
  /\ pc = "idle" /\ runs < MaxRuns
  /\ runs' = runs + 1
  /\ binding' = b
  /\ gen' = "Staged"
  /\ \/ /\ CreateOk(b) \/ Reopen(b)
        /\ pc' = "opened"
        /\ UNCHANGED faults
     \/ /\ CreateErr(b)
        /\ faults < MaxFaults /\ faults' = faults + 1
        /\ UNCHANGED pc
     \/ /\ exists /\ ~Reopenable(b)
        /\ UNCHANGED <<logVars, pc, faults>>
  /\ UNCHANGED <<runVars, admitted, good, ahead, msgs>>

\* The earlier run's records are scanned: a stored failure ends this run as a
\* revert, and with nothing left to do the log is sealed as it is.
Recover ==
  /\ pc = "opened"
  /\ \/ /\ \E o \in seen : o.status # Success
        /\ pc' = "finish" /\ revert' = TRUE
     \/ /\ \A o \in seen : o.status = Success
        /\ Pending = {}
        /\ pc' = "finish" /\ UNCHANGED revert
  /\ UNCHANGED <<logVars, binding, gen, conn, inbox, unread, late, verdict, strays, draining,
                 issued, admitted, good, ahead, boundVars>>

\* Fault: failures stored by an earlier run are not looked for.
SpawnWorker_IgnoresPriorFailure ==
  /\ pc = "opened"
  /\ Pending # {}
  /\ pc' = "readiness"
  /\ gen' = "Starting"
  /\ UNCHANGED <<logVars, binding, runVars, admitted, good, ahead, boundVars>>

\* The socket is bound and the worker spawned.
SpawnWorker ==
  /\ pc = "opened"
  /\ \A o \in seen : o.status = Success
  /\ Pending # {}
  /\ pc' = "readiness"
  /\ gen' = "Starting"
  /\ UNCHANGED <<logVars, binding, runVars, admitted, good, ahead, boundVars>>

\* Binding the socket or spawning the worker failed: run() returns the error.
SpawnFailed ==
  /\ pc = "opened"
  /\ \A o \in seen : o.status = Success
  /\ Pending # {}
  /\ Drop
  /\ pc' = "idle"
  /\ UNCHANGED <<binding, gen, runVars, admitted, good, ahead, boundVars>>

\* A connection completed the versioned handshake within the deadline.
Authenticated ==
  /\ pc = "readiness"
  /\ pc' = "loop"
  /\ conn' = "up"
  /\ gen' = "CanaryActive"
  /\ UNCHANGED <<logVars, binding, inbox, unread, late, verdict, revert, strays, draining, issued,
                 admitted, good, ahead, boundVars>>

\* A connection failed the handshake: logged as a rejection, the wait goes on.
HandshakeFailed ==
  /\ pc = "readiness" /\ msgs < MaxMsgs
  /\ msgs' = msgs + 1
  /\ record_rejection
  /\ UNCHANGED <<pc, binding, gen, runVars, admitted, good, ahead, runs>>

\* The readiness deadline passed, or the worker exited before it was ready.
NotReady ==
  /\ pc = "readiness"
  /\ pc' = "finish"
  /\ revert' = TRUE
  /\ UNCHANGED <<logVars, binding, gen, conn, inbox, unread, late, verdict, strays, draining,
                 issued, admitted, good, ahead, boundVars>>

\* drain_strays takes the shared list...
TakeStrays ==
  /\ pc = "loop"
  /\ pc' = "drain"
  /\ draining' = strays
  /\ strays' = 0
  /\ UNCHANGED <<logVars, binding, gen, conn, inbox, unread, late, verdict, revert, issued,
                 admitted, good, ahead, boundVars>>

\* ... and appends one rejection for each reason.
DrainStray ==
  /\ pc = "drain" /\ draining > 0
  /\ record_rejection
  /\ draining' = draining - 1
  /\ UNCHANGED <<pc, binding, gen, conn, inbox, unread, late, verdict, revert, strays, issued,
                 admitted, good, ahead, msgs, runs>>

\* The next request becomes the open one and its clock starts. What
\* the worker sent before stays unread in the socket; await_result does not tell
\* it from an answer.
IssueRequest ==
  /\ pc = "drain" /\ draining = 0
  /\ ~revert /\ Pending # {}
  /\ issued' = issued \union {OpenRequest}
  /\ ahead' = IF \E i \in DOMAIN inbox : IsCorrect(inbox[i]) /\ inbox[i].req = OpenRequest
              THEN ahead \union {<<binding, OpenRequest>>} ELSE ahead
  /\ late' = FALSE
  /\ pc' = "send"
  /\ UNCHANGED <<logVars, binding, gen, conn, inbox, unread, verdict, revert, strays, draining,
                 admitted, good, boundVars>>

\* conn.send has no deadline: it waits until the request fits in the socket's
\* buffer, or fails on a closed connection (a close it has not noticed yet may
\* still let it succeed).
SendRequest ==
  /\ pc = "send"
  /\ \/ /\ unread < Capacity
        /\ unread' = unread + 1
        /\ pc' = "await" /\ UNCHANGED verdict
     \/ /\ conn = "closed"
        /\ pc' = "record" /\ verdict' = "connection_closed"
        /\ UNCHANGED unread
  /\ UNCHANGED <<logVars, binding, gen, conn, inbox, late, revert, strays, draining, issued,
                 admitted, good, ahead, boundVars>>

\* Frames that leave the request open.
ReceiveIgnored ==
  /\ pc = "await" /\ inbox # <<>>
  /\ Classify(Head(inbox), OpenRequest) = "ignore"
  /\ inbox' = Tail(inbox)
  /\ UNCHANGED <<logVars, pc, binding, gen, conn, unread, late, verdict, revert, strays, draining,
                 issued, admitted, good, ahead, boundVars>>

ReceiveRejected ==
  /\ pc = "await" /\ inbox # <<>>
  /\ Classify(Head(inbox), OpenRequest) = "reject"
  /\ record_rejection
  /\ inbox' = Tail(inbox)
  /\ UNCHANGED <<pc, binding, gen, conn, unread, late, verdict, revert, strays, draining, issued,
                 admitted, good, ahead, msgs, runs>>

\* A frame that names another generation: logged, and the request is recorded as
\* ConnectionClosed.
ReceiveForeign ==
  /\ pc = "await" /\ inbox # <<>>
  /\ Classify(Head(inbox), OpenRequest) = "reject_close"
  /\ record_rejection
  /\ inbox' = Tail(inbox)
  /\ verdict' = "connection_closed"
  /\ pc' = "record"
  /\ UNCHANGED <<binding, gen, conn, unread, late, revert, strays, draining, issued, admitted,
                 good, ahead, msgs, runs>>

ReceiveInvalid ==
  /\ pc = "await" /\ inbox # <<>>
  /\ Classify(Head(inbox), OpenRequest) = "invalid_response"
  /\ inbox' = Tail(inbox)
  /\ verdict' = "invalid_response"
  /\ pc' = "record"
  /\ UNCHANGED <<logVars, binding, gen, conn, unread, late, revert, strays, draining, issued,
                 admitted, good, ahead, boundVars>>

\* The result of the open request, with the memory budget still to be read when
\* it is a success.
ReceiveAnswer ==
  /\ pc = "await" /\ inbox # <<>>
  /\ Classify(Head(inbox), OpenRequest) = "answer"
  /\ inbox' = Tail(inbox)
  /\ verdict' = AnswerStatus(Head(inbox))
  /\ pc' = IF AnswerStatus(Head(inbox)) = Success THEN "budget" ELSE "record"
  /\ UNCHANGED <<logVars, binding, gen, conn, unread, late, revert, strays, draining, issued,
                 admitted, good, ahead, boundVars>>

\* Fault: the wait has no deadline of its own.
AwaitTimeout_OnlyIfClosed ==
  /\ pc = "await" /\ late /\ conn = "closed"
  /\ verdict' = "timeout"
  /\ pc' = "record"
  /\ UNCHANGED <<logVars, binding, gen, conn, inbox, unread, late, revert, strays, draining,
                 issued, admitted, good, ahead, boundVars>>

\* timeout_at fires. It polls the socket before the clock, so a frame that has
\* arrived by then is read first, unless it arrives between the two polls.
AwaitTimeout ==
  /\ pc = "await" /\ late
  /\ verdict' = "timeout"
  /\ pc' = "record"
  /\ UNCHANGED <<logVars, binding, gen, conn, inbox, unread, late, revert, strays, draining,
                 issued, admitted, good, ahead, boundVars>>

PeerClosed ==
  /\ pc = "await" /\ conn = "closed" /\ inbox = <<>>
  /\ verdict' = "connection_closed"
  /\ pc' = "record"
  /\ UNCHANGED <<logVars, binding, gen, conn, inbox, unread, late, revert, strays, draining,
                 issued, admitted, good, ahead, boundVars>>

WithinBudget ==
  /\ pc = "budget"
  /\ pc' = "record"
  /\ UNCHANGED <<logVars, binding, gen, runVars, admitted, good, ahead, boundVars>>

\* The worker is above its memory limit, or its memory cannot be read: a
\* rejection is logged, no observation is recorded, the run reverts.
OverBudget ==
  /\ pc = "budget"
  /\ record_rejection
  /\ revert' = TRUE
  /\ verdict' = "none"
  /\ pc' = "loop"
  /\ UNCHANGED <<binding, gen, conn, inbox, unread, late, strays, draining, issued, admitted,
                 good, ahead, msgs, runs>>

\* Fault: a failed observation does not end the loop.
RecordObservation_GoesOn ==
  /\ pc = "record"
  /\ AppendOk(Observation(OpenRequest, verdict))
  /\ verdict' = "none"
  /\ pc' = "loop"
  /\ UNCHANGED <<conn, inbox, unread, late, strays, draining, issued, gen, faults, revert>>
  /\ UNCHANGED <<binding, admitted, good, ahead, msgs, runs>>

\* append_observation; its error is run()'s error.
RecordObservation ==
  /\ pc = "record"
  /\ \/ /\ AppendOk(Observation(OpenRequest, verdict))
        /\ revert' = (verdict # Success)
        /\ verdict' = "none"
        /\ pc' = "loop"
        /\ UNCHANGED <<conn, inbox, unread, late, strays, draining, issued, gen, faults>>
     \/ /\ AppendErr(Observation(OpenRequest, verdict))
        /\ faults < MaxFaults /\ faults' = faults + 1
        /\ RunGone
        /\ pc' = "idle"
        /\ UNCHANGED gen
  /\ UNCHANGED <<binding, admitted, good, ahead, msgs, runs>>

\* halt_after_requests: run() stops right after a recorded success, unsealed.
Halt ==
  /\ pc = "loop" /\ ~revert /\ issued # {}
  /\ Drop
  /\ RunGone
  /\ pc' = "idle"
  /\ UNCHANGED <<binding, gen, admitted, good, ahead, boundVars>>

\* The loop is over (all issued, or a revert): the worker is stopped.
StopWorker ==
  /\ pc = "drain" /\ draining = 0
  /\ revert \/ Pending = {}
  /\ pc' = "finish"
  /\ conn' = "none" /\ inbox' = <<>> /\ unread' = 0
  /\ UNCHANGED <<logVars, binding, gen, late, verdict, revert, strays, draining, issued, admitted,
                 good, ahead, boundVars>>

\* finish: a revert marks the generation, then the log is sealed.
Finish ==
  /\ pc = "finish"
  /\ gen' = IF revert THEN "Reverting" ELSE gen
  /\ \/ /\ SealOk
        /\ pc' = IF result'.sealed THEN "sealed" ELSE "idle"
        /\ UNCHANGED faults
     \/ /\ SealErr
        /\ pc' = "idle"
        /\ faults < MaxFaults /\ faults' = faults + 1
     \/ /\ SealRefused
        /\ pc' = "idle"
        /\ UNCHANGED faults
  /\ RunGone
  /\ UNCHANGED <<binding, admitted, good, ahead, msgs, runs>>

\* Fault: any observation counts.
admit_sealed_quota_AnyStatus(obs) ==
  /\ obs # {}
  /\ \A o \in obs : o.binding = binding /\ o.id \in Workload
  /\ Cardinality(obs) >= Target

\* admit_sealed_quota: every observation qualifies, and enough of them.
admit_sealed_quota(obs) ==
  /\ obs # {}
  /\ \A o \in obs : /\ o.binding = binding
                    /\ o.status = Success
                    /\ o.id \in Workload
  /\ Cardinality(obs) >= Target

Admission ==
  /\ pc = "sealed"
  /\ pc' = "done"
  /\ admitted' = IF admit_sealed_quota(result.observations) THEN "yes" ELSE "no"
  /\ UNCHANGED <<logVars, binding, gen, runVars, good, ahead, boundVars>>

-----------------------------------------------------------------------------
(* The worker, the clock, strangers and faults. *)

Connected == conn = "up" /\ pc \in {"loop", "drain", "send", "await", "budget", "record"}

\* A correct result sent for a request of this run that has been issued, before the
\* deadline.
IsGood(f) == IsCorrect(f) /\ f.req \in issued /\ ~late

WorkerSends(f) ==
  /\ Connected /\ msgs < MaxMsgs
  /\ msgs' = msgs + 1
  /\ inbox' = Append(inbox, f)
  /\ good' = IF IsGood(f) THEN good \union {<<binding, f.req>>} ELSE good
  /\ UNCHANGED <<logVars, pc, binding, gen, conn, unread, late, verdict, revert, strays, draining,
                 issued, admitted, ahead, runs, faults>>

\* There is no bound on the frames the executor reads while it waits, so after the
\* deadline diagnostics may come for ever. (Before it they are counted by MaxMsgs:
\* the clock ends that part of the wait whatever comes.)
WorkerFloods ==
  /\ Connected /\ pc = "await" /\ late /\ inbox = <<>>
  /\ inbox' = <<[type |-> "diagnostic", from |-> "own"]>>
  /\ UNCHANGED <<logVars, pc, binding, gen, conn, unread, late, verdict, revert, strays, draining,
                 issued, admitted, good, ahead, boundVars>>

WorkerReads ==
  /\ Connected /\ unread > 0
  /\ unread' = unread - 1
  /\ UNCHANGED <<logVars, pc, binding, gen, conn, inbox, late, verdict, revert, strays, draining,
                 issued, admitted, good, ahead, boundVars>>

WorkerCloses ==
  /\ Connected
  /\ conn' = "closed"
  /\ UNCHANGED <<logVars, pc, binding, gen, inbox, unread, late, verdict, revert, strays,
                 draining, issued, admitted, good, ahead, boundVars>>

\* The guard task logs a connection that never authenticated.
StrayConnects ==
  /\ pc \in {"loop", "drain", "send", "await", "budget", "record"}
  /\ msgs < MaxMsgs
  /\ msgs' = msgs + 1
  /\ strays' = strays + 1
  /\ UNCHANGED <<logVars, pc, binding, gen, conn, inbox, unread, late, verdict, revert, draining,
                 issued, admitted, good, ahead, runs, faults>>

DeadlinePasses ==
  /\ pc \in {"send", "await"} /\ ~late
  /\ late' = TRUE
  /\ UNCHANGED <<logVars, pc, binding, gen, conn, inbox, unread, verdict, revert, strays,
                 draining, issued, admitted, good, ahead, boundVars>>

\* The supervisor process is killed, or the machine loses power. After the run
\* ended only the file is left to lose.
Crash ==
  /\ pc # "idle" /\ pc # "done"
  /\ faults < MaxFaults /\ faults' = faults + 1
  /\ Drop \/ PowerFail
  /\ pc' = "idle"
  /\ gen' = "Staged"
  /\ RunGone
  /\ UNCHANGED <<binding, admitted, good, ahead, msgs, runs>>

PowerFailIdle ==
  /\ pc \in {"idle", "done"}
  /\ faults < MaxFaults /\ faults' = faults + 1
  /\ PowerFail
  /\ UNCHANGED <<pc, binding, gen, runVars, admitted, good, ahead, msgs, runs>>

Executor ==
  \/ Recover \/ SpawnWorker \/ SpawnFailed
  \/ TakeStrays \/ DrainStray \/ IssueRequest \/ SendRequest
  \/ ReceiveIgnored \/ ReceiveRejected \/ ReceiveForeign \/ ReceiveInvalid \/ ReceiveAnswer
  \/ AwaitTimeout \/ PeerClosed
  \/ WithinBudget \/ OverBudget
  \/ RecordObservation \/ Halt \/ StopWorker \/ Finish \/ Admission

Environment ==
  \/ Authenticated \/ HandshakeFailed
  \/ \E f \in Frames : WorkerSends(f)
  \/ WorkerFloods \/ WorkerReads \/ WorkerCloses \/ StrayConnects
  \/ Crash \/ PowerFailIdle

\* Timers: each fires some time after it is armed.
Timers == NotReady \/ DeadlinePasses

\* Nothing is left to do: the run was decided, or no more runs are allowed.
Terminated ==
  /\ pc = "done" \/ (pc = "idle" /\ runs = MaxRuns)
  /\ UNCHANGED vars

ExecNext ==
  \/ \E b \in Bindings : StartRun(b)
  \/ Executor \/ Environment \/ Timers
  \/ Terminated

ExecSpec == ExecInit /\ [][ExecNext]_vars

\* The executor task is scheduled whenever it can run, and its timers fire.
Fairness == WF_vars(Executor) /\ WF_vars(Timers)

FairExecSpec == ExecSpec /\ Fairness

-----------------------------------------------------------------------------
(* Properties. *)

\* The requests a correct result was sent for, in time or ahead of the request.
Answered == good \union ahead

\* "No candidate-controlled statement can independently establish that a canary
\* passed" (canary_exec.rs): a stored success is backed by a correct result that the
\* authenticated worker of that very identity sent, whatever else it sent, and
\* however often the supervisor was killed in between: sent in time for the issued
\* request, or already waiting in the socket when that request was issued. The
\* second case is one the documents rule out ("an unsolicited response creates
\* nothing") and await_result lets through.
NoFabricatedSuccess ==
  \A o \in StoredObservations(lines) : o.status = Success => <<o.binding, o.id>> \in Answered

\* Across crashes and restarts an intact log holds the first requests of the
\* workload, each once and in order, and only the last of them may be a failure.
ObservedPrefix ==
  ~Corrupt(lines) =>
    \E k \in 0..NumRequests :
      /\ {o.id : o \in StoredObservations(lines)} = 1..k
      /\ \A o \in StoredObservations(lines) : o.status # Success => o.id = k

\* An admitted candidate really answered at least Target requests correctly, and
\* no failure was ever acknowledged for it, in this run or an earlier one.
AdmissionSound ==
  admitted = "yes" =>
    /\ Cardinality({r \in Workload : <<binding, r>> \in Answered}) >= Target
    /\ \A o \in acked : o.status = Success

\* "Failures stay failures" (canary_exec.rs): after a failure is acknowledged no run
\* issues another request.
NoIssueAfterFailure ==
  [][(\E o \in acked : o.status # Success) => issued' \subseteq issued]_vars

\* The deadline of the open request has passed and a frame is there to be read.
Flooded == pc = "await" /\ late /\ inbox # <<>>

\* A run that was started ends, as long as the socket takes the requests: readiness
\* and every result are waited for with a deadline. One worker can prevent it: the
\* wait reads the socket before it looks at the clock, so frames that keep coming
\* for ever after the deadline keep the run from ending; nothing else does.
RunEnds == []<>Flooded \/ ((pc # "idle") ~> (pc \in {"idle", "done"}))

-----------------------------------------------------------------------------
(* What the documentation says and the code does not keep. *)

\* "Rolling back the active generation is the caller's job" (finish): a candidate
\* whose run was a safety revert is not admitted.
RevertedNotAdmitted == admitted = "yes" => gen # "Reverting"
=============================================================================
