# TLA+ models of spark-rsi

This directory models the parts of spark-rsi that decide whether a change the
program proposes about itself becomes active: the canary and its evidence, the
supervisor, the ledger, the improvement cycle, the separate judge, the soak run, the
stage measurements the cycle starts from and the review branch it ends with. TLC checks the models on
small instances; TLAPS proves the main safety properties for every instance.
Source paths are relative to the repository root's `src/` (Rust sources).

## 1. The system

`RsiEngine::run_cycle` (daemon.rs) observes the repository, ranks its own
pipeline stages by measurements of earlier cycles, asks the proposers for
candidates, and takes each candidate through claim policy, target and tier
gates, sandbox, build jail, invariant verification and the blind judge. The first
candidate the judge admits is staged as a generation; the supervisor runs it as a
canary, the observations go to a sealed log, the sealed log is committed to the
ledger and admitted against a quota; then come the safety envelope, the promotion
gate, the swap of the active link, the promotion block and a review branch.
Anything else is a rollback. `run_daemon` repeats this; the command line runs
single cycles and audits on the same files.

| component | state | operations | hard behaviour |
|---|---|---|---|
| observation log (`canary/log.rs`) | one JSONL file per generation, the writer's header and id map | create, reopen, append observation or rejection, seal, read back | torn and unsynced writes, kills, power loss, reopening a torn, foreign or sealed file |
| canary executor (`supervisor/canary_exec.rs`, `canary/admission.rs`) | the run: connection, open request, deadline, stray list; the generation's state | launch, wait for the worker, issue, await, record, seal, quota | an arbitrary worker; results early, late, duplicated, foreign; deadlines; restarts on the same log; a full socket buffer |
| host supervisor (`supervisor/daemon.rs`, `mod.rs`, `ipc.rs`) | active and canary generation, links, the served connection | stage, challenge, heartbeats and reports, budgets, rollback, serve loop, shutdown | staging interleaves with a challenge or a rollback; half a rollback; a silent peer on a serial server |
| improvement ledger (`ledger/`) | SQLite tables of blocks and checkpoints, blob files | open and genesis, append, checkpoint, audit | several processes, two statements per append, kills, power loss under WAL |
| improvement cycle (`daemon.rs`, `promotion_gate.rs`, `safety_envelope.rs`, `ratify.rs`) | the locals of a cycle; shared ledger, output root, links, sample logs, branches | the sequence above | several engines and no lock; most ledger appends ignore their error and some do not; a kill between swap and record |
| diff gate and ratifier (`diff_gate.rs`, `ratify.rs`, `isolation/root_of_trust.rs`) | git objects and branches of the target repository, a directory of patches | normalise and check a target, build a commit off to the side, check the real diff, create the branch, write the patch | the owner works in the same repository; two proposals under one id; a kill between branch and patch |
| blind judge and evaluator (`actor/`, `evaluator/`) | candidate trees, policy file, holdout directory, build directories, signed receipts | load, bind, build, replay, benchmark, diff, decide, sign; the promotion gate | every input is read at several moments and belongs to other processes; what was scored and what was signed may differ |
| measurement (`measure/`, `graph/`) | sample logs | time stages, append, select, rank | writers of one file without a lock, torn lines, windows, foreign profiles, missing values |
| tiers, meta experiments (`meta/`) | none | classify, authorise, A/B fork, three criteria | boundaries of the tiers |
| soak runner (`soak/`) | the run's totals and quarantine tracker in memory; ledger, staged candidates, manifest on disk | preflight, cycles of candidates, selection, staging, checkpoint, manifest | seven ways out of the candidate loop; a kill after staging; others append to the ledger |
| isolation (`isolation/`) | sandboxes, output root, containers | jails, copy, rollback of an edit | shared output root, a failing restore |
| proposers, Cortex and model clients (`propose/`) | none | text generation over HTTP | their answers are arbitrary |
| DUAL diagnostic (`dual/`), command line, configuration, explanation | none | parsing and reporting | read only |

Components call each other in one process; the worker talks to the supervisor over
a Unix socket; separate engines meet only in files (ledger.db and its blobs, links,
sample logs, `/tmp/spark-rsi-target`). What must hold, in one sentence each:

* log: an acknowledged observation is durable, a sealed log is complete and final;
* executor: no success without a correct answer of this candidate to that request, no
  admission with a recorded failure, and every run ends unless it is flooded;
* supervisor: no canary counts as active before its worker proved its generation,
  and none is reverted for what it did not do;
* ledger: one hash chain whatever races, no acknowledged block lost, no false alarm;
* cycle: the active generation has the whole admission sequence behind it;
* judge: a receipt is about the bytes it names, as far as hashing them twice can tell, and
  the holdouts its policy pins;
* soak: manifest, staged candidates and ledger tell the same story;
* measurement: a ranking uses exactly the recent comparable cycles, and missing is not
  zero;
* ratifier: a review branch holds one checked change and is never overwritten.

## 2. Modules

| module | models | composed of |
|---|---|---|
| `EvidenceStore` | what the log promises: a growing set, one observation per id, frozen by the seal | abstract |
| `ObservationLog` | `canary/log.rs` and the order in which the executor calls it | refines `EvidenceStore` |
| `CanaryExec` | one generation's canary runs up to the quota decision | EXTENDS `ObservationLog`; each log call is the log's own action |
| `SupervisorDaemon` | the server loop, message handler, budgets and instant rollback | |
| `ImprovementLedger` | the ledger shared by processes | |
| `RsiCycle` | cycles of several engines on one rsi_root | summarises `CanaryExec` (a sealed log with or without enough successes, or none) and `ImprovementLedger` (an append happens or fails) |
| `BlindJudge` | judge runs on changing trees, policies and holdouts, and the promotion gate | stands beside `RsiCycle`, whose `Receipts` it explains |
| `SoakRunner` | `run_batch` with its tracker and manifest | summarises `ImprovementLedger` as a sequence of blocks |
| `SampleLog` | the sample log file, selection, percentiles and ranking | the detail behind the counters of `RsiCycle` |
| `ReviewBranch` | ratifiers and the repository's owner on one git repository | the detail behind the review step of `RsiCycle` |
| `*_proofs` | theorems and inductive invariants of the module of that name; `CanaryExec_proofs` holds those of `ObservationLog` as well | EXTENDS the module and TLAPS |
| `MC*` | instances for TLC | |

`PROJECT.json` gives, for every definition, the lines it stands for.

### ObservationLog
The file is a sequence of complete lines, a flag for bytes after the last newline,
and the number of lines that are on stable storage. Every `write_synced` has three
outcomes besides success: nothing, a torn line, a whole line that was not synced.
A digest is injective on what it covers: an observation's digest is the
observation, `log_digest` the lines before the seal. `swallowed` records that a
failed `append_rejection` was ignored (`record_rejection`, canary_exec.rs): that is
the one way a garbled line arises, and the properties name it. A power failure may take
a file none of which was synced. One assumption about the file system is not enforced by
the code: `create` syncs the new file and never its directory, and the model takes the
directory entry to be durable once the file is synced, as ext4, xfs and btrfs make it.
Without it a power failure could take a whole log of acknowledged observations.

### CanaryExec
One action for each stretch between two awaits of `run`. The worker is the
candidate and unrestricted: frames are classified by what `await_result` tells
apart (own, foreign or old generation; which request; right or wrong output).
`late` becomes true at any moment a deadline may pass. The stray guard is its own
actor and pushes to the shared list while the executor drains it. The supervisor
may be killed at any step and run again on the same log, for the same or another
identity (`Bindings`). The handshake of `IpcAuth` is one step with two outcomes.
Two history variables say where a correct result came from: `good`, that it was sent for
an issued request before its deadline; `ahead`, that it was already waiting in the socket
when its request was issued. `await_result` cannot tell the two apart. Frames are counted
by `MaxMsgs`, except diagnostics after the deadline (`WorkerFloods`), of which there is no
end.

### SupervisorDaemon
`run_server` is one task and holds one connection at a time; `stage_canary` and
`shutdown` interleave at its awaits: between reading the expected generation and
the end of the challenge, and between the steps of a rollback. The error budget is
the exact fraction `errs * ErrDen > ErrNum * txs`.

### ImprovementLedger
An append is two statements (read the latest row, insert) with the UNIQUE
constraint on the sequence number between them; opening a fresh database,
checkpointing and auditing are two steps as well. A power failure keeps a prefix of
the commits and may spoil blob files that were never synced. Hashes are the tuples
of the hashed fields, Merkle roots the sequences of leaves as the tree pairs them.

### RsiCycle
`eng[e]` holds the place and the locals of one engine's cycle. An append whose
result the code drops (`let _ = ledger.append_block(..)`) is `TryAppend`: the block
may be missing. The three whose error is handled (evaluation, commitment,
promotion) are an action each, with a failing counterpart. What verification, judge,
envelope and diff checks decide is nondeterministic: the model is about what
follows from each answer. One adapter path in the output root is modelled, the case
in which candidates can disturb each other. The judge inside the engine issues
version 1 receipts and the gate refuses them, so today's engine promotes nothing;
the code after the gate is written for the receipt of a separate judge, and the
constant `Receipts` says which receipts may arrive. Each cycle makes a new
supervisor without an active generation, so `roll_back` moves no link.

### BlindJudge
A judge run is the sequence of reads of `evaluate_cycle`: suites, policy binding,
comparison of the trees, subject hash, clearing the build directory, build or program
resolution, holdout replay, diff and tests, benchmarks, decision, and for a version 2
receipt the second hash before signing. Each is a step, and the trees may change before
every one. A file's content is a number that stands for its bytes and their SHA-256, 0 for
the parent's bytes; an edit may write any content, that of an earlier moment included.
`seen` collects the contents the steps looked at, so that the receipt can be compared
with what was really evaluated. Three ways to find the programs (`Modes`) share
everything after. Judges may have the same cycle id, as they have by default
(judge.rs:23), and then share a build directory: one clears and fills it under the other.

Two histories name what hashing the subject twice cannot notice, and `ScoreIsOfSubject`
and `PromotedWasJudged` speak of runs without them (`Undisturbed`): `restored`, the bytes
that were hashed first were written back over others; `crossed`, another run wrote to the
build directory while this one ran its programs from it. TLC finds a counterexample when
either is dropped from the properties. Other files of the tree are compared once and not
hashed again; no property speaks of them.

### SoakRunner
`run[r]` holds the locals of `run_batch`; each exit of the candidate loop is an action
of its own, with the record and the count it leaves. A block hash is the block's
position and a root the number of blocks it covers. What the model, the build, the
verifier and the judge answer is arbitrary. A bottleneck has three texts in the code, and
the model keeps them apart: its explanation, which `Choose` asks the tracker for; the text
the tracker counts failures under (`hypothesis_problem`); and the hypothesis's own
`observed_problem`, which goes to the manifest (runner.rs:666). So the manifest's cycles
cannot be matched with the pairings it lists as exhausted; `ExhaustedMeansFailed` counts
the run's cycles by the pairing each was tracked under, a history that is in no file.

### SampleLog
The file is a sequence of pieces: whole lines, and heads and rests of lines that
`write_all` needed two writes for. An append is three steps (look at the tail, cut it,
write), with a kill or an error between any two. The ranking is computed in integers:
the score of `rank_bottlenecks` is multiplied out, and the betweenness of the pipeline,
a path, is the number of pairs a stage lies between. `overlap` records that an append
which cut a tail or wrote in two parts met another append; `LossNeedsOverlap` says that
without it the log reads as exactly the finished records. The filters and the sort of
`try_measure` are written over positions: `Filter` takes what is at the chosen positions
in their order, `Sorted` puts each value at the number of values up to it, equal ones in
their order as a stable sort does.

### ReviewBranch
Paths are sequences of components as `split('/')` yields them, so that `.`, `..`, empty
components and absolute names are told apart and both normalisers of the code can be
written down and compared. A tree maps paths to mode and lines; git itself is modelled
by what the code asks of it (`update-index` refuses a name that is a file and a
directory, `update-ref` with an empty old value creates only). How the code tells the
header lines of a textual diff from added lines is not modelled: a change adds the lines
that were not there before. The owner acts between any two steps. HEAD always names a
branch with a commit.

## 3. Runs

| run | shows | instance |
|---|---|---|
| `log` | durability of acknowledged records, garbling only through an ignored error, a writer that knows all the file holds after every reopen (`SeenCoversFile`), complete and final seals, refinement of `EvidenceStore` | 2 ids, 2 statuses, 2 identities, 5 lines: a header, two observations, a rejection and a seal, so every kind of line can follow every other |
| `canary_exec` | `NoFabricatedSuccess`, `ObservedPrefix`, `AdmissionSound`, `NoIssueAfterFailure`, and that a run ends unless frames keep coming for ever after the deadline (`RunEnds`) | 2 requests, quota 2, 3 frames and any number of diagnostics after the deadline, 2 runs, 1 fault: a result can be early, late or duplicated, and a run can be resumed after a fault; fairness |
| `exec_reverted` (violation) | a run ended by the memory budget is admitted | quota 1 |
| `supervisor` | authentication, cause of every rollback, order of its steps, silent peers released | 2 generations, 2 connections, 4 frames, 3 stagings; error rate 1/2; fairness |
| `supervisor_cautious` (violation) | a report revives a Reverted canary | error rate 0, as the daemon configures it |
| `ledger` | one chain, acknowledged blocks kept, roots determine prefixes, alarms are real, the table only grows | 2 processes, 3 blocks (an odd level of the Merkle tree), 2 checkpoints or audits, 1 kill or power failure |
| `cycle` | the admission sequence, executables from the candidate's own tree, recorded reviews, measured claims | 2 engines, 2 candidates, 3 cycles, 1 fault, 1 sample suffices: a cycle may reuse what another left behind, and two run at once |
| `judge` | scores are of the signed subject unless it was restored or the build directory shared, holdouts as pinned, admitted only if every case and layer passed, promoted only if judged | 2 judges with one cycle id, 2 candidates, the subject as the only file, with 2 contents, 2 policies, 2 holdout sets, 2 edits, 2 runs: enough to edit and restore within a run, to build under another run, and to use a receipt for other bytes. Other files only matter to the comparison before the run |
| `soak` | the manifest accounts for everything, staged candidates are on the ledger, the root covers them, exhausted means failed | 3 cycles of 2 candidates, 2 nodes, exhaustion after 2, one foreign block: a pairing can be exhausted, succeed and fail again |
| `soak_quarantine` (violation) | an exhausted pairing is tried again while another node is free | same |
| `samples` | no record is lost without an overlap, rankings use the recent comparable history, missing is not zero | 2 engines, 4 cycles, 2 contexts, 2 timings, window, minimum and p95 threshold 2: the window slides once, and a torn line can be followed by two more appends |
| `review` | one declared file per review, inside the roots and not protected, reports stand | 2 ratifiers, 3 attempts, 10 proposals under 3 ids, 2 acts of the owner out of 5 kinds, 4 trees |

Bounds limit counts of events only and are conjuncts of the actions that count; all
are named constants. Symmetry is used in `ledger` and `cycle`, whose properties are
invariants and one action property that treat processes, candidates and engines
alike; in `judge`, `soak`, `samples` and `review`, which check invariants only, over
judges, candidates, nodes, engines, contexts or ratifiers, none of which is named in a
definition. The first five models stop when bounds are used up, which is an explicit
stuttering step (`Terminated` and its like), so that deadlock checking stays on. The
judge, the soak run, the cycles of `SampleLog` and the ratifier are commands that end;
their runs do not check for deadlock.

Two mechanisms recur. History variables (`acked`, `good`, `proved`, `guilty`,
`passed`, `mixed`, ...) record what happened so that a state can be compared with
its past; no guard reads them. Definitions named `X_Y` next to an action `X` are
faulty variants that the checked property must reject.

### Fairness
`CanaryExec`: weak fairness of the executor's own steps and of its timers; tokio
polls a ready task and its timers fire. Nothing is assumed of the worker, of
strangers on the socket or of faults. In particular the timeout of a wait is not assumed
to win against frames: `timeout_at` polls `recv` before the deadline (canary_exec.rs:577),
and while there is a frame at each poll the loop goes on. `RunEnds` therefore excepts the
behaviours in which a frame is there again and again after the deadline (`Flooded`), and
TLC refutes it without that exception. `SupervisorDaemon`: weak fairness of the
timers (`IPC` timeouts of the handshake), of the steps of a rollback and of leaving
the loop; nothing of peers. No other run assumes fairness.

### Disagreements found
The three violation runs are quoted with the sentences they contradict in
`PROJECT.json` (findings): a memory revert does not stop quota admission; a self-report
can undo `Reverted`; the soak run's quarantine is filled under one text and asked for
another, so that it never takes effect.

Known limits that the models show or rest on, without a run of their own:

* a torn rejection may swallow the acknowledged observation after it; the log then
  fails closed at the seal (`CorruptionNeedsIgnoredError` characterises it);
* a log whose creation was cut short is refused forever, and one whose directory entry is
  lost with the power is not missed (see the assumption in `ObservationLog`);
* a correct result sent before its request was issued is taken for the answer to it
  (canary_exec.rs:602-611), although the plan says "an unsolicited response creates
  nothing" (docs/plans/2026-10-12-evidence-driven-rsi-cut.md:125) and the comment at
  canary_exec.rs:558 speaks of the issued request; a worker that knows the workload can
  answer it without being asked. `NoFabricatedSuccess` names the case (`ahead`) and TLC
  refutes it for `good` alone;
* a worker that never stops sending diagnostics keeps a run from ending (`RunEnds`);
* a rollback that races with a staging reverts the newly staged canary, and a blob spoiled by
  a power failure raises an alarm: `RollbackNeedsMisbehaviour` and `AuditAlarmsAreReal`
  except just these cases;
* the send of a request has no deadline: with a full socket buffer the executor waits;
* recv on an authenticated supervisor connection has no deadline either;
* a judge does not notice edits of files other than the subject, nor an edit of the subject
  that is undone before the second hash, and two judges with one cycle id share a build
  directory, whereas docs/RECEIPT-V2.md:20 ("the exact bytes of that file as evaluated")
  and evaluator/mod.rs:58 ("so a score cannot be paired with another change") know no
  exception;
* the judge's memory limit compares two readings of a high-water mark over all
  children, so a candidate that stays below an earlier peak shows no growth;
* the soak run chooses its target by a node name that never occurs, so it is always the
  default one, and it ignores errors when it writes the files of a staged candidate;
* appends to the sample log that overlap a cut or a split write can lose finished
  records or make the log unreadable, which turns every stage unavailable;
* a ratifier killed after the branch was created leaves a branch without a patch, and a
  retry under the same id is refused.

## 4. Proofs

All theorems hold for every value of the constants allowed by the named ASSUMEs,
bounds included, so for any number of processes, lines, candidates and faults. Each
strengthened invariant was first checked by TLC on the instance of the component's run.

* `CanaryExec_proofs`, first part, the log: `AcknowledgedIsDurable`, `WriterKnowsTheFile`,
  `CorruptionIsIgnoredError`, `SealedIsComplete`, `SealedIsFinal`,
  `LogImplementsEvidenceStore`. The inductive invariant `LogInv` adds to the checked
  invariants (of which `SeenCoversFile` is the one without which an append could not be
  shown to keep one record per id) type correctness, that an open writer
  meets torn bytes only behind an ignored rejection error (`TornBehindWriter`,
  without which no write could be shown to start on a fresh line), that acknowledged
  observations are durable or a durable garbled line stops the log for good
  (`AckedOrCorrupt`), and what the file is once `seal` has returned (`SealedFile`).
  The refinement maps `stored` to the observations in the synced prefix and `frozen`
  to a seal that was returned.
* `CanaryExec_proofs`, second part, the executor: `ExecutorUsesTheLog`, `SuccessIsEarned`, `LogHoldsPrefix`,
  `AdmissionIsSound`, `FailureEndsIssuing`. Every executor step is a step of the log's
  specification or leaves the log alone, so `LogInv` holds here too and `ExecInv` only adds what a particular client brings. Its
  parts: a writer remembers what was acknowledged, in earlier runs too; every intact
  beginning of the file holds a prefix of the workload, and not just the whole file does,
  because a power failure cuts the file anywhere behind the synced lines; and for each
  place of the executor what it has behind it (which request is open, which result was
  sent in time or ahead, that no failure is acknowledged while it may still issue). The quota is a count,
  and `AdmissionIsSound` rests on the library's cardinality facts: the successes that
  admission counts map one to one to good answers of this identity.
* `SupervisorDaemon_proofs`: `SupervisorTypeCorrect`, `ActiveCanaryProved`,
  `RollbackIsEarned`, `RevertOrderIsLate`. `SupInv` adds that a rollback under way
  has a cause and how far its links have moved at each of its places.
* `ImprovementLedger_proofs`: `ConcurrentAppendsChain`, `AcknowledgedBlocksStay`,
  `TableOnlyGrows`, `AuditsAreReal`, `RootsTellPrefixes`. `LedgerInv` adds that the block
  a process read is still in the chain; together with "sequence number = position" and the
  UNIQUE constraint it follows that an insert which succeeds extends the last row.
  `AuditInv` adds that what a checkpoint or an audit read is a prefix of the table, that
  a stored checkpoint is the root of a prefix that was there when it was stored (its
  place in the order of commits, so that a power failure takes it along with the rows),
  that an audit which was not overtaken has read every covered block, and that blobs are
  in place up to a power failure. `RootsTellPrefixes` follows from the chain alone: the
  last node of each level is a pair whose second part is the last node of the level
  below, in even and in odd levels, so a root leads down to the hash of its last block,
  which holds the sequence number; and a leaf, the hash of five fields, is no pair.
* `RsiCycle_proofs`: `CycleTypeCorrect`, `PromotionIsEarned`, `ReviewsAreRecorded`,
  `ExecutableIsFromTree`, `ClaimsRestOnCycles`. `PromotionInv` says for each place of the
  cycle what the engine has behind it (`EarnedSoFar`), and that what is rolled back or
  active was proposed, so that a fresh candidate is neither. A step is shown to affect
  only its own candidate (`StepEffects`), hence takes nothing away from other engines.
  `TreeInv` adds that an engine which has built and not yet copied finds its own executable
  in the output root, or none, unless another engine has built since; `ClaimsInv` that the
  log of complete cycles is never ahead of the cycles that returned Ok, and that whoever
  holds a measured diagnosis read it when there were enough of them.
* `BlindJudge_proofs`: `ScoresAreOfTheSubject`, `ReceiptsAsPinned`, `AdmittedPassed`,
  `PromotionWasJudged`. The heart of `JudgeInv` is `SubjectSeen`: as long as the subject
  is still the content hashed at the start, everything the run looked at, and the program
  it built, is that content, unless the run is `restored` or `crossed`. An edit makes the
  premise false, and the only edit that makes it true again puts the hashed bytes back and
  so sets `restored`; the only step that changes the program under a run is another run's
  write to the build directory, which sets `crossed`. Hence equal digests at both ends of an
  undisturbed run mean that nothing changed in between. Nothing is assumed of cycle ids.
* `SoakRunner_proofs`: `StagedOnLedger`, `RootCovers`, `ManifestsAccount`,
  `ExhaustedFailed`. `SoakInv` adds that the record of an admitted candidate names the
  block of its own evaluation while the run compares candidates, and that all blocks a run
  or a manifest names are on the ledger. That the ledger only grows (`Grows`) carries all
  of it over the steps of other processes. `BookInv` is about one run's books alone: how
  long its sequences are at each place, that the totals count them, and that the tracker
  holds for every pairing the failures since its last success in the cycles recorded so
  far. Tracker and totals learn of a cycle's end one step before its record is kept, so the
  clauses about them speak of the cycles they have been told of (`Told`).
* `ReviewBranch_proofs`: `ReportsStand`, `ReviewsAreOneFile`, `ReviewsStayInRoots`.
  `ReportInv` adds that an untouched review branch is where its one creator put it, that
  nobody is at work on a branch that was reported, and that the patch is whole once it is
  written. Without "one creator" a second ratification under the same id could truncate
  the patch of a reported one. `GateInv` adds what the gate has established about the base
  and the commit a ratifier still holds, whatever HEAD names by then. The second half of the argument is about paths: the gate and the
  protected-path check normalise names by different loops, one of which refuses `..` while
  the other resolves it, and `StrictIsKept` shows that on every name the gate accepts they
  compute the same path.
* `SampleLog_proofs`: `OnlyOverlapLoses`, `MeasurementsAreHistory`, `MissingNeverRanks`.
  `AppendInv` adds, as long as no overlap has happened, that an append which cuts or has
  written a head is the only one under way (`DelicateAlone`), and that what an append
  learnt about the file is still true when it acts (`StillTrue`): there is no tail when it
  writes, the tail it saw is the tail it cuts, its own head is the last piece when it
  writes the rest. The lemmas about `read_records` say what a piece at the end adds and
  that cutting a tail loses nothing. `CycleInv` adds that no two records, and no record
  and a running cycle, have the same cycle id, and that an engine's ranking is what
  `try_measure` says of the records it saw: without distinct ids the filter on
  `seen.insert` would drop records. What `try_measure` computes is then a chain of
  selections (`Picks`): a sequence is what the records hold at a set of positions, in
  their order, and each filter and the window narrow the set to the one the reference
  names. Counting carries over along the pairing of samples and positions
  (`CountAcross`). That a sorted value has exactly as many values up to it as its rank
  (`SortedRank`) rests on `ChainRanks`: sets that grow along a finite set have the sizes
  1, 2, ... up to its size. `TopByShape` evaluates the ranking without measurements.

Two techniques make induction over data possible where it is needed. `SetInduction` is
induction over the naturals for a set instead of a formula, and follows from
the library's `NatLessThanWellFounded` and `WFMin`, which have no operator parameter. The
equations of a recursive function (the levels of a Merkle tree, the components kept so
far of a path, the records read so far of a file) follow once a function that satisfies them is shown to exist, which is such
an induction.

Only model-checked: liveness (`RunEnds`, `UnauthenticatedReleased`), which is outside what
the prover handles.

## 5. Not modelled

* Cryptography: signatures, HMACs and digests are perfect. Key handling is outside.
* Floating point: rounding, resampling and confidence intervals (`evaluator/stats.rs`);
  the percentiles and scores of the ranking are modelled exactly, where the code compares
  scores rounded to 1e-9; a minimum of 0 samples, which makes every stage unavailable, is
  left out.
* The text of proposals, prompts and lessons, and HTTP clients.
* bwrap, docker, git and cargo as programs: a call succeeds or fails.
* In the supervisor: attaching an observation log to the daemon, draining the
  parent and spawning the worker process.
* The components without a module in the table of section 1; reasons are in
  `PROJECT.json`.

## 6. Plan

Done: observation log, executor and quota, supervisor, ledger, improvement cycle,
judge and promotion gate, soak run, sample log and ranking, ratifier and diff gate.
Next, in this order:

1. Isolation: restoring an edit that failed to verify.
2. Tiers and meta experiments as operators over paths, as in `ReviewBranch`.
3. Composition of `RsiCycle` with `ImprovementLedger` instead of its summary, and of
   `SupervisorDaemon` with an attached log.
