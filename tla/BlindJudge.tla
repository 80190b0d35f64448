----------------------------- MODULE BlindJudge -----------------------------
(***************************************************************************)
(* The separate judge of src/src/actor/judge.rs with the evaluator and the *)
(* layers it calls, and the promotion gate that accepts its receipts.      *)
(*                                                                         *)
(* A judge run reads the policy file, the holdout directory and the        *)
(* candidate tree at different moments: the suites and the policy once, at *)
(* the start, the tree again in every step that compares, builds, tests or *)
(* diffs it. The tree, the holdouts and the policy belong to other         *)
(* processes and may change between any two of these reads, and a run may  *)
(* fail or be killed anywhere. What a file holds is one of a set of        *)
(* contents, which stands for exact bytes and hence for their SHA-256: an  *)
(* edit may write new bytes as well as put earlier ones back. Runs under   *)
(* one cycle id (the command has a default) share a build directory.       *)
(***************************************************************************)
EXTENDS Integers

CONSTANTS
  Judges,       \* invocations of the judge command
  CycleOf,      \* the --cycle-id of each
  Cands,        \* candidate trees
  Files, Subject, Exe,   \* files of a tree, the subject path, the named executable
  Contents,     \* what a file may hold; 0 is what the parent tree holds
  Policies,     \* contents of the policy file, by version: [pin, ratio, allowed]
  Holdouts,     \* cases in the holdout directory, by version; 0: not loadable
  Parents, Parent,       \* --parent-id labels, and the one the promoter applies on
  Rss,          \* peak memory a program or a build may reach
  Iterations,   \* paired benchmark runs; the code has 20
  MaxEdits, MaxRuns      \* bounds: edits of files, runs of a judge

ASSUME JudgeAssumption ==
  /\ Subject \in Files /\ Exe \in Files
  /\ Contents \subseteq Nat /\ 0 \in Contents
  /\ Parent \in Parents
  /\ {Iterations, MaxEdits, MaxRuns} \subseteq Nat
  /\ Rss \subseteq Nat \ {0}
  /\ \A h \in DOMAIN Holdouts : Holdouts[h] \in Nat
  /\ \A p \in DOMAIN Policies :
       /\ Policies[p].pin \in DOMAIN Holdouts
       /\ Policies[p].ratio \in 1..100
       /\ Policies[p].allowed \in BOOLEAN

VARIABLES
  tree,       \* candidate trees: the content of each file
  policy,     \* the policy file
  holdouts,   \* the holdout directory
  run,        \* what each judge run knows: the locals of evaluate_cycle
  built,      \* build-<cycle id>/candidate: the subject version it was built from
  receipts,   \* signed receipts
  gen,        \* the staged generation: the change's bytes and the file on disk
  promoted,   \* what the gate let through
  edits, runs \* bounds

judgeVars == <<tree, policy, holdouts, run, built, receipts, gen, promoted, edits, runs>>

None == "none"
NoVersion == -1

\* How the programs are found: built by the judge, a named file of the trees, or searched
\* for in the trees.
Modes == {"build", "named", "search"}

\* Three fields are history: `seen`, the subject contents that the run built, ran, tested or
\* diffed; `restored`, that the bytes the run had hashed were written back over others; and
\* `crossed`, that another run built in the directory this one runs its programs from.
Fresh == [pc |-> "idle", cand |-> None, mode |-> None, policy |-> NoVersion, parent |-> None,
          suites |-> NoVersion, sha |-> NoVersion, passed |-> 0, lean |-> FALSE,
          seen |-> {}, restored |-> FALSE, crossed |-> FALSE]

At(j, place) == run[j].pc = place
Tree(j) == tree[run[j].cand]
Bound(j) == run[j].policy # NoVersion   \* self.v2 is set

BuildDir(j) == CycleOf[j]   \* <output dir>/build-<cycle id>

JudgeInit ==
  /\ tree \in [Cands -> [Files -> Contents]]
  /\ policy \in DOMAIN Policies
  /\ holdouts \in DOMAIN Holdouts
  /\ run = [j \in Judges |-> Fresh]
  /\ built = [d \in {BuildDir(j) : j \in Judges} |-> NoVersion]
  /\ receipts = {}
  /\ gen = [content |-> NoVersion, disk |-> NoVersion]
  /\ promoted = {}
  /\ edits = 0 /\ runs = 0

world == <<tree, policy, holdouts, gen, promoted, edits>>

-----------------------------------------------------------------------------
(* The other processes. *)

Edited == edits < MaxEdits /\ edits' = edits + 1

\* The run has hashed these bytes of the subject, and they are put back now.
PutsBack(j, c, f, v) == f = Subject /\ run[j].cand = c /\ run[j].sha = v

EditTree(c, f, v) ==
  /\ Edited
  /\ tree[c][f] # v
  /\ tree' = [tree EXCEPT ![c][f] = v]
  /\ run' = [j \in Judges |->
               [run[j] EXCEPT !.restored = @ \/ PutsBack(j, c, f, v)]]
  /\ UNCHANGED <<policy, holdouts, built, receipts, gen, promoted, runs>>

EditPolicy(p) ==
  /\ Edited
  /\ policy' = p
  /\ UNCHANGED <<tree, holdouts, run, built, receipts, gen, promoted, runs>>

EditHoldouts(h) ==
  /\ Edited
  /\ holdouts' = h
  /\ UNCHANGED <<tree, policy, run, built, receipts, gen, promoted, runs>>

\* The promoter stages the change as a generation: the proposal's bytes are written to disk.
StageGeneration(c) ==
  /\ tree[c][Subject] # 0
  /\ gen' = [content |-> tree[c][Subject], disk |-> tree[c][Subject]]
  /\ UNCHANGED <<tree, policy, holdouts, run, built, receipts, promoted, edits, runs>>

EditGeneration(v) ==
  /\ Edited
  /\ gen' = [gen EXCEPT !.disk = v]
  /\ UNCHANGED <<tree, policy, holdouts, run, built, receipts, promoted, runs>>

-----------------------------------------------------------------------------
(* run_judge_cli and evaluate_cycle. *)

\* The command line, and whether it names a policy and a subject for a version 2 receipt.
JudgeCli == [cand : Cands, mode : Modes, parent : Parents, v2 : BOOLEAN]

\* EvaluationPolicy::load: the contents are parsed and hashed at once.
LoadPolicy(cli) == IF cli.v2 THEN policy ELSE NoVersion

\* The policy file is loaded once, before anything else is looked at.
Start(j) ==
  /\ At(j, "idle") /\ runs < MaxRuns
  /\ runs' = runs + 1
  /\ \E cli \in JudgeCli :
       run' = [run EXCEPT ![j] = [Fresh EXCEPT
                 !.pc = "load", !.cand = cli.cand, !.mode = cli.mode, !.parent = cli.parent,
                 !.policy = LoadPolicy(cli)]]
  /\ UNCHANGED <<world, built, receipts>>

\* load_strict: the suites and the digest of the directory they came from.
LoadStrict(j) ==
  /\ At(j, "load") /\ Holdouts[holdouts] > 0
  /\ run' = [run EXCEPT ![j].pc = IF Bound(j) THEN "preflight" ELSE "resolve",
                        ![j].suites = holdouts]
  /\ UNCHANGED <<world, built, receipts, runs>>

strict_changed_paths(t) == {f \in Files : t[f] # 0}

\* Only the pinned holdout set, an allowed subject, a program that is not searched for and a
\* change of exactly the subject are evaluated.
V2Preflight(j) ==
  /\ At(j, "preflight")
  /\ Policies[run[j].policy].pin = run[j].suites
  /\ Policies[run[j].policy].allowed
  /\ run[j].mode # "search"
  /\ strict_changed_paths(Tree(j)) = {Subject}
  /\ run' = [run EXCEPT ![j].pc = "hash"]
  /\ UNCHANGED <<world, built, receipts, runs>>

\* sha256_file reads the subject once more, after the comparison.
HashSubject(j) ==
  /\ At(j, "hash")
  /\ run' = [run EXCEPT ![j].pc = "resolve", ![j].sha = Tree(j)[Subject]]
  /\ UNCHANGED <<world, built, receipts, runs>>

Built(j) == run[j].mode = "build" /\ run[j].pc \in {"holdouts", "inspect", "bench", "sign"}

\* The runs whose programs are in the build directory of j.
Crosses(j) == {k \in Judges \ {j} : Built(k) /\ BuildDir(k) = BuildDir(j)}

\* The memory of the runs when j writes to its build directory and goes on at `place`.
WriteBuildDir(j, place) ==
  [k \in Judges |->
     IF k = j THEN [run[k] EXCEPT !.pc = place]
     ELSE [run[k] EXCEPT !.crossed = @ \/ k \in Crosses(j)]]

\* The directory for the cycle is cleared, whoever has built in it.
ClearBuildDir(j) ==
  /\ At(j, "resolve") /\ run[j].mode = "build"
  /\ built' = [built EXCEPT ![BuildDir(j)] = NoVersion]
  /\ run' = WriteBuildDir(j, "build")
  /\ UNCHANGED <<world, receipts, runs>>

\* The judge builds both trees into it.
ResolveBuild(j) ==
  /\ At(j, "build")
  /\ built' = [built EXCEPT ![BuildDir(j)] = Tree(j)[Subject]]
  /\ run' = WriteBuildDir(j, "holdouts")
  /\ UNCHANGED <<world, receipts, runs>>

\* A named executable, or one that find_executable meets, is used where it is.
ResolveFile(j) ==
  /\ At(j, "resolve") /\ run[j].mode # "build"
  /\ run' = [run EXCEPT ![j].pc = "holdouts"]
  /\ UNCHANGED <<world, built, receipts, runs>>

\* The program is no longer there: its directory was cleared for another run.
Missing(j) == run[j].mode = "build" /\ built[BuildDir(j)] = NoVersion

\* The subject contents in the program that runs.
Program(j) ==
  IF run[j].mode = "build" THEN {built[BuildDir(j)]} \ {NoVersion}
  ELSE IF run[j].mode = "named" /\ Exe = Subject THEN {Tree(j)[Subject]} ELSE {}

Look(j, vs) == [run EXCEPT ![j].seen = @ \union vs]

\* Every case of the loaded suites runs in the candidate jail; any number may pass, and none
\* if the jail does not start.
RunHoldouts(j) ==
  /\ At(j, "holdouts")
  /\ \E n \in 0..(IF Missing(j) THEN 0 ELSE Holdouts[run[j].suites]) :
       run' = [Look(j, Program(j)) EXCEPT ![j].pc = "inspect", ![j].passed = n]
  /\ UNCHANGED <<world, built, receipts, runs>>

\* compute_candidate_diff for the security and the style layer, and cargo check and test
\* for the correctness layer: all of them read the candidate tree as it is now.
Inspect(j) ==
  /\ At(j, "inspect")
  /\ run' = [Look(j, {Tree(j)[Subject]}) EXCEPT ![j].pc = "bench"]
  /\ UNCHANGED <<world, built, receipts, runs>>

Higher(a, b) == IF a > b THEN a ELSE b

\* run_paired_benchmarks_bins: RUSAGE_CHILDREN has one peak for all children the process
\* has waited for, and RusageMetrics::diff keeps the higher of the two readings. The order
\* alternates; two warm-up runs of both programs come first. The result is what is
\* recorded for the parent and the candidate, whose runs reach p and c; the builds and the
\* holdouts before them can only have raised the one peak.
PairedPeaks(p, c) ==
  LET peak == Higher(p, c)   \* after the warm-up
      after[i \in 0..Iterations] ==
        IF i = 0 THEN [children |-> peak, parent |-> 0, cand |-> 0]
        ELSE LET prior == after[i - 1]
                 first == Higher(prior.children, IF i % 2 = 1 THEN p ELSE c)
                 second == Higher(first, IF i % 2 = 1 THEN c ELSE p)
             IN  [children |-> second,
                  parent |-> Higher(prior.parent, IF i % 2 = 1 THEN first ELSE second),
                  cand |-> Higher(prior.cand, IF i % 2 = 1 THEN second ELSE first)]
  IN  after[Iterations]

\* The judge reads its own resident memory against the host limit, which always holds here.
ResourcePassed(peaks) == peaks.parent > 0 => (peaks.cand - peaks.parent) * 100 <= 2 * peaks.parent

\* A benchmark program that does not start is an error.
Bench(j) ==
  /\ At(j, "bench") /\ ~Missing(j)
  /\ \E p, c \in Rss :
       run' = [Look(j, Program(j)) EXCEPT
                 ![j].pc = "sign",
                 ![j].lean = ResourcePassed(PairedPeaks(p, c))]
  /\ UNCHANGED <<world, built, receipts, runs>>

\* Fault: only the built-in regression corpus is replayed.
ReplayPassed_Builtin(j) == TRUE

\* The built-in corpus passes; every failed holdout is a failed case.
ReplayPassed(j) == run[j].passed = Holdouts[run[j].suites]

(* The other layers, as the sets of answers they can give: what cargo, a pattern scan of the *)
(* diff and the bootstrap find is any, and each layer says what it makes of that.            *)

\* The exit status of the tests decides, and so does a failure count they print.
evaluate_repo == {check /\ exited /\ failed = 0 : check, exited \in BOOLEAN, failed \in 0..1}

\* A tree without a manifest is as correct as its holdouts.
evaluate_synthetic(passed, total) == {total - passed <= 0}

SecurityLayer == {root /\ secrets /\ network : root, secrets, network \in BOOLEAN}

StyleLayer == {dashes = 0 /\ phrases = 0 : dashes, phrases \in 0..1}

\* An improvement may be required; the tails must never be inferior.
PerformanceLayer ==
  {p95 /\ p99 /\ (required => improved) : p95, p99, required, improved \in BOOLEAN}

\* evaluate_candidate: four layers are hard, two are statistical gates.
Verdict(j) ==
  {[hard |-> correct /\ secure /\ styled /\ ReplayPassed(j), gates |-> fast /\ run[j].lean] :
     correct \in evaluate_repo
       \union evaluate_synthetic(run[j].passed, Holdouts[run[j].suites]),
     secure \in SecurityLayer, styled \in StyleLayer, fast \in PerformanceLayer}

EnoughPassed(passed, total, p) == total > 0 /\ passed * 100 >= Policies[p].ratio * total

\* What is signed, with the history the properties speak of.
Receipt(j, v) ==
  LET total == Holdouts[run[j].suites]
      ok == v.hard /\ v.gates
  IN  [version |-> IF Bound(j) THEN 2 ELSE 1, cycle |-> CycleOf[j], parent |-> run[j].parent,
       sha |-> run[j].sha, suites |-> run[j].suites, policy |-> run[j].policy,
       total |-> total, passed |-> run[j].passed,
       admitted |-> IF Bound(j) THEN ok /\ EnoughPassed(run[j].passed, total, run[j].policy)
                    ELSE ok,
       seen |-> run[j].seen, restored |-> run[j].restored, crossed |-> run[j].crossed]

Emit(j, r) ==
  /\ receipts' = receipts \union {r}
  /\ run' = [run EXCEPT ![j] = Fresh]
  /\ UNCHANGED <<world, built, runs>>

\* Fault: the subject is not hashed again.
SignV2_NoRehash(j) ==
  /\ At(j, "sign") /\ Bound(j)
  /\ \E v \in Verdict(j) : Emit(j, Receipt(j, v))

\* Fault: the digest of the policy is taken from the file as it is now.
SignV2_LatePolicy(j) ==
  /\ At(j, "sign") /\ Bound(j)
  /\ Tree(j)[Subject] = run[j].sha
  /\ \E v \in Verdict(j) : Emit(j, [Receipt(j, v) EXCEPT !.policy = policy])

\* The subject must still be the bytes hashed before the run.
SignV2(j) ==
  /\ At(j, "sign") /\ Bound(j)
  /\ Tree(j)[Subject] = run[j].sha
  /\ \E v \in Verdict(j) : Emit(j, Receipt(j, v))

SignV1(j) ==
  /\ At(j, "sign") /\ ~Bound(j)
  /\ \E v \in Verdict(j) : Emit(j, Receipt(j, v))

\* An error ends the run without a receipt, and the process may be killed. The build
\* directory stays behind.
Abandon(j) ==
  /\ ~At(j, "idle")
  /\ run' = [run EXCEPT ![j] = Fresh]
  /\ UNCHANGED <<world, built, receipts, runs>>

-----------------------------------------------------------------------------
(* The promotion gate. *)

\* Fault: the subject of the receipt is not compared with the change.
verify_for_promotion_AnySubject(r, sha, p) ==
  /\ r.version = 2
  /\ r.policy = p
  /\ r.suites = Policies[p].pin
  /\ r.admitted

verify_for_promotion(r, sha, p) ==
  /\ r.version = 2
  /\ r.sha = sha
  /\ r.policy = p
  /\ r.suites = Policies[p].pin
  /\ r.admitted

\* check_v2_promotion: the change's bytes are on disk, and the receipt covers them under
\* the policy file as it is now.
Promote(r) ==
  /\ gen.content # NoVersion /\ gen.content = gen.disk
  /\ verify_for_promotion(r, gen.content, policy)
  /\ r.parent = Parent
  /\ Policies[policy].allowed
  /\ EnoughPassed(r.passed, r.total, policy)
  /\ promoted' = promoted \union {[disk |-> gen.disk, receipt |-> r, policy |-> policy]}
  /\ UNCHANGED <<tree, policy, holdouts, run, built, receipts, gen, edits, runs>>

JudgeStep(j) ==
  \/ Start(j) \/ LoadStrict(j) \/ V2Preflight(j) \/ HashSubject(j)
  \/ ClearBuildDir(j) \/ ResolveBuild(j) \/ ResolveFile(j)
  \/ RunHoldouts(j) \/ Inspect(j) \/ Bench(j) \/ SignV2(j) \/ SignV1(j) \/ Abandon(j)

JudgeNext ==
  \/ \E j \in Judges : JudgeStep(j)
  \/ \E c \in Cands, f \in Files, v \in Contents : EditTree(c, f, v)
  \/ \E p \in DOMAIN Policies : EditPolicy(p)
  \/ \E h \in DOMAIN Holdouts : EditHoldouts(h)
  \/ \E c \in Cands : StageGeneration(c)
  \/ \E v \in Contents : EditGeneration(v)
  \/ \E r \in receipts : Promote(r)

JudgeSpec == JudgeInit /\ [][JudgeNext]_judgeVars

-----------------------------------------------------------------------------
(* Properties. *)

\* Nothing happened that the second hash of the subject cannot notice.
Undisturbed(r) == ~r.restored /\ ~r.crossed

\* What hashing the subject before the run and again before signing gives: every step of the
\* evaluation that a version 2 receipt stands for (build, holdouts, benchmarks, tests, diff)
\* looked at the bytes whose digest the receipt signs, unless exactly these bytes were put
\* back into the tree after others, or another run with the same cycle id built in the
\* directory the programs were run from. An edit that stays is always noticed. The sentences
\* "SHA-256 of the exact bytes of that file as evaluated" and "so a score cannot be paired
\* with another change" claim it without the two exceptions.
ScoreIsOfSubject ==
  \A r \in receipts :
    r.version = 2 /\ Undisturbed(r) => r.seen \subseteq {r.sha}

\* The cases a version 2 receipt counts are those of the holdout set that the policy it
\* names pins, and that policy allows the subject, although the policy file and the
\* holdout directory may change while the judge runs.
HoldoutsAsPinned ==
  \A r \in receipts : r.version = 2 =>
    /\ r.suites = Policies[r.policy].pin
    /\ r.total = Holdouts[r.suites]
    /\ Policies[r.policy].allowed

\* "In practice any failed holdout keeps the change from being admitted": an admitted
\* receipt of either version passed every case of a nonempty set, also under a policy
\* whose pass ratio is below one.
AdmittedPassedAll ==
  \A r \in receipts : r.admitted => r.total > 0 /\ r.passed = r.total

\* What the gate lets through is on disk in the bytes whose digest a judge signed, on the
\* holdouts that the policy of that moment pins, with every case passed; and if nothing
\* happened that the second hash cannot notice, it was tested and diffed, and built and run,
\* in exactly these bytes.
PromotedWasJudged ==
  \A m \in promoted :
    /\ m.receipt.sha = m.disk
    /\ Undisturbed(m.receipt) => m.receipt.seen = {m.disk}
    /\ m.receipt.suites = Policies[m.policy].pin
    /\ m.receipt.passed = Holdouts[Policies[m.policy].pin]

=============================================================================
