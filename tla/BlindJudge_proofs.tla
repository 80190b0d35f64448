-------------------------- MODULE BlindJudge_proofs -------------------------
(***************************************************************************)
(* Proofs that a receipt is of the bytes, the holdouts and the policy it   *)
(* names, and that the gate lets nothing else through: for any number of   *)
(* judges, candidates, files and policies, any cycle ids, and any edits    *)
(* between the reads of a run, those that put earlier bytes back included. *)
(***************************************************************************)
EXTENDS BlindJudge, TLAPS

Fields == {"pc", "cand", "mode", "policy", "parent", "suites", "sha", "passed", "lean",
           "seen", "restored", "crossed"}
Histories == {"restored", "crossed"}

\* What the argument needs to know of the types.
JudgeShape ==
  /\ DOMAIN run = Judges
  /\ DOMAIN built = {BuildDir(j) : j \in Judges}
  /\ tree \in [Cands -> [Files -> Contents]]

Typed(j) ==
  /\ DOMAIN run[j] = Fields
  /\ run[j].restored \in BOOLEAN /\ run[j].crossed \in BOOLEAN
  /\ ~At(j, "idle") => run[j].cand \in Cands

\* The places of a run: with its suites loaded, with the holdouts compared with the policy,
\* and with the subject hashed.
Loaded(j) ==
  run[j].pc \in {"preflight", "hash", "resolve", "build", "holdouts", "inspect", "bench", "sign"}
Pinned(j) ==
  Bound(j) /\ run[j].pc \in {"hash", "resolve", "build", "holdouts", "inspect", "bench", "sign"}
Preflighted(j) ==
  Bound(j) /\ run[j].pc \in {"resolve", "build", "holdouts", "inspect", "bench", "sign"}

\* The strengthening. The central part is SubjectSeen: as long as the subject is still the
\* hashed content and nothing happened that a second hash cannot notice, everything the run
\* looked at and will run is that content. An edit of the subject makes the first premise
\* false, and putting the bytes back the second.
SuitesLoaded(j) == Loaded(j) => Holdouts[run[j].suites] > 0
NothingSeen(j) == run[j].pc \in {"load", "preflight", "hash"} => run[j].seen = {}
SomethingSeen(j) == run[j].pc \in {"bench", "sign"} => run[j].seen # {}
PinnedHoldouts(j) ==
  Pinned(j) =>
    /\ Policies[run[j].policy].pin = run[j].suites
    /\ Policies[run[j].policy].allowed
Steady(j) ==
  Preflighted(j) /\ Tree(j)[Subject] = run[j].sha /\ ~run[j].restored /\ ~run[j].crossed
SubjectSeen(j) ==
  Steady(j) =>
    /\ run[j].seen \subseteq {run[j].sha}
    /\ Built(j) => built[BuildDir(j)] = run[j].sha

RunInv(j) ==
  /\ Typed(j) /\ SuitesLoaded(j) /\ NothingSeen(j) /\ SomethingSeen(j)
  /\ PinnedHoldouts(j) /\ SubjectSeen(j)

SeenReceipts == \A r \in receipts : r.seen # {}

ReceiptInv == SeenReceipts /\ ScoreIsOfSubject /\ HoldoutsAsPinned /\ AdmittedPassedAll

JudgeInv ==
  JudgeShape /\ (\A j \in Judges : RunInv(j)) /\ ReceiptInv /\ PromotedWasJudged

-----------------------------------------------------------------------------
(* The steps of the other processes. *)

\* A run that takes no step itself: only the histories in its memory may change, it is
\* steady only if it was, and its build directory is left alone as long as it is steady.
Passive(j) ==
  /\ DOMAIN run'[j] = Fields
  /\ \A x \in Fields \ Histories : run'[j][x] = run[j][x]
  /\ run'[j].restored \in BOOLEAN /\ run'[j].crossed \in BOOLEAN
  /\ Steady(j)' => Steady(j)
  /\ Steady(j)' /\ Built(j) => built'[BuildDir(j)] = built[BuildDir(j)]

LEMMA PassiveKept ==
  ASSUME NEW j \in Judges, RunInv(j), Passive(j)
  PROVE  RunInv(j)'
<1>1. /\ run'[j].pc = run[j].pc /\ run'[j].cand = run[j].cand /\ run'[j].mode = run[j].mode
      /\ run'[j].policy = run[j].policy /\ run'[j].suites = run[j].suites
      /\ run'[j].sha = run[j].sha /\ run'[j].seen = run[j].seen
  BY DEF Passive, Fields, Histories
<1>2. Typed(j)' /\ SuitesLoaded(j)' /\ NothingSeen(j)' /\ SomethingSeen(j)'
  BY <1>1 DEF Passive, RunInv, Typed, SuitesLoaded, NothingSeen, SomethingSeen, Loaded, At
<1>3. PinnedHoldouts(j)'
  BY <1>1 DEF RunInv, PinnedHoldouts, Pinned, Bound
<1>4. SubjectSeen(j)'
  BY <1>1 DEF Passive, RunInv, SubjectSeen, Built, BuildDir
<1>5. QED
  BY <1>2, <1>3, <1>4 DEF RunInv

\* The memory of a run and all that it looks at are left alone.
LEMMA RunKept ==
  ASSUME NEW j \in Judges, RunInv(j), run'[j] = run[j], tree' = tree,
         built'[BuildDir(j)] = built[BuildDir(j)]
  PROVE  RunInv(j)'
<1>1. Steady(j)' => Steady(j)
  BY DEF Steady, Preflighted, Bound, Tree
<1>2. Passive(j)
  BY <1>1 DEF Passive, RunInv, Typed, Fields, BuildDir
<1>3. QED
  BY <1>2, PassiveKept

\* No edit of a candidate tree makes a run steady: it was so before, or the edit puts the
\* bytes back that the run has hashed.
LEMMA EditTreeKeeps ==
  ASSUME JudgeShape, NEW c \in Cands, NEW f \in Files, NEW v \in Contents, EditTree(c, f, v),
         NEW j \in Judges, RunInv(j)
  PROVE  RunInv(j)'
<1>1. /\ built' = built /\ tree' = [tree EXCEPT ![c][f] = v]
      /\ run'[j] = [run[j] EXCEPT !.restored = @ \/ PutsBack(j, c, f, v)]
  BY DEF EditTree
<1>2. /\ DOMAIN run'[j] = Fields
      /\ \A x \in Fields \ Histories : run'[j][x] = run[j][x]
      /\ run'[j].restored = (run[j].restored \/ PutsBack(j, c, f, v))
      /\ run'[j].crossed = run[j].crossed
  BY <1>1 DEF RunInv, Typed, Fields, Histories
<1>3. run'[j].restored \in BOOLEAN /\ run'[j].crossed \in BOOLEAN
  BY <1>2 DEF RunInv, Typed, PutsBack
<1>4. /\ run'[j].pc = run[j].pc /\ run'[j].cand = run[j].cand
      /\ run'[j].policy = run[j].policy /\ run'[j].sha = run[j].sha
  BY <1>2 DEF Fields, Histories
<1>5. ASSUME Steady(j)' PROVE Steady(j)
  <2>1. Preflighted(j) /\ ~run[j].restored /\ ~run[j].crossed /\ ~PutsBack(j, c, f, v)
    BY <1>2, <1>4, <1>5 DEF Steady, Preflighted, Bound
  <2>2. tree'[run[j].cand][Subject] = run[j].sha
    BY <1>4, <1>5 DEF Steady, Tree
  <2>3. run[j].cand \in Cands
    BY <2>1 DEF RunInv, Typed, At, Preflighted
  <2>4. tree'[run[j].cand][Subject] = tree[run[j].cand][Subject]
    BY <1>1, <2>1, <2>2, <2>3, JudgeAssumption DEF PutsBack, JudgeShape
  <2>5. QED
    BY <2>1, <2>2, <2>4 DEF Steady, Tree
<1>6. Passive(j)
  BY <1>1, <1>2, <1>3, <1>5 DEF Passive, BuildDir
<1>7. QED
  BY <1>6, PassiveKept

LEMMA EditTreeShape ==
  ASSUME JudgeShape, NEW c \in Cands, NEW f \in Files, NEW v \in Contents, EditTree(c, f, v)
  PROVE  JudgeShape'
<1>1. built' = built /\ tree' = [tree EXCEPT ![c][f] = v] /\ DOMAIN run' = Judges
  BY DEF JudgeShape, EditTree
<1>2. tree' \in [Cands -> [Files -> Contents]]
  BY <1>1 DEF JudgeShape
<1>3. QED
  BY <1>1, <1>2 DEF JudgeShape, BuildDir

\* The gate: an accepted receipt is of the staged bytes and of the holdouts pinned now.
LEMMA PromoteKeeps ==
  ASSUME ReceiptInv, PromotedWasJudged, NEW r \in receipts, Promote(r)
  PROVE  PromotedWasJudged'
<1>1. /\ r.version = 2 /\ r.sha = gen.disk /\ r.suites = Policies[policy].pin /\ r.admitted
      /\ promoted' = promoted \union {[disk |-> gen.disk, receipt |-> r, policy |-> policy]}
  BY DEF Promote, verify_for_promotion
<1>2. Undisturbed(r) => r.seen = {gen.disk}
  BY <1>1 DEF ReceiptInv, SeenReceipts, ScoreIsOfSubject
<1>3. r.passed = Holdouts[Policies[policy].pin]
  BY <1>1 DEF ReceiptInv, HoldoutsAsPinned, AdmittedPassedAll
<1>4. QED
  BY <1>1, <1>2, <1>3 DEF PromotedWasJudged

-----------------------------------------------------------------------------
(* The steps of a judge. *)

\* A judge that clears or fills a build directory crosses every other run that has built
\* there.
LEMMA BuildPasses ==
  ASSUME JudgeShape, NEW j \in Judges, NEW place, run' = WriteBuildDir(j, place),
         NEW v, built' = [built EXCEPT ![BuildDir(j)] = v], tree' = tree,
         NEW k \in Judges \ {j}, RunInv(k)
  PROVE  Passive(k)
<1>1. run'[k] = [run[k] EXCEPT !.crossed = @ \/ k \in Crosses(j)]
  BY DEF WriteBuildDir
<1>2. /\ DOMAIN run'[k] = Fields
      /\ \A x \in Fields \ Histories : run'[k][x] = run[k][x]
      /\ run'[k].restored = run[k].restored
      /\ run'[k].crossed = (run[k].crossed \/ k \in Crosses(j))
  BY <1>1 DEF RunInv, Typed, Fields, Histories
<1>3. run'[k].restored \in BOOLEAN /\ run'[k].crossed \in BOOLEAN
  BY <1>2 DEF RunInv, Typed
<1>4. /\ run'[k].pc = run[k].pc /\ run'[k].cand = run[k].cand
      /\ run'[k].policy = run[k].policy /\ run'[k].sha = run[k].sha
  BY <1>2 DEF Fields, Histories
<1>5. Steady(k)' => Steady(k)
  BY <1>2, <1>4 DEF Steady, Preflighted, Bound, Tree
<1>6. ASSUME Steady(k)', Built(k) PROVE built'[BuildDir(k)] = built[BuildDir(k)]
  <2>1. k \notin Crosses(j)
    BY <1>2, <1>6 DEF Steady
  <2>2. BuildDir(k) # BuildDir(j)
    BY <1>6, <2>1 DEF Crosses
  <2>3. QED
    BY <2>2 DEF JudgeShape
<1>7. QED
  BY <1>2, <1>3, <1>5, <1>6 DEF Passive, BuildDir

Builds(j) == ClearBuildDir(j) \/ ResolveBuild(j)

\* Every step of a judge leaves the world and the invariant of the others alone.
LEMMA JudgeFrame ==
  ASSUME JudgeShape, NEW j \in Judges, JudgeStep(j)
  PROVE  /\ UNCHANGED world
         /\ DOMAIN run' = Judges /\ DOMAIN built' = DOMAIN built
         /\ \A k \in Judges \ {j} : RunInv(k) => RunInv(k)'
<1>1. UNCHANGED world
  BY DEF JudgeStep, Start, LoadStrict, V2Preflight, HashSubject, ClearBuildDir, ResolveBuild,
     ResolveFile, RunHoldouts, Inspect, Bench, SignV2, SignV1, Abandon, Emit
<1>2. tree' = tree
  BY <1>1 DEF world
<1>3. CASE Builds(j)
  <2>1. PICK place, v : /\ run' = WriteBuildDir(j, place)
                        /\ built' = [built EXCEPT ![BuildDir(j)] = v]
    BY <1>3 DEF Builds, ClearBuildDir, ResolveBuild
  <2>2. ASSUME NEW k \in Judges \ {j}, RunInv(k) PROVE RunInv(k)'
    BY <1>2, <2>1, <2>2, BuildPasses, PassiveKept
  <2>3. QED
    BY <1>1, <2>1, <2>2 DEF WriteBuildDir, JudgeShape
<1>4. CASE ~Builds(j)
  <2>1. built' = built
    BY <1>4 DEF Builds, JudgeStep, Start, LoadStrict, V2Preflight, HashSubject, ResolveFile,
       RunHoldouts, Inspect, Bench, SignV2, SignV1, Abandon, Emit
  <2>2. DOMAIN run' = Judges /\ \A k \in Judges \ {j} : run'[k] = run[k]
    BY <1>4 DEF Builds, JudgeShape, JudgeStep, Start, LoadStrict, V2Preflight, HashSubject,
       ResolveFile, RunHoldouts, Inspect, Bench, SignV2, SignV1, Abandon, Emit, Look
  <2>3. ASSUME NEW k \in Judges \ {j}, RunInv(k) PROVE RunInv(k)'
    BY <1>2, <2>1, <2>2, <2>3, RunKept DEF BuildDir
  <2>4. QED
    BY <1>1, <2>1, <2>2, <2>3
<1>5. QED
  BY <1>3, <1>4

LEMMA BecomesFresh ==
  ASSUME NEW j \in Judges, run'[j] = Fresh
  PROVE  RunInv(j)'
  BY DEF Fresh, Fields, RunInv, Typed, SuitesLoaded, NothingSeen, SomethingSeen,
     PinnedHoldouts, Pinned, SubjectSeen, Steady, Loaded, Preflighted, Bound, At

LEMMA StartKeeps ==
  ASSUME JudgeShape, NEW j \in Judges, Start(j)
  PROVE  RunInv(j)'
<1>1. PICK cli \in JudgeCli :
        run' = [run EXCEPT ![j] = [Fresh EXCEPT
                 !.pc = "load", !.cand = cli.cand, !.mode = cli.mode, !.parent = cli.parent,
                 !.policy = LoadPolicy(cli)]]
  BY DEF Start
<1>2. cli.cand \in Cands
  BY DEF JudgeCli
<1>3. /\ DOMAIN run'[j] = Fields /\ run'[j].pc = "load" /\ run'[j].cand \in Cands
      /\ run'[j].seen = {} /\ run'[j].restored = FALSE /\ run'[j].crossed = FALSE
  BY <1>1, <1>2 DEF JudgeShape, Fresh, Fields
<1>4. QED
  BY <1>3 DEF RunInv, Typed, SuitesLoaded, NothingSeen, SomethingSeen, PinnedHoldouts, Pinned,
     SubjectSeen, Steady, Loaded, Preflighted, Bound, At

LEMMA LoadKeeps ==
  ASSUME JudgeShape, NEW j \in Judges, RunInv(j), LoadStrict(j)
  PROVE  RunInv(j)'
<1>1. /\ DOMAIN run'[j] = Fields /\ run'[j].cand = run[j].cand /\ run[j].cand \in Cands
      /\ run'[j].pc = IF Bound(j) THEN "preflight" ELSE "resolve"
      /\ run'[j].suites = holdouts /\ Holdouts[holdouts] > 0
      /\ run'[j].policy = run[j].policy
      /\ run'[j].seen = {}
      /\ run'[j].restored \in BOOLEAN /\ run'[j].crossed \in BOOLEAN
  BY DEF LoadStrict, JudgeShape, RunInv, Typed, NothingSeen, Fields, At
<1>2. ~Preflighted(j)' /\ ~Pinned(j)'
  BY <1>1 DEF Preflighted, Pinned, Bound
<1>3. QED
  BY <1>1, <1>2 DEF RunInv, Typed, SuitesLoaded, NothingSeen, SomethingSeen, PinnedHoldouts,
     SubjectSeen, Steady, Loaded, At

\* The comparison, and then the hash: nothing has been looked at before.
LEMMA PreflightKeeps ==
  ASSUME JudgeShape, NEW j \in Judges, RunInv(j), V2Preflight(j) \/ HashSubject(j)
  PROVE  RunInv(j)'
<1>1. /\ DOMAIN run'[j] = Fields /\ run'[j].cand = run[j].cand /\ run[j].cand \in Cands
      /\ run[j].pc \in {"preflight", "hash"}
      /\ run'[j].pc = (IF run[j].pc = "preflight" THEN "hash" ELSE "resolve")
      /\ run'[j].suites = run[j].suites /\ run'[j].policy = run[j].policy
      /\ run'[j].seen = {}
      /\ run'[j].restored \in BOOLEAN /\ run'[j].crossed \in BOOLEAN
  BY DEF V2Preflight, HashSubject, JudgeShape, RunInv, Typed, NothingSeen, Fields, At
<1>2. PinnedHoldouts(j)'
  <2>1. CASE run[j].pc = "preflight"
    BY <1>1, <2>1 DEF PinnedHoldouts, V2Preflight, HashSubject, At
  <2>2. CASE run[j].pc = "hash"
    BY <1>1, <2>2 DEF RunInv, PinnedHoldouts, Pinned, Bound
  <2>3. QED
    BY <1>1, <2>1, <2>2
<1>3. SubjectSeen(j)'
  BY <1>1 DEF SubjectSeen, Built
<1>4. Holdouts[run[j].suites] > 0
  BY <1>1 DEF RunInv, SuitesLoaded, Loaded
<1>5. QED
  BY <1>1, <1>2, <1>3, <1>4 DEF RunInv, Typed, SuitesLoaded, NothingSeen, SomethingSeen,
     Loaded, At

LEMMA ResolveKeeps ==
  ASSUME JudgeShape, NEW j \in Judges, RunInv(j), Builds(j) \/ ResolveFile(j), tree' = tree
  PROVE  RunInv(j)'
<1>1. PICK place \in {"build", "holdouts"} : run'[j] = [run[j] EXCEPT !.pc = place]
  BY DEF Builds, ClearBuildDir, ResolveBuild, ResolveFile, WriteBuildDir, JudgeShape
<1>2. run[j].pc \in {"resolve", "build"}
  BY DEF Builds, ClearBuildDir, ResolveBuild, ResolveFile, At
<1>3. /\ DOMAIN run'[j] = Fields /\ run'[j].pc = place
      /\ \A x \in Fields \ {"pc"} : run'[j][x] = run[j][x]
  BY <1>1 DEF RunInv, Typed, Fields
<1>4. /\ run'[j].cand = run[j].cand /\ run'[j].mode = run[j].mode
      /\ run'[j].policy = run[j].policy /\ run'[j].suites = run[j].suites
      /\ run'[j].sha = run[j].sha /\ run'[j].seen = run[j].seen
      /\ run'[j].restored = run[j].restored /\ run'[j].crossed = run[j].crossed
  BY <1>3 DEF Fields
<1>5. Typed(j)' /\ SuitesLoaded(j)' /\ NothingSeen(j)' /\ SomethingSeen(j)'
  BY <1>2, <1>3, <1>4 DEF RunInv, Typed, SuitesLoaded, NothingSeen, SomethingSeen, Loaded, At
<1>6. PinnedHoldouts(j)'
  BY <1>2, <1>3, <1>4 DEF RunInv, PinnedHoldouts, Pinned, Bound
<1>7. Steady(j)' => Steady(j)
  BY <1>2, <1>3, <1>4 DEF Steady, Preflighted, Bound, Tree
<1>8. Built(j)' => built'[BuildDir(j)] = Tree(j)[Subject]
  <2>1. CASE ResolveBuild(j)
    BY <2>1 DEF ResolveBuild, JudgeShape
  <2>2. CASE ClearBuildDir(j)
    <3>1. run'[j].pc = "build"
      BY <2>2 DEF ClearBuildDir, WriteBuildDir, RunInv, Typed, Fields
    <3>2. QED
      BY <3>1 DEF Built
  <2>3. CASE ResolveFile(j)
    BY <1>4, <2>3 DEF ResolveFile, Built
  <2>4. QED
    BY <2>1, <2>2, <2>3 DEF Builds
<1>9. SubjectSeen(j)'
  BY <1>4, <1>7, <1>8 DEF RunInv, SubjectSeen, Steady, BuildDir
<1>10. QED
  BY <1>5, <1>6, <1>9 DEF RunInv

\* What a run looks at is the subject as it is now, or the program it has built from it.
LEMMA LookKeeps ==
  ASSUME JudgeShape, NEW j \in Judges, RunInv(j), RunHoldouts(j) \/ Inspect(j) \/ Bench(j)
  PROVE  RunInv(j)'
<1>1. PICK pc, passed, lean, vs :
        /\ run' = [run EXCEPT ![j].seen = @ \union vs, ![j].pc = pc, ![j].passed = passed,
                              ![j].lean = lean]
        /\ \/ run[j].pc = "holdouts" /\ pc = "inspect" /\ vs = Program(j)
           \/ run[j].pc = "inspect" /\ pc = "bench" /\ vs = {Tree(j)[Subject]}
           \/ run[j].pc = "bench" /\ pc = "sign" /\ vs = Program(j)
  <2>1. CASE RunHoldouts(j)
    <3>1. PICK n : /\ run' = [Look(j, Program(j)) EXCEPT ![j].pc = "inspect", ![j].passed = n]
                   /\ run[j].pc = "holdouts"
      BY <2>1 DEF RunHoldouts, At
    <3>2. run' = [run EXCEPT ![j].seen = @ \union Program(j), ![j].pc = "inspect",
                             ![j].passed = n, ![j].lean = run[j].lean]
      BY <3>1 DEF Look, JudgeShape, RunInv, Typed, Fields
    <3>3. QED
      BY <3>1, <3>2
  <2>2. CASE Inspect(j)
    <3>1. /\ run' = [Look(j, {Tree(j)[Subject]}) EXCEPT ![j].pc = "bench"]
          /\ run[j].pc = "inspect"
      BY <2>2 DEF Inspect, At
    <3>2. run' = [run EXCEPT ![j].seen = @ \union {Tree(j)[Subject]}, ![j].pc = "bench",
                             ![j].passed = run[j].passed, ![j].lean = run[j].lean]
      BY <3>1 DEF Look, JudgeShape, RunInv, Typed, Fields
    <3>3. QED
      BY <3>1, <3>2
  <2>3. CASE Bench(j)
    <3>1. PICK b : /\ run' = [Look(j, Program(j)) EXCEPT ![j].pc = "sign", ![j].lean = b]
                   /\ run[j].pc = "bench"
      BY <2>3 DEF Bench, At
    <3>2. run' = [run EXCEPT ![j].seen = @ \union Program(j), ![j].pc = "sign",
                             ![j].passed = run[j].passed, ![j].lean = b]
      BY <3>1 DEF Look, JudgeShape, RunInv, Typed, Fields
    <3>3. QED
      BY <3>1, <3>2
  <2>4. QED
    BY <2>1, <2>2, <2>3
<1>2. tree' = tree /\ built' = built
  BY DEF RunHoldouts, Inspect, Bench, world
<1>3. /\ DOMAIN run'[j] = Fields /\ run'[j].pc = pc /\ run'[j].seen = run[j].seen \union vs
      /\ run'[j].cand = run[j].cand /\ run'[j].mode = run[j].mode
      /\ run'[j].policy = run[j].policy /\ run'[j].suites = run[j].suites
      /\ run'[j].sha = run[j].sha
      /\ run'[j].restored = run[j].restored /\ run'[j].crossed = run[j].crossed
  BY <1>1 DEF JudgeShape, RunInv, Typed, Fields
<1>4. /\ run[j].pc \in {"holdouts", "inspect", "bench"}
      /\ pc \in {"inspect", "bench", "sign"}
  BY <1>1
<1>5. Typed(j)' /\ SuitesLoaded(j)' /\ NothingSeen(j)'
  BY <1>3, <1>4 DEF RunInv, Typed, SuitesLoaded, NothingSeen, Loaded, At
<1>6. SomethingSeen(j)'
  BY <1>1, <1>3 DEF RunInv, SomethingSeen
<1>7. (Steady(j)' => Steady(j)) /\ (Built(j)' => Built(j))
  BY <1>2, <1>3, <1>4 DEF Steady, Preflighted, Bound, Built, Tree
<1>8. PinnedHoldouts(j)'
  BY <1>3, <1>4 DEF RunInv, PinnedHoldouts, Pinned, Bound
<1>9. ASSUME Steady(j)
      PROVE  vs \subseteq {run[j].sha}
  <2>1. run[j].mode = "build" => built[BuildDir(j)] = run[j].sha
    BY <1>4, <1>9 DEF RunInv, SubjectSeen, Built
  <2>2. QED
    BY <1>1, <1>9, <2>1 DEF Program, Steady
<1>10. SubjectSeen(j)'
  BY <1>2, <1>3, <1>7, <1>9 DEF RunInv, SubjectSeen, BuildDir
<1>11. QED
  BY <1>5, <1>6, <1>8, <1>10 DEF RunInv

\* A hard failure of the replay layer is a failed verdict.
LEMMA VerdictReplays ==
  ASSUME NEW j \in Judges, NEW v \in Verdict(j), v.hard
  PROVE  ReplayPassed(j)
<1> DEFINE correctness == evaluate_repo
             \union evaluate_synthetic(run[j].passed, Holdouts[run[j].suites])
<1>1. PICK correct \in correctness, secure \in SecurityLayer, styled \in StyleLayer,
           fast \in PerformanceLayer :
        v = [hard |-> correct /\ secure /\ styled /\ ReplayPassed(j),
             gates |-> fast /\ run[j].lean]
  BY DEF Verdict
<1>2. v.hard = (correct /\ secure /\ styled /\ ReplayPassed(j))
  BY <1>1
<1>3. QED
  BY <1>2

\* What is signed.
LEMMA SignKeeps ==
  ASSUME NEW j \in Judges, RunInv(j), ReceiptInv, SignV2(j) \/ SignV1(j)
  PROVE  ReceiptInv'
<1>1. PICK v \in Verdict(j) : receipts' = receipts \union {Receipt(j, v)}
  BY DEF SignV2, SignV1, Emit
<1>2. PICK r : r = Receipt(j, v)
  OBVIOUS
<1>3. /\ r.version = (IF Bound(j) THEN 2 ELSE 1)
      /\ r.sha = run[j].sha /\ r.suites = run[j].suites /\ r.policy = run[j].policy
      /\ r.total = Holdouts[run[j].suites] /\ r.passed = run[j].passed /\ r.seen = run[j].seen
      /\ r.restored = run[j].restored /\ r.crossed = run[j].crossed
      /\ r.admitted => v.hard
  BY <1>2 DEF Receipt
<1>4. run[j].pc = "sign"
  BY DEF SignV2, SignV1, At
<1>5. r.seen # {} /\ r.total > 0
  BY <1>3, <1>4 DEF RunInv, SomethingSeen, SuitesLoaded, Loaded
<1>6. r.admitted => r.passed = r.total
  BY <1>3, VerdictReplays DEF ReplayPassed
<1>7. ASSUME r.version = 2
      PROVE  /\ Undisturbed(r) => r.seen \subseteq {r.sha}
             /\ r.suites = Policies[r.policy].pin /\ r.total = Holdouts[r.suites]
             /\ Policies[r.policy].allowed
  <2>1. Bound(j)
    BY <1>3, <1>7
  <2>2. Preflighted(j) /\ Tree(j)[Subject] = run[j].sha
    BY <1>4, <2>1 DEF Preflighted, SignV2, SignV1
  <2>3. Undisturbed(r) => Steady(j)
    BY <1>3, <2>2 DEF Undisturbed, Steady
  <2>4. Pinned(j)
    BY <2>2 DEF Preflighted, Pinned
  <2>5. QED
    BY <1>3, <2>3, <2>4 DEF RunInv, PinnedHoldouts, SubjectSeen
<1>8. receipts' = receipts \union {r}
  BY <1>1, <1>2
<1>9. SeenReceipts' /\ AdmittedPassedAll'
  BY <1>5, <1>6, <1>8 DEF ReceiptInv, SeenReceipts, AdmittedPassedAll
<1>10. ScoreIsOfSubject' /\ HoldoutsAsPinned'
  BY <1>7, <1>8 DEF ReceiptInv, ScoreIsOfSubject, HoldoutsAsPinned
<1>11. QED
  BY <1>9, <1>10 DEF ReceiptInv

\* A judge keeps its own part and the receipts.
LEMMA JudgeKeeps ==
  ASSUME JudgeShape, NEW j \in Judges, RunInv(j), ReceiptInv, JudgeStep(j), tree' = tree
  PROVE  RunInv(j)' /\ ReceiptInv'
<1>1. CASE SignV2(j) \/ SignV1(j)
  <2>1. run'[j] = Fresh
    BY <1>1 DEF SignV2, SignV1, Emit, JudgeShape
  <2>2. QED
    BY <1>1, <2>1, SignKeeps, BecomesFresh
<1>2. CASE Abandon(j)
  <2>1. run'[j] = Fresh /\ receipts' = receipts
    BY <1>2 DEF Abandon, JudgeShape
  <2>2. QED
    BY <2>1, BecomesFresh DEF ReceiptInv, SeenReceipts, ScoreIsOfSubject, HoldoutsAsPinned,
       AdmittedPassedAll
<1>3. CASE \/ Start(j) \/ LoadStrict(j) \/ V2Preflight(j) \/ HashSubject(j) \/ Builds(j)
           \/ ResolveFile(j) \/ RunHoldouts(j) \/ Inspect(j) \/ Bench(j)
  <2>1. receipts' = receipts
    BY <1>3 DEF Start, LoadStrict, V2Preflight, HashSubject, Builds, ClearBuildDir,
       ResolveBuild, ResolveFile, RunHoldouts, Inspect, Bench
  <2>2. ReceiptInv'
    BY <2>1 DEF ReceiptInv, SeenReceipts, ScoreIsOfSubject, HoldoutsAsPinned,
       AdmittedPassedAll
  <2>3. QED
    BY <1>3, <2>2, StartKeeps, LoadKeeps, PreflightKeeps, ResolveKeeps, LookKeeps
<1>4. QED
  BY <1>1, <1>2, <1>3 DEF JudgeStep, Builds

-----------------------------------------------------------------------------
(* The steps together. *)

\* The steps that neither run a judge nor edit a tree.
Elsewhere ==
  \/ \E p \in DOMAIN Policies : EditPolicy(p)
  \/ \E h \in DOMAIN Holdouts : EditHoldouts(h)
  \/ \E c \in Cands : StageGeneration(c)
  \/ \E v \in Contents : EditGeneration(v)
  \/ \E r \in receipts : Promote(r)
  \/ UNCHANGED judgeVars

LEMMA JudgeInvInductive ==
  ASSUME JudgeInv, [JudgeNext]_judgeVars
  PROVE  JudgeInv'
<1>1. JudgeShape /\ (\A j \in Judges : RunInv(j)) /\ ReceiptInv /\ PromotedWasJudged
  BY DEF JudgeInv
<1>2. ASSUME NEW j \in Judges, JudgeStep(j) PROVE JudgeInv'
  <2>1. /\ UNCHANGED <<tree, promoted>>
        /\ DOMAIN run' = Judges /\ DOMAIN built' = DOMAIN built
        /\ \A k \in Judges \ {j} : RunInv(k)'
    BY <1>1, <1>2, JudgeFrame DEF world
  <2>2. RunInv(j)' /\ ReceiptInv'
    BY <1>1, <1>2, <2>1, JudgeKeeps
  <2>3. JudgeShape' /\ PromotedWasJudged'
    BY <1>1, <2>1 DEF JudgeShape, PromotedWasJudged, BuildDir
  <2>4. QED
    BY <2>1, <2>2, <2>3 DEF JudgeInv
<1>3. ASSUME NEW c \in Cands, NEW f \in Files, NEW v \in Contents, EditTree(c, f, v)
      PROVE  JudgeInv'
  <2>1. receipts' = receipts /\ promoted' = promoted
    BY <1>3 DEF EditTree
  <2>2. ReceiptInv' /\ PromotedWasJudged'
    BY <1>1, <2>1 DEF ReceiptInv, SeenReceipts, ScoreIsOfSubject, HoldoutsAsPinned,
       AdmittedPassedAll, PromotedWasJudged
  <2>3. QED
    BY <1>1, <1>3, <2>2, EditTreeKeeps, EditTreeShape DEF JudgeInv
<1>4. CASE Elsewhere
  <2>1. UNCHANGED <<tree, run, built, receipts>>
    BY <1>4 DEF Elsewhere, EditPolicy, EditHoldouts, StageGeneration, EditGeneration, Promote,
       judgeVars
  <2>2. \A j \in Judges : RunInv(j)'
    BY <1>1, <2>1, RunKept DEF BuildDir
  <2>4. JudgeShape'
    BY <1>1, <2>1 DEF JudgeShape, BuildDir
  <2>5. ReceiptInv'
    BY <1>1, <2>1 DEF ReceiptInv, SeenReceipts, ScoreIsOfSubject, HoldoutsAsPinned,
       AdmittedPassedAll
  <2>6. PromotedWasJudged'
    <3>1. CASE \E r \in receipts : Promote(r)
      BY <1>1, <3>1, PromoteKeeps
    <3>2. CASE promoted' = promoted
      BY <1>1, <3>2 DEF PromotedWasJudged
    <3>3. QED
      BY <1>4, <3>1, <3>2 DEF Elsewhere, EditPolicy, EditHoldouts, StageGeneration,
         EditGeneration, judgeVars
  <2>7. QED
    BY <2>2, <2>4, <2>5, <2>6 DEF JudgeInv
<1>5. QED
  BY <1>2, <1>3, <1>4 DEF JudgeNext, Elsewhere

LEMMA JudgeInvInitially ==
  ASSUME JudgeInit
  PROVE  JudgeInv
<1>1. JudgeShape
  BY DEF JudgeInit, JudgeShape
<1>2. ReceiptInv /\ PromotedWasJudged
  BY DEF JudgeInit, ReceiptInv, SeenReceipts, ScoreIsOfSubject, HoldoutsAsPinned,
     AdmittedPassedAll, PromotedWasJudged
<1>3. ASSUME NEW j \in Judges PROVE RunInv(j)
  <2>1. run[j] = Fresh
    BY DEF JudgeInit
  <2>2. QED
    BY <2>1 DEF Fresh, Fields, RunInv, Typed, SuitesLoaded, NothingSeen, SomethingSeen,
       PinnedHoldouts, Pinned, SubjectSeen, Steady, Loaded, Preflighted, Bound, At
<1>4. QED
  BY <1>1, <1>2, <1>3 DEF JudgeInv

LEMMA JudgeAlways == JudgeSpec => []JudgeInv
  BY JudgeInvInitially, JudgeInvInductive, PTL DEF JudgeSpec

\* A version 2 receipt signs the digest of exactly the bytes that were built, run, tested
\* and diffed, unless these bytes were put back into the tree after others or another run of
\* the same cycle id wrote to the build directory: no other edits of the tree and no other
\* runs can make the score one of different bytes.
THEOREM ScoresAreOfTheSubject == JudgeSpec => []ScoreIsOfSubject
<1>1. JudgeInv => ScoreIsOfSubject
  BY DEF JudgeInv, ReceiptInv
<1>2. QED
  BY <1>1, JudgeAlways, PTL

\* A version 2 receipt counts the cases of the holdout set that its policy pins.
THEOREM ReceiptsAsPinned == JudgeSpec => []HoldoutsAsPinned
<1>1. JudgeInv => HoldoutsAsPinned
  BY DEF JudgeInv, ReceiptInv
<1>2. QED
  BY <1>1, JudgeAlways, PTL

\* A receipt of either version admits only a change that passed every holdout.
THEOREM AdmittedPassed == JudgeSpec => []AdmittedPassedAll
<1>1. JudgeInv => AdmittedPassedAll
  BY DEF JudgeInv, ReceiptInv
<1>2. QED
  BY <1>1, JudgeAlways, PTL

\* What the promotion gate lets through is on disk in the bytes a judge has signed, on the
\* holdouts pinned now and with every case passed, and was evaluated in these bytes unless
\* something happened that the second hash cannot notice.
THEOREM PromotionWasJudged == JudgeSpec => []PromotedWasJudged
<1>1. JudgeInv => PromotedWasJudged
  BY DEF JudgeInv
<1>2. QED
  BY <1>1, JudgeAlways, PTL

=============================================================================
