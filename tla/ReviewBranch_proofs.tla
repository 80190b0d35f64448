------------------------ MODULE ReviewBranch_proofs -------------------------
(***************************************************************************)
(* Proofs that what a ratifier reported stands, and that what is on a      *)
(* review branch is the declared file, in its roots and nothing else: for  *)
(* every number of ratifiers, every set of proposals, also under one id,   *)
(* every spelling of a target, and whatever the owner of the repository    *)
(* does.                                                                   *)
(***************************************************************************)
EXTENDS ReviewBranch, TLAPS, WellFoundedInduction, SequenceTheorems

\* A ratifier is a record of its five locals and works on a proposal unless it is idle.
RatifierShape ==
  /\ DOMAIN rat = Ratifiers
  /\ \A r \in Ratifiers : DOMAIN rat[r] = {"pc", "prop", "target", "base", "commit"}
  /\ \A r \in Ratifiers : rat[r].pc # "idle" => rat[r].prop \in Proposals
  /\ DOMAIN patches = {p.id : p \in Proposals}

\* The branch of the ratifier exists because this ratifier created it.
Created(r) == rat[r].pc \in {"patch", "write", "lesson"}

\* The strengthening. An untouched review branch is where its one creator put it, which is
\* either still at work or has reported; and once the patch is written, it is whole.
CreatorsBranch ==
  \A r \in Ratifiers : Created(r) /\ Branch(r) \notin touched =>
    Branch(r) \in DOMAIN heads /\ heads[Branch(r)] = rat[r].commit
OneCreator ==
  \A r, s \in Ratifiers :
    Created(r) /\ Created(s) /\ Branch(r) = Branch(s) /\ Branch(r) \notin touched => r = s
ReportedIsDone ==
  \A p \in reports, r \in Ratifiers :
    Created(r) /\ Branch(r) = review_branch_name(p.id) => Branch(r) \in touched
PatchWhole ==
  \A r \in Ratifiers : At(r, "lesson") /\ Branch(r) \notin touched =>
    patches[rat[r].prop.id] = [whole |-> TRUE, of |-> rat[r].commit]

ReportInv ==
  /\ RatifierShape /\ CreatorsBranch /\ OneCreator /\ ReportedIsDone /\ PatchWhole
  /\ ReportStands

-----------------------------------------------------------------------------
(* The steps of a ratifier. *)

\* A step before the branch exists, or the end of a ratification without a report: the
\* repository, the patches and the reports are as before, and the ratifier has not created
\* a branch after it.
Harmless(r) ==
  /\ UNCHANGED <<heads, touched, patches, reports>>
  /\ \A s \in Ratifiers \ {r} : rat'[s] = rat[s]
  /\ rat'[r].pc \notin {"patch", "write", "lesson"}

LEMMA HarmlessStep ==
  ASSUME ReportInv, RatifierShape', NEW r \in Ratifiers, Harmless(r)
  PROVE  ReportInv'
<1>1. UNCHANGED <<heads, touched, patches, reports>>
  BY DEF Harmless
<1>2. ~Created(r)' /\ ~At(r, "lesson")'
  BY DEF Harmless, Created, At
<1>3. \A s \in Ratifiers \ {r} : rat'[s] = rat[s]
  BY DEF Harmless
<1>4. CreatorsBranch'
  BY <1>1, <1>2, <1>3 DEF ReportInv, CreatorsBranch, Created, Branch
<1>5. OneCreator'
  BY <1>1, <1>2, <1>3 DEF ReportInv, OneCreator, Created, Branch
<1>6. ReportedIsDone'
  BY <1>1, <1>2, <1>3 DEF ReportInv, ReportedIsDone, Created, Branch
<1>7. PatchWhole'
  BY <1>1, <1>2, <1>3 DEF ReportInv, PatchWhole, At, Branch
<1>8. ReportStands'
  BY <1>1 DEF ReportInv, ReportStands
<1>9. QED
  BY <1>4, <1>5, <1>6, <1>7, <1>8 DEF ReportInv

LEMMA ShapeStep ==
  ASSUME RatifierShape, NEW r \in Ratifiers, RatifierStep(r)
  PROVE  RatifierShape'
<1>1. CASE Start(r)
  BY <1>1 DEF RatifierShape, Start, Idle, At
<1>2. CASE ResolveBase(r)
  BY <1>2 DEF RatifierShape, ResolveBase, At
<1>3. CASE stage_candidate_commit(r)
  <2> DEFINE c == Staged(r, rat[r].base)
  <2>1. /\ rat' = [rat EXCEPT ![r].pc = "gate", ![r].commit = c]
        /\ rat[r].pc = "stage" /\ patches' = patches
    BY <1>3 DEF stage_candidate_commit, At
  <2> HIDE DEF c
  <2>2. QED
    BY <2>1 DEF RatifierShape
<1>4. CASE Gate(r)
  BY <1>4 DEF RatifierShape, Gate, Goto, At
<1>5. CASE ReadNames(r)
  BY <1>5 DEF RatifierShape, ReadNames, Goto, At
<1>6. CASE create_review_branch(r)
  BY <1>6 DEF RatifierShape, create_review_branch, PutReview, Goto, At
<1>7. CASE Reject(r)
  BY <1>7 DEF RatifierShape, Reject, Idle
<1>8. CASE OpenPatch(r)
  BY <1>8 DEF RatifierShape, OpenPatch, Goto, At
<1>9. CASE WritePatch(r)
  BY <1>9 DEF RatifierShape, WritePatch, Goto, At
<1>10. CASE Report(r)
  BY <1>10 DEF RatifierShape, Report, Idle
<1>11. CASE Abandon(r)
  BY <1>11 DEF RatifierShape, Abandon, Idle
<1>12. QED
  BY <1>1, <1>2, <1>3, <1>4, <1>5, <1>6, <1>7, <1>8, <1>9, <1>10, <1>11 DEF RatifierStep

\* The steps that change neither the repository nor the patches nor the reports.
LEMMA QuietSteps ==
  ASSUME RatifierShape, NEW r \in Ratifiers,
         \/ Start(r) \/ ResolveBase(r) \/ stage_candidate_commit(r) \/ Gate(r)
         \/ ReadNames(r) \/ Reject(r) \/ Abandon(r)
  PROVE  Harmless(r)
<1>1. CASE Start(r)
  BY <1>1 DEF RatifierShape, Harmless, Start, Idle, RepoUnchanged, HistoryUnchanged
<1>2. CASE ResolveBase(r)
  BY <1>2 DEF RatifierShape, Harmless, ResolveBase, RepoUnchanged, HistoryUnchanged
<1>3. CASE stage_candidate_commit(r)
  <2> DEFINE c == Staged(r, rat[r].base)
  <2>1. /\ rat' = [rat EXCEPT ![r].pc = "gate", ![r].commit = c]
        /\ UNCHANGED <<heads, touched, patches, reports>>
    BY <1>3 DEF stage_candidate_commit, RepoUnchanged, HistoryUnchanged
  <2> HIDE DEF c
  <2>2. QED
    BY <2>1 DEF RatifierShape, Harmless
<1>4. CASE Gate(r)
  BY <1>4 DEF RatifierShape, Harmless, Gate, Goto, RepoUnchanged, HistoryUnchanged
<1>5. CASE ReadNames(r)
  BY <1>5 DEF RatifierShape, Harmless, ReadNames, Goto, RepoUnchanged, HistoryUnchanged
<1>6. CASE Reject(r)
  BY <1>6 DEF RatifierShape, Harmless, Reject, Idle, RepoUnchanged, HistoryUnchanged
<1>7. CASE Abandon(r)
  BY <1>7 DEF RatifierShape, Harmless, Abandon, Idle, RepoUnchanged, HistoryUnchanged
<1>8. QED
  BY <1>1, <1>2, <1>3, <1>4, <1>5, <1>6, <1>7

\* The new branch did not exist, so nobody else created it and nobody reported it, or the
\* owner has touched it meanwhile.
LEMMA CreateStep ==
  ASSUME ReportInv, RatifierShape', NEW r \in Ratifiers, create_review_branch(r)
  PROVE  ReportInv'
<1>1. /\ rat' = [rat EXCEPT ![r].pc = "patch"] /\ rat[r].pc = "ref"
      /\ UNCHANGED <<touched, patches, reports>>
  BY DEF create_review_branch, PutReview, Goto, At
<1>2. /\ heads' = [b \in DOMAIN heads \cup {Branch(r)} |->
                     IF b = Branch(r) THEN rat[r].commit ELSE heads[b]]
      /\ Branch(r) \notin DOMAIN heads
  BY DEF create_review_branch, PutReview
<1>3. /\ \A s \in Ratifiers \ {r} : rat'[s] = rat[s]
      /\ rat'[r].pc = "patch" /\ rat'[r].prop = rat[r].prop /\ rat'[r].commit = rat[r].commit
  BY <1>1 DEF ReportInv, RatifierShape
<1>4. /\ \A s \in Ratifiers : Branch(s)' = Branch(s)
      /\ \A s \in Ratifiers : Created(s)' => Created(s) \/ s = r
      /\ \A s \in Ratifiers : rat'[s].commit = rat[s].commit
  BY <1>3 DEF Branch, Created
<1>5. \A s \in Ratifiers : Created(s) /\ Branch(s) \notin touched => Branch(s) # Branch(r)
  BY <1>2 DEF ReportInv, CreatorsBranch
<1>6. \A p \in reports : review_branch_name(p.id) = Branch(r) => Branch(r) \in touched
  BY <1>2 DEF ReportInv, ReportStands
<1>7. CreatorsBranch'
  BY <1>1, <1>2, <1>4, <1>5 DEF ReportInv, CreatorsBranch
<1>8. OneCreator'
  BY <1>1, <1>4, <1>5 DEF ReportInv, OneCreator
<1>9. ReportedIsDone'
  BY <1>1, <1>4, <1>6 DEF ReportInv, ReportedIsDone, review_branch_name
<1>10. PatchWhole'
  BY <1>1, <1>3, <1>4 DEF ReportInv, PatchWhole, At
<1>11. ReportStands'
  BY <1>1, <1>2 DEF ReportInv, ReportStands, review_branch_name
<1>12. QED
  BY <1>7, <1>8, <1>9, <1>10, <1>11 DEF ReportInv

\* Only the creator of a branch writes its patch, and nobody does after the report.
LEMMA PatchStep ==
  ASSUME ReportInv, RatifierShape', NEW r \in Ratifiers, OpenPatch(r) \/ WritePatch(r)
  PROVE  ReportInv'
<1>1. PICK next \in {"write", "lesson"}, w \in BOOLEAN :
        /\ rat' = [rat EXCEPT ![r].pc = next] /\ Created(r) /\ rat[r].pc # "idle"
        /\ patches' = [patches EXCEPT ![rat[r].prop.id] = [whole |-> w, of |-> rat[r].commit]]
        /\ next = "lesson" => w = TRUE
  BY DEF OpenPatch, WritePatch, Goto, At, Created
<1>2. UNCHANGED <<heads, touched, reports>>
  BY DEF OpenPatch, WritePatch, RepoUnchanged, HistoryUnchanged
<1>3. /\ \A s \in Ratifiers \ {r} : rat'[s] = rat[s]
      /\ rat'[r].pc = next /\ rat'[r].prop = rat[r].prop /\ rat'[r].commit = rat[r].commit
  BY <1>1 DEF ReportInv, RatifierShape
<1>4. /\ \A s \in Ratifiers : Branch(s)' = Branch(s)
      /\ \A s \in Ratifiers : Created(s)' = Created(s)
      /\ \A s \in Ratifiers : rat'[s].commit = rat[s].commit /\ rat'[s].prop = rat[s].prop
  BY <1>1, <1>3 DEF Branch, Created
<1>5. rat[r].prop.id \in DOMAIN patches
  BY <1>1 DEF ReportInv, RatifierShape
<1>6. CreatorsBranch' /\ OneCreator' /\ ReportedIsDone'
  BY <1>2, <1>4 DEF ReportInv, CreatorsBranch, OneCreator, ReportedIsDone, review_branch_name
<1>7. PatchWhole'
  <2> SUFFICES ASSUME NEW s \in Ratifiers, At(s, "lesson")', Branch(s) \notin touched
               PROVE  patches'[rat[s].prop.id] = [whole |-> TRUE, of |-> rat[s].commit]
    BY <1>2, <1>4 DEF PatchWhole
  <2>1. CASE s = r
    BY <2>1, <1>1, <1>3, <1>5 DEF At
  <2>2. CASE s # r
    <3>1. At(s, "lesson") /\ Created(s)
      BY <2>2, <1>3 DEF At, Created
    <3>2. rat[s].prop.id # rat[r].prop.id
      BY <2>2, <3>1, <1>1 DEF ReportInv, OneCreator, Branch, review_branch_name
    <3>3. QED
      BY <3>1, <3>2, <1>1 DEF ReportInv, PatchWhole
  <2>3. QED
    BY <2>1, <2>2
<1>8. ReportStands'
  <2> SUFFICES ASSUME NEW p \in reports, review_branch_name(p.id) \notin touched
               PROVE  /\ review_branch_name(p.id) \in DOMAIN heads
                      /\ heads[review_branch_name(p.id)] = p.commit
                      /\ patches'[p.id] = [whole |-> TRUE, of |-> p.commit]
    BY <1>2 DEF ReportStands, review_branch_name
  <2>1. p.id # rat[r].prop.id
    BY <1>1 DEF ReportInv, ReportedIsDone, Branch
  <2>2. QED
    BY <2>1, <1>1 DEF ReportInv, ReportStands
<1>9. QED
  BY <1>6, <1>7, <1>8 DEF ReportInv

\* A report is of a branch that its creator left with a whole patch.
LEMMA ReportStep ==
  ASSUME ReportInv, RatifierShape', NEW r \in Ratifiers, Report(r)
  PROVE  ReportInv'
<1> DEFINE new == [id |-> rat[r].prop.id, commit |-> rat[r].commit]
<1>1. /\ rat' = [rat EXCEPT ![r] = Idle] /\ At(r, "lesson") /\ Created(r)
      /\ reports' = reports \cup {new}
      /\ UNCHANGED <<heads, touched, patches>>
  BY DEF Report, At, Created, RepoUnchanged
<1>2. ~Created(r)' /\ ~At(r, "lesson")'
  BY <1>1 DEF ReportInv, RatifierShape, Created, At, Idle
<1>3. \A s \in Ratifiers \ {r} : rat'[s] = rat[s]
  BY <1>1 DEF ReportInv, RatifierShape
<1>4. CreatorsBranch' /\ OneCreator' /\ PatchWhole'
  BY <1>1, <1>2, <1>3 DEF ReportInv, CreatorsBranch, OneCreator, PatchWhole, Created, Branch, At
<1>5. ReportedIsDone'
  <2> SUFFICES ASSUME NEW p \in reports', NEW s \in Ratifiers, Created(s)',
                      Branch(s)' = review_branch_name(p.id)
               PROVE  Branch(s)' \in touched
    BY <1>1 DEF ReportedIsDone, review_branch_name
  <2>1. s # r /\ Created(s) /\ Branch(s) = Branch(s)'
    BY <1>2, <1>3 DEF Created, Branch
  <2>2. CASE p \in reports
    BY <2>1, <2>2 DEF ReportInv, ReportedIsDone
  <2>3. CASE p = new
    BY <2>1, <2>3, <1>1 DEF ReportInv, OneCreator, Branch
  <2>4. QED
    BY <2>2, <2>3, <1>1
<1>6. ReportStands'
  BY <1>1 DEF ReportInv, ReportStands, PatchWhole, CreatorsBranch, Branch, review_branch_name
<1>7. QED
  BY <1>4, <1>5, <1>6 DEF ReportInv

-----------------------------------------------------------------------------
(* The owner, and the theorem. *)

\* The owner touches the branches it changes.
LEMMA OwnerStep ==
  ASSUME ReportInv, Owner
  PROVE  ReportInv'
<1>1. /\ UNCHANGED <<rat, patches, reports>>
      /\ touched \subseteq touched'
      /\ \A b \in DOMAIN heads \ touched' : b \in DOMAIN heads' /\ heads'[b] = heads[b]
  <2>1. CASE Commit
    BY <2>1 DEF Commit, OwnerActs, HistoryUnchanged
  <2>2. CASE Checkout
    BY <2>2 DEF Checkout, OwnerActs, HistoryUnchanged
  <2>3. CASE Merge
    BY <2>3 DEF Merge, OwnerActs, HistoryUnchanged
  <2>4. CASE CreateBranch
    BY <2>4 DEF CreateBranch, OwnerActs, HistoryUnchanged
  <2>5. CASE DeleteBranch
    BY <2>5 DEF DeleteBranch, OwnerActs, HistoryUnchanged
  <2>6. QED
    BY <2>1, <2>2, <2>3, <2>4, <2>5 DEF Owner
<1>2. RatifierShape'
  BY <1>1 DEF ReportInv, RatifierShape
<1>3. CreatorsBranch' /\ OneCreator' /\ ReportedIsDone' /\ PatchWhole'
  BY <1>1 DEF ReportInv, CreatorsBranch, OneCreator, ReportedIsDone, PatchWhole, Created, Branch,
    At, review_branch_name
<1>4. ReportStands'
  BY <1>1 DEF ReportInv, ReportStands, review_branch_name
<1>5. QED
  BY <1>2, <1>3, <1>4 DEF ReportInv

\* What was reported as offered for review stays on its branch with a whole patch until the
\* owner touches the branch: no ratifier, under whatever id and wherever it is killed, takes
\* it away.
THEOREM ReportsStand == ReviewSpec => []ReportStands
<1>1. ReviewInit => ReportInv
  BY DEF ReviewInit, ReportInv, RatifierShape, CreatorsBranch, OneCreator, ReportedIsDone,
    PatchWhole, ReportStands, Created, At, Idle
<1>2. ReportInv /\ [ReviewNext]_reviewVars => ReportInv'
  <2> SUFFICES ASSUME ReportInv, [ReviewNext]_reviewVars
               PROVE  ReportInv'
    OBVIOUS
  <2>1. ASSUME NEW r \in Ratifiers, RatifierStep(r)
        PROVE  ReportInv'
    <3>1. RatifierShape'
      BY <2>1, ShapeStep DEF ReportInv
    <3>2. CASE \/ Start(r) \/ ResolveBase(r) \/ stage_candidate_commit(r) \/ Gate(r)
               \/ ReadNames(r) \/ Reject(r) \/ Abandon(r)
      BY <3>1, <3>2, QuietSteps, HarmlessStep DEF ReportInv
    <3>3. CASE create_review_branch(r)
      BY <3>1, <3>3, CreateStep
    <3>4. CASE OpenPatch(r) \/ WritePatch(r)
      BY <3>1, <3>4, PatchStep
    <3>5. CASE Report(r)
      BY <3>1, <3>5, ReportStep
    <3>6. QED
      BY <2>1, <3>2, <3>3, <3>4, <3>5 DEF RatifierStep
  <2>2. CASE Owner
    BY <2>2, OwnerStep
  <2>3. CASE UNCHANGED reviewVars
    BY <2>3 DEF reviewVars, ReportInv, RatifierShape, CreatorsBranch, OneCreator,
      ReportedIsDone, PatchWhole, ReportStands, Created, At, Branch, review_branch_name
  <2>4. QED
    BY <2>1, <2>2, <2>3 DEF ReviewNext
<1>3. ReportInv => ReportStands
  BY DEF ReportInv
<1>4. QED
  BY <1>1, <1>2, <1>3, PTL DEF ReviewSpec

-----------------------------------------------------------------------------
(* Induction over data. *)

\* Induction over the natural numbers, for a set instead of a predicate: what the
\* definitions by recursion below compute is shown with it.
Below == {pair \in Nat \X Nat : pair[1] < pair[2]}

LEMMA BelowIsWellFounded == IsWellFoundedOn(Below, Nat)
  BY NatLessThanWellFounded DEF OpToRel, Below

LEMMA SetInduction ==
  ASSUME NEW S, 0 \in S, \A n \in Nat : n \in S => n + 1 \in S
  PROVE  Nat \subseteq S
<1> DEFINE T == Nat \ S
<1> SUFFICES ASSUME T # {} PROVE FALSE
  OBVIOUS
<1>1. T \subseteq Nat /\ IsWellFoundedOn(Below, Nat)
  BY BelowIsWellFounded
<1> HIDE DEF T
<1>2. PICK x \in T : \A y \in T : ~(<<y, x>> \in Below)
  BY <1>1, WFMin
<1>3. x \in Nat /\ x # 0 /\ x \notin S
  BY DEF T
<1>4. x - 1 \in Nat /\ x - 1 < x
  BY <1>3
<1>5. <<x - 1, x>> \in Below
  BY <1>3, <1>4 DEF Below
<1>6. x - 1 \in S
  BY <1>2, <1>4, <1>5 DEF T
<1>7. x \in S
  <2>1. (x - 1) + 1 \in S
    BY <1>4, <1>6
  <2>2. (x - 1) + 1 = x
    BY <1>3
  <2>3. QED
    BY <2>1, <2>2
<1>8. QED
  BY <1>3, <1>7

\* A function over 0..n that starts with the empty name and is given by a step exists.
LEMMA RecursionExists ==
  ASSUME NEW n \in Nat, NEW g \in [1..n -> [Names -> Names]]
  PROVE  \E f \in [0..n -> Names] : f[0] = <<>> /\ \A i \in 1..n : f[i] = g[i][f[i - 1]]
<1> DEFINE Upto(m) ==
      \E f \in [0..m -> Names] : f[0] = <<>> /\ \A i \in 1..m : f[i] = g[i][f[i - 1]]
           S == {m \in Nat : m <= n => Upto(m)}
<1>1. 0 \in S
  <2>1. [i \in 0..0 |-> <<>>] \in [0..0 -> Names] /\ [i \in 0..0 |-> <<>>][0] = <<>>
    BY DEF Names
  <2>2. Upto(0)
    <3>1. 1..0 = {}
      OBVIOUS
    <3>2. QED
      BY <2>1, <3>1
  <2>3. QED
    BY <2>2
<1>2. ASSUME NEW m \in Nat, m \in S PROVE m + 1 \in S
  <2> SUFFICES ASSUME m + 1 <= n PROVE Upto(m + 1)
    OBVIOUS
  <2>1. PICK f \in [0..m -> Names] : f[0] = <<>> /\ \A i \in 1..m : f[i] = g[i][f[i - 1]]
    BY <1>2
  <2> DEFINE h == [i \in 0..(m + 1) |-> IF i = m + 1 THEN g[m + 1][f[m]] ELSE f[i]]
  <2>2. f[m] \in Names /\ g[m + 1][f[m]] \in Names
    OBVIOUS
  <2>3. h \in [0..(m + 1) -> Names] /\ h[0] = <<>>
    BY <2>1, <2>2
  <2>4. ASSUME NEW i \in 1..(m + 1) PROVE h[i] = g[i][h[i - 1]]
    <3>1. CASE i = m + 1
      <4>1. h[i] = g[m + 1][f[m]] /\ h[m] = f[m]
        BY <3>1
      <4>2. QED
        BY <3>1, <4>1
    <3>2. CASE i \in 1..m
      <4>1. h[i] = f[i] /\ h[i - 1] = f[i - 1]
        BY <3>2
      <4>2. QED
        BY <2>1, <3>2, <4>1
    <3>3. QED
      BY <3>1, <3>2
  <2> HIDE DEF h
  <2>5. QED
    BY <2>3, <2>4
<1> HIDE DEF Upto
<1>3. Nat \subseteq S
  <2>1. 0 \in S /\ \A m \in Nat : m \in S => m + 1 \in S
    BY <1>1, <1>2
  <2> HIDE DEF S
  <2>2. QED
    BY <2>1, SetInduction
<1>4. Upto(n)
  BY <1>3
<1>5. QED
  BY <1>4 DEF Upto

-----------------------------------------------------------------------------
(* What the two normalisations compute. *)

\* Kept does what its definition says: the function that the definition describes exists.
LEMMA KeptSteps ==
  ASSUME NEW raw \in Names
  PROVE  /\ Kept(raw)[0] = <<>>
         /\ \A i \in 1..Len(raw) :
              Kept(raw)[i] = IF raw[i] \in {"", "."} THEN Kept(raw)[i - 1]
                             ELSE Append(Kept(raw)[i - 1], raw[i])
<1> DEFINE Is(k) == k = [i \in 0..Len(raw) |->
                           IF i = 0 THEN <<>>
                           ELSE IF raw[i] \in {"", "."} THEN k[i - 1] ELSE Append(k[i - 1], raw[i])]
           g == [i \in 1..Len(raw) |-> [s \in Names |->
                   IF raw[i] \in {"", "."} THEN s ELSE Append(s, raw[i])]]
<1>1. Len(raw) \in Nat /\ <<>> \in Names /\ \A i \in 1..Len(raw) : raw[i] \in STRING
  BY DEF Names
<1>2. g \in [1..Len(raw) -> [Names -> Names]]
  <2>1. ASSUME NEW i \in 1..Len(raw), NEW s \in Names
        PROVE  (IF raw[i] \in {"", "."} THEN s ELSE Append(s, raw[i])) \in Names
    BY <1>1, AppendProperties DEF Names
  <2>2. QED
    BY <2>1
<1>3. PICK f \in [0..Len(raw) -> Names] :
        f[0] = <<>> /\ \A i \in 1..Len(raw) : f[i] = g[i][f[i - 1]]
  <2> HIDE DEF g
  <2>1. QED
    BY <1>1, <1>2, RecursionExists, Zenon
<1>4. ASSUME NEW i \in 1..Len(raw)
      PROVE  f[i] = IF raw[i] \in {"", "."} THEN f[i - 1] ELSE Append(f[i - 1], raw[i])
  <2>1. i - 1 \in 0..Len(raw) /\ f[i - 1] \in Names
    BY <1>1
  <2>2. QED
    BY <1>3, <2>1
<1> HIDE DEF g
<1>5. Is(f)
  <2>1. \A i \in 0..Len(raw) : i # 0 => i \in 1..Len(raw)
    BY <1>1
  <2>2. \A i \in 0..Len(raw) :
          f[i] = IF i = 0 THEN <<>>
                 ELSE IF raw[i] \in {"", "."} THEN f[i - 1] ELSE Append(f[i - 1], raw[i])
    BY <1>3, <1>4, <2>1
  <2>3. QED
    BY <2>2, Zenon
<1>6. \E k : Is(k)
  BY <1>5
<1>7. Is(Kept(raw))
  BY <1>6, Zenon DEF Kept
<1>8. DOMAIN Kept(raw) = 0..Len(raw) /\ \A i \in 0..Len(raw) :
          Kept(raw)[i] = IF i = 0 THEN <<>>
                         ELSE IF raw[i] \in {"", "."} THEN Kept(raw)[i - 1]
                         ELSE Append(Kept(raw)[i - 1], raw[i])
  BY <1>7, Zenon
<1>9. 0 \in 0..Len(raw) /\ \A i \in 1..Len(raw) : i \in 0..Len(raw) /\ i # 0
  BY <1>1
<1>10. QED
  BY <1>8, <1>9, Zenon

\* What is kept of a name that has no `..` is a name without `..`.
LEMMA KeptIsPlain ==
  ASSUME NEW raw \in Names, ".." \notin Elements(raw)
  PROVE  \A i \in 0..Len(raw) : Kept(raw)[i] \in Seq(STRING \ {".."})
<1> DEFINE Plain == STRING \ {".."}
           S == {i \in Nat : i <= Len(raw) => Kept(raw)[i] \in Seq(Plain)}
<1>1. Len(raw) \in Nat /\ \A i \in 1..Len(raw) : raw[i] \in Plain
  BY DEF Names, Elements
<1> HIDE DEF Plain
<1>2. 0 \in S
  <2>1. Kept(raw)[0] = <<>>
    BY KeptSteps, Zenon
  <2>2. <<>> \in Seq(Plain)
    OBVIOUS
  <2>3. QED
    BY <2>1, <2>2
<1>3. ASSUME NEW n \in Nat, n \in S PROVE n + 1 \in S
  <2> SUFFICES ASSUME n + 1 <= Len(raw) PROVE Kept(raw)[n + 1] \in Seq(Plain)
    OBVIOUS
  <2>1. n + 1 \in 1..Len(raw) /\ (n + 1) - 1 = n /\ n <= Len(raw)
    BY <1>1
  <2>2. Kept(raw)[n] \in Seq(Plain) /\ raw[n + 1] \in Plain
    BY <1>1, <1>3, <2>1
  <2>3. Kept(raw)[n + 1] = IF raw[n + 1] \in {"", "."} THEN Kept(raw)[n]
                           ELSE Append(Kept(raw)[n], raw[n + 1])
    BY <2>1, KeptSteps
  <2>4. Append(Kept(raw)[n], raw[n + 1]) \in Seq(Plain)
    BY <2>2, AppendProperties
  <2>5. QED
    BY <2>2, <2>3, <2>4, Zenon
<1>4. Nat \subseteq S
  <2>1. 0 \in S /\ \A n \in Nat : n \in S => n + 1 \in S
    BY <1>2, <1>3
  <2> HIDE DEF S
  <2>2. QED
    BY <2>1, SetInduction
<1>5. QED
  BY <1>1, <1>4 DEF Plain

\* The mark of a name that climbs is not among the names without `..`.
LEMMA PlainDoesNotClimb ==
  ASSUME NEW s \in Seq(STRING \ {".."})
  PROVE  s # Climbs /\ s \in Names
<1>1. s # Climbs
  <2> SUFFICES ASSUME s = <<"..">> PROVE FALSE
    BY DEF Climbs
  <2>1. Len(s) = 1 /\ s[1] = ".."
    OBVIOUS
  <2>2. s[1] \in STRING \ {".."}
    BY <2>1
  <2>3. QED
    BY <2>1, <2>2
<1>2. s \in Names
  BY DEF Names
<1>3. QED
  BY <1>1, <1>2

\* Without `..` the two ways to normalise a name agree at every component.
LEMMA StackIsKept ==
  ASSUME NEW raw \in Names, ".." \notin Elements(raw)
  PROVE  \A i \in 0..Len(raw) : Stack(raw)[i] = Kept(raw)[i]
<1> DEFINE Step(k, i) ==
             CASE k[i - 1] = Climbs -> Climbs
               [] raw[i] \in {"", "."} -> k[i - 1]
               [] raw[i] = ".." /\ k[i - 1] = <<>> -> Climbs
               [] raw[i] = ".." -> SubSeq(k[i - 1], 1, Len(k[i - 1]) - 1)
               [] OTHER -> Append(k[i - 1], raw[i])
           Is(k) == k = [i \in 0..Len(raw) |-> IF i = 0 THEN <<>> ELSE Step(k, i)]
<1>1. /\ Len(raw) \in Nat
      /\ \A i \in 1..Len(raw) : raw[i] # ".." /\ i - 1 \in 0..Len(raw) /\ i \in 0..Len(raw) /\ i # 0
      /\ \A i \in 0..Len(raw) : i # 0 => i \in 1..Len(raw)
  BY DEF Names, Elements
<1>2. \A i \in 0..Len(raw) : Kept(raw)[i] # Climbs
  BY KeptIsPlain, PlainDoesNotClimb
<1>3. ASSUME NEW k, NEW i \in 1..Len(raw), k[i - 1] # Climbs
      PROVE  Step(k, i) = IF raw[i] \in {"", "."} THEN k[i - 1] ELSE Append(k[i - 1], raw[i])
  BY <1>1, <1>3, Zenon
<1>4. \E k : Is(k)
  <2> DEFINE f == [i \in 0..Len(raw) |-> Kept(raw)[i]]
  <2>1. \A i \in 0..Len(raw) : f[i] = IF i = 0 THEN <<>> ELSE Step(f, i)
    <3> SUFFICES ASSUME NEW i \in 0..Len(raw)
                 PROVE  f[i] = IF i = 0 THEN <<>> ELSE Step(f, i)
      OBVIOUS
    <3>1. CASE i = 0
      BY <3>1, KeptSteps
    <3>2. CASE i # 0
      <4>1. i \in 1..Len(raw) /\ i - 1 \in 0..Len(raw)
        BY <1>1, <3>2
      <4>2. f[i] = Kept(raw)[i] /\ f[i - 1] = Kept(raw)[i - 1]
        BY <4>1
      <4> HIDE DEF f
      <4>3. Step(f, i) = IF raw[i] \in {"", "."} THEN f[i - 1] ELSE Append(f[i - 1], raw[i])
        BY <1>2, <1>3, <4>1, <4>2, Zenon
      <4> HIDE DEF Step
      <4>4. Kept(raw)[i] = IF raw[i] \in {"", "."} THEN Kept(raw)[i - 1]
                           ELSE Append(Kept(raw)[i - 1], raw[i])
        BY <4>1, KeptSteps
      <4>5. QED
        BY <3>2, <4>2, <4>3, <4>4, Zenon
    <3>3. QED
      BY <3>1, <3>2
  <2>2. f = [i \in 0..Len(raw) |-> f[i]]
    OBVIOUS
  <2> HIDE DEF f, Step
  <2>3. Is(f)
    BY <2>1, <2>2, Zenon
  <2>4. QED
    BY <2>3, Zenon
<1>5. Is(Stack(raw))
  BY <1>4, Zenon DEF Stack
<1>6. \A i \in 0..Len(raw) : Stack(raw)[i] = IF i = 0 THEN <<>> ELSE Step(Stack(raw), i)
  <2> HIDE DEF Step
  <2>1. QED
    BY <1>5, Zenon
<1> DEFINE S == {i \in Nat : i <= Len(raw) => Stack(raw)[i] = Kept(raw)[i]}
<1>7. 0 \in S
  <2>1. 0 \in 0..Len(raw)
    BY <1>1
  <2> HIDE DEF Step
  <2>2. Stack(raw)[0] = <<>>
    BY <1>6, <2>1, Zenon
  <2>3. QED
    BY <2>2, KeptSteps
<1>8. ASSUME NEW n \in Nat, n \in S PROVE n + 1 \in S
  <2> SUFFICES ASSUME n + 1 <= Len(raw) PROVE Stack(raw)[n + 1] = Kept(raw)[n + 1]
    OBVIOUS
  <2>1. n + 1 \in 1..Len(raw) /\ (n + 1) - 1 = n /\ n <= Len(raw) /\ n \in 0..Len(raw)
    BY <1>1
  <2>2. Stack(raw)[(n + 1) - 1] = Kept(raw)[(n + 1) - 1]
    BY <1>8, <2>1
  <2>3. Stack(raw)[(n + 1) - 1] # Climbs
    BY <1>2, <2>1, <2>2, Zenon
  <2>4. Step(Stack(raw), n + 1) = IF raw[n + 1] \in {"", "."} THEN Stack(raw)[(n + 1) - 1]
                                  ELSE Append(Stack(raw)[(n + 1) - 1], raw[n + 1])
    BY <1>3, <2>1, <2>3, Zenon
  <2> HIDE DEF Step
  <2>5. Stack(raw)[n + 1] = Step(Stack(raw), n + 1)
    BY <1>1, <1>6, <2>1, Zenon
  <2>6. Kept(raw)[n + 1] = IF raw[n + 1] \in {"", "."} THEN Kept(raw)[(n + 1) - 1]
                           ELSE Append(Kept(raw)[(n + 1) - 1], raw[n + 1])
    BY <2>1, KeptSteps, Zenon
  <2>7. QED
    BY <2>2, <2>4, <2>5, <2>6, Zenon
<1>9. Nat \subseteq S
  <2>1. 0 \in S /\ \A n \in Nat : n \in S => n + 1 \in S
    BY <1>7, <1>8
  <2> HIDE DEF S
  <2>2. QED
    BY <2>1, SetInduction
<1>10. QED
  BY <1>1, <1>9

\* The gate and the protected-path check resolve a name that the gate accepts to the same
\* file, whatever empty and `.` components its spelling has.
LEMMA StrictIsKept ==
  ASSUME NEW raw \in Names, normalize_repo_path(raw) # RefusedPath
  PROVE  normalize_repo_path(raw) = normalize_strict(raw) /\ normalize_strict(raw) \in Names
<1>1. /\ ".." \notin Elements(raw) /\ Unusable \notin Elements(raw)
      /\ normalize_repo_path(raw) = Kept(raw)[Len(raw)]
  BY DEF normalize_repo_path
<1>2. normalize_strict(raw) = Stack(raw)[Len(raw)]
  BY <1>1 DEF normalize_strict
<1>3. Len(raw) \in 0..Len(raw)
  BY DEF Names
<1>4. Stack(raw)[Len(raw)] = Kept(raw)[Len(raw)] /\ Kept(raw)[Len(raw)] \in Seq(STRING \ {".."})
  BY <1>1, <1>3, StackIsKept, KeptIsPlain
<1>5. Kept(raw)[Len(raw)] \in Names
  BY <1>4, PlainDoesNotClimb
<1>6. QED
  BY <1>1, <1>2, <1>4, <1>5, Zenon

-----------------------------------------------------------------------------
(* What is on a review branch. *)

\* The locals of a ratifier, by the place it is at: the target was accepted, the commit was
\* built on the base that was resolved, and the gate passed it against that same base.
RatifierOk(w) ==
  /\ w.pc # "idle" => /\ w.prop \in Proposals
                      /\ w.target = check_declared_target(w.prop.target_file)
                      /\ w.target # RefusedPath
  /\ w.pc \in {"gate", "names", "ref"} =>
       /\ w.commit = [tree |-> With(w.base.tree, w.target, w.prop.lines), parents |-> <<w.base>>,
                      by |-> w.prop.id]
       /\ ~SymlinkOnTheWay(w.base.tree, w.target)
  /\ w.pc \in {"names", "ref"} => check_real_diff(real_diff(w.base, w.commit), w.target)

\* One review branch: the two properties of what it holds.
OneFile(v) ==
  \E path \in DOMAIN v.commit.tree :
    /\ real_diff(Parent(v.commit), v.commit) =
         {[path |-> path, old |-> FileIn(Parent(v.commit).tree, path),
           new |-> v.commit.tree[path]]}
    /\ v.commit.tree[path].lines = v.prop.lines
    /\ path = normalize_strict(v.prop.target_file)
InRoots(v) ==
  \A entry \in real_diff(Parent(v.commit), v.commit) :
    /\ ~ \E p \in PROTECTED_PATHS : Prefix(p, entry.path)
    /\ \E root \in ratify_roots : Prefix(normalize_strict(root), entry.path)
    /\ entry.new.mode \in Regular
    /\ ~SymlinkOnTheWay(Parent(v.commit).tree, entry.path)

\* The strengthening: the checks of the gate are about the base and the commit the ratifier
\* still holds when it creates the branch, not about what HEAD names by then.
GateInv ==
  /\ RatifierShape
  /\ \A r \in Ratifiers : RatifierOk(rat[r])
  /\ \A v \in reviews : OneFile(v) /\ InRoots(v)

\* A commit that a ratifier is about to put on its branch has both properties.
LEMMA GatedCommit ==
  ASSUME NEW w, RatifierOk(w), w.pc = "ref"
  PROVE  LET v == [prop |-> w.prop, commit |-> w.commit]
         IN  OneFile(v) /\ InRoots(v)
<1> DEFINE v == [prop |-> w.prop, commit |-> w.commit]
           target == w.target
           base == w.base
           commit == w.commit
           D == real_diff(base, commit)
           e == [path |-> target, old |-> FileIn(base.tree, target),
                 new |-> FileIn(commit.tree, target)]
<1>1. /\ w.prop \in Proposals /\ target # RefusedPath
      /\ target = check_declared_target(w.prop.target_file)
      /\ commit = [tree |-> With(base.tree, target, w.prop.lines), parents |-> <<base>>,
                   by |-> w.prop.id]
      /\ ~SymlinkOnTheWay(base.tree, target)
      /\ check_real_diff(D, target)
  <2>1. w.pc # "idle" /\ w.pc \in {"gate", "names", "ref"} /\ w.pc \in {"names", "ref"}
    OBVIOUS
  <2>2. QED
    BY <2>1, Zenon DEF RatifierOk
<1>2. target = normalize_strict(w.prop.target_file) /\ target \in Names
  <2>1. w.prop.target_file \in Names
    BY <1>1, ReviewAssumption
  <2>2. target = normalize_repo_path(w.prop.target_file)
    BY <1>1 DEF check_declared_target
  <2>3. QED
    BY <1>1, <2>1, <2>2, StrictIsKept
<1>3. /\ Parent(commit) = base
      /\ commit.tree = With(base.tree, target, w.prop.lines)
  BY <1>1 DEF Parent
<1>4. /\ target \in DOMAIN commit.tree
      /\ commit.tree[target].lines = w.prop.lines
      /\ FileIn(commit.tree, target) = commit.tree[target]
  BY <1>3 DEF With, FileIn
<1>5. {entry.path : entry \in D} = {target} /\ \A entry \in D : EntryOk(entry)
  BY <1>1 DEF check_real_diff
<1>6. D = {e}
  <2>1. ASSUME NEW entry \in D
        PROVE  entry = e
    <3>1. entry.path = target
      BY <1>5
    <3>2. PICK q : entry = [path |-> q, old |-> FileIn(base.tree, q),
                            new |-> FileIn(commit.tree, q)]
      BY DEF real_diff
    <3>3. q = target
      BY <3>1, <3>2
    <3>4. QED
      BY <3>2, <3>3
  <2>2. \E entry \in D : TRUE
    BY <1>5
  <2>3. QED
    BY <2>1, <2>2
<1> HIDE DEF D
<1>7. EntryOk(e) /\ e.path = target /\ e.new = FileIn(commit.tree, target)
  BY <1>5, <1>6
<1>8. /\ normalize_repo_path(target) = target /\ within_roots(target)
      /\ e.new.mode \in Regular /\ assert_patch_permitted(target)
  BY <1>7 DEF EntryOk
<1>9. OneFile(v)
  <2>1. v.commit = commit /\ v.prop = w.prop
    OBVIOUS
  <2>2. D = {[path |-> target, old |-> FileIn(base.tree, target), new |-> commit.tree[target]]}
    BY <1>4, <1>6
  <2> HIDE DEF v, commit, base, target
  <2>3. QED
    BY <1>2, <1>3, <1>4, <2>1, <2>2 DEF OneFile, D
<1>10. ~ \E p \in PROTECTED_PATHS : Prefix(p, target)
  <2>1. normalize_strict(target) = target
    BY <1>1, <1>2, <1>8, StrictIsKept
  <2>2. QED
    BY <1>8, <2>1 DEF assert_patch_permitted, is_protected_path
<1>11. \E root \in ratify_roots : Prefix(normalize_strict(root), target)
  <2>1. PICK root \in ratify_roots :
          normalize_repo_path(root) # RefusedPath /\ Prefix(normalize_repo_path(root), target)
    BY <1>8 DEF within_roots
  <2>2. normalize_repo_path(root) = normalize_strict(root)
    BY <2>1, ReviewAssumption, StrictIsKept
  <2>3. QED
    BY <2>1, <2>2
<1>12. InRoots(v)
  <2>1. v.commit = commit
    OBVIOUS
  <2> HIDE DEF v, commit, base, target, e
  <2>2. QED
    BY <1>1, <1>3, <1>6, <1>7, <1>8, <1>10, <1>11, <2>1 DEF InRoots, D
<1>13. QED
  BY <1>9, <1>12

\* Only create_review_branch adds to the review branches.
LEMMA GateStep ==
  ASSUME GateInv, NEW r \in Ratifiers, RatifierStep(r)
  PROVE  GateInv'
<1>1. RatifierShape'
  BY ShapeStep DEF GateInv
<1>2. RatifierOk(rat[r])
  BY DEF GateInv
<1>3. /\ DOMAIN rat = Ratifiers
      /\ \A s \in Ratifiers : DOMAIN rat[s] = {"pc", "prop", "target", "base", "commit"}
  BY DEF GateInv, RatifierShape
<1>4. RatifierOk(Idle)
  BY DEF RatifierOk, Idle
<1>5. \A s \in Ratifiers : RatifierOk(rat'[s])
  <2> SUFFICES /\ \A s \in Ratifiers \ {r} : rat'[s] = rat[s]
               /\ RatifierOk(rat'[r])
    BY DEF GateInv
  <2>1. CASE Start(r)
    <3>1. PICK p \in Proposals :
            /\ check_declared_target(p.target_file) # RefusedPath
            /\ rat' = [rat EXCEPT ![r] = [Idle EXCEPT !.pc = "resolve", !.prop = p,
                                            !.target = check_declared_target(p.target_file)]]
      BY <2>1 DEF Start
    <3>2. /\ rat'[r].pc = "resolve" /\ rat'[r].prop = p
          /\ rat'[r].target = check_declared_target(p.target_file)
          /\ \A s \in Ratifiers \ {r} : rat'[s] = rat[s]
      BY <1>3, <3>1 DEF Idle
    <3>3. QED
      BY <3>1, <3>2 DEF RatifierOk
  <2>2. CASE ResolveBase(r)
    <3>1. /\ rat[r].pc = "resolve" /\ rat'[r].pc = "stage" /\ rat'[r].prop = rat[r].prop
          /\ rat'[r].target = rat[r].target
          /\ \A s \in Ratifiers \ {r} : rat'[s] = rat[s]
      BY <1>3, <2>2 DEF ResolveBase, At
    <3>2. QED
      BY <1>2, <3>1 DEF RatifierOk
  <2>3. CASE stage_candidate_commit(r)
    <3> DEFINE c == Staged(r, rat[r].base)
    <3>1. /\ rat' = [rat EXCEPT ![r].pc = "gate", ![r].commit = c]
          /\ rat[r].pc = "stage" /\ ~SymlinkOnTheWay(rat[r].base.tree, rat[r].target)
      BY <2>3 DEF stage_candidate_commit, At
    <3>2. c = [tree |-> With(rat[r].base.tree, rat[r].target, rat[r].prop.lines),
               parents |-> <<rat[r].base>>, by |-> rat[r].prop.id]
      BY DEF Staged
    <3> HIDE DEF c
    <3>3. /\ rat'[r].pc = "gate" /\ rat'[r].prop = rat[r].prop /\ rat'[r].commit = c
          /\ rat'[r].target = rat[r].target /\ rat'[r].base = rat[r].base
          /\ \A s \in Ratifiers \ {r} : rat'[s] = rat[s]
      BY <1>3, <3>1
    <3>4. QED
      BY <1>2, <3>1, <3>2, <3>3 DEF RatifierOk
  <2>4. CASE Gate(r) \/ ReadNames(r)
    <3>1. /\ rat' = [rat EXCEPT ![r].pc = IF Gate(r) THEN "names" ELSE "ref"]
          /\ rat[r].pc \in {"gate", "names"}
          /\ rat[r].pc = "gate" =>
               check_real_diff(real_diff(rat[r].base, rat[r].commit), rat[r].target)
      BY <2>4 DEF Gate, ReadNames, Goto, At
    <3> DEFINE next == IF Gate(r) THEN "names" ELSE "ref"
    <3>2. next \in {"names", "ref"}
      OBVIOUS
    <3> HIDE DEF next
    <3>3. /\ rat'[r].pc = next /\ rat'[r].prop = rat[r].prop /\ rat'[r].commit = rat[r].commit
          /\ rat'[r].target = rat[r].target /\ rat'[r].base = rat[r].base
          /\ \A s \in Ratifiers \ {r} : rat'[s] = rat[s]
      BY <1>3, <3>1 DEF next
    <3>4. QED
      BY <1>2, <3>1, <3>2, <3>3 DEF RatifierOk
  <2>5. CASE create_review_branch(r) \/ OpenPatch(r) \/ WritePatch(r)
    <3>1. PICK next \in {"patch", "write", "lesson"} :
            rat' = [rat EXCEPT ![r].pc = next] /\ rat[r].pc \in {"ref", "patch", "write"}
      BY <2>5 DEF create_review_branch, PutReview, OpenPatch, WritePatch, Goto, At
    <3>2. /\ rat'[r].pc = next /\ rat'[r].prop = rat[r].prop
          /\ rat'[r].target = rat[r].target
          /\ \A s \in Ratifiers \ {r} : rat'[s] = rat[s]
      BY <1>3, <3>1
    <3>3. QED
      BY <1>2, <3>1, <3>2 DEF RatifierOk
  <2>6. CASE Reject(r) \/ Report(r) \/ Abandon(r)
    <3>1. rat' = [rat EXCEPT ![r] = Idle]
      BY <2>6 DEF Reject, Report, Abandon
    <3>2. QED
      BY <1>3, <1>4, <3>1
  <2>7. QED
    BY <2>1, <2>2, <2>3, <2>4, <2>5, <2>6 DEF RatifierStep
<1>6. \A v \in reviews' : OneFile(v) /\ InRoots(v)
  <2>1. CASE create_review_branch(r)
    <3>1. /\ rat[r].pc = "ref"
          /\ reviews' = reviews \cup {[prop |-> rat[r].prop, commit |-> rat[r].commit]}
      BY <2>1 DEF create_review_branch, PutReview, At
    <3>2. QED
      BY <1>2, <3>1, GatedCommit DEF GateInv
  <2>2. CASE ~create_review_branch(r)
    <3>1. reviews' = reviews
      BY <2>2 DEF RatifierStep, Start, ResolveBase, stage_candidate_commit, Gate, ReadNames,
        Reject, OpenPatch, WritePatch, Report, Abandon, HistoryUnchanged
    <3>2. QED
      BY <3>1 DEF GateInv
  <2>3. QED
    BY <2>1, <2>2
<1>7. QED
  BY <1>1, <1>5, <1>6 DEF GateInv

\* The strengthening holds in every reachable state.
LEMMA GateInvariant == ReviewSpec => []GateInv
<1>1. ReviewInit => GateInv
  <2>1. RatifierOk(Idle)
    BY DEF RatifierOk, Idle
  <2>2. QED
    BY <2>1 DEF ReviewInit, GateInv, RatifierShape, Idle
<1>2. GateInv /\ [ReviewNext]_reviewVars => GateInv'
  <2> SUFFICES ASSUME GateInv, [ReviewNext]_reviewVars
               PROVE  GateInv'
    OBVIOUS
  <2>1. CASE \E r \in Ratifiers : RatifierStep(r)
    BY <2>1, GateStep
  <2>2. CASE Owner
    <3>1. UNCHANGED <<rat, patches, reviews>>
      BY <2>2 DEF Owner, Commit, Checkout, Merge, CreateBranch, DeleteBranch, OwnerActs,
        HistoryUnchanged
    <3>2. QED
      BY <3>1 DEF GateInv, RatifierShape
  <2>3. CASE UNCHANGED reviewVars
    BY <2>3 DEF reviewVars, GateInv, RatifierShape
  <2>4. QED
    BY <2>1, <2>2, <2>3 DEF ReviewNext
<1>3. QED
  BY <1>1, <1>2, PTL DEF ReviewSpec

\* Every review branch changes the declared file and nothing else against its own parent and
\* gives it the proposed content, for every number of ratifiers, every spelling of every
\* target and whatever the owner commits meanwhile.
THEOREM ReviewsAreOneFile == ReviewSpec => []ReviewIsOneFile
<1>1. GateInv => ReviewIsOneFile
  BY DEF GateInv, ReviewIsOneFile, OneFile
<1>2. QED
  BY <1>1, GateInvariant, PTL

\* What a review branch changes is a regular file in a declared root, in no protected
\* directory and behind no link, however long the path and however it was spelled.
THEOREM ReviewsStayInRoots == ReviewSpec => []ReviewStaysInRoots
<1>1. GateInv => ReviewStaysInRoots
  BY DEF GateInv, ReviewStaysInRoots, InRoots
<1>2. QED
  BY <1>1, GateInvariant, PTL
=============================================================================
