---------------------------- MODULE ReviewBranch ----------------------------
(***************************************************************************)
(* Ratification: Ratifier::ratify_proposal of src/src/ratify.rs with the   *)
(* diff gate of src/src/diff_gate.rs and the protected paths of            *)
(* src/src/isolation/root_of_trust.rs.                                     *)
(*                                                                         *)
(* Ratifiers work on one git repository and one directory of patches while *)
(* its owner commits, switches, merges, creates and deletes branches. A    *)
(* ratifier builds its commit off to the side, checks the real difference, *)
(* creates the review branch and writes the patch, and may be killed       *)
(* between any two of these steps.                                         *)
(*                                                                         *)
(* A path is the sequence of its components as split('/') gives them: the  *)
(* path "/a" is <<"", "a">>, and "" is <<"">>. A file is its mode and the  *)
(* set of its lines; a tree maps paths to files; a commit is its tree, its *)
(* parent and the proposal in its message.                                 *)
(***************************************************************************)
EXTENDS Integers, Sequences, FiniteSets

CONSTANTS
  Ratifiers,
  Proposals,       \* records [id, target_file, lines]
  UsableIds,       \* the ids that may be part of a branch name
  Trees,           \* the trees the owner commits
  FirstTree,
  ratify_roots,
  PROTECTED_PATHS,
  MaxAttempts,     \* bound: ratifications that are started
  MaxOwner         \* bound: what the owner does

Names == Seq(STRING)

\* Names are what split('/') gives: at least one component.
ASSUME ReviewAssumption ==
  /\ \A p \in Proposals : p.target_file \in Names /\ p.target_file # <<>>
  /\ ratify_roots \subseteq Names /\ <<>> \notin ratify_roots
  /\ PROTECTED_PATHS \subseteq Names

VARIABLES
  heads,     \* refs/heads
  head,      \* the branch HEAD names
  rat,       \* the ratifiers
  patches,   \* <patch_dir>/<proposal id>.patch
  reports,   \* history: what was reported as ProposedForReview
  reviews,   \* history: the commits that were put on review branches
  touched,   \* history: review branches that the owner moved or deleted
  attempts,
  owner

reviewVars == <<heads, head, rat, patches, reports, reviews, touched, attempts, owner>>

Prefix(p, q) == Len(p) <= Len(q) /\ SubSeq(q, 1, Len(p)) = p
Elements(p) == {p[i] : i \in DOMAIN p}

-----------------------------------------------------------------------------
(* Names of files. *)

Unusable == "\\"              \* a component with a backslash or a NUL
GitMetadata == {".git", ".GIT"}

RefusedPath == <<>>

\* The components that name something, among the first i.
Kept(raw) ==
  LET kept[i \in 0..Len(raw)] ==
        IF i = 0 THEN <<>>
        ELSE IF raw[i] \in {"", "."} THEN kept[i - 1] ELSE Append(kept[i - 1], raw[i])
  IN  kept

\* Absolute and empty names both start with an empty component.
normalize_repo_path(raw) ==
  IF \/ raw[1] = ""
     \/ Unusable \in Elements(raw)
     \/ ".." \in Elements(raw)
     \/ Elements(raw) \cap GitMetadata # {}
  THEN RefusedPath
  ELSE Kept(raw)[Len(raw)]

within_roots(path) ==
  \E root \in ratify_roots :
    LET r == normalize_repo_path(root) IN r # RefusedPath /\ Prefix(r, path)

Climbs == <<"..">>

\* The components that are left after the first i are resolved.
Stack(raw) ==
  LET stack[i \in 0..Len(raw)] ==
        IF i = 0 THEN <<>>
        ELSE CASE stack[i - 1] = Climbs -> Climbs
               [] raw[i] \in {"", "."} -> stack[i - 1]
               [] raw[i] = ".." /\ stack[i - 1] = <<>> -> Climbs
               [] raw[i] = ".." -> SubSeq(stack[i - 1], 1, Len(stack[i - 1]) - 1)
               [] OTHER -> Append(stack[i - 1], raw[i])
  IN  stack

\* Resolves `..`; a name that climbs above the root, or cannot be read, becomes `..`.
normalize_strict(raw) ==
  IF Unusable \in Elements(raw) THEN Climbs ELSE Stack(raw)[Len(raw)]

\* Fault: only the listed names are protected, not what is below them.
is_protected_path_Exact(path) ==
  LET normalized == normalize_strict(path)
  IN  normalized \in {Climbs, <<>>} \/ normalized \in PROTECTED_PATHS

is_protected_path(path) ==
  LET normalized == normalize_strict(path)
  IN  normalized \in {Climbs, <<>>} \/ \E p \in PROTECTED_PATHS : Prefix(p, normalized)

\* The ratifier's tier is 1: it may never change a protected path.
assert_patch_permitted(path) ==
  normalize_strict(path) # Climbs /\ ~is_protected_path(normalize_strict(path))

check_declared_target(raw) ==
  LET normalized == normalize_repo_path(raw)
  IN  IF normalized # RefusedPath /\ within_roots(normalized) /\ assert_patch_permitted(normalized)
      THEN normalized ELSE RefusedPath

-----------------------------------------------------------------------------
(* Trees, commits and the difference of two commits. *)

Regular == {"100644", "100755"}
NoFile == [mode |-> "000000", lines |-> {}]
FileIn(tree, path) == IF path \in DOMAIN tree THEN tree[path] ELSE NoFile

NoCommit == [tree |-> <<>>, parents |-> <<>>, by |-> "none"]

\* The parents are a sequence with at most one element.
OwnerCommit(tree, parents) == [tree |-> tree, parents |-> parents, by |-> "owner"]
Parent(commit) == commit.parents[1]

\* A component of the target is a symbolic link or a submodule in the base.
SymlinkOnTheWay(tree, path) ==
  \E i \in 1..Len(path) :
    SubSeq(path, 1, i) \in DOMAIN tree /\ tree[SubSeq(path, 1, i)].mode \in {"120000", "160000"}

\* update-index refuses a name that is a file and a directory at once.
Conflict(tree, path) ==
  \E q \in DOMAIN tree : q # path /\ (Prefix(q, path) \/ Prefix(path, q))

Mode(tree, path) ==
  IF FileIn(tree, path).mode \in Regular THEN FileIn(tree, path).mode ELSE "100644"

With(tree, path, lines) ==
  [q \in DOMAIN tree \cup {path} |->
     IF q = path THEN [mode |-> Mode(tree, path), lines |-> lines] ELSE tree[q]]

real_diff(base, commit) ==
  {[path |-> q, old |-> FileIn(base.tree, q), new |-> FileIn(commit.tree, q)] :
     q \in {p \in DOMAIN base.tree \cup DOMAIN commit.tree :
              FileIn(base.tree, p) # FileIn(commit.tree, p)}}

\* Secret signatures and network primitives, in the lines the change adds. Lines are a set:
\* a line that is there already and is added once more does not count.
Clean(entry) == "secret" \notin (entry.new.lines \ entry.old.lines)

EntryOk(entry) ==
  /\ normalize_repo_path(entry.path) = entry.path
  /\ within_roots(entry.path)
  /\ entry.old.mode \in Regular \cup {"000000"}
  /\ entry.new.mode \in Regular
  /\ assert_patch_permitted(entry.path)
  /\ Clean(entry)

check_real_diff(entries, target) ==
  /\ {entry.path : entry \in entries} = {target}
  /\ \A entry \in entries : EntryOk(entry)

-----------------------------------------------------------------------------
(* The ratifiers. *)

Idle == [pc |-> "idle", prop |-> <<>>, target |-> RefusedPath, base |-> NoCommit,
         commit |-> NoCommit]

review_branch_name(id) == <<"rsi", id>>
Main == <<"main">>

\* The names that are taken as defaults: main, master and the branch HEAD names at this
\* moment. The defaults of the remote and of the configuration are main here.
default_branch_names == {Main, <<"master">>, head}

NoPatch == [whole |-> FALSE, of |-> NoCommit]

ReviewInit ==
  /\ heads = [b \in {Main} |-> OwnerCommit(FirstTree, <<>>)]
  /\ head = Main
  /\ rat = [r \in Ratifiers |-> Idle]
  /\ patches = [id \in {p.id : p \in Proposals} |-> NoPatch]
  /\ reports = {} /\ reviews = {} /\ touched = {}
  /\ attempts = 0 /\ owner = 0

At(r, place) == rat[r].pc = place
Goto(r, place) == rat' = [rat EXCEPT ![r].pc = place]
Branch(r) == review_branch_name(rat[r].prop.id)

RepoUnchanged == UNCHANGED <<heads, head, touched, owner>>
HistoryUnchanged == UNCHANGED <<reports, reviews>>

\* The invariants passed, and the declared target and the id are accepted. Otherwise the
\* proposal is rejected here and nothing at all has changed.
Start(r) ==
  /\ At(r, "idle") /\ attempts < MaxAttempts
  /\ attempts' = attempts + 1
  /\ \E p \in Proposals :
       LET target == check_declared_target(p.target_file)
       IN  /\ target # RefusedPath /\ p.id \in UsableIds
           /\ rat' = [rat EXCEPT ![r] = [Idle EXCEPT
                        !.pc = "resolve", !.prop = p, !.target = target]]
  /\ RepoUnchanged /\ HistoryUnchanged /\ UNCHANGED patches

\* The base is the commit of HEAD at this moment, whatever HEAD is later.
ResolveBase(r) ==
  /\ At(r, "resolve")
  /\ rat' = [rat EXCEPT ![r].pc = "stage", ![r].base = heads[head]]
  /\ RepoUnchanged /\ HistoryUnchanged /\ UNCHANGED <<patches, attempts>>

Staged(r, parent) ==
  [tree |-> With(rat[r].base.tree, rat[r].target, rat[r].prop.lines), parents |-> <<parent>>,
   by |-> rat[r].prop.id]

\* Fault: the parent is the commit of HEAD when the commit is made.
stage_candidate_commit_OnHead(r) ==
  /\ At(r, "stage")
  /\ ~SymlinkOnTheWay(rat[r].base.tree, rat[r].target)
  /\ ~Conflict(rat[r].base.tree, rat[r].target)
  /\ rat' = [rat EXCEPT ![r].pc = "gate", ![r].commit = Staged(r, heads[head])]
  /\ RepoUnchanged /\ HistoryUnchanged /\ UNCHANGED <<patches, attempts>>

stage_candidate_commit(r) ==
  /\ At(r, "stage")
  /\ ~SymlinkOnTheWay(rat[r].base.tree, rat[r].target)
  /\ ~Conflict(rat[r].base.tree, rat[r].target)
  /\ rat' = [rat EXCEPT ![r].pc = "gate", ![r].commit = Staged(r, rat[r].base)]
  /\ RepoUnchanged /\ HistoryUnchanged /\ UNCHANGED <<patches, attempts>>

Gate(r) ==
  /\ At(r, "gate")
  /\ check_real_diff(real_diff(rat[r].base, rat[r].commit), rat[r].target)
  /\ Goto(r, "names")
  /\ RepoUnchanged /\ HistoryUnchanged /\ UNCHANGED <<patches, attempts>>

ReadNames(r) ==
  /\ At(r, "names")
  /\ Branch(r) \notin default_branch_names
  /\ Goto(r, "ref")
  /\ RepoUnchanged /\ HistoryUnchanged /\ UNCHANGED <<patches, attempts>>

PutReview(r) ==
  /\ At(r, "ref")
  /\ heads' = [b \in DOMAIN heads \cup {Branch(r)} |->
                 IF b = Branch(r) THEN rat[r].commit ELSE heads[b]]
  /\ reviews' = reviews \cup {[prop |-> rat[r].prop, commit |-> rat[r].commit]}
  /\ Goto(r, "patch")
  /\ UNCHANGED <<head, patches, reports, touched, attempts, owner>>

\* Fault: update-ref without the empty old value.
create_review_branch_Force(r) == PutReview(r)

\* The empty old value: the branch must not exist at the moment it is written.
create_review_branch(r) == PutReview(r) /\ Branch(r) \notin DOMAIN heads

\* One of the checks says no, a git command fails before the branch exists, or the process
\* is killed.
Reject(r) ==
  /\ rat[r].pc \in {"resolve", "stage", "gate", "names", "ref"}
  /\ rat' = [rat EXCEPT ![r] = Idle]
  /\ RepoUnchanged /\ HistoryUnchanged /\ UNCHANGED <<patches, attempts>>

\* fs::write truncates the file and then fills it.
OpenPatch(r) ==
  /\ At(r, "patch")
  /\ patches' = [patches EXCEPT ![rat[r].prop.id] = [whole |-> FALSE, of |-> rat[r].commit]]
  /\ Goto(r, "write")
  /\ RepoUnchanged /\ HistoryUnchanged /\ UNCHANGED attempts

WritePatch(r) ==
  /\ At(r, "write")
  /\ patches' = [patches EXCEPT ![rat[r].prop.id] = [whole |-> TRUE, of |-> rat[r].commit]]
  /\ Goto(r, "lesson")
  /\ RepoUnchanged /\ HistoryUnchanged /\ UNCHANGED attempts

\* The lesson may or may not reach Cortex; the record says which and is returned either way.
Report(r) ==
  /\ At(r, "lesson")
  /\ reports' = reports \cup {[id |-> rat[r].prop.id, commit |-> rat[r].commit]}
  /\ rat' = [rat EXCEPT ![r] = Idle]
  /\ RepoUnchanged /\ UNCHANGED <<patches, reviews, attempts>>

\* The patch cannot be formatted or written, or the process is killed: the branch stays.
Abandon(r) ==
  /\ rat[r].pc \in {"patch", "write", "lesson"}
  /\ rat' = [rat EXCEPT ![r] = Idle]
  /\ RepoUnchanged /\ HistoryUnchanged /\ UNCHANGED <<patches, attempts>>

RatifierStep(r) ==
  \/ Start(r) \/ ResolveBase(r) \/ stage_candidate_commit(r) \/ Gate(r) \/ ReadNames(r)
  \/ create_review_branch(r) \/ Reject(r) \/ OpenPatch(r) \/ WritePatch(r) \/ Report(r)
  \/ Abandon(r)

-----------------------------------------------------------------------------
(* The owner of the repository. *)

OwnerActs ==
  /\ owner < MaxOwner /\ owner' = owner + 1
  /\ HistoryUnchanged /\ UNCHANGED <<rat, patches, attempts>>

Commit ==
  /\ OwnerActs
  /\ \E t \in Trees : heads' = [heads EXCEPT ![head] = OwnerCommit(t, <<heads[head]>>)]
  /\ touched' = touched \cup {head}
  /\ UNCHANGED head

Checkout ==
  /\ OwnerActs
  /\ \E b \in DOMAIN heads \ {head} : head' = b
  /\ UNCHANGED <<heads, touched>>

\* A review branch is merged by a fast-forward.
Merge ==
  /\ OwnerActs
  /\ \E b \in DOMAIN heads : /\ heads[b].parents = <<heads[head]>>
                             /\ heads' = [heads EXCEPT ![head] = heads[b]]
  /\ touched' = touched \cup {head}
  /\ UNCHANGED head

CreateBranch ==
  /\ OwnerActs
  /\ \E id \in UsableIds :
       LET b == review_branch_name(id)
       IN  /\ b \notin DOMAIN heads
           /\ heads' = [c \in DOMAIN heads \cup {b} |-> IF c = b THEN heads[head] ELSE heads[c]]
           /\ touched' = touched \cup {b}
  /\ UNCHANGED head

DeleteBranch ==
  /\ OwnerActs
  /\ \E b \in DOMAIN heads \ {head} :
       /\ heads' = [c \in DOMAIN heads \ {b} |-> heads[c]]
       /\ touched' = touched \cup {b}
  /\ UNCHANGED head

Owner == Commit \/ Checkout \/ Merge \/ CreateBranch \/ DeleteBranch

ReviewNext == (\E r \in Ratifiers : RatifierStep(r)) \/ Owner

ReviewSpec == ReviewInit /\ [][ReviewNext]_reviewVars

-----------------------------------------------------------------------------
(* Properties. *)

\* A commit that was put on a review branch changes, against its own parent, the declared
\* file and nothing else, and gives it the proposed content, although the owner commits and
\* switches branches while the commit is built and checked.
ReviewIsOneFile ==
  \A v \in reviews :
    \E path \in DOMAIN v.commit.tree :
      /\ real_diff(Parent(v.commit), v.commit) =
           {[path |-> path, old |-> FileIn(Parent(v.commit).tree, path),
             new |-> v.commit.tree[path]]}
      /\ v.commit.tree[path].lines = v.prop.lines
      /\ path = normalize_strict(v.prop.target_file)

\* However a proposal spells its target, what it changes is a regular file in a declared
\* root, not protected and in no protected directory, with no link on the way to it.
ReviewStaysInRoots ==
  \A v \in reviews : \A entry \in real_diff(Parent(v.commit), v.commit) :
    /\ ~ \E p \in PROTECTED_PATHS : Prefix(p, entry.path)
    /\ \E root \in ratify_roots : Prefix(normalize_strict(root), entry.path)
    /\ entry.new.mode \in Regular
    /\ ~SymlinkOnTheWay(Parent(v.commit).tree, entry.path)

\* A proposal that was reported as offered for review has its branch at the reported commit
\* and a whole patch of that commit, until the owner touches the branch: neither another
\* ratification under the same id nor a kill takes them away.
ReportStands ==
  \A p \in reports :
    LET b == review_branch_name(p.id)
    IN  b \notin touched =>
          /\ b \in DOMAIN heads /\ heads[b] = p.commit
          /\ patches[p.id] = [whole |-> TRUE, of |-> p.commit]

=============================================================================
