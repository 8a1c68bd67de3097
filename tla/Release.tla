-------------------------------- MODULE Release --------------------------------
(***************************************************************************)
(* Publication of releases: a tag that is pushed starts a run of           *)
(* .github/workflows/release.yml, which checks the tag out, verifies it    *)
(* with scripts/verify_release.py, builds, and creates the release.  Runs  *)
(* of all release lines share one lock; branches move and tags are pushed  *)
(* while a run is under way, and the run works on what it has fetched.     *)
(*                                                                         *)
(* A tag is a record [line, patch, pre] (major and minor are one number,   *)
(* pre is "" for a stable tag).  git, GitHub's queue and `gh release       *)
(* create' are external.  Protected branches only move forward, and tags   *)
(* are not moved (the repository's rulesets).                              *)
(***************************************************************************)
EXTENDS Naturals, FiniteSets, Sequences

CONSTANTS
    Commits,
    Ancestors,     \* Ancestors[c]: the commits contained in c, c among them
    Tree,          \* Tree[c]: [tag, notes, lines], what the commit's files say
    MainHistory,   \* the heads of main, in order
    BranchHistory, \* BranchHistory[line]: the heads of release/<line>.x
    Pushable,      \* pairs of a tag and a commit that may be pushed
    NoTag,         \* nobody holds the lock
    MaxReruns      \* bound: runs started again by hand

VARIABLES
    main,          \* how far main has moved
    branch,        \* how far each maintenance branch has moved
    tags,          \* the commit of each tag pushed
    run,           \* the run of each tag pushed
    lock,          \* the tag whose run holds release-publication
    releases,      \* the releases, in the order they were created
    latest,        \* the release GitHub labels Latest
    reruns

vars == <<main, branch, tags, run, lock, releases, latest, reruns>>

ASSUME HistoriesMoveForward ==
    /\ \A i, j \in DOMAIN MainHistory : i <= j => MainHistory[i] \in Ancestors[MainHistory[j]]
    /\ \A l \in DOMAIN BranchHistory : \A i, j \in DOMAIN BranchHistory[l] :
          i <= j => BranchHistory[l][i] \in Ancestors[BranchHistory[l][j]]

ASSUME AncestryIsTransitive ==
    \A c \in Commits : \A d \in Ancestors[c] : Ancestors[d] \subseteq Ancestors[c]

Tags == {p[1] : p \in Pushable}

ASSUME NoTagIsNoTag == NoTag \notin Tags

ASSUME TagsAreVersions ==
    \A t \in Tags : t.line \in Nat /\ t.patch \in Nat

ASSUME HistoriesAreCommits ==
    /\ MainHistory \in Seq(Commits) /\ MainHistory # << >>
    /\ \A l \in DOMAIN BranchHistory :
          BranchHistory[l] \in Seq(Commits) /\ BranchHistory[l] # << >>
    /\ \A p \in Pushable : p[2] \in Commits

Stable(t) == t.pre = ""
SameVersion(t, u) == t.line = u.line /\ t.patch = u.patch
Newer(t, u) == t.line > u.line \/ (t.line = u.line /\ t.patch > u.patch)

MainHead == MainHistory[main]
BranchHead(line) == BranchHistory[line][branch[line]]

NewRun == [stage |-> "pending", seen |-> << >>, main |-> 0, latest |-> FALSE]

(* The stages in which a run holds the lock, in their order. *)
Working == {"checkout", "fetch", "verify", "build", "publish"}

IsRun(r) ==
    /\ r = [stage |-> r.stage, seen |-> r.seen, main |-> r.main, latest |-> r.latest]
    /\ r.stage \in {"pending", "cancelled", "failed", "published"} \cup Working
    /\ r.main \in 0..main
    /\ r.latest \in BOOLEAN

(* Every variable keeps its type. *)
TypeOK ==
    /\ main \in DOMAIN MainHistory
    /\ DOMAIN branch = DOMAIN BranchHistory
    /\ \A l \in DOMAIN branch : branch[l] \in DOMAIN BranchHistory[l]
    /\ DOMAIN tags \subseteq Tags
    /\ \A t \in DOMAIN tags : tags[t] \in Commits
    /\ DOMAIN run = DOMAIN tags
    /\ \A t \in DOMAIN run : IsRun(run[t])
    /\ lock \in DOMAIN tags \cup {NoTag}
    /\ releases \in Seq([tag : Tags, commit : Commits, list : Nat])
    /\ latest \in Tags \cup {NoTag}
    /\ reruns \in Nat

Init ==
    /\ main = 1
    /\ branch = [l \in DOMAIN BranchHistory |-> 1]
    /\ tags = << >> /\ run = << >>
    /\ lock = NoTag
    /\ releases = << >> /\ latest = NoTag
    /\ reruns = 0

-----------------------------------------------------------------------------
(* parse_release_lines: an allow-list is [main, entries], an entry [line,   *)
(* branch, base], where branch is the line it is named for.                 *)

LinesValid(lines) ==
    /\ \A e \in lines.entries : e.branch = e.line /\ e.line # lines.main
    /\ \A e, f \in lines.entries : e.line = f.line => e = f

EntryFor(lines, line) == {e \in lines.entries : e.line = line}

(* select_release_route: by the tag's own line; main's list is the         *)
(* authority and the tagged tree has to agree with it.                     *)
Routed(t, mainLines, treeLines) ==
    /\ LinesValid(mainLines) /\ LinesValid(treeLines)
    /\ mainLines.main = treeLines.main
    /\ t.line # mainLines.main =>
          /\ EntryFor(mainLines, t.line) # {}
          /\ EntryFor(treeLines, t.line) = EntryFor(mainLines, t.line)

(* The branch that has to contain the commit, as fetched now; the mutant is *)
(* content with the base commit.                                           *)
DescendsFromBase(t, c, seenMain) ==
    LET lines == Tree[MainHistory[seenMain]].lines
    IN  IF t.line = lines.main
        THEN c \in Ancestors[MainHistory[seenMain]]
        ELSE \A e \in EntryFor(lines, t.line) : e.base \in Ancestors[c]

Contained(t, c, seenMain) ==
    LET lines == Tree[MainHistory[seenMain]].lines
    IN  IF t.line = lines.main
        THEN c \in Ancestors[MainHistory[seenMain]]
        ELSE \A e \in EntryFor(lines, t.line) :
                /\ e.base \in Ancestors[c]
                /\ e.branch \in DOMAIN BranchHistory
                /\ c \in Ancestors[BranchHead(e.branch)]

(* classify_release, over the tags of the checkout. *)
OtherStable(t, seen) == {u \in DOMAIN seen \ {t} : Stable(u)}

(* A stable patch is greater than the others of its line, and a prerelease *)
(* comes before its version; the mutant lets every prerelease through.     *)
PrereleasesExempt(t, seen) ==
    Stable(t) => \A u \in OtherStable(t, seen) : u.line = t.line => t.patch > u.patch

PatchAllowed(t, seen) ==
    IF Stable(t)
    THEN \A u \in OtherStable(t, seen) : u.line = t.line => t.patch > u.patch
    ELSE ~\E u \in OtherStable(t, seen) : SameVersion(t, u)

IsLatest(t, seen) == Stable(t) /\ \A u \in OtherStable(t, seen) : Newer(t, u)

(* verify_release, on the checkout of run r. *)
Verified(t, c, r) ==
    /\ Tree[c].tag = t /\ Tree[c].notes
    /\ t \in DOMAIN r.seen /\ r.seen[t] = c
    /\ Routed(t, Tree[MainHistory[r.main]].lines, Tree[c].lines)
    /\ Contained(t, c, r.main)
    /\ PatchAllowed(t, r.seen)

-----------------------------------------------------------------------------
(* Around the runs: branches move, tags are pushed.                         *)

AdvanceMain ==
    /\ main < Len(MainHistory)
    /\ main' = main + 1
    /\ UNCHANGED <<branch, tags, run, lock, releases, latest, reruns>>

AdvanceBranch(line) ==
    /\ branch[line] < Len(BranchHistory[line])
    /\ branch' = [branch EXCEPT ![line] = @ + 1]
    /\ UNCHANGED <<main, tags, run, lock, releases, latest, reruns>>

(* A queue holds one pending run: an earlier pending one is cancelled. *)
Enqueue(t, runs) ==
    [u \in DOMAIN runs \cup {t} |->
        IF u = t THEN NewRun
        ELSE IF runs[u].stage = "pending" THEN [runs[u] EXCEPT !.stage = "cancelled"]
        ELSE runs[u]]

PushTag(t, c) ==
    /\ t \notin DOMAIN tags
    /\ tags' = [u \in DOMAIN tags \cup {t} |-> IF u = t THEN c ELSE tags[u]]
    /\ run' = Enqueue(t, run)
    /\ UNCHANGED <<main, branch, lock, releases, latest, reruns>>

Rerun(t) ==
    /\ reruns < MaxReruns
    /\ run[t].stage \in {"published", "failed", "cancelled"}
    /\ run' = Enqueue(t, run)
    /\ reruns' = reruns + 1
    /\ UNCHANGED <<main, branch, tags, lock, releases, latest>>

-----------------------------------------------------------------------------
(* One run, step by step.                                                   *)

(* concurrency: release-publication; the mutant has no shared group. *)
Unlocked == TRUE
LockFree == lock = NoTag

Start(t) ==
    /\ run[t].stage = "pending" /\ LockFree
    /\ lock' = t
    /\ run' = [run EXCEPT ![t].stage = "checkout"]
    /\ UNCHANGED <<main, branch, tags, releases, latest, reruns>>

(* fetch-depth: 0 brings every tag there is now. *)
Checkout(t) ==
    /\ run[t].stage = "checkout"
    /\ run' = [run EXCEPT ![t].stage = "fetch", ![t].seen = tags]
    /\ UNCHANGED <<main, branch, tags, lock, releases, latest, reruns>>

FetchMain(t) ==
    /\ run[t].stage = "fetch"
    /\ run' = [run EXCEPT ![t].stage = "verify", ![t].main = main]
    /\ UNCHANGED <<main, branch, tags, lock, releases, latest, reruns>>

(* A run that ends gives the lock back and forgets its checkout. *)
EndRun(t, stage) ==
    /\ run' = [run EXCEPT ![t] = [NewRun EXCEPT !.stage = stage]]
    /\ lock' = NoTag

Verify(t) ==
    /\ run[t].stage = "verify"
    /\ \/ /\ Verified(t, tags[t], run[t])
          /\ run' = [run EXCEPT ![t].stage = "build",
                                ![t].latest = IsLatest(t, run[t].seen)]
          /\ UNCHANGED lock
       \/ /\ ~Verified(t, tags[t], run[t])
          /\ EndRun(t, "failed")
    /\ UNCHANGED <<main, branch, tags, releases, latest, reruns>>

(* Tests, build, validate_dist.py, check_built_distributions.py, attest. *)
Build(t) ==
    /\ run[t].stage = "build"
    /\ \/ run' = [run EXCEPT ![t].stage = "publish"] /\ UNCHANGED lock
       \/ EndRun(t, "failed")
    /\ UNCHANGED <<main, branch, tags, releases, latest, reruns>>

Released == {releases[i].tag : i \in DOMAIN releases}

(* gh release create: fails where a release of that tag exists. *)
Publish(t) ==
    /\ run[t].stage = "publish" /\ t \notin Released
    /\ releases' = Append(releases, [tag |-> t, commit |-> tags[t], list |-> run[t].main])
    /\ latest' = IF run[t].latest THEN t ELSE latest
    /\ EndRun(t, "published")
    /\ UNCHANGED <<main, branch, tags, reruns>>

PublishFails(t) ==
    /\ run[t].stage = "publish"
    /\ EndRun(t, "failed")
    /\ UNCHANGED <<main, branch, tags, releases, latest, reruns>>

RunStep(t) ==
    \/ Start(t) \/ Checkout(t) \/ FetchMain(t) \/ Verify(t)
    \/ Build(t) \/ Publish(t) \/ PublishFails(t)

ReleaseNext ==
    \/ AdvanceMain
    \/ \E l \in DOMAIN BranchHistory : AdvanceBranch(l)
    \/ \E p \in Pushable : PushTag(p[1], p[2])
    \/ \E t \in DOMAIN tags : Rerun(t) \/ RunStep(t)

-----------------------------------------------------------------------------
(* The Latest label only moves to a newer version: an older release that   *)
(* is published late does not take it back (release.yml, the comment on    *)
(* the shared lock).                                                       *)
LatestNeverGoesBack ==
    [][latest' # latest => latest = NoTag \/ Newer(latest', latest)]_vars

(* Within a line, stable releases come out in the order of their patches,  *)
(* and no prerelease of a version comes out after the version, whatever    *)
(* the order in which tags were pushed and runs repeated                   *)
(* (classify_release).                                                     *)
LinesComeOutInOrder ==
    \A i, j \in DOMAIN releases :
        LET earlier == releases[i].tag
            later == releases[j].tag
        IN  (i < j /\ earlier.line = later.line) =>
                /\ Stable(earlier) /\ Stable(later) => later.patch > earlier.patch
                /\ Stable(earlier) => ~SameVersion(earlier, later)

(* Every release was built from a commit of the branch that main's own     *)
(* allow-list names for its line, and on a maintenance line descends from  *)
(* the approved base commit: a commit of main, of another maintenance      *)
(* branch or of an unprotected one does not do (select_release_route,      *)
(* validate_release_ancestry, validate_base_commit).                       *)
ReleasedFromProtected ==
    \A i \in DOMAIN releases :
        LET t == releases[i].tag
            c == releases[i].commit
            lines == Tree[MainHistory[releases[i].list]].lines
        IN  /\ t = Tree[c].tag
            /\ \/ t.line = lines.main /\ c \in Ancestors[MainHead]
               \/ \E e \in lines.entries :
                     /\ e.line = t.line /\ e.base \in Ancestors[c]
                     /\ t.line \in DOMAIN BranchHistory
                     /\ c \in Ancestors[BranchHead(t.line)]
=============================================================================
