------------------------------ MODULE ReleaseProofs ------------------------------
(***************************************************************************)
(* Proofs about the release workflow and the validation runner for any     *)
(* commits, histories, tags, number of runs, downloads and validations.    *)
(* The invariant says what the shared lock buys: from its checkout to its  *)
(* end a run sees every tag that has been released, so that what the       *)
(* verifier decided still holds when the release is created.               *)
(***************************************************************************)
EXTENDS ValidationRunner, SequenceTheorems, TLAPS

\* A run past its start holds the lock: there is at most one.
LockIsHeld == \A t \in DOMAIN run : run[t].stage \in Working => lock = t

\* What has been released was tagged, and is among the tags of the checkout.
ReleasedIsTagged == Released \subseteq DOMAIN tags

CheckoutIsCurrent ==
    \A t \in DOMAIN run : run[t].stage \in Working \ {"checkout"} =>
        /\ Released \subseteq DOMAIN run[t].seen
        /\ DOMAIN run[t].seen \subseteq Tags

\* The verdict of the verifier stands while the run builds and publishes.
VerdictStands ==
    \A t \in DOMAIN run : run[t].stage \in {"build", "publish"} =>
        /\ PatchAllowed(t, run[t].seen)
        /\ run[t].latest => IsLatest(t, run[t].seen)

\* The Latest label is on a stable release.
LatestIsReleased == latest # NoTag => latest \in Released /\ Stable(latest)

WorkflowInv ==
    /\ TypeOK
    /\ LockIsHeld
    /\ ReleasedIsTagged
    /\ CheckoutIsCurrent
    /\ VerdictStands
    /\ LatestIsReleased
    /\ LinesComeOutInOrder

-----------------------------------------------------------------------------
\* The runs that a new or repeated run finds are only ever taken from the queue.
LEMMA Enqueued ==
    ASSUME NEW t, run' = Enqueue(t, run),
           \A u \in DOMAIN run : IsRun(run[u]), main \in Nat
    PROVE  /\ DOMAIN run' = DOMAIN run \cup {t}
           /\ \A u \in DOMAIN run' : IsRun(run'[u])
           /\ \A u \in DOMAIN run' : run'[u].stage \in Working =>
                 u \in DOMAIN run /\ run'[u] = run[u]
<1>1. DOMAIN run' = DOMAIN run \cup {t} /\ run'[t] = NewRun
  BY DEF Enqueue
<1>2. IsRun(NewRun) /\ NewRun.stage \notin Working
  BY DEF NewRun, IsRun, Working
<1>3. ASSUME NEW u \in DOMAIN run, u # t
      PROVE  /\ IsRun(run'[u])
             /\ run'[u].stage \in Working => run'[u] = run[u]
  <2>1. CASE run[u].stage = "pending"
    <3>1. run'[u] = [run[u] EXCEPT !.stage = "cancelled"]
      BY <1>3, <2>1 DEF Enqueue
    <3>2. IsRun(run[u])
      BY <1>3
    <3>3. IsRun(run'[u]) /\ run'[u].stage = "cancelled"
      BY <3>1, <3>2 DEF IsRun
    <3> QED BY <3>3 DEF Working
  <2>2. CASE run[u].stage # "pending"
    <3>1. run'[u] = run[u]
      BY <1>3, <2>2 DEF Enqueue
    <3> QED BY <1>3, <3>1
  <2> QED BY <2>1, <2>2
<1>4. ASSUME NEW u \in DOMAIN run'
      PROVE  /\ IsRun(run'[u])
             /\ run'[u].stage \in Working => u \in DOMAIN run /\ run'[u] = run[u]
  <2>1. CASE u = t
    BY <1>1, <1>2, <2>1
  <2>2. CASE u # t
    BY <1>1, <1>3, <1>4, <2>2
  <2> QED BY <2>1, <2>2
<1> QED BY <1>1, <1>4

\* Released after a release was appended.
LEMMA OneMoreReleased ==
    ASSUME NEW r, TypeOK, releases' = Append(releases, r), r \in [tag : Tags, commit : Commits, list : Nat]
    PROVE  /\ Released' = Released \cup {r.tag}
           /\ releases' \in Seq([tag : Tags, commit : Commits, list : Nat])
           /\ DOMAIN releases = 1..Len(releases) /\ Len(releases) \in Nat
           /\ DOMAIN releases' = 1..(Len(releases) + 1)
           /\ \A i \in 1..Len(releases) : releases'[i] = releases[i]
           /\ releases'[Len(releases) + 1] = r
<1> DEFINE R == [tag : Tags, commit : Commits, list : Nat]
<1>1. releases \in Seq(R)
  BY DEF TypeOK
<1> HIDE DEF R
<1>2. /\ releases' \in Seq(R)
      /\ DOMAIN releases = 1..Len(releases) /\ Len(releases) \in Nat
      /\ DOMAIN releases' = 1..(Len(releases) + 1)
      /\ \A i \in 1..Len(releases) : releases'[i] = releases[i]
      /\ releases'[Len(releases) + 1] = r
  BY <1>1 DEF R
<1>3. Released' = Released \cup {r.tag}
  BY <1>2 DEF Released
<1> QED BY <1>2, <1>3 DEF R
-----------------------------------------------------------------------------
\* Branches move, tags are pushed and runs are repeated: a run under way is left
\* as it is, and what it saw was released before.
LEMMA EnvironmentStep ==
    ASSUME WorkflowInv,
           \/ AdvanceMain
           \/ \E l \in DOMAIN BranchHistory : AdvanceBranch(l)
           \/ \E p \in Pushable : PushTag(p[1], p[2])
           \/ \E t \in DOMAIN tags : Rerun(t)
    PROVE  WorkflowInv'
<1> USE DEF WorkflowInv
<1>1. CASE AdvanceMain \/ \E l \in DOMAIN BranchHistory : AdvanceBranch(l)
  <2>1. UNCHANGED <<tags, run, lock, releases, latest, reruns>> /\ Released' = Released
    BY <1>1 DEF AdvanceMain, AdvanceBranch, Released
  <2>2. TypeOK'
    <3>1. main \in Nat /\ main' \in DOMAIN MainHistory /\ main' >= main /\ main' \in Nat
      BY <1>1, HistoriesAreCommits DEF AdvanceMain, AdvanceBranch, TypeOK
    <3>2. /\ DOMAIN branch' = DOMAIN BranchHistory
          /\ \A l \in DOMAIN branch' : branch'[l] \in DOMAIN BranchHistory[l]
      BY <1>1, HistoriesAreCommits DEF AdvanceMain, AdvanceBranch, TypeOK
    <3>3. \A t \in DOMAIN run : IsRun(run[t])'
      BY <2>1, <3>1 DEF IsRun, TypeOK
    <3> QED BY <2>1, <3>1, <3>2, <3>3 DEF TypeOK
  <2>3. LockIsHeld' /\ ReleasedIsTagged' /\ CheckoutIsCurrent' /\ LatestIsReleased'
    BY <2>1 DEF LockIsHeld, ReleasedIsTagged, CheckoutIsCurrent, LatestIsReleased
  <2>4. VerdictStands' /\ LinesComeOutInOrder'
    BY <2>1 DEF VerdictStands, LinesComeOutInOrder
  <2> QED BY <2>2, <2>3, <2>4
<1>2. ASSUME NEW t \in Tags, run' = Enqueue(t, run), DOMAIN tags' = DOMAIN tags \cup {t},
             \A u \in DOMAIN tags' : tags'[u] \in Commits, reruns' \in Nat,
             t \in DOMAIN tags => run[t].stage \notin Working,
             UNCHANGED <<main, branch, lock, releases, latest>>
      PROVE  WorkflowInv'
  <2>1. main \in Nat /\ Released' = Released
    BY <1>2, HistoriesAreCommits DEF TypeOK, Released
  <2>2. /\ DOMAIN run' = DOMAIN run \cup {t}
        /\ \A u \in DOMAIN run' : IsRun(run'[u])
        /\ \A u \in DOMAIN run' : run'[u].stage \in Working =>
              u \in DOMAIN run /\ run'[u] = run[u]
    <3>1. \A u \in DOMAIN run : IsRun(run[u])
      BY DEF TypeOK
    <3> QED BY <1>2, <2>1, <3>1, Enqueued
  <2>3. \A r : IsRun(r)' <=> IsRun(r)
    BY <1>2 DEF IsRun
  <2>4. TypeOK'
    BY <1>2, <2>2, <2>3 DEF TypeOK
  <2>5. LockIsHeld' /\ ReleasedIsTagged' /\ CheckoutIsCurrent' /\ LatestIsReleased'
    BY <1>2, <2>1, <2>2
    DEF LockIsHeld, ReleasedIsTagged, CheckoutIsCurrent, LatestIsReleased, Working
  <2>6. VerdictStands' /\ LinesComeOutInOrder'
    BY <1>2, <2>1, <2>2 DEF VerdictStands, LinesComeOutInOrder, Working
  <2> QED BY <2>4, <2>5, <2>6
<1>3. ASSUME NEW p \in Pushable, PushTag(p[1], p[2]) PROVE WorkflowInv'
  <2>1. p[1] \in Tags /\ p[2] \in Commits
    BY HistoriesAreCommits DEF Tags
  <2> QED BY <1>2, <1>3, <2>1 DEF PushTag, TypeOK
<1>4. ASSUME NEW t \in DOMAIN tags, Rerun(t) PROVE WorkflowInv'
  BY <1>2, <1>4 DEF Rerun, TypeOK, Working
<1> QED BY <1>1, <1>3, <1>4

\* A run gets on without releasing anything: the tags it sees and the verdict
\* are those of its own checkout.
LEMMA ProgressStep ==
    ASSUME WorkflowInv, NEW t \in DOMAIN tags,
           Start(t) \/ Checkout(t) \/ FetchMain(t) \/ Verify(t) \/ Build(t) \/ PublishFails(t)
    PROVE  WorkflowInv'
<1> USE DEF WorkflowInv
<1>1. UNCHANGED <<main, branch, tags, releases, latest, reruns>> /\ Released' = Released
  BY DEF Start, Checkout, FetchMain, Verify, Build, PublishFails, Released
<1>2. t \in DOMAIN run /\ IsRun(run[t]) /\ t \in Tags /\ main \in Nat
  BY HistoriesAreCommits DEF TypeOK
<1>3. DOMAIN run' = DOMAIN run /\ \A u \in DOMAIN run \ {t} : run'[u] = run[u]
  BY DEF Start, Checkout, FetchMain, Verify, Build, PublishFails, EndRun
<1>4. IsRun(run'[t]) /\ lock' \in {NoTag, t, lock}
  <2> DEFINE r == run[t]
             n == run'[t]
  <2>1. /\ r = [stage |-> r.stage, seen |-> r.seen, main |-> r.main, latest |-> r.latest]
        /\ r.main \in 0..main /\ r.latest \in BOOLEAN
    BY <1>2 DEF IsRun
  <2>2. ASSUME NEW st \in {"failed", "pending"} \cup Working, NEW se,
               NEW ma \in 0..main, NEW la \in BOOLEAN,
               n = [stage |-> st, seen |-> se, main |-> ma, latest |-> la]
        PROVE  IsRun(n)
    BY <2>2 DEF IsRun
  <2>3. CASE Start(t)
    <3>1. n = [stage |-> "checkout", seen |-> r.seen, main |-> r.main, latest |-> r.latest]
      BY <1>2, <2>1, <2>3 DEF Start
    <3>2. IsRun(n)
      BY <2>1, <2>2, <3>1 DEF Working
    <3> QED BY <2>3, <3>2 DEF Start
  <2>4. CASE Checkout(t)
    <3>1. n = [stage |-> "fetch", seen |-> tags, main |-> r.main, latest |-> r.latest]
      BY <1>2, <2>1, <2>4 DEF Checkout
    <3>2. IsRun(n)
      BY <2>1, <2>2, <3>1 DEF Working
    <3> QED BY <2>4, <3>2 DEF Checkout
  <2>5. CASE FetchMain(t)
    <3>1. n = [stage |-> "verify", seen |-> r.seen, main |-> main, latest |-> r.latest]
      BY <1>2, <2>1, <2>5 DEF FetchMain
    <3>2. IsRun(n)
      BY <1>2, <2>1, <2>2, <3>1 DEF Working
    <3> QED BY <2>5, <3>2 DEF FetchMain
  <2>6. ASSUME EndRun(t, "failed")
        PROVE  IsRun(n) /\ lock' = NoTag
    <3>1. n = [stage |-> "failed", seen |-> << >>, main |-> 0, latest |-> FALSE]
      BY <1>2, <2>6 DEF EndRun, NewRun
    <3>2. 0 \in 0..main
      BY <1>2
    <3>3. IsRun(n)
      BY <2>2, <3>1, <3>2
    <3> QED BY <2>6, <3>3 DEF EndRun
  <2>7. CASE Verify(t)
    <3>1. CASE /\ run' = [run EXCEPT ![t].stage = "build",
                                     ![t].latest = IsLatest(t, run[t].seen)]
               /\ UNCHANGED lock
      <4>1. IsLatest(t, r.seen) \in BOOLEAN
        BY DEF IsLatest
      <4> DEFINE la == IsLatest(t, r.seen)
      <4> HIDE DEF la
      <4>2. run' = [run EXCEPT ![t].stage = "build", ![t].latest = la]
        BY <3>1 DEF la
      <4>3. n = [stage |-> "build", seen |-> r.seen, main |-> r.main, latest |-> la]
        BY <1>2, <2>1, <4>2
      <4>4. IsRun(n)
        BY <2>1, <2>2, <4>1, <4>3 DEF Working, la
      <4> QED BY <3>1, <4>4
    <3> QED BY <2>6, <2>7, <3>1 DEF Verify
  <2>8. CASE Build(t) \/ PublishFails(t)
    <3>1. CASE run' = [run EXCEPT ![t].stage = "publish"] /\ UNCHANGED lock
      <4>1. n = [stage |-> "publish", seen |-> r.seen, main |-> r.main, latest |-> r.latest]
        BY <1>2, <2>1, <3>1
      <4>2. IsRun(n)
        BY <2>1, <2>2, <4>1 DEF Working
      <4> QED BY <3>1, <4>2
    <3> QED BY <2>6, <2>8, <3>1 DEF Build, PublishFails
  <2> QED BY <2>3, <2>4, <2>5, <2>7, <2>8
<1>5. \A r : IsRun(r)' <=> IsRun(r)
  BY <1>1 DEF IsRun
<1>6. TypeOK'
  BY <1>1, <1>2, <1>3, <1>4, <1>5 DEF TypeOK
<1>7. LockIsHeld'
  BY <1>2, <1>3, NoTagIsNoTag
  DEF Start, Checkout, FetchMain, Verify, Build, PublishFails, EndRun, LockFree, IsRun,
      Working, NewRun, LockIsHeld, TypeOK
<1>8. ReleasedIsTagged' /\ LatestIsReleased' /\ LinesComeOutInOrder'
  BY <1>1 DEF ReleasedIsTagged, LatestIsReleased, LinesComeOutInOrder
<1>9. CheckoutIsCurrent'
  <2>1. run'[t].stage \in Working \ {"checkout"} =>
           Released \subseteq DOMAIN run'[t].seen /\ DOMAIN run'[t].seen \subseteq Tags
    <3>1. CASE Checkout(t)
      BY <3>1, <1>2 DEF Checkout, IsRun, ReleasedIsTagged, TypeOK
    <3>2. CASE FetchMain(t) \/ Verify(t) \/ Build(t)
      <4>1. Released \subseteq DOMAIN run[t].seen /\ DOMAIN run[t].seen \subseteq Tags
        BY <3>2, <1>2 DEF FetchMain, Verify, Build, CheckoutIsCurrent, Working
      <4> QED BY <3>2, <4>1, <1>2 DEF FetchMain, Verify, Build, EndRun, NewRun, IsRun, Working
    <3>3. CASE Start(t) \/ PublishFails(t)
      BY <3>3, <1>2 DEF Start, PublishFails, EndRun, NewRun, IsRun, Working
    <3> QED BY <3>1, <3>2, <3>3
  <2> QED BY <1>1, <1>3, <2>1 DEF CheckoutIsCurrent
<1>10. VerdictStands'
  <2>1. run'[t].stage \in {"build", "publish"} =>
           PatchAllowed(t, run'[t].seen) /\ (run'[t].latest => IsLatest(t, run'[t].seen))
    <3>1. CASE Verify(t)
      BY <3>1, <1>2 DEF Verify, Verified, EndRun, NewRun, IsRun
    <3>2. CASE Build(t)
      BY <3>2, <1>2 DEF Build, EndRun, NewRun, IsRun, VerdictStands
    <3>3. CASE Start(t) \/ Checkout(t) \/ FetchMain(t) \/ PublishFails(t)
      BY <3>3, <1>2 DEF Start, Checkout, FetchMain, PublishFails, EndRun, NewRun, IsRun
    <3> QED BY <3>1, <3>2, <3>3
  <2> QED BY <1>3, <2>1 DEF VerdictStands
<1> QED BY <1>6, <1>7, <1>8, <1>9, <1>10

\* What is released is greater than all that its checkout saw of its line, and
\* it saw all that had been released.
LEMMA PublishStep ==
    ASSUME WorkflowInv, NEW t \in DOMAIN tags, Publish(t)
    PROVE  WorkflowInv' /\ (latest' # latest => latest = NoTag \/ Newer(latest', latest))
<1> USE DEF WorkflowInv
<1> DEFINE r == [tag |-> t, commit |-> tags[t], list |-> run[t].main]
           n == Len(releases)
<1>1. t \in DOMAIN run /\ IsRun(run[t]) /\ t \in Tags /\ main \in Nat /\ run[t].stage = "publish"
  BY HistoriesAreCommits DEF TypeOK, Publish
<1>2. r \in [tag : Tags, commit : Commits, list : Nat]
  BY <1>1 DEF IsRun, TypeOK
<1>3. releases' = Append(releases, r) /\ t \notin Released
  BY DEF Publish
<1>4. /\ Released' = Released \cup {t}
      /\ releases' \in Seq([tag : Tags, commit : Commits, list : Nat])
      /\ DOMAIN releases = 1..n /\ n \in Nat /\ DOMAIN releases' = 1..(n + 1)
      /\ \A i \in 1..n : releases'[i] = releases[i]
      /\ releases'[n + 1] = r
  <2>1. TypeOK
    OBVIOUS
  <2>2. r.tag = t
    OBVIOUS
  <2> HIDE DEF WorkflowInv, r
  <2> QED BY <1>2, <1>3, <2>1, <2>2, OneMoreReleased
<1>5. /\ DOMAIN run' = DOMAIN run
      /\ \A u \in DOMAIN run \ {t} : run'[u] = run[u]
      /\ run'[t] = [stage |-> "published", seen |-> << >>, main |-> 0, latest |-> FALSE]
      /\ lock' = NoTag
      /\ UNCHANGED <<main, branch, tags, reruns>>
  BY <1>1 DEF Publish, EndRun, NewRun
<1>6. /\ Released \subseteq DOMAIN run[t].seen
      /\ PatchAllowed(t, run[t].seen)
      /\ run[t].latest => IsLatest(t, run[t].seen)
      /\ lock = t
  BY <1>1 DEF CheckoutIsCurrent, VerdictStands, LockIsHeld, Working
<1>7. \A u \in DOMAIN run : run'[u].stage \notin Working
  BY <1>1, <1>5, <1>6 DEF LockIsHeld, Working
<1>8. TypeOK'
  <2>1. \A q : IsRun(q)' <=> IsRun(q)
    BY <1>5 DEF IsRun
  <2>2. IsRun(run'[t])
    BY <1>1, <1>5 DEF IsRun
  <2>3. latest' \in Tags \cup {NoTag}
    BY <1>1 DEF Publish, TypeOK
  <2> QED BY <1>4, <1>5, <2>1, <2>2, <2>3 DEF TypeOK
<1>9. LockIsHeld' /\ ReleasedIsTagged' /\ CheckoutIsCurrent' /\ VerdictStands'
  BY <1>4, <1>5, <1>7
  DEF LockIsHeld, ReleasedIsTagged, CheckoutIsCurrent, VerdictStands, Working
<1>10. /\ LatestIsReleased'
       /\ latest' # latest => latest = NoTag \/ Newer(latest', latest)
  <2>1. CASE run[t].latest
    <3>1. latest' = t /\ Stable(t) /\ \A u \in OtherStable(t, run[t].seen) : Newer(t, u)
      BY <1>6, <2>1 DEF Publish, IsLatest
    <3>2. latest # NoTag => latest \in OtherStable(t, run[t].seen)
      BY <1>3, <1>6 DEF LatestIsReleased, OtherStable
    <3> QED BY <1>4, <3>1, <3>2 DEF LatestIsReleased
  <2>2. CASE ~run[t].latest
    BY <1>4, <2>2 DEF Publish, LatestIsReleased
  <2> QED BY <2>1, <2>2
<1>11. LinesComeOutInOrder'
  <2>1. SUFFICES ASSUME NEW i \in 1..(n + 1), NEW j \in 1..(n + 1), i < j,
                        releases'[i].tag.line = releases'[j].tag.line,
                        Stable(releases'[i].tag)
                 PROVE  /\ Stable(releases'[j].tag) =>
                              releases'[j].tag.patch > releases'[i].tag.patch
                        /\ ~SameVersion(releases'[i].tag, releases'[j].tag)
    BY <1>4 DEF LinesComeOutInOrder
  <2>2. CASE j \in 1..n
    <3>1. i \in 1..n /\ releases'[i] = releases[i] /\ releases'[j] = releases[j]
      BY <1>4, <2>1, <2>2
    <3>2. i \in DOMAIN releases /\ j \in DOMAIN releases
      BY <1>4, <2>2, <3>1
    <3> QED BY <2>1, <3>1, <3>2 DEF LinesComeOutInOrder
  <2>3. CASE j = n + 1
    <3>1. i \in 1..n /\ releases'[i] = releases[i] /\ releases'[j].tag = t
      BY <1>4, <2>1, <2>3
    <3>2. releases[i].tag \in OtherStable(t, run[t].seen)
      BY <1>3, <1>4, <1>6, <2>1, <3>1 DEF Released, OtherStable
    <3>3. t.patch \in Nat /\ releases[i].tag.patch \in Nat
      <4>1. releases[i].tag \in Tags
        <5>1. releases \in Seq([tag : Tags, commit : Commits, list : Nat])
          BY DEF TypeOK
        <5>2. releases[i] \in [tag : Tags, commit : Commits, list : Nat]
          BY <3>1, <5>1, ElementOfSeq
        <5> QED BY <5>2
      <4> QED BY <1>1, <4>1, TagsAreVersions
    <3> QED BY <1>6, <2>1, <3>1, <3>2, <3>3 DEF PatchAllowed, SameVersion
  <2> QED BY <1>4, <2>2, <2>3
<1> QED BY <1>8, <1>9, <1>10, <1>11

-----------------------------------------------------------------------------
\* The validation runner changes nothing of the releases.
LEMMA ValidateChangesNoRelease == Validate => UNCHANGED vars
  BY DEF Validate, Download, StartValidation, CollectProvenance, RunCheck, VerifyArtifacts,
         OpenTemporary, FillTemporary, ReplaceReport, RunnerCrash

LEMMA WorkflowInit == AllInit => WorkflowInv
<1> SUFFICES ASSUME AllInit PROVE WorkflowInv
  OBVIOUS
<1>1. main \in DOMAIN MainHistory /\ main \in Nat
  BY HistoriesAreCommits DEF AllInit, Init
<1>2. \A l \in DOMAIN branch : branch[l] \in DOMAIN BranchHistory[l]
  BY HistoriesAreCommits DEF AllInit, Init
<1>3. Released = {}
  BY DEF AllInit, Init, Released
<1>4. TypeOK
  BY <1>1, <1>2 DEF AllInit, Init, TypeOK
<1> QED BY <1>3, <1>4
    DEF AllInit, Init, WorkflowInv, LockIsHeld, ReleasedIsTagged, CheckoutIsCurrent,
        VerdictStands, LatestIsReleased, LinesComeOutInOrder

LEMMA WorkflowStep ==
    ASSUME WorkflowInv, [Next]_allVars
    PROVE  WorkflowInv' /\ (latest' # latest => latest = NoTag \/ Newer(latest', latest))
<1>1. CASE UNCHANGED vars
  <2>1. Released' = Released
    BY <1>1 DEF Released, vars
  <2> QED BY <1>1, <2>1
      DEF vars, WorkflowInv, TypeOK, IsRun, LockIsHeld, ReleasedIsTagged, CheckoutIsCurrent,
          VerdictStands, LatestIsReleased, LinesComeOutInOrder
<1>2. CASE \/ AdvanceMain
           \/ \E l \in DOMAIN BranchHistory : AdvanceBranch(l)
           \/ \E p \in Pushable : PushTag(p[1], p[2])
           \/ \E t \in DOMAIN tags : Rerun(t)
  <2>1. WorkflowInv'
    BY <1>2, EnvironmentStep
  <2>2. UNCHANGED latest
    BY <1>2 DEF AdvanceMain, AdvanceBranch, PushTag, Rerun
  <2> QED BY <2>1, <2>2
<1>3. ASSUME NEW t \in DOMAIN tags,
             Start(t) \/ Checkout(t) \/ FetchMain(t) \/ Verify(t) \/ Build(t) \/ PublishFails(t)
      PROVE  WorkflowInv' /\ UNCHANGED latest
  <2>1. WorkflowInv'
    BY <1>3, ProgressStep
  <2>2. UNCHANGED latest
    BY <1>3 DEF Start, Checkout, FetchMain, Verify, Build, PublishFails
  <2> QED BY <2>1, <2>2
<1>4. CASE \E t \in DOMAIN tags : Publish(t)
  BY <1>4, PublishStep
<1>5. ReleaseNext \/ UNCHANGED vars
  BY ValidateChangesNoRelease DEF Next, allVars
<1> QED BY <1>1, <1>2, <1>3, <1>4, <1>5 DEF ReleaseNext, RunStep

(* What a run decided on its checkout still holds when it publishes, for   *)
(* any histories of the branches and any order of pushes and repeated runs *)
(* (release.yml, the shared concurrency group).                            *)
THEOREM WorkflowInvariance == Spec => []WorkflowInv
<1>1. WorkflowInv /\ [Next]_allVars => WorkflowInv'
  BY WorkflowStep
<1> QED BY WorkflowInit, <1>1, PTL DEF Spec

(* Every variable of the workflow keeps its type. *)
THEOREM TypeCorrect == Spec => []TypeOK
<1>1. WorkflowInv => TypeOK
  BY DEF WorkflowInv
<1> QED BY <1>1, WorkflowInvariance, PTL

(* Stable releases of a line come out in the order of their patches, and   *)
(* no prerelease after its version (classify_release).                     *)
THEOREM InOrder == Spec => []LinesComeOutInOrder
<1>1. WorkflowInv => LinesComeOutInOrder
  BY DEF WorkflowInv
<1> QED BY <1>1, WorkflowInvariance, PTL

(* The Latest label only moves to a newer version (release.yml, the        *)
(* comment on the shared lock).                                            *)
THEOREM LatestStays == Spec => LatestNeverGoesBack
<1>1. WorkflowInv /\ [Next]_allVars =>
        [latest' # latest => latest = NoTag \/ Newer(latest', latest)]_vars
  BY WorkflowStep
<1> QED BY <1>1, WorkflowInvariance, PTL DEF Spec, LatestNeverGoesBack

-----------------------------------------------------------------------------
(* Where releases come from.                                                *)

\* Commit c of tag t is one that the list of main's head m approves of.
FromProtected(t, c, m) ==
    LET lines == Tree[MainHistory[m]].lines
    IN  /\ t = Tree[c].tag
        /\ \/ t.line = lines.main /\ c \in Ancestors[MainHead]
           \/ \E e \in lines.entries :
                 /\ e.line = t.line /\ e.base \in Ancestors[c]
                 /\ t.line \in DOMAIN BranchHistory
                 /\ c \in Ancestors[BranchHead(t.line)]

\* A run that fetched main has one of its heads, and one that was verified
\* builds an approved commit.
RunFromProtected(t) ==
    /\ run[t].stage = "verify" => run[t].main \in DOMAIN MainHistory
    /\ run[t].stage \in {"build", "publish"} => FromProtected(t, tags[t], run[t].main)

RunsFromProtected == \A t \in DOMAIN run : RunFromProtected(t)

ProtectedInv == RunsFromProtected /\ ReleasedFromProtected

\* Branches move forward and keep what they contain.
LEMMA ProtectionStays ==
    ASSUME TypeOK, NEW t, NEW c, NEW m, FromProtected(t, c, m),
           main' \in DOMAIN MainHistory, main' >= main,
           \A l \in DOMAIN BranchHistory :
              branch'[l] \in DOMAIN BranchHistory[l] /\ branch'[l] >= branch[l]
    PROVE  FromProtected(t, c, m)'
<1> DEFINE lines == Tree[MainHistory[m]].lines
<1>1. ASSUME c \in Ancestors[MainHead]
      PROVE  c \in Ancestors[MainHead']
  <2>1. MainHistory[main] \in Ancestors[MainHistory[main']]
    BY HistoriesMoveForward DEF TypeOK
  <2>2. MainHistory[main'] \in Commits
    BY HistoriesAreCommits, ElementOfSeq
  <2>3. Ancestors[MainHistory[main]] \subseteq Ancestors[MainHistory[main']]
    BY <2>1, <2>2, AncestryIsTransitive
  <2> QED BY <1>1, <2>3 DEF MainHead
<1>2. ASSUME NEW l \in DOMAIN BranchHistory, c \in Ancestors[BranchHead(l)]
      PROVE  c \in Ancestors[BranchHead(l)']
  <2> DEFINE h == BranchHistory[l]
  <2>1. branch[l] \in DOMAIN h /\ branch'[l] \in DOMAIN h /\ branch[l] <= branch'[l]
    <3>1. h \in Seq(Commits)
      BY HistoriesAreCommits
    <3>2. branch[l] \in DOMAIN h /\ branch'[l] \in DOMAIN h /\ branch'[l] >= branch[l]
      BY DEF TypeOK
    <3> HIDE DEF h
    <3> QED BY <3>1, <3>2
  <2>2. h[branch[l]] \in Ancestors[h[branch'[l]]]
    BY <2>1, HistoriesMoveForward
  <2>3. h[branch'[l]] \in Commits
    <3>1. h \in Seq(Commits)
      BY HistoriesAreCommits
    <3> HIDE DEF h
    <3> QED BY <2>1, <3>1, ElementOfSeq
  <2>4. Ancestors[h[branch[l]]] \subseteq Ancestors[h[branch'[l]]]
    BY <2>2, <2>3, AncestryIsTransitive
  <2> QED BY <1>2, <2>4 DEF BranchHead
<1>3. CASE t.line = lines.main /\ c \in Ancestors[MainHead]
  BY <1>1, <1>3 DEF FromProtected
<1>4. CASE \E e \in lines.entries :
             /\ e.line = t.line /\ e.base \in Ancestors[c]
             /\ t.line \in DOMAIN BranchHistory
             /\ c \in Ancestors[BranchHead(t.line)]
  <2>1. c \in Ancestors[BranchHead(t.line)']
    BY <1>2, <1>4
  <2>2. BranchHead(t.line)' = BranchHistory[t.line][branch'[t.line]]
    BY DEF BranchHead
  <2> QED BY <1>4, <2>1, <2>2 DEF FromProtected, BranchHead
<1> QED BY <1>3, <1>4 DEF FromProtected

\* The verifier lets through what is approved now.
LEMMA VerifiedIsProtected ==
    ASSUME TypeOK, NEW t \in DOMAIN run, run[t].main \in DOMAIN MainHistory,
           Verified(t, tags[t], run[t])
    PROVE  FromProtected(t, tags[t], run[t].main)
<1> DEFINE c == tags[t]
           m == run[t].main
           lines == Tree[MainHistory[m]].lines
<1>1. t = Tree[c].tag
  BY DEF Verified
<1>2. CASE t.line = lines.main
  <2>1. c \in Ancestors[MainHistory[m]]
    BY <1>2 DEF Verified, Contained
  <2>2. m <= main
    BY HistoriesAreCommits DEF TypeOK, IsRun
  <2>3. MainHistory[m] \in Ancestors[MainHistory[main]] /\ MainHistory[main] \in Commits
    BY <2>2, HistoriesMoveForward, HistoriesAreCommits, ElementOfSeq DEF TypeOK
  <2>4. c \in Ancestors[MainHead]
    BY <2>1, <2>3, AncestryIsTransitive DEF MainHead
  <2> QED BY <1>1, <1>2, <2>4 DEF FromProtected
<1>3. CASE t.line # lines.main
  <2>1. /\ LinesValid(lines) /\ EntryFor(lines, t.line) # {}
        /\ \A e \in EntryFor(lines, t.line) :
              e.base \in Ancestors[c] /\ e.branch \in DOMAIN BranchHistory
              /\ c \in Ancestors[BranchHead(e.branch)]
    BY <1>3 DEF Verified, Contained, Routed
  <2>2. PICK e \in EntryFor(lines, t.line) : TRUE
    BY <2>1
  <2>3. e \in lines.entries /\ e.line = t.line /\ e.branch = t.line
    BY <2>1, <2>2 DEF LinesValid, EntryFor
  <2>4. /\ e.base \in Ancestors[c] /\ t.line \in DOMAIN BranchHistory
        /\ c \in Ancestors[BranchHead(t.line)]
    BY <2>1, <2>2, <2>3
  <2> QED BY <1>1, <2>3, <2>4 DEF FromProtected
<1> QED BY <1>2, <1>3

LEMMA ProtectedStep ==
    ASSUME WorkflowInv, ProtectedInv, [Next]_allVars
    PROVE  ProtectedInv'
<1>0. TypeOK
  BY DEF WorkflowInv
<1>1. /\ main' \in DOMAIN MainHistory /\ main' >= main
      /\ \A l \in DOMAIN BranchHistory :
            branch'[l] \in DOMAIN BranchHistory[l] /\ branch'[l] >= branch[l]
  <2>1. TypeOK'
    BY WorkflowStep DEF WorkflowInv
  <2>2. main \in Nat /\ \A l \in DOMAIN BranchHistory : branch[l] \in Nat
    BY <1>0, HistoriesAreCommits DEF TypeOK
  <2>3. ReleaseNext \/ UNCHANGED <<main, branch>>
    BY ValidateChangesNoRelease DEF Next, allVars, vars
  <2>4. main' >= main /\ \A l \in DOMAIN BranchHistory : branch'[l] >= branch[l]
    <3>1. CASE AdvanceMain
      BY <3>1, <2>2 DEF AdvanceMain
    <3>2. CASE \E k \in DOMAIN BranchHistory : AdvanceBranch(k)
      BY <3>2, <2>2, <1>0 DEF AdvanceBranch, TypeOK
    <3>3. CASE UNCHANGED <<main, branch>>
      BY <3>3, <2>2
    <3>4. CASE \E p \in Pushable : PushTag(p[1], p[2])
      BY <3>3, <3>4 DEF PushTag
    <3>5. CASE \E t \in DOMAIN tags : Rerun(t) \/ RunStep(t)
      BY <3>3, <3>5
      DEF Rerun, RunStep, Start, Checkout, FetchMain, Verify, Build, Publish, PublishFails
    <3> QED BY <2>3, <3>1, <3>2, <3>3, <3>4, <3>5 DEF ReleaseNext
  <2> QED BY <2>1, <2>4 DEF TypeOK
<1>2. \A t, c, m : FromProtected(t, c, m) => FromProtected(t, c, m)'
  BY <1>0, <1>1, ProtectionStays
<1>3. ASSUME NEW t, NEW c, NEW m, FromProtected(t, c, m),
             tags'[t] = c, run'[t].main = m, run'[t].stage # "verify"
      PROVE  RunFromProtected(t)'
  <2>1. FromProtected(t, c, m)'
    BY <1>2, <1>3
  <2>2. FromProtected(t, c, m)' => FromProtected(t, tags[t], run[t].main)'
    BY <1>3 DEF FromProtected
  <2> QED BY <1>3, <2>1, <2>2 DEF RunFromProtected
<1>10. ASSUME NEW t, tags'[t] = tags[t], run'[t] = run[t], RunFromProtected(t)
       PROVE  RunFromProtected(t)'
  <2>1. CASE run[t].stage \in {"build", "publish"}
    BY <1>3, <1>10, <2>1 DEF RunFromProtected
  <2>2. CASE run[t].stage \notin {"build", "publish"}
    BY <1>10, <2>2 DEF RunFromProtected
  <2> QED BY <2>1, <2>2
<1>4. ASSUME UNCHANGED releases PROVE ReleasedFromProtected'
  <2> SUFFICES ASSUME NEW i \in DOMAIN releases
               PROVE  FromProtected(releases[i].tag, releases[i].commit, releases[i].list)'
    BY <1>4 DEF ReleasedFromProtected, FromProtected
  <2>1. FromProtected(releases[i].tag, releases[i].commit, releases[i].list)
    BY DEF ProtectedInv, ReleasedFromProtected, FromProtected
  <2> QED BY <2>1, <1>2, <1>4 DEF FromProtected
<1>5. ASSUME UNCHANGED <<run, tags, releases>> PROVE ProtectedInv'
  BY <1>10, <1>4, <1>5 DEF ProtectedInv, RunsFromProtected
<1>6. ASSUME NEW t, run' = Enqueue(t, run), UNCHANGED releases,
             \A u \in DOMAIN tags : u \in DOMAIN tags' /\ tags'[u] = tags[u]
      PROVE  ProtectedInv'
  <2>1. \A u \in DOMAIN run : IsRun(run[u])
    BY <1>0 DEF TypeOK
  <2>2. main \in Nat
    BY <1>0, HistoriesAreCommits DEF TypeOK
  <2>3. \A u \in DOMAIN run' : run'[u].stage \in Working =>
           u \in DOMAIN run /\ run'[u] = run[u]
    BY <1>6, <2>1, <2>2, Enqueued
  <2>4. ASSUME NEW u \in DOMAIN run'
        PROVE  RunFromProtected(u)'
    <3>1. CASE run'[u].stage \in Working
      <4>1. u \in DOMAIN run /\ run'[u] = run[u] /\ tags'[u] = tags[u]
        BY <1>0, <1>6, <2>3, <2>4, <3>1 DEF TypeOK
      <4> QED BY <1>10, <4>1 DEF ProtectedInv, RunsFromProtected
    <3>2. CASE run'[u].stage \notin Working
      BY <3>2 DEF Working, RunFromProtected
    <3> QED BY <3>1, <3>2
  <2> QED BY <1>4, <1>6, <2>4 DEF ProtectedInv, RunsFromProtected
<1>7. ASSUME NEW t \in DOMAIN tags, RunStep(t)
      PROVE  ProtectedInv'
  <2>1. t \in DOMAIN run /\ IsRun(run[t])
    BY <1>0 DEF TypeOK
  <2>2. /\ UNCHANGED tags /\ DOMAIN run' = DOMAIN run
        /\ \A u \in DOMAIN run \ {t} : run'[u] = run[u]
    BY <1>7 DEF RunStep, Start, Checkout, FetchMain, Verify, Build, Publish, PublishFails, EndRun
  <2>3. run'[t].stage = "verify" => run'[t].main \in DOMAIN MainHistory
    <3>1. CASE FetchMain(t)
      BY <1>0, <2>1, <3>1 DEF FetchMain, TypeOK, IsRun
    <3>2. CASE Start(t) \/ Checkout(t) \/ Verify(t)
      BY <2>1, <3>2 DEF Start, Checkout, Verify, EndRun, NewRun, IsRun
    <3>3. CASE Build(t) \/ Publish(t) \/ PublishFails(t)
      BY <2>1, <3>3 DEF Build, Publish, PublishFails, EndRun, NewRun, IsRun
    <3> QED BY <1>7, <3>1, <3>2, <3>3 DEF RunStep
  <2>4. run'[t].stage \in {"build", "publish"} => FromProtected(t, tags[t], run'[t].main)
    <3>1. CASE Verify(t)
      <4>1. CASE Verified(t, tags[t], run[t])
        <5>1. FromProtected(t, tags[t], run[t].main)
          BY <1>0, <2>1, <3>1, <4>1, VerifiedIsProtected
          DEF Verify, ProtectedInv, RunsFromProtected, RunFromProtected
        <5>2. run'[t].main = run[t].main
          BY <2>1, <3>1, <4>1 DEF Verify, IsRun
        <5> QED BY <5>1, <5>2
      <4>2. CASE ~Verified(t, tags[t], run[t])
        BY <2>1, <3>1, <4>2 DEF Verify, EndRun, NewRun
      <4> QED BY <4>1, <4>2
    <3>2. CASE Build(t)
      <4>1. FromProtected(t, tags[t], run[t].main)
        BY <2>1, <3>2 DEF Build, ProtectedInv, RunsFromProtected, RunFromProtected
      <4>2. run'[t].stage \in {"build", "publish"} => run'[t].main = run[t].main
        BY <2>1, <3>2 DEF Build, EndRun, NewRun, IsRun
      <4> QED BY <4>1, <4>2
    <3>3. CASE Start(t) \/ Checkout(t) \/ FetchMain(t)
      BY <2>1, <3>3 DEF Start, Checkout, FetchMain, IsRun
    <3>4. CASE Publish(t) \/ PublishFails(t)
      BY <2>1, <3>4 DEF Publish, PublishFails, EndRun, NewRun, IsRun
    <3> QED BY <1>7, <3>1, <3>2, <3>3, <3>4 DEF RunStep
  <2>5. RunsFromProtected'
    <3>1. RunFromProtected(t)'
      <4>1. CASE run'[t].stage \in {"build", "publish"}
        BY <1>3, <2>2, <2>4, <4>1
      <4>2. CASE run'[t].stage \notin {"build", "publish"}
        BY <2>3, <4>2 DEF RunFromProtected
      <4> QED BY <4>1, <4>2
    <3>2. ASSUME NEW u \in DOMAIN run, u # t PROVE RunFromProtected(u)'
      BY <1>10, <2>2, <3>2 DEF ProtectedInv, RunsFromProtected
    <3> QED BY <2>2, <3>1, <3>2 DEF RunsFromProtected
  <2>6. ReleasedFromProtected'
    <3>1. CASE Publish(t)
      <4> DEFINE k == Len(releases)
      <4>0. PICK r : r = [tag |-> t, commit |-> tags[t], list |-> run[t].main]
        OBVIOUS
      <4>1. t \in Tags /\ r \in [tag : Tags, commit : Commits, list : Nat] /\ r.tag = t
            /\ r.commit = tags[t] /\ r.list = run[t].main
        BY <1>0, <2>1, <4>0, HistoriesAreCommits DEF TypeOK, IsRun
      <4>2. releases' = Append(releases, r)
        BY <3>1, <4>0 DEF Publish
      <4>3. /\ DOMAIN releases = 1..k /\ k \in Nat /\ DOMAIN releases' = 1..(k + 1)
            /\ \A i \in 1..k : releases'[i] = releases[i]
            /\ releases'[k + 1] = r
        BY <1>0, <4>1, <4>2, OneMoreReleased
      <4>4. FromProtected(r.tag, r.commit, r.list)'
        BY <1>2, <2>1, <3>1, <4>1 DEF Publish, ProtectedInv, RunsFromProtected, RunFromProtected
      <4>5. \A i \in 1..k : FromProtected(releases[i].tag, releases[i].commit, releases[i].list)
        BY <4>3 DEF ProtectedInv, ReleasedFromProtected, FromProtected
      <4> SUFFICES ASSUME NEW i \in 1..(k + 1)
                   PROVE  FromProtected(releases[i].tag, releases[i].commit, releases[i].list)'
        BY <4>3 DEF ReleasedFromProtected, FromProtected
      <4>6. PICK q : q = releases'[i] /\ FromProtected(q.tag, q.commit, q.list)'
        <5>1. CASE i = k + 1
          BY <4>3, <4>4, <5>1
        <5>2. CASE i \in 1..k
          <6>1. PICK q : q = releases[i]
            OBVIOUS
          <6>2. FromProtected(q.tag, q.commit, q.list)'
            BY <1>2, <4>5, <5>2, <6>1
          <6> QED BY <4>3, <5>2, <6>1, <6>2
        <5> QED BY <4>3, <5>1, <5>2
      <4> QED BY <4>6 DEF FromProtected
    <3>2. CASE UNCHANGED releases
      BY <1>4, <3>2
    <3> QED BY <1>7, <3>1, <3>2
        DEF RunStep, Start, Checkout, FetchMain, Verify, Build, PublishFails
  <2> QED BY <2>5, <2>6 DEF ProtectedInv
<1>8. CASE UNCHANGED vars
  BY <1>5, <1>8 DEF vars
<1>9. CASE ReleaseNext
  <2>1. CASE AdvanceMain \/ \E l \in DOMAIN BranchHistory : AdvanceBranch(l)
    BY <1>5, <2>1 DEF AdvanceMain, AdvanceBranch
  <2>2. ASSUME NEW p \in Pushable, PushTag(p[1], p[2]) PROVE ProtectedInv'
    BY <1>6, <2>2 DEF PushTag
  <2>3. ASSUME NEW t \in DOMAIN tags, Rerun(t) PROVE ProtectedInv'
    BY <1>6, <2>3 DEF Rerun
  <2> QED BY <1>7, <1>9, <2>1, <2>2, <2>3 DEF ReleaseNext
<1> QED BY <1>8, <1>9, ValidateChangesNoRelease DEF Next, allVars

(* Every release was built from a commit of the branch that main's own     *)
(* allow-list names for its line, and on a maintenance line descends from  *)
(* the approved base commit (select_release_route, validate_base_commit).  *)
THEOREM FromProtectedBranches == Spec => []ReleasedFromProtected
<1>1. AllInit => ProtectedInv
  BY DEF AllInit, Init, ProtectedInv, RunsFromProtected, ReleasedFromProtected
<1>2. WorkflowInv /\ ProtectedInv /\ [Next]_allVars => ProtectedInv'
  BY ProtectedStep
<1>3. ProtectedInv => ReleasedFromProtected
  BY DEF ProtectedInv
<1> QED BY <1>1, <1>2, <1>3, WorkflowInvariance, PTL DEF Spec

-----------------------------------------------------------------------------
\* The validation runner: what its errors will not let a passing report say.

RunnerFields ==
    {"stage", "asked", "head", "dirty", "version", "errors", "checks", "artifacts", "files"}

\* What a working tree may state.
Stated == {Tree[c].tag : c \in Commits} \cup {NoTag}

\* The files that the artifacts of a version are.
ReleaseFiles(version) == {Content(kind, version) : kind \in Kinds \ {"SHA256SUMS"}}

RunnerShape ==
    runner.stage # "idle" =>
        /\ DOMAIN runner = RunnerFields
        /\ runner.asked \in Invocations /\ runner.head \in Heads /\ runner.dirty \in BOOLEAN
        /\ runner.version \in Stated
        /\ runner.checks \in Seq(Outcomes)
        /\ runner.artifacts \in {"pass", "fail", "not_requested"}
        /\ runner.files \subseteq {Content(kind, t) : kind \in Kinds, t \in Tags}

\* Files come from releases, and there are none before the first download.
FilesAreReleased ==
    /\ downloads \in Nat
    /\ downloads = 0 => DOMAIN dir = {}
    /\ \A n \in DOMAIN dir : dir[n].of \in Released \cap Tags

\* Whatever speaks against a passing report is among the errors.
MetadataTold ==
    runner.stage # "idle" =>
        /\ ~runner.dirty => runner.version = Tree[runner.head].tag
        /\ runner.version = NoTag => "metadata" \in runner.errors

ProvenanceTold ==
    runner.stage \in {"checks", "report", "write", "replace"} =>
        /\ runner.dirty /\ ~runner.asked.allowDirty => "dirty" \in runner.errors
        /\ runner.asked.commit # Nothing =>
              "commit" \in runner.errors \/ runner.asked.commit = runner.head
        /\ runner.asked.tag # NoTag =>
              \/ "tag" \in runner.errors
              \/ tags[runner.asked.tag] = runner.head

ChecksTold ==
    /\ runner.stage = "provenance" => runner.checks = << >>
    /\ runner.stage \in {"checks", "report", "write", "replace"} =>
          \A i \in DOMAIN runner.checks :
             runner.checks[i] = "pass" \/ Checks[i] \in runner.errors

ArtifactsTold ==
    runner.stage \in {"report", "write", "replace"} =>
        /\ Len(runner.checks) = Len(Checks)
        /\ runner.asked.require =>
              runner.artifacts = "pass" \/ "artifacts" \in runner.errors
        /\ runner.artifacts = "pass" =>
              LET expected == ExpectedVersion(runner.asked, runner.version)
              IN  expected # NoTag =>
                    expected \in Released /\ runner.files = ReleaseFiles(expected)

\* The temporary file holds the whole report when it takes the report's place.
TemporaryFilled == runner.stage = "replace" => temporary = FinalReport

\* What PassingReportIsSound says of a report, but for the tag asked for.
Sound(r) ==
    r.status = "pass" =>
        /\ r.checks = [i \in DOMAIN Checks |-> "pass"]
        /\ r.asked.tag # NoTag => tags[r.asked.tag] = r.head
        /\ r.asked.commit # Nothing => r.asked.commit = r.head
        /\ r.dirty => r.asked.allowDirty
        /\ ~r.dirty => r.version = Tree[r.head].tag
        /\ r.asked.require => r.artifacts = "pass"
        /\ r.artifacts = "pass" =>
              /\ ExpectedVersion(r.asked, r.version) \in Released
              /\ r.files = ReleaseFiles(ExpectedVersion(r.asked, r.version))

ReportWhole == report = Nothing \/ (report \in Reports /\ Sound(report))

RunnerInv ==
    /\ RunnerShape /\ FilesAreReleased
    /\ MetadataTold /\ ProvenanceTold /\ ChecksTold /\ ArtifactsTold
    /\ TemporaryFilled /\ ReportWhole

LEMMA RunnerInvInit == AllInit => RunnerInv
BY DEF AllInit, RunnerInit, Init, Idle, RunnerInv, RunnerShape, FilesAreReleased, MetadataTold, ProvenanceTold,
       ChecksTold, ArtifactsTold, TemporaryFilled, ReportWhole

\* The release workflow moves while there is no file, no run and no report.
LEMMA ReleaseMovesAlone ==
    ASSUME RunnerInv, downloads = 0, runner = Idle, report = Nothing, UNCHANGED runnerVars
    PROVE  RunnerInv'
<1>1. UNCHANGED <<dir, downloads, faults, runner, temporary, report>>
  BY DEF runnerVars
<1>2. runner.stage = "idle" /\ runner'.stage = "idle"
  BY <1>1 DEF Idle
<1> QED
  BY <1>1, <1>2 DEF RunnerInv, RunnerShape, FilesAreReleased, MetadataTold, ProvenanceTold, ChecksTold,
                    ArtifactsTold, TemporaryFilled, ReportWhole

LEMMA DownloadStep ==
    ASSUME RunnerInv, NEW t \in Tags, NEW kinds, NEW damaged, Download(t, kinds, damaged)
    PROVE  RunnerInv'
<1> DEFINE names == {FileName(kind, t) : kind \in kinds}
           Arrived(kind) == [Content(kind, t) EXCEPT !.whole = kind \notin damaged]
<1>1. /\ runner = Idle /\ report = Nothing /\ t \in Released
      /\ downloads' = downloads + 1
      /\ UNCHANGED <<vars, runner, temporary, report>>
      /\ dir' = [n \in DOMAIN dir \cup names |->
                   IF n \in names
                   THEN Arrived(CHOOSE kind \in kinds : FileName(kind, t) = n)
                   ELSE dir[n]]
  BY Zenon DEF Download
<1>2. \A kind : Arrived(kind).of = t
  BY DEF Content
<1> HIDE DEF Arrived, names
<1>3. \A n \in DOMAIN dir' : dir'[n].of = t \/ (n \in DOMAIN dir /\ dir'[n] = dir[n])
  BY <1>1, <1>2
<1>4. Released' = Released
  BY <1>1 DEF Released, vars
<1>5. FilesAreReleased'
  <2>1. downloads' \in Nat /\ downloads' # 0
    BY <1>1 DEF RunnerInv, FilesAreReleased
  <2>2. \A n \in DOMAIN dir' : dir'[n].of \in Released \cap Tags
    BY <1>1, <1>3, Zenon DEF RunnerInv, FilesAreReleased
  <2> QED BY <1>4, <2>1, <2>2 DEF FilesAreReleased
<1>6. runner.stage = "idle" /\ runner'.stage = "idle"
  BY <1>1 DEF Idle
<1> QED
  BY <1>1, <1>5, <1>6 DEF RunnerInv, RunnerShape, MetadataTold, ProvenanceTold, ChecksTold,
                          ArtifactsTold, TemporaryFilled, ReportWhole

LEMMA CrashStep ==
    ASSUME RunnerInv, UNCHANGED <<vars, dir, downloads, report>>, runner' = Idle
    PROVE  RunnerInv'
<1>1. runner'.stage = "idle"
  BY DEF Idle
<1>2. Released' = Released /\ UNCHANGED tags
  BY DEF Released, vars
<1> QED
  BY <1>1, <1>2 DEF RunnerInv, RunnerShape, FilesAreReleased, MetadataTold, ProvenanceTold, ChecksTold,
                    ArtifactsTold, TemporaryFilled, ReportWhole, Sound, ReleaseFiles

\* A step of the run that leaves files, report and releases alone.
LEMMA RunStepFrame ==
    ASSUME RunnerInv, UNCHANGED <<vars, dir, downloads, report>>
    PROVE  FilesAreReleased' /\ ReportWhole' /\ Released' = Released /\ tags' = tags
<1>1. Released' = Released /\ UNCHANGED tags
  BY DEF Released, vars
<1> QED BY <1>1 DEF RunnerInv, FilesAreReleased, ReportWhole, Sound, ReleaseFiles

LEMMA StartStep ==
    ASSUME RunnerInv, NEW invocation \in Invocations, NEW head \in Heads,
           StartValidation(invocation, head)
    PROVE  RunnerInv'
<1>1. PICK dirty \in BOOLEAN : \E version \in Versions(head, dirty) :
         runner' = [stage |-> "provenance", asked |-> invocation, head |-> head,
                    dirty |-> dirty, version |-> version,
                    errors |-> IF version = NoTag THEN {"metadata"} ELSE {},
                    checks |-> << >>, artifacts |-> "not_requested", files |-> {}]
  BY Zenon DEF StartValidation
<1>v. PICK version \in Versions(head, dirty) :
         runner' = [stage |-> "provenance", asked |-> invocation, head |-> head,
                    dirty |-> dirty, version |-> version,
                    errors |-> IF version = NoTag THEN {"metadata"} ELSE {},
                    checks |-> << >>, artifacts |-> "not_requested", files |-> {}]
  BY <1>1
<1>w. version \in Stated /\ (~dirty => version = Tree[head].tag)
  BY HeadsAreCommits DEF Versions, Stated
<1>2. UNCHANGED <<vars, dir, downloads, report>>
  BY DEF StartValidation
<1>3. RunnerShape' /\ MetadataTold'
  BY <1>v, <1>w DEF RunnerShape, RunnerFields, Stated, MetadataTold
<1>4. ProvenanceTold' /\ ChecksTold' /\ ArtifactsTold' /\ TemporaryFilled'
  BY <1>v DEF ProvenanceTold, ChecksTold, ArtifactsTold, TemporaryFilled
<1> QED BY <1>2, <1>3, <1>4, RunStepFrame DEF RunnerInv

LEMMA ProvenanceStep ==
    ASSUME RunnerInv, CollectProvenance
    PROVE  RunnerInv'
<1>1. /\ runner.stage = "provenance"
      /\ runner' = [runner EXCEPT !.stage = "checks", !.errors = @ \cup ProvenanceErrors]
      /\ UNCHANGED <<vars, dir, downloads, report>>
  BY DEF CollectProvenance
<1>2. /\ DOMAIN runner = RunnerFields
      /\ runner.asked \in Invocations /\ runner.head \in Heads /\ runner.dirty \in BOOLEAN
      /\ runner.checks = << >>
  BY <1>1 DEF RunnerInv, RunnerShape, ChecksTold
<1>3. /\ DOMAIN runner' = RunnerFields /\ runner'.stage = "checks"
      /\ runner'.errors = runner.errors \cup ProvenanceErrors
      /\ runner'.asked = runner.asked /\ runner'.head = runner.head
      /\ runner'.dirty = runner.dirty /\ runner'.version = runner.version
      /\ runner'.checks = runner.checks
      /\ runner'.artifacts = runner.artifacts /\ runner'.files = runner.files
  BY <1>1, <1>2 DEF RunnerFields
<1>4. RunnerShape'
  BY <1>1, <1>3 DEF RunnerInv, RunnerShape, Stated
<1>5. ProvenanceTold' /\ MetadataTold'
  BY <1>1, <1>3, RunStepFrame DEF RunnerInv, MetadataTold, ProvenanceTold, ProvenanceErrors
<1>6. ChecksTold' /\ ArtifactsTold' /\ TemporaryFilled'
  BY <1>2, <1>3 DEF ChecksTold, ArtifactsTold, TemporaryFilled
<1> QED BY <1>1, <1>4, <1>5, <1>6, RunStepFrame DEF RunnerInv

LEMMA CheckStep ==
    ASSUME RunnerInv, NEW status \in Outcomes, RunCheck(status)
    PROVE  RunnerInv'
<1> DEFINE failed == IF status = "pass" THEN runner.errors
                     ELSE runner.errors \cup {Checks[Len(runner.checks) + 1]}
<1>1. /\ runner.stage = "checks"
      /\ runner' = [runner EXCEPT !.checks = Append(@, status), !.errors = failed]
      /\ UNCHANGED <<vars, dir, downloads, report>>
  BY DEF RunCheck
<1>2. DOMAIN runner = RunnerFields /\ runner.checks \in Seq(Outcomes)
  BY <1>1 DEF RunnerInv, RunnerShape
<1>3. /\ DOMAIN runner' = RunnerFields /\ runner'.stage = "checks"
      /\ runner'.errors = failed /\ runner'.checks = Append(runner.checks, status)
      /\ runner'.asked = runner.asked /\ runner'.head = runner.head
      /\ runner'.dirty = runner.dirty /\ runner'.version = runner.version
      /\ runner'.artifacts = runner.artifacts /\ runner'.files = runner.files
  BY <1>1, <1>2 DEF RunnerFields
<1>4. runner.errors \subseteq failed
  OBVIOUS
<1>5. RunnerShape'
  BY <1>1, <1>2, <1>3 DEF RunnerInv, RunnerShape, Stated
<1>6. ProvenanceTold' /\ MetadataTold'
  BY <1>1, <1>3, <1>4, RunStepFrame DEF RunnerInv, MetadataTold, ProvenanceTold
<1>7. ChecksTold'
  <2>1. \A i \in DOMAIN runner.checks : runner.checks[i] = "pass" \/ Checks[i] \in runner.errors
    BY <1>1 DEF RunnerInv, ChecksTold
  <2>2. /\ DOMAIN runner'.checks = DOMAIN runner.checks \cup {Len(runner.checks) + 1}
        /\ \A i \in DOMAIN runner.checks : runner'.checks[i] = runner.checks[i]
        /\ runner'.checks[Len(runner.checks) + 1] = status
    BY <1>2, <1>3
  <2>3. status = "pass" \/ Checks[Len(runner.checks) + 1] \in failed
    OBVIOUS
  <2> HIDE DEF failed
  <2> QED BY <1>3, <1>4, <2>1, <2>2, <2>3 DEF ChecksTold
<1>8. ArtifactsTold' /\ TemporaryFilled'
  BY <1>3 DEF ArtifactsTold, TemporaryFilled
<1> QED BY <1>1, <1>5, <1>6, <1>7, <1>8, RunStepFrame DEF RunnerInv

\* Artifacts that verify are those of one release, of the version expected.
LEMMA VerifiedAreReleased ==
    ASSUME FilesAreReleased, NEW version, ArtifactsVerify(version)
    PROVE  \E t \in Released \cap Tags :
              VerifiedFiles = ReleaseFiles(t) /\ (version # NoTag => t = version)
<1> DEFINE t == dir[<<"ARTIFACTS.json">>].of
<1>1. /\ <<"ARTIFACTS.json">> \in DOMAIN dir
      /\ version # NoTag => t = version
      /\ \A kind \in Kinds \ {"SHA256SUMS"} : FileAt(FileName(kind, t), Content(kind, t))
  BY DEF ArtifactsVerify
<1>2. \A kind \in Kinds \ {"SHA256SUMS"} : dir[FileName(kind, t)] = Content(kind, t)
  BY <1>1 DEF FileAt
<1>3. VerifiedFiles = ReleaseFiles(t)
  BY <1>2 DEF VerifiedFiles, ReleaseFiles
<1>4. t \in Released \cap Tags
  BY <1>1 DEF FilesAreReleased
<1> HIDE DEF t
<1> QED BY <1>1, <1>3, <1>4

LEMMA VerifyArtifactsStep ==
    ASSUME RunnerInv, VerifyArtifacts
    PROVE  RunnerInv'
<1> DEFINE version == ExpectedVersion(runner.asked, runner.version)
           status == ArtifactStatus(runner.asked, version)
           files == IF status = "pass" THEN VerifiedFiles ELSE {}
           errors == IF status = "fail" THEN runner.errors \cup {"artifacts"}
                     ELSE runner.errors
<1>1. /\ runner.stage = "checks" /\ Len(runner.checks) = Len(Checks)
      /\ runner' = [runner EXCEPT !.stage = "report", !.artifacts = status,
                                  !.files = files, !.errors = errors]
      /\ UNCHANGED <<vars, dir, downloads, report>>
  BY DEF VerifyArtifacts
<1>2. DOMAIN runner = RunnerFields
  BY <1>1 DEF RunnerInv, RunnerShape
<1>3. /\ status \in {"pass", "fail", "not_requested"}
      /\ status = "pass" => ArtifactsVerify(version)
      /\ runner.asked.require => status \in {"pass", "fail"}
  BY DEF ArtifactStatus
<1>4. status = "pass" => \E t \in Released \cap Tags :
         files = ReleaseFiles(t) /\ (version # NoTag => t = version)
  BY <1>3, VerifiedAreReleased DEF RunnerInv
<1>5. files \subseteq {Content(kind, t) : kind \in Kinds, t \in Tags}
  BY <1>4 DEF ReleaseFiles
<1>6. runner.errors \subseteq errors /\ (status = "fail" => "artifacts" \in errors)
  OBVIOUS
<1>e. version = ExpectedVersion(runner.asked, runner.version)
  OBVIOUS
<1> HIDE DEF version, status, files, errors
<1>7. /\ DOMAIN runner' = RunnerFields /\ runner'.stage = "report"
      /\ runner'.errors = errors /\ runner'.artifacts = status /\ runner'.files = files
      /\ runner'.asked = runner.asked /\ runner'.head = runner.head
      /\ runner'.dirty = runner.dirty /\ runner'.version = runner.version
      /\ runner'.checks = runner.checks
  BY <1>1, <1>2 DEF RunnerFields
<1>8. RunnerShape'
  BY <1>1, <1>3, <1>5, <1>7 DEF RunnerInv, RunnerShape, Stated
<1>9. MetadataTold' /\ ProvenanceTold' /\ ChecksTold'
  BY <1>1, <1>6, <1>7, RunStepFrame DEF RunnerInv, MetadataTold, ProvenanceTold, ChecksTold
<1>10. ArtifactsTold'
  <2>1. ExpectedVersion(runner'.asked, runner'.version) = version
    BY <1>e, <1>7 DEF ExpectedVersion
  <2>2. Released' = Released
    BY <1>1, RunStepFrame
  <2>3. status = "pass" => (version # NoTag => version \in Released /\ files = ReleaseFiles(version))
    BY <1>4
  <2> QED BY <1>1, <1>3, <1>6, <1>7, <2>1, <2>2, <2>3 DEF ArtifactsTold, ReleaseFiles
<1>11. TemporaryFilled'
  BY <1>7 DEF TemporaryFilled
<1> QED BY <1>1, <1>8, <1>9, <1>10, <1>11, RunStepFrame DEF RunnerInv

LEMMA WritingStep ==
    ASSUME RunnerInv, OpenTemporary \/ FillTemporary
    PROVE  RunnerInv'
<1>1. PICK stage \in {"write", "replace"} :
         /\ runner.stage = "report" \/ runner.stage = "write"
         /\ runner' = [runner EXCEPT !.stage = stage]
         /\ stage = "replace" => temporary' = FinalReport
         /\ UNCHANGED <<vars, dir, downloads, report>>
  BY DEF OpenTemporary, FillTemporary
<1>2. DOMAIN runner = RunnerFields
  BY <1>1 DEF RunnerInv, RunnerShape
<1>3. /\ DOMAIN runner' = RunnerFields /\ runner'.stage = stage
      /\ runner'.errors = runner.errors /\ runner'.artifacts = runner.artifacts
      /\ runner'.files = runner.files
      /\ runner'.asked = runner.asked /\ runner'.head = runner.head
      /\ runner'.dirty = runner.dirty /\ runner'.version = runner.version
      /\ runner'.checks = runner.checks
  BY <1>1, <1>2 DEF RunnerFields
<1>4. RunnerShape'
  BY <1>1, <1>3 DEF RunnerInv, RunnerShape, Stated
<1>5. MetadataTold' /\ ProvenanceTold' /\ ChecksTold' /\ ArtifactsTold'
  BY <1>1, <1>3, RunStepFrame DEF RunnerInv, MetadataTold, ProvenanceTold, ChecksTold,
                                  ArtifactsTold, ReleaseFiles, ExpectedVersion
<1>6. TemporaryFilled'
  BY <1>1, <1>3 DEF TemporaryFilled, FinalReport
<1> QED BY <1>1, <1>4, <1>5, <1>6, RunStepFrame DEF RunnerInv

\* The report of a run that reached its end.
LEMMA FinalReportSound ==
    ASSUME RunnerInv, runner.stage = "replace"
    PROVE  FinalReport \in Reports /\ Sound(FinalReport)
<1>1. /\ runner.asked \in Invocations /\ runner.head \in Heads /\ runner.dirty \in BOOLEAN
      /\ runner.version \in Stated
      /\ runner.checks \in Seq(Outcomes)
      /\ runner.artifacts \in {"pass", "fail", "not_requested"}
      /\ runner.files \subseteq {Content(kind, t) : kind \in Kinds, t \in Tags}
  BY DEF RunnerInv, RunnerShape
<1> DEFINE All == {Content(kind, t) : kind \in Kinds, t \in Tags}
<1>2. runner.files \in SUBSET All
  BY <1>1
<1> HIDE DEF All
<1>3. FinalReport \in Reports
  BY <1>1, <1>2 DEF FinalReport, Reports, All, Stated
<1>4. ASSUME FinalReport.status = "pass"
      PROVE  Sound(FinalReport)
  <2>1. runner.errors = {}
    BY <1>4 DEF FinalReport
  <2>2. runner.checks = [i \in DOMAIN Checks |-> "pass"]
    <3>1. \A i \in DOMAIN runner.checks : runner.checks[i] = "pass"
      BY <2>1 DEF RunnerInv, ChecksTold
    <3>2. Len(runner.checks) = Len(Checks) /\ DOMAIN Checks = 1..5 /\ Len(Checks) = 5
      BY DEF RunnerInv, ArtifactsTold, Checks
    <3>3. DOMAIN runner.checks = 1..5
      BY <1>1, <3>2
    <3>4. runner.checks = [i \in DOMAIN runner.checks |-> runner.checks[i]]
      BY <1>1
    <3> QED BY <3>1, <3>2, <3>3, <3>4
  <2>3. /\ runner.dirty => runner.asked.allowDirty
        /\ runner.asked.commit # Nothing => runner.asked.commit = runner.head
        /\ runner.asked.tag # NoTag => tags[runner.asked.tag] = runner.head
    BY <2>1 DEF RunnerInv, ProvenanceTold
  <2>4. runner.version # NoTag /\ (~runner.dirty => runner.version = Tree[runner.head].tag)
    BY <2>1 DEF RunnerInv, MetadataTold
  <2>5. ExpectedVersion(runner.asked, runner.version) # NoTag
    BY <2>4 DEF ExpectedVersion
  <2>6. /\ runner.asked.require => runner.artifacts = "pass"
        /\ runner.artifacts = "pass" =>
              /\ ExpectedVersion(runner.asked, runner.version) \in Released
              /\ runner.files = ReleaseFiles(ExpectedVersion(runner.asked, runner.version))
    BY <2>1, <2>5 DEF RunnerInv, ArtifactsTold
  <2>7. /\ FinalReport.checks = runner.checks /\ FinalReport.asked = runner.asked
        /\ FinalReport.head = runner.head /\ FinalReport.dirty = runner.dirty
        /\ FinalReport.version = runner.version
        /\ FinalReport.artifacts = runner.artifacts /\ FinalReport.files = runner.files
    BY DEF FinalReport
  <2> QED BY <2>2, <2>3, <2>4, <2>6, <2>7 DEF Sound
<1> QED BY <1>3, <1>4 DEF Sound

LEMMA ReplaceStep ==
    ASSUME RunnerInv, ReplaceReport
    PROVE  RunnerInv'
<1>1. /\ runner.stage = "replace" /\ report' = temporary /\ runner' = Idle
      /\ UNCHANGED <<vars, dir, downloads>>
  BY DEF ReplaceReport
<1>2. report' \in Reports /\ Sound(report')
  <2>1. report' = FinalReport
    BY <1>1 DEF RunnerInv, TemporaryFilled
  <2> QED BY <1>1, <2>1, FinalReportSound
<1>3. Released' = Released /\ UNCHANGED tags
  BY <1>1 DEF Released, vars
<1>4. ReportWhole'
  BY <1>2, <1>3 DEF ReportWhole, Sound, ReleaseFiles
<1>5. runner'.stage = "idle"
  BY <1>1 DEF Idle
<1> QED
  BY <1>1, <1>3, <1>4, <1>5 DEF RunnerInv, RunnerShape, FilesAreReleased, MetadataTold, ProvenanceTold,
                                ChecksTold, ArtifactsTold, TemporaryFilled

LEMMA RunnerStep ==
    ASSUME RunnerInv, [Next]_allVars
    PROVE  RunnerInv'
<1>1. CASE UNCHANGED allVars
  <2>1. UNCHANGED <<runner, temporary>> /\ UNCHANGED <<vars, dir, downloads, report>>
    BY <1>1 DEF allVars, runnerVars
  <2>2. RunnerShape' /\ MetadataTold' /\ ProvenanceTold' /\ ChecksTold' /\ ArtifactsTold' /\ TemporaryFilled'
    BY <2>1, RunStepFrame DEF RunnerInv, RunnerShape, MetadataTold, ProvenanceTold, ChecksTold,
                              ArtifactsTold, TemporaryFilled, FinalReport, ReleaseFiles
  <2> QED BY <2>1, <2>2, RunStepFrame DEF RunnerInv
<1>2. CASE Validate
  <2>1. CASE RunnerCrash
    BY <2>1, CrashStep DEF RunnerCrash
  <2> QED
    BY <1>2, <2>1, DownloadStep, StartStep, ProvenanceStep, CheckStep, VerifyArtifactsStep,
       WritingStep, ReplaceStep
    DEF Validate
<1> QED BY <1>1, <1>2, ReleaseMovesAlone DEF Next

-----------------------------------------------------------------------------
\* A release was made from the commit of its tag, which states its version.
ReleaseIsOfTag ==
    \A i \in DOMAIN releases : releases[i].commit = tags[releases[i].tag]

LEMMA ReleaseIsOfTagStep ==
    ASSUME WorkflowInv, ReleaseIsOfTag, [Next]_allVars
    PROVE  ReleaseIsOfTag'
<1> USE DEF ReleaseIsOfTag
<1>1. CASE UNCHANGED <<tags, releases>>
  BY <1>1
<1>2. ASSUME NEW p \in Pushable, PushTag(p[1], p[2]) PROVE ReleaseIsOfTag'
  <2>1. UNCHANGED releases /\ \A t \in DOMAIN tags : tags'[t] = tags[t]
    BY <1>2 DEF PushTag
  <2>2. \A i \in DOMAIN releases : releases[i].tag \in DOMAIN tags
    BY DEF WorkflowInv, ReleasedIsTagged, Released
  <2> QED BY <2>1, <2>2
<1>3. ASSUME NEW t \in DOMAIN tags, Publish(t) PROVE ReleaseIsOfTag'
  <2> DEFINE r == [tag |-> t, commit |-> tags[t], list |-> run[t].main]
             n == Len(releases)
  <2>1. /\ r \in [tag : Tags, commit : Commits, list : Nat]
        /\ releases' = Append(releases, r) /\ UNCHANGED tags
    BY <1>3, HistoriesAreCommits DEF WorkflowInv, TypeOK, IsRun, Publish
  <2>2. TypeOK /\ r.tag = t /\ r.commit = tags[t]
    BY DEF WorkflowInv
  <2> HIDE DEF r
  <2>3. /\ DOMAIN releases = 1..n /\ n \in Nat /\ DOMAIN releases' = 1..(n + 1)
        /\ \A i \in 1..n : releases'[i] = releases[i]
        /\ releases'[n + 1] = r
    BY <2>1, <2>2, OneMoreReleased
  <2>4. ASSUME NEW i \in 1..(n + 1) PROVE releases'[i].commit = tags[releases'[i].tag]
    <3>1. CASE i = n + 1
      BY <2>2, <2>3, <3>1
    <3>2. CASE i \in 1..n
      BY <2>3, <3>2
    <3> QED BY <2>3, <3>1, <3>2
  <2> QED BY <2>1, <2>3, <2>4
<1>4. CASE ReleaseNext
  <2>1. CASE AdvanceMain \/ \E l \in DOMAIN BranchHistory : AdvanceBranch(l)
    BY <1>1, <2>1 DEF AdvanceMain, AdvanceBranch
  <2>2. CASE \E t \in DOMAIN tags : Rerun(t)
    BY <1>1, <2>2 DEF Rerun
  <2>3. ASSUME NEW t \in DOMAIN tags, RunStep(t), ~Publish(t) PROVE ReleaseIsOfTag'
    BY <1>1, <2>3 DEF RunStep, Start, Checkout, FetchMain, Verify, Build, PublishFails
  <2> QED BY <1>2, <1>3, <1>4, <2>1, <2>2, <2>3 DEF ReleaseNext
<1> QED BY <1>1, <1>4, ValidateChangesNoRelease DEF Next, allVars, vars

\* The tree of a released tag states the tag's version.
LEMMA TreesOfReleases ==
    ASSUME ReleaseIsOfTag, ReleasedFromProtected, NEW t \in Released
    PROVE  Tree[tags[t]].tag = t
BY DEF ReleaseIsOfTag, ReleasedFromProtected, Released

(* A report that says pass is a whole one of a run in which nothing was    *)
(* left out, on the commit and the tag asked for and on the undamaged      *)
(* files of one release: of the version asked for or stated by the working *)
(* tree, and of the tag itself where the checkout is clean (main,          *)
(* verify_release_artifacts, write_report).                                *)
THEOREM ReportsAreSound == Spec => []PassingReportIsSound
<1>1. AllInit => RunnerInv /\ ReleaseIsOfTag
  BY RunnerInvInit DEF AllInit, Init, ReleaseIsOfTag
<1>2. RunnerInv /\ [Next]_allVars => RunnerInv'
  BY RunnerStep
<1>3. WorkflowInv /\ ReleaseIsOfTag /\ [Next]_allVars => ReleaseIsOfTag'
  BY ReleaseIsOfTagStep
<1>4. RunnerInv /\ WorkflowInv /\ ReleaseIsOfTag /\ ReleasedFromProtected => PassingReportIsSound
  <2> SUFFICES ASSUME RunnerInv, WorkflowInv, ReleaseIsOfTag, ReleasedFromProtected
               PROVE  PassingReportIsSound
    OBVIOUS
  <2>1. report # Partial
    BY PartialIsNoReport DEF RunnerInv, ReportWhole
  <2>2. report # Nothing => Sound(report)
    BY DEF RunnerInv, ReportWhole
  <2>3. ASSUME Sound(report), report.status = "pass", report.asked.tag \in Released,
               report.asked.version = NoTag, ~report.dirty
        PROVE  ExpectedVersion(report.asked, report.version) = report.asked.tag
    <3>1. report.asked.tag # NoTag
      BY <2>3, NoTagIsNoTag DEF WorkflowInv, ReleasedIsTagged, TypeOK
    <3>2. tags[report.asked.tag] = report.head /\ report.version = Tree[report.head].tag
      BY <2>3, <3>1 DEF Sound
    <3> QED BY <2>3, <3>2, TreesOfReleases DEF ExpectedVersion
  <2> QED BY <2>1, <2>2, <2>3 DEF PassingReportIsSound, Sound, ReleaseFiles
<1> QED
  BY <1>1, <1>2, <1>3, <1>4, WorkflowInvariance, FromProtectedBranches, PTL DEF Spec
=============================================================================
