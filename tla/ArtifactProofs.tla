--------------------------- MODULE ArtifactProofs ---------------------------
(***************************************************************************)
(* Proofs about the artifact store and about the reconciler, the two       *)
(* halves of an artifact: its bytes and its row.                           *)
(***************************************************************************)
EXTENDS ArtifactStore, ArtifactReconciler, TLAPS

(***************************************************************************)
(* publish, for any number of publishers, crashes and power losses, on the *)
(* hypothesis that publishers have process ids of their own.  Then a       *)
(* staged name has one user, and what the user has checked under that name *)
(* is still there when it is moved to the target.                          *)
(***************************************************************************)

\* No two publishers share a process id.
DistinctPids == \A b, c \in Publishers : Pid[b] = Pid[c] => b = c

\* Every file has one name.
NamesAreDistinct ==
    \A p \in Pids : staged[p] # Nothing =>
        staged[p] # target /\ \A q \in Pids : staged[q] = staged[p] => q = p

\* An open handle refers to the file under the publisher's own staged name.
HandlesAreStaged ==
    \A c \in Publishers :
        IF step[c] \in {"write", "fsync"}
        THEN handle[c] \in Inodes /\ handle[c] = staged[Pid[c]]
        ELSE handle[c] = Nothing

\* What was written stays whole; what was closed is on disk.
OwnFileIsWhole ==
    \A c \in Publishers :
        /\ step[c] \in {"fsync", "check", "replace"} => staged[Pid[c]] \in whole
        /\ step[c] \in {"check", "replace"} => staged[Pid[c]] \in synced

\* A visible target is whole and on disk.
TargetIsDurable == target # Nothing => target \in whole /\ target \in synced

\* Success is reported, and an existing target looked at, only once it is there.
SuccessIsVisible ==
    \A c \in Publishers :
        step[c] \in {"exists", "ok"} \/ (step[c] = "finally" /\ result[c] = "ok") =>
            target # Nothing

\* Without crashes no staged file outlives its call, and no call fails.
NothingIsLeftOver ==
    crashes = 0 => \A c \in Publishers :
        /\ step[c] \notin {"write", "fsync", "check", "replace"} => staged[Pid[c]] = Nothing
        /\ step[c] = "finally" => result[c] = "ok"
        /\ step[c] # "failed"

StoreInv ==
    /\ StoreTypeOK
    /\ NamesAreDistinct
    /\ HandlesAreStaged
    /\ OwnFileIsWhole
    /\ TargetIsDurable
    /\ SuccessIsVisible
    /\ NothingIsLeftOver

-----------------------------------------------------------------------------
\* With process ids of their own, every step keeps the inductive invariant.
LEMMA StoreStep == ASSUME DistinctPids, StoreInv, [StoreNext]_storeVars PROVE StoreInv'
<1> USE PidAssumption, NothingAssumption, CrashAssumption DEF StoreInv, StoreTypeOK, DistinctPids
<1>1. ASSUME NEW c \in Publishers, LookForTarget(c) PROVE StoreInv'
  <2>1. StoreTypeOK'
    BY <1>1 DEF LookForTarget, files, Goto, Labels
  <2>2. NamesAreDistinct'
    BY <1>1 DEF LookForTarget, files, Goto, NamesAreDistinct
  <2>3. HandlesAreStaged'
    BY <1>1 DEF LookForTarget, files, Goto, HandlesAreStaged
  <2>4. OwnFileIsWhole'
    BY <1>1 DEF LookForTarget, files, Goto, OwnFileIsWhole
  <2>5. TargetIsDurable'
    BY <1>1 DEF LookForTarget, files, Goto, TargetIsDurable
  <2>6. SuccessIsVisible'
    BY <1>1 DEF LookForTarget, files, Goto, SuccessIsVisible
  <2>7. NothingIsLeftOver'
    BY <1>1 DEF LookForTarget, files, Goto, NothingIsLeftOver
  <2> QED
    BY <2>1, <2>2, <2>3, <2>4, <2>5, <2>6, <2>7
<1>2. ASSUME NEW c \in Publishers, VerifyExisting(c) PROVE StoreInv'
  <2>1. StoreTypeOK'
    BY <1>2 DEF VerifyExisting, files, Goto, Labels
  <2>2. NamesAreDistinct'
    BY <1>2 DEF VerifyExisting, files, Goto, NamesAreDistinct
  <2>3. HandlesAreStaged'
    BY <1>2 DEF VerifyExisting, files, Goto, HandlesAreStaged
  <2>4. OwnFileIsWhole'
    BY <1>2 DEF VerifyExisting, files, Goto, OwnFileIsWhole
  <2>5. TargetIsDurable'
    BY <1>2 DEF VerifyExisting, files, Goto, TargetIsDurable
  <2>6. SuccessIsVisible'
    BY <1>2 DEF VerifyExisting, files, Goto, SuccessIsVisible, TargetIsDurable
  <2>7. NothingIsLeftOver'
    BY <1>2 DEF VerifyExisting, files, Goto, NothingIsLeftOver, TargetIsDurable, SuccessIsVisible
  <2> QED
    BY <2>1, <2>2, <2>3, <2>4, <2>5, <2>6, <2>7
<1>3. ASSUME NEW c \in Publishers, OpenStaged(c) PROVE StoreInv'
  <2>1. StoreTypeOK'
    BY <1>3 DEF OpenStaged, Goto, NameOf, Staged, Unused, Labels
  <2>2. NamesAreDistinct'
    BY <1>3 DEF OpenStaged, Goto, NameOf, Staged, Unused, NamesAreDistinct
  <2>3. HandlesAreStaged'
    BY <1>3 DEF OpenStaged, Goto, NameOf, Staged, Unused, HandlesAreStaged, DistinctPids
  <2>4. OwnFileIsWhole'
    BY <1>3 DEF OpenStaged, Goto, NameOf, Staged, Unused, OwnFileIsWhole, DistinctPids, NamesAreDistinct
  <2>5. TargetIsDurable'
    BY <1>3 DEF OpenStaged, Goto, NameOf, Staged, Unused, TargetIsDurable
  <2>6. SuccessIsVisible'
    BY <1>3 DEF OpenStaged, Goto, NameOf, Staged, Unused, SuccessIsVisible
  <2>7. NothingIsLeftOver'
    BY <1>3 DEF OpenStaged, Goto, NameOf, Staged, Unused, NothingIsLeftOver, DistinctPids
  <2> QED
    BY <2>1, <2>2, <2>3, <2>4, <2>5, <2>6, <2>7
<1>4. ASSUME NEW c \in Publishers, StagedExists(c) PROVE StoreInv'
  <2>1. StoreTypeOK'
    BY <1>4 DEF StagedExists, files, Goto, Finish, NameOf, Staged, Labels
  <2>2. NamesAreDistinct'
    BY <1>4 DEF StagedExists, files, Goto, Finish, NameOf, Staged, NamesAreDistinct
  <2>3. HandlesAreStaged'
    BY <1>4 DEF StagedExists, files, Goto, Finish, NameOf, Staged, HandlesAreStaged
  <2>4. OwnFileIsWhole'
    BY <1>4 DEF StagedExists, files, Goto, Finish, NameOf, Staged, OwnFileIsWhole
  <2>5. TargetIsDurable'
    BY <1>4 DEF StagedExists, files, Goto, Finish, NameOf, Staged, TargetIsDurable
  <2>6. SuccessIsVisible'
    BY <1>4 DEF StagedExists, files, Goto, Finish, NameOf, Staged, SuccessIsVisible
  <2>7. NothingIsLeftOver'
    BY <1>4 DEF StagedExists, files, Goto, Finish, NameOf, Staged, NothingIsLeftOver
  <2> QED
    BY <2>1, <2>2, <2>3, <2>4, <2>5, <2>6, <2>7
<1>5. ASSUME NEW c \in Publishers, WriteBytes(c) PROVE StoreInv'
  <2>1. StoreTypeOK'
    BY <1>5 DEF WriteBytes, Goto, Labels, HandlesAreStaged
  <2>2. NamesAreDistinct'
    BY <1>5 DEF WriteBytes, Goto, NamesAreDistinct
  <2>3. HandlesAreStaged'
    BY <1>5 DEF WriteBytes, Goto, HandlesAreStaged
  <2>4. OwnFileIsWhole'
    BY <1>5 DEF WriteBytes, Goto, OwnFileIsWhole, HandlesAreStaged
  <2>5. TargetIsDurable'
    BY <1>5 DEF WriteBytes, Goto, TargetIsDurable
  <2>6. SuccessIsVisible'
    BY <1>5 DEF WriteBytes, Goto, SuccessIsVisible
  <2>7. NothingIsLeftOver'
    BY <1>5 DEF WriteBytes, Goto, NothingIsLeftOver, HandlesAreStaged
  <2> QED
    BY <2>1, <2>2, <2>3, <2>4, <2>5, <2>6, <2>7
<1>6. ASSUME NEW c \in Publishers, SyncAndClose(c) PROVE StoreInv'
  <2>1. StoreTypeOK'
    BY <1>6 DEF SyncAndClose, Fsync, Goto, Labels, HandlesAreStaged
  <2>2. NamesAreDistinct'
    BY <1>6 DEF SyncAndClose, Fsync, Goto, NamesAreDistinct
  <2>3. HandlesAreStaged'
    BY <1>6 DEF SyncAndClose, Fsync, Goto, HandlesAreStaged
  <2>4. OwnFileIsWhole'
    BY <1>6 DEF SyncAndClose, Fsync, Goto, OwnFileIsWhole, HandlesAreStaged
  <2>5. TargetIsDurable'
    BY <1>6 DEF SyncAndClose, Fsync, Goto, TargetIsDurable
  <2>6. SuccessIsVisible'
    BY <1>6 DEF SyncAndClose, Fsync, Goto, SuccessIsVisible
  <2>7. NothingIsLeftOver'
    BY <1>6 DEF SyncAndClose, Fsync, Goto, NothingIsLeftOver
  <2> QED
    BY <2>1, <2>2, <2>3, <2>4, <2>5, <2>6, <2>7
<1>7. ASSUME NEW c \in Publishers, CheckStaged(c) PROVE StoreInv'
  <2>1. StoreTypeOK'
    BY <1>7 DEF CheckStaged, files, Goto, Finish, NameOf, Staged, Labels
  <2>2. NamesAreDistinct'
    BY <1>7 DEF CheckStaged, files, Goto, Finish, NameOf, Staged, NamesAreDistinct
  <2>3. HandlesAreStaged'
    BY <1>7 DEF CheckStaged, files, Goto, Finish, NameOf, Staged, HandlesAreStaged
  <2>4. OwnFileIsWhole'
    BY <1>7 DEF CheckStaged, files, Goto, Finish, NameOf, Staged, OwnFileIsWhole
  <2>5. TargetIsDurable'
    BY <1>7 DEF CheckStaged, files, Goto, Finish, NameOf, Staged, TargetIsDurable
  <2>6. SuccessIsVisible'
    BY <1>7 DEF CheckStaged, files, Goto, Finish, NameOf, Staged, SuccessIsVisible
  <2>7. NothingIsLeftOver'
    BY <1>7 DEF CheckStaged, files, Goto, Finish, NameOf, Staged, NothingIsLeftOver, OwnFileIsWhole
  <2> QED
    BY <2>1, <2>2, <2>3, <2>4, <2>5, <2>6, <2>7
<1>8. ASSUME NEW c \in Publishers, Replace(c) PROVE StoreInv'
  <2>1. StoreTypeOK'
    BY <1>8 DEF Replace, RemoveStaged, Goto, Finish, NameOf, Staged, Labels
  <2>2. NamesAreDistinct'
    BY <1>8 DEF Replace, RemoveStaged, Goto, Finish, NameOf, Staged, NamesAreDistinct
  <2>3. HandlesAreStaged'
    BY <1>8 DEF Replace, RemoveStaged, Goto, Finish, NameOf, Staged, HandlesAreStaged, DistinctPids
  <2>4. OwnFileIsWhole'
    BY <1>8 DEF Replace, RemoveStaged, Goto, Finish, NameOf, Staged, OwnFileIsWhole, DistinctPids
  <2>5. TargetIsDurable'
    BY <1>8 DEF Replace, RemoveStaged, Goto, Finish, NameOf, Staged, TargetIsDurable, OwnFileIsWhole
  <2>6. SuccessIsVisible'
    BY <1>8 DEF Replace, RemoveStaged, Goto, Finish, NameOf, Staged, SuccessIsVisible
  <2>7. NothingIsLeftOver'
    BY <1>8 DEF Replace, RemoveStaged, Goto, Finish, NameOf, Staged, NothingIsLeftOver, OwnFileIsWhole
  <2> QED
    BY <2>1, <2>2, <2>3, <2>4, <2>5, <2>6, <2>7
<1>9. ASSUME NEW c \in Publishers, Unlink(c) PROVE StoreInv'
  <2>1. StoreTypeOK'
    BY <1>9 DEF Unlink, UnlinkStaged, RemoveStaged, Goto, NameOf, Labels
  <2>2. NamesAreDistinct'
    BY <1>9 DEF Unlink, UnlinkStaged, RemoveStaged, Goto, NameOf, NamesAreDistinct
  <2>3. HandlesAreStaged'
    BY <1>9 DEF Unlink, UnlinkStaged, RemoveStaged, Goto, NameOf, HandlesAreStaged, DistinctPids
  <2>4. OwnFileIsWhole'
    BY <1>9 DEF Unlink, UnlinkStaged, RemoveStaged, Goto, NameOf, OwnFileIsWhole, DistinctPids
  <2>5. TargetIsDurable'
    BY <1>9 DEF Unlink, UnlinkStaged, RemoveStaged, Goto, NameOf, TargetIsDurable
  <2>6. SuccessIsVisible'
    BY <1>9 DEF Unlink, UnlinkStaged, RemoveStaged, Goto, NameOf, SuccessIsVisible
  <2>7. NothingIsLeftOver'
    BY <1>9 DEF Unlink, UnlinkStaged, RemoveStaged, Goto, NameOf, NothingIsLeftOver
  <2> QED
    BY <2>1, <2>2, <2>3, <2>4, <2>5, <2>6, <2>7
<1>10. ASSUME NEW c \in Publishers, TryAgain(c) PROVE StoreInv'
  <2>1. StoreTypeOK'
    BY <1>10 DEF TryAgain, files, Goto, Labels
  <2>2. NamesAreDistinct'
    BY <1>10 DEF TryAgain, files, Goto, NamesAreDistinct
  <2>3. HandlesAreStaged'
    BY <1>10 DEF TryAgain, files, Goto, HandlesAreStaged
  <2>4. OwnFileIsWhole'
    BY <1>10 DEF TryAgain, files, Goto, OwnFileIsWhole
  <2>5. TargetIsDurable'
    BY <1>10 DEF TryAgain, files, Goto, TargetIsDurable
  <2>6. SuccessIsVisible'
    BY <1>10 DEF TryAgain, files, Goto, SuccessIsVisible
  <2>7. NothingIsLeftOver'
    BY <1>10 DEF TryAgain, files, Goto, NothingIsLeftOver
  <2> QED
    BY <2>1, <2>2, <2>3, <2>4, <2>5, <2>6, <2>7
<1>11. ASSUME NEW c \in Publishers, PublisherDies(c) PROVE StoreInv'
  <2>1. StoreTypeOK'
    BY <1>11 DEF PublisherDies, files, Goto, Labels
  <2>2. NamesAreDistinct'
    BY <1>11 DEF PublisherDies, files, Goto, NamesAreDistinct
  <2>3. HandlesAreStaged'
    BY <1>11 DEF PublisherDies, files, Goto, HandlesAreStaged
  <2>4. OwnFileIsWhole'
    BY <1>11 DEF PublisherDies, files, Goto, OwnFileIsWhole
  <2>5. TargetIsDurable'
    BY <1>11 DEF PublisherDies, files, Goto, TargetIsDurable
  <2>6. SuccessIsVisible'
    BY <1>11 DEF PublisherDies, files, Goto, SuccessIsVisible
  <2>7. NothingIsLeftOver'
    BY <1>11 DEF PublisherDies, files, Goto, NothingIsLeftOver
  <2> QED
    BY <2>1, <2>2, <2>3, <2>4, <2>5, <2>6, <2>7
<1>12. CASE PowerLoss
  <2>1. StoreTypeOK'
    BY <1>12 DEF PowerLoss, Labels
  <2>2. NamesAreDistinct'
    BY <1>12 DEF PowerLoss, NamesAreDistinct
  <2>3. HandlesAreStaged'
    BY <1>12 DEF PowerLoss, HandlesAreStaged
  <2>4. OwnFileIsWhole'
    BY <1>12 DEF PowerLoss, OwnFileIsWhole
  <2>5. TargetIsDurable'
    BY <1>12 DEF PowerLoss, TargetIsDurable
  <2>6. SuccessIsVisible'
    BY <1>12 DEF PowerLoss, SuccessIsVisible
  <2>7. NothingIsLeftOver'
    BY <1>12 DEF PowerLoss, NothingIsLeftOver
  <2> QED
    BY <2>1, <2>2, <2>3, <2>4, <2>5, <2>6, <2>7
<1>13. CASE UNCHANGED storeVars
  BY <1>13 DEF storeVars, files, NamesAreDistinct, HandlesAreStaged, OwnFileIsWhole, TargetIsDurable, SuccessIsVisible, NothingIsLeftOver
<1> QED
  BY <1>1, <1>2, <1>3, <1>4, <1>5, <1>6, <1>7, <1>8, <1>9, <1>10, <1>11, <1>12, <1>13
  DEF StoreNext, Publish

-----------------------------------------------------------------------------
\* A publisher that writes has a file open, whoever shares its process id.
WritersHaveHandles == \A c \in Publishers : step[c] \in {"write", "fsync"} => handle[c] # Nothing

\* The types hold for publishers that share process ids as well.
THEOREM StoreTypeCorrect == StoreSpec => []StoreTypeOK
<1> USE PidAssumption, NothingAssumption, CrashAssumption
<1>1. StoreInit => StoreTypeOK /\ WritersHaveHandles
  BY DEF StoreInit, StoreTypeOK, Labels, WritersHaveHandles
<1>2. ASSUME StoreTypeOK, WritersHaveHandles, [StoreNext]_storeVars PROVE StoreTypeOK' /\ WritersHaveHandles'
  <2> USE <1>2 DEF StoreTypeOK, Labels, WritersHaveHandles, files, Goto
  <2>1. ASSUME NEW c \in Publishers, LookForTarget(c) PROVE StoreTypeOK' /\ WritersHaveHandles'
    BY <2>1 DEF LookForTarget
  <2>2. ASSUME NEW c \in Publishers, VerifyExisting(c) PROVE StoreTypeOK' /\ WritersHaveHandles'
    BY <2>2 DEF VerifyExisting
  <2>3. ASSUME NEW c \in Publishers, OpenStaged(c) PROVE StoreTypeOK' /\ WritersHaveHandles'
    BY <2>3 DEF OpenStaged, Staged, Unused, NameOf
  <2>4. ASSUME NEW c \in Publishers, StagedExists(c) PROVE StoreTypeOK' /\ WritersHaveHandles'
    BY <2>4 DEF StagedExists, Staged, NameOf, Finish
  <2>5. ASSUME NEW c \in Publishers, WriteBytes(c) PROVE StoreTypeOK' /\ WritersHaveHandles'
    BY <2>5 DEF WriteBytes
  <2>6. ASSUME NEW c \in Publishers, SyncAndClose(c) PROVE StoreTypeOK' /\ WritersHaveHandles'
    BY <2>6 DEF SyncAndClose, Fsync
  <2>7. ASSUME NEW c \in Publishers, CheckStaged(c) PROVE StoreTypeOK' /\ WritersHaveHandles'
    BY <2>7 DEF CheckStaged, Staged, NameOf, Finish
  <2>8. ASSUME NEW c \in Publishers, Replace(c) PROVE StoreTypeOK' /\ WritersHaveHandles'
    BY <2>8 DEF Replace, Staged, NameOf, RemoveStaged, Finish
  <2>9. ASSUME NEW c \in Publishers, Unlink(c) PROVE StoreTypeOK' /\ WritersHaveHandles'
    BY <2>9 DEF Unlink, UnlinkStaged, RemoveStaged, NameOf
  <2>10. ASSUME NEW c \in Publishers, TryAgain(c) PROVE StoreTypeOK' /\ WritersHaveHandles'
    BY <2>10 DEF TryAgain
  <2>11. ASSUME NEW c \in Publishers, PublisherDies(c) PROVE StoreTypeOK' /\ WritersHaveHandles'
    BY <2>11 DEF PublisherDies
  <2>12. CASE PowerLoss
    BY <2>12 DEF PowerLoss
  <2>13. CASE UNCHANGED storeVars
    BY <2>13 DEF storeVars
  <2> QED
    BY <2>1, <2>2, <2>3, <2>4, <2>5, <2>6, <2>7, <2>8, <2>9, <2>10, <2>11, <2>12, <2>13
    DEF StoreNext, Publish
<1> QED
  BY <1>1, <1>2, PTL DEF StoreSpec

\* The inductive invariant holds in every reachable state.
THEOREM StoreInvariance == ASSUME DistinctPids PROVE StoreSpec => []StoreInv
<1>1. StoreInit => StoreInv
  BY PidAssumption, NothingAssumption, CrashAssumption
  DEF StoreInit, StoreInv, StoreTypeOK, Labels, NamesAreDistinct, HandlesAreStaged, OwnFileIsWhole,
      TargetIsDurable, SuccessIsVisible, NothingIsLeftOver
<1>2. StoreInv /\ [StoreNext]_storeVars => StoreInv'
  BY StoreStep
<1> QED
  BY <1>1, <1>2, PTL DEF StoreSpec

\* A reader never finds a target without all its bytes.
THEOREM WholeTarget == ASSUME DistinctPids PROVE StoreSpec => []TargetIsWhole
<1>1. StoreInv => TargetIsWhole
  BY DEF StoreInv, TargetIsDurable, TargetIsWhole
<1> QED
  BY <1>1, StoreInvariance, PTL

\* After publish has returned the artifact is there and whole.
THEOREM ReadableOnceOk == ASSUME DistinctPids PROVE StoreSpec => []PublishedIsReadable
<1>1. StoreInv => PublishedIsReadable
  BY DEF StoreInv, TargetIsDurable, SuccessIsVisible, PublishedIsReadable
<1> QED
  BY <1>1, StoreInvariance, PTL

\* Only crashes and power losses make publish fail.
THEOREM OnlyCrashesFail == ASSUME DistinctPids PROVE StoreSpec => []FailuresNeedCrashes
<1>1. StoreInv => FailuresNeedCrashes
  BY DEF StoreInv, NothingIsLeftOver, FailuresNeedCrashes
<1> QED
  BY <1>1, StoreInvariance, PTL

-----------------------------------------------------------------------------
\* The file of the digest as the reconciler models it.
FileOf ==
    IF target = Nothing THEN "absent" ELSE IF target \in whole THEN "whole" ELSE "damaged"

\* publish, all its file operations taken together, is the one step BytesPublished
\* of the reconciler: the file is absent, then whole, and never damaged by
\* publishers, crashes or power losses.
THEOREM PublicationIsAtomic ==
    ASSUME DistinctPids
    PROVE  StoreSpec => FileOf = "absent" /\ [][FileOf = "absent" /\ FileOf' = "whole"]_FileOf
<1>1. StoreInit => FileOf = "absent"
  BY DEF StoreInit, FileOf
<1>2. ASSUME StoreInv, StoreInv', [StoreNext]_storeVars
      PROVE  [FileOf = "absent" /\ FileOf' = "whole"]_FileOf
  <2>1. target # Nothing => target' # Nothing
    BY <1>2 DEF StoreNext, Publish, LookForTarget, VerifyExisting, OpenStaged, StagedExists,
       WriteBytes, SyncAndClose, CheckStaged, Replace, Unlink, TryAgain, PublisherDies,
       PowerLoss, files, storeVars
  <2>2. FileOf = IF target = Nothing THEN "absent" ELSE "whole"
    BY <1>2 DEF StoreInv, TargetIsDurable, FileOf
  <2>3. FileOf' = IF target' = Nothing THEN "absent" ELSE "whole"
    BY <1>2 DEF StoreInv, TargetIsDurable, FileOf
  <2> QED
    BY <2>1, <2>2, <2>3
<1>3. StoreInv /\ StoreInv' /\ [StoreNext]_storeVars =>
          [FileOf = "absent" /\ FileOf' = "whole"]_FileOf
  BY <1>2
<1> QED
  BY <1>1, <1>3, StoreInvariance, PTL DEF StoreSpec

-----------------------------------------------------------------------------
(***************************************************************************)
(* The reconciler, for any artifacts, processes, batch limit and faults.   *)
(* The inductive invariant says of a batch what Outbox's says of its own:  *)
(* claims are counted, exclusive and made under a row lock; and beyond     *)
(* that, that the reason to give an artifact up does not go away between   *)
(* the read and the statement.                                             *)
(***************************************************************************)

\* A process at a statement has the row it read in hand.
CurrentInHand ==
    \A w \in Workers : pc[w] \in Statements => cur[w] \in Artifacts /\ hand[w][cur[w]] > 0

\* Batches hold staged rows, or rows settled since.
BatchIsStaged ==
    \A w \in Workers, a \in Artifacts : hand[w][a] > 0 => status[a] # "absent"

Settled(a) == status[a] \in {"available", "unavailable"}

\* A settled row has no lease and no lock.
SettledIsFree ==
    \A a \in Artifacts : Settled(a) => claimedBy[a] = NoWorker /\ lockedBy[a] = NoWorker

\* A locked row is staged, and its claim is open.
LocksBelongToClaims ==
    \A a \in Artifacts : lockedBy[a] # NoWorker =>
        pc[lockedBy[a]] = "claim" /\ status[a] = "staged"

\* run_once claims only between batches.
ClaimsFromEmptyHand ==
    \A w \in Workers : pc[w] = "claim" => hand[w] = EmptyHand

\* reconcile_attempts bounds every claim of the row handed out so far.
ClaimsAreCounted ==
    \A w \in Workers, a \in Artifacts : hand[w][a] <= attempts[a]

\* Two processes never hold the same claim of a row.
ClaimsAreExclusive ==
    \A v, w \in Workers, a \in Artifacts :
        hand[v][a] > 0 /\ hand[v][a] = hand[w][a] => v = w

\* Why an artifact may be given up.
Reason(a) == late[a] \/ file[a] = "damaged" \/ ~fits[a]

\* A row staged in time has its bytes, damaged or not.
LateIsNoted ==
    \A a \in Artifacts : status[a] # "absent" => late[a] \/ file[a] # "absent"

\* A process about to give a row up has a reason, and keeps it.
ReasonIsKept ==
    \A w \in Workers : pc[w] = "unavailable" => Reason(cur[w])

ReconcilerInv ==
    /\ TypeOK
    /\ CurrentInHand
    /\ BatchIsStaged
    /\ SettledIsFree
    /\ LocksBelongToClaims
    /\ ClaimsFromEmptyHand
    /\ ClaimsAreCounted
    /\ ClaimsAreExclusive
    /\ LateIsNoted
    /\ ReasonIsKept
    /\ UnavailableHasReason

\* The rows a claim locks are eligible rows, whatever the order and the limit.
LEMMA CandidatesAreEligible ==
    \A a \in Candidates : a \in Artifacts /\ Eligible(a)
BY DEF Candidates

\* Every step keeps the types of the table, the files and the processes.
LEMMA ReconcilerTypeStep == TypeOK /\ [Next]_vars => TypeOK'
<1> USE ArtifactsAssumption, WorkerAssumption, FaultAssumption DEF Ids, EmptyHand, Statements
<1> SUFFICES ASSUME TypeOK, [Next]_vars PROVE TypeOK'
  OBVIOUS
<1>1. ASSUME NEW a \in Artifacts, BytesPublished(a) \/ Damage(a) PROVE TypeOK'
  BY <1>1 DEF TypeOK, BytesPublished, Damage, table, worker
<1>2. ASSUME NEW a \in Artifacts, Stage(a) PROVE TypeOK'
  BY <1>2 DEF TypeOK, Stage, worker
<1>3. ASSUME NEW w \in Workers, ClaimLock(w) PROVE TypeOK'
  BY <1>3 DEF TypeOK, ClaimLock
<1>4. ASSUME NEW w \in Workers, ClaimCommit(w) PROVE TypeOK'
  <2>1. /\ claimedBy' \in [Artifacts -> Ids \union {NoWorker}]
        /\ fresh' \in [Artifacts -> BOOLEAN]
        /\ attempts' \in [Artifacts -> Nat]
        /\ lockedBy' \in [Artifacts -> Workers \union {NoWorker}]
        /\ verdict' \in [Artifacts -> Statements \union {"none"}]
    BY <1>4 DEF TypeOK, ClaimCommit
  <2>2. hand' \in [Workers -> [Artifacts -> Nat]]
    BY <1>4 DEF TypeOK, ClaimCommit
  <2>3. pc' \in [Workers -> {"ready", "claim"} \union Statements]
    BY <1>4 DEF TypeOK, ClaimCommit
  <2> QED
    BY <1>4, <2>1, <2>2, <2>3 DEF TypeOK, ClaimCommit
<1>5. ASSUME NEW w \in Workers, NEW a \in Artifacts, Read(w, a) \/ ReadError(w, a)
      PROVE TypeOK'
  <2>1. PICK statement \in Statements : ReadAs(w, a, statement)
    BY <1>5 DEF Read, ReadError, AfterRead, AfterError
  <2>2. faults' \in 0..MaxFaults
    BY <1>5 DEF Read, ReadError, TypeOK
  <2> QED
    BY <2>1, <2>2 DEF TypeOK, ReadAs, table
<1>6. ASSUME NEW w \in Workers, Finalize(w) \/ GiveUp(w) \/ Retry(w) PROVE TypeOK'
  <2>1. Settle(w) /\ Unlease(cur[w])
    BY <1>6 DEF Finalize, GiveUp, Retry
  <2>2. status' \in [Artifacts -> {"absent", "staged", "available", "unavailable"}]
        /\ due' \in [Artifacts -> BOOLEAN]
    BY <1>6 DEF Finalize, GiveUp, Retry, TypeOK
  <2>3. hand' \in [Workers -> [Artifacts -> Nat]]
    BY <2>1 DEF Settle, TypeOK
  <2> QED
    BY <2>1, <2>2, <2>3 DEF TypeOK, Settle, Unlease
<1>7. ASSUME NEW w \in Workers, Abort(w) \/ Crash(w) PROVE TypeOK'
  <2>1. Drop(w)
    BY <1>7 DEF Abort, Crash
  <2>2. faults' \in 0..MaxFaults /\ lockedBy' \in [Artifacts -> Workers \union {NoWorker}]
    BY <1>7 DEF Abort, Crash, TypeOK
  <2> QED
    BY <2>1, <2>2 DEF TypeOK, Drop
<1>8. ASSUME NEW a \in Artifacts, LeaseLapse(a) \/ LeaseExpiry(a) \/ BackoffEnds(a)
      PROVE TypeOK'
  <2>1. faults' \in 0..MaxFaults
    BY <1>8 DEF TypeOK, LeaseLapse, LeaseExpiry, BackoffEnds
  <2>2. LeaseEnds(a) \/ BackoffEnds(a)
    BY <1>8 DEF LeaseLapse, LeaseExpiry
  <2> QED
    BY <2>1, <2>2 DEF TypeOK, LeaseEnds, BackoffEnds, worker
<1>9. CASE UNCHANGED vars
  BY <1>9 DEF TypeOK, vars, table, worker
<1> QED
  BY <1>1, <1>2, <1>3, <1>4, <1>5, <1>6, <1>7, <1>8, <1>9 DEF Next, RunOnce

-----------------------------------------------------------------------------
\* Every step keeps the inductive invariant of the reconciler.
LEMMA ReconcilerStep == ReconcilerInv /\ [Next]_vars => ReconcilerInv'
<1> USE WorkerAssumption DEF EmptyHand, Statements
<1> SUFFICES ASSUME ReconcilerInv, [Next]_vars PROVE ReconcilerInv'
  OBVIOUS
<1>t. TypeOK /\ TypeOK'
  BY ReconcilerTypeStep DEF ReconcilerInv
<1> USE <1>t DEF ReconcilerInv, TypeOK
<1>1. ASSUME NEW a \in Artifacts, BytesPublished(a) \/ Damage(a) PROVE ReconcilerInv'
  <2>1. CurrentInHand'
    BY <1>1 DEF BytesPublished, Damage, table, worker, CurrentInHand
  <2>2. BatchIsStaged'
    BY <1>1 DEF BytesPublished, Damage, table, worker, BatchIsStaged
  <2>3. SettledIsFree'
    BY <1>1 DEF BytesPublished, Damage, table, worker, SettledIsFree, Settled
  <2>4. LocksBelongToClaims'
    BY <1>1 DEF BytesPublished, Damage, table, worker, LocksBelongToClaims
  <2>5. ClaimsFromEmptyHand'
    BY <1>1 DEF BytesPublished, Damage, table, worker, ClaimsFromEmptyHand
  <2>6. ClaimsAreCounted'
    BY <1>1 DEF BytesPublished, Damage, table, worker, ClaimsAreCounted
  <2>7. ClaimsAreExclusive'
    BY <1>1 DEF BytesPublished, Damage, table, worker, ClaimsAreExclusive
  <2>8. LateIsNoted'
    BY <1>1 DEF BytesPublished, Damage, table, worker, LateIsNoted
  <2>9. ReasonIsKept'
    BY <1>1 DEF BytesPublished, Damage, table, worker, ReasonIsKept, Reason, CurrentInHand
  <2>10. UnavailableHasReason'
    BY <1>1 DEF BytesPublished, Damage, table, worker, UnavailableHasReason, Reason
  <2> QED
    BY <2>1, <2>2, <2>3, <2>4, <2>5, <2>6, <2>7, <2>8, <2>9, <2>10
<1>2. ASSUME NEW a \in Artifacts, Stage(a) PROVE ReconcilerInv'
  <2>1. CurrentInHand'
    BY <1>2 DEF Stage, worker, CurrentInHand
  <2>2. BatchIsStaged'
    BY <1>2 DEF Stage, worker, BatchIsStaged
  <2>3. SettledIsFree'
    BY <1>2 DEF Stage, worker, SettledIsFree, Settled
  <2>4. LocksBelongToClaims'
    BY <1>2 DEF Stage, worker, LocksBelongToClaims
  <2>5. ClaimsFromEmptyHand'
    BY <1>2 DEF Stage, worker, ClaimsFromEmptyHand
  <2>6. ClaimsAreCounted'
    BY <1>2 DEF Stage, worker, ClaimsAreCounted
  <2>7. ClaimsAreExclusive'
    BY <1>2 DEF Stage, worker, ClaimsAreExclusive
  <2>8. LateIsNoted'
    BY <1>2 DEF Stage, worker, LateIsNoted
  <2>9. ReasonIsKept'
    BY <1>2 DEF Stage, worker, ReasonIsKept, Reason, CurrentInHand, BatchIsStaged
  <2>10. UnavailableHasReason'
    BY <1>2 DEF Stage, worker, UnavailableHasReason, Reason
  <2> QED
    BY <2>1, <2>2, <2>3, <2>4, <2>5, <2>6, <2>7, <2>8, <2>9, <2>10
<1>3. ASSUME NEW w \in Workers, ClaimLock(w) PROVE ReconcilerInv'
  <2>1. CurrentInHand'
    BY <1>3, CandidatesAreEligible DEF ClaimLock, Eligible, CurrentInHand
  <2>2. BatchIsStaged'
    BY <1>3, CandidatesAreEligible DEF ClaimLock, Eligible, BatchIsStaged
  <2>3. SettledIsFree'
    BY <1>3, CandidatesAreEligible DEF ClaimLock, Eligible, SettledIsFree, Settled
  <2>4. LocksBelongToClaims'
    BY <1>3, CandidatesAreEligible DEF ClaimLock, Eligible, LocksBelongToClaims
  <2>5. ClaimsFromEmptyHand'
    BY <1>3, CandidatesAreEligible DEF ClaimLock, Eligible, ClaimsFromEmptyHand
  <2>6. ClaimsAreCounted'
    BY <1>3, CandidatesAreEligible DEF ClaimLock, Eligible, ClaimsAreCounted
  <2>7. ClaimsAreExclusive'
    BY <1>3, CandidatesAreEligible DEF ClaimLock, Eligible, ClaimsAreExclusive
  <2>8. LateIsNoted'
    BY <1>3, CandidatesAreEligible DEF ClaimLock, Eligible, LateIsNoted
  <2>9. ReasonIsKept'
    BY <1>3, CandidatesAreEligible DEF ClaimLock, Eligible, ReasonIsKept, Reason
  <2>10. UnavailableHasReason'
    BY <1>3, CandidatesAreEligible DEF ClaimLock, Eligible, UnavailableHasReason, Reason
  <2> QED
    BY <2>1, <2>2, <2>3, <2>4, <2>5, <2>6, <2>7, <2>8, <2>9, <2>10
<1>4. ASSUME NEW w \in Workers, ClaimCommit(w) PROVE ReconcilerInv'
  <2>1. CurrentInHand'
    BY <1>4 DEF ClaimCommit, CurrentInHand
  <2>2. BatchIsStaged'
    BY <1>4 DEF ClaimCommit, BatchIsStaged, LocksBelongToClaims
  <2>3. SettledIsFree'
    BY <1>4 DEF ClaimCommit, SettledIsFree, Settled
  <2>4. LocksBelongToClaims'
    BY <1>4 DEF ClaimCommit, LocksBelongToClaims
  <2>5. ClaimsFromEmptyHand'
    BY <1>4 DEF ClaimCommit, ClaimsFromEmptyHand
  <2>6. ClaimsAreCounted'
    BY <1>4 DEF ClaimCommit, ClaimsAreCounted
  <2>7. ClaimsAreExclusive'
    BY <1>4 DEF ClaimCommit, ClaimsAreExclusive, ClaimsAreCounted
  <2>8. LateIsNoted'
    BY <1>4 DEF ClaimCommit, LateIsNoted
  <2>9. ReasonIsKept'
    BY <1>4 DEF ClaimCommit, ReasonIsKept, Reason
  <2>10. UnavailableHasReason'
    BY <1>4 DEF ClaimCommit, UnavailableHasReason, Reason
  <2> QED
    BY <2>1, <2>2, <2>3, <2>4, <2>5, <2>6, <2>7, <2>8, <2>9, <2>10
<1>5. ASSUME NEW w \in Workers, NEW a \in Artifacts, Read(w, a) \/ ReadError(w, a)
      PROVE ReconcilerInv'
  <2>1. PICK statement \in Statements : ReadAs(w, a, statement)
    BY <1>5 DEF Read, ReadError, AfterRead, AfterError
  <2>2. statement = "unavailable" => Reason(a)
    BY <1>5, <2>1 DEF Read, ReadError, ReadAs, AfterRead, AfterError, BatchIsStaged, LateIsNoted, Reason
  <2>3. CurrentInHand'
    BY <2>1, <2>2 DEF ReadAs, table, CurrentInHand
  <2>4. BatchIsStaged'
    BY <2>1, <2>2 DEF ReadAs, table, BatchIsStaged
  <2>5. SettledIsFree'
    BY <2>1, <2>2 DEF ReadAs, table, SettledIsFree, Settled
  <2>6. LocksBelongToClaims'
    BY <2>1, <2>2 DEF ReadAs, table, LocksBelongToClaims
  <2>7. ClaimsFromEmptyHand'
    BY <2>1, <2>2 DEF ReadAs, table, ClaimsFromEmptyHand
  <2>8. ClaimsAreCounted'
    BY <2>1, <2>2 DEF ReadAs, table, ClaimsAreCounted
  <2>9. ClaimsAreExclusive'
    BY <2>1, <2>2 DEF ReadAs, table, ClaimsAreExclusive
  <2>10. LateIsNoted'
    BY <2>1, <2>2 DEF ReadAs, table, LateIsNoted
  <2>11. ReasonIsKept'
    BY <2>1, <2>2 DEF ReadAs, table, ReasonIsKept, Reason
  <2>12. UnavailableHasReason'
    BY <2>1, <2>2 DEF ReadAs, table, UnavailableHasReason, Reason
  <2> QED
    BY <2>3, <2>4, <2>5, <2>6, <2>7, <2>8, <2>9, <2>10, <2>11, <2>12
<1>6. ASSUME NEW w \in Workers, Finalize(w) \/ GiveUp(w) \/ Retry(w) PROVE ReconcilerInv'
  <2>1. Settle(w) /\ Unlease(cur[w]) /\ cur[w] \in Artifacts /\ status[cur[w]] = "staged"
        /\ pc[w] \in Statements /\ lockedBy[cur[w]] = NoWorker
    BY <1>6 DEF Finalize, GiveUp, Retry, AtStatement, Owns, CurrentInHand
  <2>2. /\ \A a \in Artifacts : a # cur[w] => status'[a] = status[a]
        /\ status'[cur[w]] # "absent"
        /\ status'[cur[w]] = "unavailable" => pc[w] = "unavailable"
    BY <1>6, <2>1 DEF Finalize, GiveUp, Retry, AtStatement
  <2>3. \A v \in Workers, a \in Artifacts :
           hand'[v][a] = IF v = w /\ a = cur[w] THEN 0 ELSE hand[v][a]
    BY <2>1 DEF Settle
  <2>4. CurrentInHand'
    BY <2>1, <2>2, <2>3 DEF Settle, Unlease, CurrentInHand
  <2>5. BatchIsStaged'
    BY <2>1, <2>2, <2>3 DEF Settle, Unlease, BatchIsStaged
  <2>6. SettledIsFree'
    BY <2>1, <2>2, <2>3 DEF Settle, Unlease, SettledIsFree, Settled
  <2>7. LocksBelongToClaims'
    BY <2>1, <2>2, <2>3 DEF Settle, Unlease, LocksBelongToClaims
  <2>8. ClaimsFromEmptyHand'
    BY <2>1, <2>2, <2>3 DEF Settle, Unlease, ClaimsFromEmptyHand
  <2>9. ClaimsAreCounted'
    BY <2>1, <2>2, <2>3 DEF Settle, Unlease, ClaimsAreCounted
  <2>10. ClaimsAreExclusive'
    BY <2>1, <2>2, <2>3 DEF Settle, Unlease, ClaimsAreExclusive
  <2>11. LateIsNoted'
    BY <2>1, <2>2, <2>3 DEF Settle, Unlease, LateIsNoted
  <2>12. ReasonIsKept'
    BY <2>1, <2>2, <2>3 DEF Settle, Unlease, ReasonIsKept, Reason
  <2>13. UnavailableHasReason'
    BY <2>1, <2>2, <2>3 DEF Settle, Unlease, UnavailableHasReason, Reason, ReasonIsKept
  <2> QED
    BY <2>4, <2>5, <2>6, <2>7, <2>8, <2>9, <2>10, <2>11, <2>12, <2>13
<1>7. ASSUME NEW w \in Workers, Abort(w) \/ Crash(w) PROVE ReconcilerInv'
  <2>1. Drop(w)
    BY <1>7 DEF Abort, Crash
  <2>2. \A a \in Artifacts : /\ lockedBy'[a] # NoWorker => lockedBy'[a] = lockedBy[a] /\ lockedBy[a] # w
                             /\ lockedBy[a] = NoWorker => lockedBy'[a] = NoWorker
    BY <1>7 DEF Abort, Crash, AtStatement, LocksBelongToClaims
  <2>3. CurrentInHand'
    BY <1>7, <2>1, <2>2 DEF Drop, CurrentInHand
  <2>4. BatchIsStaged'
    BY <1>7, <2>1, <2>2 DEF Drop, BatchIsStaged
  <2>5. SettledIsFree'
    BY <1>7, <2>1, <2>2 DEF Drop, SettledIsFree, Settled
  <2>6. LocksBelongToClaims'
    BY <1>7, <2>1, <2>2 DEF Drop, LocksBelongToClaims
  <2>7. ClaimsFromEmptyHand'
    BY <1>7, <2>1, <2>2 DEF Drop, ClaimsFromEmptyHand
  <2>8. ClaimsAreCounted'
    BY <1>7, <2>1, <2>2 DEF Drop, ClaimsAreCounted
  <2>9. ClaimsAreExclusive'
    BY <1>7, <2>1, <2>2 DEF Drop, ClaimsAreExclusive
  <2>10. LateIsNoted'
    BY <1>7, <2>1, <2>2 DEF Drop, LateIsNoted
  <2>11. ReasonIsKept'
    BY <1>7, <2>1, <2>2 DEF Drop, ReasonIsKept, Reason
  <2>12. UnavailableHasReason'
    BY <1>7, <2>1, <2>2 DEF Drop, UnavailableHasReason, Reason
  <2> QED
    BY <2>3, <2>4, <2>5, <2>6, <2>7, <2>8, <2>9, <2>10, <2>11, <2>12
<1>8. ASSUME NEW a \in Artifacts, LeaseLapse(a) \/ LeaseExpiry(a) \/ BackoffEnds(a)
      PROVE ReconcilerInv'
  <2>1. CurrentInHand'
    BY <1>8 DEF LeaseLapse, LeaseExpiry, LeaseEnds, BackoffEnds, worker, CurrentInHand
  <2>2. BatchIsStaged'
    BY <1>8 DEF LeaseLapse, LeaseExpiry, LeaseEnds, BackoffEnds, worker, BatchIsStaged
  <2>3. SettledIsFree'
    BY <1>8 DEF LeaseLapse, LeaseExpiry, LeaseEnds, BackoffEnds, worker, SettledIsFree, Settled
  <2>4. LocksBelongToClaims'
    BY <1>8 DEF LeaseLapse, LeaseExpiry, LeaseEnds, BackoffEnds, worker, LocksBelongToClaims
  <2>5. ClaimsFromEmptyHand'
    BY <1>8 DEF LeaseLapse, LeaseExpiry, LeaseEnds, BackoffEnds, worker, ClaimsFromEmptyHand
  <2>6. ClaimsAreCounted'
    BY <1>8 DEF LeaseLapse, LeaseExpiry, LeaseEnds, BackoffEnds, worker, ClaimsAreCounted
  <2>7. ClaimsAreExclusive'
    BY <1>8 DEF LeaseLapse, LeaseExpiry, LeaseEnds, BackoffEnds, worker, ClaimsAreExclusive
  <2>8. LateIsNoted'
    BY <1>8 DEF LeaseLapse, LeaseExpiry, LeaseEnds, BackoffEnds, worker, LateIsNoted
  <2>9. ReasonIsKept'
    BY <1>8 DEF LeaseLapse, LeaseExpiry, LeaseEnds, BackoffEnds, worker, ReasonIsKept, Reason
  <2>10. UnavailableHasReason'
    BY <1>8 DEF LeaseLapse, LeaseExpiry, LeaseEnds, BackoffEnds, worker, UnavailableHasReason, Reason
  <2> QED
    BY <2>1, <2>2, <2>3, <2>4, <2>5, <2>6, <2>7, <2>8, <2>9, <2>10
<1>9. CASE UNCHANGED vars
  BY <1>9 DEF vars, table, worker, CurrentInHand, BatchIsStaged, SettledIsFree, Settled,
     LocksBelongToClaims, ClaimsFromEmptyHand, ClaimsAreCounted, ClaimsAreExclusive,
     LateIsNoted, ReasonIsKept, UnavailableHasReason, Reason
<1> QED
  BY <1>1, <1>2, <1>3, <1>4, <1>5, <1>6, <1>7, <1>8, <1>9 DEF Next, RunOnce

\* The inductive invariant holds in every reachable state.
THEOREM ReconcilerInvariance == Spec => []ReconcilerInv
<1>1. Init => ReconcilerInv
  BY WorkerAssumption, FaultAssumption
  DEF Init, ReconcilerInv, TypeOK, Ids, EmptyHand, Statements,
      CurrentInHand, BatchIsStaged, SettledIsFree, Settled, LocksBelongToClaims,
      ClaimsFromEmptyHand, ClaimsAreCounted, ClaimsAreExclusive, LateIsNoted,
      ReasonIsKept, UnavailableHasReason
<1> QED
  BY <1>1, ReconcilerStep, PTL DEF Spec

\* Type correctness of the reconciler.
THEOREM ReconcilerTypeCorrect == Spec => []TypeOK
<1>1. ReconcilerInv => TypeOK
  BY DEF ReconcilerInv
<1> QED
  BY <1>1, ReconcilerInvariance, PTL

\* No storage error, crash or late worker costs an artifact: whatever is given
\* up was staged without its bytes, or damaged, or has a wrong length.
THEOREM GivenUpForAReason == Spec => []UnavailableHasReason
<1>1. ReconcilerInv => UnavailableHasReason
  BY DEF ReconcilerInv
<1> QED
  BY <1>1, ReconcilerInvariance, PTL

\* A verdict is final, and the row it settled is never leased again.
THEOREM VerdictsStay == Spec => VerdictIsFinal
<1> DEFINE Kept == \A a \in Artifacts : status[a] \in {"available", "unavailable"} =>
          /\ status'[a] = status[a]
          /\ claimedBy'[a] = NoWorker
          /\ attempts'[a] = attempts[a]
<1>1. ReconcilerInv /\ [Next]_vars => Kept
  <2> SUFFICES ASSUME ReconcilerInv, [Next]_vars,
                      NEW b \in Artifacts, status[b] \in {"available", "unavailable"}
               PROVE  status'[b] = status[b] /\ claimedBy'[b] = NoWorker /\ attempts'[b] = attempts[b]
    OBVIOUS
  <2>0. claimedBy[b] = NoWorker /\ lockedBy[b] = NoWorker
    BY DEF ReconcilerInv, SettledIsFree, Settled
  <2> USE <2>0, WorkerAssumption DEF ReconcilerInv, TypeOK
  <2> DEFINE Same == status'[b] = status[b] /\ claimedBy'[b] = NoWorker /\ attempts'[b] = attempts[b]
  <2>1. ASSUME NEW w \in Workers, ClaimLock(w) \/ ClaimCommit(w) \/ Abort(w) \/ Crash(w)
        PROVE  Same
    BY <2>1 DEF ClaimLock, ClaimCommit, Abort, Crash, Drop
  <2>2. ASSUME NEW w \in Workers, NEW a \in Artifacts, Read(w, a) \/ ReadError(w, a)
        PROVE  Same
    BY <2>2 DEF Read, ReadError, ReadAs, table
  <2>3. ASSUME NEW w \in Workers, Finalize(w) \/ GiveUp(w) \/ Retry(w) PROVE Same
    <3>1. cur[w] # b
      BY <2>3 DEF Finalize, GiveUp, Retry, Owns
    <3> QED
      BY <2>3, <3>1 DEF Finalize, GiveUp, Retry, Unlease, Settle
  <2>4. ASSUME NEW a \in Artifacts,
               \/ BytesPublished(a) \/ Stage(a) \/ Damage(a)
               \/ LeaseLapse(a) \/ LeaseExpiry(a) \/ BackoffEnds(a)
        PROVE  Same
    BY <2>4 DEF BytesPublished, Stage, Damage, LeaseLapse, LeaseExpiry, LeaseEnds,
       BackoffEnds, table
  <2>5. CASE UNCHANGED vars
    BY <2>5 DEF vars, table
  <2> QED
    BY <2>1, <2>2, <2>3, <2>4, <2>5 DEF Next, RunOnce
<1>2. ReconcilerInv /\ [Next]_vars => [Kept]_vars
  BY <1>1
<1> QED
  BY <1>2, ReconcilerInvariance, PTL DEF Spec, VerdictIsFinal

-----------------------------------------------------------------------------
\* No two processes run with the same worker_id.
DistinctIds == \A v, w \in Workers : WorkerId[v] = WorkerId[w] => v = w

\* reconcile_claimed_by names a process only while its claim is the latest.
LeaseIsLatestClaim ==
    \A w \in Workers, a \in Artifacts :
        claimedBy[a] = WorkerId[w] /\ hand[w][a] > 0 => hand[w][a] = attempts[a]

\* What the latest claimer is about to do is what it read.
VerdictIsRecorded ==
    \A w \in Workers : pc[w] \in Statements /\ hand[w][cur[w]] = attempts[cur[w]] =>
        verdict[cur[w]] = pc[w]

\* Only an earlier claimer can still hold a settled row.
LatestClaimIsOver ==
    \A w \in Workers, a \in Artifacts :
        Settled(a) /\ hand[w][a] > 0 => hand[w][a] # attempts[a]

VerdictInv ==
    /\ LeaseIsLatestClaim
    /\ VerdictIsRecorded
    /\ LatestClaimIsOver
    /\ VerdictIsOfLatestClaim

\* With distinct worker ids a claimer whose lease was taken over can neither
\* settle the row nor change the verdict recorded for it.
LEMMA VerdictStep ==
    ASSUME DistinctIds, ReconcilerInv, VerdictInv, [Next]_vars
    PROVE  VerdictInv'
<1>t. TypeOK /\ TypeOK'
  BY ReconcilerTypeStep DEF ReconcilerInv
<1> USE <1>t, WorkerAssumption DEF ReconcilerInv, VerdictInv, TypeOK, Statements, EmptyHand
<1>1. ASSUME NEW w \in Workers, ClaimCommit(w) PROVE VerdictInv'
  <2>1. hand[w] = EmptyHand /\ \A a \in Artifacts : lockedBy[a] = w => status[a] = "staged"
    BY <1>1 DEF ClaimCommit, ClaimsFromEmptyHand, LocksBelongToClaims
  <2>2. LeaseIsLatestClaim'
    BY <1>1 DEF ClaimCommit, LeaseIsLatestClaim, DistinctIds
  <2>3. VerdictIsRecorded'
    BY <1>1 DEF ClaimCommit, VerdictIsRecorded, CurrentInHand, ClaimsAreCounted
  <2>4. LatestClaimIsOver'
    BY <1>1, <2>1 DEF ClaimCommit, LatestClaimIsOver, Settled, ClaimsAreCounted
  <2>5. VerdictIsOfLatestClaim'
    BY <1>1, <2>1 DEF ClaimCommit, VerdictIsOfLatestClaim
  <2> QED
    BY <2>2, <2>3, <2>4, <2>5
<1>2. ASSUME NEW w \in Workers, ClaimLock(w) \/ Abort(w) \/ Crash(w) PROVE VerdictInv'
  <2>1. LeaseIsLatestClaim'
    BY <1>2 DEF ClaimLock, Abort, Crash, Drop, LeaseIsLatestClaim
  <2>2. /\ status' = status /\ attempts' = attempts /\ verdict' = verdict
        /\ \A v \in Workers : v # w => pc'[v] = pc[v] /\ cur'[v] = cur[v] /\ hand'[v] = hand[v]
        /\ pc'[w] = "claim" \/ pc'[w] = "ready"
    BY <1>2 DEF ClaimLock, Abort, Crash, Drop
  <2>3. \A a \in Artifacts : hand'[w][a] = 0
    BY <1>2 DEF ClaimLock, Abort, Crash, Drop
  <2>4. VerdictIsRecorded'
    BY <2>2 DEF VerdictIsRecorded
  <2>5. LatestClaimIsOver'
    <3> SUFFICES ASSUME NEW v \in Workers, NEW a \in Artifacts, Settled(a)', hand'[v][a] > 0
                 PROVE  hand'[v][a] # attempts'[a]
      BY DEF LatestClaimIsOver
    <3>1. v # w
      BY <2>3
    <3> QED
      BY <2>2, <3>1 DEF LatestClaimIsOver, Settled
  <2>6. VerdictIsOfLatestClaim'
    BY <1>2 DEF ClaimLock, Abort, Crash, Drop, VerdictIsOfLatestClaim
  <2> QED
    BY <2>1, <2>4, <2>5, <2>6
<1>3. ASSUME NEW w \in Workers, NEW a \in Artifacts, Read(w, a) \/ ReadError(w, a)
      PROVE  VerdictInv'
  <2>1. PICK statement \in Statements : ReadAs(w, a, statement)
    BY <1>3 DEF Read, ReadError, AfterRead, AfterError
  <2>2. LeaseIsLatestClaim'
    BY <2>1 DEF ReadAs, table, LeaseIsLatestClaim
  <2>3. VerdictIsRecorded'
    BY <2>1 DEF ReadAs, table, VerdictIsRecorded, CurrentInHand, ClaimsAreExclusive
  <2>4. LatestClaimIsOver'
    BY <2>1 DEF ReadAs, table, LatestClaimIsOver, Settled
  <2>5. VerdictIsOfLatestClaim'
    BY <2>1 DEF ReadAs, table, VerdictIsOfLatestClaim, LatestClaimIsOver, Settled
  <2> QED
    BY <2>2, <2>3, <2>4, <2>5
<1>4. ASSUME NEW w \in Workers, Finalize(w) \/ GiveUp(w) \/ Retry(w) PROVE VerdictInv'
  <2>1. /\ Settle(w) /\ Unlease(cur[w]) /\ Owns(w, cur[w])
        /\ cur[w] \in Artifacts /\ hand[w][cur[w]] > 0 /\ pc[w] \in Statements
    BY <1>4 DEF Finalize, GiveUp, Retry, AtStatement, CurrentInHand
  <2>2. hand[w][cur[w]] = attempts[cur[w]] /\ verdict[cur[w]] = pc[w]
    BY <2>1 DEF Owns, LeaseIsLatestClaim, VerdictIsRecorded
  <2>3. /\ \A a \in Artifacts : a # cur[w] => status'[a] = status[a]
        /\ status'[cur[w]] = "available" => pc[w] = "finalize"
        /\ status'[cur[w]] = "unavailable" => pc[w] = "unavailable"
    BY <1>4, <2>1 DEF Finalize, GiveUp, Retry, AtStatement, Owns
  <2>4. \A v \in Workers, a \in Artifacts :
           hand'[v][a] = IF v = w /\ a = cur[w] THEN 0 ELSE hand[v][a]
    BY <2>1 DEF Settle
  <2>5. LeaseIsLatestClaim'
    BY <2>1, <2>4 DEF Settle, Unlease, LeaseIsLatestClaim
  <2>6. VerdictIsRecorded'
    BY <2>1, <2>4 DEF Settle, VerdictIsRecorded
  <2>7. LatestClaimIsOver'
    BY <2>1, <2>2, <2>3, <2>4 DEF Settle, LatestClaimIsOver, Settled, ClaimsAreExclusive
  <2>8. VerdictIsOfLatestClaim'
    BY <2>1, <2>2, <2>3 DEF Settle, VerdictIsOfLatestClaim
  <2> QED
    BY <2>5, <2>6, <2>7, <2>8
<1>5. ASSUME NEW a \in Artifacts,
             \/ BytesPublished(a) \/ Stage(a) \/ Damage(a)
             \/ LeaseLapse(a) \/ LeaseExpiry(a) \/ BackoffEnds(a)
      PROVE  VerdictInv'
  <2>1. /\ UNCHANGED <<claimedBy, attempts, pc, hand, cur, verdict>>
        /\ \A b \in Artifacts : status'[b] # status[b] => status'[b] = "staged"
    BY <1>5 DEF BytesPublished, Stage, Damage, LeaseLapse, LeaseExpiry, LeaseEnds,
       BackoffEnds, table, worker
  <2> QED
    BY <2>1 DEF LeaseIsLatestClaim, VerdictIsRecorded, LatestClaimIsOver, Settled,
       VerdictIsOfLatestClaim
<1>6. CASE UNCHANGED vars
  BY <1>6 DEF vars, table, worker, LeaseIsLatestClaim, VerdictIsRecorded,
     LatestClaimIsOver, Settled, VerdictIsOfLatestClaim
<1> QED
  BY <1>1, <1>2, <1>3, <1>4, <1>5, <1>6 DEF Next, RunOnce

\* With distinct worker ids the status a row ends with is what its latest
\* claimer read.
THEOREM LatestClaimDecides == ASSUME DistinctIds PROVE Spec => []VerdictIsOfLatestClaim
<1>1. Init => VerdictInv
  BY DEF Init, VerdictInv, EmptyHand, Statements, LeaseIsLatestClaim, VerdictIsRecorded,
     LatestClaimIsOver, Settled, VerdictIsOfLatestClaim
<1>2. ReconcilerInv /\ VerdictInv /\ [Next]_vars => VerdictInv'
  BY VerdictStep
<1>3. VerdictInv => VerdictIsOfLatestClaim
  BY DEF VerdictInv
<1> QED
  BY <1>1, <1>2, <1>3, ReconcilerInvariance, PTL DEF Spec
=============================================================================
