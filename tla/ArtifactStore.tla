--------------------------- MODULE ArtifactStore ---------------------------
(***************************************************************************)
(* LocalArtifactStore.publish, file operation by file operation, under     *)
(* concurrent publishers of the same content.  Artifacts of different      *)
(* digests share no path, so one digest is modelled.                       *)
(*                                                                         *)
(* A path names an inode; a publisher that has opened a staged file keeps  *)
(* writing to its inode whatever happens to the name.  The staged name is  *)
(* made from the digest and the process id.  Directory operations are      *)
(* taken as durable; bytes survive a power loss only after fsync.          *)
(*                                                                         *)
(* The names of the specification begin with Store, so that ArtifactProofs *)
(* can extend this module and ArtifactReconciler together.                 *)
(***************************************************************************)
EXTENDS Naturals

CONSTANTS
    Publishers,   \* threads that call publish
    Pids,
    Pid,          \* the os.getpid() of each publisher
    Inodes,       \* enough for every name and every open handle
    Nothing,      \* no file
    MaxCrashes    \* bound: crashes and power losses

ASSUME PidAssumption == Pid \in [Publishers -> Pids]
ASSUME NothingAssumption == Nothing \notin Inodes
ASSUME CrashAssumption == MaxCrashes \in Nat

VARIABLES
    target,       \* the inode at sha256/xx/<digest>
    staged,       \* the inode at .staging/<digest>.<pid>.tmp, by pid
    whole,        \* inodes that hold all bytes of the content
    synced,       \* inodes whose bytes are on disk
    step,         \* where each publisher is in publish
    handle,       \* the inode a publisher has open
    result,       \* how the try block of a publisher ended
    crashes

files == <<target, staged, whole, synced>>
storeVars == <<files, step, handle, result, crashes>>

Labels == {"start", "exists", "open", "write", "fsync", "check", "replace",
           "finally", "ok", "failed"}

\* Every variable keeps its type.
StoreTypeOK ==
    /\ target \in Inodes \union {Nothing}
    /\ staged \in [Pids -> Inodes \union {Nothing}]
    /\ whole \subseteq Inodes /\ synced \subseteq Inodes
    /\ step \in [Publishers -> Labels]
    /\ handle \in [Publishers -> Inodes \union {Nothing}]
    /\ result \in [Publishers -> {"ok", "failed"}]
    /\ crashes \in 0..MaxCrashes

StoreInit ==
    /\ target = Nothing
    /\ staged = [p \in Pids |-> Nothing]
    /\ whole = {} /\ synced = {}
    /\ step = [c \in Publishers |-> "start"]
    /\ handle = [c \in Publishers |-> Nothing]
    /\ result = [c \in Publishers |-> "failed"]
    /\ crashes = 0

Goto(c, label) == step' = [step EXCEPT ![c] = label]

\* The try block ends.
Finish(c, how) == result' = [result EXCEPT ![c] = how] /\ Goto(c, "finally")

\* The staged name depends on the process id.
NameOf(c) == Pid[c]

Staged(c) == staged[NameOf(c)]

\* A new file gets an inode no name and no handle refers to.
Unused ==
    {i \in Inodes : /\ i # target
                    /\ \A p \in Pids : staged[p] # i
                    /\ \A c \in Publishers : handle[c] # i}

-----------------------------------------------------------------------------
\* if target.exists()
LookForTarget(c) ==
    /\ step[c] = "start"
    /\ Goto(c, IF target = Nothing THEN "open" ELSE "exists")
    /\ UNCHANGED <<files, handle, result, crashes>>

\* The bytes of an existing target are verified, outside the try block.
VerifyExisting(c) ==
    /\ step[c] = "exists"
    /\ Goto(c, IF target \in whole THEN "ok" ELSE "failed")
    /\ UNCHANGED <<files, handle, result, crashes>>

\* staged.open("xb")
OpenStaged(c) ==
    /\ step[c] = "open"
    /\ Staged(c) = Nothing
    /\ \E i \in Unused :
          /\ staged' = [staged EXCEPT ![NameOf(c)] = i]
          /\ handle' = [handle EXCEPT ![c] = i]
          /\ whole' = whole \ {i} /\ synced' = synced \ {i}
    /\ Goto(c, "write")
    /\ UNCHANGED <<target, result, crashes>>

StagedExists(c) ==
    /\ step[c] = "open"
    /\ Staged(c) # Nothing
    /\ Finish(c, "failed")
    /\ UNCHANGED <<files, handle, crashes>>

WriteBytes(c) ==
    /\ step[c] = "write"
    /\ whole' = whole \union {handle[c]}
    /\ Goto(c, "fsync")
    /\ UNCHANGED <<target, staged, synced, handle, result, crashes>>

\* os.fsync; the mutant only flushes.
FlushOnly(c) == UNCHANGED synced
Fsync(c) == synced' = synced \union {handle[c]}

\* os.fsync, and the end of the with block closes the file.
SyncAndClose(c) ==
    /\ step[c] = "fsync"
    /\ Fsync(c)
    /\ handle' = [handle EXCEPT ![c] = Nothing]
    /\ Goto(c, "check")
    /\ UNCHANGED <<target, staged, whole, result, crashes>>

\* The staged name is read back: it may be gone, or another file by now.
CheckStaged(c) ==
    /\ step[c] = "check"
    /\ IF Staged(c) \in whole
       THEN Goto(c, "replace") /\ UNCHANGED result
       ELSE Finish(c, "failed")
    /\ UNCHANGED <<files, handle, crashes>>

RemoveStaged(c) == staged' = [staged EXCEPT ![NameOf(c)] = Nothing]

\* os.replace moves whatever the staged name refers to, then chmod.
Replace(c) ==
    /\ step[c] = "replace"
    /\ IF Staged(c) # Nothing
       THEN /\ target' = Staged(c)
            /\ RemoveStaged(c)
            /\ Finish(c, "ok")
       ELSE Finish(c, "failed") /\ UNCHANGED <<target, staged>>
    /\ UNCHANGED <<whole, synced, handle, crashes>>

\* staged.unlink(missing_ok=True); the mutant leaves the file.
KeepStaged(c) == UNCHANGED staged
UnlinkStaged(c) == RemoveStaged(c)

\* The finally block.
Unlink(c) ==
    /\ step[c] = "finally"
    /\ UnlinkStaged(c)
    /\ Goto(c, result[c])
    /\ UNCHANGED <<target, whole, synced, handle, result, crashes>>

\* The caller of a failed publish tries again.
TryAgain(c) ==
    /\ step[c] = "failed"
    /\ Goto(c, "start")
    /\ UNCHANGED <<files, handle, result, crashes>>

\* A publisher dies inside publish and is restarted with the same pid (the
\* first process of a container); its staged file stays.
PublisherDies(c) ==
    /\ step[c] \notin {"start", "ok", "failed"}
    /\ crashes < MaxCrashes
    /\ handle' = [handle EXCEPT ![c] = Nothing]
    /\ Goto(c, "start")
    /\ crashes' = crashes + 1
    /\ UNCHANGED <<files, result>>

\* The machine loses power: all publishers restart, unsynced bytes are lost.
PowerLoss ==
    /\ crashes < MaxCrashes
    /\ whole' = whole \intersect synced
    /\ handle' = [c \in Publishers |-> Nothing]
    /\ step' = [c \in Publishers |-> "start"]
    /\ crashes' = crashes + 1
    /\ UNCHANGED <<target, staged, synced, result>>

-----------------------------------------------------------------------------
Publish(c) ==
    \/ LookForTarget(c)
    \/ VerifyExisting(c)
    \/ OpenStaged(c)
    \/ StagedExists(c)
    \/ WriteBytes(c)
    \/ SyncAndClose(c)
    \/ CheckStaged(c)
    \/ Replace(c)
    \/ Unlink(c)
    \/ TryAgain(c)

StoreNext == (\E c \in Publishers : Publish(c) \/ PublisherDies(c)) \/ PowerLoss

StoreSpec == StoreInit /\ [][StoreNext]_storeVars

\* Publishers run, and retry a failed publish.
StoreFairSpec == StoreSpec /\ \A c \in Publishers : WF_storeVars(Publish(c))

-----------------------------------------------------------------------------
(***************************************************************************)
(* Properties                                                              *)
(***************************************************************************)

\* Publication is atomic: a reader that finds the target finds all its bytes,
\* at every moment and after every crash or power loss.
TargetIsWhole == target # Nothing => target \in whole

\* Once publish has returned, the artifact stays readable.
PublishedIsReadable ==
    \A c \in Publishers : step[c] = "ok" => target # Nothing /\ target \in whole

\* With process ids of their own, publishers never disturb each other's staged
\* file: only a crash leaves one behind, and nothing else makes publish fail.
FailuresNeedCrashes ==
    crashes = 0 => \A c \in Publishers : step[c] # "failed"

\* Every publisher succeeds in the end, also over a staged file that an
\* earlier crash has left under its own name.
EventuallyPublished == \A c \in Publishers : <>(step[c] = "ok")
=============================================================================
