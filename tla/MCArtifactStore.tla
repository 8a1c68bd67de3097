-------------------------- MODULE MCArtifactStore --------------------------
(* Publishers in processes of their own, and threads of one process. *)
EXTENDS ArtifactStore

OwnPid == [c \in Publishers |-> c]
OnePid == [c \in Publishers |-> 1]
=============================================================================
