------------------------- MODULE MCArtifactReconciler -------------------------
(* Small instances of the artifact reconciler for TLC. *)
EXTENDS ArtifactReconciler

OwnIds == [w \in Workers |-> w]                \* every process has its own id

=============================================================================
