----------------------------- MODULE MCOutbox -----------------------------
(* Small instances of the outbox for TLC. *)
EXTENDS Outbox

OwnIds == [w \in Workers |-> w]                \* every process has its own id

=============================================================================
