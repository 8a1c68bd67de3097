----------------------------- MODULE MCWorkflow -----------------------------
(* Small instances of the workflow for TLC. *)
EXTENDS Workflow

Call(n, approver) == [run |-> n, approver |-> approver]

\* Two calls, of different approvers, compete for one run.
Competing == {Call("run1", "alice"), Call("run1", "bob")}
Single    == {Call("run1", "alice")}
=============================================================================
