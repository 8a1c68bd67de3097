---------------------------- MODULE MCRunRecords ----------------------------
(***************************************************************************)
(* Two runs of two cases.  Activities: a batch of two, a rival batch, a    *)
(* continuation, one whose second record is chained to the rival, one that *)
(* is not sealed, one of another scope.  Effects: an acknowledged receipt, *)
(* the same receipt with another reconciliation, another receipt under     *)
(* the same id, a reconciliation bound to a different receipt, and a pair  *)
(* of the other run that reuses the receipt id.                            *)
(***************************************************************************)
EXTENDS RunRecords

MCScopeOf == [n \in Runs |-> IF n = "run1" THEN "case1" ELSE "case2"]

Activity(id, sequence, previous) ==
    [kind |-> "activity", id |-> id, run |-> "run1", scope |-> "case1", sealed |-> TRUE,
     sequence |-> sequence, previous |-> previous]
Batch(documents) == [kind |-> "activities", run |-> "run1", documents |-> documents]

a0 == Activity("a0", 0, {})
a1 == Activity("a1", 1, {a0})
a2 == Activity("a2", 2, {a1})
b0 == Activity("b0", 0, {})
b1 == Activity("b1", 1, {b0})
x1 == Activity("x1", 1, {b0})
u1 == [Activity("u1", 1, {a0}) EXCEPT !.sealed = FALSE]

First        == Batch(<<a0, a1>>)
Rival        == Batch(<<b0, b1>>)
Continuation == Batch(<<a2>>)
Spliced      == Batch(<<a0, x1>>)
Unsealed     == Batch(<<a0, u1>>)
OtherScope   == Batch(<<[b0 EXCEPT !.id = "s0", !.scope = "case2"]>>)

Receipt(run, scope, status) ==
    [kind |-> "receipt", id |-> "r", run |-> run, scope |-> scope, sealed |-> TRUE,
     status |-> status]
Reconciliation(id, receipt, status) ==
    [kind |-> "reconciliation", id |-> id, run |-> receipt.run, scope |-> receipt.scope,
     sealed |-> TRUE, receiptId |-> receipt.id, receipt |-> receipt, status |-> status]
Pair(receipt, reconciliation) ==
    [kind |-> "effects", run |-> receipt.run, documents |-> <<receipt, reconciliation>>]

Acknowledged == Receipt("run1", "case1", "not_observed")
Unknown      == Receipt("run1", "case1", "unknown")
Foreign      == Receipt("run2", "case2", "not_observed")

Observed   == Pair(Acknowledged, Reconciliation("c", Acknowledged, "succeeded"))
Unobserved == Pair(Acknowledged, Reconciliation("c", Acknowledged, "unknown"))
OtherTry   == Pair(Unknown, Reconciliation("e", Unknown, "succeeded"))
Unbound    == Pair(Acknowledged, Reconciliation("f", Unknown, "succeeded"))
OtherRun   == Pair(Foreign, Reconciliation("g", Foreign, "succeeded"))

Everything == {First, Rival, Continuation, Spliced, Unsealed, OtherScope,
               Observed, Unobserved, OtherTry, Unbound, OtherRun}
=============================================================================
