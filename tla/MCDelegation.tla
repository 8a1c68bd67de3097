--------------------------- MODULE MCDelegation ---------------------------
(***************************************************************************)
(* Two runs of two cases and root grants of depth 2.  Chain: a child, a    *)
(* second child of the root, a grandchild, a grandchild of the same id     *)
(* that wants more than its parent has, and a child that reuses the id of  *)
(* the first with another document.  Refused: children that expand one     *)
(* dimension, a child of a tampered root, a child claimed for another run  *)
(* and so waiting for a parent of the first, and a child of the other run  *)
(* that races for the grant id of the first.                               *)
(***************************************************************************)
EXTENDS Delegation

MCScopeOf == [n \in Runs |-> IF n = "run1" THEN "case1" ELSE "case2"]

Doc(scope, rights, tools, until, depth) ==
    [scope |-> scope, rights |-> rights, toolCalls |-> tools, modelCalls |-> 1,
     until |-> until, depth |-> depth]

MCRootRow == [g \in Roots |->
    LET n == IF g = "abroad" THEN "run2" ELSE "run1" IN
    [run |-> n, parent |-> Nothing, doc |-> Doc(MCScopeOf[n], {"read", "send"}, 2, 1, 2),
     sealed |-> g # "forged"]]

Call(grant, parent, rights, tools, until, depth) ==
    [grant |-> grant, run |-> "run1", parent |-> parent,
     doc |-> Doc("case1", rights, tools, until, depth)]
Abroad(call) == [call EXCEPT !.run = "run2", !.doc.scope = "case2"]

Child      == Call("child", "root", {"read"}, 1, 1, 1)
Sibling    == Call("sibling", "root", {"send"}, 2, 1, 1)
GrandChild == Call("grandchild", "child", {"read"}, 1, 1, 0)
WideChild  == Call("grandchild", "child", {"read", "send"}, 1, 1, 0)
LongChild  == Call("long", "root", {"read"}, 1, 2, 1)
DeepChild  == Call("deep", "child", {"read"}, 1, 1, 1)
Collision  == Call("child", "root", {"send"}, 1, 1, 1)
Unsealed   == Call("unsealed", "forged", {"read"}, 1, 1, 1)
OtherRun   == Abroad([Child EXCEPT !.grant = "other"])
Rival      == Abroad([Child EXCEPT !.parent = "abroad"])

Chain      == {Child, Sibling, GrandChild, WideChild, Collision}
Refused    == {Child, LongChild, DeepChild, OtherRun, Rival, Unsealed}
=============================================================================
