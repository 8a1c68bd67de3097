------------------------ MODULE IdempotentRegistry ------------------------
(***************************************************************************)
(* What create_run promises its callers: an idempotency key is bound to    *)
(* the first request that succeeds under it; every caller of that request  *)
(* is then told the same run, and every other request under the key is     *)
(* refused.  A call takes effect in a single step.                         *)
(***************************************************************************)
CONSTANTS
    Callers,
    Requests,
    Keys,
    KeyOf,      \* the idempotency key of each request
    RunOf,      \* the run each request names
    Nothing

VARIABLES
    bound,      \* the request each key is bound to
    asked,      \* the request of each caller
    told        \* the run a caller was told, "refused", or Nothing yet

vars == <<bound, asked, told>>

Init ==
    /\ bound = [k \in Keys |-> Nothing]
    /\ asked = [c \in Callers |-> Nothing]
    /\ told = [c \in Callers |-> Nothing]

Ask(c, r) ==
    /\ asked[c] = Nothing
    /\ asked' = [asked EXCEPT ![c] = r]
    /\ UNCHANGED <<bound, told>>

\* The first request under a free key is bound to it and served.
Serve(c) ==
    LET r == asked[c] IN
    /\ r # Nothing
    /\ told[c] = Nothing
    /\ bound[KeyOf[r]] \in {Nothing, r}
    /\ bound' = [bound EXCEPT ![KeyOf[r]] = r]
    /\ told' = [told EXCEPT ![c] = RunOf[r]]
    /\ UNCHANGED asked

Refuse(c) ==
    LET r == asked[c] IN
    /\ r # Nothing
    /\ told[c] = Nothing
    /\ bound[KeyOf[r]] \notin {Nothing, r}
    /\ told' = [told EXCEPT ![c] = "refused"]
    /\ UNCHANGED <<bound, asked>>

\* The answer is lost on its way; the caller will ask the same thing again.
Lose(c) ==
    /\ told[c] # Nothing
    /\ told' = [told EXCEPT ![c] = Nothing]
    /\ UNCHANGED <<bound, asked>>

Next == \E c \in Callers :
    \/ \E r \in Requests : Ask(c, r)
    \/ Serve(c)
    \/ Refuse(c)
    \/ Lose(c)

Spec == Init /\ [][Next]_vars
=============================================================================
