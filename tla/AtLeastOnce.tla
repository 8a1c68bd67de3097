---------------------------- MODULE AtLeastOnce ----------------------------
(***************************************************************************)
(* What the outbox promises its producers: a message that was committed is *)
(* handed to the sink at least once, is marked published only after that,  *)
(* and is never lost or taken back.  A late duplicate is allowed.          *)
(***************************************************************************)
CONSTANT Messages

VARIABLES
    state,     \* "absent", "pending" or "published"
    sent       \* the sink has received the message

vars == <<state, sent>>

Init ==
    /\ state = [m \in Messages |-> "absent"]
    /\ sent = [m \in Messages |-> FALSE]

Submit(m) ==
    /\ state[m] = "absent"
    /\ state' = [state EXCEPT ![m] = "pending"]
    /\ UNCHANGED sent

Send(m) ==
    /\ state[m] = "pending"
    /\ sent' = [sent EXCEPT ![m] = TRUE]
    /\ UNCHANGED state

Acknowledge(m) ==
    /\ state[m] = "pending"
    /\ sent[m]
    /\ state' = [state EXCEPT ![m] = "published"]
    /\ UNCHANGED sent

Next == \E m \in Messages : Submit(m) \/ Send(m) \/ Acknowledge(m)

Spec == Init /\ [][Next]_vars
=============================================================================
