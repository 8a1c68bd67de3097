------------------------------- MODULE Outbox -------------------------------
(***************************************************************************)
(* The transactional outbox of the control plane: the table `outbox`       *)
(* (migrations/0001), the lease statements of PostgresStore                *)
(* (claim_outbox, complete_outbox, retry_outbox) and the worker loop       *)
(* OutboxWorker.run_once that drains it into a sink.                       *)
(*                                                                         *)
(* Time is abstract.  A row remembers only whether its lease is younger    *)
(* than 60 seconds (fresh) and whether available_at has passed (due); the  *)
(* clock may move past either boundary between any two steps.              *)
(*                                                                         *)
(* Every statement that runs alone in its transaction is one action.  The  *)
(* claim holds its row locks until it commits, so it takes two.            *)
(***************************************************************************)
EXTENDS Naturals, FiniteSets

CONSTANTS
    Items,        \* outbox rows, numbered by their (created_at, outbox_id) order
    Workers,      \* processes that run OutboxWorker.run_once in a loop
    WorkerId,     \* the worker_id each process was configured with
    NoWorker,     \* SQL NULL in claimed_by, and "no transaction holds the row"
    Limit,        \* the batch limit of a claim
    MaxFaults     \* bound: crashes, failed publications and lapsed leases

ASSUME ItemsAssumption == Items \subseteq Nat /\ NoWorker \notin Items
ASSUME WorkerAssumption == /\ NoWorker \notin Workers
                           /\ \A w \in Workers : WorkerId[w] # NoWorker
ASSUME LimitAssumption == Limit \in 1..500
ASSUME FaultAssumption == MaxFaults \in Nat

VARIABLES
    \* the table
    row,          \* "absent", "pending" (published_at NULL) or "published"
    claimedBy,    \* claimed_by
    fresh,        \* claimed_at is set and at most 60 seconds old
    due,          \* available_at <= clock_timestamp()
    attempts,     \* attempts
    lockedBy,     \* the claim transaction that holds the row lock
    \* the worker processes
    pc,           \* where the process is in run_once
    hand,         \* rows of the current batch not yet settled, each with the
                  \* attempts value its claim returned; 0: not in the batch
    cur,          \* the row whose publication has just ended
    \* the sink, and the bound
    delivered,    \* how often the sink received the row
    harm,         \* faults that hit the row
    faults        \* faults so far

table  == <<row, claimedBy, fresh, due, attempts, lockedBy>>
worker == <<pc, hand, cur>>
ghosts == <<delivered, harm, faults>>
vars   == <<table, worker, ghosts>>

Ids == {WorkerId[w] : w \in Workers}
EmptyHand == [o \in Items |-> 0]

TableType ==
    /\ row \in [Items -> {"absent", "pending", "published"}]
    /\ claimedBy \in [Items -> Ids \union {NoWorker}]
    /\ fresh \in [Items -> BOOLEAN]
    /\ due \in [Items -> BOOLEAN]
    /\ attempts \in [Items -> Nat]
    /\ lockedBy \in [Items -> Workers \union {NoWorker}]

WorkerType ==
    /\ pc \in [Workers -> {"ready", "claim", "complete", "retry"}]
    /\ hand \in [Workers -> [Items -> Nat]]
    /\ cur \in [Workers -> Items \union {NoWorker}]

GhostType ==
    /\ delivered \in [Items -> Nat]
    /\ harm \in [Items -> Nat]
    /\ faults \in 0..MaxFaults

\* Every variable keeps its type.
TypeOK == TableType /\ WorkerType /\ GhostType

Init ==
    /\ row = [o \in Items |-> "absent"]
    /\ claimedBy = [o \in Items |-> NoWorker]
    /\ fresh = [o \in Items |-> FALSE]
    /\ due = [o \in Items |-> TRUE]
    /\ attempts = [o \in Items |-> 0]
    /\ lockedBy = [o \in Items |-> NoWorker]
    /\ pc = [w \in Workers |-> "ready"]
    /\ hand = [w \in Workers |-> EmptyHand]
    /\ cur = [w \in Workers |-> NoWorker]
    /\ delivered = [o \in Items |-> 0]
    /\ harm = [o \in Items |-> 0]
    /\ faults = 0

-----------------------------------------------------------------------------
\* A store transaction commits a new outbox row.  Rows may commit in another
\* order than their created_at.
Enqueue(o) ==
    /\ row[o] = "absent"
    /\ row' = [row EXCEPT ![o] = "pending"]
    /\ UNCHANGED <<claimedBy, fresh, due, attempts, lockedBy, worker, ghosts>>

\* Mutants of Eligible: no lease test; no lease expiry.
EligibleLeased(o) == row[o] = "pending" /\ due[o] /\ lockedBy[o] = NoWorker
EligibleUnclaimed(o) == EligibleLeased(o) /\ claimedBy[o] = NoWorker

\* The WHERE clause of claim_outbox, on rows SKIP LOCKED does not pass over.
Eligible(o) ==
    /\ row[o] = "pending"
    /\ due[o]
    /\ claimedBy[o] = NoWorker \/ ~fresh[o]
    /\ lockedBy[o] = NoWorker

\* ORDER BY created_at, outbox_id ... LIMIT: the first Limit eligible rows.
Candidates ==
    {o \in Items : /\ Eligible(o)
                   /\ Cardinality({p \in Items : Eligible(p) /\ p < o}) < Limit}

\* A process with an empty batch calls run_once; the claim locks its rows.
ClaimLock(w) ==
    /\ pc[w] = "ready"
    /\ hand[w] = EmptyHand
    /\ Candidates # {}
    /\ lockedBy' = [o \in Items |-> IF o \in Candidates THEN w ELSE lockedBy[o]]
    /\ pc' = [pc EXCEPT ![w] = "claim"]
    /\ UNCHANGED <<row, claimedBy, fresh, due, attempts, hand, cur, ghosts>>

\* SET attempts = attempts + 1.
NextAttempt(o) == attempts[o] + 1

\* The claim writes its leases, commits, and returns the rows as the batch.
ClaimCommit(w) ==
    LET mine(o) == lockedBy[o] = w IN
    /\ pc[w] = "claim"
    /\ claimedBy' = [o \in Items |-> IF mine(o) THEN WorkerId[w] ELSE claimedBy[o]]
    /\ fresh' = [o \in Items |-> mine(o) \/ fresh[o]]
    /\ attempts' = [o \in Items |-> IF mine(o) THEN NextAttempt(o) ELSE attempts[o]]
    /\ hand' = [hand EXCEPT ![w] = [o \in Items |-> IF mine(o) THEN NextAttempt(o) ELSE 0]]
    /\ lockedBy' = [o \in Items |-> IF mine(o) THEN NoWorker ELSE lockedBy[o]]
    /\ pc' = [pc EXCEPT ![w] = "ready"]
    /\ UNCHANGED <<row, due, cur, ghosts>>

\* The loop takes some row of the batch (RETURNING promises no order) and the
\* publish callback returns.
PublishOk(w, o) ==
    /\ pc[w] = "ready"
    /\ hand[w][o] > 0
    /\ pc' = [pc EXCEPT ![w] = "complete"]
    /\ cur' = [cur EXCEPT ![w] = o]
    /\ delivered' = [delivered EXCEPT ![o] = @ + 1]
    /\ UNCHANGED <<table, hand, harm, faults>>

\* The publish callback raises; the sink may or may not have the message.
PublishFail(w, o) ==
    /\ pc[w] = "ready"
    /\ hand[w][o] > 0
    /\ faults < MaxFaults
    /\ pc' = [pc EXCEPT ![w] = "retry"]
    /\ cur' = [cur EXCEPT ![w] = o]
    /\ \E got \in {0, 1} : delivered' = [delivered EXCEPT ![o] = @ + got]
    /\ harm' = [harm EXCEPT ![o] = @ + 1]
    /\ faults' = faults + 1
    /\ UNCHANGED <<table, hand>>

\* The WHERE clause shared by complete_outbox and retry_outbox; the mutant
\* forgets claimed_by.
OwnsAny(w, o) == row[o] = "pending"
Owns(w, o) == claimedBy[o] = WorkerId[w] /\ row[o] = "pending"

\* The UPDATE waits for the row lock of an open claim; the mutant takes either
\* branch whether publish raised or not.
AtEither(w, label) == pc[w] \in {"complete", "retry"} /\ lockedBy[cur[w]] = NoWorker
AtStatement(w, label) == pc[w] = label /\ lockedBy[cur[w]] = NoWorker

\* The settled row leaves the batch and the loop goes on.
Settle(w) ==
    /\ pc' = [pc EXCEPT ![w] = "ready"]
    /\ hand' = [hand EXCEPT ![w][cur[w]] = 0]
    /\ cur' = [cur EXCEPT ![w] = NoWorker]

\* claimed_at = NULL, claimed_by = NULL.
Unlease(o) ==
    /\ claimedBy' = [claimedBy EXCEPT ![o] = NoWorker]
    /\ fresh' = [fresh EXCEPT ![o] = FALSE]

Complete(w) ==
    /\ AtStatement(w, "complete")
    /\ Owns(w, cur[w])
    /\ row' = [row EXCEPT ![cur[w]] = "published"]
    /\ Unlease(cur[w])
    /\ Settle(w)
    /\ UNCHANGED <<due, attempts, lockedBy, ghosts>>

\* run_once's back-off in seconds for the attempts value of the claim.
Delay(n) == LET e == IF n < 10 THEN n ELSE 10
            IN  IF 2^e < 3600 THEN 2^e ELSE 3600

\* The bounds retry_outbox insists on before it opens its transaction.
DelayAccepted(w) == Delay(hand[w][cur[w]]) \in 1..3600

Retry(w) ==
    /\ AtStatement(w, "retry")
    /\ DelayAccepted(w)
    /\ Owns(w, cur[w])
    /\ due' = [due EXCEPT ![cur[w]] = FALSE]
    /\ Unlease(cur[w])
    /\ Settle(w)
    /\ UNCHANGED <<row, attempts, lockedBy, ghosts>>

\* rowcount is 0: the RuntimeError leaves run_once and the batch is dropped.
Abort(w) ==
    /\ AtStatement(w, "complete") \/ AtStatement(w, "retry")
    /\ ~Owns(w, cur[w])
    /\ pc' = [pc EXCEPT ![w] = "ready"]
    /\ hand' = [hand EXCEPT ![w] = EmptyHand]
    /\ cur' = [cur EXCEPT ![w] = NoWorker]
    /\ UNCHANGED <<table, ghosts>>

\* The process dies, or the database refuses its statement: the batch is lost
\* and an open claim is rolled back.
Crash(w) ==
    /\ pc[w] # "ready" \/ hand[w] # EmptyHand
    /\ faults < MaxFaults
    /\ lockedBy' = [o \in Items |-> IF lockedBy[o] = w THEN NoWorker ELSE lockedBy[o]]
    /\ pc' = [pc EXCEPT ![w] = "ready"]
    /\ hand' = [hand EXCEPT ![w] = EmptyHand]
    /\ cur' = [cur EXCEPT ![w] = NoWorker]
    /\ harm' = [o \in Items |-> IF hand[w][o] > 0 THEN harm[o] + 1 ELSE harm[o]]
    /\ faults' = faults + 1
    /\ UNCHANGED <<row, claimedBy, fresh, due, attempts, delivered>>

\* Some process still works on the row under its latest claim.
InProgress(o) == \E w \in Workers : hand[w][o] > 0 /\ hand[w][o] = attempts[o]

\* Sixty seconds pass since the claim.  While the claimer still works on the
\* row this is a fault (a slow publication); otherwise it is only time.
LeaseLapse(o) ==
    /\ fresh[o]
    /\ InProgress(o)
    /\ faults < MaxFaults
    /\ fresh' = [fresh EXCEPT ![o] = FALSE]
    /\ harm' = [harm EXCEPT ![o] = @ + 1]
    /\ faults' = faults + 1
    /\ UNCHANGED <<row, claimedBy, due, attempts, lockedBy, worker, delivered>>

LeaseExpiry(o) ==
    /\ fresh[o]
    /\ ~InProgress(o)
    /\ fresh' = [fresh EXCEPT ![o] = FALSE]
    /\ UNCHANGED <<row, claimedBy, due, attempts, lockedBy, worker, ghosts>>

\* available_at passes.
BackoffEnds(o) ==
    /\ ~due[o]
    /\ due' = [due EXCEPT ![o] = TRUE]
    /\ UNCHANGED <<row, claimedBy, fresh, attempts, lockedBy, worker, ghosts>>

-----------------------------------------------------------------------------
RunOnce(w) ==
    \/ ClaimLock(w)
    \/ ClaimCommit(w)
    \/ \E o \in Items : PublishOk(w, o) \/ PublishFail(w, o)
    \/ Complete(w)
    \/ Retry(w)
    \/ Abort(w)

Next ==
    \/ \E w \in Workers : RunOnce(w) \/ Crash(w)
    \/ \E o \in Items : Enqueue(o) \/ LeaseLapse(o) \/ LeaseExpiry(o) \/ BackoffEnds(o)

Spec == Init /\ [][Next]_vars

\* Worker processes are scheduled, and time passes.
Fairness ==
    /\ \A w \in Workers : WF_vars(RunOnce(w))
    /\ \A o \in Items : WF_vars(LeaseExpiry(o)) /\ WF_vars(BackoffEnds(o))

FairSpec == Spec /\ Fairness

-----------------------------------------------------------------------------
(***************************************************************************)
(* Properties                                                              *)
(***************************************************************************)

\* complete_outbox marks a row published only after the sink received it, even
\* when leases lapse, batches abort and other workers settle the same row.
PublishedWasDelivered ==
    \A o \in Items : row[o] = "published" => delivered[o] > 0

\* The process that a row's unexpired lease was given to.
Holder(o, w) == fresh[o] /\ claimedBy[o] # NoWorker /\ hand[w][o] > 0 /\ hand[w][o] = attempts[o]

\* An unexpired lease with a live holder ends only by its holder settling the
\* row: no late complete or retry of an earlier claimer, and no second claim,
\* takes it away.
LeaseIsRespected ==
    [][\A o \in Items, w \in Workers :
          Holder(o, w) /\ claimedBy'[o] # claimedBy[o] => cur[w] = o /\ cur'[w] # o]_vars

\* Every delivery beyond the first is paid for by a fault that hit that very
\* row: publication is at least once, and exactly once without faults.
DuplicatesNeedFaults ==
    \A o \in Items : delivered[o] <= 1 + harm[o]

\* published is final, and a published row is never leased again.
PublishedIsFinal ==
    [][\A o \in Items : row[o] = "published" =>
          row'[o] = "published" /\ claimedBy'[o] = NoWorker /\ attempts'[o] = attempts[o]]_vars

\* Every committed row is eventually published once faults cease: leases of
\* dead workers expire, back-offs end, and no failing row blocks the others.
EventuallyPublished ==
    \A o \in Items : row[o] = "pending" ~> row[o] = "published"

\* The outbox implements at-least-once delivery: every step of the table, the
\* workers and the sink is a step of AtLeastOnce or changes nothing it shows.
Delivery == INSTANCE AtLeastOnce WITH
    Messages <- Items,
    state <- row,
    sent <- [o \in Items |-> delivered[o] > 0]

ImplementsAtLeastOnce == Delivery!Spec
=============================================================================
