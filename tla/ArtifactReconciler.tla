-------------------------- MODULE ArtifactReconciler --------------------------
(***************************************************************************)
(* The reconciliation of artifact metadata with artifact bytes: the table  *)
(* `artifacts` (migrations/0001), its lease statements in PostgresStore    *)
(* and the loop ArtifactReconciler.run_once over LocalArtifactStore.read.  *)
(*                                                                         *)
(* A file is only absent, whole or damaged here; how it becomes whole is   *)
(* the subject of ArtifactStore.  Time, leases and row locks are abstract  *)
(* in the way they are in Outbox.                                          *)
(***************************************************************************)
EXTENDS Naturals, FiniteSets

CONSTANTS
    Artifacts,    \* digests, numbered by their (created_at, digest) order
    Workers,      \* processes that run ArtifactReconciler.run_once in a loop
    WorkerId,     \* the worker_id each process was configured with
    NoWorker,     \* SQL NULL in reconcile_claimed_by, and "the row is not locked"
    Limit,        \* the batch limit of a claim
    MaxFaults     \* bound: crashes, storage errors, damages and lapsed leases

ASSUME ArtifactsAssumption == Artifacts \subseteq Nat /\ NoWorker \notin Artifacts
ASSUME WorkerAssumption == /\ NoWorker \notin Workers
                           /\ \A w \in Workers : WorkerId[w] # NoWorker
ASSUME LimitAssumption == Limit \in 1..500
ASSUME FaultAssumption == MaxFaults \in Nat

VARIABLES
    \* the table
    status,       \* "absent" (no row), "staged", "available" or "unavailable"
    fits,         \* byte_length is the length of the bytes with this digest
    claimedBy,    \* reconcile_claimed_by
    fresh,        \* reconcile_claimed_at is set and at most 60 seconds old
    due,          \* reconcile_available_at <= clock_timestamp()
    attempts,     \* reconcile_attempts
    lockedBy,     \* the claim transaction that holds the row lock
    \* the file system
    file,         \* "absent", "whole" or "damaged"
    \* the worker processes
    pc,           \* "ready", "claim", or the statement that follows a read
    hand,         \* rows of the batch not yet settled, with the attempts value
                  \* of their claim; 0: not in the batch
    cur,          \* the row that was read last
    \* history, and the bound
    verdict,      \* what the latest claim of the row read
    late,         \* the row was staged before its bytes were published
    faults        \* faults so far

table  == <<status, fits, claimedBy, fresh, due, attempts, lockedBy>>
worker == <<pc, hand, cur>>
vars   == <<table, file, worker, verdict, late, faults>>

Ids == {WorkerId[w] : w \in Workers}
EmptyHand == [a \in Artifacts |-> 0]
Statements == {"finalize", "unavailable", "retry"}

\* Every variable keeps its type.
TypeOK ==
    /\ status \in [Artifacts -> {"absent", "staged", "available", "unavailable"}]
    /\ fits \in [Artifacts -> BOOLEAN]
    /\ claimedBy \in [Artifacts -> Ids \union {NoWorker}]
    /\ fresh \in [Artifacts -> BOOLEAN]
    /\ due \in [Artifacts -> BOOLEAN]
    /\ attempts \in [Artifacts -> Nat]
    /\ lockedBy \in [Artifacts -> Workers \union {NoWorker}]
    /\ file \in [Artifacts -> {"absent", "whole", "damaged"}]
    /\ pc \in [Workers -> {"ready", "claim"} \union Statements]
    /\ hand \in [Workers -> [Artifacts -> Nat]]
    /\ cur \in [Workers -> Artifacts \union {NoWorker}]
    /\ verdict \in [Artifacts -> Statements \union {"none"}]
    /\ late \in [Artifacts -> BOOLEAN]
    /\ faults \in 0..MaxFaults

Init ==
    /\ status = [a \in Artifacts |-> "absent"]
    /\ fits \in [Artifacts -> BOOLEAN]
    /\ claimedBy = [a \in Artifacts |-> NoWorker]
    /\ fresh = [a \in Artifacts |-> FALSE]
    /\ due = [a \in Artifacts |-> TRUE]
    /\ attempts = [a \in Artifacts |-> 0]
    /\ lockedBy = [a \in Artifacts |-> NoWorker]
    /\ file = [a \in Artifacts |-> "absent"]
    /\ pc = [w \in Workers |-> "ready"]
    /\ hand = [w \in Workers |-> EmptyHand]
    /\ cur = [w \in Workers |-> NoWorker]
    /\ verdict = [a \in Artifacts |-> "none"]
    /\ late = [a \in Artifacts |-> FALSE]
    /\ faults = 0

-----------------------------------------------------------------------------
\* LocalArtifactStore.publish of the bytes.  Over a damaged file it raises.
BytesPublished(a) ==
    /\ file[a] = "absent"
    /\ file' = [file EXCEPT ![a] = "whole"]
    /\ UNCHANGED <<table, worker, verdict, late, faults>>

\* stage_artifact inserts the row, before or after the bytes exist.
Stage(a) ==
    /\ status[a] = "absent"
    /\ status' = [status EXCEPT ![a] = "staged"]
    /\ late' = [late EXCEPT ![a] = file[a] = "absent"]
    /\ UNCHANGED <<fits, claimedBy, fresh, due, attempts, lockedBy, file, worker, verdict, faults>>

\* Mutants of Eligible: settled rows too; no lease expiry.
EligibleSettled(a) == status[a] # "absent" /\ due[a] /\ ~fresh[a] /\ lockedBy[a] = NoWorker
EligibleUnclaimed(a) ==
    status[a] = "staged" /\ due[a] /\ claimedBy[a] = NoWorker /\ lockedBy[a] = NoWorker

\* The WHERE clause of claim_artifacts, on rows SKIP LOCKED does not pass over.
Eligible(a) ==
    /\ status[a] = "staged"
    /\ due[a]
    /\ claimedBy[a] = NoWorker \/ ~fresh[a]
    /\ lockedBy[a] = NoWorker

\* ORDER BY created_at, digest ... LIMIT.
Candidates ==
    {a \in Artifacts : /\ Eligible(a)
                       /\ Cardinality({b \in Artifacts : Eligible(b) /\ b < a}) < Limit}

\* A process with an empty batch calls run_once; the claim locks its rows.
ClaimLock(w) ==
    /\ pc[w] = "ready"
    /\ hand[w] = EmptyHand
    /\ Candidates # {}
    /\ lockedBy' = [a \in Artifacts |-> IF a \in Candidates THEN w ELSE lockedBy[a]]
    /\ pc' = [pc EXCEPT ![w] = "claim"]
    /\ UNCHANGED <<status, fits, claimedBy, fresh, due, attempts, file, hand, cur, verdict, late, faults>>

\* The claim writes its leases, commits, and returns the rows as the batch.
ClaimCommit(w) ==
    LET mine(a) == lockedBy[a] = w IN
    /\ pc[w] = "claim"
    /\ claimedBy' = [a \in Artifacts |-> IF mine(a) THEN WorkerId[w] ELSE claimedBy[a]]
    /\ fresh' = [a \in Artifacts |-> mine(a) \/ fresh[a]]
    /\ attempts' = [a \in Artifacts |-> IF mine(a) THEN attempts[a] + 1 ELSE attempts[a]]
    /\ hand' = [hand EXCEPT ![w] = [a \in Artifacts |-> IF mine(a) THEN attempts[a] + 1 ELSE 0]]
    /\ lockedBy' = [a \in Artifacts |-> IF mine(a) THEN NoWorker ELSE lockedBy[a]]
    /\ verdict' = [a \in Artifacts |-> IF mine(a) THEN "none" ELSE verdict[a]]
    /\ pc' = [pc EXCEPT ![w] = "ready"]
    /\ UNCHANGED <<status, fits, due, file, cur, late, faults>>

\* What run_once does after artifacts.read returned or raised for the file as
\* it is.
AfterRead(a) == IF file[a] = "whole" /\ fits[a] THEN "finalize" ELSE "unavailable"

\* What it does after another OSError; the mutant handles all of them as
\* FileNotFoundError.
AfterErrorGivesUp == "unavailable"
AfterError == "retry"

\* The loop takes some row of the batch and reads its bytes.
ReadAs(w, a, statement) ==
    /\ pc[w] = "ready"
    /\ hand[w][a] > 0
    /\ pc' = [pc EXCEPT ![w] = statement]
    /\ cur' = [cur EXCEPT ![w] = a]
    /\ verdict' = IF hand[w][a] = attempts[a]
                    THEN [verdict EXCEPT ![a] = statement] ELSE verdict
    /\ UNCHANGED <<table, file, hand, late>>

Read(w, a) ==
    /\ ReadAs(w, a, AfterRead(a))
    /\ UNCHANGED faults

\* The storage fails with an OSError other than FileNotFoundError.
ReadError(w, a) ==
    /\ faults < MaxFaults
    /\ ReadAs(w, a, AfterError)
    /\ faults' = faults + 1

\* The WHERE clause of the three statements that settle a claim, once no open
\* claim locks the row; the mutant forgets reconcile_claimed_by.
OwnsAny(w, a) == status[a] = "staged"
Owns(w, a) == claimedBy[a] = WorkerId[w] /\ status[a] = "staged"

AtStatement(w, label) == pc[w] = label /\ lockedBy[cur[w]] = NoWorker

\* reconcile_claimed_by = NULL, reconcile_claimed_at = NULL.
Unlease(a) ==
    /\ claimedBy' = [claimedBy EXCEPT ![a] = NoWorker]
    /\ fresh' = [fresh EXCEPT ![a] = FALSE]

\* The settled row leaves the batch and the loop goes on.
Settle(w) ==
    /\ pc' = [pc EXCEPT ![w] = "ready"]
    /\ hand' = [hand EXCEPT ![w][cur[w]] = 0]
    /\ cur' = [cur EXCEPT ![w] = NoWorker]
    /\ UNCHANGED <<fits, attempts, lockedBy, file, verdict, late, faults>>

Finalize(w) ==
    /\ AtStatement(w, "finalize")
    /\ Owns(w, cur[w])
    /\ status' = [status EXCEPT ![cur[w]] = "available"]
    /\ Unlease(cur[w])
    /\ Settle(w)
    /\ UNCHANGED due

GiveUp(w) ==
    /\ AtStatement(w, "unavailable")
    /\ Owns(w, cur[w])
    /\ status' = [status EXCEPT ![cur[w]] = "unavailable"]
    /\ Unlease(cur[w])
    /\ Settle(w)
    /\ UNCHANGED due

\* The back-off is 2^min(attempts, 10) seconds, within retry_artifact's 1..3600.
Retry(w) ==
    /\ AtStatement(w, "retry")
    /\ Owns(w, cur[w])
    /\ due' = [due EXCEPT ![cur[w]] = FALSE]
    /\ Unlease(cur[w])
    /\ Settle(w)
    /\ UNCHANGED status

\* The batch and its claims are forgotten by the process, not by the table.
Drop(w) ==
    /\ pc' = [pc EXCEPT ![w] = "ready"]
    /\ hand' = [hand EXCEPT ![w] = EmptyHand]
    /\ cur' = [cur EXCEPT ![w] = NoWorker]
    /\ UNCHANGED <<status, fits, claimedBy, fresh, due, attempts, file, verdict, late>>

\* rowcount is 0: the RuntimeError leaves run_once, also from inside the
\* except clauses.
Abort(w) ==
    /\ \E label \in Statements : AtStatement(w, label)
    /\ ~Owns(w, cur[w])
    /\ Drop(w)
    /\ UNCHANGED <<lockedBy, faults>>

\* The process dies, or the database refuses its statement.
Crash(w) ==
    /\ pc[w] # "ready" \/ hand[w] # EmptyHand
    /\ faults < MaxFaults
    /\ Drop(w)
    /\ lockedBy' = [a \in Artifacts |-> IF lockedBy[a] = w THEN NoWorker ELSE lockedBy[a]]
    /\ faults' = faults + 1

\* The published bytes are lost to the medium.
Damage(a) ==
    /\ file[a] = "whole"
    /\ faults < MaxFaults
    /\ file' = [file EXCEPT ![a] = "damaged"]
    /\ faults' = faults + 1
    /\ UNCHANGED <<table, worker, verdict, late>>

\* Some process still works on the row under its latest claim.
InProgress(a) == \E w \in Workers : hand[w][a] > 0 /\ hand[w][a] = attempts[a]

\* Sixty seconds pass since the claim: a fault while the claimer still works
\* on the row (a slow read), only time otherwise.
LeaseEnds(a) ==
    /\ fresh[a]
    /\ fresh' = [fresh EXCEPT ![a] = FALSE]
    /\ UNCHANGED <<status, fits, claimedBy, due, attempts, lockedBy, file, worker, verdict, late>>

LeaseLapse(a) == InProgress(a) /\ faults < MaxFaults /\ LeaseEnds(a) /\ faults' = faults + 1
LeaseExpiry(a) == ~InProgress(a) /\ LeaseEnds(a) /\ UNCHANGED faults

\* reconcile_available_at passes.
BackoffEnds(a) ==
    /\ ~due[a]
    /\ due' = [due EXCEPT ![a] = TRUE]
    /\ UNCHANGED <<status, fits, claimedBy, fresh, attempts, lockedBy, file, worker, verdict, late, faults>>

-----------------------------------------------------------------------------
RunOnce(w) ==
    \/ ClaimLock(w)
    \/ ClaimCommit(w)
    \/ \E a \in Artifacts : Read(w, a) \/ ReadError(w, a)
    \/ Finalize(w)
    \/ GiveUp(w)
    \/ Retry(w)
    \/ Abort(w)

Next ==
    \/ \E w \in Workers : RunOnce(w) \/ Crash(w)
    \/ \E a \in Artifacts : \/ BytesPublished(a) \/ Stage(a) \/ Damage(a)
                            \/ LeaseLapse(a) \/ LeaseExpiry(a) \/ BackoffEnds(a)

Spec == Init /\ [][Next]_vars

\* Worker processes are scheduled, and time passes.
Fairness ==
    /\ \A w \in Workers : WF_vars(RunOnce(w))
    /\ \A a \in Artifacts : WF_vars(LeaseExpiry(a)) /\ WF_vars(BackoffEnds(a))

FairSpec == Spec /\ Fairness

-----------------------------------------------------------------------------
(***************************************************************************)
(* Properties                                                              *)
(***************************************************************************)

\* The status a row ends with is what its latest claimer read: finalize and
\* unavailable of a claimer whose lease was taken over never decide.
VerdictIsOfLatestClaim ==
    \A a \in Artifacts :
        /\ status[a] = "available" => verdict[a] = "finalize"
        /\ status[a] = "unavailable" => verdict[a] = "unavailable"

\* An artifact is given up only for one of three reasons: its bytes were not
\* there when the row was staged, they were damaged, or byte_length is wrong.
\* Storage errors, crashes and late workers never cost an artifact.
UnavailableHasReason ==
    \A a \in Artifacts :
        status[a] = "unavailable" => late[a] \/ file[a] = "damaged" \/ ~fits[a]

\* available and unavailable are final, and such a row is never leased again.
VerdictIsFinal ==
    [][\A a \in Artifacts : status[a] \in {"available", "unavailable"} =>
          /\ status'[a] = status[a]
          /\ claimedBy'[a] = NoWorker
          /\ attempts'[a] = attempts[a]]_vars

\* Once faults cease every staged row gets its verdict: leases of dead workers
\* expire and no unreadable artifact blocks the others.
EventuallySettled ==
    \A a \in Artifacts :
        status[a] = "staged" ~> status[a] \in {"available", "unavailable"}
=============================================================================
