--------------------------- MODULE OutboxProofs ---------------------------
(***************************************************************************)
(* Proofs about the outbox for any number of rows, processes and faults.   *)
(* The inductive invariant IInv adds to the properties what ties a process *)
(* to the table: its batch holds claims of committed rows, row locks       *)
(* belong to open claims, and attempts bounds every claim handed out.      *)
(***************************************************************************)
EXTENDS Outbox, FiniteSetTheorems, TLAPS

\* A process at a statement of the loop body has its current row in hand.
CurrentInHand ==
    \A w \in Workers : pc[w] \in {"complete", "retry"} =>
        cur[w] \in Items /\ hand[w][cur[w]] > 0

\* complete_outbox is only called for a row the sink has received.
SentBeforeComplete ==
    \A w \in Workers : pc[w] = "complete" => delivered[cur[w]] > 0

\* Batches hold committed rows only.
BatchIsCommitted ==
    \A w \in Workers, o \in Items : hand[w][o] > 0 => row[o] # "absent"

\* A published row has no lease and no lock, and the sink has it.
PublishedIsSettled ==
    \A o \in Items : row[o] = "published" =>
        claimedBy[o] = NoWorker /\ lockedBy[o] = NoWorker /\ delivered[o] > 0

\* A locked row is pending and without a live lease, and its claim is open.
LocksBelongToClaims ==
    \A o \in Items : lockedBy[o] # NoWorker =>
        /\ pc[lockedBy[o]] = "claim"
        /\ row[o] = "pending"
        /\ claimedBy[o] = NoWorker \/ ~fresh[o]

\* run_once claims only between batches.
ClaimsFromEmptyHand ==
    \A w \in Workers : pc[w] = "claim" => hand[w] = EmptyHand

\* attempts bounds every claim of the row handed out so far.
ClaimsAreCounted ==
    \A w \in Workers, o \in Items : hand[w][o] <= attempts[o]

\* Two processes never hold the same claim of a row: the row lock makes the
\* attempts value a fencing token.
ClaimsAreExclusive ==
    \A v, w \in Workers, o \in Items :
        hand[v][o] > 0 /\ hand[v][o] = hand[w][o] => v = w

IInv ==
    /\ TypeOK
    /\ CurrentInHand
    /\ SentBeforeComplete
    /\ BatchIsCommitted
    /\ PublishedIsSettled
    /\ LocksBelongToClaims
    /\ ClaimsFromEmptyHand
    /\ ClaimsAreCounted
    /\ ClaimsAreExclusive

-----------------------------------------------------------------------------
\* The rows a claim locks are eligible rows, whatever the order and the limit.
LEMMA CandidatesAreEligible ==
    \A o \in Candidates : o \in Items /\ Eligible(o)
BY DEF Candidates

\* Every step keeps the types of the table, the processes and the counters.
LEMMA TypeStep == TypeOK /\ [Next]_vars => TypeOK'
<1> USE ItemsAssumption, WorkerAssumption, FaultAssumption DEF Ids, EmptyHand, NextAttempt
<1> SUFFICES ASSUME TypeOK, [Next]_vars PROVE TypeOK'
  OBVIOUS
<1> USE DEF TypeOK
<1>1. ASSUME NEW o \in Items, Enqueue(o) PROVE TypeOK'
  <2>1. TableType'
    BY <1>1 DEF Enqueue, worker, ghosts, TableType
  <2>2. WorkerType'
    BY <1>1 DEF Enqueue, worker, ghosts, WorkerType
  <2>3. GhostType'
    BY <1>1 DEF Enqueue, worker, ghosts, GhostType
  <2> QED
    BY <2>1, <2>2, <2>3
<1>2. ASSUME NEW w \in Workers, ClaimLock(w) PROVE TypeOK'
  <2>1. TableType'
    BY <1>2 DEF ClaimLock, ghosts, TableType
  <2>2. WorkerType'
    BY <1>2 DEF ClaimLock, ghosts, WorkerType
  <2>3. GhostType'
    BY <1>2 DEF ClaimLock, ghosts, GhostType
  <2> QED
    BY <2>1, <2>2, <2>3
<1>3. ASSUME NEW w \in Workers, ClaimCommit(w) PROVE TypeOK'
  <2>1. TableType'
    BY <1>3 DEF ClaimCommit, ghosts, TableType
  <2>2. WorkerType'
    BY <1>3 DEF ClaimCommit, ghosts, WorkerType, TableType
  <2>3. GhostType'
    BY <1>3 DEF ClaimCommit, ghosts, GhostType
  <2> QED
    BY <2>1, <2>2, <2>3
<1>4. ASSUME NEW w \in Workers, NEW o \in Items, PublishOk(w, o) PROVE TypeOK'
  <2>1. TableType'
    BY <1>4 DEF PublishOk, table, TableType
  <2>2. WorkerType'
    BY <1>4 DEF PublishOk, table, WorkerType
  <2>3. GhostType'
    BY <1>4 DEF PublishOk, table, GhostType
  <2> QED
    BY <2>1, <2>2, <2>3
<1>5. ASSUME NEW w \in Workers, NEW o \in Items, PublishFail(w, o) PROVE TypeOK'
  <2>1. TableType'
    BY <1>5 DEF PublishFail, table, TableType
  <2>2. WorkerType'
    BY <1>5 DEF PublishFail, table, WorkerType
  <2>3. GhostType'
    <3>1. PICK got \in {0, 1} : delivered' = [delivered EXCEPT ![o] = @ + got]
      BY <1>5 DEF PublishFail
    <3>2. (delivered \in [Items -> Nat])'
      BY <3>1 DEF GhostType
    <3>3. faults < MaxFaults /\ faults' = faults + 1 /\ harm' = [harm EXCEPT ![o] = @ + 1]
      BY <1>5 DEF PublishFail
    <3> QED
      BY <3>2, <3>3 DEF GhostType
  <2> QED
    BY <2>1, <2>2, <2>3
<1>6. ASSUME NEW w \in Workers, Complete(w) PROVE TypeOK'
  <2>1. TableType'
    BY <1>6 DEF Complete, Settle, Unlease, ghosts, TableType
  <2>2. WorkerType'
    BY <1>6 DEF Complete, Settle, Unlease, ghosts, WorkerType
  <2>3. GhostType'
    BY <1>6 DEF Complete, Settle, Unlease, ghosts, GhostType
  <2> QED
    BY <2>1, <2>2, <2>3
<1>7. ASSUME NEW w \in Workers, Retry(w) PROVE TypeOK'
  <2>1. TableType'
    BY <1>7 DEF Retry, Settle, Unlease, ghosts, TableType
  <2>2. WorkerType'
    BY <1>7 DEF Retry, Settle, Unlease, ghosts, WorkerType
  <2>3. GhostType'
    BY <1>7 DEF Retry, Settle, Unlease, ghosts, GhostType
  <2> QED
    BY <2>1, <2>2, <2>3
<1>8. ASSUME NEW w \in Workers, Abort(w) PROVE TypeOK'
  <2>1. TableType'
    BY <1>8 DEF Abort, table, ghosts, TableType
  <2>2. WorkerType'
    BY <1>8 DEF Abort, table, ghosts, WorkerType
  <2>3. GhostType'
    BY <1>8 DEF Abort, table, ghosts, GhostType
  <2> QED
    BY <2>1, <2>2, <2>3
<1>9. ASSUME NEW w \in Workers, Crash(w) PROVE TypeOK'
  <2>1. TableType'
    BY <1>9 DEF Crash, TableType
  <2>2. WorkerType'
    BY <1>9 DEF Crash, WorkerType
  <2>3. GhostType'
    BY <1>9 DEF Crash, GhostType
  <2> QED
    BY <2>1, <2>2, <2>3
<1>10. ASSUME NEW o \in Items, LeaseLapse(o) PROVE TypeOK'
  <2>1. TableType'
    BY <1>10 DEF LeaseLapse, worker, TableType
  <2>2. WorkerType'
    BY <1>10 DEF LeaseLapse, worker, WorkerType
  <2>3. GhostType'
    BY <1>10 DEF LeaseLapse, worker, GhostType
  <2> QED
    BY <2>1, <2>2, <2>3
<1>11. ASSUME NEW o \in Items, LeaseExpiry(o) PROVE TypeOK'
  <2>1. TableType'
    BY <1>11 DEF LeaseExpiry, worker, ghosts, TableType
  <2>2. WorkerType'
    BY <1>11 DEF LeaseExpiry, worker, ghosts, WorkerType
  <2>3. GhostType'
    BY <1>11 DEF LeaseExpiry, worker, ghosts, GhostType
  <2> QED
    BY <2>1, <2>2, <2>3
<1>12. ASSUME NEW o \in Items, BackoffEnds(o) PROVE TypeOK'
  <2>1. TableType'
    BY <1>12 DEF BackoffEnds, worker, ghosts, TableType
  <2>2. WorkerType'
    BY <1>12 DEF BackoffEnds, worker, ghosts, WorkerType
  <2>3. GhostType'
    BY <1>12 DEF BackoffEnds, worker, ghosts, GhostType
  <2> QED
    BY <2>1, <2>2, <2>3
<1>13. CASE UNCHANGED vars
  BY <1>13 DEF vars, table, worker, ghosts, TableType, WorkerType, GhostType
<1> QED
  BY <1>1, <1>2, <1>3, <1>4, <1>5, <1>6, <1>7, <1>8, <1>9, <1>10, <1>11, <1>12, <1>13
  DEF Next, RunOnce

\* Type correctness for any rows, processes, limit and number of faults.
THEOREM TypeCorrect == Spec => []TypeOK
<1>1. Init => TypeOK
  BY WorkerAssumption, FaultAssumption
  DEF Init, TypeOK, TableType, WorkerType, GhostType, Ids, EmptyHand
<1> QED
  BY <1>1, TypeStep, PTL DEF Spec

-----------------------------------------------------------------------------
\* Every step keeps the inductive invariant.
LEMMA IInvStep == IInv /\ [Next]_vars => IInv'
<1> USE WorkerAssumption DEF EmptyHand, NextAttempt
<1> SUFFICES ASSUME IInv, [Next]_vars PROVE IInv'
  OBVIOUS
<1>t. TypeOK /\ TypeOK'
  BY TypeStep DEF IInv
<1> USE <1>t DEF IInv, TypeOK, TableType, WorkerType, GhostType
<1>1. ASSUME NEW o \in Items, Enqueue(o) PROVE IInv'
  <2>1. CurrentInHand'
    BY <1>1 DEF Enqueue, worker, ghosts, CurrentInHand
  <2>2. SentBeforeComplete'
    BY <1>1 DEF Enqueue, worker, ghosts, SentBeforeComplete
  <2>3. BatchIsCommitted'
    BY <1>1 DEF Enqueue, worker, ghosts, BatchIsCommitted
  <2>4. PublishedIsSettled'
    BY <1>1 DEF Enqueue, worker, ghosts, PublishedIsSettled
  <2>5. LocksBelongToClaims'
    BY <1>1 DEF Enqueue, worker, ghosts, LocksBelongToClaims
  <2>6. ClaimsFromEmptyHand'
    BY <1>1 DEF Enqueue, worker, ghosts, ClaimsFromEmptyHand
  <2>7. ClaimsAreCounted'
    BY <1>1 DEF Enqueue, worker, ghosts, ClaimsAreCounted
  <2>8. ClaimsAreExclusive'
    BY <1>1 DEF Enqueue, worker, ghosts, ClaimsAreExclusive
  <2> QED
    BY <2>1, <2>2, <2>3, <2>4, <2>5, <2>6, <2>7, <2>8
<1>2. ASSUME NEW w \in Workers, ClaimLock(w) PROVE IInv'
  <2>1. CurrentInHand'
    BY <1>2, CandidatesAreEligible DEF ClaimLock, ghosts, Eligible, CurrentInHand
  <2>2. SentBeforeComplete'
    BY <1>2, CandidatesAreEligible DEF ClaimLock, ghosts, Eligible, SentBeforeComplete
  <2>3. BatchIsCommitted'
    BY <1>2, CandidatesAreEligible DEF ClaimLock, ghosts, Eligible, BatchIsCommitted
  <2>4. PublishedIsSettled'
    BY <1>2, CandidatesAreEligible DEF ClaimLock, ghosts, Eligible, PublishedIsSettled
  <2>5. LocksBelongToClaims'
    BY <1>2, CandidatesAreEligible DEF ClaimLock, ghosts, Eligible, LocksBelongToClaims
  <2>6. ClaimsFromEmptyHand'
    BY <1>2, CandidatesAreEligible DEF ClaimLock, ghosts, Eligible, ClaimsFromEmptyHand
  <2>7. ClaimsAreCounted'
    BY <1>2, CandidatesAreEligible DEF ClaimLock, ghosts, Eligible, ClaimsAreCounted
  <2>8. ClaimsAreExclusive'
    BY <1>2, CandidatesAreEligible DEF ClaimLock, ghosts, Eligible, ClaimsAreExclusive
  <2> QED
    BY <2>1, <2>2, <2>3, <2>4, <2>5, <2>6, <2>7, <2>8
<1>3. ASSUME NEW w \in Workers, ClaimCommit(w) PROVE IInv'
  <2>1. CurrentInHand'
    BY <1>3 DEF ClaimCommit, ghosts, CurrentInHand
  <2>2. SentBeforeComplete'
    BY <1>3 DEF ClaimCommit, ghosts, SentBeforeComplete
  <2>3. BatchIsCommitted'
    BY <1>3 DEF ClaimCommit, ghosts, BatchIsCommitted, LocksBelongToClaims
  <2>4. PublishedIsSettled'
    BY <1>3 DEF ClaimCommit, ghosts, PublishedIsSettled
  <2>5. LocksBelongToClaims'
    BY <1>3 DEF ClaimCommit, ghosts, LocksBelongToClaims
  <2>6. ClaimsFromEmptyHand'
    BY <1>3 DEF ClaimCommit, ghosts, ClaimsFromEmptyHand
  <2>7. ClaimsAreCounted'
    BY <1>3 DEF ClaimCommit, ghosts, ClaimsAreCounted
  <2>8. ClaimsAreExclusive'
    BY <1>3 DEF ClaimCommit, ghosts, ClaimsAreExclusive, ClaimsAreCounted
  <2> QED
    BY <2>1, <2>2, <2>3, <2>4, <2>5, <2>6, <2>7, <2>8
<1>4. ASSUME NEW w \in Workers, NEW o \in Items, PublishOk(w, o) PROVE IInv'
  <2>1. CurrentInHand'
    BY <1>4 DEF PublishOk, table, CurrentInHand
  <2>2. SentBeforeComplete'
    BY <1>4 DEF PublishOk, table, SentBeforeComplete
  <2>3. BatchIsCommitted'
    BY <1>4 DEF PublishOk, table, BatchIsCommitted
  <2>4. PublishedIsSettled'
    BY <1>4 DEF PublishOk, table, PublishedIsSettled
  <2>5. LocksBelongToClaims'
    BY <1>4 DEF PublishOk, table, LocksBelongToClaims
  <2>6. ClaimsFromEmptyHand'
    BY <1>4 DEF PublishOk, table, ClaimsFromEmptyHand
  <2>7. ClaimsAreCounted'
    BY <1>4 DEF PublishOk, table, ClaimsAreCounted
  <2>8. ClaimsAreExclusive'
    BY <1>4 DEF PublishOk, table, ClaimsAreExclusive
  <2> QED
    BY <2>1, <2>2, <2>3, <2>4, <2>5, <2>6, <2>7, <2>8
<1>5. ASSUME NEW w \in Workers, NEW o \in Items, PublishFail(w, o) PROVE IInv'
  <2>1. CurrentInHand'
    BY <1>5 DEF PublishFail, table, CurrentInHand
  <2>2. SentBeforeComplete'
    BY <1>5 DEF PublishFail, table, SentBeforeComplete
  <2>3. BatchIsCommitted'
    BY <1>5 DEF PublishFail, table, BatchIsCommitted
  <2>4. PublishedIsSettled'
    BY <1>5 DEF PublishFail, table, PublishedIsSettled
  <2>5. LocksBelongToClaims'
    BY <1>5 DEF PublishFail, table, LocksBelongToClaims
  <2>6. ClaimsFromEmptyHand'
    BY <1>5 DEF PublishFail, table, ClaimsFromEmptyHand
  <2>7. ClaimsAreCounted'
    BY <1>5 DEF PublishFail, table, ClaimsAreCounted
  <2>8. ClaimsAreExclusive'
    BY <1>5 DEF PublishFail, table, ClaimsAreExclusive
  <2> QED
    BY <2>1, <2>2, <2>3, <2>4, <2>5, <2>6, <2>7, <2>8
<1>6. ASSUME NEW w \in Workers, Complete(w) PROVE IInv'
  <2>1. CurrentInHand'
    BY <1>6 DEF Complete, AtStatement, Owns, Settle, Unlease, ghosts, CurrentInHand
  <2>2. SentBeforeComplete'
    BY <1>6 DEF Complete, AtStatement, Owns, Settle, Unlease, ghosts, SentBeforeComplete
  <2>3. BatchIsCommitted'
    BY <1>6 DEF Complete, AtStatement, Owns, Settle, Unlease, ghosts, BatchIsCommitted
  <2>4. PublishedIsSettled'
    BY <1>6 DEF Complete, AtStatement, Owns, Settle, Unlease, ghosts, PublishedIsSettled, SentBeforeComplete, CurrentInHand
  <2>5. LocksBelongToClaims'
    BY <1>6 DEF Complete, AtStatement, Owns, Settle, Unlease, ghosts, LocksBelongToClaims
  <2>6. ClaimsFromEmptyHand'
    BY <1>6 DEF Complete, AtStatement, Owns, Settle, Unlease, ghosts, ClaimsFromEmptyHand
  <2>7. ClaimsAreCounted'
    BY <1>6 DEF Complete, AtStatement, Owns, Settle, Unlease, ghosts, ClaimsAreCounted
  <2>8. ClaimsAreExclusive'
    BY <1>6 DEF Complete, AtStatement, Owns, Settle, Unlease, ghosts, ClaimsAreExclusive
  <2> QED
    BY <2>1, <2>2, <2>3, <2>4, <2>5, <2>6, <2>7, <2>8
<1>7. ASSUME NEW w \in Workers, Retry(w) PROVE IInv'
  <2>1. CurrentInHand'
    BY <1>7 DEF Retry, AtStatement, Owns, Settle, Unlease, ghosts, CurrentInHand
  <2>2. SentBeforeComplete'
    BY <1>7 DEF Retry, AtStatement, Owns, Settle, Unlease, ghosts, SentBeforeComplete
  <2>3. BatchIsCommitted'
    BY <1>7 DEF Retry, AtStatement, Owns, Settle, Unlease, ghosts, BatchIsCommitted
  <2>4. PublishedIsSettled'
    BY <1>7 DEF Retry, AtStatement, Owns, Settle, Unlease, ghosts, PublishedIsSettled
  <2>5. LocksBelongToClaims'
    BY <1>7 DEF Retry, AtStatement, Owns, Settle, Unlease, ghosts, LocksBelongToClaims
  <2>6. ClaimsFromEmptyHand'
    BY <1>7 DEF Retry, AtStatement, Owns, Settle, Unlease, ghosts, ClaimsFromEmptyHand
  <2>7. ClaimsAreCounted'
    BY <1>7 DEF Retry, AtStatement, Owns, Settle, Unlease, ghosts, ClaimsAreCounted
  <2>8. ClaimsAreExclusive'
    BY <1>7 DEF Retry, AtStatement, Owns, Settle, Unlease, ghosts, ClaimsAreExclusive
  <2> QED
    BY <2>1, <2>2, <2>3, <2>4, <2>5, <2>6, <2>7, <2>8
<1>8. ASSUME NEW w \in Workers, Abort(w) PROVE IInv'
  <2>1. CurrentInHand'
    BY <1>8 DEF Abort, table, ghosts, CurrentInHand
  <2>2. SentBeforeComplete'
    BY <1>8 DEF Abort, table, ghosts, SentBeforeComplete
  <2>3. BatchIsCommitted'
    BY <1>8 DEF Abort, table, ghosts, BatchIsCommitted
  <2>4. PublishedIsSettled'
    BY <1>8 DEF Abort, table, ghosts, PublishedIsSettled
  <2>5. LocksBelongToClaims'
    BY <1>8 DEF Abort, AtStatement, table, ghosts, LocksBelongToClaims
  <2>6. ClaimsFromEmptyHand'
    BY <1>8 DEF Abort, table, ghosts, ClaimsFromEmptyHand
  <2>7. ClaimsAreCounted'
    BY <1>8 DEF Abort, table, ghosts, ClaimsAreCounted
  <2>8. ClaimsAreExclusive'
    BY <1>8 DEF Abort, table, ghosts, ClaimsAreExclusive
  <2> QED
    BY <2>1, <2>2, <2>3, <2>4, <2>5, <2>6, <2>7, <2>8
<1>9. ASSUME NEW w \in Workers, Crash(w) PROVE IInv'
  <2>1. CurrentInHand'
    BY <1>9 DEF Crash, CurrentInHand
  <2>2. SentBeforeComplete'
    BY <1>9 DEF Crash, SentBeforeComplete
  <2>3. BatchIsCommitted'
    BY <1>9 DEF Crash, BatchIsCommitted
  <2>4. PublishedIsSettled'
    BY <1>9 DEF Crash, PublishedIsSettled
  <2>5. LocksBelongToClaims'
    BY <1>9 DEF Crash, LocksBelongToClaims
  <2>6. ClaimsFromEmptyHand'
    BY <1>9 DEF Crash, ClaimsFromEmptyHand
  <2>7. ClaimsAreCounted'
    BY <1>9 DEF Crash, ClaimsAreCounted
  <2>8. ClaimsAreExclusive'
    BY <1>9 DEF Crash, ClaimsAreExclusive
  <2> QED
    BY <2>1, <2>2, <2>3, <2>4, <2>5, <2>6, <2>7, <2>8
<1>10. ASSUME NEW o \in Items, LeaseLapse(o) PROVE IInv'
  <2>1. CurrentInHand'
    BY <1>10 DEF LeaseLapse, worker, CurrentInHand
  <2>2. SentBeforeComplete'
    BY <1>10 DEF LeaseLapse, worker, SentBeforeComplete
  <2>3. BatchIsCommitted'
    BY <1>10 DEF LeaseLapse, worker, BatchIsCommitted
  <2>4. PublishedIsSettled'
    BY <1>10 DEF LeaseLapse, worker, PublishedIsSettled
  <2>5. LocksBelongToClaims'
    BY <1>10 DEF LeaseLapse, worker, LocksBelongToClaims
  <2>6. ClaimsFromEmptyHand'
    BY <1>10 DEF LeaseLapse, worker, ClaimsFromEmptyHand
  <2>7. ClaimsAreCounted'
    BY <1>10 DEF LeaseLapse, worker, ClaimsAreCounted
  <2>8. ClaimsAreExclusive'
    BY <1>10 DEF LeaseLapse, worker, ClaimsAreExclusive
  <2> QED
    BY <2>1, <2>2, <2>3, <2>4, <2>5, <2>6, <2>7, <2>8
<1>11. ASSUME NEW o \in Items, LeaseExpiry(o) PROVE IInv'
  <2>1. CurrentInHand'
    BY <1>11 DEF LeaseExpiry, worker, ghosts, CurrentInHand
  <2>2. SentBeforeComplete'
    BY <1>11 DEF LeaseExpiry, worker, ghosts, SentBeforeComplete
  <2>3. BatchIsCommitted'
    BY <1>11 DEF LeaseExpiry, worker, ghosts, BatchIsCommitted
  <2>4. PublishedIsSettled'
    BY <1>11 DEF LeaseExpiry, worker, ghosts, PublishedIsSettled
  <2>5. LocksBelongToClaims'
    BY <1>11 DEF LeaseExpiry, worker, ghosts, LocksBelongToClaims
  <2>6. ClaimsFromEmptyHand'
    BY <1>11 DEF LeaseExpiry, worker, ghosts, ClaimsFromEmptyHand
  <2>7. ClaimsAreCounted'
    BY <1>11 DEF LeaseExpiry, worker, ghosts, ClaimsAreCounted
  <2>8. ClaimsAreExclusive'
    BY <1>11 DEF LeaseExpiry, worker, ghosts, ClaimsAreExclusive
  <2> QED
    BY <2>1, <2>2, <2>3, <2>4, <2>5, <2>6, <2>7, <2>8
<1>12. ASSUME NEW o \in Items, BackoffEnds(o) PROVE IInv'
  <2>1. CurrentInHand'
    BY <1>12 DEF BackoffEnds, worker, ghosts, CurrentInHand
  <2>2. SentBeforeComplete'
    BY <1>12 DEF BackoffEnds, worker, ghosts, SentBeforeComplete
  <2>3. BatchIsCommitted'
    BY <1>12 DEF BackoffEnds, worker, ghosts, BatchIsCommitted
  <2>4. PublishedIsSettled'
    BY <1>12 DEF BackoffEnds, worker, ghosts, PublishedIsSettled
  <2>5. LocksBelongToClaims'
    BY <1>12 DEF BackoffEnds, worker, ghosts, LocksBelongToClaims
  <2>6. ClaimsFromEmptyHand'
    BY <1>12 DEF BackoffEnds, worker, ghosts, ClaimsFromEmptyHand
  <2>7. ClaimsAreCounted'
    BY <1>12 DEF BackoffEnds, worker, ghosts, ClaimsAreCounted
  <2>8. ClaimsAreExclusive'
    BY <1>12 DEF BackoffEnds, worker, ghosts, ClaimsAreExclusive
  <2> QED
    BY <2>1, <2>2, <2>3, <2>4, <2>5, <2>6, <2>7, <2>8
<1>13. CASE UNCHANGED vars
  BY <1>13 DEF vars, table, worker, ghosts, CurrentInHand, SentBeforeComplete, BatchIsCommitted, PublishedIsSettled, LocksBelongToClaims, ClaimsFromEmptyHand, ClaimsAreCounted, ClaimsAreExclusive
<1> QED
  BY <1>1, <1>2, <1>3, <1>4, <1>5, <1>6, <1>7, <1>8, <1>9, <1>10, <1>11, <1>12, <1>13
  DEF Next, RunOnce

\* The inductive invariant holds in every reachable state.
THEOREM Invariance == Spec => []IInv
<1>1. Init => IInv
  BY WorkerAssumption, FaultAssumption
  DEF Init, IInv, TypeOK, TableType, WorkerType, GhostType, Ids, EmptyHand,
      CurrentInHand, SentBeforeComplete, BatchIsCommitted, PublishedIsSettled,
      LocksBelongToClaims, ClaimsFromEmptyHand, ClaimsAreCounted, ClaimsAreExclusive
<1> QED
  BY <1>1, IInvStep, PTL DEF Spec

\* A row marked published has reached the sink, for any number of workers.
THEOREM PublishedDelivered == Spec => []PublishedWasDelivered
<1>1. IInv => PublishedWasDelivered
  BY DEF IInv, PublishedIsSettled, PublishedWasDelivered
<1> QED
  BY <1>1, Invariance, PTL

-----------------------------------------------------------------------------
\* Under the refinement mapping every step of the outbox is a step of
\* at-least-once delivery or leaves the abstract state alone.
THEOREM Refinement == Spec => ImplementsAtLeastOnce
<1>1. Init => Delivery!Init
  <2> SUFFICES ASSUME Init PROVE Delivery!Init
    OBVIOUS
  <2>1. \A o \in Items : (delivered[o] > 0) = FALSE
    BY DEF Init
  <2>2. [o \in Items |-> delivered[o] > 0] = [m \in Items |-> FALSE]
    BY <2>1, Zenon
  <2> QED
    BY <2>2 DEF Init, Delivery!Init
<1>2. IInv /\ [Next]_vars => [Delivery!Next]_(Delivery!vars)
  <2> SUFFICES ASSUME IInv, [Next]_vars PROVE [Delivery!Next]_(Delivery!vars)
    OBVIOUS
  <2> USE DEF IInv, TypeOK, TableType, WorkerType, GhostType
  <2>1. ASSUME NEW o \in Items, Enqueue(o) PROVE Delivery!Submit(o)
    BY <2>1 DEF Enqueue, ghosts, Delivery!Submit
  <2>2. ASSUME NEW w \in Workers, NEW o \in Items, PublishOk(w, o) \/ PublishFail(w, o)
        PROVE Delivery!Send(o) \/ UNCHANGED Delivery!vars
    <3>1. PICK got \in {0, 1} : delivered' = [delivered EXCEPT ![o] = @ + got]
      BY <2>2 DEF PublishOk, PublishFail
    <3>2. row' = row /\ row[o] # "absent"
      BY <2>2 DEF PublishOk, PublishFail, table, BatchIsCommitted
    <3>3. row[o] = "published" => delivered[o] > 0
      BY DEF PublishedIsSettled
    <3> DEFINE sent == [p \in Items |-> delivered[p] > 0]
    <3>4. \A p \in Items : (delivered'[p] > 0) = IF p = o THEN delivered'[o] > 0 ELSE delivered[p] > 0
      BY <3>1
    <3>5. CASE delivered'[o] > 0
      <4>1. sent' = [sent EXCEPT ![o] = TRUE]
        <5>1. \A p \in Items : (delivered'[p] > 0) = IF p = o THEN TRUE ELSE sent[p]
          BY <3>4, <3>5
        <5> QED
          BY <5>1, Zenon
      <4>2. row[o] = "published" => sent' = sent
        <5> SUFFICES ASSUME row[o] = "published" PROVE sent' = sent
          OBVIOUS
        <5>1. \A p \in Items : (delivered'[p] > 0) = (delivered[p] > 0)
          BY <3>3, <3>4, <3>5
        <5> QED
          BY <5>1, Zenon
      <4>3. row[o] = "pending" \/ row[o] = "published"
        BY <3>2
      <4> QED
        BY <3>2, <4>1, <4>2, <4>3 DEF Delivery!Send, Delivery!vars
    <3>6. CASE ~(delivered'[o] > 0)
      <4>1. \A p \in Items : (delivered'[p] > 0) = (delivered[p] > 0)
        BY <3>1, <3>4, <3>6
      <4>2. sent' = sent
        BY <4>1, Zenon
      <4> QED
        BY <3>2, <4>2 DEF Delivery!vars
    <3> QED
      BY <3>5, <3>6
  <2>3. ASSUME NEW w \in Workers, Complete(w) PROVE Delivery!Acknowledge(cur[w])
    BY <2>3 DEF Complete, AtStatement, Owns, ghosts, SentBeforeComplete,
       CurrentInHand, Delivery!Acknowledge
  <2>4. ASSUME NEW w \in Workers,
               ClaimLock(w) \/ ClaimCommit(w) \/ Retry(w) \/ Abort(w) \/ Crash(w)
        PROVE UNCHANGED Delivery!vars
    BY <2>4 DEF ClaimLock, ClaimCommit, Retry, Abort, Crash, table, ghosts, Delivery!vars
  <2>5. ASSUME NEW o \in Items, LeaseLapse(o) \/ LeaseExpiry(o) \/ BackoffEnds(o)
        PROVE UNCHANGED Delivery!vars
    BY <2>5 DEF LeaseLapse, LeaseExpiry, BackoffEnds, ghosts, Delivery!vars
  <2>6. CASE UNCHANGED vars
    BY <2>6 DEF vars, table, ghosts, Delivery!vars
  <2>7. ASSUME NEW w \in Workers, Complete(w) PROVE cur[w] \in Items
    BY <2>7 DEF Complete, AtStatement, CurrentInHand
  <2> QED
    BY <2>1, <2>2, <2>3, <2>4, <2>5, <2>6, <2>7 DEF Next, RunOnce, Delivery!Next
<1> QED
  BY <1>1, <1>2, Invariance, PTL DEF Spec, ImplementsAtLeastOnce, Delivery!Spec

-----------------------------------------------------------------------------
\* Published rows stay published, unleased and unclaimed.
THEOREM PublishedStays == Spec => PublishedIsFinal
<1> DEFINE Kept == \A o \in Items : row[o] = "published" =>
          row'[o] = "published" /\ claimedBy'[o] = NoWorker /\ attempts'[o] = attempts[o]
<1>1. IInv /\ [Next]_vars => Kept
  <2> SUFFICES ASSUME IInv, [Next]_vars, NEW p \in Items, row[p] = "published"
               PROVE row'[p] = "published" /\ claimedBy'[p] = NoWorker /\ attempts'[p] = attempts[p]
    OBVIOUS
  <2>0. claimedBy[p] = NoWorker /\ lockedBy[p] = NoWorker
    BY DEF IInv, PublishedIsSettled
  <2> USE <2>0, WorkerAssumption DEF IInv, TypeOK, TableType, WorkerType
  <2>1. ASSUME NEW w \in Workers, RunOnce(w)
        PROVE row'[p] = "published" /\ claimedBy'[p] = NoWorker /\ attempts'[p] = attempts[p]
    BY <2>1 DEF RunOnce, ClaimLock, ClaimCommit, PublishOk, PublishFail, Complete, Retry,
       Abort, AtStatement, Owns, Unlease, CurrentInHand, table
  <2>2. CASE \E w \in Workers : Crash(w)
    BY <2>2 DEF Crash
  <2>3. CASE \E o \in Items : Enqueue(o) \/ LeaseLapse(o) \/ LeaseExpiry(o) \/ BackoffEnds(o)
    BY <2>3 DEF Enqueue, LeaseLapse, LeaseExpiry, BackoffEnds
  <2>4. CASE UNCHANGED vars
    BY <2>4 DEF vars, table
  <2> QED
    BY <2>1, <2>2, <2>3, <2>4 DEF Next
<1>2. IInv /\ [Next]_vars => [Kept]_vars
  BY <1>1
<1> QED
  BY <1>2, Invariance, PTL DEF Spec, PublishedIsFinal

-----------------------------------------------------------------------------
\* No two processes run with the same worker_id.
DistinctIds == \A v, w \in Workers : WorkerId[v] = WorkerId[w] => v = w

\* claimed_by names a process only while its claim is the row's latest.
LeaseIsLatestClaim ==
    \A w \in Workers, o \in Items :
        claimedBy[o] = WorkerId[w] /\ hand[w][o] > 0 => hand[w][o] = attempts[o]

\* With distinct worker ids every step keeps LeaseIsLatestClaim.
LEMMA LatestClaimStep ==
    ASSUME DistinctIds, IInv, LeaseIsLatestClaim, [Next]_vars
    PROVE  LeaseIsLatestClaim'
<1> USE WorkerAssumption DEF IInv, TypeOK, TableType, WorkerType, LeaseIsLatestClaim, EmptyHand
<1>1. ASSUME NEW w \in Workers, ClaimCommit(w) PROVE LeaseIsLatestClaim'
  BY <1>1 DEF ClaimCommit, NextAttempt, DistinctIds
<1>2. ASSUME NEW w \in Workers, ClaimLock(w) \/ Abort(w) \/ Crash(w)
      PROVE LeaseIsLatestClaim'
  BY <1>2 DEF ClaimLock, Abort, Crash, table
<1>3. ASSUME NEW w \in Workers, Complete(w) \/ Retry(w) PROVE LeaseIsLatestClaim'
  BY <1>3 DEF Complete, Retry, Settle, Unlease
<1>4. ASSUME NEW w \in Workers, NEW o \in Items, PublishOk(w, o) \/ PublishFail(w, o)
      PROVE LeaseIsLatestClaim'
  BY <1>4 DEF PublishOk, PublishFail, table
<1>5. ASSUME NEW o \in Items,
             Enqueue(o) \/ LeaseLapse(o) \/ LeaseExpiry(o) \/ BackoffEnds(o)
      PROVE LeaseIsLatestClaim'
  BY <1>5 DEF Enqueue, LeaseLapse, LeaseExpiry, BackoffEnds, worker
<1>6. CASE UNCHANGED vars
  BY <1>6 DEF vars, table, worker
<1> QED
  BY <1>1, <1>2, <1>3, <1>4, <1>5, <1>6 DEF Next, RunOnce

\* With distinct worker ids, only the holder of an unexpired lease ends it.
THEOREM LeasesRespected == ASSUME DistinctIds PROVE Spec => LeaseIsRespected
<1> DEFINE Respected == \A o \in Items, w \in Workers :
        Holder(o, w) /\ claimedBy'[o] # claimedBy[o] => cur[w] = o /\ cur'[w] # o
<1>1. Init => LeaseIsLatestClaim
  BY DEF Init, LeaseIsLatestClaim, EmptyHand
<1>2. IInv /\ LeaseIsLatestClaim /\ [Next]_vars => LeaseIsLatestClaim'
  BY LatestClaimStep
<1>3. IInv /\ LeaseIsLatestClaim /\ [Next]_vars => Respected
  <2> SUFFICES ASSUME IInv, LeaseIsLatestClaim, [Next]_vars,
                      NEW o \in Items, NEW w \in Workers,
                      Holder(o, w), claimedBy'[o] # claimedBy[o]
               PROVE cur[w] = o /\ cur'[w] # o
    OBVIOUS
  <2> USE WorkerAssumption DEF IInv, TypeOK, TableType, WorkerType, Holder
  <2>1. ASSUME NEW v \in Workers, ClaimCommit(v) PROVE FALSE
    BY <2>1 DEF ClaimCommit, LocksBelongToClaims
  <2>2. ASSUME NEW v \in Workers, Complete(v) \/ Retry(v) PROVE cur[w] = o /\ cur'[w] # o
    <3>1. cur[v] = o /\ claimedBy[o] = WorkerId[v] /\ hand[v][o] > 0
      BY <2>2 DEF Complete, Retry, AtStatement, Owns, Unlease, CurrentInHand
    <3>2. v = w
      BY <3>1 DEF LeaseIsLatestClaim, ClaimsAreExclusive
    <3> QED
      BY <2>2, <3>1, <3>2, ItemsAssumption DEF Complete, Retry, Settle
  <2>3. ASSUME NEW v \in Workers, ClaimLock(v) \/ Abort(v) \/ Crash(v) PROVE FALSE
    BY <2>3 DEF ClaimLock, Abort, Crash, table
  <2>4. ASSUME NEW v \in Workers, NEW p \in Items, PublishOk(v, p) \/ PublishFail(v, p)
        PROVE FALSE
    BY <2>4 DEF PublishOk, PublishFail, table
  <2>5. ASSUME NEW p \in Items,
               Enqueue(p) \/ LeaseLapse(p) \/ LeaseExpiry(p) \/ BackoffEnds(p)
        PROVE FALSE
    BY <2>5 DEF Enqueue, LeaseLapse, LeaseExpiry, BackoffEnds
  <2>6. ~UNCHANGED vars
    BY DEF vars, table
  <2> QED
    BY <2>1, <2>2, <2>3, <2>4, <2>5, <2>6 DEF Next, RunOnce
<1>4. IInv /\ LeaseIsLatestClaim /\ [Next]_vars => [Respected]_vars
  BY <1>3
<1> QED
  BY <1>1, <1>2, <1>4, Invariance, PTL DEF Spec, LeaseIsRespected

-----------------------------------------------------------------------------
(***************************************************************************)
(* DuplicatesNeedFaults by accounting.  A process may deliver a row once   *)
(* more while it has the row in hand.  If its claim has lost the lease it  *)
(* is late, and a fault on that row paid for it in advance; the holder of  *)
(* the live lease delivers the one copy every row is owed.                 *)
(***************************************************************************)

\* The process works under the unexpired lease of the row's latest claim.
Current(w, o) == hand[w][o] > 0 /\ hand[w][o] = attempts[o] /\ fresh[o]

\* Its publication has returned and complete_outbox is still to run.
Sending(w, o) == pc[w] = "complete" /\ cur[w] = o

\* The processes that may still deliver the row without a live lease.
Late(o) == {w \in Workers : hand[w][o] > 0 /\ ~Current(w, o) /\ ~Sending(w, o)}

\* Whether the one copy owed has been delivered under a lease still live, or
\* the row is marked published.
Credit(o) ==
    IF row[o] = "published" \/ \E w \in Workers : Current(w, o) /\ Sending(w, o)
    THEN 1 ELSE 0

\* Copies delivered, and copies late processes may still deliver, are paid for.
PaidRow(o) ==
    /\ IsFiniteSet(Late(o))
    /\ delivered[o] + Cardinality(Late(o)) <= harm[o] + Credit(o)

Paid == \A o \in Items : PaidRow(o)

\* A live lease names its claimer, on a row still to be published.
FreshPending == \A o \in Items : fresh[o] => row[o] = "pending" /\ claimedBy[o] # NoWorker

\* The statements of the live lease's holder will find it in claimed_by.
CurrentOwns == \A o \in Items, w \in Workers : Current(w, o) => claimedBy[o] = WorkerId[w]

LeaseInv == FreshPending /\ CurrentOwns

\* Every step keeps live leases on pending rows and in their holder's name.
LEMMA LeaseStep == IInv /\ LeaseInv /\ [Next]_vars => LeaseInv'
<1> SUFFICES ASSUME IInv, LeaseInv, [Next]_vars PROVE FreshPending' /\ CurrentOwns'
  BY DEF LeaseInv
<1> USE WorkerAssumption
    DEF IInv, TypeOK, TableType, WorkerType, LeaseInv, FreshPending, CurrentOwns, Current, EmptyHand
<1>1. ASSUME NEW w \in Workers, ClaimCommit(w) PROVE FreshPending' /\ CurrentOwns'
  <2>1. FreshPending'
    BY <1>1 DEF ClaimCommit, LocksBelongToClaims
  <2>2. \A o \in Items : lockedBy[o] = w => attempts'[o] = attempts[o] + 1
    BY <1>1 DEF ClaimCommit, NextAttempt
  <2>3. ASSUME NEW o \in Items, NEW v \in Workers, Current(v, o)'
        PROVE  claimedBy'[o] = WorkerId[v]
    <3>1. CASE v = w
      BY <1>1, <2>3, <3>1 DEF ClaimCommit
    <3>2. CASE v # w
      <4>1. /\ hand'[v][o] = hand[v][o] /\ hand[v][o] \in Nat
            /\ attempts[o] \in Nat /\ hand[v][o] <= attempts[o]
        BY <1>1, <3>2 DEF ClaimCommit, ClaimsAreCounted
      <4>2. lockedBy[o] # w
        <5>1. hand'[v][o] = attempts'[o]
          BY <2>3
        <5> QED
          BY ONLY <2>2, <4>1, <5>1, <2>3
      <4>3. Current(v, o) /\ claimedBy'[o] = claimedBy[o]
        BY <1>1, <2>3, <4>1, <4>2 DEF ClaimCommit
      <4> QED
        BY <4>3
    <3> QED
      BY <3>1, <3>2
  <2> QED
    BY <2>1, <2>3
<1>2. ASSUME NEW w \in Workers, ClaimLock(w) \/ Abort(w) \/ Crash(w)
      PROVE FreshPending' /\ CurrentOwns'
  BY <1>2 DEF ClaimLock, Abort, Crash, table
<1>3. ASSUME NEW w \in Workers, Complete(w) \/ Retry(w) PROVE FreshPending' /\ CurrentOwns'
  <2>1. Unlease(cur[w]) /\ Settle(w) /\ attempts' = attempts
    BY <1>3 DEF Complete, Retry
  <2>2. \A o \in Items : o # cur[w] => row'[o] = row[o]
    BY <1>3 DEF Complete, Retry
  <2>3. \A o \in Items, v \in Workers : o # cur[w] => hand'[v][o] = hand[v][o]
    BY <2>1 DEF Settle
  <2> QED
    BY <2>1, <2>2, <2>3 DEF Unlease
<1>4. ASSUME NEW w \in Workers, NEW o \in Items, PublishOk(w, o) \/ PublishFail(w, o)
      PROVE FreshPending' /\ CurrentOwns'
  BY <1>4 DEF PublishOk, PublishFail, table
<1>5. ASSUME NEW o \in Items,
             Enqueue(o) \/ LeaseLapse(o) \/ LeaseExpiry(o) \/ BackoffEnds(o)
      PROVE FreshPending' /\ CurrentOwns'
  BY <1>5 DEF Enqueue, LeaseLapse, LeaseExpiry, BackoffEnds, worker
<1>6. CASE UNCHANGED vars
  BY <1>6 DEF vars, table, worker
<1> QED
  BY <1>1, <1>2, <1>3, <1>4, <1>5, <1>6 DEF Next, RunOnce

\* A set between two known ones: the three ways the late processes change.
LEMMA NoMoreLate ==
    ASSUME NEW S, IsFiniteSet(S), NEW T, T \subseteq S
    PROVE  IsFiniteSet(T) /\ Cardinality(T) \in Nat /\ Cardinality(S) \in Nat
           /\ Cardinality(T) <= Cardinality(S)
BY FS_Subset, FS_CardinalityType

LEMMA OneMoreLate ==
    ASSUME NEW S, IsFiniteSet(S), NEW T, NEW v, T \subseteq S \union {v}
    PROVE  IsFiniteSet(T) /\ Cardinality(T) \in Nat /\ Cardinality(S) \in Nat
           /\ Cardinality(T) <= Cardinality(S) + 1
<1>1. IsFiniteSet(S \union {v}) /\ Cardinality(S \union {v}) <= Cardinality(S) + 1
      /\ Cardinality(S) \in Nat /\ Cardinality(S \union {v}) \in Nat
  BY FS_AddElement, FS_CardinalityType
<1>2. IsFiniteSet(T) /\ Cardinality(T) \in Nat /\ Cardinality(T) <= Cardinality(S \union {v})
  BY <1>1, NoMoreLate
<1> QED
  BY <1>1, <1>2

LEMMA OneFewerLate ==
    ASSUME NEW S, IsFiniteSet(S), NEW w \in S, NEW T, T \subseteq S \ {w}
    PROVE  IsFiniteSet(T) /\ Cardinality(T) \in Nat /\ Cardinality(S) \in Nat
           /\ Cardinality(T) + 1 <= Cardinality(S)
<1>1. IsFiniteSet(S \ {w}) /\ Cardinality(S \ {w}) = Cardinality(S) - 1
      /\ Cardinality(S) \in Nat /\ Cardinality(S \ {w}) \in Nat
  BY FS_RemoveElement, FS_CardinalityType
<1>2. IsFiniteSet(T) /\ Cardinality(T) \in Nat /\ Cardinality(T) <= Cardinality(S \ {w})
  BY <1>1, NoMoreLate
<1> QED
  BY <1>1, <1>2

\* Only one process works under the live lease, and its row is unpublished.
LEMMA CurrentIsUnique ==
    ASSUME IInv, LeaseInv, NEW o \in Items, NEW v \in Workers, Current(v, o)
    PROVE  /\ row[o] = "pending"
           /\ \A w \in Workers : Current(w, o) => w = v
<1> USE DEF IInv, LeaseInv, Current
<1>1. row[o] = "pending"
  BY DEF FreshPending
<1>2. ASSUME NEW w \in Workers, Current(w, o) PROVE w = v
  BY <1>2 DEF ClaimsAreExclusive
<1> QED
  BY <1>1, <1>2

\* The credit of a row is none or one copy.
LEMMA CreditIsBounded ==
    ASSUME NEW o \in Items
    PROVE  /\ Credit(o) \in {0, 1}
           /\ row[o] = "published" => Credit(o) = 1
           /\ (\E w \in Workers : Current(w, o) /\ Sending(w, o)) => Credit(o) = 1
           /\ row[o] = "published" \/ (\E w \in Workers : Current(w, o) /\ Sending(w, o))
              \/ Credit(o) = 0
BY DEF Credit

\* A step that delivers nothing of the row, adds no late process and takes no
\* credit keeps its account.
LEMMA QuietRow ==
    ASSUME NEW o \in Items, TypeOK, TypeOK', PaidRow(o),
           delivered'[o] = delivered[o], harm'[o] >= harm[o],
           Late(o)' \subseteq Late(o), Credit(o)' >= Credit(o)
    PROVE  PaidRow(o)'
<1> DEFINE S == Late(o)
           T == Late(o)'
<1>1. IsFiniteSet(S) /\ delivered[o] + Cardinality(S) <= harm[o] + Credit(o)
  BY DEF PaidRow
<1>2. T \subseteq S
  OBVIOUS
<1>3. Credit(o) \in {0, 1} /\ Credit(o)' \in {0, 1}
  BY DEF Credit
<1>4. delivered[o] \in Nat /\ harm[o] \in Nat /\ harm'[o] \in Nat
  BY DEF TypeOK, GhostType
<1> HIDE DEF S, T
<1>5. IsFiniteSet(T) /\ Cardinality(T) \in Nat /\ Cardinality(S) \in Nat
      /\ Cardinality(T) <= Cardinality(S)
  BY <1>1, <1>2, NoMoreLate
<1>6. delivered'[o] + Cardinality(T) <= harm'[o] + Credit(o)'
  BY <1>1, <1>3, <1>4, <1>5
<1> QED
  BY <1>5, <1>6 DEF PaidRow, T

\* A step that shows nothing of the row keeps its account.
LEMMA UntouchedRow ==
    ASSUME NEW o \in Items, TypeOK, TypeOK', PaidRow(o),
           \A w \in Workers : hand'[w][o] = hand[w][o] /\ (Sending(w, o)' <=> Sending(w, o)),
           attempts'[o] = attempts[o], fresh'[o] = fresh[o],
           row'[o] = "published" <=> row[o] = "published",
           delivered'[o] = delivered[o], harm'[o] = harm[o]
    PROVE  PaidRow(o)'
<1>1. \A w \in Workers : Current(w, o)' <=> Current(w, o)
  BY DEF Current
<1>2. Late(o)' \subseteq Late(o)
  BY <1>1 DEF Late
<1>3. Credit(o)' >= Credit(o)
  BY <1>1 DEF Credit
<1>4. harm'[o] >= harm[o]
  BY DEF TypeOK, GhostType
<1> QED
  BY <1>2, <1>3, <1>4, QuietRow

\* A step by which one more process may become late, paid by a fault on the
\* row or by credit not there before.
LEMMA LaterRow ==
    ASSUME NEW o \in Items, TypeOK, TypeOK', PaidRow(o), NEW v,
           delivered'[o] = delivered[o], Late(o)' \subseteq Late(o) \union {v},
           harm'[o] + Credit(o)' >= harm[o] + Credit(o) + 1
    PROVE  PaidRow(o)'
<1> DEFINE S == Late(o)
           T == Late(o)'
<1>1. IsFiniteSet(S) /\ delivered[o] + Cardinality(S) <= harm[o] + Credit(o)
  BY DEF PaidRow
<1>2. T \subseteq S \union {v}
  OBVIOUS
<1>3. Credit(o) \in {0, 1} /\ Credit(o)' \in {0, 1}
  BY DEF Credit
<1>4. delivered[o] \in Nat /\ harm[o] \in Nat /\ harm'[o] \in Nat
  BY DEF TypeOK, GhostType
<1> HIDE DEF S, T
<1>5. IsFiniteSet(T) /\ Cardinality(T) \in Nat /\ Cardinality(S) \in Nat
      /\ Cardinality(T) <= Cardinality(S) + 1
  BY <1>1, <1>2, OneMoreLate
<1>6. delivered'[o] + Cardinality(T) <= harm'[o] + Credit(o)'
  BY <1>1, <1>3, <1>4, <1>5
<1> QED
  BY <1>5, <1>6 DEF PaidRow, T

-----------------------------------------------------------------------------
\* A claim that commits leaves every account as it was: whoever held the row
\* had lost the lease already.
LEMMA ClaimKeepsPaid ==
    ASSUME IInv, LeaseInv, TypeOK', NEW w \in Workers, ClaimCommit(w),
           NEW p \in Items, PaidRow(p)
    PROVE  PaidRow(p)'
<1> USE DEF IInv, TypeOK, TableType, WorkerType
<1>1. /\ pc[w] = "claim" /\ pc' = [pc EXCEPT ![w] = "ready"] /\ cur' = cur
      /\ row' = row /\ delivered' = delivered /\ harm' = harm
  BY DEF ClaimCommit, ghosts
<1>2. \A v \in Workers : v # w => hand'[v][p] = hand[v][p]
  BY DEF ClaimCommit
<1>3. hand[w][p] = 0
  BY <1>1 DEF ClaimsFromEmptyHand, EmptyHand
<1>4. \A v \in Workers : Sending(v, p)' <=> Sending(v, p)
  BY <1>1 DEF Sending
<1>5. CASE lockedBy[p] = w
  <2>1. row[p] = "pending" /\ ~fresh[p]
    BY <1>5, WorkerAssumption DEF LocksBelongToClaims, LeaseInv, FreshPending
  <2>2. \A v \in Workers : ~Current(v, p)
    BY <2>1 DEF Current
  <2>3. \A v \in Workers : v # w => ~Current(v, p)'
    <3> SUFFICES ASSUME NEW v \in Workers, v # w, Current(v, p)' PROVE FALSE
      OBVIOUS
    <3>1. hand[v][p] \in Nat /\ attempts[p] \in Nat /\ hand[v][p] <= attempts[p]
      BY DEF ClaimsAreCounted
    <3>2. attempts'[p] = attempts[p] + 1
      BY <1>5 DEF ClaimCommit, NextAttempt
    <3>3. hand'[v][p] = attempts'[p]
      BY DEF Current
    <3> QED
      BY ONLY <1>2, <3>1, <3>2, <3>3, v # w, v \in Workers
  <2>4. Current(w, p)'
    <3>1. hand'[w][p] = attempts[p] + 1 /\ attempts'[p] = attempts[p] + 1 /\ fresh'[p]
      BY <1>5 DEF ClaimCommit, NextAttempt
    <3>2. attempts[p] \in Nat
      OBVIOUS
    <3> QED
      BY <3>1, <3>2 DEF Current
  <2>5. Late(p)' \subseteq Late(p)
    BY <1>2, <1>4, <2>2, <2>4 DEF Late
  <2>6. Credit(p)' >= Credit(p)
    BY <1>1, <2>1, <2>2 DEF Credit
  <2>7. delivered'[p] = delivered[p] /\ harm'[p] >= harm[p]
    BY <1>1 DEF GhostType
  <2> QED
    BY <2>5, <2>6, <2>7, QuietRow
<1>6. CASE lockedBy[p] # w
  <2>1. hand'[w][p] = 0
    BY <1>6 DEF ClaimCommit
  <2>2. attempts'[p] = attempts[p] /\ fresh'[p] = fresh[p]
    BY <1>6 DEF ClaimCommit
  <2>3. \A v \in Workers : hand'[v][p] = hand[v][p]
    BY <1>2, <1>3, <2>1
  <2> QED
    BY <1>1, <1>4, <2>2, <2>3, UntouchedRow
<1> QED
  BY <1>5, <1>6

\* A publication that returns is the copy owed, or a late one paid for.
LEMMA PublishKeepsPaid ==
    ASSUME IInv, LeaseInv, TypeOK', NEW w \in Workers, NEW o \in Items,
           PublishOk(w, o), PaidRow(o)
    PROVE  PaidRow(o)'
<1> USE DEF IInv, TypeOK, TableType, WorkerType
<1>1. /\ pc[w] = "ready" /\ hand[w][o] > 0 /\ row' = row /\ fresh' = fresh
      /\ attempts' = attempts /\ hand' = hand /\ harm' = harm
  BY DEF PublishOk, table
<1>2. delivered'[o] = delivered[o] + 1 /\ delivered[o] \in Nat /\ harm[o] \in Nat
  BY DEF PublishOk, GhostType
<1>3. Sending(w, o)' /\ ~Sending(w, o)
  BY DEF PublishOk, Sending
<1>4. \A v \in Workers : v # w => (Sending(v, o)' <=> Sending(v, o))
  BY DEF PublishOk, Sending
<1>5. \A v \in Workers : Current(v, o)' <=> Current(v, o)
  BY <1>1 DEF Current
<1> DEFINE S == Late(o)
           T == Late(o)'
<1>6. IsFiniteSet(S) /\ delivered[o] + Cardinality(S) <= harm[o] + Credit(o)
  BY DEF PaidRow
<1>7. Credit(o) \in {0, 1} /\ Credit(o)' \in {0, 1}
  BY DEF Credit
<1>8. CASE Current(w, o)
  <2>1. Credit(o) = 0
    BY <1>3, <1>8, CurrentIsUnique, CreditIsBounded
  <2>2. Credit(o)' = 1
    BY <1>3, <1>5, <1>8 DEF Credit
  <2>3. T \subseteq S
    BY <1>1, <1>3, <1>4, <1>5 DEF Late
  <2> HIDE DEF S, T
  <2>4. IsFiniteSet(T) /\ Cardinality(T) \in Nat /\ Cardinality(S) \in Nat
        /\ Cardinality(T) <= Cardinality(S)
    BY <1>6, <2>3, NoMoreLate
  <2>5. delivered'[o] + Cardinality(T) <= harm'[o] + Credit(o)'
    BY <1>1, <1>2, <1>6, <2>1, <2>2, <2>4
  <2> QED
    BY <2>4, <2>5 DEF PaidRow, T
<1>9. CASE ~Current(w, o)
  <2>1. w \in S
    BY <1>1, <1>3, <1>9 DEF Late
  <2>2. T \subseteq S \ {w}
    BY <1>1, <1>3, <1>4, <1>5 DEF Late
  <2>3. Credit(o)' >= Credit(o)
    BY <1>1, <1>4, <1>5, <1>9 DEF Credit
  <2> HIDE DEF S, T
  <2>4. IsFiniteSet(T) /\ Cardinality(T) \in Nat /\ Cardinality(S) \in Nat
        /\ Cardinality(T) + 1 <= Cardinality(S)
    BY <1>6, <2>1, <2>2, OneFewerLate
  <2>5. delivered'[o] + Cardinality(T) <= harm'[o] + Credit(o)'
    BY <1>1, <1>2, <1>6, <1>7, <2>3, <2>4
  <2> QED
    BY <2>4, <2>5 DEF PaidRow, T
<1> QED
  BY <1>8, <1>9

\* A publication that raises is a fault on the row, delivered or not.
LEMMA FailureKeepsPaid ==
    ASSUME IInv, TypeOK', NEW w \in Workers, NEW o \in Items,
           PublishFail(w, o), PaidRow(o)
    PROVE  PaidRow(o)'
<1> USE DEF IInv, TypeOK, TableType, WorkerType
<1>1. /\ pc[w] = "ready" /\ row' = row /\ fresh' = fresh
      /\ attempts' = attempts /\ hand' = hand
  BY DEF PublishFail, table
<1>2. delivered'[o] <= delivered[o] + 1 /\ delivered[o] \in Nat /\ delivered'[o] \in Nat
  <2>1. PICK got \in {0, 1} : delivered' = [delivered EXCEPT ![o] = @ + got]
    BY DEF PublishFail
  <2> QED
    BY <2>1 DEF GhostType
<1>3. harm'[o] = harm[o] + 1 /\ harm[o] \in Nat
  BY DEF PublishFail, GhostType
<1>4. \A v \in Workers : Sending(v, o)' <=> Sending(v, o)
  BY DEF PublishFail, Sending
<1>5. \A v \in Workers : Current(v, o)' <=> Current(v, o)
  BY <1>1 DEF Current
<1> DEFINE S == Late(o)
           T == Late(o)'
<1>6. IsFiniteSet(S) /\ delivered[o] + Cardinality(S) <= harm[o] + Credit(o)
  BY DEF PaidRow
<1>7. Credit(o) \in {0, 1} /\ Credit(o)' = Credit(o)
  BY <1>1, <1>4, <1>5 DEF Credit
<1>8. T \subseteq S
  BY <1>1, <1>4, <1>5 DEF Late
<1> HIDE DEF S, T
<1>9. IsFiniteSet(T) /\ Cardinality(T) \in Nat /\ Cardinality(S) \in Nat
      /\ Cardinality(T) <= Cardinality(S)
  BY <1>6, <1>8, NoMoreLate
<1>10. delivered'[o] + Cardinality(T) <= harm'[o] + Credit(o)'
  BY <1>2, <1>3, <1>6, <1>7, <1>9
<1> QED
  BY <1>9, <1>10 DEF PaidRow, T

\* What complete_outbox and retry_outbox have in common: the row loses its
\* lease and leaves the batch of the process.
LEMMA SettledRow ==
    ASSUME IInv, NEW w \in Workers, NEW o \in Items, o = cur[w],
           Unlease(o), Settle(w)
    PROVE  /\ hand'[w][o] = 0
           /\ \A v \in Workers : ~Current(v, o)'
           /\ \A v \in Workers : v # w =>
                 hand'[v][o] = hand[v][o] /\ (Sending(v, o)' <=> Sending(v, o))
<1> USE DEF IInv, TypeOK, TableType, WorkerType
<1>1. hand'[w][o] = 0 /\ \A v \in Workers : v # w => hand'[v][o] = hand[v][o]
  BY DEF Settle
<1>2. \A v \in Workers : ~Current(v, o)'
  BY DEF Unlease, Current
<1>3. \A v \in Workers : v # w => (Sending(v, o)' <=> Sending(v, o))
  BY DEF Settle, Sending
<1> QED
  BY <1>1, <1>2, <1>3

\* complete_outbox may take the live lease of a later claimer with it, who is
\* late from then on; the row it marks gives the credit for that copy.
LEMMA CompleteKeepsPaid ==
    ASSUME IInv, LeaseInv, TypeOK', NEW w \in Workers, Complete(w),
           NEW o \in Items, o = cur[w], PaidRow(o)
    PROVE  PaidRow(o)'
<1> USE DEF IInv
<1>1. Unlease(o) /\ Settle(w) /\ row[o] = "pending"
  BY DEF Complete, Owns
<1>2. row'[o] = "published" /\ delivered'[o] = delivered[o] /\ harm'[o] = harm[o]
  BY DEF Complete, ghosts, TypeOK, TableType
<1>3. harm[o] \in Nat /\ harm'[o] >= harm[o]
  BY <1>2 DEF TypeOK, GhostType
<1>4. Credit(o)' = 1 /\ Credit(o) \in {0, 1}
  BY <1>2 DEF Credit
<1>5. /\ hand'[w][o] = 0
      /\ \A v \in Workers : ~Current(v, o)'
      /\ \A v \in Workers : v # w =>
            hand'[v][o] = hand[v][o] /\ (Sending(v, o)' <=> Sending(v, o))
  BY <1>1, SettledRow
<1>6. CASE \E v \in Workers : Current(v, o) /\ ~Sending(v, o)
  <2>1. PICK v \in Workers : Current(v, o) /\ ~Sending(v, o)
    BY <1>6
  <2>2. Credit(o) = 0
    BY <1>1, <2>1, CurrentIsUnique, CreditIsBounded
  <2>3. Late(o)' \subseteq Late(o) \union {v}
    BY <1>5, <2>1, CurrentIsUnique DEF Late
  <2>4. harm'[o] + Credit(o)' >= harm[o] + Credit(o) + 1
    BY <1>2, <1>3, <1>4, <2>2
  <2> QED
    BY <1>2, <2>3, <2>4, LaterRow
<1>7. CASE \A v \in Workers : Current(v, o) => Sending(v, o)
  <2>1. Late(o)' \subseteq Late(o)
    BY <1>5, <1>7 DEF Late
  <2>2. Credit(o)' >= Credit(o)
    BY <1>4
  <2> QED
    BY <1>2, <1>3, <2>1, <2>2, QuietRow
<1> QED
  BY <1>6, <1>7

\* retry_outbox may free the row of a later claimer: one process enters the
\* late ones or takes its credit along, and the retrying one leaves them.
LEMMA RetryKeepsPaid ==
    ASSUME IInv, LeaseInv, TypeOK', NEW w \in Workers, Retry(w),
           NEW o \in Items, o = cur[w], PaidRow(o)
    PROVE  PaidRow(o)'
<1> USE DEF IInv
<1>1. Unlease(o) /\ Settle(w) /\ row[o] = "pending" /\ pc[w] = "retry" /\ hand[w][o] > 0
  BY DEF Retry, Owns, AtStatement, CurrentInHand
<1>2. row' = row /\ delivered'[o] = delivered[o] /\ harm'[o] = harm[o]
  BY DEF Retry, ghosts
<1>3. harm[o] \in Nat /\ delivered[o] \in Nat
  BY DEF TypeOK, GhostType
<1>4. /\ hand'[w][o] = 0
      /\ \A v \in Workers : ~Current(v, o)'
      /\ \A v \in Workers : v # w =>
            hand'[v][o] = hand[v][o] /\ (Sending(v, o)' <=> Sending(v, o))
  BY <1>1, SettledRow
<1>5. ~Sending(w, o)
  BY <1>1 DEF Sending
<1>6. Credit(o)' = 0 /\ Credit(o) \in {0, 1}
  BY <1>1, <1>2, <1>4 DEF Credit
<1>7. CASE \E v \in Workers : v # w /\ Current(v, o)
  <2>1. PICK v \in Workers : v # w /\ Current(v, o)
    BY <1>7
  <2> DEFINE S == Late(o)
             T == Late(o)'
             M == S \ {w}
  <2>2. \A u \in Workers : Current(u, o) => u = v
    BY <2>1, CurrentIsUnique
  <2>3. w \in S
    BY <1>1, <1>5, <2>1, <2>2 DEF Late
  <2>4. IsFiniteSet(S) /\ delivered[o] + Cardinality(S) <= harm[o] + Credit(o)
    BY DEF PaidRow
  <2>5. CASE Sending(v, o)
    <3>1. T \subseteq M
      BY <1>4, <2>2, <2>5 DEF Late
    <3> HIDE DEF S, T
    <3>2. IsFiniteSet(T) /\ Cardinality(T) \in Nat /\ Cardinality(S) \in Nat
          /\ Cardinality(T) + 1 <= Cardinality(S)
      BY <2>3, <2>4, <3>1, OneFewerLate
    <3>3. delivered'[o] + Cardinality(T) <= harm'[o] + Credit(o)'
      BY <1>2, <1>3, <1>6, <2>4, <3>2
    <3> QED
      BY <3>2, <3>3 DEF PaidRow, T
  <2>6. CASE ~Sending(v, o)
    <3>1. Credit(o) = 0
      BY <1>1, <2>2, <2>6, CreditIsBounded
    <3>2. T \subseteq M \union {v}
      BY <1>4, <2>2 DEF Late
    <3> HIDE DEF S, T
    <3>3. IsFiniteSet(M) /\ Cardinality(M) \in Nat /\ Cardinality(S) \in Nat
          /\ Cardinality(M) + 1 <= Cardinality(S)
      BY <2>3, <2>4, OneFewerLate
    <3>4. IsFiniteSet(T) /\ Cardinality(T) \in Nat /\ Cardinality(T) <= Cardinality(M) + 1
      BY <3>2, <3>3, OneMoreLate
    <3>5. delivered'[o] + Cardinality(T) <= harm'[o] + Credit(o)'
      BY <1>2, <1>3, <1>6, <2>4, <3>1, <3>3, <3>4
    <3> QED
      BY <3>4, <3>5 DEF PaidRow, T
  <2> QED
    BY <2>5, <2>6
<1>8. CASE \A v \in Workers : Current(v, o) => v = w
  <2>1. Late(o)' \subseteq Late(o)
    BY <1>4, <1>8 DEF Late
  <2>2. Credit(o) = 0
    BY <1>1, <1>5, <1>8, CreditIsBounded
  <2>3. Credit(o)' >= Credit(o) /\ harm'[o] >= harm[o]
    BY <1>2, <1>3, <1>6, <2>2
  <2> QED
    BY <1>2, <2>1, <2>3, QuietRow
<1> QED
  BY <1>7, <1>8

\* A process whose statement finds the row no longer its own had no live lease
\* on it, so the batch it drops held no credit.
LEMMA AbortKeepsPaid ==
    ASSUME IInv, LeaseInv, TypeOK', NEW w \in Workers, Abort(w),
           NEW o \in Items, PaidRow(o)
    PROVE  PaidRow(o)'
<1> USE DEF IInv, TypeOK, TableType, WorkerType
<1>1. /\ ~Owns(w, cur[w]) /\ row' = row /\ fresh' = fresh /\ attempts' = attempts
      /\ delivered' = delivered /\ harm' = harm
  BY DEF Abort, table, ghosts
<1>2. hand'[w][o] = 0 /\ \A v \in Workers : v # w => hand'[v][o] = hand[v][o]
  BY DEF Abort, EmptyHand
<1>3. \A v \in Workers : v # w => (Sending(v, o)' <=> Sending(v, o))
  BY DEF Abort, Sending
<1>4. \A v \in Workers : v # w => (Current(v, o)' <=> Current(v, o))
  BY <1>1, <1>2 DEF Current
<1>5. ~(Current(w, o) /\ Sending(w, o))
  BY <1>1, CurrentIsUnique DEF Sending, Owns, LeaseInv, CurrentOwns
<1>6. Late(o)' \subseteq Late(o)
  BY <1>2, <1>3, <1>4 DEF Late
<1>7. Credit(o)' >= Credit(o)
  BY <1>1, <1>3, <1>4, <1>5 DEF Credit
<1>8. harm'[o] >= harm[o]
  BY <1>1 DEF GhostType
<1> QED
  BY <1>1, <1>6, <1>7, <1>8, QuietRow

\* A crash takes the credit of at most the rows in hand, and is a fault on them.
LEMMA CrashKeepsPaid ==
    ASSUME IInv, LeaseInv, TypeOK', NEW w \in Workers, Crash(w),
           NEW o \in Items, PaidRow(o)
    PROVE  PaidRow(o)'
<1> USE DEF IInv, TypeOK, TableType, WorkerType
<1>1. /\ row' = row /\ fresh' = fresh /\ attempts' = attempts /\ delivered' = delivered
  BY DEF Crash
<1>2. hand'[w][o] = 0 /\ \A v \in Workers : v # w => hand'[v][o] = hand[v][o]
  BY DEF Crash, EmptyHand
<1>3. \A v \in Workers : v # w => (Sending(v, o)' <=> Sending(v, o))
  BY DEF Crash, Sending
<1>4. \A v \in Workers : v # w => (Current(v, o)' <=> Current(v, o))
  BY <1>1, <1>2 DEF Current
<1>5. Late(o)' \subseteq Late(o)
  BY <1>2, <1>3, <1>4 DEF Late
<1>6. harm'[o] = IF hand[w][o] > 0 THEN harm[o] + 1 ELSE harm[o]
  BY DEF Crash
<1>7. harm[o] \in Nat
  BY DEF GhostType
<1>8. CASE Current(w, o) /\ Sending(w, o)
  <2>1. harm'[o] = harm[o] + 1
    BY <1>6, <1>8 DEF Current
  <2> DEFINE S == Late(o)
             T == Late(o)'
  <2>2. IsFiniteSet(S) /\ delivered[o] + Cardinality(S) <= harm[o] + Credit(o)
    BY DEF PaidRow
  <2>3. Credit(o) \in {0, 1} /\ Credit(o)' \in {0, 1} /\ delivered[o] \in Nat
    BY DEF Credit, GhostType
  <2>4. T \subseteq S
    BY <1>5
  <2> HIDE DEF S, T
  <2>5. IsFiniteSet(T) /\ Cardinality(T) \in Nat /\ Cardinality(S) \in Nat
        /\ Cardinality(T) <= Cardinality(S)
    BY <2>2, <2>4, NoMoreLate
  <2>6. delivered'[o] + Cardinality(T) <= harm'[o] + Credit(o)'
    BY <1>1, <1>7, <2>1, <2>2, <2>3, <2>5
  <2> QED
    BY <2>5, <2>6 DEF PaidRow, T
<1>9. CASE ~(Current(w, o) /\ Sending(w, o))
  <2>1. Credit(o)' >= Credit(o)
    BY <1>1, <1>3, <1>4, <1>9 DEF Credit
  <2>2. harm'[o] >= harm[o]
    BY <1>6, <1>7
  <2> QED
    BY <1>1, <1>5, <2>1, <2>2, QuietRow
<1> QED
  BY <1>8, <1>9

\* A lease that lapses under its holder is a fault on the row, and costs the
\* credit or makes the holder late, not both.
LEMMA LapseKeepsPaid ==
    ASSUME IInv, LeaseInv, TypeOK', NEW o \in Items, LeaseLapse(o), PaidRow(o)
    PROVE  PaidRow(o)'
<1> USE DEF IInv
<1>1. /\ fresh[o] /\ row' = row /\ attempts' = attempts /\ delivered' = delivered
      /\ hand' = hand /\ pc' = pc /\ cur' = cur
  BY DEF LeaseLapse, worker
<1>2. ~fresh'[o] /\ harm'[o] = harm[o] + 1 /\ harm[o] \in Nat /\ delivered[o] \in Nat
  BY DEF LeaseLapse, TypeOK, TableType, GhostType
<1>3. PICK v \in Workers : Current(v, o)
  BY <1>1 DEF LeaseLapse, InProgress, Current
<1>4. row[o] = "pending" /\ \A u \in Workers : Current(u, o) => u = v
  BY <1>3, CurrentIsUnique
<1>5. \A u \in Workers : ~Current(u, o)' /\ (Sending(u, o)' <=> Sending(u, o))
  BY <1>1, <1>2 DEF Current, Sending
<1>6. Credit(o)' = 0
  BY <1>1, <1>4, <1>5 DEF Credit
<1>7. CASE Sending(v, o)
  <2> DEFINE S == Late(o)
             T == Late(o)'
  <2>1. IsFiniteSet(S) /\ delivered[o] + Cardinality(S) <= harm[o] + Credit(o)
    BY DEF PaidRow
  <2>2. Credit(o) \in {0, 1}
    BY DEF Credit
  <2>3. T \subseteq S
    BY <1>1, <1>4, <1>5, <1>7 DEF Late
  <2> HIDE DEF S, T
  <2>4. IsFiniteSet(T) /\ Cardinality(T) \in Nat /\ Cardinality(S) \in Nat
        /\ Cardinality(T) <= Cardinality(S)
    BY <2>1, <2>3, NoMoreLate
  <2>5. delivered'[o] + Cardinality(T) <= harm'[o] + Credit(o)'
    BY <1>1, <1>2, <1>6, <2>1, <2>2, <2>4
  <2> QED
    BY <2>4, <2>5 DEF PaidRow, T
<1>8. CASE ~Sending(v, o)
  <2>1. Credit(o) = 0
    BY <1>4, <1>8, CreditIsBounded
  <2>2. Late(o)' \subseteq Late(o) \union {v}
    BY <1>1, <1>4, <1>5 DEF Late
  <2>3. harm'[o] + Credit(o)' >= harm[o] + Credit(o) + 1
    BY <1>2, <1>6, <2>1
  <2> QED
    BY <1>1, <2>2, <2>3, LaterRow
<1> QED
  BY <1>7, <1>8

\* A lease that nobody works under expires without a trace.
LEMMA ExpiryKeepsPaid ==
    ASSUME IInv, TypeOK', NEW o \in Items, LeaseExpiry(o), PaidRow(o)
    PROVE  PaidRow(o)'
<1> USE DEF IInv
<1>1. /\ row' = row /\ attempts' = attempts /\ delivered' = delivered /\ harm' = harm
      /\ hand' = hand /\ pc' = pc /\ cur' = cur
  BY DEF LeaseExpiry, worker, ghosts
<1>2. \A v \in Workers : ~Current(v, o)
  BY DEF LeaseExpiry, InProgress, Current
<1>3. \A v \in Workers : ~Current(v, o)' /\ (Sending(v, o)' <=> Sending(v, o))
  BY <1>1, <1>2 DEF LeaseExpiry, TypeOK, TableType, Current, Sending
<1>4. Late(o)' \subseteq Late(o)
  BY <1>1, <1>2, <1>3 DEF Late
<1>5. Credit(o)' >= Credit(o)
  BY <1>1, <1>2, <1>3 DEF Credit
<1>6. harm'[o] >= harm[o]
  BY <1>1 DEF TypeOK, GhostType
<1> QED
  BY <1>1, <1>4, <1>5, <1>6, QuietRow

-----------------------------------------------------------------------------
\* Every step keeps every row's account: it settles the account of the row it
\* is about and does not touch the others.
LEMMA PaidStep == IInv /\ LeaseInv /\ Paid /\ [Next]_vars => Paid'
<1> SUFFICES ASSUME IInv, LeaseInv, Paid, [Next]_vars, NEW p \in Items PROVE PaidRow(p)'
  BY DEF Paid
<1>t. TypeOK /\ TypeOK' /\ PaidRow(p)
  BY TypeStep DEF IInv, Paid
<1> USE <1>t, ItemsAssumption, WorkerAssumption
<1>1. ASSUME NEW w \in Workers, ClaimLock(w) PROVE PaidRow(p)'
  <2>1. /\ hand' = hand /\ attempts' = attempts /\ fresh' = fresh /\ row' = row
        /\ delivered' = delivered /\ harm' = harm
    BY <1>1 DEF ClaimLock, ghosts
  <2>2. \A v \in Workers : Sending(v, p)' <=> Sending(v, p)
    BY <1>1 DEF ClaimLock, Sending, TypeOK, WorkerType
  <2> QED
    BY <2>1, <2>2, UntouchedRow
<1>2. ASSUME NEW w \in Workers, ClaimCommit(w) PROVE PaidRow(p)'
  BY <1>2, ClaimKeepsPaid
<1>3. ASSUME NEW w \in Workers, NEW o \in Items, PublishOk(w, o) \/ PublishFail(w, o)
      PROVE  PaidRow(p)'
  <2>1. CASE o = p
    BY <1>3, <2>1, PublishKeepsPaid, FailureKeepsPaid
  <2>2. CASE o # p
    <3>1. /\ hand' = hand /\ attempts' = attempts /\ fresh' = fresh /\ row' = row
          /\ pc[w] = "ready" /\ cur' = [cur EXCEPT ![w] = o]
          /\ (pc' = [pc EXCEPT ![w] = "complete"] \/ pc' = [pc EXCEPT ![w] = "retry"])
      BY <1>3 DEF PublishOk, PublishFail, table
    <3>2. delivered'[p] = delivered[p]
      BY <1>3, <2>2 DEF PublishOk, PublishFail, TypeOK, GhostType
    <3>3. harm'[p] = harm[p]
      BY <1>3, <2>2 DEF PublishOk, PublishFail, TypeOK, GhostType
    <3>4. \A v \in Workers : Sending(v, p)' <=> Sending(v, p)
      BY <2>2, <3>1 DEF Sending, TypeOK, WorkerType
    <3> QED
      BY <3>1, <3>2, <3>3, <3>4, UntouchedRow
  <2> QED
    BY <2>1, <2>2
<1>4. ASSUME NEW w \in Workers, Complete(w) \/ Retry(w) PROVE PaidRow(p)'
  <2>1. CASE p = cur[w]
    BY <1>4, <2>1, CompleteKeepsPaid, RetryKeepsPaid
  <2>2. CASE p # cur[w]
    <3>1. /\ Settle(w) /\ Unlease(cur[w]) /\ attempts' = attempts
          /\ delivered' = delivered /\ harm' = harm
      BY <1>4 DEF Complete, Retry, ghosts
    <3>2. row'[p] = row[p]
      BY <1>4, <2>2 DEF Complete, Retry, TypeOK, TableType
    <3>3. fresh'[p] = fresh[p]
      BY <2>2, <3>1 DEF Unlease, TypeOK, TableType
    <3>4. \A v \in Workers : hand'[v][p] = hand[v][p]
      BY <2>2, <3>1 DEF Settle, TypeOK, WorkerType
    <3>5. \A v \in Workers : Sending(v, p)' <=> Sending(v, p)
      BY <2>2, <3>1 DEF Settle, Sending, TypeOK, WorkerType
    <3> QED
      BY <3>1, <3>2, <3>3, <3>4, <3>5, UntouchedRow
  <2> QED
    BY <2>1, <2>2
<1>5. ASSUME NEW w \in Workers, Abort(w) \/ Crash(w) PROVE PaidRow(p)'
  BY <1>5, AbortKeepsPaid, CrashKeepsPaid
<1>6. ASSUME NEW o \in Items, LeaseLapse(o) \/ LeaseExpiry(o) PROVE PaidRow(p)'
  <2>1. CASE o = p
    BY <1>6, <2>1, LapseKeepsPaid, ExpiryKeepsPaid
  <2>2. CASE o # p
    <3>1. /\ hand' = hand /\ attempts' = attempts /\ row' = row /\ pc' = pc /\ cur' = cur
          /\ delivered' = delivered
      BY <1>6 DEF LeaseLapse, LeaseExpiry, worker, ghosts
    <3>2. fresh'[p] = fresh[p]
      BY <1>6, <2>2 DEF LeaseLapse, LeaseExpiry, TypeOK, TableType
    <3>3. harm'[p] = harm[p]
      BY <1>6, <2>2 DEF LeaseLapse, LeaseExpiry, ghosts, TypeOK, GhostType
    <3>4. \A v \in Workers : Sending(v, p)' <=> Sending(v, p)
      BY <3>1 DEF Sending
    <3> QED
      BY <3>1, <3>2, <3>3, <3>4, UntouchedRow
  <2> QED
    BY <2>1, <2>2
<1>7. CASE (\E o \in Items : Enqueue(o) \/ BackoffEnds(o)) \/ UNCHANGED vars
  <2>1. /\ hand' = hand /\ attempts' = attempts /\ fresh' = fresh /\ pc' = pc /\ cur' = cur
        /\ delivered' = delivered /\ harm' = harm
    BY <1>7 DEF Enqueue, BackoffEnds, vars, table, worker, ghosts
  <2>2. row'[p] = "published" <=> row[p] = "published"
    BY <1>7 DEF Enqueue, BackoffEnds, vars, table, TypeOK, TableType
  <2>3. \A v \in Workers : Sending(v, p)' <=> Sending(v, p)
    BY <2>1 DEF Sending
  <2> QED
    BY <2>1, <2>2, <2>3, UntouchedRow
<1> QED
  BY <1>1, <1>2, <1>3, <1>4, <1>5, <1>6, <1>7 DEF Next, RunOnce

\* A row is delivered at most once more than faults have hit it, however many
\* workers, lapsed leases and crashes there are.
THEOREM DuplicatesArePaidFor == Spec => []DuplicatesNeedFaults
<1>1. Init => LeaseInv /\ Paid
  <2> SUFFICES ASSUME Init PROVE LeaseInv /\ Paid
    OBVIOUS
  <2>1. LeaseInv
    BY DEF Init, LeaseInv, FreshPending, CurrentOwns, Current
  <2>2. ASSUME NEW o \in Items PROVE PaidRow(o)
    <3>1. Late(o) = {}
      BY DEF Init, EmptyHand, Late
    <3>2. delivered[o] = 0 /\ harm[o] = 0
      BY DEF Init
    <3>3. Credit(o) \in {0, 1}
      BY DEF Credit
    <3> QED
      BY <3>1, <3>2, <3>3, FS_EmptySet DEF PaidRow
  <2> QED
    BY <2>1, <2>2 DEF Paid
<1>2. IInv /\ LeaseInv /\ Paid /\ [Next]_vars => LeaseInv' /\ Paid'
  BY LeaseStep, PaidStep
<1>3. IInv /\ Paid => DuplicatesNeedFaults
  <2> SUFFICES ASSUME IInv, Paid, NEW o \in Items PROVE delivered[o] <= 1 + harm[o]
    BY DEF DuplicatesNeedFaults
  <2> DEFINE n == Cardinality(Late(o))
  <2>1. IsFiniteSet(Late(o)) /\ delivered[o] + n <= harm[o] + Credit(o)
    BY DEF Paid, PaidRow
  <2>2. n \in Nat
    BY <2>1, FS_CardinalityType
  <2>3. Credit(o) \in {0, 1} /\ delivered[o] \in Nat /\ harm[o] \in Nat
    BY DEF Credit, IInv, TypeOK, GhostType
  <2> HIDE DEF n
  <2> QED
    BY <2>1, <2>2, <2>3
<1> QED
  BY <1>1, <1>2, <1>3, Invariance, PTL DEF Spec
=============================================================================
