------------------------------ MODULE RunRecords ------------------------------
(***************************************************************************)
(* The append-only records of a run: agent activities (migrations/0002),   *)
(* written in batches by PostgresStore.append_agent_activities, and effect *)
(* records (migrations/0003), written in pairs of a receipt and its        *)
(* reconciliation by persist_effect_records.  Both transactions lock the   *)
(* row of the run and then treat their documents one after the other.      *)
(*                                                                         *)
(* A hash is the value it commits to: a document names its predecessor or  *)
(* its receipt by containing it, and sealed says that its own record_hash  *)
(* and body_hash are right.                                                *)
(***************************************************************************)
EXTENDS Naturals, Sequences, FiniteSets

CONSTANTS
    Callers,      \* processes that call the store
    Runs,         \* stored runs
    ScopeOf,      \* tenant_id and case_id of each run
    Requests,     \* the calls they may make
    Nothing,      \* None
    MaxFaults     \* bound: failed transactions and lost answers

\* Every document has an id, the run and scope it claims, and sealed.
\*   activity:        sequence, previous (a set with at most one document)
\*   receipt:         nothing more that is looked at
\*   reconciliation:  receiptId, and receipt, the document that receipt_hash
\*                    commits to
Documents(q) == {q.documents[i] : i \in 1..Len(q.documents)}

IsRequest(q) ==
    /\ DOMAIN q = {"kind", "run", "documents"}
    /\ q.kind \in {"activities", "effects"}
    /\ q.documents \in Seq(Documents(q)) /\ Len(q.documents) > 0
    /\ q.kind = "activities" =>
         \A d \in Documents(q) : d.kind = "activity" /\ d.sequence \in Nat
    /\ q.kind = "effects" =>
         /\ Len(q.documents) = 2
         /\ q.documents[1].kind = "receipt"
         /\ q.documents[2].kind = "reconciliation"

AllDocuments == UNION {Documents(q) : q \in Requests}

ASSUME RequestsAssumption == \A q \in Requests : IsRequest(q)
ASSUME KindsHaveTheirIds ==     \* event_..., receipt_..., reconciliation_...
    \A d, e \in AllDocuments : d.id = e.id => d.kind = e.kind
ASSUME NothingAssumption == Nothing \notin Requests /\ Nothing \notin {"stored", "refused"}
ASSUME FaultAssumption == MaxFaults \in Nat

VARIABLES
    \* the tables, committed rows only
    activities, effects,
    outbox,       \* number of outbox rows for each document id
    \* the callers and their transactions
    pc, request, answer,
    next,         \* index of the document that is treated next
    tail,         \* expected_previous: a set with at most one document
    written       \* documents inserted by the open transaction

tables == <<activities, effects, outbox>>
calls  == <<pc, request, answer, next, tail, written>>

VARIABLE faults
vars == <<tables, calls, faults>>

Ids == {d.id : d \in AllDocuments}

Init ==
    /\ activities = {}
    /\ effects = {}
    /\ outbox = [i \in Ids |-> 0]
    /\ pc = [c \in Callers |-> "idle"]
    /\ request = [c \in Callers |-> Nothing]
    /\ answer = [c \in Callers |-> Nothing]
    /\ next = [c \in Callers |-> 1]
    /\ tail = [c \in Callers |-> {}]
    /\ written = [c \in Callers |-> {}]
    /\ faults = 0

\* The lock on the row in runs; the mutant never releases it.
HoldsRunForever(c, n) == pc[c] \notin {"idle", "run"} /\ request[c].run = n
HoldsRun(c, n) == pc[c] \in {"previous", "insert"} /\ request[c].run = n

\* An uncommitted row with the same primary key, which an INSERT waits for.
Waits(c, d) == \E b \in Callers \ {c} : \E e \in written[b] : e.id = d.id

Goto(c, label) == pc' = [pc EXCEPT ![c] = label]

\* The transaction ends and forgets what it worked with.
Close(c, label) ==
    /\ Goto(c, label)
    /\ next' = [next EXCEPT ![c] = 1]
    /\ tail' = [tail EXCEPT ![c] = {}]
    /\ written' = [written EXCEPT ![c] = {}]

Reply(c, what) == answer' = [answer EXCEPT ![c] = what] /\ Close(c, "done")

-----------------------------------------------------------------------------
Ask(c, q) ==
    /\ pc[c] = "idle"
    /\ request[c] \in {Nothing, q}      \* a failed call is repeated as it was
    /\ request' = [request EXCEPT ![c] = q]
    /\ Goto(c, "run")
    /\ UNCHANGED <<tables, answer, next, tail, written, faults>>

\* The reconciliation names the receipt it comes with, by id and by hash; the
\* mutant compares the id alone.
BoundById(q) == q.documents[2].receiptId = q.documents[1].id
Bound(q) ==
    /\ q.documents[2].receiptId = q.documents[1].id
    /\ q.documents[2].receipt = q.documents[1]

\* SELECT ... FROM runs FOR UPDATE, and the checks that need no table.
LockRun(c) ==
    LET q == request[c] IN
    /\ pc[c] = "run"
    /\ ~ \E b \in Callers : HoldsRun(b, q.run)
    /\ IF q.run \in Runs /\ (q.kind = "effects" => Bound(q))
       THEN /\ Goto(c, IF q.kind = "activities" THEN "previous" ELSE "insert")
            /\ UNCHANGED <<answer, next, tail, written>>
       ELSE Reply(c, "refused")
    /\ UNCHANGED <<tables, request, faults>>

\* ORDER BY sequence DESC LIMIT 1: one row, or none.
Last(rows) == {d \in rows : \A e \in rows : e.sequence <= d.sequence}
Of(n) == {d \in activities : d.run = n}

ReadPrevious(c) ==
    /\ pc[c] = "previous"
    /\ tail' = [tail EXCEPT ![c] = Last(Of(request[c].run))]
    /\ Goto(c, "insert")
    /\ UNCHANGED <<tables, request, answer, next, written, faults>>

Unfinished(c) == next[c] <= Len(request[c].documents)
Current(c) == request[c].documents[next[c]]

\* Scope and integrity, as both transactions check them.
InScope(c, d) ==
    /\ d.run = request[c].run
    /\ d.scope = ScopeOf[request[c].run]
    /\ d.sealed

\* The record continues the chain; the mutant checks the number alone.
ContinuesByNumber(d, prev) ==
    d.sequence = IF prev = {} THEN 0 ELSE (CHOOSE e \in prev : TRUE).sequence + 1
Continues(d, prev) == ContinuesByNumber(d, prev) /\ d.previous = prev

\* UNIQUE (event_id) and UNIQUE (run_id, sequence), against committed rows and
\* those of the transaction itself.
RowIsFree(c, d) ==
    \A e \in activities \union written[c] :
        e.id # d.id /\ (e.run = d.run => e.sequence # d.sequence)

InsertActivity(c) ==
    LET d == Current(c) IN
    /\ pc[c] = "insert" /\ request[c].kind = "activities" /\ Unfinished(c)
    /\ InScope(c, d) /\ Continues(d, tail[c]) => ~Waits(c, d)
    /\ IF InScope(c, d) /\ Continues(d, tail[c]) /\ RowIsFree(c, d)
       THEN /\ written' = [written EXCEPT ![c] = @ \union {d}]
            /\ tail' = [tail EXCEPT ![c] = {d}]
            /\ next' = [next EXCEPT ![c] = @ + 1]
            /\ UNCHANGED <<pc, answer>>
       ELSE Reply(c, "refused")
    /\ UNCHANGED <<tables, request, faults>>

\* The record_id is stored, with the same type and hash.  The mutants miss the
\* conflict, and take no document for a replay.
NeverStored(d) == FALSE
IsStored(d) == \E e \in effects : e.id = d.id

NoReplay(d) == FALSE
IsReplay(d) == d \in effects

\* INSERT ... ON CONFLICT (record_id) DO NOTHING, and the comparison with the
\* stored row when there is one.
InsertEffect(c) ==
    LET d == Current(c) IN
    /\ pc[c] = "insert" /\ request[c].kind = "effects" /\ Unfinished(c)
    /\ InScope(c, d) => ~Waits(c, d)
    /\ IF InScope(c, d) /\ (IsStored(d) => IsReplay(d))
       THEN /\ written' = [written EXCEPT ![c] = IF IsStored(d) THEN @ ELSE @ \union {d}]
            /\ next' = [next EXCEPT ![c] = @ + 1]
            /\ UNCHANGED <<pc, answer, tail>>
       ELSE Reply(c, "refused")
    /\ UNCHANGED <<tables, request, faults>>

\* The transaction may commit; the mutant commits after every document.
FinishedEarly(c) == written[c] # {}
Finished(c) == ~Unfinished(c)

\* The outbox rows the transaction inserts for an id, one for every document it
\* inserts.
Announces(c, i) == Cardinality({d \in written[c] : d.id = i})

\* CHECK (record_type IN ...) of effect_records.
EffectTypes == {"receipt", "reconciliation"}

Commit(c) ==
    LET new(kinds) == {d \in written[c] : d.kind \in kinds} IN
    /\ pc[c] = "insert" /\ Finished(c)
    /\ activities' = activities \union new({"activity"})
    /\ effects' = effects \union new(EffectTypes)
    /\ outbox' = [i \in Ids |-> outbox[i] + Announces(c, i)]
    /\ Reply(c, "stored")
    /\ UNCHANGED <<request, faults>>

\* The process or the database fails before the commit; locks are released.
Fail(c) ==
    /\ pc[c] \notin {"idle", "done"}
    /\ faults < MaxFaults
    /\ Close(c, "idle")
    /\ faults' = faults + 1
    /\ UNCHANGED <<tables, request, answer>>

\* The call ends, but its caller never learns how.
LoseAnswer(c) ==
    /\ pc[c] = "done"
    /\ faults < MaxFaults
    /\ answer' = [answer EXCEPT ![c] = Nothing]
    /\ Close(c, "idle")
    /\ faults' = faults + 1
    /\ UNCHANGED <<tables, request>>

-----------------------------------------------------------------------------
Step(c) ==
    \/ request[c] # Nothing /\ Ask(c, request[c])
    \/ LockRun(c)
    \/ ReadPrevious(c)
    \/ InsertActivity(c)
    \/ InsertEffect(c)
    \/ Commit(c)

Next == \E c \in Callers : \/ \E q \in Requests : Ask(c, q)
                           \/ Step(c)
                           \/ Fail(c)
                           \/ LoseAnswer(c)

Spec == Init /\ [][Next]_vars

\* A call that was made runs on, and a failed call is made again.
FairSpec == Spec /\ \A c \in Callers : WF_vars(Step(c))

-----------------------------------------------------------------------------
(***************************************************************************)
(* Properties                                                              *)
(***************************************************************************)
\* Every variable keeps its type.
TypeOK ==
    /\ activities \subseteq {d \in AllDocuments : d.kind = "activity"}
    /\ effects \subseteq {d \in AllDocuments : d.kind # "activity"}
    /\ outbox \in [Ids -> Nat]
    /\ pc \in [Callers -> {"idle", "run", "previous", "insert", "done"}]
    /\ request \in [Callers -> Requests \union {Nothing}]
    /\ answer \in [Callers -> {"stored", "refused", Nothing}]
    /\ next \in [Callers -> Nat \ {0}]
    /\ tail \in [Callers -> SUBSET AllDocuments]
    /\ written \in [Callers -> SUBSET AllDocuments]
    /\ faults \in 0..MaxFaults

\* reconstruct_agent_activities never fails closed on what was stored: the
\* activities of a run are numbered from zero without gaps, each is chained
\* to the one before, and every hash is right.
ReconstructionSucceeds ==
    \A n \in Runs :
        /\ {d.sequence : d \in Of(n)} = 0..(Cardinality(Of(n)) - 1)
        /\ \A d \in Of(n) :
               /\ d.sealed
               /\ d.previous = {e \in Of(n) : e.sequence + 1 = d.sequence}

\* A batch of activities, or a receipt with its reconciliation, is stored as a
\* whole or not at all, also when a later document of it is refused.
BatchesAreWhole ==
    \A d \in activities \union effects :
        \E q \in Requests : d \in Documents(q) /\ Documents(q) \subseteq activities \union effects

\* An id stands for one effect record, and a stored reconciliation is bound by
\* hash to a receipt that is stored too.
EffectsAreBound ==
    /\ \A d, e \in effects : d.id = e.id => d = e
    /\ \A d \in effects : d.kind = "reconciliation" => d.receipt \in effects

\* Every stored document has exactly one outbox row, and no other has one.
AnnouncedOnce ==
    \A i \in Ids :
        outbox[i] = IF \E d \in activities \union effects : d.id = i THEN 1 ELSE 0

\* Effect records that are in scope and bound are refused only over a stored
\* record with the same id and another content: a replay after a failed
\* transaction or a lost answer is never refused.
ExactReplaysAreAccepted ==
    [][\A c \in Callers :
          LET q == request[c] IN
          /\ pc[c] # "done" /\ answer'[c] = "refused"
          /\ q.kind = "effects" /\ q.run \in Runs /\ Bound(q)
          /\ \A d \in Documents(q) : InScope(c, d)
          => \E d \in Documents(q), e \in effects : e.id = d.id /\ e # d]_vars

\* Every call is answered: the locks on runs and ids cannot deadlock.
EveryCallIsAnswered ==
    \A c \in Callers : pc[c] = "run" ~> pc[c] = "done"
=============================================================================
