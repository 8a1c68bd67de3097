---------------------------- MODULE RunCreation ----------------------------
(***************************************************************************)
(* PostgresStore.create_run, statement by statement, under concurrent      *)
(* callers of ControlPlaneService.create_run: the idempotency key is       *)
(* claimed by an INSERT ... ON CONFLICT DO NOTHING, then the run, its      *)
(* first journal record, its outbox row and the result of the key are      *)
(* written in the same transaction.                                        *)
(*                                                                         *)
(* The tables hold what is committed.  What an open transaction has        *)
(* written is visible to no other caller, but its uncommitted key row      *)
(* makes an INSERT of the same key wait (READ COMMITTED, the default of    *)
(* PostgreSQL and of psycopg).                                             *)
(***************************************************************************)
EXTENDS Naturals

CONSTANTS
    Callers,      \* concurrent callers of create_run
    Requests,     \* (RunRequest, idempotency key) pairs
    Keys,         \* primary keys of idempotency_keys
    Runs,         \* run_id values
    KeyOf,        \* the (tenant, subject, operation, key) of a request
    RunOf,        \* the run_id derived from a request
    Nothing,      \* SQL NULL, no row, no caller
    MaxFaults     \* bound: failed transactions and lost answers

\* The run_id hashes tenant, subject, idempotency key and case, so requests
\* with the same run_id have the same key.
ASSUME RequestsAssumption ==
    /\ KeyOf \in [Requests -> Keys]
    /\ RunOf \in [Requests -> Runs]
    /\ \A r, s \in Requests : RunOf[r] = RunOf[s] => KeyOf[r] = KeyOf[s]
ASSUME NothingAssumption ==
    /\ Nothing \notin Requests \union Runs \union Callers
    /\ "refused" \notin Runs \union {Nothing}
ASSUME FaultAssumption == MaxFaults \in Nat

VARIABLES
    \* committed tables
    keyRequest,   \* idempotency_keys.request_hash, by key; Nothing: no row
    keyResult,    \* idempotency_keys.result_ref, by key
    runs,         \* the request whose run row is stored, by run_id
    journal,      \* number of journal records of each run
    outbox,       \* number of outbox rows of each run
    \* the open transactions
    keyHolder,    \* the caller whose uncommitted row holds the key
    written,      \* what the transaction of each caller has written
    \* the callers
    pc, request, answer,
    faults

tables == <<keyRequest, keyResult, runs, journal, outbox>>
vars == <<tables, keyHolder, written, pc, request, answer, faults>>

Tables == {"run", "journal", "outbox", "result"}
Labels == {"idle", "claim", "existing", "run", "journal", "outbox", "result",
           "commit", "done"}
Errors == {"refused", "unresolved"}

\* Every variable keeps its type.
TypeOK ==
    /\ keyRequest \in [Keys -> Requests \union {Nothing}]
    /\ keyResult \in [Keys -> Runs \union {Nothing}]
    /\ runs \in [Runs -> Requests \union {Nothing}]
    /\ journal \in [Runs -> Nat]
    /\ outbox \in [Runs -> Nat]
    /\ keyHolder \in [Keys -> Callers \union {Nothing}]
    /\ written \in [Callers -> SUBSET Tables]
    /\ pc \in [Callers -> Labels]
    /\ request \in [Callers -> Requests \union {Nothing}]
    /\ answer \in [Callers -> Runs \union Errors \union {Nothing}]
    /\ faults \in 0..MaxFaults

Init ==
    /\ keyRequest = [k \in Keys |-> Nothing]
    /\ keyResult = [k \in Keys |-> Nothing]
    /\ runs = [n \in Runs |-> Nothing]
    /\ journal = [n \in Runs |-> 0]
    /\ outbox = [n \in Runs |-> 0]
    /\ keyHolder = [k \in Keys |-> Nothing]
    /\ written = [c \in Callers |-> {}]
    /\ pc = [c \in Callers |-> "idle"]
    /\ request = [c \in Callers |-> Nothing]
    /\ answer = [c \in Callers |-> Nothing]
    /\ faults = 0

Key(c) == KeyOf[request[c]]
Run(c) == RunOf[request[c]]
Goto(c, label) == pc' = [pc EXCEPT ![c] = label]

-----------------------------------------------------------------------------
Ask(c, r) ==
    /\ pc[c] = "idle"
    /\ request[c] = Nothing
    /\ request' = [request EXCEPT ![c] = r]
    /\ Goto(c, "claim")
    /\ UNCHANGED <<tables, keyHolder, written, answer, faults>>

\* A caller whose call failed calls again with the same request and key.
AskAgain(c) ==
    /\ pc[c] = "idle"
    /\ request[c] # Nothing
    /\ Goto(c, "claim")
    /\ UNCHANGED <<tables, keyHolder, written, request, answer, faults>>

\* An open transaction has inserted the key; a committed row has it.  The
\* mutants neither wait for the first nor see the second.
NeverWaits(c) == FALSE
KeyWaits(c) == keyHolder[Key(c)] # Nothing

NeverConflicts(c) == FALSE
KeyConflicts(c) == keyRequest[Key(c)] # Nothing

\* INSERT INTO idempotency_keys ... ON CONFLICT DO NOTHING RETURNING: waits
\* for an open transaction that inserted the key, and inserts if there is no
\* committed row.
ClaimKey(c) ==
    /\ pc[c] = "claim"
    /\ ~KeyWaits(c) /\ ~KeyConflicts(c)
    /\ keyHolder' = [keyHolder EXCEPT ![Key(c)] = c]
    /\ Goto(c, "run")
    /\ UNCHANGED <<tables, written, request, answer, faults>>

KeyExists(c) ==
    /\ pc[c] = "claim"
    /\ ~KeyWaits(c) /\ KeyConflicts(c)
    /\ Goto(c, "existing")
    /\ UNCHANGED <<tables, keyHolder, written, request, answer, faults>>

\* The answer create_run gives for a key that already has a row.
Replay(c) ==
    IF keyRequest[Key(c)] # request[c] THEN "refused"
    ELSE IF keyResult[Key(c)] = Nothing THEN "unresolved"
    ELSE keyResult[Key(c)]

ReadExisting(c) ==
    /\ pc[c] = "existing"
    /\ answer' = [answer EXCEPT ![c] = Replay(c)]
    /\ Goto(c, "done")
    /\ UNCHANGED <<tables, keyHolder, written, request, faults>>

Write(c, what, next) ==
    /\ pc[c] = what
    /\ written' = [written EXCEPT ![c] = @ \union {what}]
    /\ Goto(c, next)
    /\ UNCHANGED <<tables, keyHolder, request, answer, faults>>

\* A mutant of RollBack: the key stays locked.
RollBackKeepsKey(c) == written' = [written EXCEPT ![c] = {}] /\ UNCHANGED keyHolder

\* The connection closes: what the transaction wrote is gone, the key is free.
RollBack(c) ==
    /\ written' = [written EXCEPT ![c] = {}]
    /\ keyHolder' = [k \in Keys |-> IF keyHolder[k] = c THEN Nothing ELSE keyHolder[k]]

\* The primary key of runs refuses a second row of the same run_id.
RunIsStored(c) == runs[Run(c)] # Nothing

\* The statements in order; the mutant leaves out the outbox row.
SkipsOutbox(c) == Write(c, "journal", "result")

InsertRun(c) == Write(c, "run", "journal") /\ ~RunIsStored(c)
InsertJournal(c) == Write(c, "journal", "outbox")
InsertOutbox(c) == Write(c, "outbox", "result")
SetResult(c) == Write(c, "result", "commit")

\* All writes become visible and the caller is told the run.
Commit(c) ==
    LET k == Key(c)
        n == Run(c)
        stored(what) == what \in written[c] IN
    /\ pc[c] = "commit"
    /\ keyRequest' = [keyRequest EXCEPT ![k] = request[c]]
    /\ keyResult' = [keyResult EXCEPT ![k] = IF stored("result") THEN n ELSE @]
    /\ runs' = [runs EXCEPT ![n] = IF stored("run") THEN request[c] ELSE @]
    /\ journal' = [journal EXCEPT ![n] = IF stored("journal") THEN @ + 1 ELSE @]
    /\ outbox' = [outbox EXCEPT ![n] = IF stored("outbox") THEN @ + 1 ELSE @]
    /\ RollBack(c)
    /\ answer' = [answer EXCEPT ![c] = n]
    /\ Goto(c, "done")
    /\ UNCHANGED <<request, faults>>

\* The process or the database fails before the commit.
Fail(c) ==
    /\ pc[c] \notin {"idle", "done"}
    /\ faults < MaxFaults
    /\ RollBack(c)
    /\ Goto(c, "idle")
    /\ faults' = faults + 1
    /\ UNCHANGED <<tables, request, answer>>

\* The call ends, but its caller never learns how.
LoseAnswer(c) ==
    /\ pc[c] = "done"
    /\ faults < MaxFaults
    /\ answer' = [answer EXCEPT ![c] = Nothing]
    /\ Goto(c, "idle")
    /\ faults' = faults + 1
    /\ UNCHANGED <<tables, keyHolder, written, request>>

-----------------------------------------------------------------------------
Step(c) ==
    \/ AskAgain(c)
    \/ ClaimKey(c)
    \/ KeyExists(c)
    \/ ReadExisting(c)
    \/ InsertRun(c)
    \/ InsertJournal(c)
    \/ InsertOutbox(c)
    \/ SetResult(c)
    \/ Commit(c)

Next == \E c \in Callers :
    \/ \E r \in Requests : Ask(c, r)
    \/ Step(c)
    \/ Fail(c)
    \/ LoseAnswer(c)

Spec == Init /\ [][Next]_vars

\* A call that was made runs on, and a failed call is made again.
FairSpec == Spec /\ \A c \in Callers : WF_vars(Step(c))

-----------------------------------------------------------------------------
(***************************************************************************)
(* Properties                                                              *)
(***************************************************************************)

\* State, journal, outbox and the key's result are stored together or not at
\* all, whatever fails: a stored run has exactly one journal record and one
\* outbox row, and is the result of the key of the request it was created for.
AllOrNothing ==
    \A n \in Runs :
        /\ journal[n] = (IF runs[n] = Nothing THEN 0 ELSE 1)
        /\ outbox[n] = journal[n]
        /\ runs[n] # Nothing => /\ RunOf[runs[n]] = n
                                /\ keyRequest[KeyOf[runs[n]]] = runs[n]
                                /\ keyResult[KeyOf[runs[n]]] = n

\* A key whose row is visible has its result, and the run of that result is
\* stored: create_run's "no committed result" error never comes up.
KeysAreResolved ==
    \A k \in Keys : keyRequest[k] # Nothing =>
        keyResult[k] \in Runs /\ runs[keyResult[k]] = keyRequest[k]

\* A caller that claimed its key never meets the run_id of an earlier run: the
\* INSERT into runs, which has no ON CONFLICT clause, cannot fail on a replay.
NoCallerIsStuck ==
    \A c \in Callers : pc[c] = "run" => ~RunIsStored(c)

\* create_run never answers with a run created for another request.
AnswersAreOwn ==
    \A c \in Callers : answer[c] \notin {Nothing, "refused"} =>
        answer[c] \in Runs /\ runs[answer[c]] = request[c]

\* Every call is answered in the end, even behind transactions that fail
\* while they hold the key.
EveryCallIsAnswered ==
    \A c \in Callers : request[c] # Nothing ~> answer[c] # Nothing

\* create_run behaves like a registry in which each call takes effect at once.
Registry == INSTANCE IdempotentRegistry WITH
    bound <- keyRequest,
    asked <- request,
    told <- answer

IsIdempotent == Registry!Spec
=============================================================================
