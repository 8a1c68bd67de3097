------------------------- MODULE RunCreationProofs -------------------------
(***************************************************************************)
(* Proofs about create_run for any number of callers, requests, keys and   *)
(* failures.  The inductive invariant says that a caller between its claim *)
(* and its commit holds its key, that a held key has no committed row, and *)
(* what its transaction has written so far.                                *)
(***************************************************************************)
EXTENDS RunCreation, TLAPS

\* The labels of an open transaction that claimed its key.
Writing == {"run", "journal", "outbox", "result", "commit"}

\* Only a caller that was asked for something is under way.
CallsHaveRequests ==
    \A c \in Callers : pc[c] # "idle" => request[c] \in Requests

\* A held key is free in the table and held by a caller writing under it.
HoldersWrite ==
    \A k \in Keys, c \in Callers : keyHolder[k] = c =>
        pc[c] \in Writing /\ Key(c) = k /\ keyRequest[k] = Nothing

WritersHold ==
    \A c \in Callers : pc[c] \in Writing => keyHolder[Key(c)] = c

\* What a transaction has written follows from where it is.
WrittenSoFar ==
    \A c \in Callers : written[c] =
        IF pc[c] = "journal" THEN {"run"}
        ELSE IF pc[c] = "outbox" THEN {"run", "journal"}
        ELSE IF pc[c] = "result" THEN {"run", "journal", "outbox"}
        ELSE IF pc[c] = "commit" THEN Tables
        ELSE {}

\* A key found in the table stays there.
ExistingKeys ==
    \A c \in Callers : pc[c] = "existing" => keyRequest[Key(c)] # Nothing

\* A key that is not in the table has no result, and one that is binds a
\* request of its own.
KeysBindTheirOwn ==
    \A k \in Keys : keyRequest[k] # Nothing =>
        KeyOf[keyRequest[k]] = k /\ keyResult[k] = RunOf[keyRequest[k]]

\* Answers exist only for finished calls.
AnswersAreFinal ==
    \A c \in Callers : answer[c] # Nothing => pc[c] = "done"

IInv ==
    /\ TypeOK
    /\ CallsHaveRequests
    /\ HoldersWrite
    /\ WritersHold
    /\ WrittenSoFar
    /\ ExistingKeys
    /\ KeysBindTheirOwn
    /\ AnswersAreFinal
    /\ AllOrNothing
    /\ KeysAreResolved
    /\ AnswersAreOwn

-----------------------------------------------------------------------------
\* Every step keeps the inductive invariant.
LEMMA IInvStep == IInv /\ [Next]_vars => IInv'
<1> USE RequestsAssumption, NothingAssumption, FaultAssumption
<1> SUFFICES ASSUME IInv, [Next]_vars PROVE IInv'
  OBVIOUS
<1> USE DEF IInv, TypeOK, Key, Run, Goto
<1>1. ASSUME NEW c \in Callers, NEW r \in Requests, Ask(c, r) PROVE IInv'
  <2>1. TypeOK'
    BY <1>1 DEF Ask, tables, Labels, Errors, Tables
  <2>2. CallsHaveRequests'
    BY <1>1 DEF Ask, tables, CallsHaveRequests
  <2>3. HoldersWrite'
    BY <1>1 DEF Ask, tables, HoldersWrite, Writing
  <2>4. WritersHold'
    BY <1>1 DEF Ask, tables, WritersHold, Writing
  <2>5. WrittenSoFar'
    BY <1>1 DEF Ask, tables, WrittenSoFar, Tables
  <2>6. ExistingKeys'
    BY <1>1 DEF Ask, tables, ExistingKeys
  <2>7. KeysBindTheirOwn'
    BY <1>1 DEF Ask, tables, KeysBindTheirOwn
  <2>8. AnswersAreFinal'
    BY <1>1 DEF Ask, tables, AnswersAreFinal
  <2>9. AllOrNothing'
    BY <1>1 DEF Ask, tables, AllOrNothing
  <2>10. KeysAreResolved'
    BY <1>1 DEF Ask, tables, KeysAreResolved
  <2>11. AnswersAreOwn'
    BY <1>1 DEF Ask, tables, AnswersAreOwn, AnswersAreFinal
  <2> QED
    BY <2>1, <2>2, <2>3, <2>4, <2>5, <2>6, <2>7, <2>8, <2>9, <2>10, <2>11
<1>2. ASSUME NEW c \in Callers, AskAgain(c) PROVE IInv'
  <2>1. TypeOK'
    BY <1>2 DEF AskAgain, tables, Labels, Errors, Tables
  <2>2. CallsHaveRequests'
    BY <1>2 DEF AskAgain, tables, CallsHaveRequests
  <2>3. HoldersWrite'
    BY <1>2 DEF AskAgain, tables, HoldersWrite, Writing
  <2>4. WritersHold'
    BY <1>2 DEF AskAgain, tables, WritersHold, Writing
  <2>5. WrittenSoFar'
    BY <1>2 DEF AskAgain, tables, WrittenSoFar, Tables
  <2>6. ExistingKeys'
    BY <1>2 DEF AskAgain, tables, ExistingKeys
  <2>7. KeysBindTheirOwn'
    BY <1>2 DEF AskAgain, tables, KeysBindTheirOwn
  <2>8. AnswersAreFinal'
    BY <1>2 DEF AskAgain, tables, AnswersAreFinal
  <2>9. AllOrNothing'
    BY <1>2 DEF AskAgain, tables, AllOrNothing
  <2>10. KeysAreResolved'
    BY <1>2 DEF AskAgain, tables, KeysAreResolved
  <2>11. AnswersAreOwn'
    BY <1>2 DEF AskAgain, tables, AnswersAreOwn
  <2> QED
    BY <2>1, <2>2, <2>3, <2>4, <2>5, <2>6, <2>7, <2>8, <2>9, <2>10, <2>11
<1>3. ASSUME NEW c \in Callers, ClaimKey(c) PROVE IInv'
  <2>1. TypeOK'
    BY <1>3 DEF ClaimKey, tables, Labels, Errors, Tables
  <2>2. CallsHaveRequests'
    BY <1>3 DEF ClaimKey, tables, CallsHaveRequests
  <2>3. HoldersWrite'
    BY <1>3 DEF ClaimKey, KeyWaits, KeyConflicts, tables, HoldersWrite, Writing
  <2>4. WritersHold'
    BY <1>3 DEF ClaimKey, KeyWaits, tables, WritersHold, Writing, CallsHaveRequests
  <2>5. WrittenSoFar'
    BY <1>3 DEF ClaimKey, tables, WrittenSoFar, Tables
  <2>6. ExistingKeys'
    BY <1>3 DEF ClaimKey, tables, ExistingKeys
  <2>7. KeysBindTheirOwn'
    BY <1>3 DEF ClaimKey, tables, KeysBindTheirOwn
  <2>8. AnswersAreFinal'
    BY <1>3 DEF ClaimKey, tables, AnswersAreFinal
  <2>9. AllOrNothing'
    BY <1>3 DEF ClaimKey, tables, AllOrNothing
  <2>10. KeysAreResolved'
    BY <1>3 DEF ClaimKey, tables, KeysAreResolved
  <2>11. AnswersAreOwn'
    BY <1>3 DEF ClaimKey, tables, AnswersAreOwn
  <2> QED
    BY <2>1, <2>2, <2>3, <2>4, <2>5, <2>6, <2>7, <2>8, <2>9, <2>10, <2>11
<1>4. ASSUME NEW c \in Callers, KeyExists(c) PROVE IInv'
  <2>1. TypeOK'
    BY <1>4 DEF KeyExists, tables, Labels, Errors, Tables
  <2>2. CallsHaveRequests'
    BY <1>4 DEF KeyExists, tables, CallsHaveRequests
  <2>3. HoldersWrite'
    BY <1>4 DEF KeyExists, tables, HoldersWrite, Writing
  <2>4. WritersHold'
    BY <1>4 DEF KeyExists, tables, WritersHold, Writing
  <2>5. WrittenSoFar'
    BY <1>4 DEF KeyExists, tables, WrittenSoFar, Tables
  <2>6. ExistingKeys'
    BY <1>4 DEF KeyExists, KeyConflicts, tables, ExistingKeys
  <2>7. KeysBindTheirOwn'
    BY <1>4 DEF KeyExists, tables, KeysBindTheirOwn
  <2>8. AnswersAreFinal'
    BY <1>4 DEF KeyExists, tables, AnswersAreFinal
  <2>9. AllOrNothing'
    BY <1>4 DEF KeyExists, tables, AllOrNothing
  <2>10. KeysAreResolved'
    BY <1>4 DEF KeyExists, tables, KeysAreResolved
  <2>11. AnswersAreOwn'
    BY <1>4 DEF KeyExists, tables, AnswersAreOwn
  <2> QED
    BY <2>1, <2>2, <2>3, <2>4, <2>5, <2>6, <2>7, <2>8, <2>9, <2>10, <2>11
<1>5. ASSUME NEW c \in Callers, ReadExisting(c) PROVE IInv'
  <2>a. request[c] \in Requests /\ Key(c) \in Keys /\ keyRequest[Key(c)] # Nothing
    BY <1>5 DEF ReadExisting, CallsHaveRequests, ExistingKeys
  <2>b. Replay(c) = IF keyRequest[Key(c)] # request[c] THEN "refused" ELSE Run(c)
    BY <2>a DEF Replay, KeysBindTheirOwn
  <2>c. Replay(c) \in {"refused"} \union Runs
    BY <2>a, <2>b
  <2>1. TypeOK'
    BY <1>5, <2>c DEF ReadExisting, tables, Labels, Errors
  <2>2. CallsHaveRequests'
    BY <1>5 DEF ReadExisting, tables, CallsHaveRequests
  <2>3. HoldersWrite'
    BY <1>5 DEF ReadExisting, tables, HoldersWrite, Writing
  <2>4. WritersHold'
    BY <1>5 DEF ReadExisting, tables, WritersHold, Writing
  <2>5. WrittenSoFar'
    BY <1>5 DEF ReadExisting, tables, WrittenSoFar, Tables
  <2>6. ExistingKeys'
    BY <1>5 DEF ReadExisting, tables, ExistingKeys
  <2>7. KeysBindTheirOwn'
    BY <1>5 DEF ReadExisting, tables, KeysBindTheirOwn
  <2>8. AnswersAreFinal'
    BY <1>5 DEF ReadExisting, tables, AnswersAreFinal
  <2>9. AllOrNothing'
    BY <1>5 DEF ReadExisting, tables, AllOrNothing
  <2>10. KeysAreResolved'
    BY <1>5 DEF ReadExisting, tables, KeysAreResolved
  <2>11. AnswersAreOwn'
    BY <1>5, <2>a, <2>b, <2>c
    DEF ReadExisting, tables, AnswersAreOwn, KeysAreResolved, KeysBindTheirOwn
  <2> QED
    BY <2>1, <2>2, <2>3, <2>4, <2>5, <2>6, <2>7, <2>8, <2>9, <2>10, <2>11
<1>6. ASSUME NEW c \in Callers,
             InsertRun(c) \/ InsertJournal(c) \/ InsertOutbox(c) \/ SetResult(c)
      PROVE IInv'
  <2>1. TypeOK'
    BY <1>6 DEF InsertRun, InsertJournal, InsertOutbox, SetResult, Write, tables, Labels, Errors, Tables
  <2>2. CallsHaveRequests'
    BY <1>6 DEF InsertRun, InsertJournal, InsertOutbox, SetResult, Write, tables, CallsHaveRequests
  <2>3. HoldersWrite'
    BY <1>6 DEF InsertRun, InsertJournal, InsertOutbox, SetResult, Write, tables, HoldersWrite, Writing
  <2>4. WritersHold'
    BY <1>6 DEF InsertRun, InsertJournal, InsertOutbox, SetResult, Write, tables, WritersHold, Writing
  <2>5. WrittenSoFar'
    <3>1. CASE InsertRun(c)
      BY <3>1 DEF InsertRun, Write, WrittenSoFar
    <3>2. CASE InsertJournal(c)
      BY <3>2 DEF InsertJournal, Write, WrittenSoFar
    <3>3. CASE InsertOutbox(c)
      BY <3>3 DEF InsertOutbox, Write, WrittenSoFar
    <3>4. CASE SetResult(c)
      BY <3>4 DEF SetResult, Write, WrittenSoFar, Tables
    <3> QED
      BY <1>6, <3>1, <3>2, <3>3, <3>4
  <2>6. ExistingKeys'
    BY <1>6 DEF InsertRun, InsertJournal, InsertOutbox, SetResult, Write, tables, ExistingKeys
  <2>7. KeysBindTheirOwn'
    BY <1>6 DEF InsertRun, InsertJournal, InsertOutbox, SetResult, Write, tables, KeysBindTheirOwn
  <2>8. AnswersAreFinal'
    BY <1>6 DEF InsertRun, InsertJournal, InsertOutbox, SetResult, Write, tables, AnswersAreFinal
  <2>9. AllOrNothing'
    BY <1>6 DEF InsertRun, InsertJournal, InsertOutbox, SetResult, Write, tables, AllOrNothing
  <2>10. KeysAreResolved'
    BY <1>6 DEF InsertRun, InsertJournal, InsertOutbox, SetResult, Write, tables, KeysAreResolved
  <2>11. AnswersAreOwn'
    BY <1>6 DEF InsertRun, InsertJournal, InsertOutbox, SetResult, Write, tables, AnswersAreOwn
  <2> QED
    BY <2>1, <2>2, <2>3, <2>4, <2>5, <2>6, <2>7, <2>8, <2>9, <2>10, <2>11
<1>7. ASSUME NEW c \in Callers, Commit(c) PROVE IInv'
  <2> DEFINE k == Key(c)
             n == Run(c)
             r == request[c]
  <2>a. r \in Requests /\ k \in Keys /\ n \in Runs /\ r # Nothing /\ n # Nothing
    BY <1>7 DEF Commit, CallsHaveRequests
  <2>b. keyHolder[k] = c /\ keyRequest[k] = Nothing
    BY <1>7, <2>a DEF Commit, WritersHold, HoldersWrite, Writing
  <2>c. runs[n] = Nothing
    BY <2>a, <2>b DEF AllOrNothing
  <2>d. /\ keyRequest' = [keyRequest EXCEPT ![k] = r]
        /\ keyResult' = [keyResult EXCEPT ![k] = n]
        /\ runs' = [runs EXCEPT ![n] = r]
        /\ journal' = [journal EXCEPT ![n] = @ + 1]
        /\ outbox' = [outbox EXCEPT ![n] = @ + 1]
    BY <1>7 DEF Commit, WrittenSoFar, Tables
  <2>e. /\ written' = [written EXCEPT ![c] = {}]
        /\ keyHolder' = [j \in Keys |-> IF keyHolder[j] = c THEN Nothing ELSE keyHolder[j]]
        /\ pc' = [pc EXCEPT ![c] = "done"]
        /\ answer' = [answer EXCEPT ![c] = n]
        /\ request' = request /\ faults' = faults
    BY <1>7 DEF Commit, RollBack
  <2>f. pc[c] = "commit"
    BY <1>7 DEF Commit
  <2> HIDE DEF k, n, r
  <2>1. TypeOK'
    BY <2>a, <2>d, <2>e DEF Labels
  <2>2. CallsHaveRequests'
    BY <2>a, <2>e DEF CallsHaveRequests, r
  <2>3. HoldersWrite'
    BY <2>a, <2>b, <2>d, <2>e DEF HoldersWrite, Writing
  <2>4. WritersHold'
    BY <2>a, <2>b, <2>e DEF WritersHold, Writing, CallsHaveRequests
  <2>5. WrittenSoFar'
    BY <2>e DEF WrittenSoFar
  <2>6. ExistingKeys'
    BY <2>a, <2>d, <2>e DEF ExistingKeys, CallsHaveRequests
  <2>7. KeysBindTheirOwn'
    BY <2>a, <2>d DEF KeysBindTheirOwn, k, n, r
  <2>8. AnswersAreFinal'
    BY <2>e DEF AnswersAreFinal
  <2>9. AllOrNothing'
    BY <2>a, <2>b, <2>c, <2>d DEF AllOrNothing, k, n, r
  <2>10. KeysAreResolved'
    BY <2>a, <2>b, <2>c, <2>d DEF KeysAreResolved, KeysBindTheirOwn
  <2>11. AnswersAreOwn'
    BY <2>a, <2>c, <2>d, <2>e
    DEF AnswersAreOwn, AnswersAreFinal, CallsHaveRequests, r
  <2> QED
    BY <2>1, <2>2, <2>3, <2>4, <2>5, <2>6, <2>7, <2>8, <2>9, <2>10, <2>11
<1>8. ASSUME NEW c \in Callers, Fail(c) PROVE IInv'
  <2>1. TypeOK'
    BY <1>8 DEF Fail, RollBack, tables, Labels, Errors, Tables
  <2>2. CallsHaveRequests'
    BY <1>8 DEF Fail, RollBack, tables, CallsHaveRequests
  <2>3. HoldersWrite'
    BY <1>8 DEF Fail, RollBack, tables, HoldersWrite, Writing
  <2>4. WritersHold'
    BY <1>8 DEF Fail, RollBack, tables, WritersHold, Writing, CallsHaveRequests
  <2>5. WrittenSoFar'
    BY <1>8 DEF Fail, RollBack, tables, WrittenSoFar, Tables
  <2>6. ExistingKeys'
    BY <1>8 DEF Fail, RollBack, tables, ExistingKeys
  <2>7. KeysBindTheirOwn'
    BY <1>8 DEF Fail, RollBack, tables, KeysBindTheirOwn
  <2>8. AnswersAreFinal'
    BY <1>8 DEF Fail, RollBack, tables, AnswersAreFinal
  <2>9. AllOrNothing'
    BY <1>8 DEF Fail, RollBack, tables, AllOrNothing
  <2>10. KeysAreResolved'
    BY <1>8 DEF Fail, RollBack, tables, KeysAreResolved
  <2>11. AnswersAreOwn'
    BY <1>8 DEF Fail, RollBack, tables, AnswersAreOwn
  <2> QED
    BY <2>1, <2>2, <2>3, <2>4, <2>5, <2>6, <2>7, <2>8, <2>9, <2>10, <2>11
<1>9. ASSUME NEW c \in Callers, LoseAnswer(c) PROVE IInv'
  <2>1. TypeOK'
    BY <1>9 DEF LoseAnswer, tables, Labels, Errors, Tables
  <2>2. CallsHaveRequests'
    BY <1>9 DEF LoseAnswer, tables, CallsHaveRequests
  <2>3. HoldersWrite'
    BY <1>9 DEF LoseAnswer, tables, HoldersWrite, Writing
  <2>4. WritersHold'
    BY <1>9 DEF LoseAnswer, tables, WritersHold, Writing
  <2>5. WrittenSoFar'
    BY <1>9 DEF LoseAnswer, tables, WrittenSoFar, Tables
  <2>6. ExistingKeys'
    BY <1>9 DEF LoseAnswer, tables, ExistingKeys
  <2>7. KeysBindTheirOwn'
    BY <1>9 DEF LoseAnswer, tables, KeysBindTheirOwn
  <2>8. AnswersAreFinal'
    BY <1>9 DEF LoseAnswer, tables, AnswersAreFinal
  <2>9. AllOrNothing'
    BY <1>9 DEF LoseAnswer, tables, AllOrNothing
  <2>10. KeysAreResolved'
    BY <1>9 DEF LoseAnswer, tables, KeysAreResolved
  <2>11. AnswersAreOwn'
    BY <1>9 DEF LoseAnswer, tables, AnswersAreOwn
  <2> QED
    BY <2>1, <2>2, <2>3, <2>4, <2>5, <2>6, <2>7, <2>8, <2>9, <2>10, <2>11
<1>10. CASE UNCHANGED vars
  BY <1>10 DEF vars, tables, CallsHaveRequests, HoldersWrite, WritersHold, WrittenSoFar, ExistingKeys, KeysBindTheirOwn, AnswersAreFinal, AllOrNothing, KeysAreResolved, AnswersAreOwn, Writing
<1> QED
  BY <1>1, <1>2, <1>3, <1>4, <1>5, <1>6, <1>7, <1>8, <1>9, <1>10
  DEF Next, Step

\* The inductive invariant holds in every reachable state.
THEOREM Invariance == Spec => []IInv
<1>1. Init => IInv
  BY RequestsAssumption, NothingAssumption, FaultAssumption
  DEF Init, IInv, TypeOK, Labels, Writing, CallsHaveRequests, HoldersWrite,
      WritersHold, WrittenSoFar, ExistingKeys, KeysBindTheirOwn, AnswersAreFinal,
      AllOrNothing, KeysAreResolved, AnswersAreOwn
<1> QED
  BY <1>1, IInvStep, PTL DEF Spec

\* Type correctness for any callers, requests, keys, runs and failures.
THEOREM TypeCorrect == Spec => []TypeOK
<1>1. IInv => TypeOK
  BY DEF IInv
<1> QED
  BY <1>1, Invariance, PTL

\* Every committed key has the stored run it was claimed for as its result.
THEOREM ResolvedKeys == Spec => []KeysAreResolved
<1>1. IInv => KeysAreResolved
  BY DEF IInv
<1> QED
  BY <1>1, Invariance, PTL

\* A run, its first journal record, its outbox row and the result of its key
\* exist together or not at all, for any callers, requests and failures.
THEOREM Atomicity == Spec => []AllOrNothing
<1>1. IInv => AllOrNothing
  BY DEF IInv
<1> QED
  BY <1>1, Invariance, PTL

\* Every caller told a run is told the run of its own request.
THEOREM OwnAnswers == Spec => []AnswersAreOwn
<1>1. IInv => AnswersAreOwn
  BY DEF IInv
<1> QED
  BY <1>1, Invariance, PTL

\* The INSERT into runs never meets a stored run: it would have been created
\* under the same key, and the key would not have been free to claim.
THEOREM NoConflictOnRuns == Spec => []NoCallerIsStuck
<1>1. IInv => NoCallerIsStuck
  BY RequestsAssumption, NothingAssumption
  DEF IInv, TypeOK, NoCallerIsStuck, RunIsStored, Run, Key, AllOrNothing,
      WritersHold, HoldersWrite, Writing, CallsHaveRequests
<1> QED
  BY <1>1, Invariance, PTL

-----------------------------------------------------------------------------
\* create_run implements the registry: a call takes effect when it commits or
\* when it reads the row of an earlier call.
THEOREM Refinement == Spec => IsIdempotent
<1>1. Init => Registry!Init
  BY DEF Init, Registry!Init
<1>2. IInv /\ [Next]_vars => [Registry!Next]_(Registry!vars)
  <2> SUFFICES ASSUME IInv, [Next]_vars PROVE [Registry!Next]_(Registry!vars)
    OBVIOUS
  <2> USE RequestsAssumption, NothingAssumption DEF IInv, TypeOK, Key, Run
  <2>1. ASSUME NEW c \in Callers, NEW r \in Requests, Ask(c, r) PROVE Registry!Ask(c, r)
    BY <2>1 DEF Ask, tables, Registry!Ask
  <2>2. ASSUME NEW c \in Callers, ReadExisting(c)
        PROVE Registry!Serve(c) \/ Registry!Refuse(c)
    <3> DEFINE k == Key(c)
    <3>1. /\ request[c] \in Requests /\ k \in Keys /\ keyRequest[k] # Nothing
          /\ answer[c] = Nothing
      BY <2>2 DEF ReadExisting, CallsHaveRequests, ExistingKeys, AnswersAreFinal
    <3>2. answer' = [answer EXCEPT ![c] = Replay(c)] /\ UNCHANGED <<keyRequest, request>>
      BY <2>2 DEF ReadExisting, tables
    <3>3. CASE keyRequest[k] = request[c]
      <4>1. Replay(c) = Run(c)
        BY <3>1, <3>3 DEF Replay, KeysBindTheirOwn
      <4>2. keyRequest' = [keyRequest EXCEPT ![k] = request[c]]
        BY <3>1, <3>2, <3>3
      <4> QED
        BY <3>1, <3>2, <3>3, <4>1, <4>2 DEF Registry!Serve
    <3>4. CASE keyRequest[k] # request[c]
      BY <3>1, <3>2, <3>4 DEF Replay, Registry!Refuse
    <3> QED
      BY <3>3, <3>4
  <2>3. ASSUME NEW c \in Callers, Commit(c) PROVE Registry!Serve(c)
    <3>1. /\ request[c] \in Requests /\ Key(c) \in Keys /\ keyRequest[Key(c)] = Nothing
          /\ answer[c] = Nothing
      BY <2>3 DEF Commit, CallsHaveRequests, WritersHold, HoldersWrite, Writing, AnswersAreFinal
    <3> QED
      BY <2>3, <3>1 DEF Commit, Registry!Serve
  <2>4. ASSUME NEW c \in Callers, LoseAnswer(c)
        PROVE Registry!Lose(c) \/ UNCHANGED Registry!vars
    BY <2>4 DEF LoseAnswer, tables, Registry!Lose, Registry!vars
  <2>5. ASSUME NEW c \in Callers,
               \/ AskAgain(c) \/ ClaimKey(c) \/ KeyExists(c) \/ InsertRun(c)
               \/ InsertJournal(c) \/ InsertOutbox(c) \/ SetResult(c) \/ Fail(c)
        PROVE UNCHANGED Registry!vars
    BY <2>5 DEF AskAgain, ClaimKey, KeyExists, InsertRun, InsertJournal, InsertOutbox,
       SetResult, Write, Fail, tables, Registry!vars
  <2>6. CASE UNCHANGED vars
    BY <2>6 DEF vars, tables, Registry!vars
  <2> QED
    BY <2>1, <2>2, <2>3, <2>4, <2>5, <2>6 DEF Next, Step, Registry!Next
<1> QED
  BY <1>1, <1>2, Invariance, PTL DEF Spec, IsIdempotent, Registry!Spec
=============================================================================
