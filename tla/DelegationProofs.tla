-------------------------- MODULE DelegationProofs --------------------------
(***************************************************************************)
(* Proofs about delegation for any callers, runs, grants and calls.  The   *)
(* inductive invariant says what the row locks protect: the run lock keeps *)
(* the record a caller read the last of its journal, the parent lock keeps *)
(* the checks on the parent true, and the uncommitted row keeps the grant  *)
(* id free, until the commit.                                              *)
(***************************************************************************)
EXTENDS Delegation, FiniteSetTheorems, TLAPS

\* Only a caller that was asked for something is under way.
CallsHaveRequests ==
    \A c \in Callers : pc[c] # "idle" => request[c] \in Requests

\* Answers exist only for finished calls.
AnswersAreFinal ==
    \A c \in Callers : answer[c] # Nothing => pc[c] = "done"

\* No row is locked by two transactions.
LocksAreExclusive ==
    \A b, c \in Callers :
        /\ \A n \in Runs : HoldsRun(b, n) /\ HoldsRun(c, n) => b = c
        /\ \A g \in Grants : HoldsParent(b, g) /\ HoldsParent(c, g) => b = c
        /\ \A g \in Grants : HoldsGrant(b, g) /\ HoldsGrant(c, g) => b = c

\* A stored grant is the root of its id or the row of a call for its id.
RowsAreOwn ==
    \A g \in Grants : grants[g] # Nothing =>
        \/ g \in Roots /\ grants[g] = RootRow[g]
        \/ \E d \in Requests : d.grant = g /\ grants[g] = RowOf(d)

\* Past the run lock, the run has its first journal record.
RunsAreStored ==
    \A c \in Callers : pc[c] \in {"parent", "insert"} \union AfterInsert =>
        journal[request[c].run] # {}

\* Past the parent lock, what was checked about the parent still holds.
ParentsAreChecked ==
    \A c \in Callers : pc[c] \in {"insert"} \union AfterInsert =>
        LET d == request[c]
            p == grants[d.parent] IN
        /\ d.parent \in Grants
        /\ p # Nothing
        /\ d.parent \notin revoked
        /\ p.run = d.run
        /\ PermitsChild(p.doc, d.doc)

\* Past the insert, no other transaction has committed the grant id.
GrantsAreNew ==
    \A c \in Callers : pc[c] \in AfterInsert => grants[request[c].grant] = Nothing

\* The record a caller has read is the last one until it commits.
PreviousIsLast ==
    \A c \in Callers : pc[c] \in {"journal", "outbox", "commit"} =>
        previous[c] = Last(journal[request[c].run])

\* A journal that is not empty has exactly one last record.
JournalHasLast ==
    \A n \in Runs : journal[n] # {} => \E e \in journal[n] : Last(journal[n]) = {e}

\* Every delegated grant is attenuated against its stored parent.
Attenuated ==
    \A g \in Delegated :
        /\ grants[g].parent \in Stored
        /\ grants[grants[g].parent].run = grants[g].run
        /\ PermitsChild(grants[grants[g].parent].doc, grants[g].doc)

\* A journal record about a grant is the only one, and the grant is stored.
JournalNamesGrants ==
    \A n \in Runs : \A e \in journal[n] : e.body \in Grants =>
        /\ e.body \in Delegated
        /\ grants[e.body].run = n
        /\ \A f \in journal[n] : f.body = e.body => f = e

\* Every delegated grant has its journal record and its outbox row.
GrantsAreRecorded ==
    /\ \A g \in Delegated : \E e \in journal[grants[g].run] : e.body = g
    /\ \A g \in Grants : outbox[g] = IF g \in Delegated THEN 1 ELSE 0

IInv ==
    /\ TypeOK
    /\ CallsHaveRequests
    /\ AnswersAreFinal
    /\ LocksAreExclusive
    /\ RowsAreOwn
    /\ RunsAreStored
    /\ ParentsAreChecked
    /\ GrantsAreNew
    /\ PreviousIsLast
    /\ JournalHasLast
    /\ Attenuated
    /\ JournalNamesGrants
    /\ GrantsAreRecorded
    /\ JournalIsChained
    /\ AnswersAreTrue

-----------------------------------------------------------------------------
\* Attenuation is transitive: a grandchild is permitted by its grandparent.
LEMMA PermitsChildTransitive ==
    ASSUME NEW a, NEW b, NEW c, IsDoc(a), IsDoc(b), IsDoc(c),
           PermitsChild(a, b), PermitsChild(b, c)
    PROVE  PermitsChild(a, c)
BY DEF PermitsChild, IsDoc

\* The sequence after a single record is its successor.
LEMMA NextSequenceOfOne ==
    ASSUME NEW e PROVE NextSequence({e}) = e.sequence + 1
BY DEF NextSequence

\* Every step keeps the inductive invariant.
LEMMA IInvStep == IInv /\ [Next]_vars => IInv'
<1> USE RequestsAssumption, RootsAssumption, NothingAssumption, BoundsAssumption
<1> SUFFICES ASSUME IInv, [Next]_vars PROVE IInv'
  OBVIOUS
<1>g. \A d \in Requests : d.grant \in Grants
  BY DEF Grants
<1>r. Roots \subseteq Grants
  BY DEF Grants
<1> USE <1>g, <1>r DEF IInv, TypeOK
<1>1. ASSUME NEW c \in Callers, NEW d \in Requests, Ask(c, d) PROVE IInv'
  <2>1. TypeOK'
    BY <1>1 DEF Ask, tables, Goto, AfterInsert
  <2>2. CallsHaveRequests'
    BY <1>1 DEF Ask, tables, Goto, CallsHaveRequests
  <2>3. AnswersAreFinal'
    BY <1>1 DEF Ask, tables, Goto, AnswersAreFinal
  <2>4. LocksAreExclusive'
    BY <1>1 DEF Ask, tables, Goto, LocksAreExclusive, HoldsRun, HoldsParent, HoldsGrant, AfterInsert
  <2>5. RowsAreOwn'
    BY <1>1 DEF Ask, tables, Goto, RowsAreOwn
  <2>6. RunsAreStored'
    BY <1>1 DEF Ask, tables, Goto, RunsAreStored, AfterInsert
  <2>7. ParentsAreChecked'
    BY <1>1 DEF Ask, tables, Goto, ParentsAreChecked, AfterInsert
  <2>8. GrantsAreNew'
    BY <1>1 DEF Ask, tables, Goto, GrantsAreNew, AfterInsert
  <2>9. PreviousIsLast'
    BY <1>1 DEF Ask, tables, Goto, PreviousIsLast
  <2>10. JournalHasLast'
    BY <1>1 DEF Ask, tables, Goto, JournalHasLast
  <2>11. Attenuated'
    BY <1>1 DEF Ask, tables, Goto, Attenuated, Delegated, Stored
  <2>12. JournalNamesGrants'
    BY <1>1 DEF Ask, tables, Goto, JournalNamesGrants, Delegated, Stored
  <2>13. GrantsAreRecorded'
    BY <1>1 DEF Ask, tables, Goto, GrantsAreRecorded, Delegated, Stored
  <2>14. JournalIsChained'
    BY <1>1 DEF Ask, tables, Goto, JournalIsChained
  <2>15. AnswersAreTrue'
    BY <1>1 DEF Ask, tables, Goto, AnswersAreTrue, AnswersAreFinal
  <2> QED
    BY <2>1, <2>2, <2>3, <2>4, <2>5, <2>6, <2>7, <2>8, <2>9, <2>10, <2>11, <2>12, <2>13, <2>14, <2>15
<1>2. ASSUME NEW c \in Callers, LockRun(c) PROVE IInv'
  <2>1. TypeOK'
    BY <1>2 DEF LockRun, tables, Goto, Reply, AfterInsert
  <2>2. CallsHaveRequests'
    BY <1>2 DEF LockRun, tables, Goto, Reply, CallsHaveRequests
  <2>3. AnswersAreFinal'
    BY <1>2 DEF LockRun, tables, Goto, Reply, AnswersAreFinal
  <2>4. LocksAreExclusive'
    BY <1>2 DEF LockRun, tables, Goto, Reply, LocksAreExclusive, HoldsRun, HoldsParent, HoldsGrant, AfterInsert
  <2>5. RowsAreOwn'
    BY <1>2 DEF LockRun, tables, Goto, Reply, RowsAreOwn
  <2>6. RunsAreStored'
    BY <1>2 DEF LockRun, tables, Goto, Reply, RunsAreStored, AfterInsert
  <2>7. ParentsAreChecked'
    BY <1>2 DEF LockRun, tables, Goto, Reply, ParentsAreChecked, AfterInsert
  <2>8. GrantsAreNew'
    BY <1>2 DEF LockRun, tables, Goto, Reply, GrantsAreNew, AfterInsert
  <2>9. PreviousIsLast'
    BY <1>2 DEF LockRun, tables, Goto, Reply, PreviousIsLast
  <2>10. JournalHasLast'
    BY <1>2 DEF LockRun, tables, Goto, Reply, JournalHasLast
  <2>11. Attenuated'
    BY <1>2 DEF LockRun, tables, Goto, Reply, Attenuated, Delegated, Stored
  <2>12. JournalNamesGrants'
    BY <1>2 DEF LockRun, tables, Goto, Reply, JournalNamesGrants, Delegated, Stored
  <2>13. GrantsAreRecorded'
    BY <1>2 DEF LockRun, tables, Goto, Reply, GrantsAreRecorded, Delegated, Stored
  <2>14. JournalIsChained'
    BY <1>2 DEF LockRun, tables, Goto, Reply, JournalIsChained
  <2>15. AnswersAreTrue'
    BY <1>2 DEF LockRun, tables, Goto, Reply, AnswersAreTrue
  <2> QED
    BY <2>1, <2>2, <2>3, <2>4, <2>5, <2>6, <2>7, <2>8, <2>9, <2>10, <2>11, <2>12, <2>13, <2>14, <2>15
<1>3. ASSUME NEW c \in Callers, LockParent(c) PROVE IInv'
  <2>1. TypeOK'
    BY <1>3 DEF LockParent, tables, Goto, Reply, AfterInsert
  <2>2. CallsHaveRequests'
    BY <1>3 DEF LockParent, tables, Goto, Reply, CallsHaveRequests
  <2>3. AnswersAreFinal'
    BY <1>3 DEF LockParent, tables, Goto, Reply, AnswersAreFinal
  <2>4. LocksAreExclusive'
    BY <1>3 DEF LockParent, tables, Goto, Reply, LocksAreExclusive, HoldsRun, HoldsParent, HoldsGrant, AfterInsert
  <2>5. RowsAreOwn'
    BY <1>3 DEF LockParent, tables, Goto, Reply, RowsAreOwn
  <2>6. RunsAreStored'
    BY <1>3 DEF LockParent, tables, Goto, Reply, RunsAreStored, AfterInsert
  <2>7. ParentsAreChecked'
    BY <1>3 DEF LockParent, tables, Goto, Reply, ParentsAreChecked, AfterInsert, MayDelegate, CallsHaveRequests
  <2>8. GrantsAreNew'
    BY <1>3 DEF LockParent, tables, Goto, Reply, GrantsAreNew, AfterInsert
  <2>9. PreviousIsLast'
    BY <1>3 DEF LockParent, tables, Goto, Reply, PreviousIsLast
  <2>10. JournalHasLast'
    BY <1>3 DEF LockParent, tables, Goto, Reply, JournalHasLast
  <2>11. Attenuated'
    BY <1>3 DEF LockParent, tables, Goto, Reply, Attenuated, Delegated, Stored
  <2>12. JournalNamesGrants'
    BY <1>3 DEF LockParent, tables, Goto, Reply, JournalNamesGrants, Delegated, Stored
  <2>13. GrantsAreRecorded'
    BY <1>3 DEF LockParent, tables, Goto, Reply, GrantsAreRecorded, Delegated, Stored
  <2>14. JournalIsChained'
    BY <1>3 DEF LockParent, tables, Goto, Reply, JournalIsChained
  <2>15. AnswersAreTrue'
    BY <1>3 DEF LockParent, tables, Goto, Reply, AnswersAreTrue
  <2> QED
    BY <2>1, <2>2, <2>3, <2>4, <2>5, <2>6, <2>7, <2>8, <2>9, <2>10, <2>11, <2>12, <2>13, <2>14, <2>15
<1>4. ASSUME NEW c \in Callers, InsertGrant(c) PROVE IInv'
  <2>1. TypeOK'
    BY <1>4 DEF InsertGrant, tables, Goto, Reply, AfterInsert
  <2>2. CallsHaveRequests'
    BY <1>4 DEF InsertGrant, tables, Goto, Reply, CallsHaveRequests
  <2>3. AnswersAreFinal'
    BY <1>4 DEF InsertGrant, tables, Goto, Reply, AnswersAreFinal
  <2>4. LocksAreExclusive'
    BY <1>4 DEF InsertGrant, tables, Goto, Reply, LocksAreExclusive, HoldsRun, HoldsParent, HoldsGrant, AfterInsert
  <2>5. RowsAreOwn'
    BY <1>4 DEF InsertGrant, tables, Goto, Reply, RowsAreOwn
  <2>6. RunsAreStored'
    BY <1>4 DEF InsertGrant, tables, Goto, Reply, RunsAreStored, AfterInsert
  <2>7. ParentsAreChecked'
    BY <1>4 DEF InsertGrant, tables, Goto, Reply, ParentsAreChecked, AfterInsert
  <2>8. GrantsAreNew'
    BY <1>4 DEF InsertGrant, tables, Goto, Reply, GrantsAreNew, AfterInsert, IsStored
  <2>9. PreviousIsLast'
    BY <1>4 DEF InsertGrant, tables, Goto, Reply, PreviousIsLast
  <2>10. JournalHasLast'
    BY <1>4 DEF InsertGrant, tables, Goto, Reply, JournalHasLast
  <2>11. Attenuated'
    BY <1>4 DEF InsertGrant, tables, Goto, Reply, Attenuated, Delegated, Stored
  <2>12. JournalNamesGrants'
    BY <1>4 DEF InsertGrant, tables, Goto, Reply, JournalNamesGrants, Delegated, Stored
  <2>13. GrantsAreRecorded'
    BY <1>4 DEF InsertGrant, tables, Goto, Reply, GrantsAreRecorded, Delegated, Stored
  <2>14. JournalIsChained'
    BY <1>4 DEF InsertGrant, tables, Goto, Reply, JournalIsChained
  <2>15. AnswersAreTrue'
    BY <1>4 DEF InsertGrant, tables, Goto, Reply, AnswersAreTrue, IsStored, SameGrant, AnswersAreFinal
  <2> QED
    BY <2>1, <2>2, <2>3, <2>4, <2>5, <2>6, <2>7, <2>8, <2>9, <2>10, <2>11, <2>12, <2>13, <2>14, <2>15
<1>5. ASSUME NEW c \in Callers, ReadPrevious(c) PROVE IInv'
  <2>1. TypeOK'
    BY <1>5 DEF ReadPrevious, tables, Goto, AfterInsert
  <2>2. CallsHaveRequests'
    BY <1>5 DEF ReadPrevious, tables, Goto, CallsHaveRequests
  <2>3. AnswersAreFinal'
    BY <1>5 DEF ReadPrevious, tables, Goto, AnswersAreFinal
  <2>4. LocksAreExclusive'
    BY <1>5 DEF ReadPrevious, tables, Goto, LocksAreExclusive, HoldsRun, HoldsParent, HoldsGrant, AfterInsert
  <2>5. RowsAreOwn'
    BY <1>5 DEF ReadPrevious, tables, Goto, RowsAreOwn
  <2>6. RunsAreStored'
    BY <1>5 DEF ReadPrevious, tables, Goto, RunsAreStored, AfterInsert
  <2>7. ParentsAreChecked'
    BY <1>5 DEF ReadPrevious, tables, Goto, ParentsAreChecked, AfterInsert
  <2>8. GrantsAreNew'
    BY <1>5 DEF ReadPrevious, tables, Goto, GrantsAreNew, AfterInsert
  <2>9. PreviousIsLast'
    BY <1>5 DEF ReadPrevious, tables, Goto, PreviousIsLast
  <2>10. JournalHasLast'
    BY <1>5 DEF ReadPrevious, tables, Goto, JournalHasLast
  <2>11. Attenuated'
    BY <1>5 DEF ReadPrevious, tables, Goto, Attenuated, Delegated, Stored
  <2>12. JournalNamesGrants'
    BY <1>5 DEF ReadPrevious, tables, Goto, JournalNamesGrants, Delegated, Stored
  <2>13. GrantsAreRecorded'
    BY <1>5 DEF ReadPrevious, tables, Goto, GrantsAreRecorded, Delegated, Stored
  <2>14. JournalIsChained'
    BY <1>5 DEF ReadPrevious, tables, Goto, JournalIsChained
  <2>15. AnswersAreTrue'
    BY <1>5 DEF ReadPrevious, tables, Goto, AnswersAreTrue
  <2> QED
    BY <2>1, <2>2, <2>3, <2>4, <2>5, <2>6, <2>7, <2>8, <2>9, <2>10, <2>11, <2>12, <2>13, <2>14, <2>15
<1>6. ASSUME NEW c \in Callers, InsertJournal(c) PROVE IInv'
  <2>1. TypeOK'
    BY <1>6 DEF InsertJournal, tables, Goto, AfterInsert
  <2>2. CallsHaveRequests'
    BY <1>6 DEF InsertJournal, tables, Goto, CallsHaveRequests
  <2>3. AnswersAreFinal'
    BY <1>6 DEF InsertJournal, tables, Goto, AnswersAreFinal
  <2>4. LocksAreExclusive'
    BY <1>6 DEF InsertJournal, tables, Goto, LocksAreExclusive, HoldsRun, HoldsParent, HoldsGrant, AfterInsert
  <2>5. RowsAreOwn'
    BY <1>6 DEF InsertJournal, tables, Goto, RowsAreOwn
  <2>6. RunsAreStored'
    BY <1>6 DEF InsertJournal, tables, Goto, RunsAreStored, AfterInsert
  <2>7. ParentsAreChecked'
    BY <1>6 DEF InsertJournal, tables, Goto, ParentsAreChecked, AfterInsert
  <2>8. GrantsAreNew'
    BY <1>6 DEF InsertJournal, tables, Goto, GrantsAreNew, AfterInsert
  <2>9. PreviousIsLast'
    BY <1>6 DEF InsertJournal, tables, Goto, PreviousIsLast
  <2>10. JournalHasLast'
    BY <1>6 DEF InsertJournal, tables, Goto, JournalHasLast
  <2>11. Attenuated'
    BY <1>6 DEF InsertJournal, tables, Goto, Attenuated, Delegated, Stored
  <2>12. JournalNamesGrants'
    BY <1>6 DEF InsertJournal, tables, Goto, JournalNamesGrants, Delegated, Stored
  <2>13. GrantsAreRecorded'
    BY <1>6 DEF InsertJournal, tables, Goto, GrantsAreRecorded, Delegated, Stored
  <2>14. JournalIsChained'
    BY <1>6 DEF InsertJournal, tables, Goto, JournalIsChained
  <2>15. AnswersAreTrue'
    BY <1>6 DEF InsertJournal, tables, Goto, AnswersAreTrue
  <2> QED
    BY <2>1, <2>2, <2>3, <2>4, <2>5, <2>6, <2>7, <2>8, <2>9, <2>10, <2>11, <2>12, <2>13, <2>14, <2>15
<1>7. ASSUME NEW c \in Callers, InsertOutbox(c) PROVE IInv'
  <2>1. TypeOK'
    BY <1>7 DEF InsertOutbox, tables, Goto, AfterInsert
  <2>2. CallsHaveRequests'
    BY <1>7 DEF InsertOutbox, tables, Goto, CallsHaveRequests
  <2>3. AnswersAreFinal'
    BY <1>7 DEF InsertOutbox, tables, Goto, AnswersAreFinal
  <2>4. LocksAreExclusive'
    BY <1>7 DEF InsertOutbox, tables, Goto, LocksAreExclusive, HoldsRun, HoldsParent, HoldsGrant, AfterInsert
  <2>5. RowsAreOwn'
    BY <1>7 DEF InsertOutbox, tables, Goto, RowsAreOwn
  <2>6. RunsAreStored'
    BY <1>7 DEF InsertOutbox, tables, Goto, RunsAreStored, AfterInsert
  <2>7. ParentsAreChecked'
    BY <1>7 DEF InsertOutbox, tables, Goto, ParentsAreChecked, AfterInsert
  <2>8. GrantsAreNew'
    BY <1>7 DEF InsertOutbox, tables, Goto, GrantsAreNew, AfterInsert
  <2>9. PreviousIsLast'
    BY <1>7 DEF InsertOutbox, tables, Goto, PreviousIsLast
  <2>10. JournalHasLast'
    BY <1>7 DEF InsertOutbox, tables, Goto, JournalHasLast
  <2>11. Attenuated'
    BY <1>7 DEF InsertOutbox, tables, Goto, Attenuated, Delegated, Stored
  <2>12. JournalNamesGrants'
    BY <1>7 DEF InsertOutbox, tables, Goto, JournalNamesGrants, Delegated, Stored
  <2>13. GrantsAreRecorded'
    BY <1>7 DEF InsertOutbox, tables, Goto, GrantsAreRecorded, Delegated, Stored
  <2>14. JournalIsChained'
    BY <1>7 DEF InsertOutbox, tables, Goto, JournalIsChained
  <2>15. AnswersAreTrue'
    BY <1>7 DEF InsertOutbox, tables, Goto, AnswersAreTrue
  <2> QED
    BY <2>1, <2>2, <2>3, <2>4, <2>5, <2>6, <2>7, <2>8, <2>9, <2>10, <2>11, <2>12, <2>13, <2>14, <2>15
<1>8. ASSUME NEW c \in Callers, Commit(c) PROVE IInv'
  <2> DEFINE d == request[c]
             n == d.run
             g == d.grant
             e == Record(previous[c], g)
  <2>a. /\ pc[c] = "commit" /\ d \in Requests /\ n \in Runs /\ g \in Grants /\ g \notin Roots
        /\ grants[g] = Nothing /\ journal[n] # {}
    BY <1>8 DEF Commit, CallsHaveRequests, GrantsAreNew, RunsAreStored, AfterInsert
  <2>b. /\ grants' = [grants EXCEPT ![g] = RowOf(d)]
        /\ journal' = [journal EXCEPT ![n] = @ \union {e}]
        /\ outbox' = [outbox EXCEPT ![g] = @ + 1]
        /\ previous' = [previous EXCEPT ![c] = {}]
        /\ answer' = [answer EXCEPT ![c] = "granted"]
        /\ pc' = [pc EXCEPT ![c] = "done"]
        /\ UNCHANGED <<revoked, request, now, faults>>
    BY <1>8 DEF Commit, Reply, Goto
  <2>c. PICK last \in journal[n] : previous[c] = {last} /\ Last(journal[n]) = {last}
    BY <2>a DEF PreviousIsLast, JournalHasLast
  <2>d. e = [sequence |-> last.sequence + 1, previous |-> {last}, body |-> g]
    BY <2>c, NextSequenceOfOne DEF Record
  <2>e. last.sequence \in Nat /\ \A f \in journal[n] : f.sequence \in Nat /\ f.sequence <= last.sequence
    BY <2>a, <2>c DEF Last
  <2>f. /\ RowOf(d) # Nothing /\ RowOf(d).parent = d.parent /\ RowOf(d).run = n
        /\ RowOf(d).doc = d.doc
    BY <2>a DEF RowOf
  <2>g. /\ d.parent \in Grants /\ grants[d.parent] # Nothing /\ d.parent # Nothing
        /\ d.parent # g
        /\ grants[d.parent].run = n /\ PermitsChild(grants[d.parent].doc, d.doc)
    BY <2>a DEF ParentsAreChecked, AfterInsert
  <2>h. Stored' = Stored \union {g} /\ Delegated' = Delegated \union {g} /\ g \notin Stored
    BY <2>a, <2>b, <2>f, <2>g DEF Stored, Delegated
  <2> HIDE DEF d, n, g, e
  <2>1. TypeOK'
    BY <2>a, <2>b, <2>d, <2>e DEF AfterInsert
  <2>2. CallsHaveRequests'
    BY <2>a, <2>b DEF d, CallsHaveRequests
  <2>3. AnswersAreFinal'
    BY <2>b DEF AnswersAreFinal
  <2>4. LocksAreExclusive'
    BY <2>b DEF LocksAreExclusive, HoldsRun, HoldsParent, HoldsGrant, AfterInsert
  <2>5. RowsAreOwn'
    BY <2>a, <2>b DEF RowsAreOwn, g
  <2>6. RunsAreStored'
    BY <2>a, <2>b DEF RunsAreStored, AfterInsert, CallsHaveRequests
  <2>7. ParentsAreChecked'
    BY <2>a, <2>b DEF ParentsAreChecked, AfterInsert
  <2>8. GrantsAreNew'
    <3> SUFFICES ASSUME NEW b \in Callers, (pc[b] \in AfterInsert)'
                 PROVE  (grants[request[b].grant] = Nothing)'
      BY DEF GrantsAreNew
    <3>1. b # c /\ pc[b] \in AfterInsert /\ request[b] \in Requests
      BY <2>b DEF AfterInsert, CallsHaveRequests
    <3>2. grants[request[b].grant] = Nothing /\ request[b].grant \in Grants
      BY <3>1 DEF GrantsAreNew
    <3>3. request[b].grant # g
      BY <2>a, <3>1 DEF LocksAreExclusive, HoldsGrant, AfterInsert, g, d
    <3> QED
      BY <2>b, <3>2, <3>3
  <2>9. PreviousIsLast'
    <3> SUFFICES ASSUME NEW b \in Callers, (pc[b] \in {"journal", "outbox", "commit"})'
                 PROVE  (previous[b] = Last(journal[request[b].run]))'
      BY DEF PreviousIsLast
    <3>1. b # c /\ pc[b] \in {"journal", "outbox", "commit"} /\ request[b] \in Requests
      BY <2>b DEF CallsHaveRequests
    <3>2. request[b].run # n
      BY <2>a, <3>1 DEF LocksAreExclusive, HoldsRun, AfterInsert, n, d
    <3>3. journal'[request[b].run] = journal[request[b].run] /\ previous'[b] = previous[b]
      BY <2>b, <3>1, <3>2
    <3> QED
      BY <2>b, <3>1, <3>3 DEF PreviousIsLast, Last
  <2>10. JournalHasLast'
    <3>1. Last(journal[n] \union {e}) = {e}
      BY <2>d, <2>e DEF Last
    <3> QED
      BY <2>a, <2>b, <3>1 DEF JournalHasLast
  <2>11. Attenuated'
    BY <2>a, <2>b, <2>f, <2>g, <2>h DEF Attenuated, Stored, Delegated
  <2>12. JournalNamesGrants'
    <3>1. \A r \in Runs : \A f \in journal[r] : f.body # g
      BY <2>a, <2>h DEF JournalNamesGrants, Delegated
    <3>2. e.body = g
      BY <2>d
    <3>3. \A h \in Delegated : h # g /\ grants'[h] = grants[h]
      BY <2>b, <2>h DEF Delegated, Stored
    <3>4. grants'[g].run = n
      BY <2>a, <2>b, <2>f
    <3>5. \A r \in Runs : \A f \in journal'[r] : f \in journal[r] \/ (r = n /\ f = e)
      BY <2>a, <2>b
    <3> SUFFICES ASSUME NEW r \in Runs, NEW f \in journal'[r], f.body \in Grants
                 PROVE  /\ f.body \in Delegated'
                        /\ grants'[f.body].run = r
                        /\ \A h \in journal'[r] : h.body = f.body => h = f
      BY DEF JournalNamesGrants
    <3>6. CASE f \in journal[r]
      BY <2>h, <3>1, <3>2, <3>3, <3>5, <3>6 DEF JournalNamesGrants
    <3>7. CASE r = n /\ f = e
      BY <2>h, <3>1, <3>2, <3>4, <3>5, <3>7
    <3> QED
      BY <3>5, <3>6, <3>7
  <2>13. GrantsAreRecorded'
    <3>1. \A h \in Delegated : h # g /\ grants'[h] = grants[h] /\ grants[h].run \in Runs
      <4> SUFFICES ASSUME NEW h \in Delegated
                   PROVE  h # g /\ grants'[h] = grants[h] /\ grants[h].run \in Runs
        OBVIOUS
      <4>1. h # g /\ h \in Grants /\ grants[h] # Nothing
        BY <2>h DEF Delegated, Stored
      <4>2. grants[h].run \in Runs
        BY <4>1 DEF RowsAreOwn, RowOf
      <4> QED
        BY <2>b, <4>1, <4>2
    <3>2. \A r \in Runs : journal[r] \subseteq journal'[r]
      BY <2>b
    <3>3. e \in journal'[n] /\ e.body = g /\ grants'[g].run = n
      BY <2>a, <2>b, <2>d, <2>f
    <3>4. \A h \in Delegated' : \E f \in journal'[grants'[h].run] : f.body = h
      BY <2>h, <3>1, <3>2, <3>3 DEF GrantsAreRecorded
    <3>5. outbox[g] = 0
      BY <2>a, <2>h DEF GrantsAreRecorded, Delegated
    <3>6. \A h \in Grants : outbox'[h] = IF h \in Delegated' THEN 1 ELSE 0
      BY <2>a, <2>b, <2>h, <3>5 DEF GrantsAreRecorded
    <3> QED
      BY <3>4, <3>6 DEF GrantsAreRecorded
  <2>14. JournalIsChained'
    <3>1. e.sequence = last.sequence + 1 /\ e.previous = {last}
      BY <2>d
    <3>2. \A r \in Runs : journal'[r] = IF r = n THEN journal[n] \union {e} ELSE journal[r]
      BY <2>a, <2>b
    <3>3. \A f \in journal[n] : f.sequence # e.sequence
      BY <2>e, <3>1
    <3> SUFFICES ASSUME NEW r \in Runs
                 PROVE  /\ \A p, f \in journal'[r] : p.sequence = f.sequence => p = f
                        /\ \A f \in journal'[r] :
                              IF f.sequence = 0 THEN f.previous = {}
                              ELSE \E p \in journal'[r] : f.previous = {p} /\ p.sequence + 1 = f.sequence
      BY DEF JournalIsChained
    <3>4. CASE r # n
      BY <3>2, <3>4 DEF JournalIsChained
    <3>5. CASE r = n
      <4>1. \A p, f \in journal'[r] : p.sequence = f.sequence => p = f
        BY <3>2, <3>3, <3>5 DEF JournalIsChained
      <4>2. ASSUME NEW f \in journal[n], f.sequence # 0
            PROVE  \E p \in journal'[n] : f.previous = {p} /\ p.sequence + 1 = f.sequence
        BY <2>a, <3>2, <4>2 DEF JournalIsChained
      <4>3. e.sequence # 0 /\ last \in journal'[n]
        BY <2>a, <2>c, <2>e, <3>1, <3>2
      <4>4. \A f \in journal[n] : f.sequence = 0 => f.previous = {}
        BY <2>a DEF JournalIsChained
      <4> QED
        BY <2>a, <3>1, <3>2, <3>5, <4>1, <4>2, <4>3, <4>4
    <3> QED
      BY <3>4, <3>5
  <2>15. AnswersAreTrue'
    BY <2>a, <2>b, <2>f DEF AnswersAreTrue, AnswersAreFinal, d, g
  <2> QED
    BY <2>1, <2>2, <2>3, <2>4, <2>5, <2>6, <2>7, <2>8, <2>9, <2>10, <2>11, <2>12, <2>13, <2>14, <2>15
<1>9. ASSUME NEW c \in Callers, Fail(c) PROVE IInv'
  <2>1. TypeOK'
    BY <1>9 DEF Fail, tables, Goto, AfterInsert
  <2>2. CallsHaveRequests'
    BY <1>9 DEF Fail, tables, Goto, CallsHaveRequests
  <2>3. AnswersAreFinal'
    BY <1>9 DEF Fail, tables, Goto, AnswersAreFinal
  <2>4. LocksAreExclusive'
    BY <1>9 DEF Fail, tables, Goto, LocksAreExclusive, HoldsRun, HoldsParent, HoldsGrant, AfterInsert
  <2>5. RowsAreOwn'
    BY <1>9 DEF Fail, tables, Goto, RowsAreOwn
  <2>6. RunsAreStored'
    BY <1>9 DEF Fail, tables, Goto, RunsAreStored, AfterInsert
  <2>7. ParentsAreChecked'
    BY <1>9 DEF Fail, tables, Goto, ParentsAreChecked, AfterInsert
  <2>8. GrantsAreNew'
    BY <1>9 DEF Fail, tables, Goto, GrantsAreNew, AfterInsert
  <2>9. PreviousIsLast'
    BY <1>9 DEF Fail, tables, Goto, PreviousIsLast
  <2>10. JournalHasLast'
    BY <1>9 DEF Fail, tables, Goto, JournalHasLast
  <2>11. Attenuated'
    BY <1>9 DEF Fail, tables, Goto, Attenuated, Delegated, Stored
  <2>12. JournalNamesGrants'
    BY <1>9 DEF Fail, tables, Goto, JournalNamesGrants, Delegated, Stored
  <2>13. GrantsAreRecorded'
    BY <1>9 DEF Fail, tables, Goto, GrantsAreRecorded, Delegated, Stored
  <2>14. JournalIsChained'
    BY <1>9 DEF Fail, tables, Goto, JournalIsChained
  <2>15. AnswersAreTrue'
    BY <1>9 DEF Fail, tables, Goto, AnswersAreTrue
  <2> QED
    BY <2>1, <2>2, <2>3, <2>4, <2>5, <2>6, <2>7, <2>8, <2>9, <2>10, <2>11, <2>12, <2>13, <2>14, <2>15
<1>10. ASSUME NEW c \in Callers, LoseAnswer(c) PROVE IInv'
  <2>1. TypeOK'
    BY <1>10 DEF LoseAnswer, tables, Goto, AfterInsert
  <2>2. CallsHaveRequests'
    BY <1>10 DEF LoseAnswer, tables, Goto, CallsHaveRequests
  <2>3. AnswersAreFinal'
    BY <1>10 DEF LoseAnswer, tables, Goto, AnswersAreFinal
  <2>4. LocksAreExclusive'
    BY <1>10 DEF LoseAnswer, tables, Goto, LocksAreExclusive, HoldsRun, HoldsParent, HoldsGrant, AfterInsert
  <2>5. RowsAreOwn'
    BY <1>10 DEF LoseAnswer, tables, Goto, RowsAreOwn
  <2>6. RunsAreStored'
    BY <1>10 DEF LoseAnswer, tables, Goto, RunsAreStored, AfterInsert
  <2>7. ParentsAreChecked'
    BY <1>10 DEF LoseAnswer, tables, Goto, ParentsAreChecked, AfterInsert
  <2>8. GrantsAreNew'
    BY <1>10 DEF LoseAnswer, tables, Goto, GrantsAreNew, AfterInsert
  <2>9. PreviousIsLast'
    BY <1>10 DEF LoseAnswer, tables, Goto, PreviousIsLast
  <2>10. JournalHasLast'
    BY <1>10 DEF LoseAnswer, tables, Goto, JournalHasLast
  <2>11. Attenuated'
    BY <1>10 DEF LoseAnswer, tables, Goto, Attenuated, Delegated, Stored
  <2>12. JournalNamesGrants'
    BY <1>10 DEF LoseAnswer, tables, Goto, JournalNamesGrants, Delegated, Stored
  <2>13. GrantsAreRecorded'
    BY <1>10 DEF LoseAnswer, tables, Goto, GrantsAreRecorded, Delegated, Stored
  <2>14. JournalIsChained'
    BY <1>10 DEF LoseAnswer, tables, Goto, JournalIsChained
  <2>15. AnswersAreTrue'
    BY <1>10 DEF LoseAnswer, tables, Goto, AnswersAreTrue
  <2> QED
    BY <2>1, <2>2, <2>3, <2>4, <2>5, <2>6, <2>7, <2>8, <2>9, <2>10, <2>11, <2>12, <2>13, <2>14, <2>15
<1>11. ASSUME NEW n \in Runs, CreateRun(n) PROVE IInv'
  <2>a. journal[n] = {} /\ journal' = [journal EXCEPT ![n] = {Record({}, "run.requested")}]
    BY <1>11 DEF CreateRun
  <2>b. Record({}, "run.requested") = [sequence |-> 0, previous |-> {}, body |-> "run.requested"]
    BY DEF Record, NextSequence
  <2>1. TypeOK'
    BY <1>11 DEF CreateRun, calls, AfterInsert, Record, NextSequence, Last, RunsAreStored, AfterInsert, CallsHaveRequests
  <2>2. CallsHaveRequests'
    BY <1>11 DEF CreateRun, calls, CallsHaveRequests
  <2>3. AnswersAreFinal'
    BY <1>11 DEF CreateRun, calls, AnswersAreFinal
  <2>4. LocksAreExclusive'
    BY <1>11 DEF CreateRun, calls, LocksAreExclusive, HoldsRun, HoldsParent, HoldsGrant, AfterInsert
  <2>5. RowsAreOwn'
    BY <1>11 DEF CreateRun, calls, RowsAreOwn
  <2>6. RunsAreStored'
    BY <1>11 DEF CreateRun, calls, RunsAreStored, AfterInsert
  <2>7. ParentsAreChecked'
    BY <1>11 DEF CreateRun, calls, ParentsAreChecked, AfterInsert
  <2>8. GrantsAreNew'
    BY <1>11 DEF CreateRun, calls, GrantsAreNew, AfterInsert
  <2>9. PreviousIsLast'
    BY <1>11 DEF CreateRun, calls, PreviousIsLast, Record, NextSequence, Last, RunsAreStored, AfterInsert, CallsHaveRequests
  <2>10. JournalHasLast'
    <3>1. Last({Record({}, "run.requested")}) = {Record({}, "run.requested")}
      BY <2>b DEF Last
    <3> QED
      BY <2>a, <3>1 DEF JournalHasLast
  <2>11. Attenuated'
    BY <1>11 DEF CreateRun, calls, Attenuated, Delegated, Stored
  <2>12. JournalNamesGrants'
    BY <1>11 DEF CreateRun, calls, JournalNamesGrants, Delegated, Stored, Record, NextSequence, Last, RunsAreStored, AfterInsert, CallsHaveRequests
  <2>13. GrantsAreRecorded'
    BY <1>11 DEF CreateRun, calls, GrantsAreRecorded, Delegated, Stored
  <2>14. JournalIsChained'
    <3>1. \A r \in Runs : journal'[r] =
             IF r = n THEN {Record({}, "run.requested")} ELSE journal[r]
      BY <2>a
    <3>2. \A r \in Runs : r # n => journal'[r] = journal[r]
      BY <3>1
    <3> QED
      BY <2>b, <3>1, <3>2 DEF JournalIsChained
  <2>15. AnswersAreTrue'
    BY <1>11 DEF CreateRun, calls, AnswersAreTrue, AnswersAreFinal, CallsHaveRequests
  <2> QED
    BY <2>1, <2>2, <2>3, <2>4, <2>5, <2>6, <2>7, <2>8, <2>9, <2>10, <2>11, <2>12, <2>13, <2>14, <2>15
<1>12. ASSUME NEW g \in Roots, AddRoot(g) PROVE IInv'
  <2>1. TypeOK'
    BY <1>12 DEF AddRoot, calls, AfterInsert
  <2>2. CallsHaveRequests'
    BY <1>12 DEF AddRoot, calls, CallsHaveRequests
  <2>3. AnswersAreFinal'
    BY <1>12 DEF AddRoot, calls, AnswersAreFinal
  <2>4. LocksAreExclusive'
    BY <1>12 DEF AddRoot, calls, LocksAreExclusive, HoldsRun, HoldsParent, HoldsGrant, AfterInsert
  <2>5. RowsAreOwn'
    BY <1>12 DEF AddRoot, calls, RowsAreOwn
  <2>6. RunsAreStored'
    BY <1>12 DEF AddRoot, calls, RunsAreStored, AfterInsert
  <2>7. ParentsAreChecked'
    BY <1>12 DEF AddRoot, calls, ParentsAreChecked, AfterInsert
  <2>8. GrantsAreNew'
    BY <1>12 DEF AddRoot, calls, GrantsAreNew, AfterInsert, CallsHaveRequests
  <2>9. PreviousIsLast'
    BY <1>12 DEF AddRoot, calls, PreviousIsLast
  <2>10. JournalHasLast'
    BY <1>12 DEF AddRoot, calls, JournalHasLast
  <2>11. Attenuated'
    BY <1>12 DEF AddRoot, calls, Attenuated, Delegated, Stored
  <2>12. JournalNamesGrants'
    BY <1>12 DEF AddRoot, calls, JournalNamesGrants, Delegated, Stored
  <2>13. GrantsAreRecorded'
    BY <1>12 DEF AddRoot, calls, GrantsAreRecorded, Delegated, Stored
  <2>14. JournalIsChained'
    BY <1>12 DEF AddRoot, calls, JournalIsChained
  <2>15. AnswersAreTrue'
    BY <1>12 DEF AddRoot, calls, AnswersAreTrue, AnswersAreFinal, CallsHaveRequests
  <2> QED
    BY <2>1, <2>2, <2>3, <2>4, <2>5, <2>6, <2>7, <2>8, <2>9, <2>10, <2>11, <2>12, <2>13, <2>14, <2>15
<1>13. ASSUME NEW g \in Grants, Revoke(g) PROVE IInv'
  <2>1. TypeOK'
    BY <1>13 DEF Revoke, calls, AfterInsert
  <2>2. CallsHaveRequests'
    BY <1>13 DEF Revoke, calls, CallsHaveRequests
  <2>3. AnswersAreFinal'
    BY <1>13 DEF Revoke, calls, AnswersAreFinal
  <2>4. LocksAreExclusive'
    BY <1>13 DEF Revoke, calls, LocksAreExclusive, HoldsRun, HoldsParent, HoldsGrant, AfterInsert
  <2>5. RowsAreOwn'
    BY <1>13 DEF Revoke, calls, RowsAreOwn
  <2>6. RunsAreStored'
    BY <1>13 DEF Revoke, calls, RunsAreStored, AfterInsert
  <2>7. ParentsAreChecked'
    BY <1>13 DEF Revoke, calls, ParentsAreChecked, AfterInsert, HoldsParent, CallsHaveRequests
  <2>8. GrantsAreNew'
    BY <1>13 DEF Revoke, calls, GrantsAreNew, AfterInsert
  <2>9. PreviousIsLast'
    BY <1>13 DEF Revoke, calls, PreviousIsLast
  <2>10. JournalHasLast'
    BY <1>13 DEF Revoke, calls, JournalHasLast
  <2>11. Attenuated'
    BY <1>13 DEF Revoke, calls, Attenuated, Delegated, Stored
  <2>12. JournalNamesGrants'
    BY <1>13 DEF Revoke, calls, JournalNamesGrants, Delegated, Stored
  <2>13. GrantsAreRecorded'
    BY <1>13 DEF Revoke, calls, GrantsAreRecorded, Delegated, Stored
  <2>14. JournalIsChained'
    BY <1>13 DEF Revoke, calls, JournalIsChained
  <2>15. AnswersAreTrue'
    BY <1>13 DEF Revoke, calls, AnswersAreTrue, AnswersAreFinal, CallsHaveRequests
  <2> QED
    BY <2>1, <2>2, <2>3, <2>4, <2>5, <2>6, <2>7, <2>8, <2>9, <2>10, <2>11, <2>12, <2>13, <2>14, <2>15
<1>14. ASSUME Tick PROVE IInv'
  <2>1. TypeOK'
    BY <1>14 DEF Tick, tables, calls, AfterInsert
  <2>2. CallsHaveRequests'
    BY <1>14 DEF Tick, tables, calls, CallsHaveRequests
  <2>3. AnswersAreFinal'
    BY <1>14 DEF Tick, tables, calls, AnswersAreFinal
  <2>4. LocksAreExclusive'
    BY <1>14 DEF Tick, tables, calls, LocksAreExclusive, HoldsRun, HoldsParent, HoldsGrant, AfterInsert
  <2>5. RowsAreOwn'
    BY <1>14 DEF Tick, tables, calls, RowsAreOwn
  <2>6. RunsAreStored'
    BY <1>14 DEF Tick, tables, calls, RunsAreStored, AfterInsert
  <2>7. ParentsAreChecked'
    BY <1>14 DEF Tick, tables, calls, ParentsAreChecked, AfterInsert
  <2>8. GrantsAreNew'
    BY <1>14 DEF Tick, tables, calls, GrantsAreNew, AfterInsert
  <2>9. PreviousIsLast'
    BY <1>14 DEF Tick, tables, calls, PreviousIsLast
  <2>10. JournalHasLast'
    BY <1>14 DEF Tick, tables, calls, JournalHasLast
  <2>11. Attenuated'
    BY <1>14 DEF Tick, tables, calls, Attenuated, Delegated, Stored
  <2>12. JournalNamesGrants'
    BY <1>14 DEF Tick, tables, calls, JournalNamesGrants, Delegated, Stored
  <2>13. GrantsAreRecorded'
    BY <1>14 DEF Tick, tables, calls, GrantsAreRecorded, Delegated, Stored
  <2>14. JournalIsChained'
    BY <1>14 DEF Tick, tables, calls, JournalIsChained
  <2>15. AnswersAreTrue'
    BY <1>14 DEF Tick, tables, calls, AnswersAreTrue
  <2> QED
    BY <2>1, <2>2, <2>3, <2>4, <2>5, <2>6, <2>7, <2>8, <2>9, <2>10, <2>11, <2>12, <2>13, <2>14, <2>15
<1>15. CASE UNCHANGED vars
  BY <1>15 DEF vars, tables, calls, CallsHaveRequests, AnswersAreFinal, LocksAreExclusive, RowsAreOwn, RunsAreStored, ParentsAreChecked, GrantsAreNew, PreviousIsLast, JournalHasLast, Attenuated, JournalNamesGrants, GrantsAreRecorded, JournalIsChained, AnswersAreTrue, HoldsRun, HoldsParent, HoldsGrant, Delegated, Stored
<1> QED
  BY <1>1, <1>2, <1>3, <1>4, <1>5, <1>6, <1>7, <1>8, <1>9, <1>10, <1>11, <1>12, <1>13, <1>14, <1>15
  DEF Next, Step

\* The inductive invariant holds in every reachable state.
THEOREM Invariance == Spec => []IInv
<1>1. Init => IInv
  BY RequestsAssumption, RootsAssumption, NothingAssumption, BoundsAssumption
  DEF Init, IInv, TypeOK, CallsHaveRequests, AnswersAreFinal, LocksAreExclusive,
      HoldsRun, HoldsParent, HoldsGrant, AfterInsert, RowsAreOwn, RunsAreStored,
      ParentsAreChecked, GrantsAreNew, PreviousIsLast, JournalHasLast, Attenuated,
      Stored, Delegated, JournalNamesGrants, GrantsAreRecorded, JournalIsChained,
      AnswersAreTrue
<1> QED
  BY <1>1, IInvStep, PTL DEF Spec

\* Type correctness for any callers, runs, grants, calls and failures.
THEOREM TypeCorrect == Spec => []TypeOK
<1>1. IInv => TypeOK
  BY DEF IInv
<1> QED
  BY <1>1, Invariance, PTL

\* A caller told "granted" holds the grant it asked for.
THEOREM TrueAnswers == Spec => []AnswersAreTrue
<1>1. IInv => AnswersAreTrue
  BY DEF IInv
<1> QED
  BY <1>1, Invariance, PTL

\* The journal of every run is one hash chain, whoever delegates concurrently.
THEOREM ChainedJournal == Spec => []JournalIsChained
<1>1. IInv => JournalIsChained
  BY DEF IInv
<1> QED
  BY <1>1, Invariance, PTL

\* The INSERT of a journal record never meets its sequence number.
THEOREM UncontendedChain == Spec => []ChainIsUncontended
<1>1. IInv => ChainIsUncontended
  <2> SUFFICES ASSUME IInv, NEW c \in Callers, pc[c] = "journal",
                      NEW f \in journal[request[c].run]
               PROVE  f.sequence # NextSequence(previous[c])
    BY DEF ChainIsUncontended, SequenceIsFree
  <2> DEFINE n == request[c].run
  <2>1. n \in Runs /\ previous[c] = Last(journal[n])
    BY RequestsAssumption DEF IInv, CallsHaveRequests, PreviousIsLast
  <2>2. PICK e \in journal[n] : Last(journal[n]) = {e}
    BY <2>1 DEF IInv, JournalHasLast
  <2>3. f.sequence \in Nat /\ e.sequence \in Nat /\ f.sequence <= e.sequence
    BY <2>1, <2>2 DEF IInv, TypeOK, Last
  <2> QED
    BY <2>1, <2>2, <2>3, NextSequenceOfOne
<1> QED
  BY <1>1, Invariance, PTL

\* Every delegated grant has one journal record, in its run, and one outbox row.
THEOREM RecordsAreUnique == Spec => []RecordedOnce
<1>1. IInv => RecordedOnce
  <2> SUFFICES ASSUME IInv PROVE RecordedOnce
    OBVIOUS
  <2>1. \A g \in Grants : outbox[g] = (IF g \in Delegated THEN 1 ELSE 0)
    BY DEF IInv, GrantsAreRecorded
  <2> SUFFICES ASSUME NEW g \in Grants, NEW r \in Runs
               PROVE  Cardinality({e \in journal[r] : e.body = g}) =
                         IF g \in Delegated /\ grants[g].run = r THEN 1 ELSE 0
    BY <2>1 DEF RecordedOnce
  <2>2. CASE g \in Delegated /\ grants[g].run = r
    <3>1. PICK e \in journal[r] : e.body = g
      BY <2>2 DEF IInv, GrantsAreRecorded
    <3>2. {f \in journal[r] : f.body = g} = {e}
      BY <3>1 DEF IInv, JournalNamesGrants
    <3> QED
      BY <2>2, <3>2, FS_Singleton
  <2>3. CASE ~(g \in Delegated /\ grants[g].run = r)
    <3>1. {f \in journal[r] : f.body = g} = {}
      BY <2>3 DEF IInv, JournalNamesGrants
    <3> QED
      BY <2>3, <3>1, FS_EmptySet
  <2> QED
    BY <2>2, <2>3
<1> QED
  BY <1>1, Invariance, PTL

-----------------------------------------------------------------------------
\* Authority only shrinks along chains of delegation of any length: the stored
\* grants whose authority covers g hold its parent and, with any delegated grant,
\* its parent, so they hold every ancestor of g.
THEOREM AuthorityOnlyShrinks == Spec => []AuthorityShrinks
<1>1. IInv => AuthorityShrinks
  <2> SUFFICES ASSUME IInv, NEW g \in Delegated
               PROVE  /\ grants[g].parent \in Stored
                      /\ \A a \in Ancestors(g) :
                            /\ PermitsChild(grants[a].doc, grants[g].doc)
                            /\ grants[a].run = grants[g].run
    BY DEF AuthorityShrinks
  <2> DEFINE Covers(x) == PermitsChild(grants[x].doc, grants[g].doc) /\ grants[x].run = grants[g].run
             S == {x \in Stored : Covers(x)}
  <2>0. g \in Stored
    BY DEF Delegated
  <2>1. \A x \in Stored : IsDoc(grants[x].doc)
    <3> SUFFICES ASSUME NEW x \in Stored PROVE IsDoc(grants[x].doc)
      OBVIOUS
    <3>1. \/ x \in Roots /\ grants[x] = RootRow[x]
          \/ \E d \in Requests : grants[x] = RowOf(d)
      BY DEF IInv, RowsAreOwn, Stored
    <3>2. CASE x \in Roots /\ grants[x] = RootRow[x]
      BY <3>2, RootsAssumption
    <3>3. ASSUME NEW d \in Requests, grants[x] = RowOf(d) PROVE IsDoc(grants[x].doc)
      <4>1. grants[x].doc = d.doc
        BY <3>3 DEF RowOf
      <4> QED
        BY <4>1, RequestsAssumption
    <3> QED
      BY <3>1, <3>2, <3>3
  <2>2. grants[g].parent \in S
    BY DEF IInv, Attenuated
  <2>3. ASSUME NEW x \in S \intersect Delegated PROVE grants[x].parent \in S
    <3>1. LET p == grants[x].parent IN
          p \in Stored /\ grants[p].run = grants[x].run /\ PermitsChild(grants[p].doc, grants[x].doc)
      BY DEF IInv, Attenuated
    <3>2. x \in Stored /\ Covers(x)
      OBVIOUS
    <3>3. PermitsChild(grants[grants[x].parent].doc, grants[g].doc)
      BY <2>0, <2>1, <3>1, <3>2, PermitsChildTransitive
    <3> QED
      BY <3>1, <3>2, <3>3
  <2>4. S \in SUBSET Stored
    OBVIOUS
  <2>5. ASSUME NEW a \in Ancestors(g) PROVE a \in S
    <3> HIDE DEF S
    <3> QED
      BY <2>2, <2>3, <2>4 DEF Ancestors
  <2> QED
    BY <2>2, <2>5
<1> QED
  BY <1>1, Invariance, PTL

-----------------------------------------------------------------------------
\* No grant is stored under a parent that is already revoked.
THEOREM RevocationIsRespected == Spec => NoGrantUnderRevoked
<1> DEFINE Respected == \A g \in Grants : grants[g] = Nothing /\ grants'[g] # Nothing =>
              grants'[g].parent \notin revoked
<1>1. IInv /\ [Next]_vars => Respected
  <2> SUFFICES ASSUME IInv, [Next]_vars, NEW g \in Grants,
                      grants[g] = Nothing, grants'[g] # Nothing
               PROVE  grants'[g].parent \notin revoked
    OBVIOUS
  <2> USE DEF IInv, TypeOK
  <2>1. ASSUME NEW c \in Callers, Commit(c) PROVE grants'[g].parent \notin revoked
    <3>1. /\ grants' = [grants EXCEPT ![request[c].grant] = RowOf(request[c])]
          /\ request[c].parent \notin revoked
      BY <2>1 DEF Commit, ParentsAreChecked, AfterInsert
    <3> QED
      BY <3>1 DEF RowOf
  <2>2. ASSUME NEW r \in Roots, AddRoot(r) PROVE grants'[g].parent \notin revoked
    BY <2>2, RootsAssumption, NothingAssumption DEF AddRoot
  <2>3. ASSUME NEW c \in Callers,
               \/ \E d \in Requests : Ask(c, d)
               \/ LockRun(c) \/ LockParent(c) \/ InsertGrant(c) \/ ReadPrevious(c)
               \/ InsertJournal(c) \/ InsertOutbox(c) \/ Fail(c) \/ LoseAnswer(c)
        PROVE FALSE
    BY <2>3 DEF Ask, LockRun, LockParent, InsertGrant, ReadPrevious, InsertJournal,
       InsertOutbox, Fail, LoseAnswer, tables
  <2>4. CASE Tick \/ (\E n \in Runs : CreateRun(n)) \/ (\E h \in Grants : Revoke(h))
    BY <2>4 DEF Tick, CreateRun, Revoke, tables
  <2>5. CASE UNCHANGED vars
    BY <2>5 DEF vars, tables
  <2>6. ASSUME NEW c \in Callers, Step(c) PROVE grants'[g].parent \notin revoked
    BY <2>1, <2>3, <2>6 DEF Step, Ask, tables
  <2> QED
    BY <2>1, <2>2, <2>3, <2>4, <2>5, <2>6 DEF Next
<1>2. IInv /\ [Next]_vars => [Respected]_vars
  BY <1>1
<1> QED
  BY <1>2, Invariance, PTL DEF Spec, NoGrantUnderRevoked

-----------------------------------------------------------------------------
(* A retry of a stored delegation.                                          *)

\* Past the locks, what they protected about the scope and the parent holds.
CallsAreInScope ==
    \A c \in Callers :
        LET d == request[c] IN
        /\ pc[c] \in {"parent", "insert"} \union AfterInsert =>
              ScopeOf[d.run] = d.doc.scope
        /\ pc[c] \in {"insert"} \union AfterInsert => grants[d.parent].sealed

\* A delegated grant stays in the scope of a stored run and under a parent whose
\* document is sealed.
GrantsAreInScope ==
    \A g \in Stored \ Roots :
        LET row == grants[g] IN
        /\ row.parent \in Stored
        /\ grants[row.parent].sealed
        /\ journal[row.run] # {}
        /\ ScopeOf[row.run] = row.doc.scope

\* Rows are never changed, and runs never removed.
LEMMA RowsStay ==
    IInv /\ [Next]_vars =>
        /\ \A g \in Stored : grants'[g] = grants[g]
        /\ \A n \in Runs : journal[n] \subseteq journal'[n]
<1> SUFFICES ASSUME IInv, [Next]_vars
             PROVE  /\ \A g \in Stored : grants'[g] = grants[g]
                    /\ \A n \in Runs : journal[n] \subseteq journal'[n]
  OBVIOUS
<1> USE DEF IInv, TypeOK, Stored, tables
<1>1. ASSUME NEW c \in Callers, Commit(c)
      PROVE  /\ \A g \in Stored : grants'[g] = grants[g]
             /\ \A n \in Runs : journal[n] \subseteq journal'[n]
  BY <1>1 DEF Commit, GrantsAreNew, AfterInsert
<1>2. ASSUME NEW c \in Callers,
             \/ \E d \in Requests : Ask(c, d)
             \/ LockRun(c) \/ LockParent(c) \/ InsertGrant(c) \/ ReadPrevious(c)
             \/ InsertJournal(c) \/ InsertOutbox(c) \/ Fail(c) \/ LoseAnswer(c)
      PROVE  UNCHANGED <<grants, journal>>
  BY <1>2 DEF Ask, LockRun, LockParent, InsertGrant, ReadPrevious, InsertJournal,
     InsertOutbox, Fail, LoseAnswer
<1>3. ASSUME NEW n \in Runs, CreateRun(n)
      PROVE  /\ \A g \in Stored : grants'[g] = grants[g]
             /\ \A m \in Runs : journal[m] \subseteq journal'[m]
  BY <1>3 DEF CreateRun
<1>4. ASSUME NEW r \in Roots, AddRoot(r)
      PROVE  /\ \A g \in Stored : grants'[g] = grants[g]
             /\ \A n \in Runs : journal[n] \subseteq journal'[n]
  BY <1>4 DEF AddRoot
<1>5. CASE Tick \/ (\E g \in Grants : Revoke(g)) \/ UNCHANGED vars
  BY <1>5 DEF Tick, Revoke, vars
<1>6. ASSUME NEW c \in Callers, Step(c)
      PROVE  /\ \A g \in Stored : grants'[g] = grants[g]
             /\ \A n \in Runs : journal[n] \subseteq journal'[n]
  <2>1. CASE request[c] # Nothing /\ Ask(c, request[c])
    BY <2>1 DEF Ask
  <2> QED
    BY <1>1, <1>2, <1>6, <2>1 DEF Step
<1> QED
  BY <1>1, <1>2, <1>3, <1>4, <1>5, <1>6 DEF Next

LEMMA CallsInScopeStep ==
    IInv /\ CallsAreInScope /\ [Next]_vars => CallsAreInScope'
<1> SUFFICES ASSUME IInv, CallsAreInScope, [Next]_vars PROVE CallsAreInScope'
  OBVIOUS
<1> USE DEF IInv, TypeOK, CallsAreInScope
<1>0. \A c \in Callers : pc[c] \in {"insert"} \union AfterInsert =>
         request[c].parent \in Stored /\ grants'[request[c].parent] = grants[request[c].parent]
  BY RowsStay DEF ParentsAreChecked, Stored
<1>1. ASSUME \A c \in Callers :
                /\ pc'[c] \in {"parent", "insert"} \union AfterInsert =>
                      pc[c] \in {"parent", "insert"} \union AfterInsert /\ request'[c] = request[c]
                /\ pc'[c] \in {"insert"} \union AfterInsert => pc[c] \in {"insert"} \union AfterInsert
      PROVE  CallsAreInScope'
  BY <1>0, <1>1
<1>2. ASSUME NEW c \in Callers,
             \/ \E d \in Requests : Ask(c, d)
             \/ InsertGrant(c) \/ ReadPrevious(c) \/ InsertJournal(c) \/ InsertOutbox(c)
             \/ Commit(c) \/ Fail(c) \/ LoseAnswer(c)
      PROVE  CallsAreInScope'
  BY <1>1, <1>2 DEF Ask, InsertGrant, ReadPrevious, InsertJournal, InsertOutbox, Commit,
     Fail, LoseAnswer, Reply, Goto, AfterInsert
<1>3. ASSUME NEW c \in Callers, LockRun(c) PROVE CallsAreInScope'
  <2>1. pc'[c] = "parent" => ScopeOf[request[c].run] = request[c].doc.scope
    BY <1>3 DEF LockRun, Reply, Goto
  <2>2. pc'[c] \in {"parent", "done"} /\ UNCHANGED <<request, grants>>
    BY <1>3 DEF LockRun, Reply, Goto, tables
  <2>3. \A b \in Callers \ {c} : pc'[b] = pc[b]
    BY <1>3 DEF LockRun, Reply, Goto
  <2> QED
    BY <2>1, <2>2, <2>3 DEF AfterInsert
<1>4. ASSUME NEW c \in Callers, LockParent(c) PROVE CallsAreInScope'
  <2>1. pc'[c] = "insert" => grants[request[c].parent].sealed
    BY <1>4 DEF LockParent, MayDelegate, Reply, Goto
  <2>2. pc[c] = "parent" /\ pc'[c] \in {"insert", "done"} /\ UNCHANGED <<request, grants>>
    BY <1>4 DEF LockParent, Reply, Goto, tables
  <2>3. \A b \in Callers \ {c} : pc'[b] = pc[b]
    BY <1>4 DEF LockParent, Reply, Goto
  <2> QED
    BY <2>1, <2>2, <2>3 DEF AfterInsert
<1>5. CASE (\E n \in Runs : CreateRun(n)) \/ (\E r \in Roots : AddRoot(r))
           \/ (\E g \in Grants : Revoke(g)) \/ Tick \/ UNCHANGED vars
  BY <1>1, <1>5 DEF CreateRun, AddRoot, Revoke, Tick, vars, calls
<1>6. ASSUME NEW c \in Callers, Step(c) PROVE CallsAreInScope'
  <2>1. CASE request[c] # Nothing /\ Ask(c, request[c])
    BY <1>1, <2>1 DEF Ask, Goto, AfterInsert
  <2> QED
    BY <1>2, <1>3, <1>4, <1>6, <2>1 DEF Step
<1> QED
  BY <1>2, <1>3, <1>4, <1>5, <1>6 DEF Next

LEMMA GrantsInScopeStep ==
    IInv /\ CallsAreInScope /\ GrantsAreInScope /\ [Next]_vars => GrantsAreInScope'
<1> SUFFICES ASSUME IInv, CallsAreInScope, GrantsAreInScope, [Next]_vars,
                    NEW g \in Stored' \ Roots
             PROVE  /\ grants'[g].parent \in Stored'
                    /\ grants'[grants'[g].parent].sealed
                    /\ journal'[grants'[g].run] # {}
                    /\ ScopeOf[grants'[g].run] = grants'[g].doc.scope
  BY DEF GrantsAreInScope
<1> USE DEF IInv, TypeOK
<1>0. /\ \A x \in Stored : x \in Stored' /\ grants'[x] = grants[x]
      /\ \A n \in Runs : journal[n] # {} => journal'[n] # {}
  BY RowsStay DEF Stored
<1>1. CASE g \in Stored
  <2>1. /\ grants[g].parent \in Stored /\ grants[grants[g].parent].sealed
        /\ journal[grants[g].run] # {} /\ ScopeOf[grants[g].run] = grants[g].doc.scope
    BY <1>1 DEF GrantsAreInScope
  <2>2. grants[g].run \in Runs
    BY <1>1, RequestsAssumption DEF RowsAreOwn, Stored, RowOf
  <2> QED
    BY <1>0, <1>1, <2>1, <2>2
<1>2. CASE g \notin Stored
  <2>1. g \in Grants /\ grants[g] = Nothing /\ grants'[g] # Nothing
    BY <1>2 DEF Stored
  <2>2. PICK c \in Callers : Commit(c) /\ request[c].grant = g
    <3>1. \A r \in Roots : ~AddRoot(r)
      BY <2>1 DEF AddRoot
    <3>2. \A n \in Runs : ~CreateRun(n)
      BY <2>1 DEF CreateRun
    <3>3. ~Tick /\ (\A h \in Grants : ~Revoke(h)) /\ ~UNCHANGED vars
      BY <2>1 DEF Tick, Revoke, vars, tables
    <3>4. \A c \in Callers :
             /\ \A d : ~Ask(c, d)
             /\ ~LockRun(c) /\ ~LockParent(c) /\ ~InsertGrant(c) /\ ~ReadPrevious(c)
             /\ ~InsertJournal(c) /\ ~InsertOutbox(c) /\ ~Fail(c) /\ ~LoseAnswer(c)
      BY <2>1 DEF Ask, LockRun, LockParent, InsertGrant, ReadPrevious, InsertJournal,
         InsertOutbox, Fail, LoseAnswer, tables
    <3>5. PICK c \in Callers : Commit(c)
      BY <3>1, <3>2, <3>3, <3>4 DEF Next, Step
    <3> QED
      BY <2>1, <3>5 DEF Commit
  <2>3. pc[c] = "commit" /\ request[c] \in Requests /\ grants'[g] = RowOf(request[c])
    BY <2>1, <2>2 DEF Commit, CallsHaveRequests
  <2>4. /\ request[c].parent \in Stored /\ grants[request[c].parent].sealed
        /\ journal[request[c].run] # {} /\ ScopeOf[request[c].run] = request[c].doc.scope
    BY <2>3 DEF CallsAreInScope, ParentsAreChecked, RunsAreStored, AfterInsert, Stored
  <2>5. request[c].run \in Runs
    BY <2>3, RequestsAssumption
  <2> QED
    BY <1>0, <2>3, <2>4, <2>5 DEF RowOf
<1> QED
  BY <1>1, <1>2

(* A call whose grant is stored as it asks is refused only because its     *)
(* parent has been revoked or has expired (create_delegation, the branch   *)
(* of ON CONFLICT that finds the row of an earlier attempt).               *)
THEOREM RetriesHonoured == Spec => RetriesAreHonoured
<1> DEFINE Honoured ==
      \A c \in Callers :
          LET d == request[c] IN
          /\ answer[c] = Nothing /\ answer'[c] \in {"denied", "collision"}
          /\ grants[d.grant] = RowOf(d)
          => /\ answer'[c] = "denied"
             /\ d.parent \in revoked \/ grants[d.parent].doc.until <= now
<1>1. IInv /\ GrantsAreInScope /\ [Next]_vars => Honoured
  <2> SUFFICES ASSUME IInv, GrantsAreInScope, [Next]_vars, NEW c \in Callers,
                      answer[c] = Nothing, answer'[c] \in {"denied", "collision"},
                      grants[request[c].grant] = RowOf(request[c])
               PROVE  /\ answer'[c] = "denied"
                      /\ request[c].parent \in revoked
                         \/ grants[request[c].parent].doc.until <= now
    OBVIOUS
  <2> USE DEF IInv, TypeOK
  <2> DEFINE d == request[c]
             p == grants[d.parent]
  <2>1. LockRun(c) \/ LockParent(c) \/ InsertGrant(c)
    <3>1. answer' # answer
      BY NothingAssumption
    <3>2. \A b \in Callers :
             /\ \A e : ~Ask(b, e)
             /\ ~ReadPrevious(b) /\ ~InsertJournal(b) /\ ~InsertOutbox(b) /\ ~Fail(b)
      BY <3>1 DEF Ask, ReadPrevious, InsertJournal, InsertOutbox, Fail
    <3>3. /\ \A n \in Runs : ~CreateRun(n)
          /\ \A r \in Roots : ~AddRoot(r)
          /\ \A g \in Grants : ~Revoke(g)
          /\ ~Tick /\ ~UNCHANGED vars
      BY <3>1 DEF CreateRun, AddRoot, Revoke, Tick, vars, calls
    <3>4. \A b \in Callers : ~LoseAnswer(b)
      BY NothingAssumption DEF LoseAnswer
    <3>5. \A b \in Callers : ~Commit(b)
      BY NothingAssumption DEF Commit, Reply
    <3>6. \A b \in Callers : LockRun(b) \/ LockParent(b) \/ InsertGrant(b) => b = c
      BY NothingAssumption DEF LockRun, LockParent, InsertGrant, Reply
    <3> QED
      BY <3>2, <3>3, <3>4, <3>5, <3>6 DEF Next, Step
  <2>2. d \in Requests
    BY <2>1 DEF LockRun, LockParent, InsertGrant, CallsHaveRequests
  <2>3. d.grant \in Stored \ Roots /\ d.run \in Runs
    BY <2>2, RequestsAssumption, NothingAssumption DEF Stored, Grants
  <2>4. /\ grants[d.grant].parent = d.parent
        /\ grants[d.grant].doc = d.doc
        /\ grants[d.grant].run = d.run
    BY DEF RowOf
  <2>5. /\ d.parent \in Stored /\ p.sealed
        /\ journal[d.run] # {} /\ ScopeOf[d.run] = d.doc.scope
    BY <2>3, <2>4 DEF GrantsAreInScope
  <2>6. p.run = d.run /\ PermitsChild(p.doc, d.doc)
    <3>1. d.grant \in Delegated
      BY <2>3, <2>4, <2>5, NothingAssumption DEF Delegated, Stored
    <3> QED
      BY <2>4, <3>1 DEF Attenuated
  <2>7. CASE LockRun(c)
    BY <2>5, <2>7, NothingAssumption DEF LockRun
  <2>8. CASE LockParent(c)
    <3>1. ~MayDelegate(d) /\ answer'[c] = "denied"
      BY <2>8, NothingAssumption DEF LockParent, Reply
    <3>2. d.parent \in revoked \/ ~(now < p.doc.until)
      BY <2>5, <2>6, <3>1 DEF MayDelegate, PermitsChild, Stored
    <3>3. p.doc.until \in Nat
      <4>1. \/ d.parent \in Roots /\ p = RootRow[d.parent]
            \/ \E e \in Requests : p = RowOf(e)
        BY <2>5 DEF RowsAreOwn, Stored
      <4>2. IsDoc(p.doc)
        <5>1. CASE d.parent \in Roots /\ p = RootRow[d.parent]
          BY <5>1, RootsAssumption
        <5>2. ASSUME NEW e \in Requests, p = RowOf(e) PROVE IsDoc(p.doc)
          BY <5>2, RequestsAssumption DEF RowOf
        <5> QED
          BY <4>1, <5>1, <5>2
      <4> QED
        BY <4>2 DEF IsDoc
    <3> QED
      BY <3>1, <3>2, <3>3
  <2>9. CASE InsertGrant(c)
    <3>1. IsStored(d) /\ SameGrant(d)
      BY <2>3, <2>4 DEF IsStored, SameGrant, Stored
    <3> QED
      BY <2>9, <3>1 DEF InsertGrant, Reply
  <2> QED
    BY <2>1, <2>7, <2>8, <2>9
<1>2. Init => CallsAreInScope /\ GrantsAreInScope
  BY DEF Init, CallsAreInScope, GrantsAreInScope, Stored, AfterInsert
<1>3. IInv /\ GrantsAreInScope /\ [Next]_vars => [Honoured]_vars
  BY <1>1
<1> QED
  BY <1>2, <1>3, CallsInScopeStep, GrantsInScopeStep, Invariance, PTL
  DEF Spec, RetriesAreHonoured
=============================================================================
