---------------------------- MODULE RunRecordsProofs ----------------------------
(***************************************************************************)
(* Proofs about the activity log and the effect records for any runs,      *)
(* documents and callers.                                                  *)
(***************************************************************************)
EXTENDS RunRecords, FiniteSetTheorems, TLAPS

\* A chain: numbered from zero, one document for a number, each naming the one
\* before.
IsChain(S, k) ==
    /\ \A d \in S : d.sequence \in 0..(k - 1)
    /\ \A i \in 0..(k - 1) : \E d \in S : d.sequence = i
    /\ \A d, e \in S : d.sequence = e.sequence => d = e
    /\ \A d \in S : d.previous = {e \in S : e.sequence + 1 = d.sequence}

Chained(S) == \E k \in Nat : IsChain(S, k)

-----------------------------------------------------------------------------
(* Chains.                                                                  *)

LEMMA EmptyChain == Chained({})
<1>1. IsChain({}, 0)
  BY DEF IsChain
<1> QED BY <1>1 DEF Chained

\* The last document of a chain.
LEMMA LastOfChain ==
    ASSUME NEW S, NEW k \in Nat, IsChain(S, k)
    PROVE  /\ k = 0 => S = {} /\ Last(S) = {}
           /\ k > 0 => \E l \in S : l.sequence = k - 1 /\ Last(S) = {l}
<1>1. ASSUME k = 0 PROVE S = {} /\ Last(S) = {}
  BY <1>1 DEF IsChain, Last
<1>2. ASSUME k > 0 PROVE \E l \in S : l.sequence = k - 1 /\ Last(S) = {l}
  <2>1. PICK l \in S : l.sequence = k - 1
    BY <1>2 DEF IsChain
  <2>2. \A d \in S : d.sequence \in Nat /\ d.sequence <= k - 1
    BY <1>2 DEF IsChain
  <2>3. \A d \in S : (\A e \in S : e.sequence <= d.sequence) => d = l
    BY <2>1, <2>2 DEF IsChain
  <2> QED BY <2>1, <2>2, <2>3 DEF Last
<1> QED BY <1>1, <1>2

\* A document that continues a chain makes a chain and is its last.
LEMMA ChainGrows ==
    ASSUME NEW S, NEW d, Chained(S), Continues(d, Last(S))
    PROVE  Chained(S \union {d}) /\ Last(S \union {d}) = {d}
<1>1. PICK k \in Nat : IsChain(S, k)
  BY DEF Chained
<1>2. d.sequence = k /\ d.previous = Last(S)
  <2>1. CASE k = 0
    BY <1>1, <2>1, LastOfChain DEF Continues, ContinuesByNumber
  <2>2. CASE k > 0
    <3>1. PICK l \in S : l.sequence = k - 1 /\ Last(S) = {l}
      BY <1>1, <2>2, LastOfChain
    <3>2. (CHOOSE e \in {l} : TRUE) = l
      OBVIOUS
    <3> QED BY <3>1, <3>2 DEF Continues, ContinuesByNumber
  <2> QED BY <2>1, <2>2
<1>3. \A e \in S : e.sequence \in 0..(k - 1)
  BY <1>1 DEF IsChain
<1>4. Last(S) = {e \in S : e.sequence + 1 = k}
  <2>1. CASE k = 0
    BY <1>1, <2>1, LastOfChain
  <2>2. CASE k > 0
    <3>1. PICK l \in S : l.sequence = k - 1 /\ Last(S) = {l}
      BY <1>1, <2>2, LastOfChain
    <3>2. \A e \in S : e.sequence + 1 = k <=> e = l
      BY <1>1, <1>3, <3>1 DEF IsChain
    <3> QED BY <3>1, <3>2
  <2> QED BY <2>1, <2>2
<1> DEFINE T == S \union {d}
<1>5. IsChain(T, k + 1)
  <2>1. \A e \in T : e.sequence \in 0..k
    BY <1>2, <1>3
  <2>2. \A i \in 0..k : \E e \in T : e.sequence = i
    BY <1>1, <1>2 DEF IsChain
  <2>3. \A e, f \in T : e.sequence = f.sequence => e = f
    BY <1>1, <1>2, <1>3 DEF IsChain
  <2>4. d.previous = {e \in T : e.sequence + 1 = d.sequence}
    BY <1>2, <1>4
  <2>5. ASSUME NEW e \in S PROVE e.previous = {f \in T : f.sequence + 1 = e.sequence}
    <3>1. e.previous = {f \in S : f.sequence + 1 = e.sequence}
      BY <1>1 DEF IsChain
    <3>2. d.sequence + 1 # e.sequence
      BY <1>2, <1>3
    <3> QED BY <3>1, <3>2
  <2> QED BY <2>1, <2>2, <2>3, <2>4, <2>5 DEF IsChain
<1>6. Last(T) = {d}
  BY <1>2, <1>3 DEF Last
<1>7. \E m \in Nat : IsChain(T, m)
  <2>1. k + 1 \in Nat
    OBVIOUS
  <2> HIDE DEF T
  <2> QED BY <1>5, <2>1
<1> QED BY <1>6, <1>7 DEF Chained

\* What a chain means for its size.
LEMMA SizeOfChain ==
    ASSUME NEW S, Chained(S)
    PROVE  {d.sequence : d \in S} = 0..(Cardinality(S) - 1)
<1>1. PICK k \in Nat : IsChain(S, k)
  BY DEF Chained
<1> DEFINE f == [i \in 1..k |-> CHOOSE d \in S : d.sequence = i - 1]
<1>2. \A i \in 1..k : f[i] \in S /\ f[i].sequence = i - 1
  <2> SUFFICES ASSUME NEW i \in 1..k PROVE f[i] \in S /\ f[i].sequence = i - 1
    OBVIOUS
  <2>1. \E d \in S : d.sequence = i - 1
    BY <1>1 DEF IsChain
  <2> QED BY <2>1
<1> HIDE DEF f
<1>3. f \in [1..k -> S]
  BY <1>2 DEF f
<1>4. \A i, j \in 1..k : f[i] = f[j] => i = j
  BY <1>2
<1>5. \A d \in S : \E i \in 1..k : f[i] = d
  <2> SUFFICES ASSUME NEW d \in S PROVE \E i \in 1..k : f[i] = d
    OBVIOUS
  <2>1. d.sequence \in 0..(k - 1)
    BY <1>1 DEF IsChain
  <2>2. d.sequence + 1 \in 1..k /\ f[d.sequence + 1].sequence = d.sequence
    BY <1>2, <2>1
  <2> QED BY <1>1, <1>2, <2>2 DEF IsChain
<1>6. ExistsBijection(1..k, S)
  BY <1>3, <1>4, <1>5 DEF ExistsBijection, Bijection, Injection, Surjection, IsInjective
<1>7. Cardinality(S) = k
  BY <1>6, FS_CountingElements
<1>8. \A i : i \in {d.sequence : d \in S} <=> i \in 0..(k - 1)
  BY <1>1 DEF IsChain
<1> QED BY <1>7, <1>8

-----------------------------------------------------------------------------
(* The invariant.                                                           *)

InTransaction(c) == pc[c] \in {"previous", "insert"}

\* What a caller works on was checked when it took the lock.
RequestsAreChecked(c) ==
    /\ pc[c] # "idle" => request[c] \in Requests
    /\ pc[c] # "done" => answer[c] = Nothing
    /\ InTransaction(c) =>
          /\ request[c].run \in Runs
          /\ request[c].kind = "effects" => Bound(request[c])
    /\ pc[c] = "previous" => request[c].kind = "activities"

\* The documents up to next are written, or stored already.
DocumentsFollow(c) ==
    /\ pc[c] # "insert" => written[c] = {} /\ next[c] = 1
    /\ pc[c] = "insert" =>
          /\ next[c] <= Len(request[c].documents) + 1
          /\ \A i \in 1..(next[c] - 1) : request[c].documents[i] \in written[c] \union effects
          /\ \A d \in written[c] : \E i \in 1..(next[c] - 1) : d = request[c].documents[i]
          /\ request[c].kind = "activities" =>
                \A i \in 1..(next[c] - 1) : request[c].documents[i] \in written[c]

\* What is written is in scope and new.
WrittenIsNew(c) ==
    /\ \A d \in written[c] : InScope(c, d) /\ \A e \in activities \union effects : e.id # d.id
    /\ \A d, e \in written[c] : d.id = e.id => d = e

\* The log of the run and what is written form a chain.
WrittenContinues(c) ==
    (pc[c] = "insert" /\ request[c].kind = "activities") =>
        /\ Chained(Of(request[c].run) \union written[c])
        /\ tail[c] = Last(Of(request[c].run) \union written[c])

CallerInv(c) ==
    RequestsAreChecked(c) /\ DocumentsFollow(c) /\ WrittenIsNew(c) /\ WrittenContinues(c)

\* Two transactions are on different runs and write different ids.
TransactionsApart ==
    \A b, c \in Callers : b # c =>
        /\ InTransaction(b) /\ InTransaction(c) => request[b].run # request[c].run
        /\ \A d \in written[b], e \in written[c] : d.id # e.id

LogsAreChains ==
    /\ \A n \in Runs : Chained(Of(n))
    /\ \A d \in activities : d.sealed

IInv ==
    /\ TypeOK
    /\ \A c \in Callers : CallerInv(c)
    /\ TransactionsApart
    /\ LogsAreChains
    /\ EffectsAreBound
    /\ AnnouncedOnce
    /\ BatchesAreWhole

-----------------------------------------------------------------------------
\* The documents of a request.
LEMMA DocumentsOf ==
    ASSUME NEW q \in Requests, NEW i \in 1..Len(q.documents)
    PROVE  /\ Len(q.documents) \in Nat
           /\ q.documents[i] \in AllDocuments /\ q.documents[i] \in Documents(q)
           /\ q.kind = "activities" =>
                 q.documents[i].kind = "activity" /\ q.documents[i].sequence \in Nat
           /\ q.kind = "effects" => q.documents[i].kind = IF i = 1 THEN "receipt" ELSE "reconciliation"
           /\ q.kind \in {"activities", "effects"}
<1>1. IsRequest(q)
  BY RequestsAssumption
<1>2. Len(q.documents) \in Nat
  BY <1>1 DEF IsRequest
<1>3. q.documents[i] \in Documents(q)
  BY DEF Documents
<1>4. q.documents[i] \in AllDocuments
  BY <1>3 DEF AllDocuments
<1>5. q.kind = "effects" => i \in 1..2
  BY <1>1 DEF IsRequest
<1> QED BY <1>1, <1>2, <1>3, <1>4, <1>5 DEF IsRequest

LEMMA TypeInit == Init => TypeOK
  BY FaultAssumption DEF Init, TypeOK

LEMMA WrittenAreDocuments ==
    ASSUME TypeOK, NEW c \in Callers, CallerInv(c), NEW d \in written[c]
    PROVE  /\ pc[c] = "insert" /\ request[c] \in Requests
           /\ d \in Documents(request[c]) /\ d \in AllDocuments /\ d.id \in Ids
           /\ request[c].kind = "activities" => d.kind = "activity" /\ d.sequence \in Nat
           /\ request[c].kind = "effects" => d.kind \in EffectTypes
           /\ request[c].kind \in {"activities", "effects"}
<1>1. pc[c] = "insert" /\ request[c] \in Requests
  BY DEF CallerInv, DocumentsFollow, RequestsAreChecked
<1>2. Len(request[c].documents) \in Nat
  BY <1>1, RequestsAssumption DEF IsRequest
<1>3. PICK i \in 1..(next[c] - 1) : d = request[c].documents[i]
  BY <1>1 DEF CallerInv, DocumentsFollow
<1>4. next[c] <= Len(request[c].documents) + 1
  BY <1>1 DEF CallerInv, DocumentsFollow
<1>5. i \in 1..Len(request[c].documents)
  BY <1>2, <1>3, <1>4 DEF TypeOK
<1> QED BY <1>1, <1>3, <1>5, DocumentsOf DEF EffectTypes, Ids

\* A transaction adds one outbox row for each id it writes.
LEMMA AnnouncesOne ==
    ASSUME NEW c \in Callers, CallerInv(c), NEW i
    PROVE  Announces(c, i) = IF \E d \in written[c] : d.id = i THEN 1 ELSE 0
<1>1. CASE \E d \in written[c] : d.id = i
  <2>1. PICK d \in written[c] : d.id = i
    BY <1>1
  <2>2. {e \in written[c] : e.id = i} = {d}
    BY <2>1 DEF CallerInv, WrittenIsNew
  <2>3. Cardinality({d}) = 1
    BY FS_Singleton
  <2> QED BY <1>1, <2>2, <2>3 DEF Announces
<1>2. CASE ~\E d \in written[c] : d.id = i
  <2>1. {e \in written[c] : e.id = i} = {}
    BY <1>2
  <2> QED BY <1>2, <2>1, FS_EmptySet DEF Announces
<1> QED BY <1>1, <1>2

LEMMA TypeStep ==
    ASSUME TypeOK, \A c \in Callers : CallerInv(c), [Next]_vars
    PROVE  TypeOK'
<1> USE FaultAssumption DEF TypeOK
<1>1. ASSUME NEW c \in Callers, NEW q \in Requests, Ask(c, q) PROVE TypeOK'
  BY <1>1 DEF Ask, Goto, tables
<1>2. ASSUME NEW c \in Callers, LockRun(c) PROVE TypeOK'
  BY <1>2 DEF LockRun, Goto, Reply, Close, tables
<1>3. ASSUME NEW c \in Callers, ReadPrevious(c) PROVE TypeOK'
  <2>1. Last(Of(request[c].run)) \subseteq AllDocuments
    BY DEF Last, Of
  <2> QED BY <1>3, <2>1 DEF ReadPrevious, Goto, tables
<1>4. ASSUME NEW c \in Callers, pc[c] = "insert", Unfinished(c)
      PROVE  Current(c) \in AllDocuments /\ next[c] + 1 \in Nat \ {0}
  <2>1. request[c] \in Requests /\ next[c] \in 1..Len(request[c].documents)
    BY <1>4, RequestsAssumption DEF CallerInv, RequestsAreChecked, Unfinished, IsRequest
  <2> QED BY <2>1, DocumentsOf DEF Current
<1>5. ASSUME NEW c \in Callers, InsertActivity(c) PROVE TypeOK'
  <2>1. Current(c) \in AllDocuments /\ next[c] + 1 \in Nat \ {0}
    BY <1>4, <1>5 DEF InsertActivity
  <2>2. /\ written' \in [Callers -> SUBSET AllDocuments]
        /\ tail' \in [Callers -> SUBSET AllDocuments]
        /\ next' \in [Callers -> Nat \ {0}]
    BY <1>5, <2>1 DEF InsertActivity, Reply, Close
  <2> QED BY <1>5, <2>2 DEF InsertActivity, Goto, Reply, Close, tables
<1>6. ASSUME NEW c \in Callers, InsertEffect(c) PROVE TypeOK'
  <2>1. Current(c) \in AllDocuments /\ next[c] + 1 \in Nat \ {0}
    BY <1>4, <1>6 DEF InsertEffect
  <2>2. /\ written' \in [Callers -> SUBSET AllDocuments]
        /\ tail' \in [Callers -> SUBSET AllDocuments]
        /\ next' \in [Callers -> Nat \ {0}]
    BY <1>6, <2>1 DEF InsertEffect, Reply, Close
  <2> QED BY <1>6, <2>2 DEF InsertEffect, Goto, Reply, Close, tables
<1>7. ASSUME NEW c \in Callers, Commit(c) PROVE TypeOK'
  <2>1. written[c] \subseteq AllDocuments
    OBVIOUS
  <2>2. /\ activities' \subseteq {d \in AllDocuments : d.kind = "activity"}
        /\ effects' \subseteq {d \in AllDocuments : d.kind # "activity"}
    BY <1>7, <2>1 DEF Commit, EffectTypes
  <2>3. \A i \in Ids : Announces(c, i) \in Nat
    BY AnnouncesOne
  <2>4. outbox' \in [Ids -> Nat]
    BY <1>7, <2>3 DEF Commit
  <2> QED BY <1>7, <2>2, <2>4 DEF Commit, Reply, Close, Goto
<1>8. ASSUME NEW c \in Callers, Fail(c) PROVE TypeOK'
  BY <1>8 DEF Fail, Goto, Close, tables
<1>9. ASSUME NEW c \in Callers, LoseAnswer(c) PROVE TypeOK'
  BY <1>9 DEF LoseAnswer, Goto, Close, tables
<1>10. CASE UNCHANGED vars
  BY <1>10 DEF vars, tables, calls
<1> QED BY <1>1, <1>2, <1>3, <1>5, <1>6, <1>7, <1>8, <1>9, <1>10, NothingAssumption DEF Next, Step

-----------------------------------------------------------------------------
(* One caller takes a step that leaves the tables alone.                    *)

OthersKeep(c) ==
    \A b \in Callers \ {c} :
        /\ pc'[b] = pc[b] /\ request'[b] = request[b] /\ answer'[b] = answer[b]
        /\ next'[b] = next[b] /\ tail'[b] = tail[b] /\ written'[b] = written[b]

LEMMA LocalStep ==
    ASSUME IInv, NEW c \in Callers, UNCHANGED tables, OthersKeep(c), CallerInv(c)',
           \A b \in Callers \ {c} :
              /\ InTransaction(b) /\ InTransaction(c)' => request[b].run # request'[c].run
              /\ \A d \in written[b], e \in written'[c] : d.id # e.id
    PROVE  /\ \A b \in Callers : CallerInv(b)'
           /\ TransactionsApart' /\ LogsAreChains' /\ EffectsAreBound'
           /\ AnnouncedOnce' /\ BatchesAreWhole'
<1>1. ASSUME NEW b \in Callers \ {c} PROVE CallerInv(b)'
  <2>1. CallerInv(b)
    BY DEF IInv
  <2>2. \A n : Of(n)' = Of(n)
    BY DEF tables, Of
  <2>3. RequestsAreChecked(b)'
    BY <2>1 DEF CallerInv, RequestsAreChecked, OthersKeep, InTransaction, Bound
  <2>4. DocumentsFollow(b)'
    BY <2>1 DEF CallerInv, DocumentsFollow, OthersKeep, tables
  <2>5. WrittenIsNew(b)'
    BY <2>1 DEF CallerInv, WrittenIsNew, OthersKeep, tables, InScope
  <2>6. WrittenContinues(b)'
    BY <2>1, <2>2 DEF CallerInv, WrittenContinues, OthersKeep, tables, Of
  <2> QED BY <2>3, <2>4, <2>5, <2>6 DEF CallerInv
<1>2. TransactionsApart'
  BY DEF IInv, TransactionsApart, OthersKeep, InTransaction
<1>3. LogsAreChains' /\ EffectsAreBound' /\ AnnouncedOnce' /\ BatchesAreWhole'
  BY DEF IInv, LogsAreChains, EffectsAreBound, AnnouncedOnce, BatchesAreWhole, tables, Of
<1> QED BY <1>1, <1>2, <1>3

\* A transaction that ends without a commit, or none.
LEMMA ClosedStep ==
    ASSUME IInv, NEW c \in Callers, UNCHANGED tables, OthersKeep(c),
           written'[c] = {}, next'[c] = 1, ~InTransaction(c)', RequestsAreChecked(c)'
    PROVE  /\ \A b \in Callers : CallerInv(b)'
           /\ TransactionsApart' /\ LogsAreChains' /\ EffectsAreBound'
           /\ AnnouncedOnce' /\ BatchesAreWhole'
<1>1. CallerInv(c)'
  BY DEF CallerInv, DocumentsFollow, WrittenIsNew, WrittenContinues, InTransaction
<1> QED BY <1>1, LocalStep

LEMMA AskStep ==
    ASSUME IInv, NEW c \in Callers, NEW q \in Requests, Ask(c, q)
    PROVE  /\ \A b \in Callers : CallerInv(b)'
           /\ TransactionsApart' /\ LogsAreChains' /\ EffectsAreBound'
           /\ AnnouncedOnce' /\ BatchesAreWhole'
<1> USE DEF IInv, TypeOK
<1>1. OthersKeep(c) /\ UNCHANGED tables
  BY DEF Ask, Goto, OthersKeep
<1>2. CallerInv(c)
  OBVIOUS
<1>3. written'[c] = {} /\ next'[c] = 1 /\ pc'[c] = "run" /\ request'[c] = q /\ answer'[c] = Nothing
  BY <1>2 DEF Ask, Goto, CallerInv, DocumentsFollow, RequestsAreChecked
<1>4. ~InTransaction(c)' /\ RequestsAreChecked(c)'
  BY <1>3 DEF InTransaction, RequestsAreChecked
<1> HIDE DEF IInv, TypeOK
<1> QED BY <1>1, <1>3, <1>4, ClosedStep

\* A call that is refused.
LEMMA RefusedStep ==
    ASSUME IInv, NEW c \in Callers, pc[c] # "idle", Reply(c, "refused"), UNCHANGED <<tables, request>>
    PROVE  /\ \A b \in Callers : CallerInv(b)'
           /\ TransactionsApart' /\ LogsAreChains' /\ EffectsAreBound'
           /\ AnnouncedOnce' /\ BatchesAreWhole'
<1>1. OthersKeep(c)
  BY DEF IInv, TypeOK, Reply, Close, Goto, OthersKeep
<1>2. written'[c] = {} /\ next'[c] = 1 /\ pc'[c] = "done" /\ request'[c] = request[c]
  BY DEF IInv, TypeOK, Reply, Close, Goto
<1>3. ~InTransaction(c)' /\ RequestsAreChecked(c)'
  BY <1>2 DEF InTransaction, RequestsAreChecked, IInv, CallerInv
<1> QED BY <1>1, <1>2, <1>3, ClosedStep

LEMMA FailStep ==
    ASSUME IInv, NEW c \in Callers, Fail(c) \/ LoseAnswer(c)
    PROVE  /\ \A b \in Callers : CallerInv(b)'
           /\ TransactionsApart' /\ LogsAreChains' /\ EffectsAreBound'
           /\ AnnouncedOnce' /\ BatchesAreWhole'
<1>1. OthersKeep(c) /\ UNCHANGED tables
  BY DEF IInv, TypeOK, Fail, LoseAnswer, Close, Goto, OthersKeep
<1>2. written'[c] = {} /\ next'[c] = 1 /\ pc'[c] = "idle" /\ answer'[c] = Nothing
  BY DEF IInv, TypeOK, Fail, LoseAnswer, Close, Goto, CallerInv, RequestsAreChecked
<1>3. ~InTransaction(c)' /\ RequestsAreChecked(c)'
  BY <1>2 DEF InTransaction, RequestsAreChecked
<1> QED BY <1>1, <1>2, <1>3, ClosedStep

LEMMA LockStep ==
    ASSUME IInv, NEW c \in Callers, LockRun(c)
    PROVE  /\ \A b \in Callers : CallerInv(b)'
           /\ TransactionsApart' /\ LogsAreChains' /\ EffectsAreBound'
           /\ AnnouncedOnce' /\ BatchesAreWhole'
<1> DEFINE q == request[c]
<1>1. CASE q.run \in Runs /\ (q.kind = "effects" => Bound(q))
  <2>1. OthersKeep(c) /\ UNCHANGED <<tables, request, answer, next, tail, written>>
    BY <1>1 DEF IInv, TypeOK, LockRun, Goto, OthersKeep
  <2>2. pc'[c] = IF q.kind = "activities" THEN "previous" ELSE "insert"
    BY <1>1 DEF IInv, TypeOK, LockRun, Goto
  <2>3. CallerInv(c) /\ pc[c] = "run"
    BY DEF IInv, LockRun
  <2>4. q \in Requests /\ answer[c] = Nothing /\ written[c] = {} /\ next[c] = 1
    BY <2>3 DEF CallerInv, RequestsAreChecked, DocumentsFollow
  <2>5. Len(q.documents) \in Nat
    BY <2>4, RequestsAssumption DEF IsRequest
  <2>6. CallerInv(c)'
    <3>1. RequestsAreChecked(c)'
      BY <1>1, <2>1, <2>2, <2>4 DEF RequestsAreChecked, InTransaction, Bound
    <3>2. DocumentsFollow(c)'
      BY <2>1, <2>2, <2>4, <2>5 DEF DocumentsFollow
    <3>3. WrittenIsNew(c)' /\ WrittenContinues(c)'
      BY <2>1, <2>2, <2>4 DEF WrittenIsNew, WrittenContinues
    <3> QED BY <3>1, <3>2, <3>3 DEF CallerInv
  <2>7. \A b \in Callers : InTransaction(b) => request[b].run # request'[c].run
    BY <2>1 DEF LockRun, HoldsRun, InTransaction
  <2> QED BY <2>1, <2>4, <2>6, <2>7, LocalStep
<1>2. CASE ~(q.run \in Runs /\ (q.kind = "effects" => Bound(q)))
  BY <1>2, RefusedStep DEF LockRun
<1> QED BY <1>1, <1>2

LEMMA ReadPreviousStep ==
    ASSUME IInv, NEW c \in Callers, ReadPrevious(c)
    PROVE  /\ \A b \in Callers : CallerInv(b)'
           /\ TransactionsApart' /\ LogsAreChains' /\ EffectsAreBound'
           /\ AnnouncedOnce' /\ BatchesAreWhole'
<1>1. OthersKeep(c) /\ UNCHANGED <<tables, request, answer, next, written>>
  BY DEF IInv, TypeOK, ReadPrevious, Goto, OthersKeep
<1>2. pc'[c] = "insert" /\ tail'[c] = Last(Of(request[c].run)) /\ pc[c] = "previous"
  BY DEF IInv, TypeOK, ReadPrevious, Goto
<1>3. CallerInv(c)
  BY DEF IInv
<1>4. /\ request[c] \in Requests /\ answer[c] = Nothing /\ written[c] = {} /\ next[c] = 1
      /\ request[c].run \in Runs /\ request[c].kind = "activities"
  BY <1>2, <1>3 DEF CallerInv, RequestsAreChecked, DocumentsFollow, InTransaction
<1>5. CallerInv(c)'
  <2>1. RequestsAreChecked(c)'
    BY <1>1, <1>2, <1>4 DEF RequestsAreChecked, InTransaction
  <2>2. DocumentsFollow(c)'
    <3>1. Len(request[c].documents) \in Nat
      BY <1>4, RequestsAssumption DEF IsRequest
    <3> QED BY <1>1, <1>2, <1>4, <3>1 DEF DocumentsFollow
  <2>3. WrittenIsNew(c)'
    BY <1>1, <1>4 DEF WrittenIsNew
  <2>4. WrittenContinues(c)'
    <3>1. Chained(Of(request[c].run))
      BY <1>4 DEF IInv, LogsAreChains
    <3>2. Of(request[c].run) \union {} = Of(request[c].run)
      OBVIOUS
    <3> QED BY <1>1, <1>2, <1>4, <3>1, <3>2 DEF WrittenContinues, Of, tables
  <2> QED BY <2>1, <2>2, <2>3, <2>4 DEF CallerInv
<1>6. \A b \in Callers \ {c} : InTransaction(b) => request[b].run # request'[c].run
  BY <1>1, <1>2 DEF IInv, TransactionsApart, InTransaction
<1> QED BY <1>1, <1>4, <1>5, <1>6, LocalStep

\* The document that is treated next.
LEMMA CurrentDocument ==
    ASSUME IInv, NEW c \in Callers, pc[c] = "insert", Unfinished(c)
    PROVE  /\ request[c] \in Requests /\ next[c] \in 1..Len(request[c].documents)
           /\ Len(request[c].documents) \in Nat
           /\ Current(c) \in AllDocuments
           /\ request[c].kind = "activities" =>
                 Current(c).kind = "activity" /\ Current(c).sequence \in Nat
           /\ request[c].kind = "effects" =>
                 Current(c).kind = IF next[c] = 1 THEN "receipt" ELSE "reconciliation"
<1>1. request[c] \in Requests
  BY DEF IInv, CallerInv, RequestsAreChecked
<1>2. Len(request[c].documents) \in Nat
  BY <1>1, RequestsAssumption DEF IsRequest
<1>3. next[c] \in 1..Len(request[c].documents)
  BY <1>2 DEF IInv, TypeOK, Unfinished
<1> QED BY <1>1, <1>2, <1>3, DocumentsOf DEF Current

\* A document is written that is new.
LEMMA WriteStep ==
    ASSUME IInv, NEW c \in Callers, pc[c] = "insert", Unfinished(c), OthersKeep(c),
           UNCHANGED <<tables, request, answer>>, pc'[c] = "insert", next'[c] = next[c] + 1,
           InScope(c, Current(c)), ~Waits(c, Current(c)),
           \A e \in activities \union effects \union written[c] : e.id # Current(c).id,
           written'[c] = written[c] \union {Current(c)},
           request[c].kind = "activities" =>
              Continues(Current(c), tail[c]) /\ tail'[c] = {Current(c)}
    PROVE  /\ \A b \in Callers : CallerInv(b)'
           /\ TransactionsApart' /\ LogsAreChains' /\ EffectsAreBound'
           /\ AnnouncedOnce' /\ BatchesAreWhole'
<1> DEFINE d == Current(c)
           docs == request[c].documents
           old == written[c]
<1>1. CallerInv(c) /\ next[c] \in 1..Len(docs) /\ Len(docs) \in Nat /\ d = docs[next[c]]
  BY CurrentDocument DEF IInv, Current
<1>2. RequestsAreChecked(c)'
  BY <1>1 DEF CallerInv, RequestsAreChecked, InTransaction, Bound
<1>3. DocumentsFollow(c)'
  <2>1. \A i \in 1..next[c] : i \in 1..(next[c] - 1) \/ i = next[c]
    BY <1>1
  <2>2. /\ \A i \in 1..(next[c] - 1) : docs[i] \in old \union effects
        /\ \A e \in old : \E i \in 1..(next[c] - 1) : e = docs[i]
        /\ request[c].kind = "activities" => \A i \in 1..(next[c] - 1) : docs[i] \in old
    BY <1>1 DEF CallerInv, DocumentsFollow
  <2>3. /\ \A i \in 1..next[c] : docs[i] \in written'[c] \union effects
        /\ request[c].kind = "activities" => \A i \in 1..next[c] : docs[i] \in written'[c]
    BY <1>1, <2>1, <2>2
  <2>4. \A e \in written'[c] : \E i \in 1..next[c] : e = docs[i]
    <3>1. d = docs[next[c]] /\ next[c] \in 1..next[c]
      BY <1>1
    <3>2. \A i \in 1..(next[c] - 1) : i \in 1..next[c]
      BY <1>1
    <3> QED BY <2>2, <3>1, <3>2
  <2>5. next'[c] <= Len(docs) + 1 /\ next'[c] - 1 = next[c]
    BY <1>1
  <2> QED BY <2>3, <2>4, <2>5 DEF DocumentsFollow, tables
<1>4. WrittenIsNew(c)'
  <2>1. WrittenIsNew(c)
    BY <1>1 DEF CallerInv
  <2>2. \A e \in written'[c] : e \in old \/ e = d
    OBVIOUS
  <2>3. \A e \in written'[c] :
           InScope(c, e) /\ \A f \in activities \union effects : f.id # e.id
    BY <2>1, <2>2 DEF WrittenIsNew
  <2>4. \A e, f \in written'[c] : e.id = f.id => e = f
    BY <2>1, <2>2 DEF WrittenIsNew
  <2> QED BY <2>3, <2>4 DEF WrittenIsNew, InScope, tables
<1>5. WrittenContinues(c)'
  <2> SUFFICES ASSUME request[c].kind = "activities"
               PROVE  /\ Chained(Of(request[c].run) \union written'[c])
                      /\ tail'[c] = Last(Of(request[c].run) \union written'[c])
    BY DEF WrittenContinues, Of, tables
  <2> DEFINE S == Of(request[c].run) \union old
  <2>1. Chained(S) /\ tail[c] = Last(S)
    BY <1>1 DEF CallerInv, WrittenContinues
  <2>2. Chained(S \union {d}) /\ Last(S \union {d}) = {d}
    <3>1. Continues(d, Last(S))
      BY <2>1
    <3> HIDE DEF S, d
    <3> QED BY <2>1, <3>1, ChainGrows
  <2>3. Of(request[c].run) \union written'[c] = S \union {d}
    OBVIOUS
  <2> QED BY <2>2, <2>3
<1>6. CallerInv(c)'
  BY <1>2, <1>3, <1>4, <1>5 DEF CallerInv
<1>7. ASSUME NEW b \in Callers \ {c}
      PROVE  /\ InTransaction(b) /\ InTransaction(c)' => request[b].run # request'[c].run
             /\ \A e \in written[b], f \in written'[c] : e.id # f.id
  <2>1. InTransaction(b) => request[b].run # request[c].run
    BY DEF IInv, TransactionsApart, InTransaction
  <2>2. \A e \in written[b], f \in old : e.id # f.id
    BY DEF IInv, TransactionsApart
  <2>3. \A e \in written[b] : e.id # d.id
    BY DEF Waits
  <2> QED BY <2>1, <2>2, <2>3
<1>8. UNCHANGED tables
  OBVIOUS
<1> HIDE DEF d, docs, old
<1> QED BY <1>6, <1>7, <1>8, LocalStep

LEMMA InsertActivityStep ==
    ASSUME IInv, NEW c \in Callers, InsertActivity(c)
    PROVE  /\ \A b \in Callers : CallerInv(b)'
           /\ TransactionsApart' /\ LogsAreChains' /\ EffectsAreBound'
           /\ AnnouncedOnce' /\ BatchesAreWhole'
<1> DEFINE d == Current(c)
           Taken == InScope(c, d) /\ Continues(d, tail[c]) /\ RowIsFree(c, d)
<1>1. CASE Taken
  <2>1. /\ pc[c] = "insert" /\ Unfinished(c) /\ OthersKeep(c)
        /\ UNCHANGED <<tables, request, answer>> /\ pc'[c] = "insert" /\ next'[c] = next[c] + 1
        /\ written'[c] = written[c] \union {d} /\ tail'[c] = {d}
        /\ request[c].kind = "activities" /\ ~Waits(c, d)
    BY <1>1 DEF IInv, TypeOK, InsertActivity, OthersKeep
  <2>2. \A e \in activities \union written[c] : e.id # d.id
    BY <1>1 DEF RowIsFree
  <2>3. d \in AllDocuments /\ d.kind = "activity"
    BY <2>1, CurrentDocument
  <2>4. \A e \in effects : e.id # d.id
    BY <2>3, KindsHaveTheirIds DEF IInv, TypeOK
  <2> QED BY <1>1, <2>1, <2>2, <2>4, WriteStep
<1>2. CASE ~Taken
  <2>1. Reply(c, "refused") /\ UNCHANGED <<tables, request>> /\ pc[c] # "idle"
    BY <1>2 DEF InsertActivity
  <2> QED BY <2>1, RefusedStep
<1> QED BY <1>1, <1>2

LEMMA InsertEffectStep ==
    ASSUME IInv, NEW c \in Callers, InsertEffect(c)
    PROVE  /\ \A b \in Callers : CallerInv(b)'
           /\ TransactionsApart' /\ LogsAreChains' /\ EffectsAreBound'
           /\ AnnouncedOnce' /\ BatchesAreWhole'
<1> DEFINE d == Current(c)
<1>0. pc[c] = "insert" /\ Unfinished(c) /\ request[c].kind = "effects" /\ CallerInv(c)
  BY DEF InsertEffect, IInv
<1>1. CASE InScope(c, d) /\ ~IsStored(d)
  <2>1. /\ OthersKeep(c)
        /\ UNCHANGED <<tables, request, answer>> /\ pc'[c] = "insert" /\ next'[c] = next[c] + 1
        /\ written'[c] = written[c] \union {d} /\ ~Waits(c, d)
    BY <1>0, <1>1 DEF IInv, TypeOK, InsertEffect, OthersKeep
  <2>2. \A e \in effects : e.id # d.id
    BY <1>1 DEF IsStored
  <2>3. d \in AllDocuments /\ d.kind = IF next[c] = 1 THEN "receipt" ELSE "reconciliation"
    BY <1>0, CurrentDocument
  <2>4. \A e \in activities : e.id # d.id
    BY <2>3, KindsHaveTheirIds DEF IInv, TypeOK
  <2>5. \A e \in written[c] : e.id # d.id
    <3> SUFFICES ASSUME NEW e \in written[c] PROVE e.id # d.id
      OBVIOUS
    <3>1. PICK i \in 1..(next[c] - 1) : e = request[c].documents[i]
      BY <1>0 DEF CallerInv, DocumentsFollow
    <3>2. /\ next[c] \in 1..Len(request[c].documents) /\ request[c] \in Requests
          /\ Len(request[c].documents) \in Nat
      BY <1>0, CurrentDocument
    <3>3. Len(request[c].documents) = 2
      BY <1>0, <3>2, RequestsAssumption DEF IsRequest
    <3>4. i = 1 /\ next[c] = 2
      BY <3>1, <3>2, <3>3
    <3>5. e.kind = "receipt" /\ e \in AllDocuments
      BY <1>0, <3>1, <3>2, <3>3, <3>4, DocumentsOf
    <3> QED BY <2>3, <3>4, <3>5, KindsHaveTheirIds
  <2> QED BY <1>0, <1>1, <2>1, <2>2, <2>4, <2>5, WriteStep
<1>2. CASE InScope(c, d) /\ IsStored(d) /\ IsReplay(d)
  <2>1. /\ OthersKeep(c) /\ UNCHANGED <<tables, request, answer, tail, pc>>
        /\ next'[c] = next[c] + 1 /\ written'[c] = written[c]
    BY <1>0, <1>2 DEF IInv, TypeOK, InsertEffect, OthersKeep
  <2>2. /\ next[c] \in 1..Len(request[c].documents) /\ Len(request[c].documents) \in Nat
        /\ d = request[c].documents[next[c]] /\ d \in effects
    BY <1>0, <1>2, CurrentDocument DEF Current, IsReplay
  <2>3. DocumentsFollow(c)'
    <3>1. \A i \in 1..next[c] : i \in 1..(next[c] - 1) \/ i = next[c]
      BY <2>2
    <3>2. \A i \in 1..next[c] : request[c].documents[i] \in written[c] \union effects
      BY <1>0, <2>2, <3>1 DEF CallerInv, DocumentsFollow
    <3>3. \A i \in 1..(next[c] - 1) : i \in 1..next[c]
      BY <2>2
    <3>4. \A e \in written[c] : \E i \in 1..next[c] : e = request[c].documents[i]
      BY <1>0, <3>3 DEF CallerInv, DocumentsFollow
    <3>5. next'[c] <= Len(request[c].documents) + 1 /\ next'[c] - 1 = next[c]
      BY <2>1, <2>2
    <3> QED BY <1>0, <2>1, <3>2, <3>4, <3>5 DEF DocumentsFollow, tables
  <2>4. RequestsAreChecked(c)' /\ WrittenIsNew(c)' /\ WrittenContinues(c)'
    BY <1>0, <2>1 DEF CallerInv, RequestsAreChecked, WrittenIsNew, WrittenContinues,
                      InTransaction, InScope, Bound, tables
  <2>5. CallerInv(c)'
    BY <2>3, <2>4 DEF CallerInv
  <2>6. \A b \in Callers \ {c} :
           /\ InTransaction(b) /\ InTransaction(c)' => request[b].run # request'[c].run
           /\ \A e \in written[b], f \in written'[c] : e.id # f.id
    BY <2>1 DEF IInv, TransactionsApart, InTransaction
  <2> QED BY <2>1, <2>5, <2>6, LocalStep
<1>3. CASE ~(InScope(c, d) /\ (IsStored(d) => IsReplay(d)))
  <2>1. Reply(c, "refused") /\ UNCHANGED <<tables, request>> /\ pc[c] # "idle"
    BY <1>3 DEF InsertEffect
  <2> QED BY <2>1, RefusedStep
<1> QED BY <1>1, <1>2, <1>3

-----------------------------------------------------------------------------
\* The commit makes what was written visible, all of it.
LEMMA CommitStep ==
    ASSUME IInv, NEW c \in Callers, Commit(c)
    PROVE  /\ \A b \in Callers : CallerInv(b)'
           /\ TransactionsApart' /\ LogsAreChains' /\ EffectsAreBound'
           /\ AnnouncedOnce' /\ BatchesAreWhole'
<1> DEFINE q == request[c]
           docs == request[c].documents
           new == written[c]
           stored == activities \union effects
<1>1. /\ CallerInv(c) /\ pc[c] = "insert" /\ q \in Requests
      /\ q.run \in Runs /\ next[c] = Len(docs) + 1 /\ Len(docs) \in Nat
  <2>1. CallerInv(c) /\ pc[c] = "insert"
    BY DEF IInv, Commit
  <2>2. q \in Requests /\ q.run \in Runs
    BY <2>1 DEF CallerInv, RequestsAreChecked, InTransaction
  <2>3. Len(docs) \in Nat
    BY <2>2, RequestsAssumption DEF IsRequest
  <2>4. next[c] <= Len(docs) + 1 /\ next[c] > Len(docs)
    BY <2>1, <2>3 DEF CallerInv, DocumentsFollow, Commit, Finished, Unfinished, IInv, TypeOK
  <2> QED BY <2>1, <2>2, <2>3, <2>4 DEF IInv, TypeOK
<1>2. \A d \in new : /\ d \in Documents(q) /\ d \in AllDocuments /\ d.id \in Ids /\ d.sealed
                     /\ d.run = q.run /\ \A e \in stored : e.id # d.id
                     /\ q.kind = "activities" => d.kind = "activity"
                     /\ q.kind = "effects" => d.kind \in EffectTypes
  <2>1. TypeOK
    BY DEF IInv
  <2> QED BY <1>1, <2>1, WrittenAreDocuments DEF CallerInv, WrittenIsNew, InScope
<1>3. /\ activities' = activities \union {d \in new : d.kind = "activity"}
      /\ effects' = effects \union {d \in new : d.kind \in EffectTypes}
      /\ q.kind \in {"activities", "effects"}
  BY <1>1, RequestsAssumption DEF Commit, IsRequest
<1>4. /\ q.kind = "activities" => activities' = activities \union new /\ effects' = effects
      /\ q.kind = "effects" => activities' = activities /\ effects' = effects \union new
      /\ activities' \union effects' = stored \union new
  BY <1>2, <1>3 DEF EffectTypes
<1>5. /\ OthersKeep(c) /\ UNCHANGED request
      /\ pc'[c] = "done" /\ written'[c] = {} /\ next'[c] = 1
  BY DEF IInv, TypeOK, Commit, Reply, Close, Goto, OthersKeep
<1>6. \A i \in 1..Len(docs) : docs[i] \in new \union effects
  BY <1>1 DEF CallerInv, DocumentsFollow
<1>7. CallerInv(c)'
  <2>1. RequestsAreChecked(c)'
    BY <1>1, <1>5 DEF RequestsAreChecked, InTransaction
  <2> QED BY <1>5, <2>1 DEF CallerInv, DocumentsFollow, WrittenIsNew, WrittenContinues
<1>8. \A n \in Runs : n # q.run => Of(n)' = Of(n)
  BY <1>2, <1>3 DEF Of
<1>9. ASSUME NEW b \in Callers \ {c} PROVE CallerInv(b)'
  <2>1. CallerInv(b) /\ effects \subseteq effects'
    BY <1>3 DEF IInv
  <2>2. RequestsAreChecked(b)'
    BY <1>5, <2>1 DEF CallerInv, RequestsAreChecked, OthersKeep, InTransaction, Bound
  <2>3. DocumentsFollow(b)'
    BY <1>5, <2>1 DEF CallerInv, DocumentsFollow, OthersKeep
  <2>4. WrittenIsNew(b)'
    <3>1. \A d \in written[b] : \A e \in stored \union new : e.id # d.id
      BY <2>1 DEF IInv, TransactionsApart, CallerInv, WrittenIsNew
    <3> HIDE DEF stored, new
    <3> QED BY <1>4, <1>5, <2>1, <3>1 DEF CallerInv, WrittenIsNew, OthersKeep, InScope
  <2>5. WrittenContinues(b)'
    <3> SUFFICES ASSUME pc[b] = "insert", request[b].kind = "activities"
                 PROVE  /\ Chained(Of(request[b].run)' \union written[b])
                        /\ tail[b] = Last(Of(request[b].run)' \union written[b])
      BY <1>5 DEF WrittenContinues, OthersKeep, Of
    <3>1. request[b].run \in Runs /\ request[b].run # q.run
      BY <1>1, <2>1 DEF IInv, TransactionsApart, InTransaction, CallerInv, RequestsAreChecked
    <3>2. Of(request[b].run)' = Of(request[b].run)
      BY <1>2, <1>3, <1>5, <3>1 DEF Of, OthersKeep
    <3> QED BY <2>1, <3>2 DEF CallerInv, WrittenContinues
  <2> QED BY <2>2, <2>3, <2>4, <2>5 DEF CallerInv
<1>10. TransactionsApart'
  BY <1>5 DEF IInv, TransactionsApart, OthersKeep, InTransaction
<1>11. LogsAreChains'
  <2>1. \A d \in activities' : d.sealed
    BY <1>2, <1>3 DEF IInv, LogsAreChains
  <2>2. ASSUME NEW n \in Runs PROVE Chained(Of(n))'
    <3>1. CASE n # q.run \/ q.kind = "effects"
      <4>1. Of(n)' = Of(n)
        BY <1>4, <1>8, <3>1 DEF Of
      <4>2. Chained(Of(n))
        BY DEF IInv, LogsAreChains
      <4> QED BY <4>1, <4>2 DEF Chained, IsChain
    <3>2. CASE n = q.run /\ q.kind = "activities"
      <4>1. Of(n)' = Of(n) \union new
        BY <1>2, <1>4, <3>2 DEF Of
      <4>2. Chained(Of(n) \union new)
        BY <1>1, <3>2 DEF CallerInv, WrittenContinues
      <4> QED BY <4>1, <4>2 DEF Chained, IsChain
    <3> QED BY <1>3, <3>1, <3>2
  <2> QED BY <2>1, <2>2 DEF LogsAreChains
<1>12. EffectsAreBound'
  <2>1. \A d, e \in effects' : d.id = e.id => d = e
    BY <1>1, <1>2, <1>3 DEF IInv, EffectsAreBound, CallerInv, WrittenIsNew
  <2>2. ASSUME NEW d \in effects', d.kind = "reconciliation" PROVE d.receipt \in effects'
    <3>1. CASE d \in effects
      BY <1>3, <2>2, <3>1 DEF IInv, EffectsAreBound
    <3>2. CASE d \notin effects
      <4>1. d \in new /\ q.kind = "effects"
        BY <1>4, <2>2, <3>2, <1>3
      <4>2. PICK i \in 1..Len(docs) : d = docs[i]
        BY <1>1, <4>1 DEF CallerInv, DocumentsFollow
      <4>3. Len(docs) = 2
        BY <1>1, <4>1, RequestsAssumption DEF IsRequest
      <4>4. i = 2
        BY <1>1, <2>2, <4>1, <4>2, <4>3, DocumentsOf
      <4>5. d.receipt = docs[1]
        BY <1>1, <4>1, <4>2, <4>4 DEF CallerInv, RequestsAreChecked, InTransaction, Bound
      <4>6. docs[1] \in new \union effects
        BY <1>6, <4>3
      <4> QED BY <1>4, <4>1, <4>5, <4>6
    <3> QED BY <3>1, <3>2
  <2> QED BY <2>1, <2>2 DEF EffectsAreBound
<1>13. AnnouncedOnce'
  <2> SUFFICES ASSUME NEW i \in Ids
               PROVE  outbox'[i] = IF \E d \in activities' \union effects' : d.id = i THEN 1 ELSE 0
    BY DEF AnnouncedOnce
  <2>1. outbox'[i] = outbox[i] + Announces(c, i)
    BY DEF Commit
  <2>2. outbox[i] = IF \E d \in stored : d.id = i THEN 1 ELSE 0
    BY DEF IInv, AnnouncedOnce
  <2>3. Announces(c, i) = IF \E d \in new : d.id = i THEN 1 ELSE 0
    BY <1>1, AnnouncesOne
  <2>4. ~((\E d \in stored : d.id = i) /\ (\E d \in new : d.id = i))
    BY <1>2
  <2> HIDE DEF stored, new
  <2> QED BY <1>4, <2>1, <2>2, <2>3, <2>4
<1>14. BatchesAreWhole'
  <2> SUFFICES ASSUME NEW d \in stored \union new
               PROVE  \E r \in Requests : d \in Documents(r) /\ Documents(r) \subseteq stored \union new
    BY <1>4 DEF BatchesAreWhole
  <2>1. CASE d \in stored
    BY <2>1 DEF IInv, BatchesAreWhole
  <2>2. CASE d \in new
    <3>1. Documents(q) \subseteq new \union effects
      BY <1>6 DEF Documents
    <3> QED BY <1>1, <1>2, <2>2, <3>1
  <2> QED BY <2>1, <2>2
<1> HIDE DEF q, docs, new, stored
<1> QED BY <1>7, <1>9, <1>10, <1>11, <1>12, <1>13, <1>14

-----------------------------------------------------------------------------
LEMMA InvInit == Init => IInv
<1> SUFFICES ASSUME Init PROVE IInv
  OBVIOUS
<1>1. TypeOK
  BY TypeInit
<1>2. \A c \in Callers : CallerInv(c)
  BY DEF Init, CallerInv, RequestsAreChecked, DocumentsFollow, WrittenIsNew, WrittenContinues,
         InTransaction
<1>3. LogsAreChains
  <2>1. \A n : Of(n) = {}
    BY DEF Init, Of
  <2> QED BY <2>1, EmptyChain DEF Init, LogsAreChains
<1>4. TransactionsApart
  BY DEF Init, TransactionsApart, InTransaction
<1>5. EffectsAreBound
  BY DEF Init, EffectsAreBound
<1>6. AnnouncedOnce
  BY DEF Init, AnnouncedOnce
<1>7. BatchesAreWhole
  BY DEF Init, BatchesAreWhole
<1> QED BY <1>1, <1>2, <1>3, <1>4, <1>5, <1>6, <1>7 DEF IInv

LEMMA InvStep == IInv /\ [Next]_vars => IInv'
<1> SUFFICES ASSUME IInv, [Next]_vars PROVE IInv'
  OBVIOUS
<1> DEFINE Rest == /\ \A b \in Callers : CallerInv(b)'
                   /\ TransactionsApart' /\ LogsAreChains' /\ EffectsAreBound'
                   /\ AnnouncedOnce' /\ BatchesAreWhole'
<1>1. TypeOK'
  BY TypeStep DEF IInv
<1>2. ASSUME NEW c \in Callers, NEW q \in Requests, Ask(c, q) PROVE Rest
  BY <1>2, AskStep
<1>3. ASSUME NEW c \in Callers, Step(c) PROVE Rest
  <2>1. CASE request[c] # Nothing /\ Ask(c, request[c])
    <3>1. request[c] \in Requests
      BY <2>1 DEF IInv, TypeOK
    <3> QED BY <2>1, <3>1, AskStep
  <2>2. CASE LockRun(c)
    BY <2>2, LockStep
  <2>3. CASE ReadPrevious(c)
    BY <2>3, ReadPreviousStep
  <2>4. CASE InsertActivity(c)
    BY <2>4, InsertActivityStep
  <2>5. CASE InsertEffect(c)
    BY <2>5, InsertEffectStep
  <2>6. CASE Commit(c)
    BY <2>6, CommitStep
  <2> QED BY <1>3, <2>1, <2>2, <2>3, <2>4, <2>5, <2>6 DEF Step
<1>4. ASSUME NEW c \in Callers, Fail(c) \/ LoseAnswer(c) PROVE Rest
  BY <1>4, FailStep
<1>5. ASSUME UNCHANGED vars PROVE Rest
  <2>1. UNCHANGED <<activities, effects, outbox, pc, request, answer, next, tail, written>>
    BY <1>5 DEF vars, tables, calls
  <2>2. \A n : Of(n)' = Of(n)
    BY <2>1 DEF Of
  <2>3. ASSUME NEW b \in Callers PROVE CallerInv(b)'
    <3>1. CallerInv(b)
      BY DEF IInv
    <3>2. RequestsAreChecked(b)'
      BY <2>1, <3>1 DEF CallerInv, RequestsAreChecked, InTransaction, Bound
    <3>3. DocumentsFollow(b)'
      BY <2>1, <3>1 DEF CallerInv, DocumentsFollow
    <3>4. WrittenIsNew(b)'
      BY <2>1, <3>1 DEF CallerInv, WrittenIsNew, InScope
    <3>5. WrittenContinues(b)'
      BY <2>1, <3>1 DEF CallerInv, WrittenContinues, Of
    <3> QED BY <3>2, <3>3, <3>4, <3>5 DEF CallerInv
  <2>4. TransactionsApart'
    BY <2>1 DEF IInv, TransactionsApart, InTransaction
  <2>5. LogsAreChains' /\ EffectsAreBound' /\ AnnouncedOnce' /\ BatchesAreWhole'
    BY <2>1 DEF IInv, LogsAreChains, EffectsAreBound, AnnouncedOnce, BatchesAreWhole, Of
  <2> QED BY <2>3, <2>4, <2>5
<1>6. ASSUME Next PROVE Rest
  <2>1. PICK c \in Callers : \/ \E q \in Requests : Ask(c, q)
                            \/ Step(c)
                            \/ Fail(c) \/ LoseAnswer(c)
    BY <1>6 DEF Next
  <2>2. CASE \E q \in Requests : Ask(c, q)
    <3>1. PICK q \in Requests : Ask(c, q)
      BY <2>2
    <3> QED BY <1>2, <3>1
  <2>3. CASE Step(c)
    BY <1>3, <2>3
  <2>4. CASE Fail(c) \/ LoseAnswer(c)
    BY <1>4, <2>4
  <2> HIDE DEF Rest
  <2> QED BY <2>1, <2>2, <2>3, <2>4
<1>7. Rest
  <2> HIDE DEF Rest
  <2> QED BY <1>5, <1>6
<1> QED BY <1>1, <1>7 DEF IInv

(* What the lock on the run and the unique ids protect until the commit,   *)
(* for any callers, runs and requests.                                     *)
THEOREM Invariance == Spec => []IInv
  BY InvInit, InvStep, PTL DEF Spec

(* Every variable keeps its type. *)
THEOREM TypeCorrect == Spec => []TypeOK
<1>1. IInv => TypeOK
  BY DEF IInv
<1> QED BY <1>1, Invariance, PTL

(* The log of every run is one chain from zero, whatever batches compete   *)
(* (append_agent_activities, reconstruct_agent_activities).                *)
THEOREM Reconstructible == Spec => []ReconstructionSucceeds
<1>1. IInv => ReconstructionSucceeds
  <2> SUFFICES ASSUME IInv, NEW n \in Runs
               PROVE  /\ {d.sequence : d \in Of(n)} = 0..(Cardinality(Of(n)) - 1)
                      /\ \A d \in Of(n) :
                            /\ d.sealed
                            /\ d.previous = {e \in Of(n) : e.sequence + 1 = d.sequence}
    BY DEF ReconstructionSucceeds
  <2>1. Chained(Of(n)) /\ \A d \in Of(n) : d.sealed
    BY DEF IInv, LogsAreChains, Of
  <2>2. {d.sequence : d \in Of(n)} = 0..(Cardinality(Of(n)) - 1)
    BY <2>1, SizeOfChain
  <2>3. \A d \in Of(n) : d.previous = {e \in Of(n) : e.sequence + 1 = d.sequence}
    BY <2>1 DEF Chained, IsChain
  <2> QED BY <2>1, <2>2, <2>3
<1> QED BY <1>1, Invariance, PTL

(* A batch, or a receipt with its reconciliation, is stored as a whole or  *)
(* not at all (append_agent_activities, persist_effect_records).           *)
THEOREM WholeBatches == Spec => []BatchesAreWhole
<1>1. IInv => BatchesAreWhole
  BY DEF IInv
<1> QED BY <1>1, Invariance, PTL

(* An id stands for one effect record, and a stored reconciliation is      *)
(* bound to a stored receipt (persist_effect_records).                     *)
THEOREM BoundEffects == Spec => []EffectsAreBound
<1>1. IInv => EffectsAreBound
  BY DEF IInv
<1> QED BY <1>1, Invariance, PTL

(* Every stored document has one outbox row, and no other has one.         *)
THEOREM OneAnnouncement == Spec => []AnnouncedOnce
<1>1. IInv => AnnouncedOnce
  BY DEF IInv
<1> QED BY <1>1, Invariance, PTL

(* Effect records in scope and bound are refused only over a stored record *)
(* of the same id and another content (persist_effect_records).            *)
THEOREM ReplaysAccepted == Spec => ExactReplaysAreAccepted
<1> DEFINE Refused ==
       \A c \in Callers :
          LET q == request[c] IN
          /\ pc[c] # "done" /\ answer'[c] = "refused"
          /\ q.kind = "effects" /\ q.run \in Runs /\ Bound(q)
          /\ \A d \in Documents(q) : InScope(c, d)
          => \E d \in Documents(q), e \in effects : e.id = d.id /\ e # d
<1>1. IInv /\ [Next]_vars => [Refused]_vars
  <2> SUFFICES ASSUME IInv, Next, NEW c \in Callers,
                      pc[c] # "done", answer'[c] = "refused",
                      request[c].kind = "effects", request[c].run \in Runs, Bound(request[c]),
                      \A d \in Documents(request[c]) : InScope(c, d)
               PROVE  \E d \in Documents(request[c]), e \in effects : e.id = d.id /\ e # d
    OBVIOUS
  <2>1. answer'[c] # answer[c]
    BY NothingAssumption DEF IInv, CallerInv, RequestsAreChecked
  <2>2. DOMAIN answer = Callers
    BY DEF IInv, TypeOK
  <2>3. PICK b \in Callers : \/ \E q \in Requests : Ask(b, q)
                            \/ Step(b) \/ Fail(b) \/ LoseAnswer(b)
    BY DEF Next
  <2>4. InsertEffect(b) /\ b = c
    <3>1. answer' # answer
      BY <2>1
    <3>2. ~ \E q : Ask(b, q)
      BY <3>1 DEF Ask
    <3>3. ~ReadPrevious(b) /\ ~Fail(b)
      BY <3>1 DEF ReadPrevious, Fail
    <3>4. LockRun(b) \/ InsertActivity(b) \/ InsertEffect(b) \/ Commit(b) \/ LoseAnswer(b)
      BY <2>3, <3>2, <3>3 DEF Step
    <3>5. b = c
      <4>1. \E what : answer' = [answer EXCEPT ![b] = what]
        BY <3>1, <3>4 DEF LockRun, InsertActivity, InsertEffect, Commit, LoseAnswer, Reply
      <4> QED BY <2>1, <2>2, <4>1
    <3>6. ~LockRun(b)
      BY <3>1, <3>5 DEF LockRun
    <3>7. ~InsertActivity(b)
      BY <3>5 DEF InsertActivity
    <3>8. ~Commit(b)
      BY <2>2, <3>5 DEF Commit, Reply
    <3>9. ~LoseAnswer(b)
      BY <3>5 DEF LoseAnswer
    <3> QED BY <3>4, <3>5, <3>6, <3>7, <3>8, <3>9
  <2>5. Current(c) \in Documents(request[c])
    BY <2>4, CurrentDocument DEF InsertEffect, Current, Documents
  <2>6. InScope(c, Current(c))
    BY <2>5
  <2>7. IsStored(Current(c)) /\ ~IsReplay(Current(c))
    BY <2>1, <2>4, <2>6 DEF InsertEffect
  <2> QED BY <2>5, <2>7 DEF IsStored, IsReplay
<1> QED BY <1>1, Invariance, PTL DEF Spec, ExactReplaysAreAccepted
=============================================================================
