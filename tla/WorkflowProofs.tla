----------------------------- MODULE WorkflowProofs -----------------------------
(***************************************************************************)
(* Proofs about the workflow on any number of hosts, runs and approvers.   *)
(***************************************************************************)
EXTENDS Workflow, TLAPS

\* A host that is not idle works on a call.
BusyHostsHaveCalls == \A h \in Hosts : pc[h] # "idle" => call[h] \in Calls

\* What a host has executed, or is about to execute for the first time, its
\* lifecycle does not offer again.
UsesAreConsumed ==
    \A h \in Hosts :
        /\ \A j \in Calls : uses[h][j] > 0 => lifecycle[h][j] # "none"
        /\ pc[h] = "execute" => lifecycle[h][call[h]] # "none" /\ uses[h][call[h]] = 0

\* Only executed calls reach the store, a log holds a batch of its own run, and
\* effect records follow activities.
StoredInOrder ==
    /\ \A n \in Runs : activities[n] # Nothing => activities[n].run = n
    /\ \A h \in Hosts :
          /\ pc[h] \in {"append", "persist"} => executed[call[h]] > 0
          /\ pc[h] = "persist" => activities[call[h].run] = call[h]

IInv ==
    /\ TypeOK
    /\ BusyHostsHaveCalls
    /\ UsesAreConsumed
    /\ UsedOncePerLife
    /\ StoredInOrder
    /\ RecordsAgree

-----------------------------------------------------------------------------
LEMMA TypeInit == Init => TypeOK /\ BusyHostsHaveCalls
  BY FaultAssumption, BudgetAssumption DEF Init, TypeOK, BusyHostsHaveCalls, Fresh, Unused

LEMMA TypeStep == TypeOK /\ BusyHostsHaveCalls /\ [Next]_vars => TypeOK' /\ BusyHostsHaveCalls'
<1> SUFFICES ASSUME TypeOK, BusyHostsHaveCalls, [Next]_vars
             PROVE  TypeOK' /\ BusyHostsHaveCalls'
  OBVIOUS
<1> USE FaultAssumption, BudgetAssumption, CallsAssumption
    DEF TypeOK, BusyHostsHaveCalls, memory, store
<1>1. ASSUME NEW h \in Hosts, NEW j \in Calls, Begin(h, j)
      PROVE  TypeOK' /\ BusyHostsHaveCalls'
  BY <1>1 DEF Begin
<1>2. ASSUME NEW h \in Hosts, NEW j \in Calls, Withdraw(h, j)
      PROVE  TypeOK' /\ BusyHostsHaveCalls'
  BY <1>2 DEF Withdraw
<1>3. ASSUME NEW h \in Hosts, Refuse(h) PROVE TypeOK' /\ BusyHostsHaveCalls'
  BY <1>3 DEF Refuse, Leave
<1>4. ASSUME NEW h \in Hosts, InvokeTool(h) PROVE TypeOK' /\ BusyHostsHaveCalls'
  <2>1. call[h] \in Calls /\ call[h].run \in Runs
    BY <1>4 DEF InvokeTool
  <2>2. toolCalls' \in [Hosts -> [Runs -> 0..MaxToolCalls]]
    <3> DEFINE n == call[h].run
               row == [toolCalls[h] EXCEPT ![n] = @ + 1]
    <3>1. CASE WithinBudget(toolCalls[h][n])
      <4>1. toolCalls[h] \in [Runs -> 0..MaxToolCalls]
        OBVIOUS
      <4>2. toolCalls[h][n] + 1 \in 0..MaxToolCalls
        BY <2>1, <3>1, <4>1 DEF WithinBudget
      <4>3. row \in [Runs -> 0..MaxToolCalls]
        BY <4>1, <4>2
      <4>4. toolCalls' = [toolCalls EXCEPT ![h] = row]
        BY <1>4, <3>1 DEF InvokeTool
      <4> QED BY <4>3, <4>4
    <3>2. CASE ~WithinBudget(toolCalls[h][n])
      BY <1>4, <3>2 DEF InvokeTool
    <3> QED BY <3>1, <3>2
  <2>3. /\ pc' \in [Hosts -> {"idle", "tool", "consume", "execute", "append", "persist"}]
        /\ call' \in [Hosts -> Calls \union {Nothing}]
        /\ BusyHostsHaveCalls'
    BY <1>4, <2>1 DEF InvokeTool, Leave, Goto
  <2> QED BY <1>4, <2>2, <2>3 DEF InvokeTool
<1>5. ASSUME NEW h \in Hosts, Consume(h) PROVE TypeOK' /\ BusyHostsHaveCalls'
  <2>1. call[h] \in Calls
    BY <1>5 DEF Consume
  <2>2. lifecycle' \in [Hosts -> [Calls -> {"none", "consumed", "revoked", "superseded"}]]
    <3> DEFINE row == [lifecycle[h] EXCEPT ![call[h]] = "consumed"]
    <3>1. row \in [Calls -> {"none", "consumed", "revoked", "superseded"}]
      BY <2>1
    <3>2. lifecycle' = [lifecycle EXCEPT ![h] = row] \/ lifecycle' = lifecycle
      BY <1>5 DEF Consume
    <3> QED BY <3>1, <3>2
  <2>3. /\ pc' \in [Hosts -> {"idle", "tool", "consume", "execute", "append", "persist"}]
        /\ call' \in [Hosts -> Calls \union {Nothing}]
        /\ BusyHostsHaveCalls'
    BY <1>5, <2>1 DEF Consume, Leave, Goto
  <2> QED BY <1>5, <2>2, <2>3 DEF Consume
<1>6. ASSUME NEW h \in Hosts, Execute(h) PROVE TypeOK' /\ BusyHostsHaveCalls'
  BY <1>6 DEF Execute, Goto
<1>7. ASSUME NEW h \in Hosts, Append(h) PROVE TypeOK' /\ BusyHostsHaveCalls'
  BY <1>7 DEF Append, Leave, Goto
<1>8. ASSUME NEW h \in Hosts, Persist(h) PROVE TypeOK' /\ BusyHostsHaveCalls'
  BY <1>8 DEF Persist, WithRecords, Leave
<1>9. ASSUME NEW h \in Hosts, StoreFails(h) PROVE TypeOK' /\ BusyHostsHaveCalls'
  BY <1>9 DEF StoreFails, Leave
<1>10. ASSUME NEW h \in Hosts, AnswerLost(h) PROVE TypeOK' /\ BusyHostsHaveCalls'
  <2>1. call[h] \in Calls /\ call[h].run \in Runs
    BY <1>10 DEF AnswerLost
  <2>2. activities' \in [Runs -> Calls \union {Nothing}] /\ effects' \subseteq Calls
    BY <1>10, <2>1 DEF AnswerLost, WithRecords
  <2>3. /\ pc' \in [Hosts -> {"idle", "tool", "consume", "execute", "append", "persist"}]
        /\ call' \in [Hosts -> Calls \union {Nothing}]
        /\ BusyHostsHaveCalls'
    BY <1>10 DEF AnswerLost, Leave
  <2>4. faults' \in 0..MaxFaults
    BY <1>10 DEF AnswerLost
  <2> QED BY <1>10, <2>2, <2>3, <2>4 DEF AnswerLost
<1>11. ASSUME NEW h \in Hosts, Restart(h) PROVE TypeOK' /\ BusyHostsHaveCalls'
  BY <1>11 DEF Restart, Leave, Fresh, Unused
<1>12. CASE UNCHANGED vars
  BY <1>12 DEF vars
<1> QED BY <1>1, <1>2, <1>3, <1>4, <1>5, <1>6, <1>7, <1>8, <1>9, <1>10, <1>11, <1>12
        DEF Next, Step

LEMMA InvInit == Init => IInv
  BY TypeInit
  DEF Init, IInv, UsesAreConsumed, UsedOncePerLife, StoredInOrder, RecordsAgree, Fresh, Unused

\* A host lives on, and what it consumed stays consumed.
LEMMA UsesStep == IInv /\ [Next]_vars => UsesAreConsumed' /\ UsedOncePerLife'
<1> SUFFICES ASSUME IInv, [Next]_vars PROVE UsesAreConsumed' /\ UsedOncePerLife'
  OBVIOUS
<1> USE DEF IInv, TypeOK, BusyHostsHaveCalls, UsesAreConsumed, UsedOncePerLife, store
<1>1. ASSUME NEW h \in Hosts, NEW j \in Calls, Begin(h, j)
      PROVE  UsesAreConsumed' /\ UsedOncePerLife'
  BY <1>1 DEF Begin
<1>2. ASSUME NEW h \in Hosts, NEW j \in Calls, Withdraw(h, j)
      PROVE  UsesAreConsumed' /\ UsedOncePerLife'
  BY <1>2 DEF Withdraw
<1>3. ASSUME NEW h \in Hosts,
             Refuse(h) \/ InvokeTool(h) \/ Append(h) \/ Persist(h) \/ StoreFails(h) \/ AnswerLost(h)
      PROVE  UsesAreConsumed' /\ UsedOncePerLife'
  <2>1. UNCHANGED <<lifecycle, uses>>
    BY <1>3 DEF Refuse, InvokeTool, Append, Persist, StoreFails, AnswerLost
  <2>2. \A g \in Hosts : pc'[g] = "execute" => pc[g] = "execute" /\ call'[g] = call[g]
    BY <1>3 DEF Refuse, InvokeTool, Append, Persist, StoreFails, AnswerLost, Leave, Goto
  <2> QED BY <2>1, <2>2
<1>4. ASSUME NEW h \in Hosts, Consume(h) PROVE UsesAreConsumed' /\ UsedOncePerLife'
  BY <1>4 DEF Consume, Consumable, Leave, Goto
<1>5. ASSUME NEW h \in Hosts, Execute(h) PROVE UsesAreConsumed' /\ UsedOncePerLife'
  BY <1>5 DEF Execute, Goto
<1>6. ASSUME NEW h \in Hosts, Restart(h) PROVE UsesAreConsumed' /\ UsedOncePerLife'
  BY <1>6 DEF Restart, Leave, Fresh, Unused
<1>7. CASE UNCHANGED vars
  BY <1>7 DEF vars, memory
<1> QED BY <1>1, <1>2, <1>3, <1>4, <1>5, <1>6, <1>7 DEF Next, Step

\* A log that holds a batch keeps it, and records follow it.
LEMMA StoreStep == IInv /\ [Next]_vars => StoredInOrder' /\ RecordsAgree'
<1> SUFFICES ASSUME IInv, [Next]_vars PROVE StoredInOrder' /\ RecordsAgree'
  OBVIOUS
<1> USE CallsAssumption, NothingAssumption
    DEF IInv, TypeOK, BusyHostsHaveCalls, StoredInOrder, RecordsAgree
<1>1. ASSUME NEW h \in Hosts, NEW j \in Calls, Begin(h, j) \/ Withdraw(h, j)
      PROVE  StoredInOrder' /\ RecordsAgree'
  BY <1>1 DEF Begin, Withdraw, store
<1>2. ASSUME NEW h \in Hosts,
             Refuse(h) \/ InvokeTool(h) \/ Consume(h) \/ StoreFails(h) \/ Restart(h)
      PROVE  StoredInOrder' /\ RecordsAgree'
  <2>1. UNCHANGED <<activities, effects, executed>>
    BY <1>2 DEF Refuse, InvokeTool, Consume, StoreFails, Restart, store
  <2>2. \A g \in Hosts : pc'[g] \in {"append", "persist"} =>
           pc[g] = pc'[g] /\ call'[g] = call[g]
    BY <1>2 DEF Refuse, InvokeTool, Consume, StoreFails, Restart, Leave, Goto
  <2> QED BY <2>1, <2>2
<1>3. ASSUME NEW h \in Hosts, Execute(h) PROVE StoredInOrder' /\ RecordsAgree'
  <2>1. UNCHANGED <<activities, effects>> /\ \A j \in Calls : executed'[j] >= executed[j]
    BY <1>3 DEF Execute, store
  <2>2. call[h] \in Calls /\ executed'[call[h]] > 0
    BY <1>3 DEF Execute
  <2>3. StoredInOrder'
    BY <1>3, <2>1, <2>2 DEF Execute, Goto
  <2>4. \A j \in Calls : executed[j] \in Nat /\ executed'[j] \in Nat
    BY <1>3 DEF Execute
  <2>5. \A n \in Runs : activities[n] # Nothing => activities[n] \in Calls
    OBVIOUS
  <2>6. RecordsAgree'
    BY <2>1, <2>4, <2>5
  <2> QED BY <2>3, <2>6
<1>4. ASSUME NEW h \in Hosts, pc[h] = "append", AcceptsBatch(call[h].run),
             activities' = [activities EXCEPT ![call[h].run] = call[h]],
             UNCHANGED <<effects, executed>>
      PROVE  /\ RecordsAgree'
             /\ \A g \in Hosts : pc[g] = "persist" => activities'[call[g].run] = call[g]
             /\ activities'[call[h].run] = call[h]
             /\ \A n \in Runs : activities'[n] # Nothing => activities'[n].run = n
  <2>1. call[h] \in Calls /\ call[h].run \in Runs /\ activities[call[h].run] = Nothing
    BY <1>4 DEF AcceptsBatch
  <2> QED BY <1>4, <2>1
<1>5. ASSUME NEW h \in Hosts, Append(h) PROVE StoredInOrder' /\ RecordsAgree'
  <2>1. CASE AcceptsBatch(call[h].run)
    <3>1. /\ RecordsAgree'
          /\ \A g \in Hosts : pc[g] = "persist" => activities'[call[g].run] = call[g]
          /\ activities'[call[h].run] = call[h]
          /\ \A n \in Runs : activities'[n] # Nothing => activities'[n].run = n
      BY <1>4, <1>5, <2>1 DEF Append
    <3>2. StoredInOrder'
      BY <1>5, <2>1, <3>1 DEF Append, Goto
    <3> QED BY <3>1, <3>2
  <2>2. CASE ~AcceptsBatch(call[h].run)
    BY <1>5, <2>2 DEF Append, Leave
  <2> QED BY <2>1, <2>2
<1>6. ASSUME NEW h \in Hosts, pc[h] = "persist", effects' = WithRecords(call[h]), Leave(h),
             UNCHANGED <<activities, executed>>
      PROVE  StoredInOrder' /\ RecordsAgree'
  BY <1>6 DEF WithRecords, Leave
<1>7. ASSUME NEW h \in Hosts, AnswerLost(h) PROVE StoredInOrder' /\ RecordsAgree'
  <2>1. CASE pc[h] = "append"
    <3>1. /\ RecordsAgree'
          /\ \A g \in Hosts : pc[g] = "persist" => activities'[call[g].run] = call[g]
          /\ \A n \in Runs : activities'[n] # Nothing => activities'[n].run = n
      BY <1>4, <1>7, <2>1 DEF AnswerLost
    <3>2. StoredInOrder'
      BY <1>7, <3>1 DEF AnswerLost, Leave
    <3> QED BY <3>1, <3>2
  <2>2. CASE pc[h] = "persist"
    BY <1>6, <1>7, <2>2 DEF AnswerLost
  <2> QED BY <1>7, <2>1, <2>2 DEF AnswerLost
<1>8. CASE UNCHANGED vars
  BY <1>8 DEF vars, memory, store
<1>9. ASSUME NEW h \in Hosts, Persist(h) PROVE StoredInOrder' /\ RecordsAgree'
  BY <1>6, <1>9 DEF Persist
<1> QED BY <1>1, <1>2, <1>3, <1>5, <1>7, <1>8, <1>9 DEF Next, Step

-----------------------------------------------------------------------------
(* What a host executed it has consumed, and what is stored was executed,  *)
(* for any hosts, runs and calls.                                          *)
THEOREM Invariance == Spec => []IInv
<1>1. IInv /\ [Next]_vars => IInv'
  BY TypeStep, UsesStep, StoreStep DEF IInv
<1> QED BY InvInit, <1>1, PTL DEF Spec

(* Every variable keeps its type. *)
THEOREM TypeCorrect == Spec => []TypeOK
<1>1. IInv => TypeOK
  BY DEF IInv
<1> QED BY <1>1, Invariance, PTL

(* While a host lives it executes an authorization at most once            *)
(* (AuthorizationLifecycle).                                               *)
THEOREM UsedOnce == Spec => []UsedOncePerLife
<1>1. IInv => UsedOncePerLife
  BY DEF IInv
<1> QED BY <1>1, Invariance, PTL

(* Effect records are stored only for the call whose activities the log of *)
(* the run holds, and that call was executed (persist).                    *)
THEOREM OneStory == Spec => []RecordsAgree
<1>1. IInv => RecordsAgree
  BY DEF IInv
<1> QED BY <1>1, Invariance, PTL

-----------------------------------------------------------------------------
(* Without faults nothing that was executed is lost.                        *)

\* A log that holds a batch has its effect records, or a host is about to
\* write them.
RecordsFollow ==
    \A n \in Runs : activities[n] # Nothing =>
        \/ activities[n] \in effects
        \/ \E h \in Hosts : pc[h] = "persist" /\ call[h].run = n

\* An executed call has left a batch of its run, or a host is about to offer it.
BatchesFollow ==
    \A j \in Calls : executed[j] > 0 =>
        \/ activities[j.run] # Nothing
        \/ \E h \in Hosts : pc[h] = "append" /\ call[h].run = j.run

FaultsOrRecords == faults = 0 => RecordsFollow /\ BatchesFollow

LEMMA FaultsOrRecordsStep == IInv /\ FaultsOrRecords /\ [Next]_vars => FaultsOrRecords'
<1> SUFFICES ASSUME IInv, FaultsOrRecords, [Next]_vars, faults' = 0
             PROVE  RecordsFollow' /\ BatchesFollow'
  BY DEF FaultsOrRecords
<1> USE CallsAssumption, NothingAssumption DEF IInv, TypeOK, BusyHostsHaveCalls
<1>0. faults = 0 /\ RecordsFollow /\ BatchesFollow /\
      \A h \in Hosts : ~StoreFails(h) /\ ~AnswerLost(h) /\ ~Restart(h)
  <2>1. \A h \in Hosts : ~StoreFails(h) /\ ~AnswerLost(h) /\ ~Restart(h)
    BY DEF StoreFails, AnswerLost, Restart
  <2>2. faults = 0
    BY <2>1 DEF Next, Step, Begin, Withdraw, Refuse, InvokeTool, Consume, Execute, Append,
                Persist, vars
  <2> QED BY <2>1, <2>2 DEF FaultsOrRecords
<1>1. ASSUME UNCHANGED <<activities, effects, executed>>,
             \A g \in Hosts : pc[g] \in {"append", "persist"} =>
                pc'[g] = pc[g] /\ call'[g] = call[g]
      PROVE  RecordsFollow' /\ BatchesFollow'
  <2>1. \A n \in Runs : (\E h \in Hosts : pc[h] = "persist" /\ call[h].run = n) =>
                           \E h \in Hosts : pc'[h] = "persist" /\ call'[h].run = n
    BY <1>1
  <2>2. \A n \in Runs : (\E h \in Hosts : pc[h] = "append" /\ call[h].run = n) =>
                           \E h \in Hosts : pc'[h] = "append" /\ call'[h].run = n
    BY <1>1
  <2>3. RecordsFollow'
    BY <1>0, <1>1, <2>1 DEF RecordsFollow
  <2>4. BatchesFollow'
    BY <1>0, <1>1, <2>2 DEF BatchesFollow
  <2> QED BY <2>3, <2>4
<1>2. ASSUME NEW h \in Hosts, NEW j \in Calls, Begin(h, j) \/ Withdraw(h, j)
      PROVE  RecordsFollow' /\ BatchesFollow'
  BY <1>1, <1>2 DEF Begin, Withdraw, store
<1>3. ASSUME NEW h \in Hosts, Refuse(h) \/ InvokeTool(h) \/ Consume(h)
      PROVE  RecordsFollow' /\ BatchesFollow'
  BY <1>1, <1>3 DEF Refuse, InvokeTool, Consume, Leave, Goto, store
<1>4. ASSUME NEW h \in Hosts, Execute(h)
      PROVE  RecordsFollow' /\ BatchesFollow'
  <2>1. RecordsFollow'
    BY <1>0, <1>4 DEF Execute, Goto, RecordsFollow, store
  <2>2. \A j \in Calls : j # call[h] => executed'[j] = executed[j]
    BY <1>4 DEF Execute
  <2>3. pc'[h] = "append" /\ UNCHANGED <<call, activities>>
    BY <1>4 DEF Execute, Goto, store
  <2>4. \A g \in Hosts : pc[g] = "append" => pc'[g] = "append"
    BY <1>4 DEF Execute, Goto
  <2>5. BatchesFollow'
    BY <1>0, <2>2, <2>3, <2>4 DEF BatchesFollow
  <2> QED BY <2>1, <2>5
<1>5. ASSUME NEW h \in Hosts, Append(h)
      PROVE  RecordsFollow' /\ BatchesFollow'
  <2>1. call[h] \in Calls /\ call[h].run \in Runs
    BY <1>5 DEF Append
  <2>2. activities'[call[h].run] # Nothing
    BY <1>5, <2>1 DEF Append, AcceptsBatch, Leave
  <2>3. \A n \in Runs \ {call[h].run} : activities'[n] = activities[n]
    BY <1>5, <2>1 DEF Append
  <2>4. \A g \in Hosts \ {h} : pc'[g] = pc[g] /\ call'[g] = call[g]
    BY <1>5 DEF Append, Goto, Leave
  <2>5. \A n \in Runs \ {call[h].run} :
           /\ (\E g \in Hosts : pc[g] = "append" /\ call[g].run = n) =>
                  \E g \in Hosts : pc'[g] = "append" /\ call'[g].run = n
           /\ (\E g \in Hosts : pc[g] = "persist" /\ call[g].run = n) =>
                  \E g \in Hosts : pc'[g] = "persist" /\ call'[g].run = n
    BY <2>4
  <2>6. UNCHANGED <<effects, executed>>
    BY <1>5 DEF Append
  <2>7. BatchesFollow'
    BY <1>0, <2>1, <2>2, <2>3, <2>5, <2>6 DEF BatchesFollow
  <2>8. activities'[call[h].run] \in effects \/
          \E g \in Hosts : pc'[g] = "persist" /\ call'[g].run = call[h].run
    <3>1. CASE AcceptsBatch(call[h].run)
      BY <1>5, <3>1 DEF Append, Goto
    <3>2. CASE ~AcceptsBatch(call[h].run)
      <4>1. UNCHANGED activities /\ activities[call[h].run] # Nothing /\ pc[h] = "append"
        BY <1>5, <3>2 DEF Append, AcceptsBatch
      <4>2. CASE activities[call[h].run] \in effects
        BY <4>1, <4>2
      <4>3. CASE activities[call[h].run] \notin effects
        <5>1. PICK g \in Hosts : pc[g] = "persist" /\ call[g].run = call[h].run
          BY <1>0, <2>1, <4>1, <4>3 DEF RecordsFollow
        <5> QED BY <2>4, <4>1, <5>1
      <4> QED BY <4>2, <4>3
    <3> QED BY <3>1, <3>2
  <2>9. RecordsFollow'
    BY <1>0, <2>1, <2>3, <2>5, <2>6, <2>8 DEF RecordsFollow
  <2> QED BY <2>7, <2>9
<1>6. ASSUME NEW h \in Hosts, Persist(h)
      PROVE  RecordsFollow' /\ BatchesFollow'
  <2>1. call[h] \in Calls /\ activities[call[h].run] = call[h] /\ call[h] \in effects'
    BY <1>6 DEF Persist, WithRecords, StoredInOrder
  <2>2. effects \subseteq effects' /\ UNCHANGED <<activities, executed>>
    BY <1>6 DEF Persist, WithRecords
  <2>3. \A g \in Hosts \ {h} : pc'[g] = pc[g] /\ call'[g] = call[g]
    BY <1>6 DEF Persist, Leave
  <2>4. \A n \in Runs \ {call[h].run} :
           (\E g \in Hosts : pc[g] = "persist" /\ call[g].run = n) =>
              \E g \in Hosts : pc'[g] = "persist" /\ call'[g].run = n
    BY <2>3
  <2>5. \A n \in Runs :
           (\E g \in Hosts : pc[g] = "append" /\ call[g].run = n) =>
              \E g \in Hosts : pc'[g] = "append" /\ call'[g].run = n
    <3>1. pc[h] = "persist"
      BY <1>6 DEF Persist
    <3> QED BY <2>3, <3>1
  <2>6. RecordsFollow'
    BY <1>0, <2>1, <2>2, <2>4 DEF RecordsFollow
  <2>7. BatchesFollow'
    BY <1>0, <2>2, <2>5 DEF BatchesFollow
  <2> QED BY <2>6, <2>7
<1>7. CASE UNCHANGED vars
  BY <1>1, <1>7 DEF vars, memory, store
<1> QED BY <1>0, <1>2, <1>3, <1>4, <1>5, <1>6, <1>7 DEF Next, Step

(* Without a fault, a run that was executed ends with the records of       *)
(* exactly one of its executed calls, and loses the executions of others   *)
(* (SyntheticVendorAssuranceWorkflow.run, persist).                        *)
THEOREM OneIsRecorded == Spec => []OneCallIsRecorded
<1>1. Init => FaultsOrRecords
  BY DEF Init, FaultsOrRecords, RecordsFollow, BatchesFollow, Unused
<1>2. IInv /\ FaultsOrRecords => OneCallIsRecorded
  <2> SUFFICES ASSUME IInv, FaultsOrRecords, NEW j \in Calls, executed[j] > 0,
                      \A h \in Hosts : call[h] # Nothing => call[h].run # j.run, faults = 0
               PROVE  \E recorded \in Calls :
                         /\ recorded.run = j.run /\ executed[recorded] > 0
                         /\ activities[j.run] = recorded
                         /\ {i \in effects : i.run = j.run} = {recorded}
    BY DEF OneCallIsRecorded
  <2> DEFINE recorded == activities[j.run]
  <2>1. \A h \in Hosts : pc[h] # "idle" => call[h].run # j.run
    BY NothingAssumption DEF IInv, BusyHostsHaveCalls
  <2>2. recorded # Nothing /\ recorded \in effects
    BY <2>1, CallsAssumption DEF FaultsOrRecords, RecordsFollow, BatchesFollow
  <2>3. recorded \in Calls /\ effects \subseteq Calls
    BY <2>2 DEF IInv, TypeOK
  <2>4. executed[recorded] > 0
    BY <2>2, CallsAssumption DEF IInv, RecordsAgree
  <2>5. \A i \in effects : activities[i.run] = i
    BY DEF IInv, RecordsAgree
  <2>6. recorded.run = j.run
    BY <2>2, CallsAssumption DEF IInv, StoredInOrder
  <2>7. {i \in effects : i.run = j.run} = {recorded}
    BY <2>2, <2>5, <2>6
  <2> QED BY <2>3, <2>4, <2>6, <2>7
<1> QED BY <1>1, <1>2, FaultsOrRecordsStep, Invariance, PTL DEF Spec
=============================================================================
