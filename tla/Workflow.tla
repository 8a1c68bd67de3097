------------------------------- MODULE Workflow -------------------------------
(***************************************************************************)
(* SyntheticVendorAssuranceWorkflow.run on several hosts over one store:   *)
(* the tool gateway's budget, AuthorizationLifecycle, the effect executor, *)
(* and the two transactions that record the result.                        *)
(*                                                                         *)
(* Gateway and lifecycle live in the memory of a workflow object; a host   *)
(* is a process with one such object and makes one call at a time.  The    *)
(* pure control chain in between always authorizes the exact output, so an *)
(* authorization is the call it stands for.  Each store transaction is one *)
(* step here; RunRecords shows what its statements and locks amount to.    *)
(***************************************************************************)
EXTENDS Naturals, FiniteSets

CONSTANTS
    Hosts,        \* processes with a workflow object
    Runs,         \* stored runs
    Calls,        \* [run, approver]: what the authorization_id depends on
    MaxToolCalls, \* the budget of the specialist grant
    Nothing,      \* None
    MaxFaults     \* bound: crashes and failed transactions

ASSUME CallsAssumption == \A j \in Calls : j.run \in Runs
ASSUME NothingAssumption == Nothing \notin Calls
ASSUME BudgetAssumption == MaxToolCalls \in Nat
ASSUME FaultAssumption == MaxFaults \in Nat

VARIABLES
    \* the memory of each host
    pc, call,
    toolCalls,    \* PolicyEnforcingToolGateway._calls
    lifecycle,    \* AuthorizationLifecycle._states
    \* the store
    activities,   \* whose batch the activity log of a run holds
    effects,      \* calls whose receipt and reconciliation are stored
    \* history, and the bound
    uses,         \* executions by a host since it started
    executed,     \* executions in all
    faults

memory == <<pc, call, toolCalls, lifecycle>>
store  == <<activities, effects>>
vars   == <<memory, store, uses, executed, faults>>

Fresh == [j \in Calls |-> "none"]
Unused == [j \in Calls |-> 0]

\* Every variable keeps its type.
TypeOK ==
    /\ pc \in [Hosts -> {"idle", "tool", "consume", "execute", "append", "persist"}]
    /\ call \in [Hosts -> Calls \union {Nothing}]
    /\ toolCalls \in [Hosts -> [Runs -> 0..MaxToolCalls]]
    /\ lifecycle \in [Hosts -> [Calls -> {"none", "consumed", "revoked", "superseded"}]]
    /\ activities \in [Runs -> Calls \union {Nothing}]
    /\ effects \subseteq Calls
    /\ uses \in [Hosts -> [Calls -> Nat]]
    /\ executed \in [Calls -> Nat]
    /\ faults \in 0..MaxFaults

Init ==
    /\ pc = [h \in Hosts |-> "idle"]
    /\ call = [h \in Hosts |-> Nothing]
    /\ toolCalls = [h \in Hosts |-> [n \in Runs |-> 0]]
    /\ lifecycle = [h \in Hosts |-> Fresh]
    /\ activities = [n \in Runs |-> Nothing]
    /\ effects = {}
    /\ uses = [h \in Hosts |-> Unused]
    /\ executed = Unused
    /\ faults = 0

Goto(h, label) == pc' = [pc EXCEPT ![h] = label] /\ UNCHANGED call

\* run returns or raises; gateway and lifecycle keep what they counted.
Leave(h) ==
    /\ pc' = [pc EXCEPT ![h] = "idle"]
    /\ call' = [call EXCEPT ![h] = Nothing]

-----------------------------------------------------------------------------
\* The delegation record is built and the memory is queried.
Begin(h, j) ==
    /\ pc[h] = "idle"
    /\ pc' = [pc EXCEPT ![h] = "tool"]
    /\ call' = [call EXCEPT ![h] = j]
    /\ UNCHANGED <<toolCalls, lifecycle, store, uses, executed, faults>>

\* The grant is expired, out of scope or lacks the capability, or there is no
\* evidence: run raises before anything is counted.
Refuse(h) ==
    /\ pc[h] = "tool"
    /\ Leave(h)
    /\ UNCHANGED <<toolCalls, lifecycle, store, uses, executed, faults>>

\* The check of max_tool_calls, before the call is counted.
WithinBudget(n) == n < MaxToolCalls

\* PolicyEnforcingToolGateway.invoke, then the control chain.
InvokeTool(h) ==
    LET n == call[h].run IN
    /\ pc[h] = "tool"
    /\ IF WithinBudget(toolCalls[h][n])
       THEN /\ toolCalls' = [toolCalls EXCEPT ![h][n] = @ + 1]
            /\ Goto(h, "consume")
       ELSE Leave(h) /\ UNCHANGED toolCalls
    /\ UNCHANGED <<lifecycle, store, uses, executed, faults>>

\* AuthorizationLifecycle: what may still be consumed.  The mutant looks for
\* an earlier consumption only, which a later status overwrites.
ConsumableUnlessConsumed(status) == status # "consumed"
Consumable(status) == status = "none"

Consume(h) ==
    LET j == call[h] IN
    /\ pc[h] = "consume"
    /\ IF Consumable(lifecycle[h][j])
       THEN /\ lifecycle' = [lifecycle EXCEPT ![h][j] = "consumed"]
            /\ Goto(h, "execute")
       ELSE Leave(h) /\ UNCHANGED lifecycle
    /\ UNCHANGED <<toolCalls, store, uses, executed, faults>>

\* transition to revoked or superseded overwrites whatever the status was.
Withdraw(h, j) ==
    /\ pc[h] = "idle"
    /\ \E status \in {"revoked", "superseded"} :
           lifecycle' = [lifecycle EXCEPT ![h][j] = status]
    /\ UNCHANGED <<pc, call, toolCalls, store, uses, executed, faults>>

\* SyntheticEffectExecutor.execute and reconcile: the effect takes place.
Execute(h) ==
    LET j == call[h] IN
    /\ pc[h] = "execute"
    /\ uses' = [uses EXCEPT ![h][j] = @ + 1]
    /\ executed' = [executed EXCEPT ![j] = @ + 1]
    /\ Goto(h, "append")
    /\ UNCHANGED <<toolCalls, lifecycle, store, faults>>

\* A batch of a workflow starts at sequence 0, so it is accepted only by an
\* empty log; the mutant overwrites.
AcceptsAny(n) == TRUE
AcceptsBatch(n) == activities[n] = Nothing

\* append_agent_activities.
Append(h) ==
    LET j == call[h] IN
    /\ pc[h] = "append"
    /\ IF AcceptsBatch(j.run)
       THEN /\ activities' = [activities EXCEPT ![j.run] = j]
            /\ Goto(h, "persist")
       ELSE Leave(h) /\ UNCHANGED activities
    /\ UNCHANGED <<toolCalls, lifecycle, effects, uses, executed, faults>>

\* persist_effect_records; a stored pair of the same call is a replay.  The
\* mutant leaves the records out.
KeepsNothing(j) == effects
WithRecords(j) == effects \union {j}

Persist(h) ==
    /\ pc[h] = "persist"
    /\ effects' = WithRecords(call[h])
    /\ Leave(h)
    /\ UNCHANGED <<toolCalls, lifecycle, activities, uses, executed, faults>>

\* A transaction fails and rolls back; psycopg's error leaves run.
StoreFails(h) ==
    /\ pc[h] \in {"append", "persist"}
    /\ faults < MaxFaults
    /\ Leave(h)
    /\ faults' = faults + 1
    /\ UNCHANGED <<toolCalls, lifecycle, store, uses, executed>>

\* The commit takes effect, but its host gets an error.
AnswerLost(h) ==
    /\ faults < MaxFaults
    /\ \/ /\ pc[h] = "append"
          /\ AcceptsBatch(call[h].run)
          /\ activities' = [activities EXCEPT ![call[h].run] = call[h]]
          /\ UNCHANGED effects
       \/ /\ pc[h] = "persist"
          /\ effects' = WithRecords(call[h])
          /\ UNCHANGED activities
    /\ Leave(h)
    /\ faults' = faults + 1
    /\ UNCHANGED <<toolCalls, lifecycle, uses, executed>>

\* The process dies and starts again with an empty workflow object.
Restart(h) ==
    /\ faults < MaxFaults
    /\ Leave(h)
    /\ toolCalls' = [toolCalls EXCEPT ![h] = [n \in Runs |-> 0]]
    /\ lifecycle' = [lifecycle EXCEPT ![h] = Fresh]
    /\ uses' = [uses EXCEPT ![h] = Unused]
    /\ faults' = faults + 1
    /\ UNCHANGED <<store, executed>>

-----------------------------------------------------------------------------
Step(h) ==
    \/ Refuse(h)
    \/ InvokeTool(h)
    \/ Consume(h)
    \/ Execute(h)
    \/ Append(h)
    \/ Persist(h)

Next == \E h \in Hosts : \/ \E j \in Calls : Begin(h, j) \/ Withdraw(h, j)
                         \/ Step(h)
                         \/ StoreFails(h)
                         \/ AnswerLost(h)
                         \/ Restart(h)

Spec == Init /\ [][Next]_vars

-----------------------------------------------------------------------------
(***************************************************************************)
(* Properties                                                              *)
(***************************************************************************)
\* While a host lives it executes an authorization at most once, whatever
\* revocations and supersessions are registered in between.
UsedOncePerLife ==
    \A h \in Hosts, j \in Calls : uses[h][j] <= 1

\* What is recorded is one story: effect records are stored only for the call
\* whose activities the log of that run holds, and that call was executed.
RecordsAgree ==
    /\ \A j \in effects : activities[j.run] = j
    /\ \A n \in Runs : activities[n] # Nothing => executed[activities[n]] > 0

\* Without a fault, a run that was executed ends with the records of exactly one
\* call, complete in both tables, once no host works on it.  Executions of its
\* other calls are lost: append_agent_activities refuses their batches after
\* their effects took place.
OneCallIsRecorded ==
    \A j \in Calls :
        /\ executed[j] > 0
        /\ \A h \in Hosts : call[h] # Nothing => call[h].run # j.run
        /\ faults = 0
        => \E recorded \in Calls :
              /\ recorded.run = j.run /\ executed[recorded] > 0
              /\ activities[j.run] = recorded
              /\ {i \in effects : i.run = j.run} = {recorded}

\* The control docs/implementation/phase-1-threat-model-and-privacy.md:25 names
\* against duplicate effects, single consumption: an authorization is
\* executed at most once.
SingleConsumption ==
    \A j \in Calls : executed[j] <= 1
=============================================================================
