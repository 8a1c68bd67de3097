----------------------------- MODULE Delegation -----------------------------
(***************************************************************************)
(* PostgresStore.create_delegation, statement by statement, under          *)
(* concurrent calls of ControlPlaneService.delegate_capability: the run    *)
(* row and the parent grant are locked FOR UPDATE, the child is checked    *)
(* against the parent, and grant, chained journal record and outbox row    *)
(* are written in one transaction.                                         *)
(*                                                                         *)
(* A hash is modelled by the value it commits to, so the record_hash of a  *)
(* journal record is the record.  Row locks last until the transaction     *)
(* ends and are read off the labels of the callers.                        *)
(***************************************************************************)
EXTENDS Naturals, FiniteSets

CONSTANTS
    Callers,
    Runs,
    ScopeOf,      \* the (tenant_id, case_id) of each run
    Roots,        \* grants that an operator inserts
    RootRow,      \* their rows
    Requests,     \* calls: records [grant, run, parent, doc]
    Nothing,      \* SQL NULL, no row, no answer
    MaxFaults,    \* bound: failed transactions and lost answers
    MaxTime       \* bound: the last value of the clock

Grants == Roots \union {d.grant : d \in Requests}

\* A grant document; rights are its capabilities and its allowed effects.
IsDoc(doc) ==
    /\ DOMAIN doc = {"scope", "rights", "toolCalls", "modelCalls", "until", "depth"}
    /\ \A field \in {"toolCalls", "modelCalls", "until", "depth"} : doc[field] \in Nat

\* The row that create_delegation stores for a call.
RowOf(d) == [run |-> d.run, parent |-> d.parent, doc |-> d.doc, sealed |-> TRUE]

\* Service-made ids hash run, parent, document and key; the store checks them
\* anyway, so Requests may hold two calls that collide.
ASSUME RequestsAssumption ==
    \A d \in Requests : /\ DOMAIN d = {"grant", "run", "parent", "doc"}
                        /\ d.grant \notin Roots
                        /\ d.run \in Runs
                        /\ IsDoc(d.doc)
ASSUME RootsAssumption ==
    \A g \in Roots : /\ RootRow[g].run \in Runs
                     /\ RootRow[g].parent = Nothing
                     /\ IsDoc(RootRow[g].doc)
ASSUME NothingAssumption ==
    /\ Nothing \notin Requests
    /\ Nothing \notin Grants
    /\ \A g \in Roots : RootRow[g] # Nothing
    /\ \A d \in Requests : RowOf(d) # Nothing
    /\ Nothing \notin {"granted", "denied", "collision"}
    /\ "run.requested" \notin Grants
ASSUME BoundsAssumption == MaxFaults \in Nat /\ MaxTime \in Nat

VARIABLES
    \* committed tables
    grants,       \* row [run, parent, doc, sealed] of each grant; sealed says
                  \* that grant_hash is the hash of grant_document
    revoked,      \* grants with revoked_at set
    journal,      \* journal records of each run; {} means the run is not stored
    outbox,       \* number of capability.delegated rows of each grant
    \* the callers and their transactions
    pc, request, answer,
    previous,     \* the last journal record a caller has read: a set with at
                  \* most one member
    \* the clock and the bound
    now, faults

tables == <<grants, revoked, journal, outbox>>
calls == <<pc, request, answer, previous>>
vars == <<tables, calls, now, faults>>

Init ==
    /\ grants = [g \in Grants |-> Nothing]
    /\ revoked = {}
    /\ journal = [n \in Runs |-> {}]
    /\ outbox = [g \in Grants |-> 0]
    /\ pc = [c \in Callers |-> "idle"]
    /\ request = [c \in Callers |-> Nothing]
    /\ answer = [c \in Callers |-> Nothing]
    /\ previous = [c \in Callers |-> {}]
    /\ now = 0
    /\ faults = 0

\* CapabilityGrant.permits_child.
PermitsChild(p, c) ==
    /\ c.scope = p.scope
    /\ c.rights \subseteq p.rights
    /\ c.toolCalls <= p.toolCalls
    /\ c.modelCalls <= p.modelCalls
    /\ c.until <= p.until
    /\ c.depth < p.depth

\* Row locks, by the label of the transaction that holds them.
AfterInsert == {"previous", "journal", "outbox", "commit"}

\* Mutants: the run lock ends with its check, or is never released; the parent
\* lock ends with its check.
HoldsRunBriefly(c, n) == pc[c] = "parent" /\ request[c].run = n
HoldsRunForever(c, n) == pc[c] \notin {"idle", "run"} /\ request[c].run = n
HoldsParentBriefly(c, g) == pc[c] = "insert" /\ request[c].parent = g

HoldsRun(c, n) == pc[c] \in {"parent", "insert"} \union AfterInsert /\ request[c].run = n
HoldsParent(c, g) == pc[c] \in {"insert"} \union AfterInsert /\ request[c].parent = g
HoldsGrant(c, g) == pc[c] \in AfterInsert /\ request[c].grant = g

Goto(c, label) == pc' = [pc EXCEPT ![c] = label]
Reply(c, what) == answer' = [answer EXCEPT ![c] = what] /\ Goto(c, "done")

-----------------------------------------------------------------------------
Ask(c, d) ==
    /\ pc[c] = "idle"
    /\ request[c] \in {Nothing, d}      \* a failed call is repeated as it was
    /\ request' = [request EXCEPT ![c] = d]
    /\ Goto(c, "run")
    /\ UNCHANGED <<tables, answer, previous, now, faults>>

\* SELECT ... FROM runs FOR UPDATE, and the scope check.
LockRun(c) ==
    LET n == request[c].run IN
    /\ pc[c] = "run"
    /\ ~ \E b \in Callers : HoldsRun(b, n)
    /\ IF journal[n] # {} /\ ScopeOf[n] = request[c].doc.scope
       THEN Goto(c, "parent") /\ UNCHANGED answer
       ELSE Reply(c, "denied")
    /\ UNCHANGED <<tables, request, previous, now, faults>>

\* A mutant of MayDelegate: the store trusts the service's require_attenuation.
MayDelegateUnchecked(d) ==
    /\ d.parent \in Grants
    /\ grants[d.parent] # Nothing
    /\ d.parent \notin revoked

\* The checks on the locked parent row.
MayDelegate(d) ==
    LET p == grants[d.parent] IN
    /\ d.parent \in Grants
    /\ p # Nothing
    /\ p.sealed
    /\ d.parent \notin revoked
    /\ now < p.doc.until
    /\ p.run = d.run
    /\ p.doc.scope = d.doc.scope
    /\ PermitsChild(p.doc, d.doc)

\* SELECT ... FROM capability_grants FOR UPDATE, and the attenuation checks.
LockParent(c) ==
    /\ pc[c] = "parent"
    /\ ~ \E b \in Callers : HoldsParent(b, request[c].parent)
    /\ IF MayDelegate(request[c])
       THEN Goto(c, "insert") /\ UNCHANGED answer
       ELSE Reply(c, "denied")
    /\ UNCHANGED <<tables, request, previous, now, faults>>

\* The grant id is stored, and as this request would store it.  The mutants miss
\* the conflict, compare the parent alone, or take every conflict for a collision.
NeverStored(d) == FALSE
IsStored(d) == grants[d.grant] # Nothing

NeverSame(d) == FALSE
SameParent(d) == grants[d.grant].parent = d.parent
SameGrant(d) == grants[d.grant].parent = d.parent /\ grants[d.grant].doc = d.doc

\* INSERT ... ON CONFLICT (grant_id) DO NOTHING waits for an open insert of
\* the same id; a stored row is compared with the request.
InsertGrant(c) ==
    LET d == request[c] IN
    /\ pc[c] = "insert"
    /\ ~ \E b \in Callers : HoldsGrant(b, d.grant)
    /\ IF ~IsStored(d) THEN Goto(c, "previous") /\ UNCHANGED answer
       ELSE IF SameGrant(d) THEN Reply(c, "granted")
       ELSE Reply(c, "collision")
    /\ UNCHANGED <<tables, request, previous, now, faults>>

\* ORDER BY sequence DESC LIMIT 1: one row, or none.
Last(rows) == {e \in rows : \A f \in rows : f.sequence <= e.sequence}

ReadPrevious(c) ==
    /\ pc[c] = "previous"
    /\ previous' = [previous EXCEPT ![c] = Last(journal[request[c].run])]
    /\ Goto(c, "journal")
    /\ UNCHANGED <<tables, request, answer, now, faults>>

\* sequence = 0 if previous is None else previous[0] + 1.
NextSequence(prev) == IF prev = {} THEN 0 ELSE (CHOOSE e \in prev : TRUE).sequence + 1

\* The journal record chained to the record read before; the mutant leaves the
\* chain out.
RecordUnchained(prev, body) ==
    [sequence |-> NextSequence(prev), previous |-> {}, body |-> body]
Record(prev, body) ==
    [sequence |-> NextSequence(prev), previous |-> prev, body |-> body]

\* UNIQUE (run_id, sequence), against committed records.
SequenceIsFree(c) ==
    \A e \in journal[request[c].run] :
        e.sequence # NextSequence(previous[c])

InsertJournal(c) ==
    /\ pc[c] = "journal"
    /\ SequenceIsFree(c)
    /\ Goto(c, "outbox")
    /\ UNCHANGED <<tables, request, answer, previous, now, faults>>

InsertOutbox(c) ==
    /\ pc[c] = "outbox"
    /\ Goto(c, "commit")
    /\ UNCHANGED <<tables, request, answer, previous, now, faults>>

Commit(c) ==
    LET d == request[c] IN
    /\ pc[c] = "commit"
    /\ grants' = [grants EXCEPT ![d.grant] = RowOf(d)]
    /\ journal' = [journal EXCEPT ![d.run] = @ \union {Record(previous[c], d.grant)}]
    /\ outbox' = [outbox EXCEPT ![d.grant] = @ + 1]
    /\ previous' = [previous EXCEPT ![c] = {}]
    /\ Reply(c, "granted")
    /\ UNCHANGED <<revoked, request, now, faults>>

\* The process or the database fails before the commit; locks are released.
Fail(c) ==
    /\ pc[c] \notin {"idle", "done"}
    /\ faults < MaxFaults
    /\ previous' = [previous EXCEPT ![c] = {}]
    /\ Goto(c, "idle")
    /\ faults' = faults + 1
    /\ UNCHANGED <<tables, request, answer, now>>

\* The call ends, but its caller never learns how.
LoseAnswer(c) ==
    /\ pc[c] = "done"
    /\ faults < MaxFaults
    /\ answer' = [answer EXCEPT ![c] = Nothing]
    /\ Goto(c, "idle")
    /\ faults' = faults + 1
    /\ UNCHANGED <<tables, request, previous, now>>

-----------------------------------------------------------------------------
\* create_run commits the run with its first journal record (RunCreation).
CreateRun(n) ==
    /\ journal[n] = {}
    /\ journal' = [journal EXCEPT ![n] = {Record({}, "run.requested")}]
    /\ UNCHANGED <<grants, revoked, outbox, calls, now, faults>>

\* An operator inserts a root grant of a stored run, or revokes a grant.
AddRoot(g) ==
    /\ grants[g] = Nothing
    /\ journal[RootRow[g].run] # {}
    /\ grants' = [grants EXCEPT ![g] = RootRow[g]]
    /\ UNCHANGED <<revoked, journal, outbox, calls, now, faults>>

Revoke(g) ==
    /\ grants[g] # Nothing
    /\ g \notin revoked
    /\ ~ \E c \in Callers : HoldsParent(c, g)
    /\ revoked' = revoked \union {g}
    /\ UNCHANGED <<grants, journal, outbox, calls, now, faults>>

Tick ==
    /\ now < MaxTime
    /\ now' = now + 1
    /\ UNCHANGED <<tables, calls, faults>>

-----------------------------------------------------------------------------
Step(c) ==
    \/ request[c] # Nothing /\ Ask(c, request[c])
    \/ LockRun(c)
    \/ LockParent(c)
    \/ InsertGrant(c)
    \/ ReadPrevious(c)
    \/ InsertJournal(c)
    \/ InsertOutbox(c)
    \/ Commit(c)

Next ==
    \/ \E c \in Callers : \/ \E d \in Requests : Ask(c, d)
                          \/ Step(c)
                          \/ Fail(c)
                          \/ LoseAnswer(c)
    \/ \E n \in Runs : CreateRun(n)
    \/ \E g \in Roots : AddRoot(g)
    \/ \E g \in Grants : Revoke(g)
    \/ Tick

Spec == Init /\ [][Next]_vars

\* A call that was made runs on, and a failed call is made again.
FairSpec == Spec /\ \A c \in Callers : WF_vars(Step(c))

-----------------------------------------------------------------------------
(***************************************************************************)
(* Properties                                                              *)
(***************************************************************************)
\* Every variable keeps its type.
TypeOK ==
    /\ grants \in [Grants -> {Nothing} \union {RootRow[r] : r \in Roots}
                                      \union {RowOf(d) : d \in Requests}]
    /\ revoked \subseteq Grants
    /\ DOMAIN journal = Runs /\ DOMAIN previous = Callers
    /\ \A n \in Runs : \A e \in journal[n] :
           e.sequence \in Nat /\ e.body \in Grants \union {"run.requested"}
    /\ outbox \in [Grants -> Nat]
    /\ pc \in [Callers -> {"idle", "run", "parent", "insert", "done"} \union AfterInsert]
    /\ request \in [Callers -> Requests \union {Nothing}]
    /\ answer \in [Callers -> {"granted", "denied", "collision", Nothing}]
    /\ now \in 0..MaxTime /\ faults \in 0..MaxFaults

Stored == {g \in Grants : grants[g] # Nothing}
Delegated == {g \in Stored : grants[g].parent # Nothing}

\* The grants above g: what every set holds that holds the parent of g and,
\* with any delegated grant, its parent.
Ancestors(g) ==
    {a \in Stored :
        \A S \in SUBSET Stored :
            /\ grants[g].parent \in S
            /\ \A x \in S \intersect Delegated : grants[x].parent \in S
            => a \in S}

\* Authority only shrinks: a grant is attenuated in every dimension against
\* each of its ancestors, all of them stored grants of the same run, however
\* long the chain and however the delegations interleaved.
AuthorityShrinks ==
    \A g \in Delegated :
        /\ grants[g].parent \in Stored
        /\ \A a \in Ancestors(g) :
              PermitsChild(grants[a].doc, grants[g].doc) /\ grants[a].run = grants[g].run

\* No grant is created under a parent that is already revoked: a revocation
\* cannot slip in between the check and the commit.
NoGrantUnderRevoked ==
    [][\A g \in Grants : grants[g] = Nothing /\ grants'[g] # Nothing =>
          grants'[g].parent \notin revoked]_vars

\* The journal of a run is one hash chain without gaps or forks.
JournalIsChained ==
    \A n \in Runs :
        /\ \A e, f \in journal[n] : e.sequence = f.sequence => e = f
        /\ \A e \in journal[n] :
              IF e.sequence = 0 THEN e.previous = {}
              ELSE \E p \in journal[n] : e.previous = {p} /\ p.sequence + 1 = e.sequence

\* The run lock keeps the record a caller read the last one until it commits,
\* so UNIQUE (run_id, sequence) never rejects a delegation.
ChainIsUncontended == \A c \in Callers : pc[c] = "journal" => SequenceIsFree(c)

\* A delegated grant has exactly one journal record, in its own run, and one
\* outbox row; replays and failures add none.
RecordedOnce ==
    \A g \in Grants :
        LET n(r) == Cardinality({e \in journal[r] : e.body = g}) IN
        /\ outbox[g] = (IF g \in Delegated THEN 1 ELSE 0)
        /\ \A r \in Runs : n(r) = IF g \in Delegated /\ grants[g].run = r THEN 1 ELSE 0

\* A caller told "granted" holds a stored grant with exactly its own parent and
\* document, even when another caller used the same grant id first.
AnswersAreTrue ==
    \A c \in Callers : answer[c] = "granted" =>
        LET d == request[c] IN
        /\ grants[d.grant] # Nothing
        /\ grants[d.grant].parent = d.parent /\ grants[d.grant].doc = d.doc

\* An identical retry is replay-safe (docs/implementation/local-control-plane.md:
\* 25-26): a call whose grant is stored as it asks is granted whatever happened
\* since, unless its parent has been revoked or has expired; it never counts as a
\* collision, nor as outside the run or beyond the parent's authority.
RetriesAreHonoured ==
    [][\A c \in Callers :
          LET d == request[c] IN
          /\ answer[c] = Nothing /\ answer'[c] \in {"denied", "collision"}
          /\ grants[d.grant] = RowOf(d)
          => /\ answer'[c] = "denied"
             /\ d.parent \in revoked \/ grants[d.parent].doc.until <= now]_vars

\* Every call is answered: the locks on run, parent and grant id are taken in
\* an order that cannot deadlock.
EveryCallIsAnswered ==
    \A c \in Callers : request[c] # Nothing ~> answer[c] # Nothing
=============================================================================
