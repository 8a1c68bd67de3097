----------------------------- MODULE CodexAdapter -----------------------------
(***************************************************************************)
(* The Codex evidence adapter: build_evidence reads the execution stream,  *)
(* then the telemetry stream, one event at a time, and keeps a few facts   *)
(* about each; from the facts alone it says what its evidence covers.      *)
(*                                                                         *)
(* An execution event is a record [type, id, kind, tools, skills, profile, *)
(* secret], a telemetry event [name, id, state, kind, format, content,     *)
(* secret]; "none" stands for an absent field and "bad" for a value of the *)
(* wrong type, and secret says that some string in the event looks like a  *)
(* credential, which parse_jsonl refuses.  A send without sender, receiver *)
(* or kind has kind "none".  What is kept of an identifier is its digest.  *)
(***************************************************************************)
EXTENDS ControlChain

CONSTANTS
    ExecEvents,       \* events an execution stream may hold
    TelemetryEvents,  \* events a telemetry stream may hold
    AdapterScope,     \* tenant and case, from the trusted AdapterContext
    AdapterLevel,     \* its classification
    MaxEvents         \* bound: events of both streams together

VARIABLES
    execStream,       \* the execution events read so far
    teleStream,       \* the telemetry events read so far
    exec,             \* facts about the execution events
    tele,             \* facts about the telemetry events
    adapter           \* "exec", "telemetry", "built" or "raised"

adapterVars == <<execStream, teleStream, exec, tele, adapter>>

ItemEvents == {"item.started", "item.updated", "item.completed"}
ConfigEvents == {"session.configured", "session.catalog", "turn.configured"}
ExecTypes == {"thread.started", "turn.started", "turn.completed", "turn.failed", "error"}
                \cup ItemEvents \cup ConfigEvents
ActivityKinds == {"command_execution", "file_change", "mcp_tool_call", "web_search"}
TaskKinds == {"spawn", "message", "followup"}
CommunicationEvent == "codex.agent_communication"

NoExecFacts ==
    [events |-> << >>, ignored |-> 0, threads |-> {}, items |-> {}, activity |-> FALSE,
     tools |-> FALSE, skills |-> FALSE, profile |-> FALSE]

NoTelemetryFacts ==
    [events |-> << >>, ignored |-> 0, states |-> {}, sends |-> {}, receives |-> {},
     readable |-> 0, tasks |-> 0]

AdapterInit ==
    /\ execStream = << >> /\ teleStream = << >>
    /\ exec = NoExecFacts /\ tele = NoTelemetryFacts
    /\ adapter = "exec"

BelowMaxEvents == Len(execStream) + Len(teleStream) < MaxEvents

-----------------------------------------------------------------------------
(* normalize_execution_events                                               *)

(* The error an event raises.  An update may come any number of times. *)
ExecRaises(e) ==
    \/ e.type = "thread.started" /\ (e.id = "none" \/ e.id \in exec.threads)
    \/ e.type \in ItemEvents /\ (e.id = "none" \/ e.kind \in {"none", "bad"})
    \/ e.type \in {"item.started", "item.completed"} /\ <<e.type, e.id>> \in exec.items
    \/ e.type \in ConfigEvents /\ "bad" \in {e.tools, e.skills}

ReadsProfile(e) ==
    e.type \in ConfigEvents \cup {"thread.started"} /\ e.profile = "named"

NormalizedExec(e) ==
    [type |-> e.type,
     idHash |-> IF e.type \in ItemEvents \cup {"thread.started"} THEN Digest(e.id) ELSE "none",
     kind |-> IF e.type \in ItemEvents THEN e.kind ELSE "none"]

TakeExec(e) ==
    [exec EXCEPT
        !.events = Append(@, NormalizedExec(e)),
        !.threads = IF e.type = "thread.started" THEN @ \cup {e.id} ELSE @,
        !.items = IF e.type \in {"item.started", "item.completed"}
                  THEN @ \cup {<<e.type, e.id>>} ELSE @,
        !.activity = @ \/ (e.type \in ItemEvents /\ e.kind \in ActivityKinds),
        !.tools = @ \/ (e.type \in ConfigEvents /\ e.tools = "names"),
        !.skills = @ \/ (e.type \in ConfigEvents /\ e.skills = "names"),
        !.profile = @ \/ ReadsProfile(e)]

ReadExec(e) ==
    /\ adapter = "exec" /\ BelowMaxEvents
    /\ execStream' = Append(execStream, e)
    /\ \/ /\ ~e.secret /\ e.type \notin ExecTypes
          /\ exec' = [exec EXCEPT !.ignored = @ + 1]
          /\ UNCHANGED adapter
       \/ /\ e.secret \/ (e.type \in ExecTypes /\ ExecRaises(e))
          /\ adapter' = "raised"
          /\ UNCHANGED exec
       \/ /\ ~e.secret /\ e.type \in ExecTypes /\ ~ExecRaises(e)
          /\ exec' = TakeExec(e)
          /\ UNCHANGED adapter
    /\ UNCHANGED <<teleStream, tele>>

EndOfExec ==
    /\ adapter = "exec"
    /\ adapter' = "telemetry"
    /\ UNCHANGED <<execStream, teleStream, exec, tele>>

-----------------------------------------------------------------------------
(* normalize_telemetry_events                                               *)

TelemetryRaises(e) ==
    \/ e.id = "none"
    \/ e.state \notin {"send", "receive"}
    \/ <<e.id, e.state>> \in tele.states
    \/ e.state = "send" /\ (e.kind = "none" \/ e.content = "bad")

IsTask(e) == e.state = "send" /\ e.kind \in TaskKinds

NormalizedTelemetry(e) ==
    [idHash |-> Digest(e.id), state |-> e.state,
     kind |-> IF e.state = "send" THEN e.kind ELSE "none",
     contentPresent |-> e.state = "send" /\ e.content = "text"]

TakeTelemetry(e) ==
    [tele EXCEPT
        !.events = Append(@, NormalizedTelemetry(e)),
        !.states = @ \cup {<<e.id, e.state>>},
        !.sends = IF e.state = "send" THEN @ \cup {e.id} ELSE @,
        !.receives = IF e.state = "receive" THEN @ \cup {e.id} ELSE @,
        !.tasks = IF IsTask(e) THEN @ + 1 ELSE @,
        !.readable = IF IsTask(e) /\ e.format = "plaintext_audit" THEN @ + 1 ELSE @]

ReadTelemetry(e) ==
    /\ adapter = "telemetry" /\ BelowMaxEvents
    /\ teleStream' = Append(teleStream, e)
    /\ \/ /\ ~e.secret /\ e.name # CommunicationEvent
          /\ tele' = [tele EXCEPT !.ignored = @ + 1]
          /\ UNCHANGED adapter
       \/ /\ e.secret \/ (e.name = CommunicationEvent /\ TelemetryRaises(e))
          /\ adapter' = "raised"
          /\ UNCHANGED tele
       \/ /\ ~e.secret /\ e.name = CommunicationEvent /\ ~TelemetryRaises(e)
          /\ tele' = TakeTelemetry(e)
          /\ UNCHANGED adapter
    /\ UNCHANGED <<execStream, exec>>

-----------------------------------------------------------------------------
(* The coverage report, from the facts.                                     *)

Exposed(flag) == IF flag THEN "available" ELSE "unavailable"

LifecycleStatus ==
    CASE tele.sends = {} -> "unavailable"
      [] tele.sends # {} /\ tele.sends \ tele.receives # {} -> "partial"
      [] OTHER -> "available"

ReadableStatus ==
    CASE tele.tasks > 0 /\ tele.readable = tele.tasks -> "available"
      [] tele.readable > 0 /\ tele.readable # tele.tasks -> "partial"
      [] OTHER -> "unavailable"

Coverage ==
    [exec_event_stream |-> Exposed(exec.events # << >>),
     command_and_file_activity |-> Exposed(exec.activity),
     multi_agent_lifecycle |-> LifecycleStatus,
     multi_agent_readable_task_text |-> ReadableStatus,
     offered_tool_catalog |-> Exposed(exec.tools),
     offered_skill_catalog |-> Exposed(exec.skills),
     permissions_profile |-> Exposed(exec.profile)]

AdapterRecord(id, content) ==
    [id |-> id, scope |-> AdapterScope, content |-> Digest(content), level |-> AdapterLevel]

(* The bundle of the result: what was normalized, and what it covers. *)
AdapterBundle ==
    CreateBundle(AdapterScope,
        {AdapterRecord("evidence_codex_exec", exec.events),
         AdapterRecord("evidence_codex_telemetry", tele.events),
         AdapterRecord("evidence_codex_coverage", Coverage)})

(* An orphan receive is only noticed when the stream has ended; the mutant *)
(* does not look for it.                                                  *)
BuildRaisesEmpty == exec.events = << >> /\ tele.events = << >>

BuildRaises ==
    \/ tele.receives \ tele.sends # {}
    \/ exec.events = << >> /\ tele.events = << >>

BuildEvidence ==
    /\ adapter = "telemetry"
    /\ adapter' = IF BuildRaises THEN "raised" ELSE "built"
    /\ UNCHANGED <<execStream, teleStream, exec, tele>>

AdapterNext ==
    \/ \E e \in ExecEvents : ReadExec(e)
    \/ EndOfExec
    \/ \E e \in TelemetryEvents : ReadTelemetry(e)
    \/ BuildEvidence

-----------------------------------------------------------------------------
Elements(seq) == {seq[i] : i \in DOMAIN seq}

Twice(seq, Same(_, _)) ==
    \E i, j \in DOMAIN seq : i # j /\ Same(seq[i], seq[j])

Communications == {e \in Elements(teleStream) : e.name = CommunicationEvent}

(* What the report should say of the two streams as wholes, whatever the   *)
(* order of their events.                                                  *)
CoveredIn(capability) ==
    LET events == Elements(execStream)
        configs == {e \in events : e.type \in ConfigEvents}
        sends == {e \in Communications : e.state = "send"}
        tasks == {e \in sends : e.kind \in TaskKinds}
        Answered(s) == \E r \in Communications : r.state = "receive" /\ r.id = s.id
        Readable(s) == s.format = "plaintext_audit"
        All(S, P(_)) == S # {} /\ \A s \in S : P(s)
        Some(S, P(_)) == \E s \in S : P(s)
        Graded(all, some) ==
            IF all THEN "available" ELSE IF some THEN "partial" ELSE "unavailable"
    IN  CASE capability = "exec_event_stream" ->
                Exposed(\E e \in events : e.type \in ExecTypes)
          [] capability = "command_and_file_activity" ->
                Exposed(\E e \in events : e.type \in ItemEvents /\ e.kind \in ActivityKinds)
          [] capability = "multi_agent_lifecycle" ->
                Graded(All(sends, Answered), sends # {})
          [] capability = "multi_agent_readable_task_text" ->
                Graded(All(tasks, Readable), Some(tasks, Readable))
          [] capability = "offered_tool_catalog" ->
                Exposed(\E e \in configs : e.tools = "names")
          [] capability = "offered_skill_catalog" ->
                Exposed(\E e \in configs : e.skills = "names")
          [] capability = "permissions_profile" ->
                Exposed(\E e \in events : ReadsProfile(e))

(* Evidence is only built of streams in which no lifecycle state is told   *)
(* twice, no message is received that was not sent and nothing looks like  *)
(* a credential; every event is either normalized or counted as ignored;   *)
(* and the coverage it reports is what the streams as wholes expose, in    *)
(* whatever order their events came (normalize_execution_events,           *)
(* normalize_telemetry_events, _build_coverage).                           *)
CoverageIsHonest ==
    adapter = "built" =>
        /\ \A capability \in DOMAIN Coverage :
              Coverage[capability] = CoveredIn(capability)
        /\ Len(exec.events) + exec.ignored = Len(execStream)
        /\ Len(tele.events) + tele.ignored = Len(teleStream)
        /\ \A e \in Elements(execStream) \cup Elements(teleStream) : ~e.secret
        /\ ~Twice(teleStream, LAMBDA e, f :
                /\ e.name = CommunicationEvent /\ f.name = CommunicationEvent
                /\ e.id = f.id /\ e.state = f.state)
        /\ ~Twice(execStream, LAMBDA e, f :
                /\ e.type = f.type /\ e.id = f.id
                /\ e.type \in {"thread.started", "item.started", "item.completed"})
        /\ \A r \in Communications : r.state = "receive" =>
              \E s \in Communications : s.state = "send" /\ s.id = r.id
=============================================================================
