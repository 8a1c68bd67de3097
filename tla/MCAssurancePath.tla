--------------------------- MODULE MCAssurancePath ---------------------------
(* Constants of AssurancePath for model checking. *)
EXTENDS AssurancePath

Scope == "tenant/case"
Other == "tenant/other"

Context == [scope |-> Scope, run |-> "run", agent |-> "agent", purpose |-> "inform",
            audience |-> "board", level |-> 1, at |-> "t0"]

MCContexts == {Context, [Context EXCEPT !.level = 0], [Context EXCEPT !.scope = Other]}

Draft(claim, id, sensitive) ==
    [claim |-> claim, evidence |-> id, limitations |-> <<"limited">>,
     statement |-> claim, sensitive |-> sensitive, redacted |-> FALSE]

MCDrafts ==
    {Draft("claim", "e1", FALSE), Draft("claim", "e1", TRUE),
     Draft("claim", "evidence_codex_coverage", FALSE),
     [Draft("claim", "e1", FALSE) EXCEPT !.limitations = << >>]}

Record(level) == [id |-> "e1", scope |-> Scope, content |-> Digest(level), level |-> level]
MCCallerBundles == {CreateBundle(Scope, {Record(1)}), CreateBundle(Scope, {Record(2)})}

MCCaseFold == [name \in {"ada", "agent", "Agent", " "} |->
                  IF name = "Agent" THEN "agent" ELSE name]
MCPeople == {"ada", "Agent"}
MCVisible == {"ada", "agent", "Agent", DefaultRationale}
MCRationales == {DefaultRationale}

MCUses == {[purpose |-> "inform", audience |-> "board"],
           [purpose |-> "inform", audience |-> "public"]}

MCDisclosures ==
    {[limitations |-> <<"limited">>, profiles |-> SupportedProfiles],
     [limitations |-> <<"limited">>, profiles |-> <<"par.core.v1">>],
     [limitations |-> <<"limited">>, profiles |-> <<"par.core.v1", "par.governed.v1">>],
     [limitations |-> <<"limited", "limited">>, profiles |-> <<"par.core.v1">>]}

AllPass ==
    [CANDIDATE_HASH_VALID |-> Finding("error", TRUE),
     EVIDENCE_BUNDLE_BOUND |-> Finding("error", TRUE),
     EVIDENCE_REFERENCE_VALID |-> Finding("error", TRUE),
     SCOPE_MATCH |-> Finding("error", TRUE),
     DISCLOSURE_SAFE |-> Finding("error", TRUE),
     LIMITATION_PRESENT |-> Finding("warning", TRUE)]

MCAlterations ==
    {[slot |-> "candidate", body |-> [statement |-> "altered"]],
     [slot |-> "verification", body |-> [status |-> "pass", findings |-> AllPass]],
     [slot |-> "approval", body |-> [decision |-> "approved"]],
     [slot |-> "authorization", body |-> [authorized |-> TRUE, reason |-> ReasonFor(TRUE)]],
     [slot |-> "packet", body |-> [limitations |-> <<"altered">>]],
     [slot |-> "packet", body |-> [output |-> [statement |-> "altered", limitations |-> <<"limited">>]]],
     [slot |-> "packet", body |-> [extension |-> "untrusted"]]}

Key == [keyid |-> "dev", public |-> "dev", algorithm |-> "Ed25519", role |-> "packet_issuer",
        status |-> "active", revoked |-> FALSE, notBefore |-> 1, notAfter |-> 2]

MCTrustBundles ==
    {<<Key>>, <<Key, [Key EXCEPT !.revoked = TRUE]>>, <<[Key EXCEPT !.public = "other"]>>,
     <<[Key EXCEPT !.status = "disabled"]>>, << >>}

Exec(type, id, kind, tools, profile, secret) ==
    [type |-> type, id |-> id, kind |-> kind, tools |-> tools, skills |-> tools,
     profile |-> profile, secret |-> secret]

MCExecEvents ==
    {Exec("thread.started", "t1", "none", "none", "named", FALSE),
     Exec("item.started", "i1", "command_execution", "none", "none", FALSE),
     Exec("item.updated", "i1", "reasoning", "none", "none", FALSE),
     Exec("session.catalog", "none", "none", "names", "none", FALSE),
     Exec("session.catalog", "none", "none", "bad", "none", FALSE),
     Exec("unheard.of", "none", "none", "none", "none", FALSE),
     Exec("unheard.of", "none", "none", "none", "none", TRUE)}

Tele(name, id, state, kind, format) ==
    [name |-> name, id |-> id, state |-> state, kind |-> kind, format |-> format,
     content |-> "text", secret |-> FALSE]

MCTelemetryEvents ==
    {Tele(CommunicationEvent, "m1", "send", "spawn", "plaintext_audit"),
     Tele(CommunicationEvent, "m2", "send", "message", "none"),
     Tele(CommunicationEvent, "m3", "send", "status", "plaintext_audit"),
     Tele(CommunicationEvent, "m1", "receive", "none", "none"),
     Tele(CommunicationEvent, "m2", "receive", "none", "none"),
     Tele(CommunicationEvent, "m1", "lost", "none", "none"),
     Tele("other.event", "m1", "send", "none", "none")}
=============================================================================
