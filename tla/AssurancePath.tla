----------------------------- MODULE AssurancePath -----------------------------
(***************************************************************************)
(* The way of a case from its evidence to a packet in another process: the *)
(* evidence comes from the caller or from the Codex adapter, the records   *)
(* of the control chain are made by separate calls (or by one call of      *)
(* pipeline.run) and kept by the caller between them, so that a later call *)
(* may be given records of an earlier round; the packet travels bare or in *)
(* a signed envelope, and the receiver checks it.                          *)
(*                                                                         *)
(* A stored record, and a packet on its way, may be replaced by an altered *)
(* copy, with its own digest recomputed or not (the tests do it with       *)
(* dataclasses.replace).  Without the constructor's leave no record exists. *)
(***************************************************************************)
EXTENDS AssurancePacket, Envelope, CodexAdapter

CONSTANTS
    Contexts,      \* trusted run contexts
    Drafts,        \* semantic drafts
    CallerBundles, \* evidence bundles the caller has made
    People,        \* approvers
    Uses,          \* requested [purpose, audience]
    Rationales,    \* what an approver may write
    Disclosures,   \* requested packet [limitations, profiles]
    Alterations,   \* [slot, body]: fields of a record and their new values
    TrustBundles,  \* what a receiver may have pinned
    Times,         \* when a receiver may check
    None,          \* no record
    MaxCalls,      \* bound: calls of one case
    MaxEdits       \* bound: alterations

VARIABLES
    origin,        \* "caller" or "codex": where the evidence is from
    evidence,      \* the bundle of the adapter's result
    case,          \* the records the caller holds
    calls,         \* calls made for the case
    edits,         \* alterations made
    packet,        \* the packet built last
    wire,          \* what is under way: [signed, content]
    signed,        \* history: what was given to sign_assurance_packet
    receipt        \* the last outcome at the receiver

pathVars == <<evidence, case, calls, edits, packet, wire, signed, receipt>>
vars == <<origin, adapterVars, pathVars>>

Slots == {"candidate", "verification", "approval", "authorization", "manifest"}

EmptyCase ==
    [candidate |-> None, verification |-> None, approval |-> None,
     authorization |-> None, manifest |-> None, auditValid |-> FALSE]

(* EvidenceBundle.__post_init__: no other bundle can be made. *)
ASSUME BundlesAreConstructed == \A b \in CallerBundles : BundleValid(b)

(* dataclasses.replace refuses a field the record does not have. *)
FieldsOf(slot) == IF slot = "candidate" THEN CandidateFields ELSE RecordFields[slot]

ASSUME AlterationsKeepFields ==
    \A alteration \in Alterations :
        alteration.slot \in Slots => DOMAIN alteration.body \subseteq FieldsOf(alteration.slot)

Init ==
    /\ origin \in {"caller", "codex"}
    /\ AdapterInit
    /\ evidence = None /\ case = EmptyCase
    /\ calls = 0 /\ edits = 0
    /\ packet = None /\ wire = None /\ signed = {} /\ receipt = None

Has(slots) == \A slot \in slots : case[slot] # None

(* Bound: records are put together call by call, and altered, only in a    *)
(* case with the caller's own evidence; the adapter's bundle goes through  *)
(* pipeline.run and its packet arrives as it was sent.                     *)
CallByCall == origin = "caller" /\ packet = None

Available == IF origin = "caller" THEN CallerBundles ELSE {evidence} \ {None}

-----------------------------------------------------------------------------
(* The adapter reads its streams; what it returns is the bundle, its locals *)
(* are gone.                                                                *)

RunAdapter ==
    /\ origin = "codex" /\ evidence = None
    /\ AdapterNext
    /\ UNCHANGED <<origin, pathVars>>

TakeEvidence ==
    /\ adapter = "built" /\ evidence = None
    /\ evidence' = AdapterBundle
    /\ execStream' = << >> /\ teleStream' = << >>
    /\ exec' = NoExecFacts /\ tele' = NoTelemetryFacts
    /\ adapter' = "returned"
    /\ UNCHANGED <<origin, case, calls, edits, packet, wire, signed, receipt>>

-----------------------------------------------------------------------------
(* The calls of the control chain.  A call that raises changes nothing.     *)

Call(newCase) ==
    /\ calls < MaxCalls
    /\ calls' = calls + 1
    /\ case' = newCase
    /\ UNCHANGED <<origin, adapterVars, evidence, edits, packet, wire, signed, receipt>>

Keep(slot, doc) == Call([case EXCEPT ![slot] = doc])

CompileCase(ctx, draft, b) ==
    /\ CallByCall
    /\ Compiles(ctx, draft, b)
    /\ Keep("candidate", Compile(ctx, draft, b))

VerifyCase(b) ==
    /\ CallByCall /\ Has({"candidate"})
    /\ Keep("verification", Verify(case.candidate, b))

ApproveCase(who, decision, rationale) ==
    /\ CallByCall /\ Has({"candidate", "verification"})
    /\ Approvable(case.candidate, case.verification, who, decision)
    /\ Keep("approval",
            RecordApproval(case.candidate, case.verification, who, decision, rationale))

AuthorizeCase(use) ==
    /\ CallByCall /\ Has({"candidate", "approval"})
    /\ Authorizable(case.candidate, case.approval)
    /\ Keep("authorization",
            AuthorizeExactUse(case.candidate, case.approval, use.purpose, use.audience,
                              ApprovedOutput(case.candidate)))

(* The caller puts a manifest over its records and verifies it. *)
AuditCase ==
    /\ CallByCall /\ Has(Slots \ {"manifest"})
    /\ LET m == BuildAuditManifest(case.candidate, case.verification,
                                   case.approval, case.authorization)
       IN  Call([case EXCEPT
                    !.manifest = m,
                    !.auditValid = AuditValid(m, case.candidate, case.verification,
                                              case.approval, case.authorization)])

DefaultRationale == "Verified candidate approved for the requested exact use."

(* pipeline.run: all of it in one call, or an exception and nothing. *)
RunPipeline(ctx, draft, b, who) ==
    LET c == Compile(ctx, draft, b)
        v == Verify(c, b)
        a == RecordApproval(c, v, who, "approved", DefaultRationale)
        z == AuthorizeExactUse(c, a, ctx.purpose, ctx.audience, ApprovedOutput(c))
        m == BuildAuditManifest(c, v, a, z)
    IN  /\ packet = None /\ case = EmptyCase
        /\ Compiles(ctx, draft, b)
        /\ Approvable(c, v, who, "approved")
        /\ Authorizable(c, a)
        /\ Call([candidate |-> c, verification |-> v, approval |-> a,
                 authorization |-> z, manifest |-> m,
                 auditValid |-> AuditValid(m, c, v, a, z)])

-----------------------------------------------------------------------------
(* Alterations.                                                             *)

Altered(doc, body, resealed) ==
    LET new == [field \in DOMAIN body \cup DOMAIN doc.body |->
                   IF field \in DOMAIN body THEN body[field] ELSE doc.body[field]]
    IN  IF resealed THEN Sealed(new) ELSE [doc EXCEPT !.body = new]

Constructible(slot, doc) == slot = "verification" => StatusMatches(doc)

AlterRecord(alteration, resealed) ==
    LET slot == alteration.slot
        doc == Altered(case[slot], alteration.body, resealed)
    IN  /\ CallByCall /\ edits < MaxEdits
        /\ slot \in Slots /\ Has({slot})
        /\ Constructible(slot, doc)
        /\ case' = [case EXCEPT ![slot] = doc]
        /\ edits' = edits + 1
        /\ UNCHANGED <<origin, adapterVars, evidence, calls, packet, wire, signed, receipt>>

-----------------------------------------------------------------------------
(* The packet: built, sent, altered under way and received.                 *)

Pack(b, disclosure) ==
    LET built == BuildPacket(b, case, disclosure.limitations, disclosure.profiles)
    IN  /\ packet = None /\ Has(Slots)
        /\ Packageable(case, disclosure.limitations, disclosure.profiles)
        /\ SelfCheck(built)
        /\ packet' = built
        /\ UNCHANGED <<origin, adapterVars, evidence, case, calls, edits, wire, signed, receipt>>

SendBare ==
    /\ packet # None /\ wire = None
    /\ wire' = [signed |-> FALSE, content |-> packet]
    /\ UNCHANGED <<origin, adapterVars, evidence, case, calls, edits, packet, signed, receipt>>

SignAndSend(doc) ==
    /\ wire = None
    /\ wire' = [signed |-> TRUE, content |-> Sign(doc)]
    /\ signed' = signed \cup {doc}
    /\ UNCHANGED <<origin, adapterVars, evidence, case, calls, packet, receipt>>

SendSigned ==
    /\ packet # None
    /\ SignAndSend(packet)
    /\ UNCHANGED edits

(* sign_assurance_packet signs any object: the sender may give it a copy of *)
(* the packet with other fields, or one without its packet_hash.            *)
Copies ==
    {[body |-> packet.body]} \cup
    {Altered(packet, alteration.body, resealed) :
        alteration \in {a \in Alterations : a.slot = "packet"}, resealed \in BOOLEAN}

SendCopy ==
    /\ origin = "caller" /\ packet # None /\ edits < MaxEdits
    /\ \E doc \in Copies : SignAndSend(doc)
    /\ edits' = edits + 1

(* A signature is not made again: the sender alone holds the key. *)
AlterInTransit(alteration, resealed) ==
    LET sent == IF wire.signed THEN wire.content.payload.value ELSE wire.content
        doc == Altered(sent, alteration.body, resealed)
    IN  /\ origin = "caller" /\ wire # None /\ receipt = None /\ edits < MaxEdits
        /\ alteration.slot = "packet"
        /\ wire' = IF wire.signed
                   THEN [wire EXCEPT !.content.payload = Canonical(doc)]
                   ELSE [wire EXCEPT !.content = doc]
        /\ edits' = edits + 1
        /\ UNCHANGED <<origin, adapterVars, evidence, case, calls, packet, signed, receipt>>

(* by is the function that gave the outcome. *)
Receipt(received, trust, now, by, accepted) ==
    /\ receipt' = [packet |-> received, signed |-> wire.signed, trust |-> trust, now |-> now,
                   by |-> by, accepted |-> accepted]
    /\ UNCHANGED <<origin, adapterVars, evidence, case, calls, edits, packet, wire, signed>>

(* load_assurance_packet on a bare packet. *)
ReceiveBare ==
    /\ wire # None /\ ~wire.signed /\ receipt = None
    /\ Receipt(wire.content, << >>, 0, "load", Loads(wire.content))

(* verify_envelope alone: it returns the payload and does not load it. *)
ReceiveSigned(trust, now) ==
    /\ wire # None /\ wire.signed /\ receipt = None
    /\ Receipt(wire.content.payload.value, trust, now, "verify",
               VerifyEnvelope(wire.content, trust, now))

(* The receiver may load what verify_envelope returned. *)
LoadVerified ==
    /\ receipt # None /\ receipt.by = "verify" /\ receipt.accepted
    /\ Receipt(receipt.packet, receipt.trust, receipt.now, "load", Loads(receipt.packet))

Next ==
    \/ RunAdapter
    \/ TakeEvidence
    \/ \E ctx \in Contexts, draft \in Drafts, b \in Available : CompileCase(ctx, draft, b)
    \/ \E b \in Available : VerifyCase(b)
    \/ \E who \in People, decision \in Decisions, rationale \in Rationales :
          ApproveCase(who, decision, rationale)
    \/ \E use \in Uses : AuthorizeCase(use)
    \/ AuditCase
    \/ \E ctx \in Contexts, draft \in Drafts, b \in Available,
          who \in People : RunPipeline(ctx, draft, b, who)
    \/ \E alteration \in Alterations, resealed \in BOOLEAN : AlterRecord(alteration, resealed)
    \/ \E b \in Available, disclosure \in Disclosures : Pack(b, disclosure)
    \/ SendBare
    \/ SendSigned
    \/ SendCopy
    \/ \E alteration \in Alterations, resealed \in BOOLEAN : AlterInTransit(alteration, resealed)
    \/ ReceiveBare
    \/ \E trust \in TrustBundles, now \in Times : ReceiveSigned(trust, now)
    \/ LoadVerified

Spec == Init /\ [][Next]_vars

-----------------------------------------------------------------------------
Agrees(doc, made) ==
    \A field \in DOMAIN made.body \ {"id", "at"} :
        field \in DOMAIN doc.body /\ doc.body[field] = made.body[field]

(* The records of a packet say what the functions of the control chain say *)
(* when they are called again on what the packet carries.                  *)
Replays(p) ==
    LET b == p.body.bundle
        c == p.body.candidate
        v == p.body.verification
        a == p.body.approval
        z == p.body.authorization
        m == p.body.manifest
    IN  /\ BundleValid(b)
        /\ c.body.bundleHash = b.hash /\ c.body.evidence \in b.body.records
        /\ HashValid(c) /\ HashValid(v) /\ HashValid(a) /\ HashValid(z) /\ HashValid(m)
        /\ Agrees(v, Verify(c, b))
        /\ v.body.status = "pass"
        /\ Agrees(a, RecordApproval(c, v, a.body.approver, "approved", a.body.rationale))
        /\ Agrees(z, AuthorizeExactUse(c, a, c.body.ctx.purpose, c.body.ctx.audience,
                                       p.body.output))
        /\ z.body.authorized
        /\ Agrees(m, BuildAuditManifest(c, v, a, z))

(* Whatever records were mixed, altered and resealed on the way, a packet  *)
(* that load_assurance_packet accepts, bare or out of an envelope, is one  *)
(* chain: verification, approval, authorization and manifest come out the  *)
(* same when they are made again from the packet's own contents.           *)
AcceptedPacketsReplay ==
    (receipt # None /\ receipt.by = "load" /\ receipt.accepted) => Replays(receipt.packet)

(* An authorization of the current candidate names an approval that was    *)
(* given to this candidate on a verification of it that passes against the *)
(* bundle it was compiled from; no record of an earlier candidate is       *)
(* carried over by a later call (record_approval, authorize_exact_use).    *)
AuthorizationIsEarned ==
    LET c == case.candidate
        z == case.authorization
    IN  (edits = 0 /\ Has({"candidate", "authorization"}) /\ z.body.authorized
           /\ z.body.candidateHash = c.hash) =>
        \E who \in People, b \in Available :
            /\ c.body.bundleHash = b.hash
            /\ StatusOf(Findings(c, b)) = "pass"
            /\ z.body.approvalId =
                  Digest(<<c.hash, Verify(c, b).hash, who, "approved">>)

(* What build_assurance_packet lets out and nobody alters, before it is    *)
(* signed or after, is not refused by load_assurance_packet, nor by        *)
(* verify_envelope under a trust bundle that pins the signing key once and *)
(* in its validity window.                                                 *)
PackedIsAccepted ==
    LET Trusted(trust, now) ==
            \E i \in DOMAIN trust :
                /\ trust[i].keyid = SigningKey /\ trust[i].public = SigningKey
                /\ Usable(trust[i], now)
                /\ \A j \in DOMAIN trust : trust[j].keyid = SigningKey => i = j
    IN  (receipt # None /\ receipt.packet = packet
           /\ (receipt.signed => signed = {packet})) =>
            ((~receipt.signed \/ Trusted(receipt.trust, receipt.now)) => receipt.accepted)

(* What is accepted from an envelope is, to the last field, something the  *)
(* holder of the pinned key signed, and no duplicate, disabled, revoked or *)
(* expired entry of the trust bundle vouches for it (verify_envelope).     *)
SignedIsAuthentic ==
    (receipt # None /\ receipt.signed /\ receipt.accepted) =>
        /\ receipt.packet \in signed
        /\ \A i \in DOMAIN receipt.trust :
              receipt.trust[i].keyid = SigningKey => Usable(receipt.trust[i], receipt.now)
=============================================================================
