--------------------------- MODULE AssurancePathProofs ---------------------------
(* What is proved of AssurancePath for every value of its constants.       *)
EXTENDS AssurancePath, FiniteSetTheorems, TLAPS

(* A manifest that verify_audit_manifest accepts binds four intact records *)
(* to one candidate, and what it says of an authorized use follows from    *)
(* the candidate and from an approval of a verification that passed.       *)
LEMMA AuditedChain ==
    ASSUME NEW m, NEW c, NEW v, NEW a, NEW z, AuditValid(m, c, v, a, z)
    PROVE  /\ HashValid(c) /\ HashValid(v) /\ HashValid(a) /\ HashValid(z) /\ HashValid(m)
           /\ m.body.candidateHash = c.hash /\ m.body.verificationHash = v.hash
           /\ m.body.approvalHash = a.hash /\ m.body.authorizationHash = z.hash
           /\ Binds(v, c) /\ Binds(a, c) /\ Binds(z, c)
           /\ a.body.verificationHash = v.hash
           /\ z.body.approvalId = a.body.id
           /\ z.body.authorized => /\ z.body.purpose = c.body.ctx.purpose
                                   /\ z.body.audience = c.body.ctx.audience
           /\ z.body.reason = ReasonFor(z.body.authorized)
<1> DEFINE F == AuditFails(m, c, v, a, z)
<1>1. \A code \in DOMAIN F : ~F[code]
  BY DEF AuditValid, NoneFails
<1>2. /\ ~F.candidate_hash_invalid /\ ~F.verification_hash_invalid
      /\ ~F.approval_hash_invalid /\ ~F.authorization_hash_invalid
      /\ ~F.manifest_hash_invalid
  BY <1>1 DEF AuditFails
<1>3. /\ ~F.candidate_binding_mismatch /\ ~F.verification_binding_mismatch
      /\ ~F.approval_binding_mismatch /\ ~F.authorization_binding_mismatch
  BY <1>1 DEF AuditFails
<1>4. /\ ~F.verification_candidate_mismatch /\ ~F.approval_candidate_mismatch
      /\ ~F.authorization_candidate_mismatch
  BY <1>1 DEF AuditFails
<1>5. /\ ~F.approval_verification_mismatch /\ ~F.authorization_approval_mismatch
      /\ ~F.authorization_scope_mismatch /\ ~F.authorization_reason_mismatch
  BY <1>1 DEF AuditFails
<1>6. /\ HashValid(c) /\ HashValid(v) /\ HashValid(a) /\ HashValid(z) /\ HashValid(m)
  BY <1>2 DEF AuditFails
<1>7. /\ m.body.candidateHash = c.hash /\ m.body.verificationHash = v.hash
      /\ m.body.approvalHash = a.hash /\ m.body.authorizationHash = z.hash
  BY <1>3 DEF AuditFails
<1>8. Binds(v, c) /\ Binds(a, c) /\ Binds(z, c)
  BY <1>4 DEF AuditFails
<1>9. /\ a.body.verificationHash = v.hash
      /\ z.body.approvalId = a.body.id
      /\ z.body.authorized => /\ z.body.purpose = c.body.ctx.purpose
                              /\ z.body.audience = c.body.ctx.audience
      /\ z.body.reason = ReasonFor(z.body.authorized)
  BY <1>5 DEF AuditFails
<1> QED BY <1>6, <1>7, <1>8, <1>9

(* A packet that loads replays: each record is what its function makes of  *)
(* the packet's own contents.                                              *)
LEMMA LoadedReplays ==
    ASSUME NEW p, Loads(p)
    PROVE  Replays(p)
<1> DEFINE b == p.body.bundle
           c == p.body.candidate
           v == p.body.verification
           a == p.body.approval
           z == p.body.authorization
           m == p.body.manifest
           exact == AuthorizeExactUse(c, a, c.body.ctx.purpose, c.body.ctx.audience,
                                      p.body.output)
<1>1. AuditValid(m, c, v, a, z)
  BY DEF Loads, PacketValid, PacketAuditFails, AuditValid
<1>2. /\ HashValid(c) /\ HashValid(v) /\ HashValid(a) /\ HashValid(z) /\ HashValid(m)
      /\ m.body.candidateHash = c.hash /\ m.body.verificationHash = v.hash
      /\ m.body.approvalHash = a.hash /\ m.body.authorizationHash = z.hash
      /\ Binds(v, c) /\ Binds(a, c) /\ Binds(z, c)
      /\ a.body.verificationHash = v.hash
      /\ z.body.approvalId = a.body.id
      /\ z.body.authorized => /\ z.body.purpose = c.body.ctx.purpose
                              /\ z.body.audience = c.body.ctx.audience
      /\ z.body.reason = ReasonFor(z.body.authorized)
  BY <1>1, AuditedChain
<1>3. BundleValid(b)
  BY DEF Loads
<1>4. c.body.bundleHash = b.hash /\ c.body.evidence \in b.body.records
  <2> DEFINE E == EvidenceFails(p)
  <2>1. \A code \in DOMAIN E : ~E[code]
    BY DEF Loads, PacketValid, NoneFails
  <2>2. /\ ~E.candidate_bundle_binding_mismatch /\ ~E.candidate_evidence_missing
        /\ ~E.candidate_evidence_substitution
    BY <2>1 DEF EvidenceFails
  <2>3. /\ c.body.bundleHash = b.hash
        /\ Resolves(b, c.body.evidence.id)
        /\ Require(b, c.body.evidence.id) = c.body.evidence
    BY <2>2 DEF EvidenceFails
  <2>4. Require(b, c.body.evidence.id) \in b.body.records
    BY <2>3 DEF Resolves, Require
  <2> QED BY <2>3, <2>4
<1>5. /\ p.body.output = ApprovedOutput(c)
      /\ Digest(p.body.output) = z.body.outputHash
      /\ z.body.authorized \in BOOLEAN /\ z.body.authorized
      /\ v.body.findings = Verify(c, b).body.findings
      /\ v.body.status = Verify(c, b).body.status
      /\ v.body.status = "pass"
      /\ a.body.decision = "approved"
  <2> DEFINE D == DecisionFails(p)
  <2>1. \A code \in DOMAIN D : ~D[code]
    BY DEF Loads, PacketValid, NoneFails
  <2>2. /\ ~D.authorized_output_candidate_mismatch /\ ~D.authorized_output_hash_mismatch
        /\ ~D.authorization_flag_type_invalid /\ ~D.verification_findings_mismatch
        /\ ~D.verification_not_passing /\ ~D.approval_not_approved
        /\ ~D.exact_use_not_authorized
    BY <2>1 DEF DecisionFails
  <2> QED BY <2>2 DEF DecisionFails, FindingsRecomputed
<1>6. /\ DOMAIN v.body = RecordFields["verification"]
      /\ DOMAIN a.body = RecordFields["approval"]
      /\ DOMAIN z.body = RecordFields["authorization"]
      /\ DOMAIN m.body = RecordFields["manifest"]
  BY DEF Loads, ExactFields, RecordFields
<1>7. Agrees(v, Verify(c, b))
  BY <1>2, <1>5, <1>6 DEF Agrees, Verify, Sealed, Binds, RecordFields
<1>8. Agrees(a, RecordApproval(c, v, a.body.approver, "approved", a.body.rationale))
  BY <1>2, <1>5, <1>6 DEF Agrees, RecordApproval, Sealed, Binds, RecordFields
<1>9. Agrees(z, exact)
  <2>1. exact.body.authorized = TRUE /\ exact.body.reason = ReasonFor(TRUE)
    BY <1>5 DEF AuthorizeExactUse, Sealed
  <2>2. z.body.authorized = TRUE /\ z.body.reason = ReasonFor(TRUE)
    BY <1>2, <1>5
  <2>3. DOMAIN exact.body = RecordFields["authorization"]
    BY DEF AuthorizeExactUse, Sealed, RecordFields
  <2>4. /\ z.body.candidateId = exact.body.candidateId
        /\ z.body.candidateHash = exact.body.candidateHash
        /\ z.body.approvalId = exact.body.approvalId
    BY <1>2 DEF AuthorizeExactUse, Sealed, Binds
  <2>5. /\ z.body.purpose = exact.body.purpose
        /\ z.body.audience = exact.body.audience
        /\ z.body.outputHash = exact.body.outputHash
    BY <1>2, <1>5 DEF AuthorizeExactUse, Sealed
  <2>6. DOMAIN exact.body \ {"id", "at"} =
           {"candidateId", "candidateHash", "approvalId", "purpose", "audience",
            "outputHash", "authorized", "reason"}
    BY <2>3 DEF RecordFields
  <2>7. DOMAIN z.body = DOMAIN exact.body
    BY <1>6, <2>3
  <2> HIDE DEF exact
  <2>8. \A field \in DOMAIN exact.body \ {"id", "at"} : z.body[field] = exact.body[field]
    BY <2>1, <2>2, <2>4, <2>5, <2>6
  <2> QED BY <2>7, <2>8 DEF Agrees
<1>10. Agrees(m, BuildAuditManifest(c, v, a, z))
  BY <1>2, <1>6 DEF Agrees, BuildAuditManifest, Sealed, RecordFields
<1> QED BY <1>2, <1>3, <1>4, <1>5, <1>7, <1>8, <1>9, <1>10 DEF Replays

-----------------------------------------------------------------------------
Receives ==
    \/ ReceiveBare
    \/ \E trust \in TrustBundles, now \in Times : ReceiveSigned(trust, now)
    \/ LoadVerified
Signs == SendSigned \/ SendCopy
Packs == \E b \in Available, disclosure \in Disclosures : Pack(b, disclosure)
AltersInTransit ==
    \E alteration \in Alterations, resealed \in BOOLEAN : AlterInTransit(alteration, resealed)
AltersRecord ==
    \E alteration \in Alterations, resealed \in BOOLEAN : AlterRecord(alteration, resealed)
Calls ==
    \/ \E ctx \in Contexts, draft \in Drafts, b \in Available : CompileCase(ctx, draft, b)
    \/ \E b \in Available : VerifyCase(b)
    \/ \E who \in People, decision \in Decisions, rationale \in Rationales :
          ApproveCase(who, decision, rationale)
    \/ \E use \in Uses : AuthorizeCase(use)
    \/ AuditCase
    \/ \E ctx \in Contexts, draft \in Drafts, b \in Available,
          who \in People : RunPipeline(ctx, draft, b, who)

(* The actions by what they write. *)
LEMMA Writers ==
    ASSUME [Next]_vars
    PROVE  /\ UNCHANGED origin
           /\ UNCHANGED evidence \/ TakeEvidence
           /\ UNCHANGED adapterVars \/ RunAdapter \/ TakeEvidence
           /\ UNCHANGED case \/ Calls \/ AltersRecord
           /\ UNCHANGED edits \/ AltersRecord \/ AltersInTransit \/ SendCopy
           /\ UNCHANGED packet \/ Packs
           /\ UNCHANGED wire \/ SendBare \/ Signs \/ AltersInTransit
           /\ UNCHANGED signed \/ Signs
           /\ UNCHANGED receipt \/ Receives
<1>1. CASE RunAdapter
  BY <1>1 DEF RunAdapter, pathVars
<1>2. CASE TakeEvidence
  BY <1>2 DEF TakeEvidence
<1>3. CASE Calls
  <2>1. ASSUME \A newCase : ~Call(newCase)
        PROVE  FALSE
    <3>1. \A ctx, draft, b : ~CompileCase(ctx, draft, b)
      BY <2>1 DEF CompileCase, Keep
    <3>2. \A b : ~VerifyCase(b)
      BY <2>1 DEF VerifyCase, Keep
    <3>3. \A who, decision, rationale : ~ApproveCase(who, decision, rationale)
      BY <2>1 DEF ApproveCase, Keep
    <3>4. (\A use : ~AuthorizeCase(use)) /\ ~AuditCase
      BY <2>1 DEF AuthorizeCase, AuditCase, Keep
    <3>5. \A ctx, draft, b, who : ~RunPipeline(ctx, draft, b, who)
      BY <2>1 DEF RunPipeline
    <3> QED BY <1>3, <3>1, <3>2, <3>3, <3>4, <3>5 DEF Calls
  <2> QED BY <1>3, <2>1 DEF Call
<1>4. CASE AltersRecord
  BY <1>4 DEF AltersRecord, AlterRecord
<1>5. CASE Packs
  BY <1>5 DEF Packs, Pack
<1>6. CASE SendBare
  BY <1>6 DEF SendBare
<1>7. CASE Signs
  BY <1>7 DEF Signs, SendSigned, SendCopy, SignAndSend
<1>8. CASE AltersInTransit
  BY <1>8 DEF AltersInTransit, AlterInTransit
<1>9. CASE Receives
  BY <1>9 DEF Receives, ReceiveBare, ReceiveSigned, LoadVerified, Receipt
<1>10. CASE UNCHANGED vars
  BY <1>10 DEF vars, pathVars
<1> QED
  BY <1>1, <1>2, <1>3, <1>4, <1>5, <1>6, <1>7, <1>8, <1>9, <1>10
  DEF Next, Calls, AltersRecord, Packs, AltersInTransit, Receives, Signs

-----------------------------------------------------------------------------
(* What load_assurance_packet let through loads. *)
ReceiptLoaded ==
    (receipt # None /\ receipt.by = "load" /\ receipt.accepted) => Loads(receipt.packet)

LEMMA ReceiptLoadedStep ==
    ASSUME ReceiptLoaded, [Next]_vars
    PROVE  ReceiptLoaded'
<1>1. CASE UNCHANGED receipt
  BY <1>1 DEF ReceiptLoaded, Loads
<1>2. CASE Receives
  <2>1. PICK received, trust, now, by, accepted :
           /\ Receipt(received, trust, now, by, accepted)
           /\ by = "load" => accepted = Loads(received)
    <3>1. CASE ReceiveBare
      BY <3>1 DEF ReceiveBare
    <3>2. CASE LoadVerified
      BY <3>2 DEF LoadVerified
    <3>3. ASSUME NEW trust, NEW now, ReceiveSigned(trust, now)
          PROVE  Receipt(wire.content.payload.value, trust, now, "verify",
                         VerifyEnvelope(wire.content, trust, now))
      BY <3>3 DEF ReceiveSigned
    <3> QED BY <1>2, <3>1, <3>2, <3>3 DEF Receives
  <2>2. receipt'.packet = received /\ receipt'.by = by /\ receipt'.accepted = accepted
    BY <2>1 DEF Receipt
  <2>3. (Loads(receipt.packet))' <=> Loads(receipt'.packet)
    OBVIOUS
  <2> QED BY <2>1, <2>2, <2>3 DEF ReceiptLoaded
<1> QED BY <1>1, <1>2, Writers

(* A packet that load_assurance_packet accepts replays, for any contexts,  *)
(* drafts, alterations, trust bundles and number of calls: every check of  *)
(* the loader is used to make the chain again (LoadedReplays).             *)
THEOREM AcceptedPacketsReplayInvariant == Spec => []AcceptedPacketsReplay
<1>1. Init => ReceiptLoaded
  BY DEF Init, ReceiptLoaded
<1>2. ReceiptLoaded /\ [Next]_vars => ReceiptLoaded'
  BY ReceiptLoadedStep
<1>3. ReceiptLoaded => AcceptedPacketsReplay
  BY LoadedReplays DEF ReceiptLoaded, AcceptedPacketsReplay
<1> QED BY <1>1, <1>2, <1>3, PTL DEF Spec

-----------------------------------------------------------------------------
(* An envelope made over sent, whose payload may have been replaced on the  *)
(* way: type, key and signature stay those of what was signed.              *)
Envelops(content, sent) ==
    /\ {"payloadType", "payload", "keyid", "sig"} \subseteq DOMAIN content
    /\ content.payloadType = PayloadType
    /\ content.payload = Canonical(content.payload.value)
    /\ content.keyid = SigningKey
    /\ content.sig = Signature(SigningKey, PAE(PayloadType, Canonical(sent)))

(* What is under way is bare, or in an envelope made over something that   *)
(* was signed.                                                             *)
WireFromPacket ==
    wire # None =>
        /\ packet # None
        /\ {"signed", "content"} \subseteq DOMAIN wire
        /\ wire.signed => \E sent \in signed : Envelops(wire.content, sent)

ReceiptFromWire == receipt # None => wire # None /\ receipt.signed = wire.signed

LEMMA PayloadReplaced ==
    ASSUME NEW sent, NEW doc, NEW w, Envelops(w.content, sent),
           {"signed", "content"} \subseteq DOMAIN w
    PROVE  LET new == [w EXCEPT !.content.payload = Canonical(doc)]
           IN  /\ DOMAIN new = DOMAIN w
               /\ new.signed = w.signed
               /\ Envelops(new.content, sent)
               /\ new.content.payload.value = doc
<1> DEFINE content == [w.content EXCEPT !.payload = Canonical(doc)]
           new == [w EXCEPT !.content.payload = Canonical(doc)]
<1>1. Envelops(content, sent) /\ content.payload.value = doc
  BY DEF Envelops, Canonical
<1>2. new = [w EXCEPT !.content = content]
  BY Zenon
<1>3. \A c : LET n == [w EXCEPT !.content = c]
             IN DOMAIN n = DOMAIN w /\ n.signed = w.signed /\ n.content = c
  OBVIOUS
<1> HIDE DEF content, new
<1>4. DOMAIN new = DOMAIN w /\ new.signed = w.signed /\ new.content = content
  BY <1>2, <1>3
<1> QED BY <1>1, <1>4 DEF new

LEMMA WireInductive ==
    ASSUME WireFromPacket, ReceiptFromWire, [Next]_vars
    PROVE  WireFromPacket' /\ ReceiptFromWire'
<1>1. wire # None => UNCHANGED packet
  BY Writers DEF Packs, Pack, WireFromPacket
<1>2. signed \subseteq signed'
  BY Writers DEF Signs, SendSigned, SendCopy, SignAndSend
<1>3. ReceiptFromWire'
  <2>1. CASE UNCHANGED receipt
    <3>1. receipt # None => UNCHANGED wire
      BY Writers DEF ReceiptFromWire, SendBare, Signs, SendSigned, SendCopy, SignAndSend,
                     AltersInTransit, AlterInTransit
    <3> QED BY <2>1, <3>1 DEF ReceiptFromWire
  <2>2. CASE Receives
    <3>1. wire # None /\ UNCHANGED wire /\ receipt'.signed = wire.signed
      <4>1. wire # None
        BY <2>2 DEF Receives, ReceiveBare, ReceiveSigned, LoadVerified, ReceiptFromWire
      <4> QED BY <2>2, <4>1 DEF Receives, ReceiveBare, ReceiveSigned, LoadVerified, Receipt
    <3> QED BY <3>1 DEF ReceiptFromWire
  <2> QED BY <2>1, <2>2, Writers
<1>4. WireFromPacket'
  <2>1. CASE UNCHANGED wire
    BY <2>1, <1>1, <1>2 DEF WireFromPacket, Envelops
  <2>2. CASE SendBare
    BY <2>2 DEF SendBare, WireFromPacket
  <2>3. CASE Signs
    <3>1. packet # None /\ UNCHANGED packet
      BY <2>3 DEF Signs, SendSigned, SendCopy, SignAndSend
    <3>2. PICK doc : SignAndSend(doc)
      BY <2>3 DEF Signs, SendSigned, SendCopy
    <3>3. Envelops(Sign(doc), doc)
      BY DEF Envelops, Sign, Canonical
    <3> QED BY <3>1, <3>2, <3>3 DEF SignAndSend, WireFromPacket, Envelops
  <2>4. CASE AltersInTransit
    <3>1. PICK alteration \in Alterations, resealed \in BOOLEAN :
             AlterInTransit(alteration, resealed)
      BY <2>4 DEF AltersInTransit
    <3> DEFINE doc == Altered(IF wire.signed THEN wire.content.payload.value ELSE wire.content,
                              alteration.body, resealed)
    <3>2. /\ wire # None /\ UNCHANGED <<packet, signed>>
          /\ wire' = IF wire.signed THEN [wire EXCEPT !.content.payload = Canonical(doc)]
                                    ELSE [wire EXCEPT !.content = doc]
      BY <3>1, Zenon DEF AlterInTransit
    <3> HIDE DEF doc
    <3>3. packet # None /\ {"signed", "content"} \subseteq DOMAIN wire
      BY <3>2 DEF WireFromPacket
    <3>4. CASE wire.signed
      <4>1. PICK sent \in signed : Envelops(wire.content, sent)
        BY <3>2, <3>4 DEF WireFromPacket
      <4>2. DOMAIN wire' = DOMAIN wire /\ Envelops(wire'.content, sent)
        BY <4>1, <3>2, <3>3, <3>4, PayloadReplaced
      <4> QED BY <4>1, <4>2, <3>2, <3>3 DEF WireFromPacket, Envelops
    <3>5. CASE ~wire.signed
      <4>1. wire' = [wire EXCEPT !.content = doc]
        BY <3>2, <3>5
      <4>2. DOMAIN wire' = DOMAIN wire /\ wire'.signed = wire.signed
        BY <4>1, <3>3
      <4> QED BY <4>2, <3>2, <3>3, <3>5 DEF WireFromPacket
    <3> QED BY <3>4, <3>5
  <2> QED BY <2>1, <2>2, <2>3, <2>4, Writers
<1> QED BY <1>3, <1>4

(* The check of an envelope made over sent lets only sent pass: the one     *)
(* pinned entry is usable, and a signature holds over one payload.          *)
LEMMA VerifiedIsSent ==
    ASSUME NEW content, NEW sent, NEW trust, NEW now,
           Envelops(content, sent), VerifyEnvelope(content, trust, now)
    PROVE  /\ content.payload.value = sent
           /\ \A i \in DOMAIN trust : trust[i].keyid = SigningKey => Usable(trust[i], now)
<1>1. Pins(content, trust) = {i \in DOMAIN trust : trust[i].keyid = SigningKey}
  BY DEF Pins, Envelops
<1>2. \A i \in Pins(content, trust) : Usable(trust[i], now) /\ SignatureHolds(trust[i], content)
  BY DEF VerifyEnvelope
<1>3. PICK i \in Pins(content, trust) : TRUE
  <2>1. Cardinality(Pins(content, trust)) = 1
    BY DEF VerifyEnvelope
  <2> QED BY <2>1, FS_EmptySet
<1>4. content.payload = Canonical(sent)
  <2>1. content.sig = Signature(trust[i].public, PAE(content.payloadType, content.payload))
    BY <1>2, <1>3 DEF SignatureHolds
  <2>2. content.sig = Signature(SigningKey, PAE(PayloadType, Canonical(sent)))
    BY DEF Envelops
  <2>3. PAE(content.payloadType, content.payload) = PAE(PayloadType, Canonical(sent))
    BY <2>1, <2>2 DEF Signature
  <2> QED BY <2>3 DEF PAE
<1>5. content.payload.value = sent
  BY <1>4 DEF Canonical
<1> QED BY <1>1, <1>2, <1>5

LEMMA SignedIsAuthenticStep ==
    ASSUME WireFromPacket, ReceiptFromWire, SignedIsAuthentic, [Next]_vars
    PROVE  SignedIsAuthentic'
<1>1. signed \subseteq signed'
  BY Writers DEF Signs, SendSigned, SendCopy, SignAndSend
<1>2. CASE UNCHANGED receipt
  BY <1>1, <1>2 DEF SignedIsAuthentic, Usable
<1>3. CASE ReceiveBare
  <2>1. ~receipt'.signed
    BY <1>3 DEF ReceiveBare, Receipt
  <2> QED BY <2>1 DEF SignedIsAuthentic
<1>4. CASE (\E trust \in TrustBundles, now \in Times : ReceiveSigned(trust, now))
  <2>1. PICK trust \in TrustBundles, now \in Times : ReceiveSigned(trust, now)
    BY <1>4
  <2>2. wire # None /\ wire.signed /\ UNCHANGED signed
    BY <2>1 DEF ReceiveSigned, Receipt
  <2>3. /\ receipt'.packet = wire.content.payload.value
        /\ receipt'.trust = trust /\ receipt'.now = now
        /\ receipt'.accepted => VerifyEnvelope(wire.content, trust, now)
    BY <2>1 DEF ReceiveSigned, Receipt
  <2>4. PICK sent \in signed : Envelops(wire.content, sent)
    BY <2>2 DEF WireFromPacket
  <2>5. receipt'.accepted =>
           /\ receipt'.packet \in signed'
           /\ \A i \in DOMAIN trust : trust[i].keyid = SigningKey => Usable(trust[i], now)
    BY <2>2, <2>3, <2>4, VerifiedIsSent
  <2> QED BY <2>3, <2>5 DEF SignedIsAuthentic, Usable
<1>5. CASE LoadVerified
  <2>1. /\ receipt # None /\ receipt.accepted /\ UNCHANGED signed
        /\ receipt'.packet = receipt.packet /\ receipt'.signed = wire.signed
        /\ receipt'.trust = receipt.trust /\ receipt'.now = receipt.now
    BY <1>5 DEF LoadVerified, Receipt
  <2>2. receipt'.signed = receipt.signed
    BY <2>1 DEF ReceiptFromWire
  <2> QED BY <2>1, <2>2 DEF SignedIsAuthentic, Usable
<1> QED BY <1>2, <1>3, <1>4, <1>5, Writers DEF Receives

(* What a receiver accepts from an envelope was signed by the holder of the *)
(* key it pinned, and no unusable entry pins that key.                      *)
THEOREM SignedIsAuthenticInvariant == Spec => []SignedIsAuthentic
<1>1. Init => WireFromPacket /\ ReceiptFromWire /\ SignedIsAuthentic
  BY DEF Init, WireFromPacket, ReceiptFromWire, SignedIsAuthentic
<1>2. WireFromPacket /\ ReceiptFromWire /\ SignedIsAuthentic /\ [Next]_vars
        => WireFromPacket' /\ ReceiptFromWire' /\ SignedIsAuthentic'
  BY WireInductive, SignedIsAuthenticStep
<1> QED BY <1>1, <1>2, PTL DEF Spec

-----------------------------------------------------------------------------
(* The records of a case nobody altered.                                    *)

CaseShape == DOMAIN case = Slots \cup {"auditValid"}

EditsCounted == edits \in Nat

Candidates ==
    {Compile(made[1], made[2], made[3]) : made \in Contexts \X Drafts \X Available}

CandidateMade(c) == c \in Candidates

VerificationMade(v) == \E c \in Candidates, b \in Available : v = Verify(c, b)

ApprovalEarned(a) ==
    \E c \in Candidates, b \in Available, who \in People, decision \in Decisions,
       rationale \in Rationales \cup {DefaultRationale} :
        /\ a = RecordApproval(c, Verify(c, b), who, decision, rationale)
        /\ decision = "approved" => StatusOf(Findings(c, b)) = "pass"

AuthorizationEarned(z) ==
    \E c \in Candidates, b \in Available, who \in People :
        /\ z.body.candidateHash = c.hash
        /\ z.body.approvalId = Digest(<<c.hash, Verify(c, b).hash, who, "approved">>)
        /\ StatusOf(Findings(c, b)) = "pass"

(* Every record was made by its function from records made so: what the    *)
(* guards of the later calls say of the hashes they compare then makes all *)
(* of them records of one candidate.                                       *)
EarnedIn(records) ==
    /\ records.candidate # None => CandidateMade(records.candidate)
    /\ records.verification # None => VerificationMade(records.verification)
    /\ records.approval # None => ApprovalEarned(records.approval)
    /\ records.authorization # None => AuthorizationEarned(records.authorization)

RecordsEarned == edits = 0 => EarnedIn(case)

(* A candidate is told apart by its hash. *)
LEMMA CandidateByHash ==
    ASSUME NEW c, NEW d, CandidateMade(c), CandidateMade(d), c.hash = d.hash
    PROVE  c = d
<1>1. \A e \in Candidates : e = Sealed(e.body)
  <2>1. \A body : Sealed(body).body = body
    BY DEF Sealed
  <2>2. \A e \in Candidates : \E body : e = Sealed(body)
    BY Zenon DEF Candidates, Compile
  <2> QED BY <2>1, <2>2
<1>2. c.hash.sha256 = c.body /\ d.hash.sha256 = d.body
  BY <1>1 DEF CandidateMade, Sealed, Digest
<1>3. c.body = d.body
  BY <1>2
<1> QED BY <1>1, <1>3 DEF CandidateMade

LEMMA AvailableGrows ==
    ASSUME [Next]_vars
    PROVE  Available \subseteq Available'
<1>1. UNCHANGED <<origin, evidence>> \/ (UNCHANGED origin /\ evidence = None)
  BY Writers DEF TakeEvidence
<1> QED BY <1>1 DEF Available

LEMMA Kept ==
    ASSUME CaseShape, NEW slot \in Slots, NEW doc, Keep(slot, doc)
    PROVE  /\ CaseShape'
           /\ case'[slot] = doc
           /\ \A other \in Slots \ {slot} : case'[other] = case[other]
BY DEF CaseShape, Keep, Call, Slots

(* Who changes a case, and into what. *)
LEMMA CaseShapeStep ==
    ASSUME CaseShape, EditsCounted, [Next]_vars
    PROVE  CaseShape' /\ EditsCounted'
<1>1. EditsCounted'
  <2>1. AltersRecord => edits' = edits + 1
    BY Zenon DEF AltersRecord, AlterRecord
  <2>2. AltersInTransit => edits' = edits + 1
    BY Zenon DEF AltersInTransit, AlterInTransit
  <2>3. SendCopy => edits' = edits + 1
    BY Zenon DEF SendCopy
  <2> QED BY <2>1, <2>2, <2>3, Writers DEF EditsCounted
<1>2. CASE UNCHANGED case
  BY <1>1, <1>2 DEF CaseShape
<1>3. CASE AltersRecord
  <2>1. \E slot, doc : case' = [case EXCEPT ![slot] = doc]
    BY <1>3, Zenon DEF AltersRecord, AlterRecord
  <2> QED BY <1>1, <2>1 DEF CaseShape
<1>4. CASE Calls
  <2>1. CASE \E slot \in Slots : \E doc : Keep(slot, doc)
    BY <1>1, <2>1, Kept
  <2>2. CASE AuditCase
    <3>1. \E m, valid : case' = [[case EXCEPT !.manifest = m] EXCEPT !.auditValid = valid]
      BY <2>2, Zenon DEF AuditCase, Call
    <3>2. /\ \A f, m : DOMAIN [f EXCEPT !.manifest = m] = DOMAIN f
          /\ \A f, valid : DOMAIN [f EXCEPT !.auditValid = valid] = DOMAIN f
      OBVIOUS
    <3>3. DOMAIN case' = DOMAIN case
      BY <3>1, <3>2, Zenon
    <3> QED BY <1>1, <3>3 DEF CaseShape
  <2>3. ASSUME NEW ctx, NEW draft, NEW b, NEW who, RunPipeline(ctx, draft, b, who)
        PROVE  CaseShape'
    <3>1. \E c, v, a, z, m, valid :
             case' = [candidate |-> c, verification |-> v, approval |-> a,
                      authorization |-> z, manifest |-> m, auditValid |-> valid]
      BY <2>3, Zenon DEF RunPipeline, Call
    <3> QED BY <3>1 DEF CaseShape, Slots
  <2>4. \A ctx, draft, b : CompileCase(ctx, draft, b) => \E slot \in Slots : \E doc : Keep(slot, doc)
    BY DEF CompileCase, Slots
  <2>5. \A b : VerifyCase(b) => \E slot \in Slots : \E doc : Keep(slot, doc)
    BY DEF VerifyCase, Slots
  <2>6. \A who, decision, rationale :
           ApproveCase(who, decision, rationale) => \E slot \in Slots : \E doc : Keep(slot, doc)
    BY DEF ApproveCase, Slots
  <2>7. \A use : AuthorizeCase(use) => \E slot \in Slots : \E doc : Keep(slot, doc)
    BY DEF AuthorizeCase, Slots
  <2> QED BY <1>1, <1>4, <2>1, <2>2, <2>3, <2>4, <2>5, <2>6, <2>7 DEF Calls
<1> QED BY <1>1, <1>2, <1>3, <1>4, Writers

LEMMA AuditKeeps ==
    ASSUME CaseShape, AuditCase
    PROVE  \A slot \in Slots \ {"manifest"} : case'[slot] = case[slot]
<1>1. \E m, valid : case' = [[case EXCEPT !.manifest = m] EXCEPT !.auditValid = valid]
  BY Zenon DEF AuditCase, Call
<1>2. ASSUME NEW slot \in Slots \ {"manifest"}
      PROVE  case'[slot] = case[slot]
  <2>1. slot # "manifest" /\ slot # "auditValid" /\ slot \in DOMAIN case
    BY DEF Slots, CaseShape
  <2>2. \A f, m : slot \in DOMAIN f => [f EXCEPT !.manifest = m][slot] = f[slot]
    BY <2>1
  <2>3. \A f, valid : slot \in DOMAIN f => [f EXCEPT !.auditValid = valid][slot] = f[slot]
    BY <2>1
  <2>4. \A f, m : DOMAIN [f EXCEPT !.manifest = m] = DOMAIN f
    OBVIOUS
  <2> QED BY <1>1, <2>1, <2>2, <2>3, <2>4, Zenon
<1> QED BY <1>2

(* What the functions of the control chain write into their records. *)
LEMMA VerifyWrites ==
    ASSUME NEW c, NEW b
    PROVE  /\ Verify(c, b).body.candidateHash = c.hash
           /\ Verify(c, b).body.status = StatusOf(Findings(c, b))
BY DEF Verify, Sealed

LEMMA ApprovalWrites ==
    ASSUME NEW c, NEW v, NEW who, NEW decision, NEW rationale,
           NEW a, a = RecordApproval(c, v, who, decision, rationale)
    PROVE  /\ a.body.candidateHash = c.hash
           /\ a.body.decision = decision
           /\ a.body.id = Digest(<<c.hash, v.hash, who, decision>>)
BY DEF RecordApproval, Sealed

LEMMA AuthorizationWrites ==
    ASSUME NEW c, NEW a, NEW purpose, NEW audience, NEW output,
           NEW z, z = AuthorizeExactUse(c, a, purpose, audience, output)
    PROVE  /\ z.body.candidateHash = c.hash
           /\ z.body.approvalId = a.body.id
BY DEF AuthorizeExactUse, Sealed

LEMMA CompileIsMade ==
    ASSUME NEW ctx \in Contexts, NEW draft \in Drafts, NEW b \in Available
    PROVE  CandidateMade(Compile(ctx, draft, b))
<1>1. <<ctx, draft, b>> \in Contexts \X Drafts \X Available
  OBVIOUS
<1> QED BY <1>1 DEF CandidateMade, Candidates

(* An approval of a candidate is earned when the verification it was given  *)
(* with was made of a candidate with the same hash.                         *)
LEMMA ApproveEarns ==
    ASSUME NEW c, NEW v, NEW who \in People, NEW decision \in Decisions,
           NEW rationale \in Rationales \cup {DefaultRationale},
           CandidateMade(c), VerificationMade(v), Approvable(c, v, who, decision)
    PROVE  ApprovalEarned(RecordApproval(c, v, who, decision, rationale))
<1>1. PICK d \in Candidates, b \in Available : v = Verify(d, b)
  BY DEF VerificationMade
<1>2. c = d
  <2>1. v.body.candidateHash = c.hash
    BY DEF Approvable, Binds
  <2>2. v.body.candidateHash = d.hash
    BY <1>1, VerifyWrites
  <2>3. CandidateMade(d)
    BY DEF CandidateMade
  <2> QED BY <2>1, <2>2, <2>3, CandidateByHash
<1>3. decision = "approved" => StatusOf(Findings(c, b)) = "pass"
  BY <1>1, <1>2, VerifyWrites DEF Approvable
<1> QED BY <1>1, <1>2, <1>3 DEF ApprovalEarned

LEMMA AuthorizeEarns ==
    ASSUME NEW c, NEW a, NEW purpose, NEW audience, NEW output,
           CandidateMade(c), ApprovalEarned(a), Authorizable(c, a)
    PROVE  AuthorizationEarned(AuthorizeExactUse(c, a, purpose, audience, output))
<1> DEFINE z == AuthorizeExactUse(c, a, purpose, audience, output)
<1>1. PICK d \in Candidates, b \in Available, who \in People, decision \in Decisions,
           rationale \in Rationales \cup {DefaultRationale} :
              /\ a = RecordApproval(d, Verify(d, b), who, decision, rationale)
              /\ decision = "approved" => StatusOf(Findings(d, b)) = "pass"
  BY DEF ApprovalEarned
<1>2. /\ a.body.candidateHash = d.hash /\ a.body.decision = decision
      /\ a.body.id = Digest(<<d.hash, Verify(d, b).hash, who, decision>>)
  BY <1>1, ApprovalWrites
<1>3. a.body.decision = "approved" /\ a.body.candidateHash = c.hash
  BY DEF Authorizable, Binds
<1>4. c = d
  BY <1>2, <1>3, CandidateByHash DEF CandidateMade
<1>5. z.body.candidateHash = c.hash /\ z.body.approvalId = a.body.id
  BY AuthorizationWrites
<1> HIDE DEF z
<1> QED BY <1>1, <1>2, <1>3, <1>4, <1>5, Zenon DEF AuthorizationEarned, z

LEMMA CallsEarn ==
    ASSUME CaseShape, EarnedIn(case), Calls
    PROVE  EarnedIn(case')
<1>1. ASSUME NEW ctx \in Contexts, NEW draft \in Drafts, NEW b \in Available,
             CompileCase(ctx, draft, b)
      PROVE  EarnedIn(case')
  <2> DEFINE c == Compile(ctx, draft, b)
  <2>1. Keep("candidate", c) /\ CandidateMade(c)
    BY <1>1, CompileIsMade DEF CompileCase
  <2> HIDE DEF c
  <2>2. /\ case'.candidate = c
        /\ \A other \in Slots \ {"candidate"} : case'[other] = case[other]
    BY <2>1, Kept DEF Slots
  <2> QED BY <2>1, <2>2 DEF EarnedIn, Slots
<1>2. ASSUME NEW b \in Available, VerifyCase(b)
      PROVE  EarnedIn(case')
  <2> DEFINE v == Verify(case.candidate, b)
  <2>1. Keep("verification", v) /\ CandidateMade(case.candidate)
    BY <1>2 DEF VerifyCase, Has, EarnedIn
  <2>2. VerificationMade(v)
    BY <2>1 DEF VerificationMade, CandidateMade
  <2> HIDE DEF v
  <2>3. /\ case'.verification = v
        /\ \A other \in Slots \ {"verification"} : case'[other] = case[other]
    BY <2>1, Kept DEF Slots
  <2> QED BY <2>2, <2>3 DEF EarnedIn, Slots
<1>3. ASSUME NEW who \in People, NEW decision \in Decisions, NEW rationale \in Rationales,
             ApproveCase(who, decision, rationale)
      PROVE  EarnedIn(case')
  <2> DEFINE a == RecordApproval(case.candidate, case.verification, who, decision, rationale)
  <2>1. /\ Keep("approval", a)
        /\ case.candidate # None /\ case.verification # None
        /\ Approvable(case.candidate, case.verification, who, decision)
    BY <1>3 DEF ApproveCase, Has
  <2>2. CandidateMade(case.candidate) /\ VerificationMade(case.verification)
    BY <2>1 DEF EarnedIn
  <2>3. ApprovalEarned(a)
    BY <2>1, <2>2, ApproveEarns
  <2> HIDE DEF a
  <2>4. /\ case'.approval = a
        /\ \A other \in Slots \ {"approval"} : case'[other] = case[other]
    BY <2>1, Kept DEF Slots
  <2> QED BY <2>3, <2>4 DEF EarnedIn, Slots
<1>4. ASSUME NEW use, AuthorizeCase(use)
      PROVE  EarnedIn(case')
  <2> DEFINE z == AuthorizeExactUse(case.candidate, case.approval, use.purpose, use.audience,
                                    ApprovedOutput(case.candidate))
  <2>1. /\ Keep("authorization", z)
        /\ case.candidate # None /\ case.approval # None
        /\ Authorizable(case.candidate, case.approval)
    BY <1>4 DEF AuthorizeCase, Has
  <2>2. CandidateMade(case.candidate) /\ ApprovalEarned(case.approval)
    BY <2>1 DEF EarnedIn
  <2>3. AuthorizationEarned(z)
    BY <2>1, <2>2, AuthorizeEarns
  <2> HIDE DEF z
  <2>4. /\ case'.authorization = z
        /\ \A other \in Slots \ {"authorization"} : case'[other] = case[other]
    BY <2>1, Kept DEF Slots
  <2> QED BY <2>3, <2>4 DEF EarnedIn, Slots
<1>5. ASSUME AuditCase
      PROVE  EarnedIn(case')
  BY <1>5, AuditKeeps DEF EarnedIn, Slots
<1>6. ASSUME NEW ctx \in Contexts, NEW draft \in Drafts, NEW b \in Available,
             NEW who \in People, RunPipeline(ctx, draft, b, who)
      PROVE  EarnedIn(case')
  <2> DEFINE c == Compile(ctx, draft, b)
             v == Verify(c, b)
             a == RecordApproval(c, v, who, "approved", DefaultRationale)
             z == AuthorizeExactUse(c, a, ctx.purpose, ctx.audience, ApprovedOutput(c))
  <2>1. /\ Approvable(c, v, who, "approved") /\ Authorizable(c, a)
        /\ \E m, valid : case' = [candidate |-> c, verification |-> v, approval |-> a,
                                  authorization |-> z, manifest |-> m, auditValid |-> valid]
    BY <1>6, Zenon DEF RunPipeline, Call
  <2>2. CandidateMade(c) /\ VerificationMade(v)
    BY CompileIsMade DEF VerificationMade, CandidateMade
  <2> HIDE DEF c, v
  <2>3. ApprovalEarned(a)
    BY <2>1, <2>2, ApproveEarns DEF Decisions
  <2> HIDE DEF a
  <2>4. AuthorizationEarned(z)
    BY <2>1, <2>2, <2>3, AuthorizeEarns
  <2> HIDE DEF z
  <2>5. /\ case'.candidate = c /\ case'.verification = v
        /\ case'.approval = a /\ case'.authorization = z
    BY <2>1
  <2> QED BY <2>2, <2>3, <2>4, <2>5 DEF EarnedIn
<1> QED BY <1>1, <1>2, <1>3, <1>4, <1>5, <1>6 DEF Calls

LEMMA RecordsEarnedStep ==
    ASSUME CaseShape, EditsCounted, RecordsEarned, [Next]_vars
    PROVE  RecordsEarned'
<1> SUFFICES ASSUME edits' = 0
             PROVE  EarnedIn(case)'
  BY DEF RecordsEarned
<1>1. edits = 0 /\ ~AltersRecord
  <2>1. AltersRecord \/ AltersInTransit \/ SendCopy => edits' = edits + 1
    BY Zenon DEF AltersRecord, AlterRecord, AltersInTransit, AlterInTransit, SendCopy
  <2> QED BY <2>1, Writers DEF EditsCounted
<1>2. EarnedIn(case')
  BY <1>1, CallsEarn, Writers DEF RecordsEarned, EarnedIn
<1>3. Available \subseteq Available'
  BY AvailableGrows
<1>4. Candidates \subseteq Candidates'
  BY <1>3 DEF Candidates
<1>5. \A c : CandidateMade(c) => c \in Candidates'
  BY <1>4 DEF CandidateMade
<1>6. \A v : VerificationMade(v) => \E c \in Candidates', b \in Available' : v = Verify(c, b)
  BY <1>3, <1>4 DEF VerificationMade
<1>7. \A a : ApprovalEarned(a) =>
         \E c \in Candidates', b \in Available', who \in People, decision \in Decisions,
            rationale \in Rationales \cup {DefaultRationale} :
               /\ a = RecordApproval(c, Verify(c, b), who, decision, rationale)
               /\ decision = "approved" => StatusOf(Findings(c, b)) = "pass"
  BY <1>3, <1>4, Zenon DEF ApprovalEarned
<1>8. \A z : AuthorizationEarned(z) =>
         \E c \in Candidates', b \in Available', who \in People :
            /\ z.body.candidateHash = c.hash
            /\ z.body.approvalId = Digest(<<c.hash, Verify(c, b).hash, who, "approved">>)
            /\ StatusOf(Findings(c, b)) = "pass"
  BY <1>3, <1>4, Zenon DEF AuthorizationEarned
<1> QED
  BY <1>2, <1>5, <1>6, <1>7, <1>8, Zenon
  DEF EarnedIn, CandidateMade, VerificationMade, ApprovalEarned, AuthorizationEarned

LEMMA EarnedAuthorization ==
    ASSUME RecordsEarned
    PROVE  AuthorizationIsEarned
<1> DEFINE c == case.candidate
           z == case.authorization
<1> SUFFICES ASSUME edits = 0, c # None, z # None, z.body.candidateHash = c.hash
             PROVE  \E who \in People, b \in Available :
                       /\ c.body.bundleHash = b.hash
                       /\ StatusOf(Findings(c, b)) = "pass"
                       /\ z.body.approvalId =
                             Digest(<<c.hash, Verify(c, b).hash, who, "approved">>)
  BY DEF AuthorizationIsEarned, Has
<1>1. CandidateMade(c) /\ AuthorizationEarned(z)
  BY DEF RecordsEarned, EarnedIn
<1> HIDE DEF c, z
<1>2. PICK d \in Candidates, b \in Available, who \in People :
              /\ z.body.candidateHash = d.hash
              /\ z.body.approvalId = Digest(<<d.hash, Verify(d, b).hash, who, "approved">>)
              /\ StatusOf(Findings(d, b)) = "pass"
  BY <1>1 DEF AuthorizationEarned
<1>3. c = d
  BY <1>1, <1>2, CandidateByHash DEF CandidateMade
<1>4. \A findings : StatusOf(findings) = "pass" =>
         \A code \in DOMAIN findings :
            findings[code].severity = "error" => findings[code].passed
  BY DEF StatusOf
<1>5. Findings(c, b).EVIDENCE_BUNDLE_BOUND.passed
  <2>1. "EVIDENCE_BUNDLE_BOUND" \in DOMAIN Findings(c, b)
    BY DEF Findings
  <2>2. Findings(c, b)["EVIDENCE_BUNDLE_BOUND"].severity = "error"
    BY DEF Findings, Finding
  <2> QED BY <1>2, <1>3, <1>4, <2>1, <2>2
<1>6. c.body.bundleHash = b.hash
  BY <1>5 DEF Findings, Finding
<1> QED BY <1>2, <1>3, <1>6

(* An authorization rests on an approval of its own candidate, given on a   *)
(* verification that passed, for any number of rounds of calls.             *)
THEOREM AuthorizationIsEarnedInvariant == Spec => []AuthorizationIsEarned
<1>1. Init => CaseShape /\ EditsCounted /\ RecordsEarned
  BY DEF Init, CaseShape, EditsCounted, RecordsEarned, EarnedIn, EmptyCase, Slots
<1>2. CaseShape /\ EditsCounted /\ RecordsEarned /\ [Next]_vars
        => CaseShape' /\ EditsCounted' /\ RecordsEarned'
  BY CaseShapeStep, RecordsEarnedStep
<1>3. RecordsEarned => AuthorizationIsEarned
  BY EarnedAuthorization
<1> QED BY <1>1, <1>2, <1>3, PTL DEF Spec

-----------------------------------------------------------------------------
(* What is packed, and what arrives.                                        *)

ShapedIn(records) ==
    /\ \A slot \in Slots :
          records[slot] # None => DOMAIN records[slot].body = FieldsOf(slot)
    /\ records.verification # None => StatusMatches(records.verification)

(* Every record has the fields of its class, an altered one too, and no    *)
(* verification has another status than its findings give.                 *)
RecordsShaped == ShapedIn(case)

EvidenceSound == evidence # None => BundleValid(evidence)

PacketLoads == packet # None => Loads(packet)

LEMMA AdapterBundleValid == BundleValid(AdapterBundle)
<1> DEFINE Id == {"evidence_codex_exec", "evidence_codex_telemetry", "evidence_codex_coverage"}
           records == {AdapterRecord("evidence_codex_exec", exec.events),
                       AdapterRecord("evidence_codex_telemetry", tele.events),
                       AdapterRecord("evidence_codex_coverage", Coverage)}
<1>1. AdapterBundle.body.records = records /\ AdapterBundle.body.scope = AdapterScope
  BY DEF AdapterBundle, CreateBundle, Sealed
<1>2. HashValid(AdapterBundle)
  BY DEF AdapterBundle, CreateBundle, Sealed, HashValid
<1>3. \A id, content : AdapterRecord(id, content).id = id
                       /\ AdapterRecord(id, content).scope = AdapterScope
  BY DEF AdapterRecord
<1>4. records # {} /\ \A r \in records : r.scope = AdapterScope
  BY <1>3
<1>5. \A r, s \in records : r.id = s.id => r = s
  BY <1>3
<1> HIDE DEF records
<1> QED BY <1>1, <1>2, <1>4, <1>5 DEF BundleValid

LEMMA EvidenceSoundStep ==
    ASSUME EvidenceSound, [Next]_vars
    PROVE  EvidenceSound'
<1>1. CASE UNCHANGED evidence
  BY <1>1 DEF EvidenceSound, BundleValid, HashValid, Digest
<1>2. CASE TakeEvidence
  <2>1. evidence' = AdapterBundle
    BY <1>2 DEF TakeEvidence
  <2>2. BundleValid(evidence')
    BY <2>1, AdapterBundleValid
  <2> QED BY <2>2 DEF EvidenceSound
<1> QED BY <1>1, <1>2, Writers

LEMMA AvailableSound ==
    ASSUME EvidenceSound, NEW b \in Available
    PROVE  BundleValid(b)
BY BundlesAreConstructed DEF EvidenceSound, Available

(* The functions of the control chain make records with exactly the fields *)
(* of their class.                                                         *)
LEMMA FunctionsShape ==
    /\ \A ctx, draft, b : DOMAIN Compile(ctx, draft, b).body = FieldsOf("candidate")
    /\ \A c, b : DOMAIN Verify(c, b).body = FieldsOf("verification")
                 /\ StatusMatches(Verify(c, b))
    /\ \A c, v, who, decision, rationale :
          DOMAIN RecordApproval(c, v, who, decision, rationale).body = FieldsOf("approval")
    /\ \A c, a, purpose, audience, output :
          DOMAIN AuthorizeExactUse(c, a, purpose, audience, output).body
             = FieldsOf("authorization")
    /\ \A c, v, a, z : DOMAIN BuildAuditManifest(c, v, a, z).body = FieldsOf("manifest")
<1>1. \A ctx, draft, b : DOMAIN Compile(ctx, draft, b).body = FieldsOf("candidate")
  BY DEF Compile, Sealed, FieldsOf, CandidateFields
<1>2. \A c, b : DOMAIN Verify(c, b).body = FieldsOf("verification")
  BY DEF Verify, Sealed, FieldsOf, RecordFields
<1>3. \A c, b : StatusMatches(Verify(c, b))
  BY DEF Verify, Sealed, StatusMatches
<1>4. \A c, v, who, decision, rationale :
         DOMAIN RecordApproval(c, v, who, decision, rationale).body = FieldsOf("approval")
  BY DEF RecordApproval, Sealed, FieldsOf, RecordFields
<1>5. \A c, a, purpose, audience, output :
         DOMAIN AuthorizeExactUse(c, a, purpose, audience, output).body
            = FieldsOf("authorization")
  BY DEF AuthorizeExactUse, Sealed, FieldsOf, RecordFields
<1>6. \A c, v, a, z : DOMAIN BuildAuditManifest(c, v, a, z).body = FieldsOf("manifest")
  BY DEF BuildAuditManifest, Sealed, FieldsOf, RecordFields
<1> QED BY <1>1, <1>2, <1>3, <1>4, <1>5, <1>6

(* A record stays one of its class when one of its slot is put in its place. *)
LEMMA KeptShaped ==
    ASSUME CaseShape, RecordsShaped, NEW slot \in Slots, NEW doc, Keep(slot, doc),
           DOMAIN doc.body = FieldsOf(slot),
           slot = "verification" => StatusMatches(doc)
    PROVE  ShapedIn(case')
<1>1. /\ case'[slot] = doc
      /\ \A other \in Slots \ {slot} : case'[other] = case[other]
  BY Kept
<1> QED BY <1>1 DEF ShapedIn, RecordsShaped, Slots

LEMMA AlteredShaped ==
    ASSUME CaseShape, RecordsShaped, AltersRecord
    PROVE  ShapedIn(case')
<1>1. PICK alteration \in Alterations, resealed \in BOOLEAN : AlterRecord(alteration, resealed)
  BY DEF AltersRecord
<1> DEFINE slot == alteration.slot
           doc == Altered(case[slot], alteration.body, resealed)
<1>2. /\ slot \in Slots /\ case[slot] # None
      /\ Constructible(slot, doc)
      /\ case' = [case EXCEPT ![slot] = doc]
  BY <1>1, Zenon DEF AlterRecord, Has
<1>3. DOMAIN doc.body = DOMAIN alteration.body \cup DOMAIN case[slot].body
  BY DEF Altered, Sealed
<1>4. DOMAIN doc.body = FieldsOf(slot)
  BY <1>2, <1>3, AlterationsKeepFields DEF RecordsShaped, ShapedIn
<1>5. slot = "verification" => StatusMatches(doc)
  BY <1>2 DEF Constructible
<1> HIDE DEF doc
<1>6. /\ case'[slot] = doc
      /\ \A other \in Slots \ {slot} : case'[other] = case[other]
  BY <1>2 DEF CaseShape
<1> QED BY <1>2, <1>4, <1>5, <1>6 DEF ShapedIn, RecordsShaped, Slots

LEMMA CallsShape ==
    ASSUME CaseShape, RecordsShaped, Calls
    PROVE  ShapedIn(case')
<1>1. ASSUME NEW ctx, NEW draft, NEW b, CompileCase(ctx, draft, b)
      PROVE  ShapedIn(case')
  BY <1>1, KeptShaped, FunctionsShape DEF CompileCase, Slots
<1>2. ASSUME NEW b, VerifyCase(b)
      PROVE  ShapedIn(case')
  BY <1>2, KeptShaped, FunctionsShape DEF VerifyCase, Slots
<1>3. ASSUME NEW who, NEW decision, NEW rationale, ApproveCase(who, decision, rationale)
      PROVE  ShapedIn(case')
  BY <1>3, KeptShaped, FunctionsShape DEF ApproveCase, Slots
<1>4. ASSUME NEW use, AuthorizeCase(use)
      PROVE  ShapedIn(case')
  BY <1>4, KeptShaped, FunctionsShape DEF AuthorizeCase, Slots
<1>5. ASSUME AuditCase
      PROVE  ShapedIn(case')
  <2> DEFINE m == BuildAuditManifest(case.candidate, case.verification,
                                     case.approval, case.authorization)
  <2>1. \E valid : case' = [[case EXCEPT !.manifest = m] EXCEPT !.auditValid = valid]
    BY <1>5, Zenon DEF AuditCase, Call
  <2>2. DOMAIN m.body = FieldsOf("manifest")
    BY FunctionsShape
  <2> HIDE DEF m
  <2>3. case'.manifest = m
    <3>1. \A f : "manifest" \in DOMAIN f =>
             /\ [f EXCEPT !.manifest = m].manifest = m
             /\ DOMAIN [f EXCEPT !.manifest = m] = DOMAIN f
      OBVIOUS
    <3>2. \A f, valid : "manifest" \in DOMAIN f =>
             [f EXCEPT !.auditValid = valid].manifest = f.manifest
      OBVIOUS
    <3>3. "manifest" \in DOMAIN case
      BY DEF CaseShape, Slots
    <3> QED BY <2>1, <3>1, <3>2, <3>3, Zenon
  <2>4. \A other \in Slots \ {"manifest"} : case'[other] = case[other]
    BY <1>5, AuditKeeps
  <2> QED BY <2>2, <2>3, <2>4 DEF ShapedIn, RecordsShaped, Slots
<1>6. ASSUME NEW ctx, NEW draft, NEW b, NEW who, RunPipeline(ctx, draft, b, who)
      PROVE  ShapedIn(case')
  <2> DEFINE c == Compile(ctx, draft, b)
             v == Verify(c, b)
             a == RecordApproval(c, v, who, "approved", DefaultRationale)
             z == AuthorizeExactUse(c, a, ctx.purpose, ctx.audience, ApprovedOutput(c))
             m == BuildAuditManifest(c, v, a, z)
  <2>1. \E valid : case' = [candidate |-> c, verification |-> v, approval |-> a,
                            authorization |-> z, manifest |-> m, auditValid |-> valid]
    BY <1>6, Zenon DEF RunPipeline, Call
  <2>2. /\ DOMAIN c.body = FieldsOf("candidate")
        /\ DOMAIN v.body = FieldsOf("verification") /\ StatusMatches(v)
        /\ DOMAIN a.body = FieldsOf("approval")
        /\ DOMAIN z.body = FieldsOf("authorization")
        /\ DOMAIN m.body = FieldsOf("manifest")
    BY FunctionsShape
  <2> HIDE DEF c, v, a, z, m
  <2>3. /\ case'.candidate = c /\ case'.verification = v /\ case'.approval = a
        /\ case'.authorization = z /\ case'.manifest = m
    BY <2>1
  <2> QED BY <2>2, <2>3 DEF ShapedIn, Slots
<1> QED BY <1>1, <1>2, <1>3, <1>4, <1>5, <1>6 DEF Calls

LEMMA RecordsShapedStep ==
    ASSUME CaseShape, RecordsShaped, [Next]_vars
    PROVE  RecordsShaped'
<1>1. ShapedIn(case')
  BY CallsShape, AlteredShaped, Writers DEF RecordsShaped, ShapedIn
<1> QED BY <1>1 DEF RecordsShaped, ShapedIn, StatusMatches, StatusOf

(* What build_assurance_packet lets out loads. *)
LEMMA PackedLoads ==
    ASSUME RecordsShaped, NEW b, BundleValid(b), Has(Slots),
           NEW limitations, NEW profiles,
           SelfCheck(BuildPacket(b, case, limitations, profiles))
    PROVE  Loads(BuildPacket(b, case, limitations, profiles))
<1> DEFINE p == BuildPacket(b, case, limitations, profiles)
<1>1. /\ DOMAIN p.body = PacketFields
      /\ p.body.bundle = b
      /\ p.body.output = ApprovedOutput(case.candidate)
      /\ p.body.candidate = case.candidate
      /\ p.body.verification = case.verification
      /\ p.body.approval = case.approval
      /\ p.body.authorization = case.authorization
      /\ p.body.manifest = case.manifest
  BY DEF BuildPacket, Sealed, PacketFields
<1>2. DOMAIN ApprovedOutput(case.candidate) = {"statement", "limitations"}
  BY DEF ApprovedOutput
<1>3. \A slot \in Slots : case[slot] # None
  BY DEF Has
<1>4. /\ DOMAIN case.candidate.body = CandidateFields
      /\ DOMAIN case.verification.body = RecordFields["verification"]
      /\ DOMAIN case.approval.body = RecordFields["approval"]
      /\ DOMAIN case.authorization.body = RecordFields["authorization"]
      /\ DOMAIN case.manifest.body = RecordFields["manifest"]
      /\ StatusMatches(case.verification)
  BY <1>3 DEF RecordsShaped, ShapedIn, Slots, FieldsOf
<1>5. DOMAIN RecordFields = {"verification", "approval", "authorization", "manifest"}
  BY DEF RecordFields
<1>6. PacketValid(p)
  BY DEF SelfCheck
<1>7. DOMAIN p = {"body", "hash"}
  BY DEF BuildPacket, Sealed
<1> HIDE DEF p
<1>8. ExactFields(p)
  BY <1>1, <1>2, <1>4, <1>5, <1>7 DEF ExactFields
<1> QED BY <1>1, <1>4, <1>6, <1>8 DEF Loads, p

LEMMA PacketLoadsStep ==
    ASSUME RecordsShaped, EvidenceSound, PacketLoads, [Next]_vars
    PROVE  PacketLoads'
<1>1. CASE UNCHANGED packet
  BY <1>1 DEF PacketLoads
<1>2. CASE Packs
  <2>1. PICK b \in Available, disclosure \in Disclosures : Pack(b, disclosure)
    BY <1>2 DEF Packs
  <2> DEFINE built == BuildPacket(b, case, disclosure.limitations, disclosure.profiles)
  <2>2. Has(Slots) /\ SelfCheck(built) /\ packet' = built
    BY <2>1, Zenon DEF Pack
  <2>3. Loads(built)
    BY <2>2, AvailableSound, PackedLoads
  <2> HIDE DEF built
  <2>4. Loads(packet')
    BY <2>2, <2>3
  <2> QED BY <2>4 DEF PacketLoads
<1> QED BY <1>1, <1>2, Writers

(* The trust bundle pins the signing key once, in a usable entry. *)
PinsOnce(trust, now) ==
    \E i \in DOMAIN trust :
        /\ trust[i].keyid = SigningKey /\ trust[i].public = SigningKey
        /\ Usable(trust[i], now)
        /\ \A j \in DOMAIN trust : trust[j].keyid = SigningKey => i = j

(* An unaltered envelope of a sealed packet passes under such a bundle. *)
LEMMA UnalteredVerifies ==
    ASSUME NEW content, NEW trust, NEW now, NEW sent,
           Envelops(content, sent), content.payload.value = sent,
           HashValid(sent), PinsOnce(trust, now)
    PROVE  VerifyEnvelope(content, trust, now)
<1>1. PICK i \in DOMAIN trust :
         /\ trust[i].keyid = SigningKey /\ trust[i].public = SigningKey
         /\ Usable(trust[i], now)
         /\ \A j \in DOMAIN trust : trust[j].keyid = SigningKey => i = j
  BY DEF PinsOnce
<1>2. Pins(content, trust) = {i}
  BY <1>1 DEF Pins, Envelops
<1>3. Cardinality(Pins(content, trust)) = 1
  BY <1>2, FS_Singleton
<1>4. SignatureHolds(trust[i], content)
  BY <1>1 DEF SignatureHolds, Envelops
<1>5. content.payload.spelling = "canonical"
  BY DEF Envelops, Canonical
<1> QED BY <1>1, <1>2, <1>3, <1>4, <1>5 DEF VerifyEnvelope, Envelops

LEMMA PackedIsAcceptedStep ==
    ASSUME WireFromPacket, ReceiptFromWire, PacketLoads, PackedIsAccepted, [Next]_vars
    PROVE  PackedIsAccepted'
<1> DEFINE Accepts(r, p, s) ==
               (r # None /\ r.packet = p /\ (r.signed => s = {p})) =>
                   ((~r.signed \/ PinsOnce(r.trust, r.now)) => r.accepted)
<1>1. PackedIsAccepted' <=> Accepts(receipt', packet', signed')
  BY Zenon DEF PackedIsAccepted, PinsOnce, Usable
<1>2. PackedIsAccepted <=> Accepts(receipt, packet, signed)
  BY Zenon DEF PackedIsAccepted, PinsOnce
<1>3. CASE UNCHANGED receipt
  <2>1. receipt # None => UNCHANGED <<packet, signed>>
    BY Writers DEF ReceiptFromWire, WireFromPacket, Packs, Pack,
                   Signs, SendSigned, SendCopy, SignAndSend
  <2> QED BY <1>1, <1>2, <1>3, <2>1
<1>4. CASE ReceiveBare
  <2>1. /\ wire # None /\ UNCHANGED packet
        /\ receipt'.packet = wire.content
        /\ receipt'.accepted = Loads(wire.content)
    BY <1>4, Zenon DEF ReceiveBare, Receipt
  <2>2. packet # None
    BY <2>1 DEF WireFromPacket
  <2>3. receipt'.packet = packet' => receipt'.accepted
    BY <2>1, <2>2 DEF PacketLoads
  <2> QED BY <1>1, <2>3
<1>5. ASSUME NEW trust, NEW now, ReceiveSigned(trust, now)
      PROVE  PackedIsAccepted'
  <2> DEFINE content == wire.content
  <2>1. /\ wire # None /\ wire.signed /\ UNCHANGED <<packet, signed>>
        /\ receipt'.packet = content.payload.value
        /\ receipt'.trust = trust /\ receipt'.now = now /\ receipt'.signed = wire.signed
        /\ receipt'.accepted = VerifyEnvelope(content, trust, now)
    BY <1>5 DEF ReceiveSigned, Receipt
  <2>2. PICK sent \in signed : Envelops(content, sent)
    BY <2>1 DEF WireFromPacket
  <2>3. Loads(packet)
    BY <2>1 DEF WireFromPacket, PacketLoads
  <2>4. HashValid(packet)
    <3>1. NoneFails(EnvelopeFails(packet))
      BY <2>3 DEF Loads, PacketValid
    <3> QED BY <3>1 DEF NoneFails, EnvelopeFails
  <2> HIDE DEF content
  <2>5. signed = {packet} => sent = packet
    BY <2>2
  <2>6. (signed = {packet} /\ content.payload.value = packet /\ PinsOnce(trust, now))
           => VerifyEnvelope(content, trust, now)
    BY <2>2, <2>4, <2>5, UnalteredVerifies
  <2> QED BY <1>1, <2>1, <2>6
<1>6. CASE LoadVerified
  <2>1. /\ receipt # None /\ UNCHANGED <<packet, wire>>
        /\ receipt'.packet = receipt.packet
        /\ receipt'.accepted = Loads(receipt.packet)
    BY <1>6, Zenon DEF LoadVerified, Receipt
  <2>2. packet # None
    BY <2>1 DEF WireFromPacket, ReceiptFromWire
  <2>3. receipt'.packet = packet' => receipt'.accepted
    BY <2>1, <2>2 DEF PacketLoads
  <2> QED BY <1>1, <2>3
<1> HIDE DEF Accepts
<1> QED BY <1>3, <1>4, <1>5, <1>6, Writers DEF Receives

(* A packet that was built is never refused unaltered, whatever records of  *)
(* whatever rounds it was built from.                                      *)
THEOREM PackedIsAcceptedInvariant == Spec => []PackedIsAccepted
<1> DEFINE Inv == /\ CaseShape /\ EditsCounted /\ RecordsShaped /\ EvidenceSound
                  /\ PacketLoads /\ WireFromPacket /\ ReceiptFromWire /\ PackedIsAccepted
<1>1. Init => Inv
  <2>1. Init => CaseShape /\ EditsCounted /\ RecordsShaped
    BY DEF Init, CaseShape, EditsCounted, RecordsShaped, ShapedIn, EmptyCase, Slots
  <2>2. Init => EvidenceSound /\ PacketLoads /\ WireFromPacket /\ ReceiptFromWire
                  /\ PackedIsAccepted
    BY DEF Init, EvidenceSound, PacketLoads, WireFromPacket, ReceiptFromWire, PackedIsAccepted
  <2> QED BY <2>1, <2>2
<1>2. Inv /\ [Next]_vars => Inv'
  <2> SUFFICES ASSUME Inv, [Next]_vars
               PROVE  Inv'
    OBVIOUS
  <2>1. CaseShape' /\ EditsCounted' /\ RecordsShaped' /\ EvidenceSound'
    BY CaseShapeStep, RecordsShapedStep, EvidenceSoundStep
  <2>2. PacketLoads' /\ WireFromPacket' /\ ReceiptFromWire' /\ PackedIsAccepted'
    BY PacketLoadsStep, WireInductive, PackedIsAcceptedStep
  <2> QED BY <2>1, <2>2
<1> QED BY <1>1, <1>2, PTL DEF Spec

-----------------------------------------------------------------------------
(* The adapter: its facts about a stream are the facts of all its events,   *)
(* in whatever order they came (CodexAdapter).                              *)

ExecFields == {"events", "ignored", "threads", "items", "activity", "tools", "skills", "profile"}
TelemetryFields == {"events", "ignored", "states", "sends", "receives", "readable", "tasks"}

ExecNormalized == {NormalizedExec(e) : e \in ExecEvents}
TelemetryNormalized == {NormalizedTelemetry(e) : e \in TelemetryEvents}

SameExec(e, f) ==
    /\ e.type = f.type /\ e.id = f.id
    /\ e.type \in {"thread.started", "item.started", "item.completed"}

SameLifecycle(e, f) ==
    /\ e.name = CommunicationEvent /\ f.name = CommunicationEvent
    /\ e.id = f.id /\ e.state = f.state

(* What was counted: every event of the stream, and none of them secret. *)
ExecCounted ==
    /\ DOMAIN exec = ExecFields
    /\ execStream \in Seq(ExecEvents)
    /\ exec.events \in Seq(ExecNormalized)
    /\ exec.ignored \in Nat
    /\ Len(exec.events) + exec.ignored = Len(execStream)
    /\ \A e \in Elements(execStream) : ~e.secret

(* What is exposed: each flag is set by some event of the stream. *)
ExecExposed ==
    LET events == Elements(execStream)
    IN  /\ (exec.events # << >>) = (\E e \in events : e.type \in ExecTypes)
        /\ exec.activity = (\E e \in events : e.type \in ItemEvents /\ e.kind \in ActivityKinds)
        /\ exec.tools = (\E e \in events : e.type \in ConfigEvents /\ e.tools = "names")
        /\ exec.skills = (\E e \in events : e.type \in ConfigEvents /\ e.skills = "names")
        /\ exec.profile = (\E e \in events : ReadsProfile(e))

(* What was seen: the identifiers that may not come again. *)
ExecSeen ==
    /\ \A e \in Elements(execStream) : e.type = "thread.started" => e.id \in exec.threads
    /\ \A e \in Elements(execStream) :
          e.type \in {"item.started", "item.completed"} => <<e.type, e.id>> \in exec.items
    /\ \A i, j \in DOMAIN execStream : SameExec(execStream[i], execStream[j]) => i = j

TelemetryCounted ==
    /\ DOMAIN tele = TelemetryFields
    /\ teleStream \in Seq(TelemetryEvents)
    /\ tele.events \in Seq(TelemetryNormalized)
    /\ tele.ignored \in Nat
    /\ Len(tele.events) + tele.ignored = Len(teleStream)
    /\ \A e \in Elements(teleStream) : ~e.secret

TelemetrySeen ==
    /\ \A e \in Communications : <<e.id, e.state>> \in tele.states
    /\ tele.sends = {e.id : e \in {c \in Communications : c.state = "send"}}
    /\ tele.receives = {e.id : e \in {c \in Communications : c.state = "receive"}}
    /\ \A i, j \in DOMAIN teleStream : SameLifecycle(teleStream[i], teleStream[j]) => i = j

(* Counting the tasks and the readable ones tells whether there is a task, *)
(* whether one is readable and whether all are.                            *)
TasksCounted ==
    LET tasks == {e \in Communications : IsTask(e)}
        Readable(e) == e.format = "plaintext_audit"
    IN  /\ tele.tasks \in Nat /\ tele.readable \in Nat /\ tele.readable <= tele.tasks
        /\ (tele.tasks > 0) <=> (tasks # {})
        /\ (tele.readable > 0) <=> (\E e \in tasks : Readable(e))
        /\ (tele.readable = tele.tasks) <=> (\A e \in tasks : Readable(e))

FactsFaithful ==
    adapter \in {"exec", "telemetry", "built"} =>
        /\ ExecCounted /\ ExecExposed /\ ExecSeen
        /\ TelemetryCounted /\ TelemetrySeen /\ TasksCounted

(* Evidence is built of a stream without orphan receives. *)
BuiltSound == adapter = "built" => tele.receives \subseteq tele.sends

LEMMA AppendElements ==
    ASSUME NEW S, NEW seq \in Seq(S), NEW e \in S
    PROVE  /\ Append(seq, e) \in Seq(S)
           /\ Append(seq, e) # << >>
           /\ Len(Append(seq, e)) = Len(seq) + 1
           /\ DOMAIN Append(seq, e) = DOMAIN seq \cup {Len(seq) + 1}
           /\ Len(seq) + 1 \notin DOMAIN seq
           /\ \A i \in DOMAIN seq : Append(seq, e)[i] = seq[i]
           /\ Append(seq, e)[Len(seq) + 1] = e
           /\ Elements(Append(seq, e)) = Elements(seq) \cup {e}
<1> DEFINE new == Append(seq, e)
<1>1. /\ new \in Seq(S) /\ new # << >> /\ Len(new) = Len(seq) + 1
      /\ DOMAIN new = 1..(Len(seq) + 1) /\ DOMAIN seq = 1..Len(seq) /\ Len(seq) \in Nat
  OBVIOUS
<1>2. (\A i \in DOMAIN seq : new[i] = seq[i]) /\ new[Len(seq) + 1] = e
  OBVIOUS
<1>3. DOMAIN new = DOMAIN seq \cup {Len(seq) + 1} /\ Len(seq) + 1 \notin DOMAIN seq
  BY <1>1
<1> HIDE DEF new
<1>4. Elements(new) = Elements(seq) \cup {e}
  BY <1>2, <1>3 DEF Elements
<1> QED BY <1>1, <1>2, <1>3, <1>4 DEF new

LEMMA TakeExecFields ==
    ASSUME DOMAIN exec = ExecFields, NEW e
    PROVE  LET new == TakeExec(e)
           IN  /\ DOMAIN new = ExecFields
               /\ new.events = Append(exec.events, NormalizedExec(e))
               /\ new.ignored = exec.ignored
               /\ new.threads = IF e.type = "thread.started"
                                THEN exec.threads \cup {e.id} ELSE exec.threads
               /\ new.items = IF e.type \in {"item.started", "item.completed"}
                              THEN exec.items \cup {<<e.type, e.id>>} ELSE exec.items
               /\ new.activity = (exec.activity
                                    \/ (e.type \in ItemEvents /\ e.kind \in ActivityKinds))
               /\ new.tools = (exec.tools \/ (e.type \in ConfigEvents /\ e.tools = "names"))
               /\ new.skills = (exec.skills \/ (e.type \in ConfigEvents /\ e.skills = "names"))
               /\ new.profile = (exec.profile \/ ReadsProfile(e))
BY DEF TakeExec, ExecFields

LEMMA TakeTelemetryFields ==
    ASSUME DOMAIN tele = TelemetryFields, NEW e
    PROVE  LET new == TakeTelemetry(e)
           IN  /\ DOMAIN new = TelemetryFields
               /\ new.events = Append(tele.events, NormalizedTelemetry(e))
               /\ new.ignored = tele.ignored
               /\ new.states = tele.states \cup {<<e.id, e.state>>}
               /\ new.sends = IF e.state = "send" THEN tele.sends \cup {e.id} ELSE tele.sends
               /\ new.receives = IF e.state = "receive"
                                 THEN tele.receives \cup {e.id} ELSE tele.receives
               /\ new.tasks = IF IsTask(e) THEN tele.tasks + 1 ELSE tele.tasks
               /\ new.readable = IF IsTask(e) /\ e.format = "plaintext_audit"
                                 THEN tele.readable + 1 ELSE tele.readable
BY DEF TakeTelemetry, TelemetryFields

LEMMA ExecTypesCover ==
    /\ ItemEvents \subseteq ExecTypes /\ ConfigEvents \subseteq ExecTypes
    /\ {"thread.started", "item.started", "item.completed"} \subseteq ExecTypes
BY DEF ExecTypes, ItemEvents, ConfigEvents

LEMMA ExecIgnored ==
    ASSUME ExecCounted, ExecExposed, ExecSeen, NEW e \in ExecEvents,
           execStream' = Append(execStream, e), ~e.secret, e.type \notin ExecTypes,
           exec' = [exec EXCEPT !.ignored = @ + 1]
    PROVE  ExecCounted' /\ ExecExposed' /\ ExecSeen'
<1>1. /\ execStream' \in Seq(ExecEvents) /\ Len(execStream') = Len(execStream) + 1
      /\ DOMAIN execStream' = DOMAIN execStream \cup {Len(execStream) + 1}
      /\ Len(execStream) + 1 \notin DOMAIN execStream
      /\ \A i \in DOMAIN execStream : execStream'[i] = execStream[i]
      /\ execStream'[Len(execStream) + 1] = e
      /\ Elements(execStream') = Elements(execStream) \cup {e}
  BY AppendElements DEF ExecCounted
<1>2. /\ DOMAIN exec' = ExecFields /\ exec'.ignored = exec.ignored + 1
      /\ exec'.events = exec.events /\ exec'.threads = exec.threads
      /\ exec'.items = exec.items /\ exec'.activity = exec.activity
      /\ exec'.tools = exec.tools /\ exec'.skills = exec.skills
      /\ exec'.profile = exec.profile
  BY DEF ExecCounted, ExecFields
<1>3. /\ e.type \notin ItemEvents /\ e.type \notin ConfigEvents
      /\ e.type \notin {"thread.started", "item.started", "item.completed"}
  BY ExecTypesCover
<1>4. Len(exec.events) \in Nat /\ Len(execStream) \in Nat
  BY DEF ExecCounted
<1>5. ExecCounted'
  BY <1>1, <1>2, <1>4 DEF ExecCounted, Elements
<1>6. ExecExposed'
  BY <1>1, <1>2, <1>3 DEF ExecExposed, ReadsProfile, Elements
<1>7. ExecSeen'
  <2>1. \A i \in DOMAIN execStream' : SameExec(execStream'[i], e) => FALSE
    BY <1>3 DEF SameExec
  <2>2. \A i \in DOMAIN execStream' : SameExec(e, execStream'[i]) => FALSE
    BY <1>3 DEF SameExec
  <2>3. \A i, j \in DOMAIN execStream' : SameExec(execStream'[i], execStream'[j]) => i = j
    BY <1>1, <2>1, <2>2 DEF ExecSeen
  <2>4. \A f \in Elements(execStream') : f.type = "thread.started" => f.id \in exec'.threads
    BY <1>1, <1>2, <1>3 DEF ExecSeen
  <2>5. \A f \in Elements(execStream') :
           f.type \in {"item.started", "item.completed"} => <<f.type, f.id>> \in exec'.items
    BY <1>1, <1>2, <1>3 DEF ExecSeen
  <2> QED BY <2>3, <2>4, <2>5 DEF ExecSeen, SameExec, Elements
<1> QED BY <1>5, <1>6, <1>7

LEMMA ExecTaken ==
    ASSUME ExecCounted, ExecExposed, ExecSeen, NEW e \in ExecEvents,
           execStream' = Append(execStream, e), ~e.secret, e.type \in ExecTypes,
           ~ExecRaises(e), exec' = TakeExec(e)
    PROVE  ExecCounted' /\ ExecExposed' /\ ExecSeen'
<1>1. /\ execStream' \in Seq(ExecEvents) /\ Len(execStream') = Len(execStream) + 1
      /\ DOMAIN execStream' = DOMAIN execStream \cup {Len(execStream) + 1}
      /\ Len(execStream) + 1 \notin DOMAIN execStream
      /\ \A i \in DOMAIN execStream : execStream'[i] = execStream[i]
      /\ execStream'[Len(execStream) + 1] = e
      /\ Elements(execStream') = Elements(execStream) \cup {e}
  BY AppendElements DEF ExecCounted
<1>2. /\ DOMAIN exec' = ExecFields
      /\ exec'.events = Append(exec.events, NormalizedExec(e))
      /\ exec'.ignored = exec.ignored
      /\ exec'.threads = IF e.type = "thread.started"
                         THEN exec.threads \cup {e.id} ELSE exec.threads
      /\ exec'.items = IF e.type \in {"item.started", "item.completed"}
                       THEN exec.items \cup {<<e.type, e.id>>} ELSE exec.items
      /\ exec'.activity = (exec.activity \/ (e.type \in ItemEvents /\ e.kind \in ActivityKinds))
      /\ exec'.tools = (exec.tools \/ (e.type \in ConfigEvents /\ e.tools = "names"))
      /\ exec'.skills = (exec.skills \/ (e.type \in ConfigEvents /\ e.skills = "names"))
      /\ exec'.profile = (exec.profile \/ ReadsProfile(e))
  BY TakeExecFields DEF ExecCounted
<1>3. /\ exec'.events \in Seq(ExecNormalized)
      /\ exec'.events # << >> /\ Len(exec'.events) = Len(exec.events) + 1
  <2>1. NormalizedExec(e) \in ExecNormalized
    BY DEF ExecNormalized
  <2> QED BY <1>2, <2>1, AppendElements DEF ExecCounted
<1>4. Len(exec.events) \in Nat /\ Len(execStream) \in Nat
  BY DEF ExecCounted
<1>5. ExecCounted'
  BY <1>1, <1>2, <1>3, <1>4 DEF ExecCounted, Elements
<1>6. ExecExposed'
  BY <1>1, <1>2, <1>3 DEF ExecExposed, ReadsProfile, Elements
<1>7. ExecSeen'
  <2>1. ASSUME NEW f \in Elements(execStream), SameExec(f, e)
        PROVE  FALSE
    <3>1. e.type = "thread.started" => e.id \in exec.threads
      BY <2>1 DEF ExecSeen, SameExec
    <3>2. e.type \in {"item.started", "item.completed"} => <<e.type, e.id>> \in exec.items
      BY <2>1 DEF ExecSeen, SameExec
    <3> QED BY <2>1, <3>1, <3>2 DEF ExecRaises, SameExec
  <2>2. \A i \in DOMAIN execStream : execStream'[i] \in Elements(execStream)
    BY <1>1 DEF Elements
  <2>3. \A i \in DOMAIN execStream :
           ~SameExec(execStream'[i], e) /\ ~SameExec(e, execStream'[i])
    BY <2>1, <2>2 DEF SameExec
  <2>4. \A i, j \in DOMAIN execStream' : SameExec(execStream'[i], execStream'[j]) => i = j
    BY <1>1, <2>3 DEF ExecSeen
  <2>5. \A f \in Elements(execStream') : f.type = "thread.started" => f.id \in exec'.threads
    BY <1>1, <1>2 DEF ExecSeen
  <2>6. \A f \in Elements(execStream') :
           f.type \in {"item.started", "item.completed"} => <<f.type, f.id>> \in exec'.items
    BY <1>1, <1>2 DEF ExecSeen
  <2> QED BY <2>4, <2>5, <2>6 DEF ExecSeen, SameExec, Elements
<1> QED BY <1>5, <1>6, <1>7

LEMMA TelemetryIgnored ==
    ASSUME TelemetryCounted, TelemetrySeen, TasksCounted, NEW e \in TelemetryEvents,
           teleStream' = Append(teleStream, e), ~e.secret, e.name # CommunicationEvent,
           tele' = [tele EXCEPT !.ignored = @ + 1]
    PROVE  TelemetryCounted' /\ TelemetrySeen' /\ TasksCounted'
<1>1. /\ teleStream' \in Seq(TelemetryEvents) /\ Len(teleStream') = Len(teleStream) + 1
      /\ DOMAIN teleStream' = DOMAIN teleStream \cup {Len(teleStream) + 1}
      /\ Len(teleStream) + 1 \notin DOMAIN teleStream
      /\ \A i \in DOMAIN teleStream : teleStream'[i] = teleStream[i]
      /\ teleStream'[Len(teleStream) + 1] = e
      /\ Elements(teleStream') = Elements(teleStream) \cup {e}
  BY AppendElements DEF TelemetryCounted
<1>2. /\ DOMAIN tele' = TelemetryFields /\ tele'.ignored = tele.ignored + 1
      /\ tele'.events = tele.events /\ tele'.states = tele.states
      /\ tele'.sends = tele.sends /\ tele'.receives = tele.receives
      /\ tele'.readable = tele.readable /\ tele'.tasks = tele.tasks
  BY DEF TelemetryCounted, TelemetryFields
<1>3. Len(tele.events) \in Nat /\ Len(teleStream) \in Nat
  BY DEF TelemetryCounted
<1>4. Communications' = Communications
  BY <1>1 DEF Communications, Elements
<1>5. TelemetryCounted'
  BY <1>1, <1>2, <1>3 DEF TelemetryCounted, Elements
<1>6. TelemetrySeen'
  <2>1. \A i, j \in DOMAIN teleStream' : SameLifecycle(teleStream'[i], teleStream'[j]) => i = j
    BY <1>1 DEF TelemetrySeen, SameLifecycle
  <2> QED BY <1>2, <1>4, <2>1 DEF TelemetrySeen, SameLifecycle
<1>7. TasksCounted'
  BY <1>2, <1>4 DEF TasksCounted, IsTask
<1> QED BY <1>5, <1>6, <1>7

LEMMA TelemetryTaken ==
    ASSUME TelemetryCounted, TelemetrySeen, TasksCounted, NEW e \in TelemetryEvents,
           teleStream' = Append(teleStream, e), ~e.secret, e.name = CommunicationEvent,
           ~TelemetryRaises(e), tele' = TakeTelemetry(e)
    PROVE  TelemetryCounted' /\ TelemetrySeen' /\ TasksCounted'
<1>1. /\ teleStream' \in Seq(TelemetryEvents) /\ Len(teleStream') = Len(teleStream) + 1
      /\ DOMAIN teleStream' = DOMAIN teleStream \cup {Len(teleStream) + 1}
      /\ Len(teleStream) + 1 \notin DOMAIN teleStream
      /\ \A i \in DOMAIN teleStream : teleStream'[i] = teleStream[i]
      /\ teleStream'[Len(teleStream) + 1] = e
      /\ Elements(teleStream') = Elements(teleStream) \cup {e}
  BY AppendElements DEF TelemetryCounted
<1>2. /\ DOMAIN tele' = TelemetryFields
      /\ tele'.events = Append(tele.events, NormalizedTelemetry(e))
      /\ tele'.ignored = tele.ignored
      /\ tele'.states = tele.states \cup {<<e.id, e.state>>}
      /\ tele'.sends = IF e.state = "send" THEN tele.sends \cup {e.id} ELSE tele.sends
      /\ tele'.receives = IF e.state = "receive"
                          THEN tele.receives \cup {e.id} ELSE tele.receives
      /\ tele'.tasks = IF IsTask(e) THEN tele.tasks + 1 ELSE tele.tasks
      /\ tele'.readable = IF IsTask(e) /\ e.format = "plaintext_audit"
                          THEN tele.readable + 1 ELSE tele.readable
  BY TakeTelemetryFields DEF TelemetryCounted
<1>3. tele'.events \in Seq(TelemetryNormalized) /\ Len(tele'.events) = Len(tele.events) + 1
  <2>1. NormalizedTelemetry(e) \in TelemetryNormalized
    BY DEF TelemetryNormalized
  <2> QED BY <1>2, <2>1, AppendElements DEF TelemetryCounted
<1>4. Len(tele.events) \in Nat /\ Len(teleStream) \in Nat
  BY DEF TelemetryCounted
<1>5. Communications' = Communications \cup {e}
  BY <1>1 DEF Communications, Elements
<1>6. TelemetryCounted'
  BY <1>1, <1>2, <1>3, <1>4 DEF TelemetryCounted, Elements
<1>7. TelemetrySeen'
  <2>1. \A i \in DOMAIN teleStream : teleStream'[i] \in Elements(teleStream)
    BY <1>1 DEF Elements
  <2>2. \A f \in Elements(teleStream) : ~SameLifecycle(f, e) /\ ~SameLifecycle(e, f)
    BY DEF TelemetrySeen, Communications, SameLifecycle, TelemetryRaises
  <2>3. \A i, j \in DOMAIN teleStream' : SameLifecycle(teleStream'[i], teleStream'[j]) => i = j
    BY <1>1, <2>1, <2>2 DEF TelemetrySeen
  <2>4. \A f \in Communications' : <<f.id, f.state>> \in tele'.states
    BY <1>2, <1>5 DEF TelemetrySeen
  <2>5. tele'.sends = {f.id : f \in {c \in Communications' : c.state = "send"}}
    BY <1>2, <1>5 DEF TelemetrySeen
  <2>6. tele'.receives = {f.id : f \in {c \in Communications' : c.state = "receive"}}
    BY <1>2, <1>5 DEF TelemetrySeen
  <2> QED BY <2>3, <2>4, <2>5, <2>6 DEF TelemetrySeen, SameLifecycle
<1>8. TasksCounted'
  <2> DEFINE tasks == {f \in Communications : IsTask(f)}
             Readable(f) == f.format = "plaintext_audit"
  <2>1. /\ tele.tasks \in Nat /\ tele.readable \in Nat /\ tele.readable <= tele.tasks
        /\ (tele.tasks > 0) <=> (tasks # {})
        /\ (tele.readable > 0) <=> (\E f \in tasks : Readable(f))
        /\ (tele.readable = tele.tasks) <=> (\A f \in tasks : Readable(f))
    BY DEF TasksCounted
  <2>2. CASE ~IsTask(e)
    <3>1. {f \in Communications' : IsTask(f)} = tasks
      BY <1>5, <2>2
    <3>2. tele'.tasks = tele.tasks /\ tele'.readable = tele.readable
      BY <1>2, <2>2
    <3> HIDE DEF tasks
    <3> QED BY <2>1, <3>1, <3>2 DEF TasksCounted, IsTask
  <2>3. CASE IsTask(e)
    <3>1. {f \in Communications' : IsTask(f)} = tasks \cup {e}
      BY <1>5, <2>3
    <3>2. /\ tele'.tasks = tele.tasks + 1
          /\ tele'.readable = IF Readable(e) THEN tele.readable + 1 ELSE tele.readable
      BY <1>2, <2>3
    <3> HIDE DEF tasks
    <3>3. /\ tele'.tasks \in Nat /\ tele'.readable \in Nat /\ tele'.readable <= tele'.tasks
          /\ tele'.tasks > 0
      BY <2>1, <3>2
    <3>4. (tele'.readable > 0) <=> (\E f \in tasks \cup {e} : Readable(f))
      <4>1. CASE Readable(e)
        BY <2>1, <3>2, <4>1
      <4>2. CASE ~Readable(e)
        BY <2>1, <3>2, <4>2
      <4> QED BY <4>1, <4>2
    <3>5. (tele'.readable = tele'.tasks) <=> (\A f \in tasks \cup {e} : Readable(f))
      <4>1. CASE Readable(e)
        <5>1. (tele'.readable = tele'.tasks) <=> (tele.readable = tele.tasks)
          BY <2>1, <3>2, <4>1
        <5> QED BY <2>1, <4>1, <5>1
      <4>2. CASE ~Readable(e)
        BY <2>1, <3>2, <4>2
      <4> QED BY <4>1, <4>2
    <3>6. tasks \cup {e} # {}
      OBVIOUS
    <3> QED BY <3>1, <3>3, <3>4, <3>5, <3>6 DEF TasksCounted, IsTask
  <2> QED BY <2>2, <2>3
<1> QED BY <1>6, <1>7, <1>8

LEMMA AdapterStep ==
    ASSUME FactsFaithful, BuiltSound, AdapterNext
    PROVE  FactsFaithful' /\ BuiltSound'
<1>1. UNCHANGED <<execStream, exec>> => (ExecCounted /\ ExecExposed /\ ExecSeen
                                            => ExecCounted' /\ ExecExposed' /\ ExecSeen')
  BY DEF ExecCounted, ExecExposed, ExecSeen, Elements, ReadsProfile, SameExec
<1>2. UNCHANGED <<teleStream, tele>> =>
         (TelemetryCounted /\ TelemetrySeen /\ TasksCounted
            => TelemetryCounted' /\ TelemetrySeen' /\ TasksCounted')
  BY DEF TelemetryCounted, TelemetrySeen, TasksCounted, Elements, Communications, IsTask,
         SameLifecycle
<1>3. ASSUME NEW e \in ExecEvents, ReadExec(e)
      PROVE  FactsFaithful' /\ BuiltSound'
  <2>1. /\ adapter = "exec" /\ UNCHANGED <<teleStream, tele>>
        /\ execStream' = Append(execStream, e)
    BY <1>3 DEF ReadExec
  <2>2. CASE ~e.secret /\ e.type \notin ExecTypes
    <3>1. adapter' = "exec" /\ exec' = [exec EXCEPT !.ignored = @ + 1]
      BY <1>3, <2>1, <2>2 DEF ReadExec
    <3> QED BY <1>2, <2>1, <2>2, <3>1, ExecIgnored DEF FactsFaithful, BuiltSound
  <2>3. CASE e.secret \/ (e.type \in ExecTypes /\ ExecRaises(e))
    <3>1. adapter' = "raised"
      BY <1>3, <2>3 DEF ReadExec
    <3> QED BY <3>1 DEF FactsFaithful, BuiltSound
  <2>4. CASE ~e.secret /\ e.type \in ExecTypes /\ ~ExecRaises(e)
    <3>1. adapter' = "exec" /\ exec' = TakeExec(e)
      BY <1>3, <2>1, <2>4 DEF ReadExec
    <3> QED BY <1>2, <2>1, <2>4, <3>1, ExecTaken DEF FactsFaithful, BuiltSound
  <2> QED BY <2>2, <2>3, <2>4
<1>4. CASE EndOfExec
  BY <1>1, <1>2, <1>4 DEF EndOfExec, FactsFaithful, BuiltSound
<1>5. ASSUME NEW e \in TelemetryEvents, ReadTelemetry(e)
      PROVE  FactsFaithful' /\ BuiltSound'
  <2>1. /\ adapter = "telemetry" /\ UNCHANGED <<execStream, exec>>
        /\ teleStream' = Append(teleStream, e)
    BY <1>5 DEF ReadTelemetry
  <2>2. CASE ~e.secret /\ e.name # CommunicationEvent
    <3>1. adapter' = "telemetry" /\ tele' = [tele EXCEPT !.ignored = @ + 1]
      BY <1>5, <2>1, <2>2 DEF ReadTelemetry
    <3> QED BY <1>1, <2>1, <2>2, <3>1, TelemetryIgnored DEF FactsFaithful, BuiltSound
  <2>3. CASE e.secret \/ (e.name = CommunicationEvent /\ TelemetryRaises(e))
    <3>1. adapter' = "raised"
      BY <1>5, <2>3 DEF ReadTelemetry
    <3> QED BY <3>1 DEF FactsFaithful, BuiltSound
  <2>4. CASE ~e.secret /\ e.name = CommunicationEvent /\ ~TelemetryRaises(e)
    <3>1. adapter' = "telemetry" /\ tele' = TakeTelemetry(e)
      BY <1>5, <2>1, <2>4 DEF ReadTelemetry
    <3> QED BY <1>1, <2>1, <2>4, <3>1, TelemetryTaken DEF FactsFaithful, BuiltSound
  <2> QED BY <2>2, <2>3, <2>4
<1>6. CASE BuildEvidence
  <2>1. adapter = "telemetry" /\ UNCHANGED <<execStream, teleStream, exec, tele>>
    BY <1>6 DEF BuildEvidence
  <2>2. adapter' = "built" => tele.receives \subseteq tele.sends
    BY <1>6 DEF BuildEvidence, BuildRaises
  <2> QED BY <1>1, <1>2, <2>1, <2>2 DEF FactsFaithful, BuiltSound
<1> QED BY <1>3, <1>4, <1>5, <1>6 DEF AdapterNext

LEMMA CoverageOfFacts ==
    ASSUME ExecExposed, TelemetrySeen, TasksCounted, NEW capability \in DOMAIN Coverage
    PROVE  Coverage[capability] = CoveredIn(capability)
<1>1. Coverage.exec_event_stream = CoveredIn("exec_event_stream")
  BY DEF Coverage, CoveredIn, Exposed, ExecExposed
<1>2. Coverage.command_and_file_activity = CoveredIn("command_and_file_activity")
  BY DEF Coverage, CoveredIn, Exposed, ExecExposed
<1>3. Coverage.multi_agent_lifecycle = CoveredIn("multi_agent_lifecycle")
  <2> DEFINE sends == {e \in Communications : e.state = "send"}
             answered == \A s \in sends :
                            \E r \in Communications : r.state = "receive" /\ r.id = s.id
  <2>1. CoveredIn("multi_agent_lifecycle") =
           IF sends # {} /\ answered THEN "available"
           ELSE IF sends # {} THEN "partial" ELSE "unavailable"
    BY DEF CoveredIn
  <2>2. LifecycleStatus = IF tele.sends = {} THEN "unavailable"
                          ELSE IF tele.sends \ tele.receives # {} THEN "partial"
                          ELSE "available"
    BY DEF LifecycleStatus
  <2>3. (tele.sends = {} <=> sends = {}) /\ (tele.sends \ tele.receives = {} <=> answered)
    <3>1. tele.sends = {e.id : e \in sends}
      BY DEF TelemetrySeen
    <3>2. \A id : id \in tele.receives
                     <=> \E r \in Communications : r.state = "receive" /\ r.id = id
      BY DEF TelemetrySeen
    <3> HIDE DEF sends
    <3>3. tele.sends = {} <=> sends = {}
      BY <3>1
    <3>4. answered <=> \A s \in sends : s.id \in tele.receives
      BY <3>2
    <3>5. tele.sends \ tele.receives = {} <=> \A s \in sends : s.id \in tele.receives
      BY <3>1
    <3> QED BY <3>3, <3>4, <3>5
  <2>4. Coverage.multi_agent_lifecycle = LifecycleStatus
    BY DEF Coverage
  <2> HIDE DEF sends, answered
  <2> QED BY <2>1, <2>2, <2>3, <2>4
<1>4. Coverage.multi_agent_readable_task_text = CoveredIn("multi_agent_readable_task_text")
  <2> DEFINE tasks == {e \in Communications : IsTask(e)}
             all == \A e \in tasks : e.format = "plaintext_audit"
             some == \E e \in tasks : e.format = "plaintext_audit"
  <2>1. {e \in {f \in Communications : f.state = "send"} : e.kind \in TaskKinds} = tasks
    BY DEF IsTask
  <2>2. CoveredIn("multi_agent_readable_task_text") =
           IF tasks # {} /\ all THEN "available" ELSE IF some THEN "partial" ELSE "unavailable"
    BY <2>1 DEF CoveredIn
  <2>3. ReadableStatus =
           IF tele.tasks > 0 /\ tele.readable = tele.tasks THEN "available"
           ELSE IF tele.readable > 0 /\ tele.readable # tele.tasks THEN "partial"
           ELSE "unavailable"
    BY DEF ReadableStatus
  <2>4. /\ tele.tasks > 0 <=> tasks # {}
        /\ tele.readable > 0 <=> some
        /\ tele.readable = tele.tasks <=> all
    BY DEF TasksCounted
  <2>5. Coverage.multi_agent_readable_task_text = ReadableStatus
    BY DEF Coverage
  <2>6. some => tasks # {}
    OBVIOUS
  <2> HIDE DEF tasks, all, some
  <2> QED BY <2>2, <2>3, <2>4, <2>5, <2>6
<1>5. Coverage.offered_tool_catalog = CoveredIn("offered_tool_catalog")
  BY DEF Coverage, CoveredIn, Exposed, ExecExposed
<1>6. Coverage.offered_skill_catalog = CoveredIn("offered_skill_catalog")
  BY DEF Coverage, CoveredIn, Exposed, ExecExposed
<1>7. Coverage.permissions_profile = CoveredIn("permissions_profile")
  BY DEF Coverage, CoveredIn, Exposed, ExecExposed
<1>8. DOMAIN Coverage = {"exec_event_stream", "command_and_file_activity",
                         "multi_agent_lifecycle", "multi_agent_readable_task_text",
                         "offered_tool_catalog", "offered_skill_catalog",
                         "permissions_profile"}
  BY DEF Coverage
<1> QED BY <1>1, <1>2, <1>3, <1>4, <1>5, <1>6, <1>7, <1>8

LEMMA FaithfulIsHonest ==
    ASSUME FactsFaithful, BuiltSound
    PROVE  CoverageIsHonest
<1> SUFFICES ASSUME adapter = "built"
             PROVE  CoverageIsHonest
  BY DEF CoverageIsHonest
<1>1. /\ ExecCounted /\ ExecExposed /\ ExecSeen
      /\ TelemetryCounted /\ TelemetrySeen /\ TasksCounted
      /\ tele.receives \subseteq tele.sends
  BY DEF FactsFaithful, BuiltSound
<1>2. \A capability \in DOMAIN Coverage : Coverage[capability] = CoveredIn(capability)
  BY <1>1, CoverageOfFacts
<1>3. /\ Len(exec.events) + exec.ignored = Len(execStream)
      /\ Len(tele.events) + tele.ignored = Len(teleStream)
      /\ \A e \in Elements(execStream) \cup Elements(teleStream) : ~e.secret
  BY <1>1 DEF ExecCounted, TelemetryCounted
<1>4. ~Twice(teleStream, LAMBDA e, f :
          /\ e.name = CommunicationEvent /\ f.name = CommunicationEvent
          /\ e.id = f.id /\ e.state = f.state)
  BY <1>1 DEF Twice, TelemetrySeen, SameLifecycle
<1>5. ~Twice(execStream, LAMBDA e, f :
          /\ e.type = f.type /\ e.id = f.id
          /\ e.type \in {"thread.started", "item.started", "item.completed"})
  BY <1>1 DEF Twice, ExecSeen, SameExec
<1>6. \A r \in Communications : r.state = "receive" =>
         \E s \in Communications : s.state = "send" /\ s.id = r.id
  BY <1>1 DEF TelemetrySeen
<1> QED BY <1>2, <1>3, <1>4, <1>5, <1>6 DEF CoverageIsHonest

(* Evidence is only built of sound streams, and its coverage report says    *)
(* what they expose, for any events and any length of the streams.         *)
THEOREM CoverageIsHonestInvariant == Spec => []CoverageIsHonest
<1>1. Init => FactsFaithful /\ BuiltSound
  <2>1. ASSUME Init
        PROVE  ExecCounted /\ ExecExposed /\ ExecSeen
    <3>1. execStream = << >> /\ exec = NoExecFacts
      BY <2>1 DEF Init, AdapterInit
    <3>2. Elements(execStream) = {} /\ DOMAIN execStream = {}
      BY <3>1 DEF Elements
    <3>3. ExecCounted
      BY <3>1, <3>2 DEF ExecCounted, NoExecFacts, ExecFields
    <3>4. ExecExposed
      BY <3>1, <3>2 DEF ExecExposed, NoExecFacts
    <3>5. ExecSeen
      BY <3>1, <3>2 DEF ExecSeen, NoExecFacts
    <3> QED BY <3>3, <3>4, <3>5
  <2>2. ASSUME Init
        PROVE  TelemetryCounted /\ TelemetrySeen /\ TasksCounted
    <3>1. teleStream = << >> /\ tele = NoTelemetryFacts
      BY <2>2 DEF Init, AdapterInit
    <3>2. Elements(teleStream) = {} /\ DOMAIN teleStream = {}
      BY <3>1 DEF Elements
    <3>3. Communications = {}
      BY <3>2 DEF Communications
    <3>4. TelemetryCounted
      BY <3>1, <3>2 DEF TelemetryCounted, NoTelemetryFacts, TelemetryFields
    <3>5. TelemetrySeen
      BY <3>1, <3>2, <3>3 DEF TelemetrySeen, NoTelemetryFacts
    <3>6. TasksCounted
      BY <3>1, <3>3 DEF TasksCounted, NoTelemetryFacts
    <3> QED BY <3>4, <3>5, <3>6
  <2>3. Init => adapter = "exec"
    BY DEF Init, AdapterInit
  <2> QED BY <2>1, <2>2, <2>3 DEF FactsFaithful, BuiltSound
<1>2. FactsFaithful /\ BuiltSound /\ [Next]_vars => FactsFaithful' /\ BuiltSound'
  <2> SUFFICES ASSUME FactsFaithful, BuiltSound, [Next]_vars
               PROVE  FactsFaithful' /\ BuiltSound'
    OBVIOUS
  <2>1. CASE UNCHANGED adapterVars
    <3>1. UNCHANGED <<execStream, teleStream, exec, tele, adapter>>
      BY <2>1 DEF adapterVars
    <3>2. /\ ExecCounted => ExecCounted'
          /\ ExecExposed => ExecExposed'
          /\ ExecSeen => ExecSeen'
      BY <3>1 DEF ExecCounted, ExecExposed, ExecSeen, Elements, ReadsProfile, SameExec
    <3>3. /\ TelemetryCounted => TelemetryCounted'
          /\ TelemetrySeen => TelemetrySeen'
          /\ TasksCounted => TasksCounted'
      BY <3>1 DEF TelemetryCounted, TelemetrySeen, TasksCounted, Elements, Communications,
                  IsTask, SameLifecycle
    <3> QED BY <3>1, <3>2, <3>3 DEF FactsFaithful, BuiltSound
  <2>2. CASE RunAdapter
    BY <2>2, AdapterStep DEF RunAdapter
  <2>3. CASE TakeEvidence
    BY <2>3 DEF TakeEvidence, FactsFaithful, BuiltSound
  <2> QED BY <2>1, <2>2, <2>3, Writers
<1>3. FactsFaithful /\ BuiltSound => CoverageIsHonest
  BY FaithfulIsHonest
<1> QED BY <1>1, <1>2, <1>3, PTL DEF Spec
=============================================================================
