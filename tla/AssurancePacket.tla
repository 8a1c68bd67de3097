---------------------------- MODULE AssurancePacket ----------------------------
(***************************************************************************)
(* The portable packet of assurance_packet.py: one sealed document that    *)
(* carries the whole control chain, so that a process that trusts none of  *)
(* it can check all of it again.                                           *)
(*                                                                         *)
(* Text is abstracted to what the checks tell apart: CaseFold[name] is     *)
(* str.casefold, and Visible holds the names and rationales for which      *)
(* _has_visible_text is true.                                              *)
(***************************************************************************)
EXTENDS ControlChain

CONSTANTS
    CaseFold,   \* a function from names to names
    Visible     \* the texts with a visible character and no outer blanks

ProtocolVersion == "0.3.0-candidate.1"

SupportedProfiles ==
    <<"par.core.v1", "par.evidence-bound.v1", "par.governed.v1", "par.exact-use.v1",
      "par.reconstructable.v1">>

ProfileFails(profiles) ==
    [profile_claim_empty |-> profiles = << >>,
     profile_claim_duplicate |-> ~Distinct(profiles),
     profile_claim_not_cumulative |->
        \/ Len(profiles) > Len(SupportedProfiles)
        \/ \E i \in DOMAIN profiles : profiles[i] # SupportedProfiles[i],
     profile_claim_unknown |->
        \E i \in DOMAIN profiles : \A j \in DOMAIN SupportedProfiles :
            profiles[i] # SupportedProfiles[j]]

Claims(p, profile) == \E i \in DOMAIN p.body.profiles : p.body.profiles[i] = profile

PacketIdentity(c, m, b) == Digest(<<ProtocolVersion, c.hash, m.hash, b.hash>>)

-----------------------------------------------------------------------------
(* build_assurance_packet; its last step is the receiver's own check.       *)

Packageable(case, limitations, profiles) ==
    /\ LimitationsValid(limitations)
    /\ NoneFails(ProfileFails(profiles))
    /\ case.auditValid

BuildPacket(b, case, limitations, profiles) ==
    Sealed([version |-> ProtocolVersion,
            id |-> PacketIdentity(case.candidate, case.manifest, b),
            profiles |-> profiles,
            lifecycle |-> "reconstructed",
            bundle |-> b,
            candidate |-> case.candidate,
            verification |-> case.verification,
            approval |-> case.approval,
            authorization |-> case.authorization,
            manifest |-> case.manifest,
            output |-> ApprovedOutput(case.candidate),
            limitations |-> limitations,
            at |-> case.manifest.body.at])

-----------------------------------------------------------------------------
(* verify_assurance_packet, each check with the error it reports.           *)

EnvelopeFails(p) ==
    [protocol_version_unsupported |-> p.body.version # ProtocolVersion,
     lifecycle_state_invalid |-> p.body.lifecycle # "reconstructed",
     packet_hash_invalid |-> ~HashValid(p),
     packet_id_invalid |->
        p.body.id # PacketIdentity(p.body.candidate, p.body.manifest, p.body.bundle),
     packet_limitations_invalid |-> ~LimitationsValid(p.body.limitations),
     packet_timestamp_mismatch |-> p.body.at # p.body.manifest.body.at]

EvidenceFails(p) ==
    LET b == p.body.bundle
        c == p.body.candidate
    IN  [evidence_bundle_hash_invalid |-> ~HashValid(b),
         classification_unsupported |->
            \/ c.body.ctx.level \notin Levels
            \/ c.body.evidence.level \notin Levels
            \/ \E r \in b.body.records : r.level \notin Levels,
         candidate_redacted_type_invalid |-> c.body.redacted \notin BOOLEAN,
         candidate_bundle_binding_mismatch |-> c.body.bundleHash # b.hash,
         candidate_schema_version_unsupported |-> c.body.schema # "0.1",
         candidate_bundle_scope_mismatch |-> c.body.ctx.scope # b.body.scope,
         candidate_evidence_missing |-> ~Resolves(b, c.body.evidence.id),
         candidate_evidence_substitution |->
            /\ Resolves(b, c.body.evidence.id)
            /\ Require(b, c.body.evidence.id) # c.body.evidence]

(* The findings are made again.  The mutant is content with a record that *)
(* agrees with itself.                                                    *)
AgreesWithItself(v, c, b) == StatusMatches(v)

FindingsRecomputed(v, c, b) ==
    /\ v.body.findings = Verify(c, b).body.findings
    /\ v.body.status = Verify(c, b).body.status

DecisionFails(p) ==
    LET c == p.body.candidate
        v == p.body.verification
        a == p.body.approval
        z == p.body.authorization
    IN  [authorized_output_candidate_mismatch |-> p.body.output # ApprovedOutput(c),
         authorized_output_hash_mismatch |-> Digest(p.body.output) # z.body.outputHash,
         authorization_flag_type_invalid |-> z.body.authorized \notin BOOLEAN,
         verification_findings_mismatch |-> ~FindingsRecomputed(v, c, p.body.bundle),
         verification_not_passing |-> v.body.status # "pass",
         approval_not_approved |-> a.body.decision # "approved",
         exact_use_not_authorized |-> ~z.body.authorized]

(* Separation of duties: the approver is a visible name, and not the agent's. *)
GovernedFails(p) ==
    LET approver == p.body.approval.body.approver
        agent == p.body.candidate.body.ctx.agent
    IN  [approval_identity_missing |-> approver \notin Visible,
         approval_separation_of_duties_failed |->
            approver \in Visible /\ CaseFold[approver] = CaseFold[agent],
         approval_rationale_missing |-> p.body.approval.body.rationale \notin Visible]

PacketAuditFails(p) ==
    AuditFails(p.body.manifest, p.body.candidate, p.body.verification,
               p.body.approval, p.body.authorization)

PacketValid(p) ==
    /\ NoneFails(EnvelopeFails(p))
    /\ NoneFails(ProfileFails(p.body.profiles))
    /\ NoneFails(EvidenceFails(p))
    /\ NoneFails(DecisionFails(p))
    /\ NoneFails(PacketAuditFails(p))
    /\ Claims(p, "par.governed.v1") => NoneFails(GovernedFails(p))

(* The last step of build_assurance_packet; the mutant trusts the manifest. *)
ChainOnly(p) == NoneFails(PacketAuditFails(p))
SelfCheck(p) == PacketValid(p)

-----------------------------------------------------------------------------
(* load_assurance_packet: a packet that arrives as data.  Every object must *)
(* have exactly its fields, the constructors of contracts.py run, and only  *)
(* then is the packet checked.                                              *)

PacketFields ==
    {"version", "id", "profiles", "lifecycle", "bundle", "candidate", "verification",
     "approval", "authorization", "manifest", "output", "limitations", "at"}

CandidateFields ==
    {"schema", "id", "ctx", "claim", "evidence", "bundleHash", "limitations",
     "statement", "sensitive", "redacted", "at"}

RecordFields ==
    [verification |-> {"id", "candidateId", "candidateHash", "status", "findings", "at"},
     approval |-> {"id", "candidateId", "candidateHash", "verificationHash",
                   "decision", "approver", "rationale", "at"},
     authorization |-> {"id", "candidateId", "candidateHash", "approvalId", "purpose",
                        "audience", "outputHash", "authorized", "reason", "at"},
     manifest |-> {"id", "candidateHash", "verificationHash", "approvalHash",
                   "authorizationHash", "at"}]

ExactFields(p) ==
    /\ DOMAIN p = {"body", "hash"}
    /\ DOMAIN p.body = PacketFields
    /\ DOMAIN p.body.output = {"statement", "limitations"}
    /\ DOMAIN p.body.candidate.body = CandidateFields
    /\ \A record \in DOMAIN RecordFields :
          DOMAIN p.body[record].body = RecordFields[record]

Loads(p) ==
    /\ ExactFields(p)
    /\ BundleValid(p.body.bundle)
    /\ StatusMatches(p.body.verification)
    /\ PacketValid(p)
=============================================================================
