------------------------------ MODULE ControlChain ------------------------------
(***************************************************************************)
(* The documents of the control chain and the functions that make and      *)
(* check them: contracts.py, compiler.py, verification.py, approvals.py,   *)
(* authorization.py, audit.py and pipeline.py.  All of them are pure; the  *)
(* machine that calls them is AssurancePath.                               *)
(*                                                                         *)
(* A digest is a tagged copy of what it commits to.  A sealed document is  *)
(* a body with a digest, which need not be the digest of that body: that   *)
(* is what verify_hash decides.                                            *)
(***************************************************************************)
EXTENDS Naturals, FiniteSets, Sequences

Digest(value) == [sha256 |-> value]

Sealed(body) == [body |-> body, hash |-> Digest(body)]
HashValid(doc) == doc.hash = Digest(doc.body)

MaxLimitations == 20

(* CLASSIFICATION_ORDER: public, internal, confidential, restricted, regulated. *)
Levels == 0..4

Distinct(seq) == \A i, j \in DOMAIN seq : seq[i] = seq[j] => i = j
LimitationsValid(seq) == Len(seq) \in 1..MaxLimitations /\ Distinct(seq)

-----------------------------------------------------------------------------
(* Evidence.  A bundle is sealed over its scope and its records.            *)

(* What __post_init__ of EvidenceBundle refuses to construct. *)
BundleValid(b) ==
    /\ HashValid(b)
    /\ b.body.records # {}
    /\ \A r, s \in b.body.records : r.id = s.id => r = s
    /\ \A r \in b.body.records : r.scope = b.body.scope

CreateBundle(scope, records) == Sealed([scope |-> scope, records |-> records])

Resolves(b, id) == \E r \in b.body.records : r.id = id
Require(b, id) == CHOOSE r \in b.body.records : r.id = id

-----------------------------------------------------------------------------
(* compiler.py                                                              *)

Compiles(ctx, draft, b) ==
    /\ LimitationsValid(draft.limitations)
    /\ b.body.scope = ctx.scope
    /\ Resolves(b, draft.evidence)
    /\ Require(b, draft.evidence).level <= ctx.level

Compile(ctx, draft, b) ==
    Sealed([schema |-> "0.1",
            id |-> Digest(<<ctx.run, draft, b.hash>>),
            ctx |-> ctx,
            claim |-> draft.claim,
            evidence |-> Require(b, draft.evidence),
            bundleHash |-> b.hash,
            limitations |-> draft.limitations,
            statement |-> draft.statement,
            sensitive |-> draft.sensitive,
            redacted |-> draft.redacted,
            at |-> ctx.at])

(* The exact output that an approval of the candidate is about. *)
ApprovedOutput(c) == [statement |-> c.body.statement, limitations |-> c.body.limitations]

-----------------------------------------------------------------------------
(* verification.py                                                          *)

Finding(severity, passed) == [severity |-> severity, passed |-> passed]

Findings(c, b) ==
    [CANDIDATE_HASH_VALID |-> Finding("error", HashValid(c)),
     EVIDENCE_BUNDLE_BOUND |->
        Finding("error", c.body.bundleHash = b.hash /\ HashValid(b)),
     EVIDENCE_REFERENCE_VALID |->
        Finding("error", c.body.evidence \in b.body.records),
     SCOPE_MATCH |->
        Finding("error", /\ c.body.evidence.scope = c.body.ctx.scope
                         /\ b.body.scope = c.body.ctx.scope),
     DISCLOSURE_SAFE |->
        Finding("error", c.body.sensitive => c.body.redacted),
     LIMITATION_PRESENT |->
        Finding("warning", c.body.limitations # << >>)]

StatusOf(findings) ==
    IF \A code \in DOMAIN findings :
          findings[code].severity = "error" => findings[code].passed
    THEN "pass" ELSE "fail"

StatusMatches(v) == v.body.status = StatusOf(v.body.findings)

Verify(c, b) ==
    LET findings == Findings(c, b)
    IN  Sealed([id |-> Digest(<<c.hash, findings>>),
                candidateId |-> c.body.id,
                candidateHash |-> c.hash,
                status |-> StatusOf(findings),
                findings |-> findings,
                at |-> c.body.at])

-----------------------------------------------------------------------------
(* approvals.py                                                             *)

Decisions == {"approved", "rejected", "changes_requested"}

Binds(doc, c) == doc.body.candidateId = c.body.id /\ doc.body.candidateHash = c.hash

Approvable(c, v, approver, decision) ==
    /\ HashValid(c)
    /\ Binds(v, c)
    /\ HashValid(v)
    /\ StatusMatches(v)
    /\ decision = "approved" => v.body.status = "pass"
    /\ decision \in Decisions
    /\ approver # ""

RecordApproval(c, v, approver, decision, rationale) ==
    Sealed([id |-> Digest(<<c.hash, v.hash, approver, decision>>),
            candidateId |-> c.body.id,
            candidateHash |-> c.hash,
            verificationHash |-> v.hash,
            decision |-> decision,
            approver |-> approver,
            rationale |-> rationale,
            at |-> v.body.at])

-----------------------------------------------------------------------------
(* authorization.py: a request that does not match is answered by a denial, *)
(* one with documents that do not fit together by an exception.  The       *)
(* mutant takes any approval for one of this candidate.                    *)

AuthorizableUnbound(c, a) ==
    /\ HashValid(c)
    /\ a.body.decision = "approved"
    /\ HashValid(a)

Authorizable(c, a) ==
    /\ HashValid(c)
    /\ a.body.decision = "approved"
    /\ HashValid(a)
    /\ Binds(a, c)

ReasonFor(authorized) ==
    IF authorized THEN "EXACT_USE_AUTHORIZED" ELSE "EXACT_USE_MISMATCH"

AuthorizeExactUse(c, a, purpose, audience, output) ==
    LET exact == /\ purpose = c.body.ctx.purpose
                 /\ audience = c.body.ctx.audience
                 /\ output = ApprovedOutput(c)
    IN  Sealed([id |-> Digest(<<c.hash, a.body.id, purpose, audience, Digest(output)>>),
                candidateId |-> c.body.id,
                candidateHash |-> c.hash,
                approvalId |-> a.body.id,
                purpose |-> purpose,
                audience |-> audience,
                outputHash |-> Digest(output),
                authorized |-> exact,
                reason |-> ReasonFor(exact),
                at |-> a.body.at])

-----------------------------------------------------------------------------
(* audit.py                                                                 *)

BuildAuditManifest(c, v, a, z) ==
    Sealed([id |-> Digest(<<c.hash, v.hash, a.hash, z.hash>>),
            candidateHash |-> c.hash,
            verificationHash |-> v.hash,
            approvalHash |-> a.hash,
            authorizationHash |-> z.hash,
            at |-> z.body.at])

(* The checks of verify_audit_manifest, each with the error it reports. *)
AuditFails(m, c, v, a, z) ==
    [candidate_hash_invalid |-> ~HashValid(c),
     verification_hash_invalid |-> ~HashValid(v),
     approval_hash_invalid |-> ~HashValid(a),
     authorization_hash_invalid |-> ~HashValid(z),
     manifest_hash_invalid |-> ~HashValid(m),
     candidate_binding_mismatch |-> m.body.candidateHash # c.hash,
     verification_binding_mismatch |-> m.body.verificationHash # v.hash,
     approval_binding_mismatch |-> m.body.approvalHash # a.hash,
     authorization_binding_mismatch |-> m.body.authorizationHash # z.hash,
     verification_candidate_mismatch |-> ~Binds(v, c),
     verification_status_mismatch |-> ~StatusMatches(v),
     approval_candidate_mismatch |-> ~Binds(a, c),
     approval_verification_mismatch |-> a.body.verificationHash # v.hash,
     approval_verification_status_mismatch |->
        a.body.decision = "approved" /\ v.body.status # "pass",
     authorization_candidate_mismatch |-> ~Binds(z, c),
     authorization_approval_mismatch |-> z.body.approvalId # a.body.id,
     authorization_approval_decision_mismatch |->
        z.body.authorized /\ a.body.decision # "approved",
     authorization_scope_mismatch |->
        z.body.authorized /\ (\/ z.body.purpose # c.body.ctx.purpose
                              \/ z.body.audience # c.body.ctx.audience),
     authorization_output_mismatch |->
        z.body.authorized /\ z.body.outputHash # Digest(ApprovedOutput(c)),
     authorization_reason_mismatch |-> z.body.reason # ReasonFor(z.body.authorized)]

NoneFails(checks) == \A code \in DOMAIN checks : ~checks[code]

AuditValid(m, c, v, a, z) == NoneFails(AuditFails(m, c, v, a, z))
=============================================================================
