-------------------------------- MODULE Envelope --------------------------------
(***************************************************************************)
(* dsse.py: a packet signed as canonical bytes, and the check of such an   *)
(* envelope against pinned keys that the receiver holds.  A signature is a *)
(* tagged copy of the key and of what it signs (Ed25519 is external).      *)
(***************************************************************************)
EXTENDS ControlChain

CONSTANT
    SigningKey  \* the key that sign_assurance_packet signs with

PayloadType ==
    "application/vnd.digitrans.provable-agent.assurance-packet+json;version=0.3.0-candidate.1"

Canonical(packet) == [value |-> packet, spelling |-> "canonical"]

PAE(type, payload) == <<"DSSEv1", type, payload>>

Signature(key, bytes) == [key |-> key, over |-> bytes]

Sign(packet) ==
    [payloadType |-> PayloadType,
     payload |-> Canonical(packet),
     keyid |-> SigningKey,
     sig |-> Signature(SigningKey, PAE(PayloadType, Canonical(packet)))]

(* The entries of the trust bundle that pin the envelope's key. *)
Pins(envelope, trust) == {i \in DOMAIN trust : trust[i].keyid = envelope.keyid}

Usable(key, now) ==
    /\ key.algorithm = "Ed25519" /\ key.role = "packet_issuer"
    /\ key.status = "active" /\ ~key.revoked
    /\ key.notBefore <= now /\ now <= key.notAfter

(* The signature is over the envelope's own type and payload; the mutant    *)
(* looks at the key alone.                                                 *)
SignedBy(key, envelope) == envelope.sig.key = key.public

SignatureHolds(key, envelope) ==
    envelope.sig = Signature(key.public, PAE(envelope.payloadType, envelope.payload))

VerifyEnvelope(envelope, trust, now) ==
    /\ envelope.payloadType = PayloadType
    /\ Cardinality(Pins(envelope, trust)) = 1
    /\ \A i \in Pins(envelope, trust) :
          /\ Usable(trust[i], now)
          /\ SignatureHolds(trust[i], envelope)
    /\ envelope.payload.spelling = "canonical"
    /\ "hash" \in DOMAIN envelope.payload.value => HashValid(envelope.payload.value)
=============================================================================
