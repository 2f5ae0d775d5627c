----------------------------- MODULE CoseVerify -----------------------------
(***************************************************************************)
(* The COSE_Sign1 verification pipeline and the trust-anchor registry of   *)
(* ephemeral-crypto (verify.rs, anchors.rs, cose.rs, size_guard.rs).       *)
(*                                                                         *)
(* Cryptography is symbolic: a signature is the record of who signed what, *)
(* and it verifies under a key exactly when that key signed exactly the    *)
(* Sig_structure at hand.  The verifier answers "Ok" or the name of the    *)
(* CoseError of the first step that fails.                                 *)
(***************************************************************************)
EXTENDS Integers, Sequences

MAX_COSE_BYTES == 65536
MAX_CBOR_DEPTH == 16
COSE_ALG_EDDSA == -8

Roles == {"TariffSigner", "DelegationSigner", "ClassifierSigner", "AnomalyLibrarySigner"}

\* TrustAnchorSet::lookup_with_role: the first anchor with this kid and role.
lookup_with_role(anchors, kid, role) ==
  LET hits == {i \in DOMAIN anchors : anchors[i].kid = kid /\ anchors[i].role = role}
  IN  {anchors[i] : i \in {i \in hits : \A j \in hits : i <= j}}

\* Mutant: a re-registered kid takes the place of the old anchor.
insert_Replaces(anchors, a) ==
  Append(SelectSeq(anchors, LAMBDA b : b.kid # a.kid), a)

\* TrustAnchorSet::insert: a kid that is taken, under whatever role, is refused.
insert(anchors, a) ==
  IF \E i \in DOMAIN anchors : anchors[i].kid = a.kid THEN anchors ELSE Append(anchors, a)

\* Sig_structure_1: the protected header, the external AAD and the payload.
ToBeSigned(alg, kid, aad, payload) == <<alg, kid, aad, payload>>

\* The guards that run on the raw bytes: size, CBOR well-formedness, depth.
size_depth_check_with_cap(envelope, max_bytes) ==
  IF envelope.size > max_bytes THEN "PayloadTooLarge"
  ELSE IF ~envelope.is_cbor THEN "CborParse"
  ELSE IF envelope.depth > MAX_CBOR_DEPTH THEN "CborDepthExceeded"
  ELSE "Ok"

\* coset decodes the array of four; the alg label is an integer and the kid a
\* non-empty UTF-8 string.  alg 0 stands for an absent or textual label, kid ""
\* for an empty or non-UTF-8 one.
HeaderIsWellFormed(envelope) ==
  envelope.is_sign1 /\ envelope.alg # 0

\* A verified signature: the anchor's key signed exactly this Sig_structure.
\* payload is a set with at most one element.
SignatureHolds(envelope, anchor, aad) ==
  \E payload \in envelope.payload :
    envelope.signature =
      [pk |-> anchor.pk, tbs |-> ToBeSigned(envelope.alg, envelope.kid, aad, payload)]

\* verify_cose_sign1_with_cap: "Ok" or the first error.
verify_cose_sign1_with_cap(envelope, anchors, aad, role, max_bytes) ==
  LET guard == size_depth_check_with_cap(envelope, max_bytes)
      hits  == lookup_with_role(anchors, envelope.kid, role)
  IN  IF guard # "Ok" THEN guard
      ELSE IF ~HeaderIsWellFormed(envelope) THEN "MalformedHeader"
      ELSE IF envelope.alg # COSE_ALG_EDDSA THEN "UnsupportedAlg"
      ELSE IF envelope.kid = "" THEN "MalformedHeader"
      ELSE IF hits = {} THEN "UnknownKid"
      ELSE IF \E anchor \in hits : anchor.alg # envelope.alg THEN "AlgMismatch"
      ELSE IF envelope.payload = {} THEN "MalformedHeader"
      ELSE IF \A anchor \in hits : ~SignatureHolds(envelope, anchor, aad) THEN "SignatureInvalid"
      ELSE "Ok"
=============================================================================
