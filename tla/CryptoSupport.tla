---------------------------- MODULE CryptoSupport ----------------------------
(***************************************************************************)
(* The glue between a vector and live COSE verification: crypto_support.rs *)
(* of ephemeral-core.  A vector carries an optional blob (a hex string     *)
(* that should decode to an envelope) and an optional list of anchor       *)
(* definitions; options are sets with at most one element.                 *)
(***************************************************************************)
EXTENDS CoseVerify, FiniteSetsExt

\* Why definition i is refused, "Ok" if it is not.  fault is what is wrong with
\* the key bytes: HexDecode, InvalidPublicKeyEncoding, WeakPublicKey or "Ok".
DefError(defs, i) ==
  IF ~defs[i].is_ed25519 THEN "UnknownAlgString"
  ELSE IF ~(defs[i].role \subseteq Roles) THEN "InvalidAnchorRole"
  ELSE IF defs[i].fault # "Ok" THEN defs[i].fault
  ELSE IF \E j \in 1 .. (i - 1) : defs[j].kid = defs[i].kid THEN "DuplicateKid"
  ELSE "Ok"

\* The error of build_anchor_set: that of the first refused definition.
AnchorSetError(defs) ==
  LET refused == {i \in DOMAIN defs : DefError(defs, i) # "Ok"}
  IN  IF refused = {} THEN "Ok" ELSE DefError(defs, Min(refused))

\* A definition without a role takes the suite's.
build_anchor_set(defs, default_role) ==
  [i \in DOMAIN defs |->
     [kid  |-> defs[i].kid,
      alg  |-> COSE_ALG_EDDSA,
      pk   |-> defs[i].pk,
      role |-> IF defs[i].role = {} THEN default_role ELSE CHOOSE r \in defs[i].role : TRUE]]

verify_with_defs(blob, defs, aad, expected_role) ==
  IF ~blob.is_hex THEN "HexDecode"
  ELSE IF AnchorSetError(defs) # "Ok" THEN AnchorSetError(defs)
  ELSE verify_cose_sign1_with_cap(blob.envelope, build_anchor_set(defs, expected_role),
                                  aad, expected_role, MAX_COSE_BYTES)

\* The two suites that may verify live: a blob without anchors, or anchors
\* without a blob, is a missing signature and never falls back to the mock flag.
\* Answers "Ok", a CoseError, "Unpaired", or "Mock" when there is neither.
LiveSignature(blobs, anchor_defs, aad, role) ==
  IF blobs = {} /\ anchor_defs = {} THEN "Mock"
  ELSE IF blobs = {} \/ anchor_defs = {} THEN "Unpaired"
  ELSE verify_with_defs(CHOOSE b \in blobs : TRUE, CHOOSE d \in anchor_defs : TRUE, aad, role)
=============================================================================
