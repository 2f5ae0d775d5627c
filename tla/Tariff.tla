------------------------------- MODULE Tariff -------------------------------
(***************************************************************************)
(* The tariff verifier: suites/tariff.rs of ephemeral-core; before it what *)
(* binds a classifier binary to an authority: the signed commitment        *)
(* (signature.rs) and the hash pinned by a tariff (hash.rs) of             *)
(* ephemeral-classifier.  A binary stands for its own SHA-256 digest.      *)
(*                                                                         *)
(* A tariff is a record whose fields are options, except the time it is    *)
(* judged at.  The payload of a vector is opaque to the code: what it      *)
(* cannot inspect is named by the vector's category, and so it is here.    *)
(***************************************************************************)
EXTENDS CryptoSupport

CLASSIFIER_AAD == "ephemeral/classifier/v1"
CLASSIFIER_ABI_VERSION == 1
MAX_INNER_KID_BYTES == 256
MAX_INNER_PAYLOAD_BYTES == 4096

\* The signed payload is a record [size, decodes, sha256, abi_version,
\* signer_kid, kid_len]; sha256 {} stands for a digest of the wrong length.
verify_classifier_signature(wasm, envelope, anchors, expected_abi) ==
  IF verify_cose_sign1_with_cap(envelope, anchors, CLASSIFIER_AAD,
                                "ClassifierSigner", MAX_COSE_BYTES) # "Ok"
    THEN "CoseVerifyFailed"
  ELSE LET payload == CHOOSE p \in envelope.payload : TRUE
       IN  IF \/ payload.size > MAX_INNER_PAYLOAD_BYTES
              \/ ~payload.decodes
              \/ payload.sha256 = {}
              \/ payload.kid_len > MAX_INNER_KID_BYTES
             THEN "PayloadDecodeFailed"
           ELSE IF payload.abi_version # expected_abi THEN "AbiVersionMismatch"
           ELSE IF payload.signer_kid # envelope.kid THEN "SignerKidMismatch"
           ELSE IF payload.sha256 # {wasm} THEN "WasmHashMismatch"
           ELSE "Ok"

\* A pin is 64 lowercase hex digits; {} is anything else.
verify_classifier_hash(wasm, pinned) ==
  IF pinned = {} THEN "InvalidHashHex"
  ELSE IF pinned # {wasm} THEN "HashMismatch"
  ELSE "Ok"

-----------------------------------------------------------------------------

LOCAL TRUST_ANCHOR == "root"
DEFAULT_CLOCK_SKEW_TOLERANCE_SECONDS == 300
MAX_IAT_TO_NBF_GAP_SECONDS == 2592000
MAX_VALIDITY_PERIOD_SECONDS == 2592000

\* A timestamp that is not RFC 3339.
Unparsable == -1

\* Option::unwrap_or.
UnwrapOr(option, default) == IF option = {} THEN default ELSE CHOOSE v \in option : TRUE

\* Steps 2 to 5: the flags of the verification context.
EnvelopeVerdict(ctx) ==
  IF ctx.protected_header_has_alg = {FALSE} THEN "cose-malformed"
  ELSE IF (\E c \in ctx.crit_labels : c # {}) /\ ctx.verifier_understands_crit = {FALSE}
    THEN "cose-malformed"
  ELSE IF \E alg \in ctx.cose_alg_label : alg # COSE_ALG_EDDSA
    THEN "signature-algorithm-unsupported"
  ELSE IF ctx.cose_alg_label # {} /\ \E k \in ctx.kid_key_type : k # "OKP"
    THEN "signature-algorithm-mismatch"
  ELSE IF \E s \in ctx.signer_key_id, known \in ctx.known_keys_in_store : s \notin known
    THEN "kid-unknown"
  ELSE IF \/ ctx.kid_to_key_resolution = {"mismatch"}
          \/ ctx.delegation_chain = {<<>>}
          \/ \E r \in ctx.delegation_chain_root_parent : r # TRUST_ANCHOR
          \/ \E valid \in ctx.delegation_chain_link_signatures_valid : FALSE \in valid
          \/ \E a \in ctx.delegation_child_role, r \in ctx.required_role_for_tariff : a # r
    THEN "signature-chain-broken"
  ELSE "ok"

map_cose_error_to_tariff(error) ==
  CASE error = "UnknownKid"      -> "kid-unknown"
    [] error = "UnsupportedAlg"  -> "signature-algorithm-unsupported"
    [] error = "AlgMismatch"     -> "signature-algorithm-mismatch"
    [] error = "PayloadTooLarge" -> "tariff-oversize"
    [] error \in {"MalformedHeader", "CborParse", "CborDepthExceeded", "HexDecode"}
                                 -> "cose-malformed"
    [] OTHER                     -> "signature-invalid"

\* Step 6: live when the vector carries both halves, mock when it has neither.
SignatureVerdict(input) ==
  LET live == LiveSignature(input.cose_sign1_bytes, input.trust_anchor_keys,
                            "tariff", "TariffSigner")
  IN  IF live = "Mock"
        THEN IF input.ctx.signature_valid_under_current_bytes = {FALSE}
               THEN "signature-invalid" ELSE "ok"
      ELSE IF live = "Ok" THEN "ok"
      ELSE map_cose_error_to_tariff(live)

\* Steps 7 to 9: revocation, the wrong key, the encoding of the payload.
StandingVerdict(input, category) ==
  LET ctx == input.ctx
  IN  IF /\ \E s \in ctx.signer_key_id, revoked \in ctx.revocation_list : s \in revoked
         /\ category # "redteam-OPCE-stale-tariff-replay" THEN "revoked"
      ELSE IF /\ category = "sig-invalid-wrong-key"
              /\ \E s \in ctx.signer_key_id, anchors \in ctx.trust_anchors : s \notin anchors
        THEN "signature-invalid"
      ELSE IF ctx.payload_encoding_detected = {"json"} THEN "payload-encoding-invalid"
      ELSE IF ctx.cbor_is_deterministic = {FALSE} \/ ctx.cbor_type_observed = {"float"}
        THEN "payload-not-deterministic-cbor"
      ELSE IF ctx.duplicate_map_keys_present = {TRUE} THEN "tariff-duplicate-entries"
      ELSE "ok"

map_classifier_sig_error_to_tariff(error) ==
  CASE error = "PayloadDecodeFailed" -> "classifier-signature-payload-malformed"
    [] error = "AbiVersionMismatch"  -> "classifier-abi-version-mismatch"
    [] error = "WasmHashMismatch"    -> "classifier-wasm-hash-mismatch"
    [] error = "SignerKidMismatch"   -> "classifier-signer-kid-mismatch"
    [] OTHER                         -> "classifier-signature-invalid"

\* Mutant: a lone binary without its envelope is let through.
ClassifierVerdict_PartialSkips(input) ==
  IF {} \in {input.cose_sign1_bytes_classifier, input.wasm_bytes_classifier,
             input.trust_anchor_keys_classifier} THEN "ok"
  ELSE LET blob == CHOOSE b \in input.cose_sign1_bytes_classifier : TRUE
           wasm == CHOOSE w \in input.wasm_bytes_classifier : TRUE
           defs == CHOOSE d \in input.trust_anchor_keys_classifier : TRUE
       IN  IF verify_classifier_signature(wasm, blob.envelope,
                build_anchor_set(defs, "ClassifierSigner"), CLASSIFIER_ABI_VERSION) = "Ok"
             THEN "ok" ELSE "classifier-signature-invalid"

\* Step 9.5: the envelope, the binary and the anchors come together or not at all.
\* A binary that is not hex is the string "nothex".
ClassifierVerdict(input) ==
  LET parts == <<input.cose_sign1_bytes_classifier, input.wasm_bytes_classifier,
                 input.trust_anchor_keys_classifier>>
  IN  IF \A i \in 1 .. 3 : parts[i] = {} THEN "ok"
      ELSE IF \E i \in 1 .. 3 : parts[i] = {} THEN "classifier-signature-invalid"
      ELSE LET blob == CHOOSE b \in parts[1] : TRUE
               wasm == CHOOSE w \in parts[2] : TRUE
               defs == CHOOSE d \in parts[3] : TRUE
               sig  == verify_classifier_signature(wasm, blob.envelope,
                         build_anchor_set(defs, "ClassifierSigner"),
                         UnwrapOr(input.policy_classifier_abi_version, CLASSIFIER_ABI_VERSION))
           IN  IF ~blob.is_hex \/ wasm = "nothex" \/ AnchorSetError(defs) # "Ok"
                 THEN "classifier-signature-invalid"
               ELSE IF sig = "Ok" THEN "ok"
               ELSE map_classifier_sig_error_to_tariff(sig)

\* Mutant: a version that was already seen passes again.
VersionVerdict_Replay(input) ==
  IF \E v \in input.tariff_version_in_payload, seen \in input.previously_seen_version : v < seen
    THEN "version-too-old" ELSE "ok"

\* Step 10.  A version that is not an integer is {}: it is not compared.
VersionVerdict(input) ==
  IF \E v \in input.tariff_version_in_payload, seen \in input.previously_seen_version : v <= seen
    THEN "version-too-old" ELSE "ok"

\* Mutant: the edge of the validity window is still valid.
ExpiredAt_Edge(until, now) == until < now

ExpiredAt(until, now) == until <= now

\* Step 11.  valid_from is compared with the issue time, never with the clock.
ValidityVerdict(input, category) ==
  LET now == input.current_time
      iat == input.tariff_issued_at
      vf  == input.tariff_valid_from
      vu  == input.tariff_valid_until
      skew == UnwrapOr(input.clock_skew_tolerance_seconds, DEFAULT_CLOCK_SKEW_TOLERANCE_SECONDS)
      max_gap == UnwrapOr(input.policy_max_iat_to_valid_from_gap_seconds, MAX_IAT_TO_NBF_GAP_SECONDS)
      max_period == UnwrapOr(input.policy_max_validity_seconds, MAX_VALIDITY_PERIOD_SECONDS)
  IN  IF \/ Unparsable \in {now} \cup vu
         \/ vu # {} /\ Unparsable \in iat
         \/ \E u \in vu, i \in iat : u <= i THEN "tariff-malformed"
      ELSE IF \E u \in vu : ExpiredAt(u, now) THEN "expired"
      ELSE IF Unparsable \in iat THEN "tariff-malformed"
      ELSE IF \E i \in iat : i - now > skew
        THEN IF category = "expired-issued-in-future" THEN "clock-skew-exceeded" ELSE "not-yet-valid"
      ELSE IF iat # {} /\ Unparsable \in vf THEN "tariff-malformed"
      ELSE IF \E i \in iat, f \in vf : f - i > max_gap THEN "tariff-iat-nbf-gap-excessive"
      ELSE IF \E i \in iat, u \in vu : u - i > max_period THEN "tariff-validity-period-excessive"
      ELSE "ok"

\* Step 13: the categories that name a defect of the opaque payload.
dispatch_by_category(category) ==
  CASE category = "redteam-OPCE-stale-tariff-replay" -> "version-too-old"
    [] category = "version-skew-minimum-tariff-version" -> "tariff-self-inconsistent-version"
    [] category \in {"missing-classifier_fuzz_attestation", "redteam-V3-8-fuzz-attestation-missing"}
         -> "tariff-fuzz-attestation-missing"
    [] category = "wasm-hash-not-in-attestation" -> "tariff-fuzz-attestation-mismatch"
    [] category = "extra-unrecognized-field" -> "tariff-unknown-field"
    [] category \in {"tier-out-of-range", "tier-negative"} -> "tariff-tier-out-of-range"
    [] category \in {"rate_matrix-missing-tier", "edge-single-action"} -> "rate-matrix-incomplete"
    [] category = "pcr-attestor-list-empty" -> "tariff-pcr-attestors-empty"
    [] category = "pcr-quorum-greater-than-attestors" -> "tariff-pcr-quorum-invalid"
    [] category = "integration-unknown" -> "tariff-integration-unknown"
    [] category = "action-verb-invalid" -> "tariff-verb-invalid"
    [] category = "resource-kind-invalid" -> "tariff-resource-kind-invalid"
    [] category = "edge-circular-reference" -> "tariff-circular-reference"
    [] category \in {"version-not-integer", "version-zero-or-negative", "version-missing",
                     "expired-not_before-after-not_after", "missing-minimum_tiers",
                     "missing-classifier_wasm_hash", "missing-rate_matrix", "missing-pcr_attestors",
                     "wrong-type-minimum_tiers-array", "wrong-type-version-nested",
                     "wasm-hash-not-hex", "edge-zero-actions", "missing-revocation_channel_ha",
                     "revocation_channel_ha-insufficient-redundancy",
                     "revocation_channel_ha-multi-provider-violation-tier4",
                     "revocation_channel_ha-admin-bypass-missing"} -> "tariff-malformed"
    [] OTHER -> "ok"

\* classify: "ok" or the code of the first step that fails.
classify(input, category) ==
  LET steps == <<EnvelopeVerdict(input.ctx), SignatureVerdict(input),
                 StandingVerdict(input, category), ClassifierVerdict(input),
                 VersionVerdict(input), ValidityVerdict(input, category)>>
      failing == {i \in DOMAIN steps : steps[i] # "ok"}
  IN  IF \E max \in input.policy_max_tariff_bytes, size \in input.observed_size_bytes : size > max
        THEN "tariff-oversize"
      ELSE IF failing # {} THEN steps[Min(failing)]
      ELSE IF /\ category = "redteam-V3-3-pcr-attestors-not-trusted-list"
              /\ input.ctx.approved_attestor_registry # {} THEN "pcr-attestor-not-trusted"
      ELSE dispatch_by_category(category)

\* What the suite makes of a vector [category, input, expected].
execute(vector) ==
  LET produced == classify(vector.input, vector.category)
      expected == vector.expected
  IN  IF \/ expected.outcome = "accept" /\ produced = "ok"
         \/ /\ expected.outcome = "reject" /\ produced # "ok"
            /\ expected.reject_code = {produced}
        THEN "Pass" ELSE "Fail"
=============================================================================
