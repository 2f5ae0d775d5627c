---------------------------- MODULE VectorsTariff ----------------------------
(***************************************************************************)
(* The signed vectors of the tariff-reject and delegation-scope suites, as *)
(* the vector signer builds them: the live signatures of gen-phase-c1      *)
(* (main.rs) and the signed classifiers of gen-phase-c3-c (phase_c3_c.rs,  *)
(* with the fixtures of ephemeral-classifier).                             *)
(***************************************************************************)
EXTENDS Tariff

\* The key the delegation suite pins as its trust anchor.
KID_ROOT == "root"
KID_OPS == "K_cust_ops_pk_TEST"
KID_MANDATE == "K_mandate_signer_pk_TEST"
KID_TARIFF == "K_tariff_signer_pk_TEST"

\* 2026-05-01.
CURRENT_TIME == 1777593600

\* A key is named by who holds its seed.
sign_blob(seed, kid, payload, aad) ==
  [is_hex |-> TRUE,
   envelope |-> [size |-> 200, is_cbor |-> TRUE, depth |-> 2, is_sign1 |-> TRUE,
                 alg |-> COSE_ALG_EDDSA, kid |-> kid, payload |-> {payload},
                 signature |-> [pk |-> seed, tbs |-> ToBeSigned(COSE_ALG_EDDSA, kid, aad, payload)]]]

tamper_payload_byte(blob, payload) == [blob EXCEPT !.envelope.payload = {payload}]

anchor_def(kid, seed) ==
  [kid |-> kid, pk |-> seed, role |-> {}, is_ed25519 |-> TRUE, fault |-> "Ok"]

Rejected(code) == [outcome |-> "reject", reject_code |-> {code}]
Accepted == [outcome |-> "accept", reject_code |-> {}]

-----------------------------------------------------------------------------
(* gen-phase-c1.                                                           *)

\* A tariff with nothing but a signature context, a clock and a version on record.
BareTariff(valid_under_current_bytes) ==
  [ctx |-> [protected_header_has_alg |-> {}, crit_labels |-> {}, verifier_understands_crit |-> {},
            cose_alg_label |-> {}, kid_key_type |-> {}, signer_key_id |-> {KID_TARIFF},
            known_keys_in_store |-> {}, kid_to_key_resolution |-> {}, delegation_chain |-> {},
            delegation_chain_root_parent |-> {}, delegation_chain_link_signatures_valid |-> {},
            delegation_child_role |-> {}, required_role_for_tariff |-> {},
            signature_valid_under_current_bytes |-> {valid_under_current_bytes},
            revocation_list |-> {}, trust_anchors |-> {{KID_ROOT}},
            payload_encoding_detected |-> {}, cbor_is_deterministic |-> {},
            cbor_type_observed |-> {}, duplicate_map_keys_present |-> {},
            approved_attestor_registry |-> {}],
   current_time |-> CURRENT_TIME, previously_seen_version |-> {1},
   tariff_version_in_payload |-> {}, tariff_issued_at |-> {}, tariff_valid_from |-> {},
   tariff_valid_until |-> {}, clock_skew_tolerance_seconds |-> {},
   policy_max_iat_to_valid_from_gap_seconds |-> {}, policy_max_validity_seconds |-> {},
   policy_max_tariff_bytes |-> {}, observed_size_bytes |-> {}, policy_classifier_abi_version |-> {},
   cose_sign1_bytes |-> {}, trust_anchor_keys |-> {}, cose_sign1_bytes_classifier |-> {},
   wasm_bytes_classifier |-> {}, trust_anchor_keys_classifier |-> {}]

TariffVector(id, category, input, expected) ==
  [id |-> id, suite |-> "tariff-reject", category |-> category, input |-> input, expected |-> expected]

build_tariff_reject_vector(id, category, blob) ==
  TariffVector(id, category,
    [BareTariff(FALSE) EXCEPT !.cose_sign1_bytes = {blob},
                              !.trust_anchor_keys = {<<anchor_def(KID_TARIFF, "tariff")>>}],
    Rejected("signature-invalid"))

trej069 == build_tariff_reject_vector("trej-069", "sig-live-payload-mutated",
  tamper_payload_byte(sign_blob("tariff", KID_TARIFF, "tariff-body-v1", "tariff"), "tampered"))
trej070 == build_tariff_reject_vector("trej-070", "sig-live-aad-mismatch",
  sign_blob("tariff", KID_TARIFF, "tariff-body-v1", "delegation-link"))
trej071 == build_tariff_reject_vector("trej-071", "sig-live-impostor-key",
  sign_blob("attacker", KID_TARIFF, "tariff-body-v1", "tariff"))

LinkScope(max_tier, actions, tokens) ==
  [integrations |-> {{"stripe"}}, max_tier_signable |-> {max_tier},
   max_budget |-> {[actions |-> actions, tokens |-> tokens]}, max_exp_seconds |-> {86400},
   allowed_verbs |-> {{"charge"}}, allowed_resource_kinds |-> {{"payment"}}]

SignedLink(parent, child, role, scope, seed) ==
  [parent_key |-> parent, child_key |-> child, child_role |-> role, scope |-> scope,
   valid_from |-> 1714608000, valid_until |-> 1767139200, signed_by |-> {parent},
   signature_valid |-> TRUE,
   cose_sign1_bytes |-> {sign_blob(seed, parent, "delegation-link-body-v1", "delegation-link")}]

\* build_delegation_two_link_vector; its flags follow the mandate's signature.
TwoLinkVector(id, mandate_blob, mandate_sig_valid, expected) ==
  [id |-> id, suite |-> "delegation-scope", category |-> "none",
   input |->
     [chain |-> <<SignedLink(KID_ROOT, KID_OPS, "ops", LinkScope(4, 10000, 1000000), "root"),
                  SignedLink(KID_OPS, KID_MANDATE, "mandate_signer", LinkScope(3, 1000, 100000), "ops")>>,
      mandate |->
        [mandate_id |-> "m-phase-c1-068", integration_ref |-> "stripe",
         cap |-> {[verb |-> "charge", resource_kind |-> "payment", tier |-> 2, ref_has_star |-> FALSE]},
         budget |-> [actions |-> 5, tokens |-> 0], issued_at |-> 1714608100, exp |-> 1714694400,
         min_tariff_version |-> 1, signer_key_hint |-> {KID_MANDATE},
         signature_valid |-> mandate_sig_valid, cose_sign1_bytes |-> {mandate_blob}],
      anchor_defs |-> {<<anchor_def(KID_ROOT, "root"), anchor_def(KID_OPS, "ops"),
                         anchor_def(KID_MANDATE, "mandate")>>},
      context |-> [time |-> 1714608500, tariff_version |-> 2, revoked |-> <<>>, narrowness |-> 20]],
   expected |-> expected]

mandate_cose_ok == sign_blob("mandate", KID_MANDATE, "mandate-body-v1", "mandate")

ds069 == TwoLinkVector("ds-069", mandate_cose_ok, TRUE, Accepted)
ds070 == TwoLinkVector("ds-070", tamper_payload_byte(mandate_cose_ok, "tampered"), FALSE,
                       Rejected("signature-invalid"))

-----------------------------------------------------------------------------
(* gen-phase-c3-c.                                                         *)

CLASSIFIER_WASM == "phase-c3-c-classifier-wasm-blob-v1"
ALT_CLASSIFIER_WASM == "phase-c3-c-alternate-wasm-blob"
ABI_V2 == 2
IMPOSTOR_OUTER_KID == "K_impostor_classifier_pk"
FIXTURE_CLASSIFIER_KID == "K_fixture_classifier_pk"

ClassifierSigPayload(sha256, abi_version) ==
  [size |-> 100, decodes |-> TRUE, sha256 |-> sha256, abi_version |-> abi_version,
   signer_kid |-> FIXTURE_CLASSIFIER_KID, kid_len |-> 23]

sign_envelope_raw(payload, outer_kid) ==
  sign_blob("fixture-classifier", outer_kid, payload, CLASSIFIER_AAD)

sign_classifier_envelope(wasm, abi_version) ==
  sign_envelope_raw(ClassifierSigPayload({wasm}, abi_version), FIXTURE_CLASSIFIER_KID)

happy_envelope(wasm) == sign_classifier_envelope(wasm, CLASSIFIER_ABI_VERSION)

classifier_anchor_def(kid) == {<<anchor_def(kid, "fixture-classifier")>>}

\* build_vector of phase_c3_c.rs: a tariff with an envelope over its classifier.
build_vector(id, category, blob, anchors, abi_override, expected) ==
  TariffVector(id, category,
    [BareTariff(TRUE) EXCEPT !.cose_sign1_bytes_classifier = {blob},
                             !.wasm_bytes_classifier = {CLASSIFIER_WASM},
                             !.trust_anchor_keys_classifier = anchors,
                             !.policy_classifier_abi_version = abi_override], expected)

Refused(id, category, blob, code) ==
  build_vector(id, category, blob, classifier_anchor_def(FIXTURE_CLASSIFIER_KID), {}, Rejected(code))

\* The flipped byte is the first of the payload: it does not decode any more.
build_trej_120 == Refused("trej-120", "live-classifier-sig-cose-verify-tampered",
  tamper_payload_byte(happy_envelope(CLASSIFIER_WASM),
    [ClassifierSigPayload({CLASSIFIER_WASM}, CLASSIFIER_ABI_VERSION) EXCEPT !.decodes = FALSE]),
  "classifier-signature-invalid")

build_trej_121 == Refused("trej-121", "live-classifier-sig-payload-sha256-wrong-length",
  sign_envelope_raw(ClassifierSigPayload({}, CLASSIFIER_ABI_VERSION), FIXTURE_CLASSIFIER_KID),
  "classifier-signature-payload-malformed")

build_trej_122 == Refused("trej-122", "live-classifier-sig-abi-version-mismatch",
  sign_classifier_envelope(CLASSIFIER_WASM, ABI_V2), "classifier-abi-version-mismatch")

build_trej_123 == Refused("trej-123", "live-classifier-sig-wasm-hash-mismatch",
  happy_envelope(ALT_CLASSIFIER_WASM), "classifier-wasm-hash-mismatch")

\* The anchor answers to the impostor's kid, the payload names the fixture's.
build_trej_124 == build_vector("trej-124", "live-classifier-sig-inner-kid-mismatch",
  sign_envelope_raw(ClassifierSigPayload({CLASSIFIER_WASM}, CLASSIFIER_ABI_VERSION), IMPOSTOR_OUTER_KID),
  classifier_anchor_def(IMPOSTOR_OUTER_KID), {}, Rejected("classifier-signer-kid-mismatch"))

build_trej_125 == build_vector("trej-125", "live-classifier-sig-partial-triple-missing-anchors",
  happy_envelope(CLASSIFIER_WASM), {}, {}, Rejected("classifier-signature-invalid"))

build_trej_126 == build_vector("trej-126", "live-classifier-sig-happy-default-abi",
  happy_envelope(CLASSIFIER_WASM), classifier_anchor_def(FIXTURE_CLASSIFIER_KID), {}, Accepted)

build_trej_127 == build_vector("trej-127", "live-classifier-sig-happy-abi-override",
  sign_classifier_envelope(CLASSIFIER_WASM, ABI_V2), classifier_anchor_def(FIXTURE_CLASSIFIER_KID),
  {ABI_V2}, Accepted)

TariffVectors ==
  <<trej069, trej070, trej071, build_trej_120, build_trej_121, build_trej_122, build_trej_123,
    build_trej_124, build_trej_125, build_trej_126, build_trej_127>>
DelegationVectors == <<ds069, ds070>>
=============================================================================
