------------------------------ MODULE MCRouter ------------------------------
(***************************************************************************)
(* Artefacts for the router: for each verifier one or two that are         *)
(* accepted in some contexts, and their defective neighbours.              *)
(***************************************************************************)
EXTENDS Router, TLC

Opt(x) == {x}
None == {}

AnchorDef(kid, pk, role) ==
  [kid |-> kid, pk |-> pk, role |-> role, is_ed25519 |-> TRUE, fault |-> "Ok"]

Sign1(pk, kid, aad, payload) ==
  [size |-> 200, is_cbor |-> TRUE, depth |-> 4, is_sign1 |-> TRUE, alg |-> -8, kid |-> kid,
   payload |-> {payload}, signature |-> [pk |-> pk, tbs |-> D!ToBeSigned(-8, kid, aad, payload)]]
Blob(envelope) == [is_hex |-> TRUE, envelope |-> envelope]
-----------------------------------------------------------------------------
\* Delegation.
Scope(verbs, kinds, tier, actions, seconds) ==
  [integrations |-> {{"acme"}}, max_tier_signable |-> {tier},
   max_budget |-> {[actions |-> actions, tokens |-> 10]}, max_exp_seconds |-> {seconds},
   allowed_verbs |-> {verbs}, allowed_resource_kinds |-> {kinds}]
Wide == Scope({"*"}, {"*"}, 3, 50, 10)
Narrow == Scope({"read"}, {"file"}, 1, 5, 4)

Link(parent, child, role, scope, from, until) ==
  [parent_key |-> parent, child_key |-> child, child_role |-> role, scope |-> scope,
   valid_from |-> from, valid_until |-> until, signed_by |-> {parent},
   signature_valid |-> TRUE, cose_sign1_bytes |-> None]
Cap(verb, kind, tier) == [verb |-> verb, resource_kind |-> kind, tier |-> tier, ref_has_star |-> FALSE]
Mandate(cap, actions, issued, exp, min_version, hint) ==
  [mandate_id |-> "m", integration_ref |-> "acme", cap |-> cap,
   budget |-> [actions |-> actions, tokens |-> 1], issued_at |-> issued, exp |-> exp,
   min_tariff_version |-> min_version, signer_key_hint |-> hint,
   signature_valid |-> TRUE, cose_sign1_bytes |-> None]
Case(chain, mandate) == [chain |-> chain, mandate |-> mandate, anchor_defs |-> None]

DelegationDefs == {<<AnchorDef("d1", "pk-d", None), AnchorDef("t1", "pk-t", {"TariffSigner"})>>}
LiveLink(link, pk, kid, aad) == [link EXCEPT !.cose_sign1_bytes = {Blob(Sign1(pk, kid, aad, "link"))}]
LiveCase(pk, kid, aad) ==
  [chain |-> <<LiveLink(Link("root", "sig", "ops", Narrow, 0, 4), pk, kid, aad)>>,
   mandate |-> [Mandate({Cap("read", "file", 0)}, 1, 0, 4, 0, {"sig"}) EXCEPT
                  !.cose_sign1_bytes = {Blob(Sign1("pk-d", "d1", "mandate", "mandate"))}],
   anchor_defs |-> DelegationDefs]

Path == <<Link("root", "ops1", "ops", Wide, 0, 4), Link("ops1", "sig", "mandate_signer", Narrow, 1, 4)>>
Stray == <<Link("root", "ops1", "ops", Wide, 0, 4), Link("ops2", "sig", "mandate_signer", Narrow, 1, 4)>>
Upside == <<Link("root", "ops1", "ops", Narrow, 0, 4), Link("ops1", "sig", "mandate_signer", Wide, 0, 4)>>
Read == {Cap("read", "file", 1)}

PathMandates ==
  <<Case(Path, Mandate(Read, 3, 0, 3, 1, {"sig"})),
    Case(Upside, Mandate({Cap("write", "file", 1)}, 3, 0, 3, 0, {"sig"})),
    Case(Upside, Mandate({Cap("*", "file", 1)}, 3, 0, 3, 0, {})),
    Case(Upside, Mandate({Cap("read", "file", 2)}, 3, 0, 3, 0, {})),
    Case(Upside, Mandate(Read, 6, 0, 3, 0, {})),
    Case(Upside, Mandate(Read, -1, 0, 3, 0, {})),
    Case(Upside, Mandate(Read, 3, 0, 5, 0, {})),
    Case(Upside, Mandate({}, 3, 0, 3, 0, {})),
    Case(<<Link("root", "ops1", "ops", Wide, 0, 4)>>, Mandate({Cap("*", "*", 3)}, 21, 0, 4, 0, {})),
    Case(<<Link("ops1", "sig", "ops", Wide, 0, 4)>>, Mandate(Read, 3, 0, 3, 0, {"sig"})),
    Case(<<Link("root", "sig", "mandate_signer", Wide, 0, 4)>>, Mandate(Read, 3, 0, 3, 0, {"sig"})),
    Case(<<>>, Mandate(Read, 3, 0, 3, 0, {"sig"})),
    LiveCase("pk-d", "d1", "delegation-link"),
    LiveCase("pk-t", "t1", "delegation-link"),
    LiveCase("pk-d", "d1", "mandate")>>

\* A chain whose second link was issued by a key the first one does not name.
StrayMandates == <<Case(Path, Mandate(Read, 3, 0, 3, 0, {"sig"})),
                   Case(Stray, Mandate(Read, 3, 0, 3, 0, {"sig"}))>>
-----------------------------------------------------------------------------
\* Tariffs.
Ctx == [protected_header_has_alg |-> {TRUE}, crit_labels |-> None, verifier_understands_crit |-> None,
        cose_alg_label |-> {-8}, kid_key_type |-> {"OKP"}, signer_key_id |-> {"t1"},
        known_keys_in_store |-> {{"t1"}}, kid_to_key_resolution |-> None, delegation_chain |-> None,
        delegation_chain_root_parent |-> {"root"}, delegation_chain_link_signatures_valid |-> {{TRUE}},
        delegation_child_role |-> {"tariff_signer"}, required_role_for_tariff |-> {"tariff_signer"},
        signature_valid_under_current_bytes |-> {TRUE}, revocation_list |-> {{}},
        trust_anchors |-> {{"t1"}}, payload_encoding_detected |-> None, cbor_is_deterministic |-> {TRUE},
        cbor_type_observed |-> None, duplicate_map_keys_present |-> None,
        approved_attestor_registry |-> None]
Tariff(version, from, until) ==
  [ctx |-> Ctx, current_time |-> 0, previously_seen_version |-> None,
   tariff_version_in_payload |-> version, tariff_issued_at |-> {from}, tariff_valid_from |-> {from},
   tariff_valid_until |-> {until}, clock_skew_tolerance_seconds |-> {0},
   policy_max_iat_to_valid_from_gap_seconds |-> None, policy_max_validity_seconds |-> None,
   policy_max_tariff_bytes |-> {100}, observed_size_bytes |-> {50},
   policy_classifier_abi_version |-> None,
   cose_sign1_bytes |-> None, trust_anchor_keys |-> None,
   cose_sign1_bytes_classifier |-> None, wasm_bytes_classifier |-> None,
   trust_anchor_keys_classifier |-> None]
Commitment(wasm, kid) ==
  [size |-> 100, decodes |-> TRUE, sha256 |-> {wasm}, abi_version |-> 1, signer_kid |-> kid, kid_len |-> 2]
WithClassifier(t, wasm, committed, kid, def) ==
  [t EXCEPT !.wasm_bytes_classifier = {wasm},
            !.cose_sign1_bytes_classifier =
               {Blob(Sign1(def.pk, def.kid, T!CLASSIFIER_AAD, Commitment(committed, kid)))},
            !.trust_anchor_keys_classifier = {<<def>>}]
ClassifierDef == AnchorDef("c1", "pk-c", {"ClassifierSigner"})
TariffDefs == {<<AnchorDef("t1", "pk-t", None)>>}
Plain(input) == [input |-> input, category |-> "none"]

SomeTariffs ==
  <<Plain(Tariff({1}, 0, 4)),
    Plain(WithClassifier(Tariff({2}, 0, 2), "w1", "w1", "c1", ClassifierDef)),
    Plain([Tariff({2}, 1, 4) EXCEPT !.cose_sign1_bytes = {Blob(Sign1("pk-t", "t1", "tariff", "t"))},
                                    !.trust_anchor_keys = TariffDefs]),
    Plain([Tariff({3}, 1, 4) EXCEPT !.cose_sign1_bytes = {Blob(Sign1("pk-t", "t1", "mandate", "t"))},
                                    !.trust_anchor_keys = TariffDefs]),
    Plain([Tariff({3}, 1, 4) EXCEPT !.cose_sign1_bytes = {Blob(Sign1("pk-t", "t1", "tariff", "t"))}]),
    Plain([Tariff({3}, 0, 4) EXCEPT !.wasm_bytes_classifier = {"w1"}]),
    Plain(WithClassifier(Tariff({3}, 0, 4), "w2", "w1", "c1", ClassifierDef)),
    Plain(WithClassifier(Tariff({3}, 0, 4), "w1", "w1", "c2", ClassifierDef)),
    Plain(WithClassifier(Tariff({3}, 0, 4), "w1", "w1", "t1", AnchorDef("t1", "pk-t", {"TariffSigner"}))),
    Plain(Tariff({3}, 2, 1)),
    Plain([Tariff({3}, 0, 4) EXCEPT !.observed_size_bytes = {101}]),
    [input |-> Tariff({3}, 0, 4), category |-> "tier-negative"]>>
-----------------------------------------------------------------------------
\* PCR bundles.
Requirement ==
  [quorum |-> 2, attestors |-> {"a1", "a2", "a3"}, expected_pcrs |-> {0 :> "h0" @@ 8 :> "h8"},
   strict_mode |-> TRUE, not_before |-> "a2" :> 0, attestation_max_age_seconds |-> {1},
   issued_at |-> {0}, bundle_max_size_bytes |-> {1000}, required_witness_cosignatures |-> {1},
   trusted_transparency_logs |-> {{"log"}}, transparency_log_max_root_age_seconds |-> {2}]
Att(id, iat, bound, pcrs) ==
  [attestor_id |-> {id}, iat |-> {iat}, nonce |-> bound, has_comment |-> FALSE,
   signature_valid |-> TRUE, pcrs |-> pcrs]
MockProof ==
  [inclusion_proof_is_null |-> FALSE, inclusion_proof_valid |-> {TRUE}, root_age_seconds |-> {1},
   log_id |-> "log", entry_index |-> {1}, sth_tree_size |-> {3}, witness_count |-> 1,
   proof_path_hex |-> None, sth_signature_hex |-> None, sth_timestamp |-> None,
   sth_tree_root_hex |-> None, log_pubkey_hex |-> None, entry_leaf_hash_hex |-> None,
   current_time |-> None, log_key_valid_from |-> None, log_key_valid_until |-> None,
   max_root_age_seconds_override |-> None, hex_ok |-> TRUE]
TwoLeaves == P!inner_hash(P!leaf_hash("x"), P!leaf_hash("y"))
LiveProof(index, override) ==
  [MockProof EXCEPT !.entry_index = {index}, !.sth_tree_size = {2}, !.sth_tree_root_hex = {TwoLeaves},
     !.proof_path_hex = {<<P!leaf_hash("x")>>}, !.entry_leaf_hash_hex = {P!leaf_hash("y")},
     !.sth_timestamp = {0}, !.current_time = {1}, !.log_pubkey_hex = {"pk-log"},
     !.max_root_age_seconds_override = override,
     !.sth_signature_hex = {[pk |-> "pk-log", tbs |-> <<"log", 2, TwoLeaves, 0>>]}]
Bundle(atts, proofs) ==
  [requirement |-> Requirement, bundle |-> {[attestations |-> atts, transparency_log_proof |-> proofs]},
   current_time |-> 0, revoked |-> {}, nonce_issued |-> "n1", nonce_consumed |-> {},
   declared_size |-> {500}, has_raw_hex |-> FALSE]
Good == 0 :> "h0" @@ 8 :> "h8"
Two(bound) == <<Att("a1", 1, bound, Good), Att("a2", 1, bound, 0 :> "h0")>>

SomeBundles ==
  <<Bundle(Two({"n1"}), {MockProof}),
    Bundle(Two({}), {LiveProof(1, {})}),
    Bundle(Two({}), {LiveProof(0, {})}),
    Bundle(Two({}), {LiveProof(1, {0})}),
    Bundle(Two({}), {[MockProof EXCEPT !.sth_timestamp = {0}]}),
    Bundle(Two({}), {[MockProof EXCEPT !.entry_index = {4}]}),
    Bundle(Two({}), {}),
    Bundle(<<Att("a1", 1, {}, Good), Att("a2", 1, {}, 0 :> "h1")>>, {MockProof}),
    Bundle(<<Att("a1", 1, {}, 0 :> "h0"), Att("a2", 1, {}, 0 :> "h0")>>, {MockProof}),
    Bundle(<<Att("a1", 1, {}, Good), Att("a1", 1, {}, Good)>>, {MockProof}),
    Bundle(<<Att("a1", 1, {}, Good), Att("a9", 1, {}, Good)>>, {MockProof}),
    Bundle(<<Att("a1", 1, {}, Good)>>, {MockProof}),
    Bundle(<<Att("a1", 1, {}, Good), Att("a2", -1, {}, 24 :> "h0")>>, {MockProof})>>
-----------------------------------------------------------------------------
\* Nitro documents.
Cert(id, from, until, signer) ==
  [id |-> id, decodes |-> TRUE, not_before |-> from, not_after |-> until,
   sig_alg |-> "ecdsa-with-SHA384", is_p384 |-> TRUE, pk |-> id, signed_by |-> signer]
RootCert == Cert("ca", 0, 9, "ca")
Doc(payload, signer) ==
  [size |-> 900, is_cbor |-> TRUE, depth |-> 3, is_sign1 |-> TRUE, is_map |-> TRUE, alg |-> {-35},
   payload |-> payload, signature |-> [pk |-> signer, tbs |-> <<{-35}, payload>>]]
Claims(leaf, middle) ==
  <<<<"timestamp", 1>>, <<"certificate", leaf>>, <<"cabundle", middle>>, <<"cabundle", RootCert>>,
    <<"nonce", {"n1"}>>, <<"pcrs", <<0, "h0">>>>, <<"pcrs", <<300, "h9">>>>>>
Live(doc, expected) ==
  [is_hex |-> TRUE, doc |-> doc, roots |-> <<{RootCert}>>, expected_nonce |-> {"n1"},
   expected_pcrs |-> expected, current_time |-> 0]
LeafCert == Cert("leaf", 0, 3, "mid")
MidCert == Cert("mid", 1, 2, "ca")

SomeDocuments ==
  <<Live(Doc(Claims(LeafCert, MidCert), "leaf"), {<<0, "h0">>}),
    Live(Doc(Claims(LeafCert, MidCert), "mid"), {<<0, "h0">>}),
    Live(Doc(Claims(LeafCert, [MidCert EXCEPT !.signed_by = "x"]), "leaf"), {<<0, "h0">>}),
    Live(Doc(Append(Claims(LeafCert, MidCert), <<"pcrs", <<0, "h1">>>>), "leaf"), {<<0, "h0">>}),
    Live(Doc(Append(Claims(LeafCert, MidCert), <<"nonce", {"n2"}>>), "leaf"), {<<0, "h0">>}),
    Live(Doc(Claims(LeafCert, MidCert), "leaf"), {<<300, "h9">>}),
    Live(Doc(<<<<"timestamp", -1>>>>, "leaf"), {}),
    Live(Doc(Claims([LeafCert EXCEPT !.sig_alg = "ecdsa-with-SHA1"], MidCert), "leaf"), {})>>
=============================================================================
