----------------------------- MODULE VectorsPcr -----------------------------
(***************************************************************************)
(* The signed vectors of the pcr-attestation-reject suite, as the vector   *)
(* signer builds them: Nitro documents (main.rs, with the documents of     *)
(* ephemeral-attestation-test-support) and Rekor proofs (phase_c2_5.rs,    *)
(* merkle.rs).  Every vector has one defect and must be rejected for it.   *)
(***************************************************************************)
EXTENDS PcrSuite, TLC

C2_CURRENT_TIME == 1700000000

RejectVector(id, category, input, code) ==
  [id |-> id, suite |-> "pcr-attestation-reject", category |-> category, input |-> input,
   expected |-> [outcome |-> "reject", reject_code |-> {code}]]

-----------------------------------------------------------------------------
(* Nitro documents.                                                        *)

CaSeeds == [root |-> 1, intermediate |-> 2, leaf |-> 3, impostor |-> 4]

BuildParams ==
  [now |-> C2_CURRENT_TIME, leaf_not_after |-> C2_CURRENT_TIME + 31536000, nonce |-> {},
   alg |-> COSE_ALG_ES384, duplicate_pcr |-> FALSE, tamper |-> FALSE,
   break_ca_chain |-> FALSE, seeds |-> CaSeeds]

\* A key stands for its seed, a certificate is told apart by its key.
build_cert_der(key, signer, not_before, not_after) ==
  [id |-> key, decodes |-> TRUE, not_before |-> not_before, not_after |-> not_after,
   sig_alg |-> "ecdsa-with-SHA384", is_p384 |-> TRUE, pk |-> key, signed_by |-> signer]

build_chain(p) ==
  LET ca(key, signer) == build_cert_der(key, signer, p.now - 86400, p.now + 315360000)
  IN  [root         |-> ca(p.seeds.root, p.seeds.root),
       intermediate |-> ca(p.seeds.intermediate,
                           IF p.break_ca_chain THEN p.seeds.impostor ELSE p.seeds.root),
       leaf         |-> build_cert_der(p.seeds.leaf, p.seeds.intermediate,
                                       p.now - 3600, p.leaf_not_after)]

build_payload_cbor(p, chain) ==
  <<<<"module_id", "i-test-module-00">>, <<"digest", "SHA384">>, <<"timestamp", p.now>>,
    <<"pcrs", <<0, "AA">>>>, <<"pcrs", <<1, "AA">>>>>>
  \o (IF p.duplicate_pcr THEN <<<<"pcrs", <<0, "BB">>>>>> ELSE <<>>)
  \o <<<<"certificate", chain.leaf>>, <<"cabundle", chain.intermediate>>, <<"cabundle", chain.root>>,
       <<"public_key", chain.leaf.pk>>>>
  \o (IF p.nonce = {} THEN <<>> ELSE <<<<"nonce", p.nonce>>>>)

\* build_cose_sign1: tampering alters the last entry after the signature is made.
build_attestation_doc(p) ==
  LET payload == build_payload_cbor(p, build_chain(p))
      last    == Len(payload)
  IN  [size |-> 2000, is_cbor |-> TRUE, depth |-> 4, is_sign1 |-> TRUE, is_map |-> TRUE, alg |-> {p.alg},
       payload   |-> IF p.tamper THEN [payload EXCEPT ![last] = <<"public_key", 0>>] ELSE payload,
       signature |-> [pk |-> p.seeds.leaf, tbs |-> <<{p.alg}, payload>>]]

root_ders_from_seeds(seeds) == <<{build_chain([BuildParams EXCEPT !.seeds = seeds]).root}>>

build_c2_vector_nonce(id, category, params, roots, nonce, pcr0, code) ==
  RejectVector(id, category,
    [is_hex |-> TRUE, doc |-> build_attestation_doc(params), roots |-> roots,
     expected_nonce |-> nonce, expected_pcrs |-> {<<0, pcr0>>, <<1, "AA">>},
     current_time |-> C2_CURRENT_TIME], code)

build_c2_vector(id, category, params, code) ==
  build_c2_vector_nonce(id, category, params, root_ders_from_seeds(CaSeeds), {}, "AA", code)

pcrrej_090 == build_c2_vector("pcrrej-090", "live-sig-payload-mutated",
  [BuildParams EXCEPT !.tamper = TRUE], "pcr-attestor-signature-invalid")

pcrrej_091 == build_c2_vector_nonce("pcrrej-091", "live-sig-nonce-mismatch",
  [BuildParams EXCEPT !.nonce = {"c2-nonce-1700000000"}], root_ders_from_seeds(CaSeeds),
  {"c2-nonce-other"}, "AA", "pcr-attestation-nonce-mismatch")

pcrrej_092 == build_c2_vector_nonce("pcrrej-092", "live-sig-pcr-value-mismatch",
  BuildParams, root_ders_from_seeds(CaSeeds), {}, "BB", "pcr-attestation-mismatch")

pcrrej_093 == build_c2_vector("pcrrej-093", "live-sig-cert-expired",
  [BuildParams EXCEPT !.leaf_not_after = C2_CURRENT_TIME - 1], "pcr-attestation-cert-expired")

pcrrej_094 == build_c2_vector("pcrrej-094", "live-sig-ca-chain-broken",
  [BuildParams EXCEPT !.break_ca_chain = TRUE], "pcr-attestation-cert-chain-invalid")

pcrrej_095 == build_c2_vector_nonce("pcrrej-095", "live-sig-root-untrusted",
  BuildParams, root_ders_from_seeds([CaSeeds EXCEPT !.root = 9]), {}, "AA",
  "pcr-attestor-not-trusted")

pcrrej_096 == build_c2_vector("pcrrej-096", "live-sig-wrong-cose-alg",
  [BuildParams EXCEPT !.alg = -7], "pcr-attestation-unsupported-cose-alg")

pcrrej_097 == build_c2_vector("pcrrej-097", "live-sig-duplicate-pcr",
  [BuildParams EXCEPT !.duplicate_pcr = TRUE], "pcr-bundle-malformed")

build_phase_c2_vectors ==
  <<pcrrej_090, pcrrej_091, pcrrej_092, pcrrej_093, pcrrej_094, pcrrej_095, pcrrej_096, pcrrej_097>>

-----------------------------------------------------------------------------
(* Rekor proofs, over one log of eight entries.                            *)

STH_TIMESTAMP == 1700000000
CURRENT_TIME_OK == 1700000100
CURRENT_TIME_STALE == 1700010000
MAX_ROOT_AGE_SECONDS == 3600
TREE_SIZE == 8
ENTRY_INDEX == 3
LIED_TREE_SIZE == 16

canonical_leaves == [i \in 1 .. TREE_SIZE |-> leaf_hash(i - 1)]

\* The two halves of a tree with more than one leaf.
split_point(leaves) == LargestPowerBelow(Len(leaves))
LeftOf(leaves) == SubSeq(leaves, 1, split_point(leaves))
RightOf(leaves) == SubSeq(leaves, split_point(leaves) + 1, Len(leaves))

RECURSIVE subtree_root(_)
subtree_root(leaves) ==
  IF Len(leaves) = 1 THEN leaves[1]
  ELSE inner_hash(subtree_root(LeftOf(leaves)), subtree_root(RightOf(leaves)))

\* From the leaf's sibling up to the child of the root.
RECURSIVE build_path(_, _)
build_path(leaves, m) ==
  IF Len(leaves) = 1 THEN <<>>
  ELSE IF m < split_point(leaves)
    THEN Append(build_path(LeftOf(leaves), m), subtree_root(RightOf(leaves)))
    ELSE Append(build_path(RightOf(leaves), m - split_point(leaves)), subtree_root(LeftOf(leaves)))

sign_sth(key, sth) == [pk |-> key, tbs |-> canonical_bytes(sth)]

base_sth(size, timestamp, log_id) ==
  [tree_root |-> subtree_root(canonical_leaves), tree_size |-> size,
   timestamp |-> timestamp, log_id |-> log_id]

\* What a builder may vary: the head it signs with a key, and the proof it gives.
ProofFields(sth, key, now) ==
  [sth |-> sth, signature |-> sign_sth(key, sth), now |-> now, hex_ok |-> TRUE,
   path |-> build_path(canonical_leaves, ENTRY_INDEX)]

HonestFields == ProofFields(base_sth(TREE_SIZE, STH_TIMESTAMP, "trusted"), "signing", CURRENT_TIME_OK)

BundleAttestation(attestor, iat, nonce) ==
  [attestor_id |-> {attestor}, iat |-> {iat}, nonce |-> {nonce}, has_comment |-> FALSE,
   signature_valid |-> TRUE, pcrs |-> 0 :> "fw" @@ 4 :> "k" @@ 8 :> "app"]

TransparencyProof(f) ==
  [inclusion_proof_is_null |-> FALSE, inclusion_proof_valid |-> {TRUE}, root_age_seconds |-> {100},
   log_id |-> f.sth.log_id, entry_index |-> {ENTRY_INDEX}, sth_tree_size |-> {f.sth.tree_size},
   witness_count |-> 0, proof_path_hex |-> {f.path}, sth_signature_hex |-> {f.signature},
   sth_timestamp |-> {f.sth.timestamp}, sth_tree_root_hex |-> {f.sth.tree_root},
   log_pubkey_hex |-> {"signing"}, entry_leaf_hash_hex |-> {leaf_hash(ENTRY_INDEX)},
   current_time |-> {f.now}, log_key_valid_from |-> {f.sth.timestamp - 86400},
   log_key_valid_until |-> {f.sth.timestamp + 86400},
   max_root_age_seconds_override |-> {MAX_ROOT_AGE_SECONDS}, hex_ok |-> f.hex_ok]

\* build_vector of phase_c2_5.rs: two sound attestations around the proof.
build_vector(id, category, f, code) ==
  RejectVector(id, category,
    [requirement |->
       [quorum |-> 2, attestors |-> {"A1", "A2", "A3"},
        expected_pcrs |-> {0 :> "fw" @@ 4 :> "k" @@ 8 :> "app"}, strict_mode |-> FALSE,
        not_before |-> <<>>, attestation_max_age_seconds |-> {}, issued_at |-> {},
        bundle_max_size_bytes |-> {}, required_witness_cosignatures |-> {},
        trusted_transparency_logs |-> {{"trusted"}},
        transparency_log_max_root_age_seconds |-> {MAX_ROOT_AGE_SECONDS}],
     bundle |-> {[attestations |-> <<BundleAttestation("A1", STH_TIMESTAMP, id),
                                     BundleAttestation("A2", STH_TIMESTAMP + 10, id)>>,
                  transparency_log_proof |-> {TransparencyProof(f)}]},
     current_time |-> f.now, revoked |-> {}, nonce_issued |-> id, nonce_consumed |-> {},
     declared_size |-> {}, has_raw_hex |-> FALSE], code)

InvalidProof(id, category, f) == build_vector(id, category, f, "pcr-attestation-transparency-invalid")

build_pcrrej_110 == InvalidProof("pcrrej-110", "rekor-inclusion-proof-malformed-hex",
  [HonestFields EXCEPT !.hex_ok = FALSE])

build_pcrrej_111 == InvalidProof("pcrrej-111", "rekor-inclusion-proof-siblings-tampered",
  [HonestFields EXCEPT !.path[1] = leaf_hash(-1)])

build_pcrrej_112 == InvalidProof("pcrrej-112", "rekor-inclusion-proof-depth-wrong",
  ProofFields(base_sth(LIED_TREE_SIZE, STH_TIMESTAMP, "trusted"), "signing", CURRENT_TIME_OK))

\* The signature lacks its last byte: no key made it.
build_pcrrej_113 == InvalidProof("pcrrej-113", "rekor-sth-signature-malformed-length",
  [HonestFields EXCEPT !.signature.pk = "none"])

build_pcrrej_114 == InvalidProof("pcrrej-114", "rekor-sth-signature-wrong-key",
  ProofFields(HonestFields.sth, "alt", CURRENT_TIME_OK))

build_pcrrej_115 == InvalidProof("pcrrej-115", "rekor-sth-timestamp-future",
  ProofFields(base_sth(TREE_SIZE, CURRENT_TIME_OK + 1, "trusted"), "signing", CURRENT_TIME_OK))

build_pcrrej_116 == build_vector("pcrrej-116", "rekor-sth-stale",
  [HonestFields EXCEPT !.now = CURRENT_TIME_STALE], "pcr-attestation-transparency-stale")

build_pcrrej_117 == build_vector("pcrrej-117", "rekor-log-id-not-trusted",
  ProofFields(base_sth(TREE_SIZE, STH_TIMESTAMP, "untrusted"), "signing", CURRENT_TIME_OK),
  "pcr-attestation-transparency-log-unknown")

PcrVectors ==
  build_phase_c2_vectors \o
  <<build_pcrrej_110, build_pcrrej_111, build_pcrrej_112, build_pcrrej_113,
    build_pcrrej_114, build_pcrrej_115, build_pcrrej_116, build_pcrrej_117>>
=============================================================================
