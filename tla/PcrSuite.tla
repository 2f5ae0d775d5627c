------------------------------ MODULE PcrSuite ------------------------------
(***************************************************************************)
(* The PCR-attestation verifier: suites/pcr.rs of ephemeral-core.  It      *)
(* judges a bundle of attestations against a tariff's PCR requirement, the *)
(* router's nonces and clock, and the proof that the bundle was logged;    *)
(* or, for a live document, a Nitro attestation.                           *)
(*                                                                         *)
(* Optional fields are sets with at most one element.                      *)
(***************************************************************************)
EXTENDS Nitro, Rekor

LOCAL DEFAULT_MAX_ROOT_AGE_SECONDS == 86400
LOCAL DEFAULT_CLOCK_SKEW_TOLERANCE_SECONDS == 300
PCR_INDEX_MAX == 23
MAX_TRUSTED_ROOTS == 8

\* The first verdict other than "ok".
FirstFailing(verdicts) ==
  LET failing == {i \in DOMAIN verdicts : verdicts[i] # "ok"}
  IN  IF failing = {} THEN "ok" ELSE verdicts[Min(failing)]

\* The value of an option, or a default.
OrElse(option, default) == IF option = {} THEN default ELSE CHOOSE v \in option : TRUE

classify_tariff_defects(req) ==
  IF \/ req.quorum = 0
     \/ req.quorum = 1 /\ Cardinality(req.attestors) >= 3
     \/ req.expected_pcrs = {}
    THEN "tariff-pcr-quorum-invalid" ELSE "ok"

\* PCR<n> with n in 0 .. 23; any other key is the index -1.
pcr_index_valid(index) == index \in 0 .. PCR_INDEX_MAX

classify_bundle_structural(attestations, req) ==
  IF \E i \in DOMAIN attestations :
       LET att == attestations[i]
       IN  \/ att.attestor_id = {}
           \/ att.iat = {}
           \/ req.strict_mode /\ att.has_comment
           \/ \E index \in DOMAIN att.pcrs : ~pcr_index_valid(index)
    THEN "pcr-bundle-malformed" ELSE "ok"

detect_duplicate_attestor(attestations) ==
  IF \E i, j \in DOMAIN attestations :
       i < j /\ attestations[i].attestor_id # {} /\ attestations[i].attestor_id = attestations[j].attestor_id
    THEN "pcr-attestor-duplicate" ELSE "ok"

\* not_before maps some attestors to the start of their window.
per_attestor_scans(attestations, req, revoked) ==
  FirstFailing([i \in DOMAIN attestations |->
    LET att == attestations[i]
    IN  IF ~att.signature_valid THEN "pcr-attestor-signature-invalid"
        ELSE IF att.attestor_id \subseteq revoked /\ att.attestor_id # {} THEN "pcr-attestor-revoked"
        ELSE IF \E id \in att.attestor_id, iat \in att.iat :
                  id \in DOMAIN req.not_before /\ iat < req.not_before[id]
          THEN "pcr-attestor-not-yet-valid"
        ELSE "ok"])

classify_freshness(attestations, req, current_time) ==
  FirstFailing([i \in DOMAIN attestations |->
    LET att == attestations[i]
    IN  IF \E iat \in att.iat, max_age \in req.attestation_max_age_seconds :
             current_time - iat > max_age THEN "pcr-attestation-expired"
        ELSE IF \E iat \in att.iat : iat > current_time + DEFAULT_CLOCK_SKEW_TOLERANCE_SECONDS
          THEN "pcr-attestation-future-dated"
        ELSE IF \E iat \in att.iat, issued_at \in req.issued_at : iat < issued_at
          THEN "pcr-attestation-predates-tariff"
        ELSE "ok"])

\* Mutant: the list of consumed nonces is not consulted.
classify_nonce_Forgets(attestations, issued, consumed) ==
  IF \E i \in DOMAIN attestations : \E n \in attestations[i].nonce : n # issued
    THEN "pcr-attestation-nonce-mismatch" ELSE "ok"

\* An attestation without a nonce is not bound to one.
classify_nonce(attestations, issued, consumed) ==
  IF issued \in consumed THEN "pcr-attestation-nonce-reuse"
  ELSE IF \E i \in DOMAIN attestations : \E n \in attestations[i].nonce : n # issued
    THEN "pcr-attestation-nonce-mismatch"
  ELSE "ok"

map_attest_error(error) ==
  CASE error = "SignatureInvalid"                    -> "pcr-attestor-signature-invalid"
    [] error = "NonceMismatch"                       -> "pcr-attestation-nonce-mismatch"
    [] error = "PcrMismatch"                         -> "pcr-attestation-mismatch"
    [] error \in {"CertExpired", "CertNotYetValid"}  -> "pcr-attestation-cert-expired"
    [] error \in {"CaChainInvalid", "CaChainTooLong"} -> "pcr-attestation-cert-chain-invalid"
    [] error = "UntrustedRoot"                       -> "pcr-attestor-not-trusted"
    [] error = "UnsupportedAlg"                      -> "pcr-attestation-unsupported-cose-alg"
    [] error = "RekorProofInvalid"                   -> "pcr-attestation-transparency-invalid"
    [] error = "RekorSthStale"                       -> "pcr-attestation-transparency-stale"
    [] error = "RekorLogUntrusted"                   -> "pcr-attestation-transparency-log-unknown"
    [] OTHER                                         -> "pcr-bundle-malformed"

\* The fields whose joint presence makes a proof live.
LIVE_REKOR_PROOF_FIELDS ==
  {"proof_path_hex", "sth_signature_hex", "sth_timestamp", "sth_tree_root_hex",
   "log_pubkey_hex", "entry_leaf_hash_hex", "current_time"}

live_rekor_presence(proof) ==
  LET set == {f \in LIVE_REKOR_PROOF_FIELDS : proof[f] # {}}
  IN  IF set = {} THEN "None" ELSE IF set = LIVE_REKOR_PROOF_FIELDS THEN "Full" ELSE "Partial"

WitnessVerdict(proof, req) ==
  IF proof.witness_count < OrElse(req.required_witness_cosignatures, 0)
    THEN "pcr-attestation-witness-cosignature-missing" ELSE "ok"

\* The window of the proof's own key: by default the instant of the head.
ProofKeyEntry(proof) ==
  LET ts == OrElse(proof.sth_timestamp, 0)
  IN  [log_id |-> proof.log_id, key |-> OrElse(proof.log_pubkey_hex, ""),
       valid_from  |-> OrElse(proof.log_key_valid_from, ts),
       valid_until |-> OrElse(proof.log_key_valid_until, ts)]

\* The proof's own override may only tighten the tariff's window.
MaxRootAge(proof, req) ==
  LET base == OrElse(req.transparency_log_max_root_age_seconds, DEFAULT_MAX_ROOT_AGE_SECONDS)
  IN  Min({base} \cup proof.max_root_age_seconds_override)

\* classify_live_rekor.  hex_ok: every hex field has the length it should have
\* and the key is a point of the curve.  The key the head is checked with is the
\* proof's, not one the tariff names.
classify_live_rekor(proof, req) ==
  LET ts  == OrElse(proof.sth_timestamp, 0)
      now == OrElse(proof.current_time, 0)
      size == OrElse(proof.sth_tree_size, 0)
      root == OrElse(proof.sth_tree_root_hex, <<>>)
      leaf == OrElse(proof.entry_leaf_hash_hex, <<>>)
      path == OrElse(proof.proof_path_hex, <<>>)
      keys == insert_checked(<<>>, ProofKeyEntry(proof))
      head == [log_id |-> proof.log_id, tree_size |-> size, tree_root |-> root,
               timestamp |-> ts, signature |-> proof.sth_signature_hex]
      sth  == verify_rekor_sth(head, keys, now, MAX_STH_AGE_SECONDS)
      incl == verify_rekor_inclusion([leaf_hash |-> leaf, proof_path |-> path, tree_size |-> size,
                                      index |-> OrElse(proof.entry_index, 0)], leaf, root)
  IN  IF \/ proof.sth_tree_size = {} \/ proof.entry_index = {}
         \/ Len(path) > MAX_INCLUSION_DEPTH \/ ~proof.hex_ok THEN "pcr-attestation-transparency-invalid"
      ELSE IF \A logs \in req.trusted_transparency_logs : proof.log_id \notin logs
        THEN "pcr-attestation-transparency-log-unknown"
      ELSE IF now < ts THEN "pcr-attestation-transparency-invalid"
      ELSE IF now - ts > MaxRootAge(proof, req) THEN "pcr-attestation-transparency-stale"
      ELSE IF keys = <<>> THEN "pcr-attestation-transparency-invalid"
      ELSE IF sth # "Ok" THEN map_attest_error(sth)
      ELSE IF incl # "Ok" THEN map_attest_error(incl)
      ELSE WitnessVerdict(proof, req)

\* The proof of a vector without live fields: its flags and numbers, at their word.
MockTransparencyVerdict(proof, req) ==
  IF proof.inclusion_proof_valid = {FALSE} THEN "pcr-attestation-transparency-invalid"
  ELSE IF \E age \in proof.root_age_seconds :
            age > OrElse(req.transparency_log_max_root_age_seconds, DEFAULT_MAX_ROOT_AGE_SECONDS)
    THEN "pcr-attestation-transparency-stale"
  ELSE IF \A logs \in req.trusted_transparency_logs : proof.log_id \notin logs
    THEN "pcr-attestation-transparency-log-unknown"
  ELSE IF \E index \in proof.entry_index, size \in proof.sth_tree_size : index > size
    THEN "pcr-attestation-transparency-not-yet-logged"
  ELSE WitnessVerdict(proof, req)

classify_transparency_log(proofs, req) ==
  IF \A proof \in proofs : proof.inclusion_proof_is_null THEN "pcr-attestation-transparency-missing"
  ELSE LET proof == CHOOSE p \in proofs : TRUE
       IN  CASE live_rekor_presence(proof) = "Partial" -> "pcr-attestation-transparency-invalid"
             [] live_rekor_presence(proof) = "Full" ->
                  IF proof.inclusion_proof_valid = {FALSE} THEN "pcr-attestation-transparency-invalid"
                  ELSE classify_live_rekor(proof, req)
             [] OTHER -> MockTransparencyVerdict(proof, req)

classify_trust_filter(attestations, req) ==
  IF \E i \in DOMAIN attestations : ~(attestations[i].attestor_id \subseteq req.attestors)
    THEN "pcr-attestor-not-trusted" ELSE "ok"

\* The attestations that count: signed, by an attestor the tariff names.
Counted(attestations, req) ==
  {i \in DOMAIN attestations :
     /\ attestations[i].signature_valid
     /\ attestations[i].attestor_id \cap req.attestors # {}}

count_trusted_valid(attestations, req) ==
  Cardinality(UNION {attestations[i].attestor_id : i \in Counted(attestations, req)})

\* Mutant: the values are never compared with each other.
cross_attestor_mismatch_Skip(attestations, req) == FALSE

\* Two counted attestors report different values for an index the tariff declares.
cross_attestor_mismatch(attestations, req) ==
  \E expected \in req.expected_pcrs : \E index \in DOMAIN expected :
    \E i, j \in Counted(attestations, req) :
      /\ index \in DOMAIN attestations[i].pcrs /\ index \in DOMAIN attestations[j].pcrs
      /\ attestations[i].pcrs[index] # attestations[j].pcrs[index]

\* The first counted attestor that reports the index does not report the
\* expected value, or no one reports it.
expected_value_mismatch(attestations, req) ==
  \E expected \in req.expected_pcrs : \E index \in DOMAIN expected :
    LET reporting == {i \in Counted(attestations, req) : index \in DOMAIN attestations[i].pcrs}
    IN  \/ reporting = {}
        \/ attestations[Min(reporting)].pcrs[index] # expected[index]

\* The thirteen checks: "ok" or the code of the first that fails.
ChecksVerdict(input) ==
  LET req == input.requirement
      bundle == CHOOSE b \in input.bundle : TRUE
      atts == bundle.attestations
      steps == <<classify_bundle_structural(atts, req),
                 detect_duplicate_attestor(atts),
                 per_attestor_scans(atts, req, input.revoked),
                 classify_freshness(atts, req, input.current_time),
                 classify_nonce(atts, input.nonce_issued, input.nonce_consumed),
                 classify_transparency_log(bundle.transparency_log_proof, req),
                 classify_trust_filter(atts, req),
                 IF count_trusted_valid(atts, req) < req.quorum
                   THEN "pcr-attestation-quorum-short" ELSE "ok",
                 IF cross_attestor_mismatch(atts, req) THEN "pcr-attestation-mismatch" ELSE "ok",
                 IF expected_value_mismatch(atts, req) THEN "pcr-expected-mismatch" ELSE "ok">>
  IN  IF \E size \in input.declared_size, max \in req.bundle_max_size_bytes : size > max
        THEN "pcr-bundle-too-large"
      ELSE IF input.has_raw_hex THEN "pcr-bundle-malformed"
      ELSE IF classify_tariff_defects(req) # "ok" THEN classify_tariff_defects(req)
      ELSE IF input.bundle = {} THEN "pcr-bundle-malformed"
      ELSE FirstFailing(steps)

\* What a vector that passes every check is said to be, from its category alone.
category_to_code(category) ==
  CASE category \in {"quorum-short-by-one", "quorum-short-majority-missing", "quorum-all-missing",
                     "quorum-wrong-count", "adversary-signed-by-stolen-attestor-key"}
         -> "pcr-attestation-quorum-short"
    [] category \in {"quorum-threshold-zero-in-tariff", "pcr-expected-missing-in-tariff",
                     "bundle-with-one-attestor-quorum-one"} -> "tariff-pcr-quorum-invalid"
    [] category = "attestor-not-in-trusted-list" -> "pcr-attestor-not-trusted"
    [] category = "attestor-key-revoked" -> "pcr-attestor-revoked"
    [] category = "attestor-key-not-yet-valid" -> "pcr-attestor-not-yet-valid"
    [] category = "attestor-signature-invalid" -> "pcr-attestor-signature-invalid"
    [] category = "attestor-duplicate-in-bundle" -> "pcr-attestor-duplicate"
    [] category \in {"pcr-mismatch-minor-single-pcr", "pcr-mismatch-systematic-multiple-pcrs",
                     "pcr-mismatch-subset-of-attestors-agree", "pcr-mismatch-one-attestor-all-zeros",
                     "pcr-mismatch-expected-deviation-allowed", "adversary-pcr-rehydration-attack",
                     "bundle-attestor-list-order-matters"} -> "pcr-attestation-mismatch"
    [] category \in {"pcr-expected-mismatch-PCR8-payload", "pcr-expected-mismatch-PCR0-firmware",
                     "pcr-expected-mismatch-PCR4-kernel",
                     "pcr-expected-match-but-stale-tariff-expected-hash"} -> "pcr-expected-mismatch"
    [] category = "transparency-log-missing-inclusion-proof" -> "pcr-attestation-transparency-missing"
    [] category = "transparency-log-invalid-proof" -> "pcr-attestation-transparency-invalid"
    [] category = "transparency-log-stale-root" -> "pcr-attestation-transparency-stale"
    [] category = "transparency-log-unknown-log" -> "pcr-attestation-transparency-log-unknown"
    [] category = "transparency-log-not-published-yet" -> "pcr-attestation-transparency-not-yet-logged"
    [] category = "adversary-transparency-log-split-view"
         -> "pcr-attestation-witness-cosignature-missing"
    [] category = "enormous-bundle" -> "pcr-bundle-too-large"
    [] category \in {"attestation-too-old", "adversary-replayed-old-attestation"}
         -> "pcr-attestation-expired"
    [] category = "attestation-in-future" -> "pcr-attestation-future-dated"
    [] category = "attestation-predates-tariff" -> "pcr-attestation-predates-tariff"
    [] category = "attestation-nonce-reuse" -> "pcr-attestation-nonce-reuse"
    [] category = "adversary-attestation-bundle-for-different-nonce"
         -> "pcr-attestation-nonce-mismatch"
    [] OTHER -> "pcr-bundle-malformed"

\* classify: a code always, so that no bundle is ever accepted by this suite.
classify(input, category) ==
  IF ChecksVerdict(input) # "ok" THEN ChecksVerdict(input) ELSE category_to_code(category)

\* The expected PCRs of a live vector: pairs <<index, hash>> with index -1 for a
\* key that is not PCR<n> and hash "nothex" for one that does not decode.
ExpectedPcrsDecode(expected) == \A e \in expected : e[1] \in 0 .. 255 /\ e[2] # "nothex"

\* classify_live_nitro: "ok" or a code.  roots is a sequence of options (hex or not).
classify_live_nitro(input) ==
  LET roots  == UNION {input.roots[i] : i \in DOMAIN input.roots}
      verdict == verify_nitro_attestation(input.doc, roots, input.expected_nonce, input.current_time)
      pcrs   == parse_claims_cbor(input.doc.payload).pcrs
  IN  IF \/ ~input.is_hex \/ Len(input.roots) > MAX_TRUSTED_ROOTS
         \/ \E i \in DOMAIN input.roots : input.roots[i] = {}
         \/ input.expected_nonce = {"nothex"} THEN "pcr-bundle-malformed"
      ELSE IF verdict # "Ok" THEN map_attest_error(verdict)
      ELSE IF ~ExpectedPcrsDecode(input.expected_pcrs) THEN "pcr-bundle-malformed"
      ELSE IF verify_pcr_set(pcrs, input.expected_pcrs) # "Ok"
        THEN map_attest_error(verify_pcr_set(pcrs, input.expected_pcrs))
      ELSE "ok"

\* What the suite makes of a vector [category, input, expected]: a document is
\* verified live.  An accepted vector is not one of this suite.
execute(vector) ==
  LET produced == IF "doc" \in DOMAIN vector.input
                    THEN classify_live_nitro(vector.input)
                    ELSE classify(vector.input, vector.category)
  IN  IF /\ vector.expected.outcome = "reject" /\ produced # "ok"
         /\ vector.expected.reject_code = {produced}
        THEN "Pass" ELSE "Fail"
=============================================================================
