-------------------------------- MODULE Nitro --------------------------------
(***************************************************************************)
(* The AWS Nitro attestation verifier of ephemeral-attestation: the size   *)
(* guard, the claims parser, the certificate chain, the ES384 envelope and *)
(* the comparison of PCRs (size_guard.rs, nitro.rs, cert.rs,               *)
(* cose_bridge.rs, anchors.rs, pcr.rs).                                    *)
(*                                                                         *)
(* A document is a record [size, is_cbor, depth, is_sign1, alg, payload,   *)
(* is_map, signature]; its payload is the sequence of its map entries      *)
(* <<field, value>>.  A certificate is a record [id, decodes, not_before,  *)
(* not_after, sig_alg, is_p384, pk, signed_by].  Signatures are symbolic.  *)
(***************************************************************************)
EXTENDS Integers, Sequences, FiniteSetsExt

MAX_NITRO_DOC_BYTES == 131072
MAX_CBOR_DEPTH == 8
MAX_CA_CHAIN_DEPTH == 4
MAX_PCR_COUNT == 24
COSE_ALG_ES384 == -35
WEAK_SIG_ALGS == {"sha1WithRSAEncryption", "md5WithRSAEncryption", "ecdsa-with-SHA1"}

size_depth_check(doc) ==
  IF doc.size > MAX_NITRO_DOC_BYTES THEN "PayloadTooLarge"
  ELSE IF ~doc.is_cbor THEN "MalformedDoc"
  ELSE IF doc.depth > MAX_CBOR_DEPTH THEN "CborDepthExceeded"
  ELSE "Ok"

\* The bytes that no X509 parser accepts: what a document without a
\* certificate field carries.
NoCertificate == [id |-> "none", decodes |-> FALSE]

\* The values of a field, in the order of the map entries.
ValuesOf(payload, field) ==
  LET hits == SelectSeq(payload, LAMBDA e : e[1] = field)
  IN  [i \in 1 .. Len(hits) |-> hits[i][2]]

\* A field that may be repeated keeps its last value.
LastValue(payload, field, default) ==
  LET values == ValuesOf(payload, field)
  IN  IF values = <<>> THEN default ELSE values[Len(values)]

\* A timestamp may name a second before the end of 2099; TLC's integers end
\* sooner, and EndOfTime is the first second that the model refuses.
EndOfTime == 2000000000

\* u8::try_from(u64::try_from(id).unwrap_or(255)): a negative index becomes 255
\* and one above 255 is dropped.
PcrIndex(n) == IF n < 0 THEN {255} ELSE IF n > 255 THEN {} ELSE {n}

\* extract_cose_payload and parse_claims_cbor succeed.
ParsesToClaims(doc) ==
  /\ doc.is_sign1
  /\ doc.is_map
  /\ \A i \in DOMAIN doc.payload :
       doc.payload[i][1] = "timestamp" => doc.payload[i][2] \in 0 .. (EndOfTime - 1)

\* parse_claims_cbor: the last certificate and nonce win, the PCRs and the CA
\* certificates of every entry accumulate.
parse_claims_cbor(payload) ==
  [certificate |-> LastValue(payload, "certificate", NoCertificate),
   cabundle    |-> ValuesOf(payload, "cabundle"),
   timestamp   |-> LastValue(payload, "timestamp", 0),
   nonce       |-> LastValue(payload, "nonce", {}),
   pcrs        |-> SelectSeq(ValuesOf(payload, "pcrs"), LAMBDA p : PcrIndex(p[1]) # {})]

\* Both ends of the validity window are valid.
check_validity(cert, now) ==
  IF now < cert.not_before THEN "CertNotYetValid"
  ELSE IF now > cert.not_after THEN "CertExpired"
  ELSE "Ok"

\* The parent has a P-384 key and signed the child's TBS bytes.
verify_cert_signature(child, parent) == parent.is_p384 /\ child.signed_by = parent.pk

\* Mutant: the certificates above the leaf may have expired.
CertificateVerdict_LeafWindowOnly(chain, i, now) ==
  IF i = 1 THEN check_validity(chain[1], now)
  ELSE IF chain[i].sig_alg \in WEAK_SIG_ALGS THEN "WeakHashAlg"
  ELSE IF ~verify_cert_signature(chain[i - 1], chain[i]) THEN "CaChainInvalid"
  ELSE "Ok"

\* One turn of the loop: certificate i, and the signature it put on the one below.
CertificateVerdict(chain, i, now) ==
  IF check_validity(chain[i], now) # "Ok" THEN check_validity(chain[i], now)
  ELSE IF chain[i].sig_alg \in WEAK_SIG_ALGS THEN "WeakHashAlg"
  ELSE IF i > 1 /\ ~verify_cert_signature(chain[i - 1], chain[i]) THEN "CaChainInvalid"
  ELSE "Ok"

\* verify_chain: leaf first, and the last certificate is pinned itself.
verify_chain(chain, roots, now) ==
  LET failing == {i \in DOMAIN chain : CertificateVerdict(chain, i, now) # "Ok"}
  IN  IF Len(chain) > MAX_CA_CHAIN_DEPTH THEN "CaChainTooLong"
      ELSE IF \E i \in DOMAIN chain : ~chain[i].decodes THEN "CaChainInvalid"
      ELSE IF failing # {} THEN CertificateVerdict(chain, Min(failing), now)
      ELSE IF chain[Len(chain)] \notin roots THEN "UntrustedRoot"
      ELSE IF ~chain[1].is_p384 THEN "CaChainInvalid"
      ELSE "Ok"

\* verify_cose_sign1_es384.  alg {} is a header without an integer label 1.
verify_cose_sign1_es384(doc, key) ==
  IF doc.alg = {} THEN "MalformedDoc"
  ELSE IF doc.alg # {COSE_ALG_ES384} THEN "UnsupportedAlg"
  ELSE IF doc.signature # [pk |-> key, tbs |-> <<doc.alg, doc.payload>>] THEN "SignatureInvalid"
  ELSE "Ok"

\* verify_nitro_attestation: the claims are parsed before the signature over
\* them is checked, because the key is among them.
verify_nitro_attestation(doc, roots, expected_nonce, current_time) ==
  LET guard  == size_depth_check(doc)
      claims == parse_claims_cbor(doc.payload)
      chain  == <<claims.certificate>> \o claims.cabundle
  IN  IF guard # "Ok" THEN guard
      ELSE IF ~ParsesToClaims(doc) THEN "MalformedDoc"
      ELSE LET path == verify_chain(chain, roots, current_time)
               sign == IF path = "Ok" THEN verify_cose_sign1_es384(doc, chain[1].pk) ELSE path
           IN  IF sign # "Ok" THEN sign
               ELSE IF expected_nonce # {} /\ claims.nonce # expected_nonce THEN "NonceMismatch"
               ELSE "Ok"

\* verify_pcr_set.  The indices the claims carry are not range-checked.
verify_pcr_set(pcrs, expected) ==
  IF \E i, j \in DOMAIN pcrs : i < j /\ PcrIndex(pcrs[i][1]) = PcrIndex(pcrs[j][1]) THEN "DuplicatePcrId"
  ELSE IF \E e \in expected : e[1] >= MAX_PCR_COUNT THEN "PcrIndexOutOfRange"
  ELSE IF \E e \in expected :
            \A i \in DOMAIN pcrs : PcrIndex(pcrs[i][1]) # {e[1]} \/ pcrs[i][2] # e[2] THEN "PcrMismatch"
  ELSE "Ok"
=============================================================================
