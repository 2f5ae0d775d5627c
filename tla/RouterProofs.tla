---------------------------- MODULE RouterProofs ----------------------------
(***************************************************************************)
(* Proofs about the router: what the verifiers' answers, taken one after   *)
(* another while the context moves, add up to, for all artefacts, clocks,  *)
(* revocation lists and orders of presentation.                            *)
(***************************************************************************)
EXTENDS Router, WellFoundedInduction, FiniteSetTheorems, TLAPS

-----------------------------------------------------------------------------
(* Minima: the verifiers report the first check that fails.                *)

\* A nonempty set of naturals has a least element.
LEMMA NatMin ==
  ASSUME NEW S, S \subseteq Nat, S # {}
  PROVE  \E x \in S : \A y \in S : x <= y
<1>. DEFINE R == OpToRel(<, Nat)
<1>1. IsWellFoundedOn(R, Nat)
  BY NatLessThanWellFounded
<1>2. \A x, y \in Nat : x < y => <<x, y>> \in R
  BY DEF OpToRel
<1>. HIDE DEF R
<1>3. PICK x \in S : \A y \in S : <<y, x>> \notin R
  BY <1>1, WFMin, Zenon
<1>4. \A y \in S : ~(y < x)
  BY <1>2, <1>3, Zenon
<1>5. \A y \in S : x <= y
  BY <1>4
<1>. QED  BY <1>5

\* The minimum the three verifiers look up is an element of its set.
LEMMA MinIsElement ==
  ASSUME NEW S, S \subseteq Nat, S # {}
  PROVE  D!Min(S) \in S /\ T!Min(S) \in S /\ P!Min(S) \in S
  BY NatMin DEF D!Min, T!Min, P!Min

-----------------------------------------------------------------------------
(* Types.                                                                  *)

\* The router's variables keep their types (Router, all actions).
THEOREM TypeCorrect == Spec => []TypeOK
<1>1. Init => TypeOK
  BY RouterBounds DEF Init, TypeOK
<1>2. TypeOK /\ [Next]_vars => TypeOK'
  <2>. SUFFICES ASSUME TypeOK, [Next]_vars PROVE TypeOK'
    OBVIOUS
  <2>. USE DEF TypeOK
  <2>1. CASE Tick
    BY <2>1, RouterBounds DEF Tick
  <2>2. ASSUME NEW id \in Revocable, Revoke(id) PROVE TypeOK'
    BY <2>2, RouterBounds DEF Revoke
  <2>3. ASSUME NEW n \in Nonces, IssueNonce(n) PROVE TypeOK'
    BY <2>3 DEF IssueNonce
  <2>4. ASSUME NEW i \in DOMAIN Mandates, PresentMandate(i) PROVE TypeOK'
    BY <2>4 DEF PresentMandate
  <2>5. ASSUME NEW i \in DOMAIN Tariffs, PresentTariff(i) PROVE TypeOK'
    BY <2>5, TariffsTyped DEF PresentTariff
  <2>6. ASSUME NEW i \in DOMAIN Bundles, PresentBundle(i) PROVE TypeOK'
    BY <2>6 DEF PresentBundle
  <2>7. ASSUME NEW i \in DOMAIN Documents, PresentDocument(i) PROVE TypeOK'
    BY <2>7 DEF PresentDocument
  <2>8. CASE UNCHANGED vars
    BY <2>8 DEF vars
  <2>. QED  BY <2>1, <2>2, <2>3, <2>4, <2>5, <2>6, <2>7, <2>8 DEF Next
<1>. QED  BY <1>1, <1>2, PTL DEF Spec

-----------------------------------------------------------------------------
(* What an accepting verdict says.                                         *)

\* The part of the verdict on mandate i that no context changes.
Standing(i) ==
  LET chain == Mandates[i].chain
      m     == Mandates[i].mandate
  IN  /\ D!SignaturesAreValid(Mandates[i])
      /\ D!structural_chain_check(Mandates[i])
      /\ Len(chain) <= D!MAX_CHAIN_LINKS
      /\ D!role_hierarchy_check(chain)
      /\ m.cap # {}
      /\ \A l \in DOMAIN chain : "*" \notin D!from_raw(chain[l].scope).integrations
      /\ D!ScopeMatchVerdict(Mandates[i]) = "ok"
      /\ ~(D!mandate_has_wildcard_cap(m) /\ m.budget.actions > D!DEFAULT_NARROWNESS_THRESHOLD)

\* The bounds that a later context cannot undercut again.
Begun(i) ==
  LET chain == Mandates[i].chain
      m     == Mandates[i].mandate
  IN  /\ \A l \in DOMAIN chain : chain[l].valid_from <= now
      /\ m.issued_at <= now
      /\ m.min_tariff_version <= CurrentVersion

\* What ends a mandate: a window that closed or a revocation.
Ended(i) ==
  LET chain == Mandates[i].chain
      m     == Mandates[i].mandate
  IN  \/ \E l \in DOMAIN chain : chain[l].valid_until <= now
      \/ m.exp <= now
      \/ \E e \in DOMAIN revoked : revoked[e] \in D!RevocableIn(Mandates[i])

\* The context does not enter the checks of Standing.
LEMMA StandingChecks ==
  ASSUME NEW i \in DOMAIN Mandates
  PROVE  /\ D!SignaturesAreValid(MandateInput(i)) <=> D!SignaturesAreValid(Mandates[i])
         /\ D!structural_chain_check(MandateInput(i)) <=> D!structural_chain_check(Mandates[i])
         /\ D!ScopeMatchVerdict(MandateInput(i)) = D!ScopeMatchVerdict(Mandates[i])
         /\ D!RevocableIn(MandateInput(i)) = D!RevocableIn(Mandates[i])
<1>1. D!SignaturesAreValid(MandateInput(i)) <=> D!SignaturesAreValid(Mandates[i])
  BY DEF MandateInput, D!SignaturesAreValid
<1>2. D!structural_chain_check(MandateInput(i)) <=> D!structural_chain_check(Mandates[i])
  BY DEF MandateInput, D!structural_chain_check
<1>3. D!ScopeMatchVerdict(MandateInput(i)) = D!ScopeMatchVerdict(Mandates[i])
  BY DEF MandateInput, D!ScopeMatchVerdict
<1>4. D!RevocableIn(MandateInput(i)) = D!RevocableIn(Mandates[i])
  BY DEF MandateInput, D!RevocableIn
<1>. QED  BY <1>1, <1>2, <1>3, <1>4

\* The verdict over a mandate splits into what never changes, what begins with the
\* clock and the tariffs, and what ends with the clock and the revocations.
LEMMA VerdictSplits ==
  ASSUME TypeOK, NEW i \in DOMAIN Mandates
  PROVE  MandateVerdict(i) = "ok" <=> Standing(i) /\ Begun(i) /\ ~Ended(i)
<1>. DEFINE in == MandateInput(i)
            chain == Mandates[i].chain
            m == Mandates[i].mandate
<1>1. /\ in.chain = chain /\ in.mandate = m
      /\ in.context.time = now /\ in.context.tariff_version = CurrentVersion
      /\ in.context.revoked = revoked
      /\ in.context.narrowness = D!DEFAULT_NARROWNESS_THRESHOLD
  BY DEF MandateInput
<1>2. now \in Nat /\ CurrentVersion \in Nat
  BY RouterBounds DEF TypeOK, CurrentVersion
<1>3. /\ \A l \in DOMAIN chain : chain[l].valid_from \in Int /\ chain[l].valid_until \in Int
      /\ m.issued_at \in Int /\ m.exp \in Int /\ m.min_tariff_version \in Int
  BY MandatesTyped
<1>4. D!revocation_check(in) <=> \A e \in DOMAIN revoked : revoked[e] \notin D!RevocableIn(Mandates[i])
  BY <1>1, StandingChecks DEF D!revocation_check
<1>5. MandateVerdict(i) = "ok" <=>
        /\ D!SignaturesAreValid(in)
        /\ D!structural_chain_check(in)
        /\ ~(Len(chain) > D!MAX_CHAIN_LINKS)
        /\ D!role_hierarchy_check(chain)
        /\ \A l \in DOMAIN chain : D!InWindow(chain[l].valid_from, chain[l].valid_until, now)
        /\ D!revocation_check(in)
        /\ m.cap # {}
        /\ D!InWindow(m.issued_at, m.exp, now)
        /\ ~(m.min_tariff_version > CurrentVersion)
        /\ \A l \in DOMAIN chain : "*" \notin D!from_raw(chain[l].scope).integrations
        /\ D!ScopeMatchVerdict(in) = "ok"
        /\ ~(D!mandate_has_wildcard_cap(m) /\ m.budget.actions > D!DEFAULT_NARROWNESS_THRESHOLD)
  <2>. HIDE DEF in
  <2>. QED  BY <1>1 DEF MandateVerdict, D!verify, in
<1>6. ~(Len(chain) > D!MAX_CHAIN_LINKS) <=> (Len(chain) <= D!MAX_CHAIN_LINKS)
  BY MandatesTyped DEF D!MAX_CHAIN_LINKS
<1>. QED
  BY <1>2, <1>3, <1>4, <1>5, <1>6, StandingChecks DEF Standing, Begun, Ended, D!InWindow

\* A granted mandate fits each link of its chain (scope_match).
LEMMA EveryLinkMatches ==
  ASSUME NEW i \in DOMAIN Mandates, Standing(i), NEW l \in DOMAIN Mandates[i].chain
  PROVE  /\ D!scope_match(Mandates[i].mandate, D!from_raw(Mandates[i].chain[l].scope)) = "ok"
         /\ D!ScopeIsComplete(Mandates[i].chain[l].scope)
<1>. DEFINE chain == Mandates[i].chain
            verdict(k) == D!scope_match(Mandates[i].mandate, D!from_raw(chain[k].scope))
            failing == {k \in DOMAIN chain : verdict(k) # "ok"}
<1>1. failing # {} => verdict(D!Min(failing)) = "ok"
  BY DEF Standing, D!ScopeMatchVerdict
<1>2. failing \subseteq Nat
  BY MandatesTyped
<1>3. failing # {} => D!Min(failing) \in failing
  BY <1>2, MinIsElement
<1>4. D!ScopeIsComplete(chain[l].scope)
  BY DEF Standing, D!structural_chain_check
<1>. QED  BY <1>1, <1>3, <1>4

\* The steps of the tariff verifier that the router's properties rest on (classify).
LEMMA TariffSteps ==
  ASSUME NEW input, NEW category, T!classify(input, category) = "ok"
  PROVE  T!ClassifierVerdict(input) = "ok" /\ T!VersionVerdict(input) = "ok"
<1>. DEFINE steps == <<T!EnvelopeVerdict(input.ctx), T!SignatureVerdict(input),
                       T!StandingVerdict(input, category), T!ClassifierVerdict(input),
                       T!VersionVerdict(input), T!ValidityVerdict(input, category)>>
            failing == {i \in DOMAIN steps : steps[i] # "ok"}
<1>1. failing # {} => steps[T!Min(failing)] = "ok"
  BY Zenon DEF T!classify
<1>2. failing # {} => T!Min(failing) \in failing
  BY MinIsElement
<1>3. failing = {}
  BY <1>1, <1>2
<1>. QED  BY <1>3

\* A tariff that is taken over is newer than the one in force (VersionVerdict).
LEMMA NewerVersion ==
  ASSUME TypeOK, NEW i \in DOMAIN Tariffs, TariffVerdict(i) = "ok",
         NEW v \in Tariffs[i].input.tariff_version_in_payload, versions # <<>>
  PROVE  v > CurrentVersion
<1>1. T!VersionVerdict(TariffInput(i)) = "ok"
  BY TariffSteps DEF TariffVerdict
<1>2. /\ TariffInput(i).tariff_version_in_payload = Tariffs[i].input.tariff_version_in_payload
      /\ TariffInput(i).previously_seen_version = {CurrentVersion}
  BY TariffsTyped DEF TariffInput
<1>3. ~(v <= CurrentVersion)
  BY <1>1, <1>2 DEF T!VersionVerdict
<1>4. v \in Nat /\ CurrentVersion \in Nat
  BY TariffsTyped DEF TypeOK, CurrentVersion
<1>. QED  BY <1>3, <1>4

\* No check of a list fails if the first failing one is "ok".
LEMMA AllOk ==
  ASSUME NEW verdicts, DOMAIN verdicts \subseteq Nat, P!FirstFailing(verdicts) = "ok"
  PROVE  \A i \in DOMAIN verdicts : verdicts[i] = "ok"
<1>. DEFINE failing == {i \in DOMAIN verdicts : verdicts[i] # "ok"}
<1>1. failing # {} => verdicts[P!Min(failing)] = "ok"
  BY DEF P!FirstFailing
<1>2. failing # {} => P!Min(failing) \in failing
  BY MinIsElement
<1>. QED  BY <1>1, <1>2

\* The checks of the bundle verifier that the router's properties rest on.
LEMMA BundleSteps ==
  ASSUME NEW input, P!ChecksVerdict(input) = "ok"
  PROVE  LET req == input.requirement
             atts == (CHOOSE b \in input.bundle : TRUE).attestations
         IN  /\ input.bundle # {}
             /\ P!classify_bundle_structural(atts, req) = "ok"
             /\ P!per_attestor_scans(atts, req, input.revoked) = "ok"
             /\ P!classify_nonce(atts, input.nonce_issued, input.nonce_consumed) = "ok"
             /\ P!classify_trust_filter(atts, req) = "ok"
             /\ ~(P!count_trusted_valid(atts, req) < req.quorum)
             /\ ~P!cross_attestor_mismatch(atts, req)
             /\ ~P!expected_value_mismatch(atts, req)
<1>. DEFINE req == input.requirement
            bundle == CHOOSE b \in input.bundle : TRUE
            atts == bundle.attestations
            steps == <<P!classify_bundle_structural(atts, req),
                 P!detect_duplicate_attestor(atts),
                 P!per_attestor_scans(atts, req, input.revoked),
                 P!classify_freshness(atts, req, input.current_time),
                 P!classify_nonce(atts, input.nonce_issued, input.nonce_consumed),
                 P!classify_transparency_log(bundle.transparency_log_proof, req),
                 P!classify_trust_filter(atts, req),
                 IF P!count_trusted_valid(atts, req) < req.quorum
                   THEN "pcr-attestation-quorum-short" ELSE "ok",
                 IF P!cross_attestor_mismatch(atts, req) THEN "pcr-attestation-mismatch" ELSE "ok",
                 IF P!expected_value_mismatch(atts, req) THEN "pcr-expected-mismatch" ELSE "ok">>
<1>1. P!FirstFailing(steps) = "ok" /\ input.bundle # {}
  BY Zenon DEF P!ChecksVerdict
<1>2. \A i \in 1..10 : steps[i] = "ok"
  BY <1>1, AllOk
<1>3. /\ steps[1] = P!classify_bundle_structural(atts, req)
      /\ steps[3] = P!per_attestor_scans(atts, req, input.revoked)
      /\ steps[5] = P!classify_nonce(atts, input.nonce_issued, input.nonce_consumed)
      /\ steps[7] = P!classify_trust_filter(atts, req)
  OBVIOUS
<1>4. /\ steps[8] = IF P!count_trusted_valid(atts, req) < req.quorum
                      THEN "pcr-attestation-quorum-short" ELSE "ok"
      /\ steps[9] = IF P!cross_attestor_mismatch(atts, req) THEN "pcr-attestation-mismatch" ELSE "ok"
      /\ steps[10] = IF P!expected_value_mismatch(atts, req) THEN "pcr-expected-mismatch" ELSE "ok"
  OBVIOUS
<1>. HIDE DEF steps
<1>. QED  BY <1>1, <1>2, <1>3, <1>4

-----------------------------------------------------------------------------
(* What an acceptance rests on.                                            *)

\* A step accepts an artefact of one kind at most, and the artefact it presents.
LEMMA AcceptingStep ==
  ASSUME Next
  PROVE  /\ last'.kind = "mandate" =>
              \E i \in DOMAIN Mandates : PresentMandate(i) /\ MandateVerdict(i) = "ok" /\ last'.index = i
         /\ last'.kind = "bundle" =>
              \E i \in DOMAIN Bundles : PresentBundle(i) /\ BundleVerdict(i) = "ok" /\ last'.index = i
         /\ last'.kind = "tariff" =>
              \E i \in DOMAIN Tariffs : PresentTariff(i) /\ TariffVerdict(i) = "ok" /\ last'.index = i
         /\ last'.kind = "document" =>
              \E i \in DOMAIN Documents : PresentDocument(i) /\ DocumentVerdict(i) = "ok" /\ last'.index = i
<1>. USE DEF Outcome, Nothing
<1>1. CASE Tick
  BY <1>1 DEF Tick
<1>2. ASSUME NEW id \in Revocable, Revoke(id)
      PROVE  last'.kind = "nothing"
  BY <1>2 DEF Revoke
<1>3. ASSUME NEW n \in Nonces, IssueNonce(n)
      PROVE  last'.kind = "nothing"
  BY <1>3 DEF IssueNonce
<1>4. ASSUME NEW i \in DOMAIN Mandates, PresentMandate(i)
      PROVE  /\ last'.kind \in {"nothing", "mandate"}
             /\ last'.kind = "mandate" => MandateVerdict(i) = "ok" /\ last'.index = i
  BY <1>4 DEF PresentMandate
<1>5. ASSUME NEW i \in DOMAIN Tariffs, PresentTariff(i)
      PROVE  /\ last'.kind \in {"nothing", "tariff"}
             /\ last'.kind = "tariff" => TariffVerdict(i) = "ok" /\ last'.index = i
  BY <1>5 DEF PresentTariff
<1>6. ASSUME NEW i \in DOMAIN Bundles, PresentBundle(i)
      PROVE  /\ last'.kind \in {"nothing", "bundle"}
             /\ last'.kind = "bundle" => BundleVerdict(i) = "ok" /\ last'.index = i
  BY <1>6 DEF PresentBundle
<1>7. ASSUME NEW i \in DOMAIN Documents, PresentDocument(i)
      PROVE  /\ last'.kind \in {"nothing", "document"}
             /\ last'.kind = "document" => DocumentVerdict(i) = "ok" /\ last'.index = i
  BY <1>7 DEF PresentDocument
<1>. QED  BY <1>1, <1>2, <1>3, <1>4, <1>5, <1>6, <1>7 DEF Next

\* No signature of a granted mandate was made by a revoked key (revocation_check
\* and structural_chain_check together).
THEOREM NoRevokedSigner == Spec => []RevokedKeysSignNothing
<1>1. Init => RevokedKeysSignNothing
  BY DEF Init, RevokedKeysSignNothing, Accepted, Nothing
<1>2. TypeOK /\ RevokedKeysSignNothing /\ [Next]_vars => RevokedKeysSignNothing'
  <2>. SUFFICES ASSUME TypeOK, Next, last'.kind = "mandate" PROVE RevokedKeysSignNothing'
    BY DEF RevokedKeysSignNothing, Accepted, vars
  <2>1. PICK i \in DOMAIN Mandates : PresentMandate(i) /\ MandateVerdict(i) = "ok" /\ last'.index = i
    BY AcceptingStep
  <2>. DEFINE chain == Mandates[i].chain
  <2>2. Standing(i) /\ ~Ended(i) /\ revoked' = revoked
    BY <2>1, VerdictSplits DEF PresentMandate
  <2>3. \A k \in Elements(revoked) : k \notin D!RevocableIn(Mandates[i])
    BY <2>2 DEF Ended, Elements
  <2>4. /\ chain # <<>> /\ Mandates[i].mandate.signer_key_hint \subseteq {chain[Len(chain)].child_key}
        /\ \A l \in DOMAIN chain : chain[l].signed_by = {chain[l].parent_key}
    BY <2>2 DEF Standing, D!structural_chain_check
  <2>5. Len(chain) \in DOMAIN chain
    BY <2>4, MandatesTyped
  <2>6. /\ \A l \in DOMAIN chain : chain[l].signed_by \cap Elements(revoked) = {}
        /\ Mandates[i].mandate.signer_key_hint \cap Elements(revoked) = {}
    BY <2>3, <2>4, <2>5 DEF D!RevocableIn
  <2>. QED  BY <2>1, <2>2, <2>6 DEF RevokedKeysSignNothing, Elements
<1>. QED  BY <1>1, <1>2, TypeCorrect, PTL DEF Spec

\* A granted mandate stays inside every link of its chain (scope_match).
THEOREM Attenuation == Spec => []MandatesAreAttenuated
<1>1. Init => MandatesAreAttenuated
  BY DEF Init, MandatesAreAttenuated, Accepted, Nothing
<1>2. TypeOK /\ MandatesAreAttenuated /\ [Next]_vars => MandatesAreAttenuated'
  <2>. SUFFICES ASSUME TypeOK, Next, last'.kind = "mandate" PROVE MandatesAreAttenuated'
    BY DEF MandatesAreAttenuated, Accepted, vars
  <2>1. PICK i \in DOMAIN Mandates : PresentMandate(i) /\ MandateVerdict(i) = "ok" /\ last'.index = i
    BY AcceptingStep
  <2>. DEFINE chain == Mandates[i].chain
              m == Mandates[i].mandate
  <2>2. Standing(i) /\ Begun(i) /\ ~Ended(i)
    BY <2>1, VerdictSplits
  <2>3. m.issued_at \in Int /\ m.exp \in Int /\ m.exp > m.issued_at
    BY <2>2, MandatesTyped, RouterBounds DEF Begun, Ended, TypeOK
  <2>4. ASSUME NEW l \in DOMAIN chain
        PROVE  LET s == D!from_raw(chain[l].scope)
               IN  /\ \A c \in m.cap : /\ D!Allows(s.allowed_verbs, c.verb)
                                       /\ D!Allows(s.allowed_resource_kinds, c.resource_kind)
                                       /\ c.tier <= s.max_tier_signable
                   /\ m.budget.actions <= s.max_budget.actions
                   /\ m.budget.tokens <= s.max_budget.tokens
                   /\ m.exp - m.issued_at <= s.max_exp_seconds
    <3>. DEFINE s == D!from_raw(chain[l].scope)
    <3>1. D!scope_match(m, s) = "ok" /\ D!ScopeIsComplete(chain[l].scope)
      BY <2>2, EveryLinkMatches
    <3>2. /\ s.max_tier_signable \in chain[l].scope.max_tier_signable
          /\ s.max_exp_seconds \in chain[l].scope.max_exp_seconds
          /\ s.max_budget \in chain[l].scope.max_budget
      BY <3>1 DEF D!from_raw, D!ScopeIsComplete, D!ScopeFields
    <3>3. /\ s.max_tier_signable \in Int /\ s.max_exp_seconds \in Int
          /\ s.max_budget.actions \in Int /\ s.max_budget.tokens \in Int
          /\ \A c \in m.cap : c.tier \in Int
      BY <3>2, MandatesTyped
    <3>. HIDE DEF s
    <3>4. /\ ~\E c \in m.cap : c.tier > s.max_tier_signable
          /\ ~\E c \in m.cap : ~D!Allows(s.allowed_verbs, c.verb)
          /\ ~\E c \in m.cap : ~D!Allows(s.allowed_resource_kinds, c.resource_kind)
          /\ m.budget.actions \in 0 .. s.max_budget.actions
          /\ m.budget.tokens \in 0 .. s.max_budget.tokens
          /\ ~((IF m.exp < m.issued_at THEN 0 ELSE m.exp - m.issued_at) > s.max_exp_seconds)
      BY <3>1 DEF D!scope_match
    <3>5. m.exp - m.issued_at <= s.max_exp_seconds
      BY <2>3, <3>3, <3>4
    <3>. QED  BY <3>3, <3>4, <3>5 DEF s
  <2>5. \A names, v, w : v # "*" /\ D!Allows(names, w) /\ Covers({w}, v) => Covers(names, v)
    BY DEF D!Allows, Covers
  <2>. QED  BY <2>1, <2>4, <2>5 DEF MandatesAreAttenuated, Named
<1>. QED  BY <1>1, <1>2, TypeCorrect, PTL DEF Spec

\* The verifier counts with the cardinality of the router.
LEMMA SameCardinality == ASSUME NEW S PROVE P!Cardinality(S) = Cardinality(S)
  BY DEF P!Cardinality, Cardinality

\* An admitted bundle rests on a quorum of trusted, unrevoked attestors that agree
\* on the expected values (per_attestor_scans, classify_trust_filter,
\* count_trusted_valid, cross_attestor_mismatch, expected_value_mismatch).
LEMMA AdmittedBundle ==
  ASSUME NEW i \in DOMAIN Bundles, BundleVerdict(i) = "ok"
  PROVE  nonce \notin Elements(consumed) /\ RestsOnAQuorum(Bundles[i], Elements(revoked))
<1>. DEFINE in == BundleInput(i)
            req == Bundles[i].requirement
            bundle == CHOOSE x \in Bundles[i].bundle : TRUE
            atts == bundle.attestations
            attestors == UNION {atts[j].attestor_id : j \in DOMAIN atts}
<1>1. /\ in.requirement = req /\ in.bundle = Bundles[i].bundle
      /\ in.revoked = Elements(revoked)
      /\ in.nonce_issued = nonce /\ in.nonce_consumed = Elements(consumed)
  BY BundlesTyped DEF BundleInput
<1>2. /\ Bundles[i].bundle # {}
      /\ P!classify_bundle_structural(atts, req) = "ok"
      /\ P!per_attestor_scans(atts, req, Elements(revoked)) = "ok"
      /\ P!classify_nonce(atts, nonce, Elements(consumed)) = "ok"
      /\ P!classify_trust_filter(atts, req) = "ok"
      /\ ~(P!count_trusted_valid(atts, req) < req.quorum)
      /\ ~P!cross_attestor_mismatch(atts, req)
      /\ ~P!expected_value_mismatch(atts, req)
  BY <1>1, BundleSteps DEF BundleVerdict
<1>3. /\ atts \in Seq(Elements(atts)) /\ req.quorum \in Nat
      /\ \A j \in DOMAIN atts : \A x, y \in atts[j].attestor_id : x = y
  BY <1>2, BundlesTyped
<1>. HIDE DEF atts, req
<1>4. DOMAIN atts \subseteq Nat /\ DOMAIN atts = 1..Len(atts) /\ Len(atts) \in Nat
  BY <1>3
<1>5. \A j \in DOMAIN atts : /\ atts[j].signature_valid
                             /\ atts[j].attestor_id # {}
                             /\ ~(atts[j].attestor_id \subseteq Elements(revoked))
                             /\ atts[j].attestor_id \subseteq req.attestors
  <2>. SUFFICES ASSUME NEW j \in DOMAIN atts
       PROVE  /\ atts[j].signature_valid
              /\ atts[j].attestor_id # {}
              /\ ~(atts[j].attestor_id \subseteq Elements(revoked))
              /\ atts[j].attestor_id \subseteq req.attestors
    OBVIOUS
  <2>1. atts[j].attestor_id # {}
    BY <1>2 DEF P!classify_bundle_structural
  <2>2. atts[j].attestor_id \subseteq req.attestors
    BY <1>2 DEF P!classify_trust_filter
  <2>. DEFINE scan(k) == IF ~atts[k].signature_valid THEN "pcr-attestor-signature-invalid"
                ELSE IF atts[k].attestor_id \subseteq Elements(revoked) /\ atts[k].attestor_id # {}
                  THEN "pcr-attestor-revoked"
                ELSE IF \E id \in atts[k].attestor_id, iat \in atts[k].iat :
                          id \in DOMAIN req.not_before /\ iat < req.not_before[id]
                  THEN "pcr-attestor-not-yet-valid"
                ELSE "ok"
              scans == [k \in DOMAIN atts |-> scan(k)]
  <2>3. P!FirstFailing(scans) = "ok"
    BY <1>2, Zenon DEF P!per_attestor_scans
  <2>4. scan(j) = "ok"
    BY <1>4, <2>3, AllOk
  <2>. QED  BY <2>1, <2>2, <2>4
<1>6. P!Counted(atts, req) = DOMAIN atts
  BY <1>5 DEF P!Counted
<1>7. nonce \notin Elements(consumed)
  BY <1>2 DEF P!classify_nonce
<1>8. attestors \cap Elements(revoked) = {}
  BY <1>3, <1>5
<1>9. Cardinality(attestors \cap req.attestors) >= req.quorum
  <2>1. attestors \cap req.attestors = attestors
    BY <1>5
  <2>2. IsFiniteSet(DOMAIN atts)
    BY <1>4, FS_Interval
  <2>3. \A j \in DOMAIN atts : IsFiniteSet(atts[j].attestor_id)
    <3>. SUFFICES ASSUME NEW j \in DOMAIN atts PROVE IsFiniteSet(atts[j].attestor_id)
      OBVIOUS
    <3>1. PICK x \in atts[j].attestor_id : TRUE
      BY <1>5
    <3>2. atts[j].attestor_id = {x}
      BY <1>3, <3>1
    <3>. QED  BY <3>2, FS_Singleton
  <2>4. IsFiniteSet({atts[j].attestor_id : j \in DOMAIN atts})
    <3>. DEFINE ids == [j \in DOMAIN atts |-> atts[j].attestor_id]
    <3>1. ids \in Surjection(DOMAIN atts, {atts[j].attestor_id : j \in DOMAIN atts})
      BY DEF Surjection
    <3>. QED  BY <2>2, <3>1, FS_Surjection
  <2>5. IsFiniteSet(attestors)
    BY <2>3, <2>4, FS_UNION
  <2>6. Cardinality(attestors) \in Nat
    BY <2>5, FS_CardinalityType
  <2>7. P!count_trusted_valid(atts, req) = Cardinality(attestors)
    <3>1. {atts[k].attestor_id : k \in P!Counted(atts, req)} = {atts[j].attestor_id : j \in DOMAIN atts}
      BY <1>6
    <3>. QED  BY <3>1, SameCardinality DEF P!count_trusted_valid
  <2>8. ~(Cardinality(attestors) < req.quorum)
    BY <1>2, <2>7, Zenon
  <2>. HIDE DEF attestors
  <2>9. Cardinality(attestors) >= req.quorum
    BY <1>3, <2>6, <2>8
  <2>. QED  BY <2>1, <2>9, Zenon
<1>10. ASSUME NEW expected \in req.expected_pcrs, NEW index \in DOMAIN expected
       PROVE  {atts[j].pcrs[index] : j \in {k \in DOMAIN atts : index \in DOMAIN atts[k].pcrs}}
                = {expected[index]}
  <2>. DEFINE reporting == {k \in DOMAIN atts : index \in DOMAIN atts[k].pcrs}
  <2>1. reporting # {} /\ atts[P!Min(reporting)].pcrs[index] = expected[index]
    BY <1>2, <1>6 DEF P!expected_value_mismatch
  <2>2. P!Min(reporting) \in reporting
    BY <1>4, <2>1, MinIsElement
  <2>3. \A j, k \in reporting : atts[j].pcrs[index] = atts[k].pcrs[index]
    BY <1>2, <1>6 DEF P!cross_attestor_mismatch
  <2>. QED  BY <2>1, <2>2, <2>3
<1>. QED  BY <1>7, <1>8, <1>9, <1>10 DEF RestsOnAQuorum, atts, req

\* What the router admits as a bundle rests on a quorum, at every moment
\* (ChecksVerdict in the router's context).
THEOREM Quorums == Spec => []BundlesRestOnAQuorum
<1>1. Init => BundlesRestOnAQuorum
  BY DEF Init, BundlesRestOnAQuorum, Accepted, Nothing
<1>2. BundlesRestOnAQuorum /\ [Next]_vars => BundlesRestOnAQuorum'
  <2>. SUFFICES ASSUME Next, last'.kind = "bundle" PROVE BundlesRestOnAQuorum'
    BY DEF BundlesRestOnAQuorum, Accepted, Elements, vars
  <2>1. PICK i \in DOMAIN Bundles : PresentBundle(i) /\ BundleVerdict(i) = "ok" /\ last'.index = i
    BY AcceptingStep
  <2>2. Elements(revoked)' = Elements(revoked)
    BY <2>1 DEF PresentBundle, Elements
  <2>. QED  BY <2>1, <2>2, AdmittedBundle DEF BundlesRestOnAQuorum
<1>. QED  BY <1>1, <1>2, PTL DEF Spec

\* A commitment that verifies was signed by a registered classifier key and names
\* the binary (verify_classifier_signature, verify_cose_sign1_with_cap, build_anchor_set).
LEMMA VerifiedCommitment ==
  ASSUME NEW wasm, NEW envelope, NEW defs,
         \A x, y \in envelope.payload : x = y,
         \A d \in DOMAIN defs : \A x, y \in defs[d].role : x = y,
         T!verify_classifier_signature(wasm, envelope, T!build_anchor_set(defs, "ClassifierSigner"),
                                       T!CLASSIFIER_ABI_VERSION) = "Ok"
  PROVE  \E i \in DOMAIN defs : \E commitment \in envelope.payload :
           /\ envelope.signature.pk = defs[i].pk
           /\ defs[i].role \subseteq {"ClassifierSigner"}
           /\ commitment.sha256 = {wasm}
           /\ commitment.abi_version = T!CLASSIFIER_ABI_VERSION
           /\ commitment.signer_kid = defs[i].kid
<1>. DEFINE anchors == T!build_anchor_set(defs, "ClassifierSigner")
            payload == CHOOSE p \in envelope.payload : TRUE
<1>1. T!verify_cose_sign1_with_cap(envelope, anchors, T!CLASSIFIER_AAD, "ClassifierSigner",
                                   T!MAX_COSE_BYTES) = "Ok"
  BY DEF T!verify_classifier_signature
<1>2. /\ payload.abi_version = T!CLASSIFIER_ABI_VERSION
      /\ payload.signer_kid = envelope.kid
      /\ payload.sha256 = {wasm}
  <2>. HIDE DEF anchors
  <2>. QED  BY <1>1 DEF T!verify_classifier_signature, anchors
<1>3. \E anchor \in T!lookup_with_role(anchors, envelope.kid, "ClassifierSigner") :
        T!SignatureHolds(envelope, anchor, T!CLASSIFIER_AAD)
  <2>. HIDE DEF anchors
  <2>. QED  BY <1>1 DEF T!verify_cose_sign1_with_cap, T!size_depth_check_with_cap
<1>4. PICK i \in DOMAIN anchors :
        /\ anchors[i].kid = envelope.kid /\ anchors[i].role = "ClassifierSigner"
        /\ T!SignatureHolds(envelope, anchors[i], T!CLASSIFIER_AAD)
  <2>. HIDE DEF anchors
  <2>. QED  BY <1>3 DEF T!lookup_with_role
<1>5. /\ i \in DOMAIN defs
      /\ defs[i].kid = envelope.kid /\ anchors[i].pk = defs[i].pk
      /\ defs[i].role # {} => (CHOOSE r \in defs[i].role : TRUE) = "ClassifierSigner"
  BY <1>4 DEF T!build_anchor_set
<1>6. defs[i].role \subseteq {"ClassifierSigner"}
  <2>. SUFFICES ASSUME NEW r \in defs[i].role PROVE r = "ClassifierSigner"
    OBVIOUS
  <2>1. (CHOOSE x \in defs[i].role : TRUE) \in defs[i].role
    OBVIOUS
  <2>. QED  BY <1>5, <2>1
<1>7. envelope.payload # {} /\ envelope.signature.pk = anchors[i].pk
  BY <1>4 DEF T!SignatureHolds
<1>8. payload \in envelope.payload
  BY <1>7
<1>. QED  BY <1>2, <1>5, <1>6, <1>7, <1>8

\* A tariff is taken over only with a commitment to the classifier it carries
\* (ClassifierVerdict), at every moment.
THEOREM ClassifiersBound == Spec => []TariffClassifiersAreBound
<1>1. Init => TariffClassifiersAreBound
  BY DEF Init, TariffClassifiersAreBound, Accepted, Nothing
<1>2. TariffClassifiersAreBound /\ [Next]_vars => TariffClassifiersAreBound'
  <2>. SUFFICES ASSUME Next, last'.kind = "tariff" PROVE TariffClassifiersAreBound'
    BY DEF TariffClassifiersAreBound, Accepted, vars
  <2>1. PICK i \in DOMAIN Tariffs : TariffVerdict(i) = "ok" /\ last'.index = i
    BY AcceptingStep
  <2>. DEFINE t == Tariffs[i].input
  <2>. SUFFICES ASSUME NEW wasm \in t.wasm_bytes_classifier
       PROVE  \E blob \in t.cose_sign1_bytes_classifier, defs \in t.trust_anchor_keys_classifier :
                \E d \in DOMAIN defs : \E commitment \in blob.envelope.payload :
                  /\ blob.envelope.signature.pk = defs[d].pk
                  /\ defs[d].role \subseteq {"ClassifierSigner"}
                  /\ commitment.sha256 = {wasm}
                  /\ commitment.abi_version = T!CLASSIFIER_ABI_VERSION
                  /\ commitment.signer_kid = defs[d].kid
    BY <2>1 DEF TariffClassifiersAreBound
  <2>2. T!ClassifierVerdict(TariffInput(i)) = "ok"
    BY <2>1, TariffSteps DEF TariffVerdict
  <2>. DEFINE in == TariffInput(i)
              blob == CHOOSE b \in t.cose_sign1_bytes_classifier : TRUE
              binary == CHOOSE w \in t.wasm_bytes_classifier : TRUE
              defs == CHOOSE d \in t.trust_anchor_keys_classifier : TRUE
              sig == T!verify_classifier_signature(binary, blob.envelope,
                       T!build_anchor_set(defs, "ClassifierSigner"), T!CLASSIFIER_ABI_VERSION)
  <2>3. /\ in.wasm_bytes_classifier = t.wasm_bytes_classifier
        /\ in.cose_sign1_bytes_classifier = t.cose_sign1_bytes_classifier
        /\ in.trust_anchor_keys_classifier = t.trust_anchor_keys_classifier
        /\ in.policy_classifier_abi_version = {}
    BY TariffsTyped DEF TariffInput
  <2>4. /\ t.cose_sign1_bytes_classifier # {} /\ t.trust_anchor_keys_classifier # {}
        /\ sig = "Ok" \/ T!map_classifier_sig_error_to_tariff(sig) = "ok"
    <3>. HIDE DEF in
    <3>1. T!UnwrapOr(in.policy_classifier_abi_version, T!CLASSIFIER_ABI_VERSION) = T!CLASSIFIER_ABI_VERSION
      BY <2>3 DEF T!UnwrapOr
    <3>. QED  BY <2>2, <2>3, <3>1 DEF T!ClassifierVerdict, in
  <2>5. sig = "Ok"
    <3>. HIDE DEF sig
    <3>. QED  BY <2>4 DEF T!map_classifier_sig_error_to_tariff
  <2>6. /\ blob \in t.cose_sign1_bytes_classifier /\ defs \in t.trust_anchor_keys_classifier
        /\ binary = wasm
    BY <2>4, TariffsTyped
  <2>7. /\ \A b \in t.cose_sign1_bytes_classifier : \A x, y \in b.envelope.payload : x = y
        /\ \A ds \in t.trust_anchor_keys_classifier : \A d \in DOMAIN ds :
             \A x, y \in ds[d].role : x = y
    BY TariffsTyped
  <2>. HIDE DEF blob, defs, binary
  <2>. QED  BY <2>5, <2>6, <2>7, VerifiedCommitment DEF sig
<1>. QED  BY <1>1, <1>2, PTL DEF Spec

\* The certificates of an accepted document: in their windows, each signed by the
\* next, the last one pinned, the first one the signer (verify_nitro_attestation).
LEMMA AcceptedDocument ==
  ASSUME TypeOK, NEW i \in DOMAIN Documents, DocumentVerdict(i) = "ok"
  PROVE  LET doc == Documents[i].doc
             chain == CertificatesOf(doc)
         IN  /\ doc.signature.pk = chain[1].pk
             /\ \A c \in DOMAIN chain : now \in chain[c].not_before .. chain[c].not_after
             /\ \A c \in 1 .. (Len(chain) - 1) : chain[c].signed_by = chain[c + 1].pk
             /\ \E r \in DOMAIN Documents[i].roots : Documents[i].roots[r] = {chain[Len(chain)]}
<1>. DEFINE doc == Documents[i].doc
            chain == CertificatesOf(doc)
            options == Documents[i].roots
            roots == UNION {options[r] : r \in DOMAIN options}
            in == [Documents[i] EXCEPT !.current_time = now]
            nonces == Documents[i].expected_nonce
<1>1. /\ in.doc = doc /\ in.roots = options /\ in.current_time = now
      /\ in.expected_nonce = nonces
  BY DocumentsTyped
<1>2. P!verify_nitro_attestation(doc, roots, nonces, now) = "Ok"
  <2>. DEFINE verdict == P!verify_nitro_attestation(doc, roots, nonces, now)
  <2>. HIDE DEF in, doc, options, verdict, roots, nonces
  <2>1. verdict = "Ok" \/ P!map_attest_error(verdict) = "ok"
    BY <1>1, Zenon DEF DocumentVerdict, P!classify_live_nitro, in, verdict, roots
  <2>2. P!map_attest_error(verdict) # "ok"
    BY DEF P!map_attest_error
  <2>. QED  BY <2>1, <2>2 DEF verdict
<1>3. P!verify_chain(chain, roots, now) = "Ok" /\ P!verify_cose_sign1_es384(doc, chain[1].pk) = "Ok"
  <2>. HIDE DEF doc, roots, nonces
  <2>. QED  BY <1>2, Zenon DEF P!verify_nitro_attestation, CertificatesOf
<1>4. /\ chain \in Seq(Elements(chain)) /\ Len(chain) >= 1
      /\ \A c \in DOMAIN chain : chain[c].decodes =>
           chain[c].not_before \in Int /\ chain[c].not_after \in Int
      /\ \A r \in DOMAIN options : \A x, y \in options[r] : x = y
  <2>. DEFINE claims == P!parse_claims_cbor(doc.payload)
              leaf == claims.certificate
              bundle == claims.cabundle
  <2>1. bundle \in Seq(Elements(bundle))
    BY DocumentsTyped
  <2>2. chain = <<leaf>> \o bundle
    BY DEF CertificatesOf
  <2>. HIDE DEF leaf, bundle
  <2>3. chain \in Seq({leaf} \cup Elements(bundle)) /\ Len(chain) >= 1
    BY <2>1, <2>2
  <2>. HIDE DEF chain
  <2>4. chain \in Seq(Elements(chain))
    BY <2>3 DEF Elements
  <2>5. /\ \A c \in DOMAIN chain : chain[c].decodes =>
             chain[c].not_before \in Int /\ chain[c].not_after \in Int
        /\ \A r \in DOMAIN options : \A x, y \in options[r] : x = y
    BY DocumentsTyped DEF chain
  <2>. QED  BY <2>3, <2>4, <2>5
<1>. HIDE DEF chain, roots
<1>5. DOMAIN chain = 1 .. Len(chain) /\ Len(chain) \in Nat
  BY <1>4
<1>. DEFINE failing == {c \in DOMAIN chain : P!CertificateVerdict(chain, c, now) # "Ok"}
<1>6. /\ \A c \in DOMAIN chain : chain[c].decodes
      /\ failing # {} => P!CertificateVerdict(chain, P!Min(failing), now) = "Ok"
      /\ failing = {} => chain[Len(chain)] \in roots
  <2>. DEFINE failed == P!CertificateVerdict(chain, P!Min(failing), now)
  <2>1. P!verify_chain(chain, roots, now) =
          IF Len(chain) > P!MAX_CA_CHAIN_DEPTH THEN "CaChainTooLong"
          ELSE IF \E c \in DOMAIN chain : ~chain[c].decodes THEN "CaChainInvalid"
          ELSE IF failing # {} THEN failed
          ELSE IF chain[Len(chain)] \notin roots THEN "UntrustedRoot"
          ELSE IF ~chain[1].is_p384 THEN "CaChainInvalid"
          ELSE "Ok"
    BY DEF P!verify_chain
  <2>. HIDE DEF failing, failed
  <2>2. /\ \A c \in DOMAIN chain : chain[c].decodes
        /\ failing # {} => failed = "Ok"
        /\ failing = {} => chain[Len(chain)] \in roots
    BY <1>3, <2>1
  <2>. QED  BY <2>2 DEF failed
<1>7. failing # {} => P!Min(failing) \in failing
  <2>1. failing \subseteq Nat
    BY <1>5
  <2>. HIDE DEF failing
  <2>. QED  BY <2>1, MinIsElement
<1>8. \A c \in DOMAIN chain : P!CertificateVerdict(chain, c, now) = "Ok"
  BY <1>6, <1>7
<1>9. chain[Len(chain)] \in roots
  BY <1>6, <1>8
<1>10. \A c \in DOMAIN chain : now \in chain[c].not_before .. chain[c].not_after
  <2>. SUFFICES ASSUME NEW c \in DOMAIN chain
       PROVE  now \in chain[c].not_before .. chain[c].not_after
    OBVIOUS
  <2>1. P!check_validity(chain[c], now) = "Ok"
    BY <1>8 DEF P!CertificateVerdict
  <2>2. now \in Int /\ chain[c].not_before \in Int /\ chain[c].not_after \in Int
    BY <1>4, <1>6, RouterBounds DEF TypeOK
  <2>3. ~(now < chain[c].not_before) /\ ~(now > chain[c].not_after)
    BY <2>1 DEF P!check_validity
  <2>. QED  BY <2>2, <2>3
<1>11. \A c \in 1 .. (Len(chain) - 1) : chain[c].signed_by = chain[c + 1].pk
  <2>. SUFFICES ASSUME NEW c \in 1 .. (Len(chain) - 1)
       PROVE  chain[c].signed_by = chain[c + 1].pk
    OBVIOUS
  <2>1. c + 1 \in DOMAIN chain /\ c + 1 > 1 /\ (c + 1) - 1 = c
    BY <1>5
  <2>2. P!verify_cert_signature(chain[c], chain[c + 1])
    BY <1>8, <2>1 DEF P!CertificateVerdict
  <2>. QED  BY <2>2 DEF P!verify_cert_signature
<1>12. doc.signature.pk = chain[1].pk
  BY <1>3 DEF P!verify_cose_sign1_es384
<1>13. PICK r \in DOMAIN options : options[r] = {chain[Len(chain)]}
  BY <1>4, <1>9 DEF roots
<1>. QED  BY <1>10, <1>11, <1>12, <1>13 DEF chain

\* A document is accepted only while its chain of certificates holds, at every
\* moment of the router's clock (classify_live_nitro, verify_chain).
THEOREM ChainsHold == Spec => []DocumentChainsHold
<1>1. Init => DocumentChainsHold
  BY DEF Init, DocumentChainsHold, Accepted, Nothing
<1>2. TypeOK /\ DocumentChainsHold /\ [Next]_vars => DocumentChainsHold'
  <2>. SUFFICES ASSUME TypeOK, Next, last'.kind = "document" PROVE DocumentChainsHold'
    <3>1. CASE UNCHANGED vars
      BY <3>1 DEF DocumentChainsHold, Accepted, vars
    <3>2. CASE Next /\ last'.kind # "document"
      BY <3>2 DEF DocumentChainsHold, Accepted
    <3>. QED  BY <3>1, <3>2
  <2>1. PICK i \in DOMAIN Documents : PresentDocument(i) /\ DocumentVerdict(i) = "ok" /\ last'.index = i
    BY AcceptingStep
  <2>2. now' = now
    BY <2>1 DEF PresentDocument
  <2>. QED  BY <2>1, <2>2, AcceptedDocument DEF DocumentChainsHold
<1>. QED  BY <1>1, <1>2, TypeCorrect, PTL DEF Spec

-----------------------------------------------------------------------------
(* What accumulates.                                                       *)

\* A step leaves the versions alone or appends one above the version in force.
LEMMA VersionStep ==
  ASSUME TypeOK, [Next]_vars
  PROVE  \/ versions' = versions
         \/ \E v \in Nat : versions' = Append(versions, v) /\ (versions # <<>> => v > CurrentVersion)
<1>1. ASSUME NEW i \in DOMAIN Tariffs, PresentTariff(i), versions' # versions
      PROVE  \E v \in Nat : versions' = Append(versions, v) /\ (versions # <<>> => v > CurrentVersion)
  <2>. DEFINE version == Tariffs[i].input.tariff_version_in_payload
              v == CHOOSE x \in version : TRUE
  <2>1. TariffVerdict(i) = "ok" /\ v \in version /\ versions' = Append(versions, v)
    BY <1>1 DEF PresentTariff
  <2>2. v \in Nat
    BY <2>1, TariffsTyped
  <2>3. versions # <<>> => v > CurrentVersion
    BY <2>1, NewerVersion
  <2>. QED  BY <2>1, <2>2, <2>3
<1>2. versions' = versions \/ \E i \in DOMAIN Tariffs : PresentTariff(i)
  BY DEF Next, Tick, Revoke, IssueNonce, PresentMandate, PresentBundle, PresentDocument, vars
<1>. QED  BY <1>1, <1>2

\* No nonce admits two bundles (classify_nonce).
THEOREM NonceOnce == Spec => []NoncesAdmitOnce
<1>1. Init => NoncesAdmitOnce
  BY DEF Init, NoncesAdmitOnce
<1>2. TypeOK /\ NoncesAdmitOnce /\ [Next]_vars => NoncesAdmitOnce'
  <2>. SUFFICES ASSUME TypeOK, NoncesAdmitOnce, [Next]_vars PROVE NoncesAdmitOnce'
    OBVIOUS
  <2>1. CASE consumed' = consumed
    BY <2>1 DEF NoncesAdmitOnce
  <2>2. ASSUME NEW i \in DOMAIN Bundles, BundleVerdict(i) = "ok", consumed' = Append(consumed, nonce)
        PROVE  NoncesAdmitOnce'
    <3>1. nonce \notin Elements(consumed)
      BY <2>2, AdmittedBundle
    <3>. QED  BY <2>2, <3>1 DEF NoncesAdmitOnce, Elements, TypeOK
  <2>3. \/ consumed' = consumed
        \/ \E i \in DOMAIN Bundles : BundleVerdict(i) = "ok" /\ consumed' = Append(consumed, nonce)
    BY DEF Next, Tick, Revoke, IssueNonce, PresentMandate, PresentTariff, PresentBundle,
           PresentDocument, vars
  <2>. QED  BY <2>1, <2>2, <2>3
<1>. QED  BY <1>1, <1>2, TypeCorrect, PTL DEF Spec

\* The versions that are taken over increase (VersionVerdict).
THEOREM VersionsIncrease == Spec => []TariffVersionsIncrease
<1>1. Init => TariffVersionsIncrease
  BY DEF Init, TariffVersionsIncrease
<1>2. TypeOK /\ TariffVersionsIncrease /\ [Next]_vars => TariffVersionsIncrease'
  <2>. SUFFICES ASSUME TypeOK, TariffVersionsIncrease, [Next]_vars PROVE TariffVersionsIncrease'
    OBVIOUS
  <2>1. CASE versions' = versions
    BY <2>1 DEF TariffVersionsIncrease
  <2>2. ASSUME NEW v \in Nat, versions' = Append(versions, v), versions # <<>> => v > CurrentVersion
        PROVE  TariffVersionsIncrease'
    <3>1. versions \in Seq(Nat) /\ \A j \in DOMAIN versions : versions[j] < v
      <4>1. \A j \in DOMAIN versions : j = Len(versions) \/ versions[j] < versions[Len(versions)]
        BY DEF TariffVersionsIncrease, TypeOK
      <4>. QED  BY <2>2, <4>1 DEF CurrentVersion, TypeOK
    <3>2. \A j \in DOMAIN versions' : (j \in DOMAIN versions /\ versions'[j] = versions[j])
                                      \/ (j = Len(versions) + 1 /\ versions'[j] = v)
      BY <2>2, <3>1
    <3>3. ASSUME NEW j \in DOMAIN versions', NEW k \in DOMAIN versions', j < k
          PROVE  versions'[j] < versions'[k]
      <4>1. j \in DOMAIN versions
        BY <2>2, <3>1, <3>3
      <4>. QED  BY <3>1, <3>2, <3>3, <4>1 DEF TariffVersionsIncrease
    <3>. QED  BY <3>3 DEF TariffVersionsIncrease
  <2>. QED  BY <2>1, <2>2, VersionStep
<1>. QED  BY <1>1, <1>2, TypeCorrect, PTL DEF Spec

\* What GrantsEndForGood rests on: a grant is standing and begun for good, and a
\* withdrawn one has ended for good.
GrantInv ==
  /\ \A i \in granted : Standing(i) /\ Begun(i)
  /\ \A i \in withdrawn : Ended(i)

\* The clock, the revocation list and the version in force only move on.
LEMMA ContextMovesOn ==
  ASSUME TypeOK, [Next]_vars
  PROVE  /\ now <= now' /\ CurrentVersion <= CurrentVersion'
         /\ now \in Nat /\ now' \in Nat /\ CurrentVersion \in Nat /\ CurrentVersion' \in Nat
         /\ \A e \in DOMAIN revoked : e \in DOMAIN revoked' /\ revoked'[e] = revoked[e]
<1>1. now \in Nat /\ (now' = now \/ now' = now + 1)
  BY RouterBounds DEF TypeOK, Next, Tick, Revoke, IssueNonce, PresentMandate, PresentTariff,
     PresentBundle, PresentDocument, vars
<1>2. revoked' = revoked \/ \E id \in Revocable : revoked' = Append(revoked, id)
  BY DEF Next, Tick, Revoke, IssueNonce, PresentMandate, PresentTariff, PresentBundle,
     PresentDocument, vars
<1>3. \A e \in DOMAIN revoked : e \in DOMAIN revoked' /\ revoked'[e] = revoked[e]
  <2>1. ASSUME NEW id \in Revocable, revoked' = Append(revoked, id), NEW e \in DOMAIN revoked
        PROVE  e \in DOMAIN revoked' /\ revoked'[e] = revoked[e]
    BY <2>1 DEF TypeOK
  <2>. QED  BY <1>2, <2>1
<1>4. CurrentVersion \in Nat
  BY DEF TypeOK, CurrentVersion
<1>5. CurrentVersion' = CurrentVersion \/ (CurrentVersion' \in Nat /\ CurrentVersion' >= CurrentVersion)
  <2>1. CASE versions' = versions
    BY <2>1 DEF CurrentVersion
  <2>2. ASSUME NEW v \in Nat, versions' = Append(versions, v), versions # <<>> => v > CurrentVersion
        PROVE  CurrentVersion' = v /\ v >= CurrentVersion
    BY <2>2, <1>4 DEF TypeOK, CurrentVersion
  <2>. QED  BY <2>1, <2>2, VersionStep
<1>. QED  BY <1>1, <1>3, <1>4, <1>5

\* A grant that was withdrawn is never given again (verify, and the router's context).
THEOREM NoRevival == Spec => []GrantsEndForGood
<1>1. Init => GrantInv
  BY DEF Init, GrantInv
<1>2. TypeOK /\ GrantInv /\ [Next]_vars => GrantInv'
  <2>. SUFFICES ASSUME TypeOK, GrantInv, [Next]_vars PROVE GrantInv'
    OBVIOUS
  <2>1. ASSUME NEW i \in DOMAIN Mandates
        PROVE  /\ Standing(i) => Standing(i)'
               /\ Begun(i) => Begun(i)'
               /\ Ended(i) => Ended(i)'
    <3>1. /\ \A l \in DOMAIN Mandates[i].chain : /\ Mandates[i].chain[l].valid_from \in Int
                                                 /\ Mandates[i].chain[l].valid_until \in Int
          /\ Mandates[i].mandate.issued_at \in Int /\ Mandates[i].mandate.exp \in Int
          /\ Mandates[i].mandate.min_tariff_version \in Int
      BY MandatesTyped
    <3>2. Standing(i) => Standing(i)'
      BY DEF Standing
    <3>3. Begun(i) => Begun(i)'
      BY <3>1, ContextMovesOn DEF Begun
    <3>4. Ended(i) => Ended(i)'
      BY <3>1, ContextMovesOn DEF Ended
    <3>. QED  BY <3>2, <3>3, <3>4
  <2>2. granted \subseteq DOMAIN Mandates /\ withdrawn \subseteq DOMAIN Mandates
    BY DEF TypeOK
  <2>3. CASE granted' = granted /\ withdrawn' = withdrawn
    BY <2>1, <2>2, <2>3 DEF GrantInv
  <2>4. ASSUME NEW i \in DOMAIN Mandates, PresentMandate(i)
        PROVE  GrantInv'
    <3>1. MandateVerdict(i) = "ok" => Standing(i) /\ Begun(i)
      BY VerdictSplits
    <3>2. MandateVerdict(i) # "ok" /\ i \in granted => Ended(i)
      BY VerdictSplits DEF GrantInv
    <3>3. \A j \in granted' : j \in granted \/ (j = i /\ MandateVerdict(i) = "ok")
      BY <2>4 DEF PresentMandate
    <3>4. \A j \in withdrawn' : j \in withdrawn \/ (j = i /\ MandateVerdict(i) # "ok" /\ i \in granted)
      BY <2>4 DEF PresentMandate
    <3>. QED  BY <2>1, <2>2, <3>1, <3>2, <3>3, <3>4 DEF GrantInv
  <2>5. (granted' = granted /\ withdrawn' = withdrawn) \/ \E i \in DOMAIN Mandates : PresentMandate(i)
    BY DEF Next, Tick, Revoke, IssueNonce, PresentTariff, PresentBundle, PresentDocument, vars
  <2>. QED  BY <2>3, <2>4, <2>5
<1>3. TypeOK /\ GrantInv => GrantsEndForGood
  BY VerdictSplits DEF TypeOK, GrantInv, GrantsEndForGood
<1>. QED  BY <1>1, <1>2, <1>3, TypeCorrect, PTL DEF Spec
=============================================================================
