------------------------------- MODULE Router -------------------------------
(***************************************************************************)
(* The verifiers of ephemeral-core behind one router.  The verifiers are   *)
(* pure; what they are asked again and again depends on a context that the *)
(* router (external: the repository specifies it and holds no code of it)  *)
(* moves along: its clock, the revocation list that only grows, the last   *)
(* tariff version it took over, the nonce it issued and the ones it has    *)
(* consumed.  Artefacts are presented in any order and any number of       *)
(* times; each presentation is one call of a verifier.                     *)
(*                                                                         *)
(* Mandates, Tariffs, Bundles and Documents are sequences of artefacts: an *)
(* artefact is presented by its index.                                     *)
(***************************************************************************)
EXTENDS Integers, Sequences, FiniteSets

CONSTANTS Mandates, Tariffs, Bundles, Documents,
          Revocable,       \* keys, mandates and attestors that may be revoked
          MaxRevocations,  \* bound on the revocation list
          Nonces,          \* the nonces the router issues
          MaxTime          \* bound on the clock

VARIABLES now,        \* the router's clock
          revoked,    \* the revocation list, oldest entry first
          versions,   \* the versions of the tariffs taken over, oldest first
          nonce,      \* the nonce on offer
          consumed,   \* the nonces of admitted bundles, oldest first
          granted,    \* mandates that were accepted at least once
          withdrawn,  \* granted mandates that were refused later
          last        \* the artefact the latest step accepted

vars == <<now, revoked, versions, nonce, consumed, granted, withdrawn, last>>

Elements(seq) == {seq[i] : i \in DOMAIN seq}

ASSUME RouterBounds == MaxTime \in Nat /\ MaxRevocations \in Nat

\* Chains are lists; instants, tiers, budgets and versions are integers.
ASSUME MandatesTyped ==
  \A i \in DOMAIN Mandates :
    LET chain == Mandates[i].chain
        m     == Mandates[i].mandate
    IN  /\ chain \in Seq(Elements(chain))
        /\ \A l \in DOMAIN chain :
             /\ chain[l].valid_from \in Int /\ chain[l].valid_until \in Int
             /\ chain[l].scope.max_tier_signable \subseteq Int
             /\ chain[l].scope.max_exp_seconds \subseteq Int
             /\ \A b \in chain[l].scope.max_budget : b.actions \in Int /\ b.tokens \in Int
        /\ m.issued_at \in Int /\ m.exp \in Int /\ m.min_tariff_version \in Int
        /\ \A c \in m.cap : c.tier \in Int

\* The fields the router fills in are there, and the ones next to them; versions
\* are natural numbers, options have one value at most, and the router's policy
\* asks for no other ABI than its own.
ASSUME TariffsTyped ==
  \A i \in DOMAIN Tariffs :
    LET input == Tariffs[i].input
    IN  /\ {"current_time", "previously_seen_version", "ctx", "tariff_version_in_payload",
            "wasm_bytes_classifier", "cose_sign1_bytes_classifier",
            "trust_anchor_keys_classifier", "policy_classifier_abi_version"} \subseteq DOMAIN input
        /\ "revocation_list" \in DOMAIN input.ctx
        /\ input.tariff_version_in_payload \subseteq Nat
        /\ \A v, w \in input.wasm_bytes_classifier : v = w
        /\ \A blob \in input.cose_sign1_bytes_classifier : \A x, y \in blob.envelope.payload : x = y
        /\ \A defs \in input.trust_anchor_keys_classifier : \A d \in DOMAIN defs :
             \A x, y \in defs[d].role : x = y
        /\ input.policy_classifier_abi_version = {}

\* The fields the router fills in are there; a bundle is a list of attestations,
\* each by at most one attestor.
ASSUME BundlesTyped ==
  \A i \in DOMAIN Bundles :
    /\ {"current_time", "revoked", "nonce_issued", "nonce_consumed",
        "requirement", "bundle"} \subseteq DOMAIN Bundles[i]
    /\ Bundles[i].requirement.quorum \in Nat
    /\ \A bundle \in Bundles[i].bundle :
         LET atts == bundle.attestations
         IN  /\ atts \in Seq(Elements(atts))
             /\ \A j \in DOMAIN atts : \A x, y \in atts[j].attestor_id : x = y

D == INSTANCE Delegation
T == INSTANCE Tariff
P == INSTANCE PcrSuite

\* The path of a document, from the leaf that signed it upwards.
CertificatesOf(doc) ==
  <<P!parse_claims_cbor(doc.payload).certificate>> \o P!parse_claims_cbor(doc.payload).cabundle

\* A document carries a list of certificates, whose windows are integers if they
\* decode at all; a root is an option.
ASSUME DocumentsTyped ==
  \A i \in DOMAIN Documents :
    LET bundle == P!parse_claims_cbor(Documents[i].doc.payload).cabundle
        chain  == CertificatesOf(Documents[i].doc)
    IN  /\ {"current_time", "doc", "roots", "expected_nonce"} \subseteq DOMAIN Documents[i]
        /\ bundle \in Seq(Elements(bundle))
        /\ \A c \in DOMAIN chain :
             chain[c].decodes => chain[c].not_before \in Int /\ chain[c].not_after \in Int
        /\ \A r \in DOMAIN Documents[i].roots : \A x, y \in Documents[i].roots[r] : x = y

\* The tariff version in force; 0 before the first one.
CurrentVersion == IF versions = <<>> THEN 0 ELSE versions[Len(versions)]

\* What the verifiers are asked: the artefact in the router's context.
MandateInput(i) ==
  [chain |-> Mandates[i].chain, mandate |-> Mandates[i].mandate,
   anchor_defs |-> Mandates[i].anchor_defs,
   context |-> [time |-> now, tariff_version |-> CurrentVersion, revoked |-> revoked,
                narrowness |-> D!DEFAULT_NARROWNESS_THRESHOLD]]

TariffInput(i) ==
  [Tariffs[i].input EXCEPT
     !.current_time = now,
     !.previously_seen_version = IF versions = <<>> THEN {} ELSE {CurrentVersion},
     !.ctx = [@ EXCEPT !.revocation_list = {Elements(revoked)}]]

BundleInput(i) ==
  [Bundles[i] EXCEPT !.current_time = now, !.revoked = Elements(revoked),
                     !.nonce_issued = nonce, !.nonce_consumed = Elements(consumed)]

MandateVerdict(i) == D!verify(MandateInput(i))
TariffVerdict(i) == T!classify(TariffInput(i), Tariffs[i].category)
BundleVerdict(i) == P!ChecksVerdict(BundleInput(i))
DocumentVerdict(i) == P!classify_live_nitro([Documents[i] EXCEPT !.current_time = now])

Nothing == [kind |-> "nothing", index |-> 0]

\* What a presentation leaves behind.
Outcome(kind, i, verdict) == IF verdict = "ok" THEN [kind |-> kind, index |-> i] ELSE Nothing

Init ==
  /\ now = 0
  /\ revoked = <<>>
  /\ versions = <<>>
  /\ nonce \in Nonces
  /\ consumed = <<>>
  /\ granted = {}
  /\ withdrawn = {}
  /\ last = Nothing

Tick ==
  /\ now < MaxTime
  /\ now' = now + 1
  /\ last' = Nothing
  /\ UNCHANGED <<revoked, versions, nonce, consumed, granted, withdrawn>>

Revoke(id) ==
  /\ Len(revoked) < MaxRevocations
  /\ id \notin Elements(revoked)
  /\ revoked' = Append(revoked, id)
  /\ last' = Nothing
  /\ UNCHANGED <<now, versions, nonce, consumed, granted, withdrawn>>

\* The router offers another nonce, possibly one it has offered before.
IssueNonce(n) ==
  /\ n # nonce
  /\ nonce' = n
  /\ last' = Nothing
  /\ UNCHANGED <<now, revoked, versions, consumed, granted, withdrawn>>

\* Mutant: a refusal withdraws a mandate that was never granted.
PresentMandate_AnyRefusal(i) ==
  LET verdict == MandateVerdict(i)
      ok == verdict = "ok"
  IN  /\ last' = Outcome("mandate", i, verdict)
      /\ granted' = IF ok THEN granted \cup {i} ELSE granted
      /\ withdrawn' = IF ~ok THEN withdrawn \cup {i} ELSE withdrawn
      /\ UNCHANGED <<now, revoked, versions, nonce, consumed>>

PresentMandate(i) ==
  LET verdict == MandateVerdict(i)
      ok == verdict = "ok"
  IN  /\ last' = Outcome("mandate", i, verdict)
      /\ granted' = IF ok THEN granted \cup {i} ELSE granted
      /\ withdrawn' = IF ~ok /\ i \in granted THEN withdrawn \cup {i} ELSE withdrawn
      /\ UNCHANGED <<now, revoked, versions, nonce, consumed>>

\* A tariff whose version is no integer leaves the version in force alone.
PresentTariff(i) ==
  LET verdict == TariffVerdict(i)
      version == Tariffs[i].input.tariff_version_in_payload
  IN  /\ last' = Outcome("tariff", i, verdict)
      /\ versions' = IF verdict = "ok" /\ version # {}
                       THEN Append(versions, CHOOSE v \in version : TRUE) ELSE versions
      /\ UNCHANGED <<now, revoked, nonce, consumed, granted, withdrawn>>

PresentBundle(i) ==
  LET verdict == BundleVerdict(i)
  IN  /\ last' = Outcome("bundle", i, verdict)
      /\ consumed' = IF verdict = "ok" THEN Append(consumed, nonce) ELSE consumed
      /\ UNCHANGED <<now, revoked, versions, nonce, granted, withdrawn>>

PresentDocument(i) ==
  /\ last' = Outcome("document", i, DocumentVerdict(i))
  /\ UNCHANGED <<now, revoked, versions, nonce, consumed, granted, withdrawn>>

Next ==
  \/ Tick
  \/ \E id \in Revocable : Revoke(id)
  \/ \E n \in Nonces : IssueNonce(n)
  \/ \E i \in DOMAIN Mandates : PresentMandate(i)
  \/ \E i \in DOMAIN Tariffs : PresentTariff(i)
  \/ \E i \in DOMAIN Bundles : PresentBundle(i)
  \/ \E i \in DOMAIN Documents : PresentDocument(i)

Spec == Init /\ [][Next]_vars
-----------------------------------------------------------------------------
Accepted(kind) == last.kind = kind

TypeOK ==
  /\ now \in 0 .. MaxTime
  /\ revoked \in Seq(Revocable)
  /\ Len(revoked) <= MaxRevocations
  /\ versions \in Seq(Nat)
  /\ nonce \in Nonces
  /\ consumed \in Seq(Nonces)
  /\ granted \subseteq DOMAIN Mandates
  /\ withdrawn \subseteq granted

\* The verbs and kinds of the world a scope or a mandate speaks about: the ones
\* that occur, and one of each that no document names.
Named(i) ==
  LET m == Mandates[i].mandate
  IN  [verbs |-> {c.verb : c \in m.cap} \cup
                 UNION {D!from_raw(Mandates[i].chain[l].scope).allowed_verbs : l \in DOMAIN Mandates[i].chain}
                 \cup {"unnamed"},
       kinds |-> {c.resource_kind : c \in m.cap} \cup
                 UNION {D!from_raw(Mandates[i].chain[l].scope).allowed_resource_kinds :
                          l \in DOMAIN Mandates[i].chain} \cup {"unnamed"}]

\* What a name in a list stands for.
Covers(names, x) == "*" \in names \/ x \in names

\* A granted mandate confers no action that some link of its chain withholds:
\* taken as the concrete (verb, kind, tier) triples they allow, wildcards
\* included, the mandate lies inside the scope of every link, and so do its
\* budget and its lifetime (the scope_match rows and the order of the chain).
MandatesAreAttenuated ==
  Accepted("mandate") =>
    LET chain == Mandates[last.index].chain
        m     == Mandates[last.index].mandate
    IN  \A l \in DOMAIN chain :
          LET s == D!from_raw(chain[l].scope)
          IN  /\ \A v \in Named(last.index).verbs \ {"*"}, k \in Named(last.index).kinds \ {"*"} :
                   \A c \in m.cap :
                     Covers({c.verb}, v) /\ Covers({c.resource_kind}, k) =>
                       /\ Covers(s.allowed_verbs, v)
                       /\ Covers(s.allowed_resource_kinds, k)
                       /\ c.tier <= s.max_tier_signable
              /\ m.budget.actions <= s.max_budget.actions
              /\ m.budget.tokens <= s.max_budget.tokens
              /\ m.exp - m.issued_at <= s.max_exp_seconds

\* A mandate that was granted and later refused is never granted again: the
\* windows are intervals, and revocations and tariff versions only accumulate,
\* so no later step of the router can revive it.
GrantsEndForGood == \A i \in withdrawn : MandateVerdict(i) # "ok"

\* No signature counts that a revoked key made: neither the key that signed a
\* link nor the key that signed the mandate is on the list when the mandate is
\* granted, although revocation_check looks at other fields than signed_by.
RevokedKeysSignNothing ==
  Accepted("mandate") =>
    LET input == Mandates[last.index]
    IN  /\ \A l \in DOMAIN input.chain : input.chain[l].signed_by \cap Elements(revoked) = {}
        /\ input.mandate.signer_key_hint \cap Elements(revoked) = {}

\* The tariffs the router takes over have strictly increasing versions, however
\* often and in whatever order they are presented (VersionVerdict).
TariffVersionsIncrease ==
  \A i, j \in DOMAIN versions : i < j => versions[i] < versions[j]

\* A tariff that carries a classifier binary is taken over only with a
\* commitment to exactly this binary, for the ABI the router runs, made by a key
\* registered for classifiers under the kid the commitment names.
TariffClassifiersAreBound ==
  Accepted("tariff") =>
    LET t == Tariffs[last.index].input
    IN  \A wasm \in t.wasm_bytes_classifier :
          \E blob \in t.cose_sign1_bytes_classifier, defs \in t.trust_anchor_keys_classifier :
            \E i \in DOMAIN defs : \E commitment \in blob.envelope.payload :
              /\ blob.envelope.signature.pk = defs[i].pk
              /\ defs[i].role \subseteq {"ClassifierSigner"}
              /\ commitment.sha256 = {wasm}
              /\ commitment.abi_version = T!CLASSIFIER_ABI_VERSION
              /\ commitment.signer_kid = defs[i].kid

RestsOnAQuorum(b, refused) ==
  LET req == b.requirement
      atts == (CHOOSE x \in b.bundle : TRUE).attestations
      attestors == UNION {atts[i].attestor_id : i \in DOMAIN atts}
  IN  /\ Cardinality(attestors \cap req.attestors) >= req.quorum
      /\ attestors \cap refused = {}
      /\ \A expected \in req.expected_pcrs : \A index \in DOMAIN expected :
           {atts[i].pcrs[index] : i \in {j \in DOMAIN atts : index \in DOMAIN atts[j].pcrs}}
             = {expected[index]}

\* An admitted bundle rests on a quorum: at least quorum attestors of the
\* tariff's list, none of them revoked, of which nobody contradicts an expected
\* PCR value and somebody confirms it.
BundlesRestOnAQuorum ==
  Accepted("bundle") => RestsOnAQuorum(Bundles[last.index], Elements(revoked))

\* No nonce admits two bundles, though the router may offer it again.
NoncesAdmitOnce == \A i, j \in DOMAIN consumed : i # j => consumed[i] # consumed[j]

\* A Nitro document is accepted only while every certificate between the leaf
\* that signed it and the pinned root is inside its validity window, each signed
\* by the next.
DocumentChainsHold ==
  Accepted("document") =>
    LET doc == Documents[last.index].doc
        chain == CertificatesOf(doc)
    IN  /\ doc.signature.pk = chain[1].pk
        /\ \A i \in DOMAIN chain : now \in chain[i].not_before .. chain[i].not_after
        /\ \A i \in 1 .. (Len(chain) - 1) : chain[i].signed_by = chain[i + 1].pk
        /\ \E i \in DOMAIN Documents[last.index].roots : Documents[last.index].roots[i] = {chain[Len(chain)]}

\* The chain of a granted mandate is a path from the trust anchor to its signer:
\* each link is issued by the key that the link before it delegated to.
ChainIsAPath ==
  Accepted("mandate") =>
    LET chain == Mandates[last.index].chain
    IN  \A l \in 1 .. (Len(chain) - 1) : chain[l].child_key = chain[l + 1].parent_key
=============================================================================
