----------------------------- MODULE Delegation -----------------------------
(***************************************************************************)
(* The delegation-scope verifier: suites/delegation.rs of ephemeral-core.  *)
(* It decides whether a chain of delegation links, rooted at the pinned    *)
(* trust anchor, lets the key at its end sign a mandate.                   *)
(*                                                                         *)
(* An input is a chain (a sequence of links), a mandate, optional anchor   *)
(* definitions and a context [time, tariff_version, revoked, narrowness].  *)
(* The six fields of a link's scope are options; "*" is the wildcard.      *)
(***************************************************************************)
EXTENDS CryptoSupport

TRUST_ANCHOR == "root"
MAX_CHAIN_LINKS == 3
DEFAULT_NARROWNESS_THRESHOLD == 20

\* Role::is_terminal: every role but Ops ends a chain.
is_terminal(role) == role # "ops"

\* DelegationScope::from_raw succeeds: none of the six fields is missing.
ScopeFields == {"integrations", "max_tier_signable", "max_budget",
                "max_exp_seconds", "allowed_verbs", "allowed_resource_kinds"}
ScopeIsComplete(raw) == \A f \in ScopeFields : raw[f] # {}

\* DelegationScope::from_raw.
from_raw(raw) == [f \in ScopeFields |-> CHOOSE v \in raw[f] : TRUE]

\* check_link_signature and check_mandate_signature differ in the AAD only.  The
\* verified payload is dropped: what was signed is not compared with the fields.
SignatureIsValid(signed, anchor_defs, aad) ==
  LET live == LiveSignature(signed.cose_sign1_bytes, anchor_defs, aad, "DelegationSigner")
  IN  live = "Ok" \/ (live = "Mock" /\ signed.signature_valid)
check_link_signature(link, anchor_defs) == SignatureIsValid(link, anchor_defs, "delegation-link")
check_mandate_signature(mandate, anchor_defs) == SignatureIsValid(mandate, anchor_defs, "mandate")

SignaturesAreValid(input) ==
  /\ \A i \in DOMAIN input.chain : check_link_signature(input.chain[i], input.anchor_defs)
  /\ check_mandate_signature(input.mandate, input.anchor_defs)

\* Mutant: nobody asks where the chain starts.
structural_chain_check_AnyRoot(input) ==
  LET chain == input.chain
  IN  /\ chain # <<>>
      /\ \A i \in DOMAIN chain : chain[i].signed_by = {chain[i].parent_key}
      /\ input.mandate.signer_key_hint \subseteq {chain[Len(chain)].child_key}
      /\ \A i \in DOMAIN chain : ScopeIsComplete(chain[i].scope)

\* Each link is looked at on its own, and the two ends of the chain; a signer
\* hint may be absent.  Consecutive links are not compared.
structural_chain_check(input) ==
  LET chain == input.chain
  IN  /\ chain # <<>>
      /\ chain[1].parent_key = TRUST_ANCHOR
      /\ \A i \in DOMAIN chain : chain[i].signed_by = {chain[i].parent_key}
      /\ input.mandate.signer_key_hint \subseteq {chain[Len(chain)].child_key}
      /\ \A i, j \in DOMAIN chain :
           i < j => \/ chain[i].parent_key # chain[j].parent_key
                    \/ chain[i].child_key # chain[j].child_key
                    \/ chain[i].child_role # chain[j].child_role
      /\ \A i \in DOMAIN chain : ScopeIsComplete(chain[i].scope)

\* A chain of one link may end in Ops; a longer one ends in a terminal role.
role_hierarchy_check(chain) ==
  /\ chain[1].child_role = "ops"
  /\ Len(chain) > 1 => is_terminal(chain[Len(chain)].child_role)
  /\ \A i \in 1 .. (Len(chain) - 1) : chain[i].child_role = "ops"

\* [from, until) holds now; both sides are reported as "expired".
InWindow(from, until, now) == from <= now /\ now < until

\* The keys and the mandate a revocation can name.
RevocableIn(input) ==
  {input.mandate.mandate_id} \cup
  UNION {{input.chain[i].child_key, input.chain[i].parent_key} : i \in DOMAIN input.chain}

\* Mutant: only the keys that were delegated to can be revoked.
revocation_check_NoParents(input) ==
  \A i \in DOMAIN input.context.revoked :
    input.context.revoked[i] \notin
      {input.mandate.mandate_id} \cup {input.chain[j].child_key : j \in DOMAIN input.chain}

\* Mutant: only the newest entry of the list is compared.
revocation_check_Newest(input) ==
  LET rl == input.context.revoked
  IN  rl # <<>> => rl[Len(rl)] \notin RevocableIn(input)

\* No entry of the list names the mandate or a key of the chain.
revocation_check(input) ==
  \A i \in DOMAIN input.context.revoked : input.context.revoked[i] \notin RevocableIn(input)

\* The verdict on an allowlist: a wildcard in the scope allows everything, a
\* wildcard in the mandate needs one.
Allows(allowed, wanted) == "*" \in allowed \/ (wanted # "*" /\ wanted \in allowed)

\* The seven rows of the scope-match table, for one link.  saturating_sub keeps
\* an expiry in front of the issue time at lifetime zero.
scope_match(mandate, scope) ==
  LET lifetime == IF mandate.exp < mandate.issued_at THEN 0 ELSE mandate.exp - mandate.issued_at
  IN  IF mandate.integration_ref \notin scope.integrations THEN "scope-integration-mismatch"
      ELSE IF \E c \in mandate.cap : c.tier > scope.max_tier_signable THEN "scope-tier-exceeded"
      ELSE IF \E c \in mandate.cap : ~Allows(scope.allowed_verbs, c.verb) THEN "scope-verb-forbidden"
      ELSE IF \E c \in mandate.cap : ~Allows(scope.allowed_resource_kinds, c.resource_kind)
        THEN "scope-resource-kind-forbidden"
      ELSE IF \/ ~(mandate.budget.actions \in 0 .. scope.max_budget.actions)
              \/ ~(mandate.budget.tokens \in 0 .. scope.max_budget.tokens) THEN "scope-budget-exceeded"
      ELSE IF lifetime > scope.max_exp_seconds THEN "scope-expiry-too-long"
      ELSE "ok"

\* Mutant: only the link next to the mandate is matched.
ScopeMatchVerdict_LastLink(input) ==
  scope_match(input.mandate, from_raw(input.chain[Len(input.chain)].scope))

\* The link nearest the root that fails names the verdict.
ScopeMatchVerdict(input) ==
  LET verdict(i) == scope_match(input.mandate, from_raw(input.chain[i].scope))
      failing == {i \in DOMAIN input.chain : verdict(i) # "ok"}
  IN  IF failing = {} THEN "ok" ELSE verdict(Min(failing))

mandate_has_wildcard_cap(mandate) ==
  \E c \in mandate.cap : c.verb = "*" \/ c.resource_kind = "*" \/ c.ref_has_star

\* verify: "ok" or the code of the first check that fails.
verify(input) ==
  LET chain == input.chain
      mandate == input.mandate
      now == input.context.time
  IN  IF ~SignaturesAreValid(input) THEN "signature-invalid"
      ELSE IF ~structural_chain_check(input) THEN "signature-chain-broken"
      ELSE IF Len(chain) > MAX_CHAIN_LINKS THEN "chain-depth-exceeded"
      ELSE IF ~role_hierarchy_check(chain) THEN "role-hierarchy-violation"
      ELSE IF \E i \in DOMAIN chain : ~InWindow(chain[i].valid_from, chain[i].valid_until, now)
        THEN "expired"
      ELSE IF ~revocation_check(input) THEN "revoked"
      ELSE IF mandate.cap = {} THEN "mandate-empty-cap"
      ELSE IF ~InWindow(mandate.issued_at, mandate.exp, now) THEN "expired"
      ELSE IF mandate.min_tariff_version > input.context.tariff_version THEN "version-skew"
      ELSE IF \E i \in DOMAIN chain : "*" \in from_raw(chain[i].scope).integrations
        THEN "scope-integrations-wildcard-forbidden"
      ELSE IF ScopeMatchVerdict(input) # "ok" THEN ScopeMatchVerdict(input)
      ELSE IF mandate_has_wildcard_cap(mandate) /\ mandate.budget.actions > input.context.narrowness
        THEN "narrowness-rule-violation"
      ELSE "ok"

\* What the suite makes of a vector [input, expected].
execute(vector) ==
  LET produced == verify(vector.input)
      expected == vector.expected
  IN  IF \/ expected.outcome = "accept" /\ produced = "ok"
         \/ /\ expected.outcome = "reject" /\ produced # "ok"
            /\ expected.reject_code = {produced}
        THEN "Pass" ELSE "Fail"
=============================================================================
