--------------------------- MODULE FixtureLibrary ---------------------------
(***************************************************************************)
(* The signed anomaly library every anomaly vector is built around         *)
(* (test_fixtures.rs of ephemeral-anomaly): the fifteen patterns of the    *)
(* MINIMUM library and the fixture key that signs it.                      *)
(*                                                                         *)
(* Pattern ids are numbered in the order of their names, which is the      *)
(* order a detector walks its buckets in.                                  *)
(***************************************************************************)
EXTENDS AnomalySuites

CanaryWindow == 1
CrossTier == 2
DeleteSlowBurn == 3
DeleteStorm == 4
Fanout == 5
FanoutSlowBurn == 6
GfpSlowBurn == 7
GfpStorm == 8
IamStorm == 9
IamSlowBurn == 10
LongSilence == 11
MachinePace == 12
DelegationDepth == 13
VaultSlowBurn == 14
VaultStorm == 15
NoSuchPattern == 99      \* an id no pattern has

AnyMandate == [mandate_id |-> {}, integration_ref |-> {}]
Exactly(verb) == [kind |-> "Exact", verb |-> verb]

VerbScope(verb, resource_kind) ==
  [kind |-> "VerbResourceMandate", verb |-> verb, resource_kind |-> resource_kind,
   mandate_scope |-> AnyMandate]
FamilyScope(family) ==
  [kind |-> "IamAttachFamily", verb_family |-> family, mandate_scope |-> AnyMandate]
ProtectedScope == [kind |-> "ProtectedBranches", mandate_scope |-> AnyMandate]
FanoutScope(verb) == [kind |-> "VerbFanout", verb |-> verb, mandate_scope |-> AnyMandate]

Count(n) == [kind |-> "Count", n |-> n]

\* A storm: a first-match pattern with a cumulative companion.
Storm(id, window, threshold, scope, companion) ==
  [pattern_id |-> id, window_seconds |-> window, threshold |-> threshold, scope |-> scope,
   action |-> "AutoRevoke", severity |-> "High", firing_rule |-> "FirstMatch",
   firing_rule_companions |-> <<companion>>]

\* A slow burn: the companion of a storm.
SlowBurn(id, window, n, scope) ==
  [pattern_id |-> id, window_seconds |-> window, threshold |-> Count(n), scope |-> scope,
   action |-> "AutoRevoke", severity |-> "Medium", firing_rule |-> "CumulativeOverBaseline",
   firing_rule_companions |-> <<>>]

AnyDestructive == VerbScope([kind |-> "AnyDestructive"], {})
VaultRotation == VerbScope(Exactly("rotate"), {"vault-secret"})

delete_storm_pattern == Storm(DeleteStorm, 60, Count(5), AnyDestructive, DeleteSlowBurn)
delete_slow_burn_pattern == SlowBurn(DeleteSlowBurn, 600, 20, AnyDestructive)
vault_rotate_storm_pattern == Storm(VaultStorm, 3600, Count(3), VaultRotation, VaultSlowBurn)
vault_rotate_slow_burn_pattern == SlowBurn(VaultSlowBurn, 36000, 10, VaultRotation)
iam_attach_policy_storm_pattern ==
  Storm(IamStorm, 300, Count(5), FamilyScope("iam-attach"), IamSlowBurn)
iam_attach_slow_burn_pattern == SlowBurn(IamSlowBurn, 3000, 20, FamilyScope("iam-attach"))
git_force_push_storm_pattern == Storm(GfpStorm, 300, Count(3), ProtectedScope, GfpSlowBurn)
git_force_push_slow_burn_pattern == SlowBurn(GfpSlowBurn, 3000, 10, ProtectedScope)
fanout_distinct_resources_pattern ==
  Storm(Fanout, 60, [kind |-> "DistinctCount", n |-> 10], FanoutScope(Exactly("delete")),
        FanoutSlowBurn)
fanout_slow_burn_pattern == SlowBurn(FanoutSlowBurn, 600, 30, FanoutScope(Exactly("delete")))

cross_tier_escalation_pattern ==
  [SlowBurn(CrossTier, 1800, 1,
            [kind |-> "CrossTierSequence", mandate_scope |-> AnyMandate,
             tier_progression |-> <<0, 2, 3>>])
     EXCEPT !.threshold = [kind |-> "Sequence", n |-> 1], !.severity = "Critical",
            !.firing_rule = "SequenceMatch"]

machine_pace_pattern ==
  [SlowBurn(MachinePace, 60, 50,
            [kind |-> "MandatePace", tier_floor |-> 1, exclude_verb_category |-> {"read-only"}])
     EXCEPT !.action = "Alert", !.severity = "Low"]

long_silence_before_burst_pattern ==
  [SlowBurn(LongSilence, 604800, 1,
            [kind |-> "SilenceThenBurst", silence_seconds |-> 604800,
             burst_seconds |-> 300, burst_threshold |-> 20])
     EXCEPT !.threshold = [kind |-> "Sequence", n |-> 1], !.action = "Alert",
            !.firing_rule = "SequenceMatch"]

canary_window_second_tier3_pattern ==
  [SlowBurn(CanaryWindow, 86400, 1, [kind |-> "CanaryWindow", observation_threshold |-> 1])
     EXCEPT !.severity = "High", !.firing_rule = "FirstMatch"]

unusual_delegation_depth_pattern ==
  [SlowBurn(DelegationDepth, NoWindow, 4, [kind |-> "DelegationDepth", limit |-> 4])
     EXCEPT !.threshold = [kind |-> "ChainDepth", n |-> 4], !.action = "Alert",
            !.firing_rule = "FirstMatch"]

minimum_anomaly_library_patterns ==
  <<delete_storm_pattern, delete_slow_burn_pattern, vault_rotate_storm_pattern,
    vault_rotate_slow_burn_pattern, iam_attach_policy_storm_pattern,
    iam_attach_slow_burn_pattern, git_force_push_storm_pattern,
    git_force_push_slow_burn_pattern, cross_tier_escalation_pattern, machine_pace_pattern,
    long_silence_before_burst_pattern, canary_window_second_tier3_pattern,
    unusual_delegation_depth_pattern, fanout_distinct_resources_pattern,
    fanout_slow_burn_pattern>>

-----------------------------------------------------------------------------

ANOMALY_LIBRARY_ABI_VERSION == 1
FIXTURE_ANOMALY_KID == "K_fixture_anomaly_pk"
FIXTURE_ANOMALY_LIBRARY_ID == "fixture::minimum-v1"
FIXTURE_ANOMALY_ISSUED_AT == 1700000000
FIXTURE_ANOMALY_EXPIRES_AT == 1800000000
FixtureKey == "fixture-anomaly-key"
ANOMALY_LIBRARY_AAD == Lib(<<>>, EmptyLedger, 1)!ANOMALY_LIBRARY_AAD

\* minimum_anomaly_library_payload, whose fields the vectors override.
minimum_anomaly_library_payload ==
  [decodes |-> TRUE, abi_version |-> ANOMALY_LIBRARY_ABI_VERSION,
   signer_kid |-> FIXTURE_ANOMALY_KID, signer_kid_len |-> 20,
   library_id |-> FIXTURE_ANOMALY_LIBRARY_ID, library_id_len |-> 19,
   library_version |-> 1, issued_at |-> FIXTURE_ANOMALY_ISSUED_AT,
   expires_at |-> FIXTURE_ANOMALY_EXPIRES_AT, patterns |-> minimum_anomaly_library_patterns]

\* A COSE_Sign1 under the fixture key.  Sizes and depths are far below the caps.
sign_anomaly_library_envelope_raw(payload, outer_kid, aad) ==
  [is_hex |-> TRUE,
   envelope |->
     [size |-> 4096, is_cbor |-> TRUE, depth |-> 2, is_sign1 |-> TRUE,
      alg |-> COSE_ALG_EDDSA, kid |-> outer_kid, payload |-> {payload},
      signature |-> [pk  |-> FixtureKey,
                     tbs |-> ToBeSigned(COSE_ALG_EDDSA, outer_kid, aad, payload)]]]

sign_anomaly_library_envelope(payload) ==
  sign_anomaly_library_envelope_raw(payload, FIXTURE_ANOMALY_KID, ANOMALY_LIBRARY_AAD)

sign_minimum_library_with_version(version) ==
  sign_anomaly_library_envelope(
    [minimum_anomaly_library_payload EXCEPT !.library_version = version])

\* The anchor of the fixture key, under a kid and the suite's default role.
anchor_def(kid) ==
  <<[kid |-> kid, is_ed25519 |-> TRUE, role |-> {}, fault |-> "Ok", pk |-> FixtureKey]>>

CURRENT_TIME == 1777593600   \* 2026-05-01T00:00:00Z

\* The input fields every anomaly vector has.
AnomalyInput(blob) ==
  [decodes |-> TRUE, blob |-> blob, anchors |-> anchor_def(FIXTURE_ANOMALY_KID),
   abi |-> ANOMALY_LIBRARY_ABI_VERSION, pre_ledger |-> EmptyLedger,
   current_time |-> {CURRENT_TIME}]

Accept == [outcome |-> "accept", reject_code |-> {}, fires |-> <<>>]
Reject(code) == [outcome |-> "reject", reject_code |-> {code}, fires |-> <<>>]
=============================================================================
