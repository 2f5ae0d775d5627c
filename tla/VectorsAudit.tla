---------------------------- MODULE VectorsAudit ----------------------------
(***************************************************************************)
(* The signed vectors of the audit-replay suite, as the vector signer      *)
(* builds them (phase_c4_audit/): tenant streams through one orchestrator, *)
(* some with a library rotation, and the records they must produce.        *)
(***************************************************************************)
EXTENDS FixtureLibrary

AUDIT_INITIAL_TIME == 1777636800                   \* 2026-05-01T12:00:00Z
ROTATE_INITIAL_TIME == AUDIT_INITIAL_TIME + 3600

canonical_event_at(start, mandate, offset, tier, integration, verb, kind, ref) ==
  [timestamp |-> start + offset, mandate_id |-> mandate, tier |-> tier,
   integration |-> integration, verb |-> verb, resource_kind |-> kind, resource_ref |-> ref]

canonical_event_named(mandate, offset, tier, integration, verb, kind, ref) ==
  canonical_event_at(AUDIT_INITIAL_TIME, mandate, offset, tier, integration, verb, kind, ref)

canonical_delete_event(mandate, offset, tier, ref) ==
  canonical_event_named(mandate, offset, tier, "k8s", "delete", "pod", ref)

canonical_event_post_rotation(mandate, offset, ref) ==
  canonical_event_at(ROTATE_INITIAL_TIME, mandate, offset, 2, "k8s", "delete", "pod", ref)

literal_stream(events) == [kind |-> "literal", events |-> events]

template_event(mandate) ==
  [mandate_id |-> mandate, tier |-> 2, integration |-> "k8s", verb |-> "delete",
   resource_kind |-> "pod"]

pattern_description(start, count, interval, mandate) ==
  [kind |-> "pattern_description",
   description |-> [start_time |-> start, count |-> count, interval_seconds |-> interval,
                    template |-> template_event(mandate), resource_ref_pattern |-> "pod/n-",
                    indexed |-> TRUE]]

tenant_stream(tenant_id, stream) == [tenant_id |-> tenant_id, stream |-> stream]

\* A tenant's stream of five deletes (two gets, five attachments), a second apart.
FiveDeletes(tenant, mandate, pod) ==
  tenant_stream(tenant, literal_stream(
    [i \in 1..5 |-> canonical_delete_event(mandate, i - 1, 2, <<pod, 0>>)]))
FiveDeletesAfter(tenant, mandate, pod) ==
  tenant_stream(tenant, literal_stream(
    [i \in 1..5 |-> canonical_event_post_rotation(mandate, i - 1, <<pod, 0>>)]))
TwoGets(tenant, mandate) ==
  tenant_stream(tenant, literal_stream(
    [i \in 1..2 |-> canonical_event_named(mandate, i - 1, 0, "k8s", "get", "pod",
                                          <<"pod/z", 0>>)]))
FiveAttachments(tenant, mandate) ==
  tenant_stream(tenant, literal_stream(
    [i \in 1..5 |-> canonical_event_named(mandate, i - 1, 2, "aws", "attachrolepolicy",
                                          "iam-role", <<"role/r0", 0>>)]))

scope_mandate(mandate) == [Nothing EXCEPT !.mandate_id = {mandate}]
scope_mandate_verb(mandate, verb) == [scope_mandate(mandate) EXCEPT !.verb = {verb}]
scope_mandate_tier(mandate, tier) == [scope_mandate(mandate) EXCEPT !.tier = {tier}]
scope_mandate_verb_kind(mandate, verb, kind) ==
  [scope_mandate_verb(mandate, verb) EXCEPT !.resource_kind = {kind}]

expected_record_v(tenant, pattern_id, version, severity, rule, scope) ==
  [tenant_id |-> tenant, pattern_id |-> pattern_id, library_version |-> version,
   severity |-> severity, firing_rule |-> rule, match_scope |-> scope]

expected_record(tenant, pattern_id, severity, rule, scope) ==
  expected_record_v(tenant, pattern_id, 1, severity, rule, scope)

StormRecord(tenant, id, mandate) ==
  expected_record(tenant, id, "High", "FirstMatch", scope_mandate(mandate))
BurnRecord(tenant, id, mandate) ==
  expected_record(tenant, id, "Medium", "CumulativeOverBaseline", scope_mandate(mandate))

\* What five deletes raise under a library version.
DeleteRecords(tenant, mandate, version) ==
  <<expected_record_v(tenant, DeleteStorm, version, "High", "FirstMatch", scope_mandate(mandate)),
    expected_record_v(tenant, GfpStorm, version, "High", "FirstMatch", scope_mandate(mandate))>>

AuditVector(id, tenant_streams, expected) ==
  [id |-> id, suite |-> "audit-replay",
   input |-> AnomalyInput(sign_minimum_library_with_version(1))
               @@ [initial_time |-> {AUDIT_INITIAL_TIME}, tenant_streams |-> tenant_streams,
                   rotation |-> {}],
   expected |-> expected]

build_fire_vector(id, tenant_streams, records) ==
  AuditVector(id, tenant_streams,
              [outcome |-> "reject", reject_code |-> {"aggregation-pattern-detected"},
               fires |-> records])
build_accept_vector(id, tenant_streams) == AuditVector(id, tenant_streams, Accept)
build_reject_stream_vector(id, tenant_streams, code) ==
  AuditVector(id, tenant_streams, Reject(<<"audit-replay-stream", code>>))

\* A second version of the library, in force an hour after the first.
attach_rotation(vector, after_stream_idx) ==
  [vector EXCEPT !.input.rotation =
     {[after |-> after_stream_idx, blob |-> sign_minimum_library_with_version(2),
       new_initial_time |-> {ROTATE_INITIAL_TIME}, abi |-> ANOMALY_LIBRARY_ABI_VERSION]}]

-----------------------------------------------------------------------------
(* One tenant, or two that share nothing but the orchestrator.             *)

build_arep_100 ==
  build_fire_vector("arep-100", <<FiveDeletes("t-a", 100, "pod/foo")>>,
                    DeleteRecords("t-a", 100, 1))

build_arep_101 ==
  build_fire_vector("arep-101", <<FiveDeletes("t-a", 101, "pod/x"), TwoGets("t-b", 201)>>,
                    DeleteRecords("t-a", 101, 1))

build_arep_102 ==
  build_fire_vector("arep-102",
    <<FiveDeletes("t-a", 102, "pod/x"), FiveDeletes("t-b", 202, "pod/y")>>,
    DeleteRecords("t-a", 102, 1) \o DeleteRecords("t-b", 202, 1))

\* The same mandate id under both tenants.
build_arep_103 ==
  build_fire_vector("arep-103",
    <<FiveDeletes("t-a", 0, "pod/x"), FiveDeletes("t-b", 0, "pod/y")>>,
    DeleteRecords("t-a", 0, 1) \o DeleteRecords("t-b", 0, 1))

-----------------------------------------------------------------------------
(* Tenants with different patterns each.                                   *)

build_arep_104 ==
  build_fire_vector("arep-104",
    <<FiveDeletes("t-a", 104, "pod/x"), FiveAttachments("t-b", 204),
      tenant_stream("t-c", literal_stream(
        [i \in 1..3 |-> canonical_event_named(304, i - 1, 2, "vault", "rotate", "vault-secret",
                                              <<"secret/s0", 0>>)]))>>,
    DeleteRecords("t-a", 104, 1)
      \o <<StormRecord("t-b", IamStorm, 204), StormRecord("t-b", GfpStorm, 204),
           expected_record("t-c", VaultStorm, "High", "FirstMatch",
                           scope_mandate_verb_kind(304, "rotate", "vault-secret")),
           StormRecord("t-c", GfpStorm, 304)>>)

build_arep_105 ==
  build_fire_vector("arep-105",
    <<FiveAttachments("t-a", 105),
      tenant_stream("t-b", literal_stream(
        [i \in 1..3 |-> canonical_event_named(205, i - 1, <<0, 2, 3>>[i], "k8s", "get",
                                              "configmap", <<"cm/c0", 0>>)]))>>,
    <<StormRecord("t-a", IamStorm, 105), StormRecord("t-a", GfpStorm, 105),
      expected_record("t-b", CrossTier, "Critical", "SequenceMatch", scope_mandate(205)),
      StormRecord("t-b", GfpStorm, 205)>>)

build_arep_106 ==
  build_fire_vector("arep-106",
    <<tenant_stream("t-a", literal_stream(
        [i \in 1..10 |-> canonical_delete_event(106, i - 1, 0, <<"pod/n-", i - 1>>)])),
      tenant_stream("t-b", literal_stream(
        [i \in 1..50 |-> canonical_event_named(206, i - 1, 1, "k8s", "patch", "deployment",
                                               <<"dep/d-", i - 1>>)]))>>,
    <<expected_record("t-a", Fanout, "High", "FirstMatch", scope_mandate_verb(106, "delete")),
      StormRecord("t-a", DeleteStorm, 106), StormRecord("t-a", GfpStorm, 106),
      BurnRecord("t-a", GfpSlowBurn, 106),
      expected_record("t-b", MachinePace, "Low", "CumulativeOverBaseline",
                      scope_mandate_tier(206, 1)),
      expected_record("t-b", LongSilence, "Medium", "SequenceMatch", scope_mandate(206)),
      StormRecord("t-b", GfpStorm, 206), BurnRecord("t-b", GfpSlowBurn, 206)>>)

\* Ten minutes of deletes: the force-push storm fires twice, its window apart.
build_arep_107 ==
  build_fire_vector("arep-107",
    <<tenant_stream("t-a", literal_stream(
        [i \in 1..20 |-> canonical_delete_event(107, (i - 1) * 30, 0, <<"pod/x", 0>>)])),
      TwoGets("t-b", 207)>>,
    <<BurnRecord("t-a", DeleteSlowBurn, 107), BurnRecord("t-a", GfpSlowBurn, 107),
      StormRecord("t-a", GfpStorm, 107), StormRecord("t-a", GfpStorm, 107)>>)

-----------------------------------------------------------------------------
(* Rotations, refused streams, silence.                                    *)

build_arep_108 ==
  attach_rotation(
    build_fire_vector("arep-108",
      <<FiveDeletes("t-a", 108, "pod/x"), FiveDeletesAfter("t-a", 108, "pod/x")>>,
      DeleteRecords("t-a", 108, 1) \o DeleteRecords("t-a", 108, 2)), 0)

build_arep_109 ==
  attach_rotation(
    build_fire_vector("arep-109", <<FiveDeletes("t-a", 109, "pod/x")>>,
                      DeleteRecords("t-a", 109, 1)), 0)

build_arep_110 ==
  attach_rotation(
    build_fire_vector("arep-110",
      <<FiveDeletes("t-a", 110, "pod/x"), FiveDeletesAfter("t-b", 210, "pod/y")>>,
      DeleteRecords("t-a", 110, 1) \o DeleteRecords("t-b", 210, 2)), 0)

build_arep_111 ==
  build_reject_stream_vector("arep-111",
    <<tenant_stream("t-a", literal_stream(
        <<canonical_delete_event(111, 100, 2, <<"pod/x", 0>>),
          canonical_delete_event(111, 10, 2, <<"pod/x", 0>>)>>))>>, "clock-regression")

build_arep_112 ==
  build_reject_stream_vector("arep-112",
    <<tenant_stream("t-a", pattern_description({AUDIT_INITIAL_TIME}, 0, 0, 112))>>,
    "pattern-description-count-zero")

build_arep_113 ==
  build_reject_stream_vector("arep-113",
    <<tenant_stream("t-a", pattern_description({}, 3, 1, 113))>>, "timestamp-parse-failed")

build_arep_114 ==
  build_accept_vector("arep-114",
    <<tenant_stream("t-a", literal_stream(<<>>)), tenant_stream("t-b", literal_stream(<<>>))>>)

build_arep_115 == build_accept_vector("arep-115", <<TwoGets("t-a", 115), TwoGets("t-b", 215)>>)

build_arep_116 == build_accept_vector("arep-116", <<tenant_stream("t-a", literal_stream(<<>>))>>)

AuditVectors ==
  <<build_arep_100, build_arep_101, build_arep_102, build_arep_103, build_arep_104,
    build_arep_105, build_arep_106, build_arep_107, build_arep_108, build_arep_109,
    build_arep_110, build_arep_111, build_arep_112, build_arep_113, build_arep_114,
    build_arep_115, build_arep_116>>
=============================================================================
