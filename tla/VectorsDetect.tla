---------------------------- MODULE VectorsDetect ----------------------------
(***************************************************************************)
(* The signed vectors of the anomaly-detect suite, as the vector signer    *)
(* builds them (phase_c4_detect.rs): audit streams against the MINIMUM     *)
(* library and the fires they must produce, no more and no fewer.          *)
(***************************************************************************)
EXTENDS FixtureLibrary

DETECT_INITIAL_TIME == 1777636800   \* 2026-05-01T12:00:00Z

canonical_event_named(mandate, offset, tier, integration, verb, kind, ref) ==
  [timestamp |-> DETECT_INITIAL_TIME + offset, mandate_id |-> mandate, tier |-> tier,
   integration |-> integration, verb |-> verb, resource_kind |-> kind, resource_ref |-> ref]

canonical_delete_event(mandate, offset, tier, ref) ==
  canonical_event_named(mandate, offset, tier, "k8s", "delete", "pod", ref)

literal_stream(events) == [kind |-> "literal", events |-> events]

template_event(mandate) ==
  [mandate_id |-> mandate, tier |-> 2, integration |-> "k8s", verb |-> "delete",
   resource_kind |-> "pod"]

pattern_description(start, count, interval, mandate) ==
  [kind |-> "pattern_description",
   description |-> [start_time |-> start, count |-> count, interval_seconds |-> interval,
                    template |-> template_event(mandate), resource_ref_pattern |-> "pod/n-",
                    indexed |-> TRUE]]

\* Five deletes on one pod, a second apart.
FiveDeletes(mandate) ==
  [i \in 1..5 |-> canonical_delete_event(mandate, i - 1, 2, <<"pod/foo", 0>>)]

match_scope_mandate(mandate) == [Nothing EXCEPT !.mandate_id = {mandate}]

expected_fire(pattern_id, severity, rule, scope) ==
  [tenant_id |-> "", pattern_id |-> pattern_id, library_version |-> 1, severity |-> severity,
   firing_rule |-> rule, match_scope |-> scope]

\* The two kinds of fire most vectors expect, for a mandate.
StormFire(id, mandate) == expected_fire(id, "High", "FirstMatch", match_scope_mandate(mandate))
BurnFire(id, mandate) ==
  expected_fire(id, "Medium", "CumulativeOverBaseline", match_scope_mandate(mandate))

DetectVector(id, streams, expected) ==
  [id |-> id, suite |-> "anomaly-detect",
   input |-> AnomalyInput(sign_minimum_library_with_version(1))
               @@ [initial_time |-> {DETECT_INITIAL_TIME}, streams |-> streams],
   expected |-> expected]

\* build_vector, build_accept_vector and build_reject_stream_vector.
build_detect_vector(id, streams, fires) ==
  DetectVector(id, streams, [outcome |-> "reject", reject_code |-> {"anomaly-detected"},
                             fires |-> fires])
build_accept_vector(id, streams) == DetectVector(id, streams, Accept)
build_reject_stream_vector(id, streams, code) ==
  DetectVector(id, streams, Reject(<<"anomaly-detect-stream", code>>))

-----------------------------------------------------------------------------

build_adet_100 ==
  build_detect_vector("adet-100", <<literal_stream(FiveDeletes(100))>>,
                      <<StormFire(DeleteStorm, 100), StormFire(GfpStorm, 100)>>)

build_adet_101 ==
  build_detect_vector("adet-101",
    <<literal_stream([i \in 1..5 |->
        canonical_event_named(101, i - 1, 2, "aws-iam", "attachrolepolicy", "role",
                              <<"role/admin", 0>>)])>>,
    <<StormFire(IamStorm, 101), StormFire(GfpStorm, 101)>>)

build_adet_102 ==
  build_detect_vector("adet-102",
    <<literal_stream([i \in 1..3 |->
        canonical_event_named(102, i - 1, 2, "vault", "rotate", "vault-secret",
                              <<"secret/prod/db-key", 0>>)])>>,
    <<expected_fire(VaultStorm, "High", "FirstMatch",
                    [match_scope_mandate(102) EXCEPT !.verb = {"rotate"},
                                                     !.resource_kind = {"vault-secret"}]),
      StormFire(GfpStorm, 102)>>)

build_adet_103 ==
  build_detect_vector("adet-103",
    <<literal_stream([i \in 1..3 |->
        canonical_event_named(103, i - 1, 0, "github", "get", "repo", <<"org/app", 0>>)])>>,
    <<StormFire(GfpStorm, 103)>>)

\* Ten distinct pods at tier 0, below machine-pace's floor.
build_adet_104 ==
  build_detect_vector("adet-104",
    <<literal_stream([i \in 1..10 |->
        canonical_delete_event(104, i - 1, 0, <<"pod/n-", i - 1>>)])>>,
    <<StormFire(DeleteStorm, 104), StormFire(GfpStorm, 104), BurnFire(GfpSlowBurn, 104),
      expected_fire(Fanout, "High", "FirstMatch",
                    [match_scope_mandate(104) EXCEPT !.verb = {"delete"}])>>)

build_adet_105 ==
  build_detect_vector("adet-105",
    <<literal_stream([i \in 1..3 |->
        canonical_event_named(105, i - 1, <<0, 2, 3>>[i], "config", "get", "config",
                              <<"cfg/", i>>)])>>,
    <<expected_fire(CrossTier, "Critical", "SequenceMatch", match_scope_mandate(105)),
      StormFire(GfpStorm, 105)>>)

\* Below the storm's pace: the cumulative companion catches it.
build_adet_106 ==
  build_detect_vector("adet-106",
    <<literal_stream([i \in 1..20 |->
        canonical_delete_event(106, (i - 1) * 30, 0, <<"pod/n-", 0>>)])>>,
    <<BurnFire(DeleteSlowBurn, 106), StormFire(GfpStorm, 106), BurnFire(GfpSlowBurn, 106)>>)

build_adet_107 ==
  build_detect_vector("adet-107",
    <<literal_stream([i \in 1..20 |->
        canonical_event_named(107, (i - 1) * 150, 0, "aws-iam", "attachrolepolicy", "role",
                              <<"role/admin", 0>>)])>>,
    <<BurnFire(IamSlowBurn, 107), StormFire(GfpStorm, 107), BurnFire(GfpSlowBurn, 107)>>)

\* The second stream crosses again inside the dedup window: no second fire.
build_adet_108 ==
  build_detect_vector("adet-108",
    <<literal_stream(FiveDeletes(108)),
      literal_stream([i \in 1..3 |->
        canonical_delete_event(108, 4 + i, 2, <<"pod/foo", 0>>)])>>,
    <<StormFire(DeleteStorm, 108), StormFire(GfpStorm, 108)>>)

build_adet_109 == build_accept_vector("adet-109", <<literal_stream(<<>>)>>)

build_adet_110 ==
  build_accept_vector("adet-110",
    <<literal_stream([i \in 1..2 |->
        canonical_event_named(110, i - 1, 0, "github", "get", "repo", <<"org/x", 0>>)])>>)

build_adet_111 ==
  build_detect_vector("adet-111",
    <<literal_stream([i \in 1..50 |->
        canonical_event_named(111, i - 1, 1, "k8s", "patch", "configmap", <<"cm/foo", 0>>)])>>,
    <<StormFire(GfpStorm, 111), BurnFire(GfpSlowBurn, 111),
      expected_fire(MachinePace, "Low", "CumulativeOverBaseline",
                    [match_scope_mandate(111) EXCEPT !.tier = {1}]),
      expected_fire(LongSilence, "Medium", "SequenceMatch", match_scope_mandate(111))>>)

build_adet_112 ==
  build_reject_stream_vector("adet-112",
    <<literal_stream(<<canonical_delete_event(112, 100, 2, <<"pod/foo", 0>>),
                       canonical_delete_event(112, 50, 2, <<"pod/foo", 0>>)>>)>>,
    "clock-regression")

build_adet_113 ==
  build_reject_stream_vector("adet-113",
    <<pattern_description({DETECT_INITIAL_TIME}, 0, 0, 113)>>, "pattern-description-count-zero")

build_adet_114 ==
  build_reject_stream_vector("adet-114", <<pattern_description({}, 3, 1, 114)>>,
                             "timestamp-parse-failed")

DetectVectors ==
  <<build_adet_100, build_adet_101, build_adet_102, build_adet_103, build_adet_104,
    build_adet_105, build_adet_106, build_adet_107, build_adet_108, build_adet_109,
    build_adet_110, build_adet_111, build_adet_112, build_adet_113, build_adet_114>>
=============================================================================
