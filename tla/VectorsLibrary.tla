--------------------------- MODULE VectorsLibrary ---------------------------
(***************************************************************************)
(* The signed vectors of the anomaly-library-reject suite, as the vector   *)
(* signer builds them (phase_c4_library.rs): one defect per vector, and    *)
(* two sound libraries.                                                    *)
(***************************************************************************)
EXTENDS FixtureLibrary

FUTURE_ISSUED_AT == 1900000000
FUTURE_EXPIRES_AT == 2000000000
PAST_ISSUED_AT == 1500000000
PAST_EXPIRES_AT == 1600000000
IMPOSTOR_OUTER_KID == "K_impostor_anomaly_pk"

LibraryVector(id, input, expected) ==
  [id |-> id, suite |-> "anomaly-library-reject", input |-> input, expected |-> expected]

build_custom_payload(patterns) ==
  [minimum_anomaly_library_payload EXCEPT !.patterns = patterns]

\* A signed payload that must be refused with the code.
RejectedPayload(id, payload, code) ==
  LibraryVector(id, AnomalyInput(sign_anomaly_library_envelope(payload)), Reject(code))

SeededLedger(version) == FIXTURE_ANOMALY_LIBRARY_ID :> version

\* tamper_payload_byte: the payload is not the one that was signed any more.
tamper_payload_byte(blob) ==
  [blob EXCEPT !.envelope.payload = {[minimum_anomaly_library_payload EXCEPT !.decodes = FALSE]}]

build_alrej_100 ==
  LibraryVector("alrej-100",
    AnomalyInput(tamper_payload_byte(sign_minimum_library_with_version(1))),
    Reject("anomaly-library-signature-invalid"))

build_alrej_101 ==
  RejectedPayload("alrej-101", [minimum_anomaly_library_payload EXCEPT !.decodes = FALSE],
                  "anomaly-library-signature-payload-malformed")

build_alrej_102 ==
  RejectedPayload("alrej-102", [minimum_anomaly_library_payload EXCEPT !.abi_version = 2],
                  "anomaly-library-abi-version-mismatch")

\* The anchor answers to the impostor's kid, the payload names the fixture's.
build_alrej_103 ==
  LibraryVector("alrej-103",
    [AnomalyInput(sign_anomaly_library_envelope_raw(minimum_anomaly_library_payload,
                                                    IMPOSTOR_OUTER_KID, ANOMALY_LIBRARY_AAD))
       EXCEPT !.anchors = anchor_def(IMPOSTOR_OUTER_KID)],
    Reject("anomaly-library-signer-kid-mismatch"))

build_alrej_104 ==
  RejectedPayload("alrej-104",
    [minimum_anomaly_library_payload EXCEPT !.issued_at = FUTURE_ISSUED_AT,
                                            !.expires_at = FUTURE_EXPIRES_AT],
    "anomaly-library-not-yet-valid")

build_alrej_105 ==
  RejectedPayload("alrej-105",
    [minimum_anomaly_library_payload EXCEPT !.issued_at = PAST_ISSUED_AT,
                                            !.expires_at = PAST_EXPIRES_AT],
    "anomaly-library-expired")

build_alrej_106 ==
  RejectedPayload("alrej-106",
    build_custom_payload(Append(minimum_anomaly_library_patterns, delete_storm_pattern)),
    "anomaly-library-pattern-id-duplicate")

build_alrej_107 ==
  RejectedPayload("alrej-107",
    build_custom_payload(<<[machine_pace_pattern EXCEPT !.severity = "Critical"]>>),
    "anomaly-library-severity-action-inconsistent")

build_alrej_108 ==
  RejectedPayload("alrej-108",
    build_custom_payload(<<[iam_attach_policy_storm_pattern EXCEPT
                              !.scope = FamilyScope("not-a-real-family"),
                              !.firing_rule_companions = <<>>]>>),
    "anomaly-library-unknown-verb-family")

build_alrej_109 ==
  RejectedPayload("alrej-109",
    build_custom_payload(<<[delete_storm_pattern EXCEPT !.firing_rule_companions = <<>>]>>),
    "anomaly-library-firing-rule-companion-missing")

build_alrej_110 ==
  RejectedPayload("alrej-110",
    build_custom_payload(<<[delete_storm_pattern EXCEPT
                              !.firing_rule_companions = <<NoSuchPattern>>]>>),
    "anomaly-library-firing-rule-companion-missing")

build_alrej_111 ==
  RejectedPayload("alrej-111",
    build_custom_payload(<<delete_storm_pattern,
                           [delete_slow_burn_pattern EXCEPT !.firing_rule = "FirstMatch",
                                                            !.window_seconds = 4000]>>),
    "anomaly-library-firing-rule-companion-missing")

build_alrej_112 ==
  RejectedPayload("alrej-112",
    build_custom_payload(<<delete_storm_pattern,
                           [delete_slow_burn_pattern EXCEPT !.window_seconds = 500]>>),
    "anomaly-library-firing-rule-companion-missing")

\* The version on record is 5.
VersionVector(id, version, expected) ==
  LibraryVector(id, [AnomalyInput(sign_minimum_library_with_version(version)) EXCEPT
                       !.pre_ledger = SeededLedger(5)], expected)

build_alrej_113 == VersionVector("alrej-113", 5, Reject("pattern-library-version-too-old"))
build_alrej_114 == VersionVector("alrej-114", 3, Reject("pattern-library-version-too-old"))

build_alrej_115 ==
  LibraryVector("alrej-115", AnomalyInput(sign_minimum_library_with_version(1)), Accept)

build_alrej_116 == VersionVector("alrej-116", 7, Accept)

LibraryVectors ==
  <<build_alrej_100, build_alrej_101, build_alrej_102, build_alrej_103, build_alrej_104,
    build_alrej_105, build_alrej_106, build_alrej_107, build_alrej_108, build_alrej_109,
    build_alrej_110, build_alrej_111, build_alrej_112, build_alrej_113, build_alrej_114,
    build_alrej_115, build_alrej_116>>
=============================================================================
