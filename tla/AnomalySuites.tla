---------------------------- MODULE AnomalySuites ----------------------------
(***************************************************************************)
(* The three conformance executors over the anomaly crate, in the suites   *)
(* of ephemeral-core: anomaly_library.rs (load one envelope),              *)
(* anomaly_detect.rs (one detector over several streams) and audit.rs (the *)
(* orchestrator over several tenants, with an optional rotation).          *)
(*                                                                         *)
(* An executor maps a vector [input, expected] to "Pass" or "Fail".  A     *)
(* JSON option is a set with at most one element; text that should denote  *)
(* an instant is the set of the instants it denotes.                       *)
(***************************************************************************)
EXTENDS Detector, CryptoSupport, AuditStream, SequencesExt

\* The verifier of one call: its anchors, its ledger, the ABI asked for.
Lib(anchors, ledger, expected_abi_version) ==
  INSTANCE LibraryVerifier WITH
    loads <- <<>>, verdict <- "none", Envelopes <- {}, AnchorCandidates <- {},
    Clocks <- {}, sanitize_log_string <- [id \in {} |-> ""]

Only(option) == CHOOSE v \in option : TRUE

\* What the three executors refuse before they verify anything: input that does
\* not deserialize, bad anchors, a blob that is not hex, a clock that is no date.
SetUpFails(input) ==
  \/ ~input.decodes
  \/ AnchorSetError(input.anchors) # "Ok"
  \/ ~input.blob.is_hex
  \/ input.current_time = {}

\* verify_anomaly_library_signature_with_ledger on a ledger seeded with pre_ledger
\* (distinct keys, so that no seeding fails): "ok" or the error.
LoadError(blob, anchor_defs, pre_ledger, abi, now) ==
  LET anchors == build_anchor_set(anchor_defs, "AnomalyLibrarySigner")
      verdict == Lib(anchors, pre_ledger, abi)!verify_internal(blob.envelope, now)
  IN  IF verdict # "ok" THEN verdict
      ELSE IF Lib(anchors, pre_ledger, abi)!Stale(blob.envelope) THEN "LibraryVersionTooOld"
      ELSE "ok"

\* The verified library a detector pins.
LibraryOf(blob) ==
  LET payload == Only(blob.envelope.payload)
      row(id) == CHOOSE i \in DOMAIN payload.patterns : payload.patterns[i].pattern_id = id
  IN  [version  |-> payload.library_version,
       patterns |-> [id \in {payload.patterns[i].pattern_id : i \in DOMAIN payload.patterns} |->
                       payload.patterns[row(id)]]]

-----------------------------------------------------------------------------
(* anomaly_library.rs                                                      *)

library_wire_code ==
  [CoseVerifyFailed           |-> "anomaly-library-signature-invalid",
   PayloadDecodeFailed        |-> "anomaly-library-signature-payload-malformed",
   AbiVersionMismatch         |-> "anomaly-library-abi-version-mismatch",
   SignerKidMismatch          |-> "anomaly-library-signer-kid-mismatch",
   NotYetValid                |-> "anomaly-library-not-yet-valid",
   Expired                    |-> "anomaly-library-expired",
   PatternIdDuplicate         |-> "anomaly-library-pattern-id-duplicate",
   SeverityActionInconsistent |-> "anomaly-library-severity-action-inconsistent",
   UnknownVerbFamily          |-> "anomaly-library-unknown-verb-family",
   FiringRuleCompanionMissing |-> "anomaly-library-firing-rule-companion-missing",
   LibraryVersionTooOld       |-> "pattern-library-version-too-old"]

\* render_outcome, and stream_error_outcome for a stream that was refused: the
\* verdict must be the expected one, and a rejection must name the expected code.
render_outcome(expected, error, code) ==
  \/ expected.outcome = "accept" /\ error = "ok"
  \/ expected.outcome = "reject" /\ error # "ok" /\ expected.reject_code = {code}

Verdict(passes) == IF passes THEN "Pass" ELSE "Fail"

execute_library(vector) ==
  LET input == vector.input
      error == LoadError(input.blob, input.anchors, input.pre_ledger, input.abi,
                         Only(input.current_time))
  IN  IF SetUpFails(input) THEN "Fail"
      ELSE Verdict(render_outcome(vector.expected, error,
                                  IF error = "ok" THEN "" ELSE library_wire_code[error]))

-----------------------------------------------------------------------------
(* The fires of an evaluation (fire.rs, build_anomaly_fire).               *)

Nothing == [mandate_id |-> {}, integration_ref |-> {}, resource_kind |-> {},
            verb |-> {}, tier |-> {}]

\* Mutant: the projection names the verb of a family predicate, too.
ProjectedVerb_Always(scope, event) == {event.verb}

\* A fire names a verb only if the predicate pins one.
ProjectedVerb(scope, event) == IF scope.verb.kind = "Exact" THEN {event.verb} ELSE {}

\* The observed values of the dimensions the predicate binds.
build_match_scope(pattern, mandate_id, event) ==
  LET scope == pattern.scope
      bound == [Nothing EXCEPT !.mandate_id = {mandate_id}]
      integration == IF scope.mandate_scope.integration_ref = {} THEN {} ELSE {event.integration}
  IN  CASE scope.kind = "VerbResourceMandate" ->
             [bound EXCEPT !.verb = ProjectedVerb(scope, event),
                           !.resource_kind = IF scope.resource_kind = {} THEN {}
                                             ELSE {event.resource_kind},
                           !.integration_ref = integration]
        [] scope.kind = "VerbFanout" ->
             [bound EXCEPT !.verb = ProjectedVerb(scope, event), !.integration_ref = integration]
        [] scope.kind \in {"IamAttachFamily", "ProtectedBranches", "CrossTierSequence"} ->
             [bound EXCEPT !.integration_ref = integration]
        [] scope.kind = "MandatePace" -> [bound EXCEPT !.tier = {event.tier}]
        [] OTHER -> bound

\* The fire of bucket k, anchored on the newest event of its buffer; tenant_id is
\* "" in the suite that has no tenants.
Fire(d, k, tenant_id) ==
  LET pattern == Pattern(d, k)
  IN  [tenant_id       |-> tenant_id,
       pattern_id      |-> k[1],
       library_version |-> d.library.version,
       severity        |-> pattern.severity,
       firing_rule     |-> pattern.firing_rule,
       match_scope     |-> build_match_scope(pattern, k[2], Last(EvictedBuffer(d, k)))]

\* What evaluate_all returns, in the order of the walk.
FiresOf(d, tenant_id) ==
  LET keys == SetToSortSeq(Firing(d), Precedes)
  IN  [i \in DOMAIN keys |-> Fire(d, keys[i], tenant_id)]

SortKey(f) == <<f.tenant_id, f.pattern_id, f.match_scope.mandate_id, f.firing_rule>>

\* Both lists equal after a stable sort by SortKey: the same fires for each key,
\* in the same order.
fires_match(observed, expected) ==
  /\ Len(observed) = Len(expected)
  /\ \A i \in DOMAIN observed :
       LET SameKey(f) == SortKey(f) = SortKey(observed[i])
       IN  SelectSeq(observed, SameKey) = SelectSeq(expected, SameKey)

\* render_fires_outcome / render_records_outcome: the streams were all taken.
render_fires(expected, observed, wire) ==
  \/ expected.outcome = "accept" /\ observed = <<>> /\ expected.fires = <<>>
  \/ /\ expected.outcome = "reject"
     /\ expected.reject_code = {wire}
     /\ observed # <<>>
     /\ fires_match(observed, expected.fires)

\* The two stream suites share the list of StreamErrors, under a prefix each.
stream_wire_code(prefix, error) ==
  <<prefix,
    CASE error = "ExpansionExceeded"              -> "expansion-exceeded"
      [] error = "ClockSkewRejected"              -> "clock-skew-rejected"
      [] error = "TimestampParseFailed"           -> "timestamp-parse-failed"
      [] error = "PatternMissingIndexPlaceholder" -> "pattern-missing-index-placeholder"
      [] error = "ZeroIntervalWithMultipleEvents" -> "zero-interval-with-multiple-events"
      [] error = "PatternDescriptionCountZero"    -> "pattern-description-count-zero"
      [] error = "PerMandateCapReached"           -> "per-mandate-cap-reached"
      [] error = "ClockRegression"                -> "clock-regression"
      [] error = "PastDatedEventRejected"         -> "past-dated-event"
      [] error = "DedupLedgerFailure"             -> "dedup-ledger-failure"
      [] OTHER                                    -> "no-error">>

-----------------------------------------------------------------------------
(* anomaly_detect.rs: one detector for all the streams of a vector.        *)

\* A run is [detector, error, fires]; once it has an error nothing changes it.
Failed(run) == run.error # "ok"

\* The same detector: combined with nothing, its functions are held as tables
\* by TLC, which would otherwise rebuild them at every look.
Settled(d) == [d EXCEPT !.buffers = @ @@ EmptyLedger, !.counters = @ @@ EmptyLedger,
                        !.dedup = @ @@ EmptyLedger]

\* advance_clock and ingest_event for one event.
FeedDetector(run, e) ==
  LET d == AdvanceClock(run.detector, e.timestamp)
  IN  IF Failed(run) THEN run
      ELSE IF ClockRegresses(run.detector, e.timestamp)
             THEN [run EXCEPT !.error = "ClockRegression"]
      ELSE IF IngestError(d, e) # "accepted"
             THEN [run EXCEPT !.detector = d, !.error = IngestError(d, e)]
      ELSE [run EXCEPT !.detector = Settled(Ingest(d, e))]

\* evaluate_all at the end of a stream.
DrainDetector(run) ==
  IF Failed(run) THEN run
  ELSE IF CapacityFailures(run.detector) # {}
         THEN [run EXCEPT !.error = "DedupLedgerFailure"]
  ELSE [run EXCEPT !.detector = Settled(EvaluateAll(run.detector)),
                   !.fires = @ \o FiresOf(run.detector, "")]

\* fed[i]: the run after i events of the stream.
DetectStream(run, stream) ==
  LET normalized == normalize(stream)
      fed[i \in 0..Len(normalized.events)] ==
        IF i = 0 THEN run ELSE FeedDetector(fed[i - 1], normalized.events[i])
  IN  IF Failed(run) THEN run
      ELSE IF normalized.error # "ok" THEN [run EXCEPT !.error = normalized.error]
      ELSE DrainDetector(fed[Len(normalized.events)])

StartDetector(library, initial_time) ==
  [detector |-> NewDetector(library, initial_time), error |-> "ok", fires |-> <<>>]

\* Mutant: every stream gets a detector of its own.
DetectStreams_FreshEach(library, initial_time, streams) ==
  LET after[i \in 0..Len(streams)] ==
        IF i = 0 THEN StartDetector(library, initial_time)
        ELSE DetectStream([after[i - 1] EXCEPT !.detector = NewDetector(library, initial_time)],
                          streams[i])
  IN  after[Len(streams)]

DetectStreams(library, initial_time, streams) ==
  LET after[i \in 0..Len(streams)] ==
        IF i = 0 THEN StartDetector(library, initial_time)
                 ELSE DetectStream(after[i - 1], streams[i])
  IN  after[Len(streams)]

\* What stops both stream suites before their first event; a library that does not
\* verify is a failure here, whatever was expected.
RunFails(input) ==
  \/ SetUpFails(input)
  \/ LoadError(input.blob, input.anchors, input.pre_ledger, input.abi, Only(input.current_time)) # "ok"
  \/ input.initial_time = {}

\* The verdict on a run that ended, with the suite's prefix and its code for fires.
RunVerdict(run, expected, prefix, wire) ==
  IF run.error = "RotationFailed" THEN "Fail"
  ELSE IF Failed(run)
    THEN Verdict(render_outcome(expected, run.error, stream_wire_code(prefix, run.error)))
  ELSE Verdict(render_fires(expected, run.fires, wire))

execute_detect(vector) ==
  LET input == vector.input
  IN  IF RunFails(input) THEN "Fail"
      ELSE RunVerdict(DetectStreams(LibraryOf(input.blob), Only(input.initial_time), input.streams),
                      vector.expected, "anomaly-detect-stream", "anomaly-detected")

-----------------------------------------------------------------------------
(* audit.rs: the orchestrator over the tenant streams of a vector.         *)

\* observe_event: [library, initial_time, tenants, error, fires] after one event.
DetectorOf(run, tenant_id) ==
  IF tenant_id \in DOMAIN run.tenants THEN run.tenants[tenant_id]
  ELSE NewDetector(run.library, run.initial_time)

Drained(run, tenant_id, fed) ==
  LET d == fed.detector
  IN  IF Failed(fed) THEN [run EXCEPT !.error = fed.error]
      ELSE IF CapacityFailures(d) # {} THEN [run EXCEPT !.error = "DedupLedgerFailure"]
      ELSE [run EXCEPT
              !.tenants = [t \in DOMAIN run.tenants \cup {tenant_id} |->
                             IF t = tenant_id THEN Settled(EvaluateAll(d)) ELSE run.tenants[t]],
              !.fires = @ \o FiresOf(d, tenant_id)]

ObserveEvent(run, tenant_id, e) ==
  IF Failed(run) THEN run
  ELSE Drained(run, tenant_id,
         FeedDetector([detector |-> DetectorOf(run, tenant_id), error |-> "ok", fires |-> <<>>], e))

ReplayStream(run, tenant_stream) ==
  LET normalized == normalize(tenant_stream.stream)
      seen[i \in 0..Len(normalized.events)] ==
        IF i = 0 THEN run
        ELSE ObserveEvent(seen[i - 1], tenant_stream.tenant_id, normalized.events[i])
  IN  IF Failed(run) THEN run
      ELSE IF normalized.error # "ok" THEN [run EXCEPT !.error = normalized.error]
      ELSE seen[Len(normalized.events)]

\* apply_rotation verifies under the vector's anchors, against a fresh ledger and
\* at the new initial time.
RotationFails(rotation, anchor_defs) ==
  \/ ~rotation.blob.is_hex
  \/ rotation.new_initial_time = {}
  \/ LoadError(rotation.blob, anchor_defs, EmptyLedger, rotation.abi,
               Only(rotation.new_initial_time)) # "ok"

\* Mutant: the tenants keep their detectors, and with them the old library.
Rotated_KeepsTenants(run, rotation) ==
  [run EXCEPT !.library = LibraryOf(rotation.blob),
              !.initial_time = Only(rotation.new_initial_time)]

Rotated(run, rotation) ==
  [run EXCEPT !.library = LibraryOf(rotation.blob),
              !.initial_time = Only(rotation.new_initial_time),
              !.tenants = [t \in {} |-> {}]]

\* A rotation that is due after the streams so far.
AfterRotation(run, due, anchor_defs) ==
  IF Failed(run) \/ due = {} THEN run
  ELSE IF RotationFails(Only(due), anchor_defs) THEN [run EXCEPT !.error = "RotationFailed"]
  ELSE Rotated(run, Only(due))

\* replay[i]: the run after i streams.  The rotation follows the stream it names
\* (from 0); one that names no stream never takes place.
ReplayStreams(input) ==
  LET replay[i \in 0..Len(input.tenant_streams)] ==
        IF i = 0
          THEN [library |-> LibraryOf(input.blob), initial_time |-> Only(input.initial_time),
                tenants |-> [t \in {} |-> {}], error |-> "ok", fires |-> <<>>]
        ELSE AfterRotation(ReplayStream(replay[i - 1], input.tenant_streams[i]),
                           {r \in input.rotation : r.after = i - 1}, input.anchors)
  IN  replay[Len(input.tenant_streams)]

execute_audit(vector) ==
  LET input == vector.input
  IN  IF RunFails(input) THEN "Fail"
      ELSE RunVerdict(ReplayStreams(input), vector.expected,
                      "audit-replay-stream", "aggregation-pattern-detected")
=============================================================================
