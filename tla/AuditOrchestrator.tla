-------------------------- MODULE AuditOrchestrator --------------------------
(***************************************************************************)
(* The multi-tenant audit orchestrator of orchestrator.rs: one detector    *)
(* per tenant, registered at its first call, all pinned to one library;    *)
(* every observed event moves its tenant's clock to its own timestamp, is  *)
(* ingested and triggers a full evaluation; a rotation drops everything.   *)
(***************************************************************************)
EXTENDS Detector

CONSTANTS Tenants, Times   \* Times: the clock values a caller may pass

ASSUME TimesTyped == Times \subseteq Int

VARIABLES
  library, initial_time,   \* what the next registered tenant starts from
  tenants,                 \* tenant -> detector, for the registered tenants
  \* History, since the last rotation:
  accepted,                \* tenant -> events past every gate, in order
  delivered                \* tenant -> bucket -> times of the records returned

vars == <<library, initial_time, tenants, accepted, delivered>>

NothingAccepted == [t \in Tenants |-> <<>>]
NothingDelivered == [t \in Tenants |-> [k \in Keys |-> <<>>]]

Init ==
  /\ library \in Libraries
  /\ initial_time \in Times
  /\ tenants = [t \in {} |-> {}]
  /\ accepted = NothingAccepted
  /\ delivered = NothingDelivered

-----------------------------------------------------------------------------

\* Lazy registration: an unknown tenant starts at the orchestrator's clock.
tenant_state_mut(t) ==
  IF t \in DOMAIN tenants THEN tenants[t] ELSE NewDetector(library, initial_time)

SetTenant(t, d) ==
  tenants' = [u \in DOMAIN tenants \cup {t} |-> IF u = t THEN d ELSE tenants[u]]

\* evaluate_all on detector d of tenant t: either the whole batch of fires is
\* returned, or the ledger is full at some bucket and none is.
Evaluate(t, d) ==
  /\ UNCHANGED <<library, initial_time>>
  /\ \/ /\ CapacityFailures(d) = {}
        /\ SetTenant(t, EvaluateAll(d))
        /\ delivered' = [delivered EXCEPT ![t] =
                           [k \in Keys |-> IF k \in Firing(d)
                                             THEN Append(delivered[t][k], d.now)
                                             ELSE delivered[t][k]]]
     \/ /\ CapacityFailures(d) # {}
        /\ SetTenant(t, EvaluateFailsAt(d, FirstKey(CapacityFailures(d))))
        /\ UNCHANGED delivered

\* observe_event whose advance_clock fails: only the registration happened.
ObserveRegression(t, e) ==
  /\ ClockRegresses(tenant_state_mut(t), e.timestamp)
  /\ SetTenant(t, tenant_state_mut(t))
  /\ UNCHANGED <<library, initial_time, accepted, delivered>>

\* observe_event whose ingest_event fails: the clock has already moved.
ObserveRejected(t, e) ==
  LET d == AdvanceClock(tenant_state_mut(t), e.timestamp)
  IN  /\ ~ClockRegresses(tenant_state_mut(t), e.timestamp)
      /\ IngestError(d, e) # "accepted"
      /\ SetTenant(t, d)
      /\ UNCHANGED <<library, initial_time, accepted, delivered>>

ObserveAccepted(t, e) ==
  LET d == AdvanceClock(tenant_state_mut(t), e.timestamp)
  IN  /\ ~ClockRegresses(tenant_state_mut(t), e.timestamp)
      /\ IngestError(d, e) = "accepted"
      /\ accepted' = [accepted EXCEPT ![t] = Append(@, e)]
      /\ Evaluate(t, Ingest(d, e))

observe_event(t, e) ==
  ObserveRegression(t, e) \/ ObserveRejected(t, e) \/ ObserveAccepted(t, e)

advance_clock_for(t, new_time) ==
  /\ SetTenant(t, IF ClockRegresses(tenant_state_mut(t), new_time)
                    THEN tenant_state_mut(t)
                    ELSE AdvanceClock(tenant_state_mut(t), new_time))
  /\ UNCHANGED <<library, initial_time, accepted, delivered>>

\* An unregistered tenant has no fires and stays unregistered.
drain_fires_for(t) ==
  /\ t \in DOMAIN tenants
  /\ Evaluate(t, tenants[t])
  /\ UNCHANGED accepted

\* Mutant: the tenants keep their detectors.
rotate_library_KeepsTenants(new_library, new_initial_time) ==
  /\ library' = new_library
  /\ initial_time' = new_initial_time
  /\ accepted' = NothingAccepted
  /\ delivered' = NothingDelivered
  /\ UNCHANGED tenants

rotate_library(new_library, new_initial_time) ==
  /\ library' = new_library
  /\ initial_time' = new_initial_time
  /\ tenants' = [t \in {} |-> {}]
  /\ accepted' = NothingAccepted
  /\ delivered' = NothingDelivered

Next ==
  \/ \E t \in Tenants, e \in Events : observe_event(t, e)
  \/ \E t \in Tenants, new_time \in Times : advance_clock_for(t, new_time)
  \/ \E t \in Tenants : drain_fires_for(t)
  \/ \E l \in Libraries, new_time \in Times : rotate_library(l, new_time)

Spec == Init /\ [][Next]_vars

-----------------------------------------------------------------------------

TypeOK ==
  /\ library \in Libraries
  /\ initial_time \in Int
  /\ DOMAIN tenants \subseteq Tenants
  /\ \A t \in DOMAIN tenants : DetectorType(tenants[t])
  /\ accepted \in [Tenants -> Seq(Events)]
  /\ delivered \in [Tenants -> [Keys -> Seq(Int)]]

\* Storm containment: the buffers of a tenant never outgrow what its mandates
\* were charged for, through any mix of events, evictions and failed evaluations.
BuffersBounded == \A t \in DOMAIN tenants : DetectorBounded(tenants[t])

\* The orchestrator moves the clock to an event's timestamp before it ingests
\* the event, so eviction from the front of a buffer never leaves an aged event
\* behind: at any moment an evaluation would count live events only.
CountsOnlyLiveEvents == \A t \in DOMAIN tenants : CountsOnlyLive(tenants[t])

\* Fire-once: two records returned for the same tenant, pattern and mandate
\* under one library are at least the pattern's dedup window apart.
FireOnce ==
  \A t \in Tenants, k \in Keys :
    \A i, j \in DOMAIN delivered[t][k] :
      i < j => delivered[t][k][j] - delivered[t][k][i]
                 >= DedupWindow(library.patterns[k[1]])

\* The accepted events that bucket k of tenant t should be counting now.
LiveAccepted(t, k) ==
  LET pattern == library.patterns[k[1]]
  IN  {i \in MatchingPositions(library, accepted[t], k) :
         \/ pattern.window_seconds = NoWindow
         \/ accepted[t][i].timestamp >= tenants[t].now - pattern.window_seconds}

CountPatterns(kind) ==
  {p \in DOMAIN library.patterns :
     /\ library.patterns[p].firing_rule # "SequenceMatch"
     /\ library.patterns[p].threshold.kind = kind
     /\ library.patterns[p].threshold.n <= MAX_EVENTS_PER_BUFFER}

\* No spurious fire and no missed one: an evaluation at this moment would fire a
\* Count pattern for a mandate exactly when enough accepted events of the mandate
\* match and are inside the window, and no fire is on record within the window.
\* Ring eviction and window eviction together lose nothing that matters.
CountFiringIsExact ==
  \A t \in DOMAIN tenants, p \in CountPatterns("Count"), m \in Mandates :
    LET live == LiveAccepted(t, <<p, m>>)
    IN  <<p, m>> \in Firing(tenants[t])
          <=> /\ live # {}
              /\ Cardinality(live) >= library.patterns[p].threshold.n
              /\ ~is_fire_suppressed(tenants[t], <<p, m>>)

\* The dedup ledger never holds more pairs than its cap, also when one walk adds
\* several pairs.
LedgerWithinCapacity ==
  \A t \in DOMAIN tenants :
    Cardinality(DOMAIN tenants[t].dedup) <= MAX_DEDUP_ENTRIES_PER_TENANT

\* No detector outlives a rotation: every registered tenant evaluates against
\* the orchestrator's current library.
TenantsPinCurrentLibrary == \A t \in DOMAIN tenants : tenants[t].library = library

-----------------------------------------------------------------------------
(* What the comments say and the code does not do.                         *)

\* orchestrator.rs: the tenant's clock is "rate-gated by MAX_CLOCK_SKEW_SECONDS"
\* when an event is observed.
ClockIsRateGated ==
  [][\A t \in Tenants, e \in Events :
       t \in DOMAIN tenants /\ observe_event(t, e)
         => tenants'[t].now - tenants[t].now <= MAX_CLOCK_SKEW_SECONDS]_vars

\* state.rs: "records one entry per (pattern_id, mandate_id) pair that has fired
\* at least once".  A pair on record was returned to the caller at that time.
RecordedFiresWereReturned ==
  \A t \in DOMAIN tenants : \A k \in DOMAIN tenants[t].dedup :
    \E i \in DOMAIN delivered[t][k] : delivered[t][k][i] = tenants[t].dedup[k]

\* state.rs: "eviction at this cap cannot cause a spurious miss", read for the
\* patterns that count distinct resources.
RingEvictionMissesNoFire ==
  \A t \in DOMAIN tenants, p \in CountPatterns("DistinctCount"), m \in Mandates :
    LET live == LiveAccepted(t, <<p, m>>)
    IN  /\ Cardinality({accepted[t][i].resource_ref : i \in live})
             >= library.patterns[p].threshold.n
        /\ live # {}
        /\ ~is_fire_suppressed(tenants[t], <<p, m>>)
        => <<p, m>> \in Firing(tenants[t])

\* design-final-v2.md 3.5.4: long-silence-before-burst is "silent >= 604800s then
\* burst".  An evaluation would fire such a pattern only on a burst in the window
\* that follows real silence, or the very first event of the mandate.
BurstFollowsSilence ==
  \A t \in DOMAIN tenants : \A k \in Firing(tenants[t]) :
    library.patterns[k[1]].scope.kind = "SilenceThenBurst" =>
      LET pattern == library.patterns[k[1]]
          scope == pattern.scope
          seen == SelectSeq(accepted[t], LAMBDA e : e.mandate_id = k[2])
      IN  \E i \in DOMAIN seen :
            /\ seen[i].timestamp >= tenants[t].now - pattern.window_seconds
            /\ i = 1 \/ seen[i].timestamp - seen[i - 1].timestamp >= scope.silence_seconds
            /\ i + scope.burst_threshold - 1 <= Len(seen)
            /\ seen[i + scope.burst_threshold - 1].timestamp - seen[i].timestamp
                 <= scope.burst_seconds
=============================================================================
