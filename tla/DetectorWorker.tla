--------------------------- MODULE DetectorWorker ---------------------------
(***************************************************************************)
(* One DetectorState driven directly through its public API by a worker    *)
(* that gave it a persistent dedup ledger (DetectorState::with_ledger):    *)
(* events may be stamped behind or ahead of the clock, the ledger's        *)
(* storage may fail at any bucket of a walk, and the worker may crash,     *)
(* also in the middle of a walk, and start again with the same library,    *)
(* any clock and the ledger as storage kept it.                            *)
(*                                                                         *)
(* The persistent backend is external: the trait of dedup_ledger.rs says   *)
(* what it does.  An observe that returns is durable; one that fails may   *)
(* have written all the same.                                              *)
(***************************************************************************)
EXTENDS Detector

CONSTANTS PinnedLibrary, Times   \* Times: the clock values a worker may pass

ASSUME PinnedLibraryTyped == PinnedLibrary \in Libraries
ASSUME TimesTyped == Times \subseteq Int

VARIABLES
  detector,
  \* History:
  accepted,    \* events ingested by the current incarnation, in arrival order
  delivered    \* bucket -> times of the fires returned, over all incarnations

vars == <<detector, accepted, delivered>>

Init ==
  /\ \E t \in Times : detector = NewDetector(PinnedLibrary, t)
  /\ accepted = <<>>
  /\ delivered = [k \in Keys |-> <<>>]

-----------------------------------------------------------------------------

\* A regressing call is an error and changes nothing.
advance_clock(new_time) ==
  /\ ~ClockRegresses(detector, new_time)
  /\ detector' = AdvanceClock(detector, new_time)
  /\ UNCHANGED <<accepted, delivered>>

\* A rejected event changes nothing.
ingest_event(e) ==
  /\ IngestError(detector, e) = "accepted"
  /\ detector' = Ingest(detector, e)
  /\ accepted' = Append(accepted, e)
  /\ UNCHANGED delivered

evaluate_all ==
  /\ CapacityFailures(detector) = {}
  /\ detector' = EvaluateAll(detector)
  /\ delivered' = [k \in Keys |-> IF k \in Firing(detector)
                                    THEN Append(delivered[k], detector.now)
                                    ELSE delivered[k]]
  /\ UNCHANGED accepted

\* The walk gets as far as bucket f: the ledger is not full at an earlier one.
WalkReaches(f) ==
  /\ f \in DOMAIN detector.buffers
  /\ \A k \in CapacityFailures(detector) : ~Precedes(k, f)

\* The fires up to and including that of f are recorded, and nothing further.
RecordedUpTo(f) ==
  AfterWalk(detector, {k \in DOMAIN detector.buffers : k = f \/ Precedes(k, f)},
                      {k \in Firing(detector) : k = f \/ Precedes(k, f)})

\* is_suppressed or observe fails at bucket f: the ledger is full, the storage
\* fails, or the write reaches the storage and only its answer is lost.
EvaluateFails(f) ==
  /\ WalkReaches(f)
  /\ AsksLedger(Pattern(detector, f))
  /\ \/ detector' = EvaluateFailsAt(detector, f)
     \/ /\ f \notin CapacityFailures(detector)
        /\ detector' = RecordedUpTo(f)
  /\ UNCHANGED <<accepted, delivered>>

\* The worker dies, and a new one is built around the ledger left in storage.
Restart(ledger, initial_time) ==
  /\ detector' = WithLedger(PinnedLibrary, initial_time, ledger)
  /\ accepted' = <<>>
  /\ UNCHANGED delivered

\* It dies between two calls, or in a walk that is done with bucket f.
Crash(initial_time) == Restart(detector.dedup, initial_time)

CrashInWalk(f, initial_time) ==
  /\ WalkReaches(f)
  /\ f \notin CapacityFailures(detector)
  /\ Restart(RecordedUpTo(f).dedup, initial_time)

Next ==
  \/ \E t \in Times : advance_clock(t)
  \/ \E e \in Events : ingest_event(e)
  \/ evaluate_all
  \/ \E f \in Keys : EvaluateFails(f)
  \/ \E t \in Times : Crash(t)
  \/ \E f \in Keys, t \in Times : CrashInWalk(f, t)

Spec == Init /\ [][Next]_vars

-----------------------------------------------------------------------------

TypeOK ==
  /\ DetectorType(detector)
  /\ detector.library = PinnedLibrary
  /\ accepted \in Seq(Events)
  /\ delivered \in [Keys -> Seq(Int)]

\* Storm containment holds for late and early events too.
BuffersBounded == DetectorBounded(detector)

Gap == [k \in Keys |->
          IF k[1] \in DOMAIN PinnedLibrary.patterns
            THEN DedupWindow(PinnedLibrary.patterns[k[1]]) ELSE 0]

Alarm == INSTANCE FireOnceAlarm
           WITH Pairs <- Keys, Instants <- Times, fired <- delivered

\* The worker implements the fire-once alarm across restarts, crashes in a walk,
\* storage failures and clocks set back by a restart.
ImplementsFireOnce == Alarm!Spec

Matching(k) == MatchingPositions(PinnedLibrary, accepted, k)

\* Whatever late, early and rejected events arrive, a bucket holds exactly the
\* newest arrivals that match it: eviction and the ring only ever drop the oldest.
BuffersAreNewestArrivals ==
  \A k \in DOMAIN detector.buffers :
    HoldsNewest(detector.buffers[k], accepted, Matching(k))

-----------------------------------------------------------------------------
(* What the comments say and the code does not do.                         *)

\* state.rs, evict_aged_events: an aged event buried behind a live one leaves
\* "firing-rule correctness ... delayed at most one tick, not violated".  An
\* evaluation would fire a windowed Count pattern only on enough live events.
NoSpuriousFire ==
  \A k \in Firing(detector) :
    LET pattern == PinnedLibrary.patterns[k[1]]
    IN  pattern.threshold.kind = "Count" /\ pattern.window_seconds # NoWindow
          => Cardinality({i \in Matching(k) :
                            accepted[i].timestamp >= detector.now - pattern.window_seconds})
               >= pattern.threshold.n
=============================================================================
