------------------------------ MODULE Detector ------------------------------
(***************************************************************************)
(* The per-tenant detector of state.rs with the dedup ledger of            *)
(* dedup_ledger.rs, as operators on the value of a DetectorState:          *)
(*                                                                         *)
(*   library   the pinned library: [version, patterns], patterns being a   *)
(*             function on its pattern ids (Stage 7a made them unique)     *)
(*   buffers   bucket -> sequence of events, for the buckets that exist    *)
(*   counters  mandate -> events ingested in this state's lifetime         *)
(*   now       current_time                                                *)
(*   dedup     bucket -> time of the last recorded fire                    *)
(*                                                                         *)
(* A bucket key is <<pattern_id, mandate_id>>.  Ids are integers, so that  *)
(* the order in which the BTreeMap is walked can be expressed.             *)
(***************************************************************************)
EXTENDS Evaluators

CONSTANTS
  Mandates, PatternIds,          \* ids, as integers
  Events,                        \* the canonicalized events that can arrive
  Libraries,                     \* the verified libraries that can be pinned
  MAX_EVENTS_PER_MANDATE,        \* 10 000
  MAX_EVENTS_PER_BUFFER,         \* 1 000
  MAX_CLOCK_SKEW_SECONDS,        \* 30
  PAST_DATED_GRACE_SECONDS,      \* 24 h
  FALLBACK_PAST_WINDOW_SECONDS,  \* 7 d
  MAX_DEDUP_ENTRIES_PER_TENANT   \* 100 000

ASSUME IdsAreOrdered == Mandates \subseteq Int /\ PatternIds \subseteq Int

ASSUME EventsTyped ==
  \A e \in Events : e.mandate_id \in Mandates /\ e.timestamp \in Int

ASSUME LibrariesTyped ==
  \A l \in Libraries :
    /\ DOMAIN l.patterns \subseteq PatternIds
    /\ IsFiniteSet(DOMAIN l.patterns)
    /\ \A p \in DOMAIN l.patterns :
         /\ l.patterns[p].window_seconds \in Nat \cup {NoWindow}
         /\ l.patterns[p].threshold.kind \in {"Count", "DistinctCount", "Sequence"}
              => l.patterns[p].threshold.n \in Nat

ASSUME BoundsTyped ==
  /\ MAX_EVENTS_PER_MANDATE \in Nat
  /\ MAX_EVENTS_PER_BUFFER \in Nat \ {0}
  /\ MAX_CLOCK_SKEW_SECONDS \in Nat
  /\ PAST_DATED_GRACE_SECONDS \in Nat
  /\ FALLBACK_PAST_WINDOW_SECONDS \in Nat
  /\ FALLBACK_FIRE_ONCE_WINDOW_SECONDS \in Nat
  /\ MAX_DEDUP_ENTRIES_PER_TENANT \in Nat

Keys == PatternIds \X Mandates

\* ScopeBucketKey's derived Ord.
Precedes(j, k) == j[1] < k[1] \/ (j[1] = k[1] /\ j[2] < k[2])

FirstKey(K) == CHOOSE k \in K : \A j \in K : j = k \/ Precedes(k, j)

Pattern(d, k) == d.library.patterns[k[1]]

\* Mutant: the ledger handed over is replaced by a fresh one.
WithLedger_Forgets(lib, initial_time, ledger) ==
  [library  |-> lib,
   buffers  |-> [k \in {} |-> <<>>],
   counters |-> [m \in Mandates |-> 0],
   now      |-> initial_time,
   dedup    |-> [k \in {} |-> 0]]

\* DetectorState::with_ledger: the ledger comes with whatever it remembers.
WithLedger(lib, initial_time, ledger) ==
  [library  |-> lib,
   buffers  |-> [k \in {} |-> <<>>],
   counters |-> [m \in Mandates |-> 0],
   now      |-> initial_time,
   dedup    |-> ledger]

EmptyLedger == [k \in {} |-> 0]

NewDetector(lib, initial_time) == WithLedger(lib, initial_time, EmptyLedger)

-----------------------------------------------------------------------------
(* The clock and the gates of ingest_event.                                *)

\* Mutant: the monotonicity guard is dropped.
ClockRegresses_Never(d, new_time) == FALSE

ClockRegresses(d, new_time) == new_time < d.now

AdvanceClock(d, new_time) == [d EXCEPT !.now = new_time]

LibraryWindows(lib) ==
  {lib.patterns[p].window_seconds : p \in DOMAIN lib.patterns} \ {NoWindow}

max_library_window_seconds(lib) ==
  CHOOSE w \in LibraryWindows(lib) : \A v \in LibraryWindows(lib) : v <= w

past_dated_floor(d) ==
  d.now - PAST_DATED_GRACE_SECONDS
        - (IF LibraryWindows(d.library) = {} THEN FALLBACK_PAST_WINDOW_SECONDS
                                             ELSE max_library_window_seconds(d.library))

\* Stages 1-3 of ingest_event, in order: the event is rejected before anything
\* is mutated.
IngestError(d, e) ==
  IF e.timestamp - d.now > MAX_CLOCK_SKEW_SECONDS THEN "ClockSkewRejected"
  ELSE IF e.timestamp < past_dated_floor(d) THEN "PastDatedEventRejected"
  ELSE IF d.counters[e.mandate_id] >= MAX_EVENTS_PER_MANDATE THEN "PerMandateCapReached"
  ELSE "accepted"

\* Mutant: the ring never evicts.
RingPush_NoEviction(buffer, e) == Append(buffer, e)

\* Mutant: a full ring refuses the new event instead of dropping its oldest.
RingPush_DropsNewest(buffer, e) ==
  IF Len(buffer) < MAX_EVENTS_PER_BUFFER THEN Append(buffer, e) ELSE buffer

\* push_back, then pop_front while the ring is over its cap.
RingPush(buffer, e) ==
  LET pushed == Append(buffer, e)
      over == Len(pushed) - MAX_EVENTS_PER_BUFFER
  IN  IF over > 0 THEN SubSeq(pushed, over + 1, Len(pushed)) ELSE pushed

\* Mutant: the bucket key loses its mandate dimension.
RoutedTo_NoMandate(d, e) ==
  {k \in (DOMAIN d.library.patterns) \X {0} :
     ScopeMatches(Pattern(d, k).scope, e)}

RoutedTo(d, e) ==
  {k \in (DOMAIN d.library.patterns) \X {e.mandate_id} :
     ScopeMatches(Pattern(d, k).scope, e)}

BufferOf(d, k) == IF k \in DOMAIN d.buffers THEN d.buffers[k] ELSE <<>>

\* Stages 4 and 5: route to every matching bucket, count the event once.
Ingest(d, e) ==
  [d EXCEPT
     !.buffers = [k \in DOMAIN d.buffers \cup RoutedTo(d, e) |->
                    IF k \in RoutedTo(d, e) THEN RingPush(BufferOf(d, k), e)
                                            ELSE d.buffers[k]],
     !.counters = [d.counters EXCEPT ![e.mandate_id] = @ + 1]]

-----------------------------------------------------------------------------
(* evaluate_all.  Every bucket has its own dedup entry, so what one bucket *)
(* records never changes what another one decides in the same walk.        *)

\* Mutant: an event exactly one window old is dropped.
evict_aged_events_AtEdge(buffer, window, now) ==
  LET live == {i \in DOMAIN buffer : buffer[i].timestamp > now - window}
      first == CHOOSE i \in live : \A j \in live : i <= j
  IN  IF live = {} THEN <<>> ELSE SubSeq(buffer, first, Len(buffer))

\* Pops from the front only, and stops at the first event inside the window.
evict_aged_events(buffer, window, now) ==
  LET live == {i \in DOMAIN buffer : buffer[i].timestamp >= now - window}
      first == CHOOSE i \in live : \A j \in live : i <= j
  IN  IF live = {} THEN <<>> ELSE SubSeq(buffer, first, Len(buffer))

\* What the evaluator of bucket k gets to see.
EvictedBuffer(d, k) ==
  IF Pattern(d, k).window_seconds = NoWindow
    THEN d.buffers[k]
    ELSE evict_aged_events(d.buffers[k], Pattern(d, k).window_seconds, d.now)

is_fire_suppressed(d, k) ==
  /\ k \in DOMAIN d.dedup
  /\ d.now - d.dedup[k] < DedupWindow(Pattern(d, k))

Firing(d) ==
  {k \in DOMAIN d.buffers :
     ~is_fire_suppressed(d, k) /\ Crosses(Pattern(d, k), EvictedBuffer(d, k))}

\* Mutant: the cap is tested once, against the ledger as it was before the walk.
CapacityFailures_StaleLen(d) ==
  {k \in Firing(d) \ DOMAIN d.dedup :
     Cardinality(DOMAIN d.dedup) >= MAX_DEDUP_ENTRIES_PER_TENANT}

\* The buckets at which observe would find the ledger full: the pair is new and
\* the pairs recorded so far in this walk have used up the cap.
CapacityFailures(d) ==
  {k \in Firing(d) \ DOMAIN d.dedup :
     Cardinality(DOMAIN d.dedup \cup {j \in Firing(d) : Precedes(j, k)})
       >= MAX_DEDUP_ENTRIES_PER_TENANT}

\* Mutant: observe does not overwrite the entry of a pair it already knows.
AfterWalk_KeepsOldEntry(d, walked, marked) ==
  [d EXCEPT
     !.buffers = [k \in DOMAIN d.buffers |->
                    IF k \in walked THEN EvictedBuffer(d, k) ELSE d.buffers[k]],
     !.dedup = [k \in DOMAIN d.dedup \cup marked |->
                  IF k \in DOMAIN d.dedup THEN d.dedup[k] ELSE d.now]]

\* The state after a walk that evicted the buckets "walked" and recorded a fire
\* for the buckets "marked".
AfterWalk(d, walked, marked) ==
  [d EXCEPT
     !.buffers = [k \in DOMAIN d.buffers |->
                    IF k \in walked THEN EvictedBuffer(d, k) ELSE d.buffers[k]],
     !.dedup = [k \in DOMAIN d.dedup \cup marked |->
                  IF k \in marked THEN d.now ELSE d.dedup[k]]]

\* Every bucket evaluated; the fires are Firing(d).
EvaluateAll(d) == AfterWalk(d, DOMAIN d.buffers, Firing(d))

\* The walk ends in an error at bucket f: f itself was evicted, the fires in
\* front of it are recorded, and the caller gets none of them.
EvaluateFailsAt(d, f) ==
  AfterWalk(d, {k \in DOMAIN d.buffers : k = f \/ Precedes(k, f)},
               {k \in Firing(d) : Precedes(k, f)})

-----------------------------------------------------------------------------
(* Types and bounds of one detector, used by the modules that run it.      *)

DetectorType(d) ==
  /\ d = [library |-> d.library, buffers |-> d.buffers, counters |-> d.counters,
          now |-> d.now, dedup |-> d.dedup]
  /\ d.library \in Libraries
  /\ DOMAIN d.buffers \subseteq (DOMAIN d.library.patterns) \X Mandates
  /\ \A k \in DOMAIN d.buffers : d.buffers[k] \in Seq(Events)
  /\ d.counters \in [Mandates -> Nat]
  /\ d.now \in Int
  /\ DOMAIN d.dedup \subseteq Keys
  /\ \A k \in DOMAIN d.dedup : d.dedup[k] \in Int

\* A bucket never holds more events than its mandate was charged for, nor more
\* than the ring; no mandate is charged beyond its cap.
DetectorBounded(d) ==
  /\ \A m \in Mandates : d.counters[m] <= MAX_EVENTS_PER_MANDATE
  /\ \A k \in DOMAIN d.buffers :
       /\ Len(d.buffers[k]) <= MAX_EVENTS_PER_BUFFER
       /\ Len(d.buffers[k]) <= d.counters[k[2]]

\* Where in a history of arrivals the events of bucket k stand.
MatchingPositions(lib, arrivals, k) ==
  {i \in DOMAIN arrivals :
     /\ arrivals[i].mandate_id = k[2]
     /\ ScopeMatches(lib.patterns[k[1]].scope, arrivals[i])}

\* place[i] is where the i-th event of the buffer arrived: arrivals are buffered
\* in order, and what is missing of "positions" came before everything kept.
NewestAt(buffer, arrivals, positions, place) ==
  /\ \A i \in 1..Len(buffer) : buffer[i] = arrivals[place[i]]
  /\ \A i, j \in 1..Len(buffer) : i < j => place[i] < place[j]
  /\ \A p \in positions : \/ \E i \in 1..Len(buffer) : place[i] = p
                          \/ \A i \in 1..Len(buffer) : p < place[i]

HoldsNewest(buffer, arrivals, positions) ==
  \E place \in [1..Len(buffer) -> positions] : NewestAt(buffer, arrivals, positions, place)

\* Every event a windowed evaluator counts lies inside [now - window, now].
CountsOnlyLive(d) ==
  \A k \in DOMAIN d.buffers :
    Pattern(d, k).window_seconds # NoWindow =>
      \A i \in DOMAIN EvictedBuffer(d, k) :
        /\ EvictedBuffer(d, k)[i].timestamp >= d.now - Pattern(d, k).window_seconds
        /\ EvictedBuffer(d, k)[i].timestamp <= d.now
=============================================================================
