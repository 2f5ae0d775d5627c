------------------------ MODULE DetectorWorkerProofs ------------------------
(***************************************************************************)
(* A worker that restarts, with any clock, around a persistent dedup ledger*)
(* implements the fire-once alarm, for every library, event set and bound. *)
(*                                                                         *)
(* The clock may be behind the ledger here, so nothing relates the two.    *)
(* The argument only uses that an entry is overwritten when the clock is   *)
(* at least one dedup window past it: entries never move back, and the     *)
(* ledger stays ahead of everything delivered (LedgerCovers).              *)
(* The buffers, in turn, hold the newest arrivals because both a full ring *)
(* and the eviction of aged events only ever drop a prefix.                *)
(***************************************************************************)
EXTENDS DetectorWorker, DetectorProofs

\* No fire was returned after the time the ledger holds for its bucket.
LedgerCovers(ledger) ==
  \A k \in Keys : delivered[k] # <<>> =>
    k \in DOMAIN ledger /\ delivered[k][Len(delivered[k])] <= ledger[k]

\* The inductive invariant.
Inv ==
  /\ TypeOK
  /\ BuffersBounded
  /\ detector.now \in Times
  /\ LedgerCovers(detector.dedup)

\* A bucket fires only if the clock is a whole dedup window past its entry.
LEMMA FiringIsDue ==
  ASSUME NEW d, DetectorType(d), NEW k \in Firing(d)
  PROVE  /\ k \in Keys /\ k[1] \in DOMAIN d.library.patterns
         /\ DedupWindow(Pattern(d, k)) \in Nat
         /\ k \in DOMAIN d.dedup => d.now - d.dedup[k] >= DedupWindow(Pattern(d, k))
<1>1. k \in DOMAIN d.buffers /\ ~is_fire_suppressed(d, k)
  BY DEF Firing
<1>2. k \in Keys /\ k[1] \in DOMAIN d.library.patterns
  BY <1>1, LibrariesTyped DEF DetectorType, Keys
<1>3. DedupWindow(Pattern(d, k)) \in Nat
  BY <1>2, WindowsTyped DEF Pattern
<1>4. k \in DOMAIN d.dedup => d.now \in Int /\ d.dedup[k] \in Int
  BY DEF DetectorType
<1> QED
  BY <1>1, <1>2, <1>3, <1>4 DEF is_fire_suppressed

\* A walk, complete or broken off, moves ledger entries forward only.
LEMMA LedgerMovesForward ==
  ASSUME NEW d, DetectorType(d), DetectorBounded(d), LedgerCovers(d.dedup),
         delivered \in [Keys -> Seq(Int)],
         NEW walked, NEW marked \in SUBSET Firing(d),
         NEW c, c = AfterWalk(d, walked, marked)
  PROVE  /\ DetectorType(c) /\ DetectorBounded(c)
         /\ c.library = d.library /\ c.now = d.now
         /\ LedgerCovers(c.dedup)
         /\ \A k \in marked : k \in DOMAIN c.dedup /\ c.dedup[k] = d.now
<1>1. DetectorType(c) /\ DetectorBounded(c)
  BY AfterWalkSound
<1>2. /\ c.library = d.library /\ c.now = d.now
      /\ DOMAIN c.dedup = DOMAIN d.dedup \cup marked
      /\ \A k \in marked : c.dedup[k] = d.now
      /\ \A k \in DOMAIN d.dedup \ marked : c.dedup[k] = d.dedup[k]
  BY AfterWalkFields
<1>3. ASSUME NEW k \in Keys, delivered[k] # <<>>
      PROVE  k \in DOMAIN c.dedup /\ delivered[k][Len(delivered[k])] <= c.dedup[k]
  <2>1. k \in DOMAIN d.dedup /\ delivered[k][Len(delivered[k])] <= d.dedup[k]
    BY <1>3 DEF LedgerCovers
  <2>2. /\ d.dedup[k] \in Int /\ d.now \in Int
        /\ delivered[k][Len(delivered[k])] \in Int
    <3>1. Len(delivered[k]) \in 1..Len(delivered[k]) /\ delivered[k] \in Seq(Int)
      BY <1>3, EmptySeq, LenProperties
    <3> QED BY <2>1, <3>1, ElementOfSeq DEF DetectorType
  <2>3. k \in marked => d.now >= d.dedup[k]
    BY <2>1, <2>2, FiringIsDue
  <2> QED
    BY <1>2, <2>1, <2>2, <2>3
<1>4. LedgerCovers(c.dedup)
  BY <1>3 DEF LedgerCovers
<1> QED
  BY <1>1, <1>2, <1>4

\* The history after evaluate_all returned its batch: the last record of a bucket
\* is the one just returned, or the one it had.
LEMMA BatchDelivered ==
  ASSUME Inv, evaluate_all
  PROVE  /\ delivered' \in [Keys -> Seq(Int)]
         /\ \A k \in Keys \cap Firing(detector) :
              delivered'[k][Len(delivered'[k])] = detector.now
         /\ \A k \in Keys \ Firing(detector) : delivered'[k] = delivered[k]
<1>1. /\ delivered \in [Keys -> Seq(Int)] /\ detector.now \in Int
      /\ delivered' = [k \in Keys |-> IF k \in Firing(detector)
                                        THEN Append(delivered[k], detector.now)
                                        ELSE delivered[k]]
  BY DEF Inv, TypeOK, DetectorType, evaluate_all
<1>2. ASSUME NEW k \in Keys
      PROVE  /\ delivered[k] \in Seq(Int)
             /\ Append(delivered[k], detector.now) \in Seq(Int)
             /\ Append(delivered[k], detector.now)[Len(Append(delivered[k], detector.now))]
                  = detector.now
  <2>1. delivered[k] \in Seq(Int)
    BY <1>1
  <2> QED BY <1>1, <2>1, AppendProperties
<1> QED
  BY <1>1, <1>2

\* Every call, failure and crash keeps the invariant.
LEMMA InvInductive ==
  ASSUME Inv, [Next]_vars
  PROVE  Inv'
<1> DEFINE d == detector
<1>0. /\ DetectorType(d) /\ DetectorBounded(d) /\ d.library = PinnedLibrary
      /\ d.now \in Times /\ d.now \in Int
      /\ accepted \in Seq(Events) /\ delivered \in [Keys -> Seq(Int)]
      /\ LedgerCovers(d.dedup)
  BY DEF Inv, TypeOK, BuffersBounded, DetectorType
<1>1. ASSUME NEW t \in Times, advance_clock(t)
      PROVE  Inv'
  <2>1. /\ detector' = AdvanceClock(d, t) /\ UNCHANGED <<accepted, delivered>> /\ t \in Int
    BY <1>1, TimesTyped DEF advance_clock
  <2>2. /\ DetectorType(AdvanceClock(d, t)) /\ DetectorBounded(AdvanceClock(d, t))
        /\ AdvanceClock(d, t).library = d.library
        /\ AdvanceClock(d, t).dedup = d.dedup /\ AdvanceClock(d, t).now = t
    BY <1>0, <2>1, AdvanceClockSound
  <2> QED
    BY <1>0, <2>1, <2>2 DEF Inv, TypeOK, BuffersBounded, LedgerCovers
<1>2. ASSUME NEW e \in Events, ingest_event(e)
      PROVE  Inv'
  <2>1. /\ detector' = Ingest(d, e) /\ IngestError(d, e) = "accepted"
        /\ accepted' \in Seq(Events) /\ UNCHANGED delivered
    BY <1>0, <1>2, AppendProperties DEF ingest_event
  <2>2. DetectorType(Ingest(d, e)) /\ DetectorBounded(Ingest(d, e))
    BY <1>0, <2>1, IngestSound
  <2>3. /\ Ingest(d, e).library = d.library
        /\ Ingest(d, e).dedup = d.dedup /\ Ingest(d, e).now = d.now
    <3>1. Ingest(d, e) = [library |-> d.library, buffers |-> Ingest(d, e).buffers,
                          counters |-> Ingest(d, e).counters,
                          now |-> d.now, dedup |-> d.dedup]
      BY <1>0, IngestBuckets
    <3> QED BY <3>1
  <2> QED
    BY <1>0, <2>1, <2>2, <2>3 DEF Inv, TypeOK, BuffersBounded, LedgerCovers
<1>3. ASSUME evaluate_all
      PROVE  Inv'
  <2> DEFINE F == Firing(d)
             c == AfterWalk(d, DOMAIN d.buffers, F)
  <2>1. detector' = c /\ UNCHANGED accepted
    BY <1>3 DEF evaluate_all, EvaluateAll
  <2>2. /\ DetectorType(c) /\ DetectorBounded(c)
        /\ c.library = d.library /\ c.now = d.now
        /\ LedgerCovers(c.dedup)
        /\ \A k \in F : k \in DOMAIN c.dedup /\ c.dedup[k] = d.now
    BY <1>0, LedgerMovesForward
  <2>3. /\ delivered' \in [Keys -> Seq(Int)]
        /\ \A k \in Keys \cap F : delivered'[k][Len(delivered'[k])] = d.now
        /\ \A k \in Keys \ F : delivered'[k] = delivered[k]
    BY <1>3, BatchDelivered
  <2> HIDE DEF c, F
  <2>4. ASSUME NEW k \in Keys, delivered'[k] # <<>>
        PROVE  k \in DOMAIN c.dedup /\ delivered'[k][Len(delivered'[k])] <= c.dedup[k]
    <3>1. CASE k \in F
      BY <1>0, <2>2, <2>3, <3>1
    <3>2. CASE k \notin F
      BY <2>2, <2>3, <2>4, <3>2 DEF LedgerCovers
    <3> QED BY <3>1, <3>2
  <2> QED
    BY <1>0, <2>1, <2>2, <2>3, <2>4 DEF Inv, TypeOK, BuffersBounded, LedgerCovers
<1>4. ASSUME NEW f \in Keys, NEW c, c \in {EvaluateFailsAt(d, f), RecordedUpTo(f)}
      PROVE  /\ DetectorType(c) /\ DetectorBounded(c)
             /\ c.library = d.library /\ c.now = d.now
             /\ LedgerCovers(c.dedup)
  <2> DEFINE before == {k \in Firing(d) : Precedes(k, f)}
             upto == {k \in Firing(d) : k = f \/ Precedes(k, f)}
             walked == {k \in DOMAIN d.buffers : k = f \/ Precedes(k, f)}
  <2>1. /\ before \in SUBSET Firing(d) /\ EvaluateFailsAt(d, f) = AfterWalk(d, walked, before)
        /\ upto \in SUBSET Firing(d) /\ RecordedUpTo(f) = AfterWalk(d, walked, upto)
    BY DEF EvaluateFailsAt, RecordedUpTo
  <2> HIDE DEF before, upto, walked
  <2>2. PICK marked \in SUBSET Firing(d) : c = AfterWalk(d, walked, marked)
    BY <1>4, <2>1
  <2> QED
    BY <1>0, <2>2, LedgerMovesForward
<1>5. ASSUME NEW f \in Keys, EvaluateFails(f)
      PROVE  Inv'
  <2>1. /\ detector' \in {EvaluateFailsAt(d, f), RecordedUpTo(f)}
        /\ UNCHANGED <<accepted, delivered>>
    BY <1>5 DEF EvaluateFails
  <2>2. /\ DetectorType(detector') /\ DetectorBounded(detector')
        /\ detector'.library = d.library /\ detector'.now = d.now
        /\ LedgerCovers(detector'.dedup)
    BY <1>4, <2>1
  <2> QED
    BY <1>0, <2>1, <2>2 DEF Inv, TypeOK, BuffersBounded, LedgerCovers
<1>6. ASSUME NEW ledger, NEW t \in Times, Restart(ledger, t), LedgerCovers(ledger),
             DOMAIN ledger \subseteq Keys, \A k \in DOMAIN ledger : ledger[k] \in Int
      PROVE  Inv'
  <2> DEFINE n == WithLedger(PinnedLibrary, t, ledger)
  <2>1. detector' = n /\ accepted' = <<>> /\ UNCHANGED delivered
    BY <1>6 DEF Restart
  <2>2. DetectorType(n) /\ DetectorBounded(n)
    BY <1>6, WithLedgerSound, PinnedLibraryTyped, TimesTyped
  <2>3. n.library = PinnedLibrary /\ n.now = t /\ n.dedup = ledger
    BY DEF WithLedger
  <2> HIDE DEF n
  <2> QED
    BY <1>0, <1>6, <2>1, <2>2, <2>3 DEF Inv, TypeOK, BuffersBounded, LedgerCovers
<1>7. ASSUME NEW t \in Times, Crash(t)
      PROVE  Inv'
  BY <1>0, <1>6, <1>7 DEF Crash, DetectorType
<1>8. ASSUME NEW f \in Keys, NEW t \in Times, CrashInWalk(f, t)
      PROVE  Inv'
  <2>1. Restart(RecordedUpTo(f).dedup, t)
    BY <1>8 DEF CrashInWalk
  <2>2. DetectorType(RecordedUpTo(f)) /\ LedgerCovers(RecordedUpTo(f).dedup)
    BY <1>4
  <2>3. /\ DOMAIN RecordedUpTo(f).dedup \subseteq Keys
        /\ \A k \in DOMAIN RecordedUpTo(f).dedup : RecordedUpTo(f).dedup[k] \in Int
    BY <2>2 DEF DetectorType
  <2> QED
    BY <1>6, <2>1, <2>2, <2>3
<1>9. ASSUME UNCHANGED vars
      PROVE  Inv'
  BY <1>9 DEF vars, Inv, TypeOK, BuffersBounded, LedgerCovers
<1> QED
  BY <1>1, <1>2, <1>3, <1>5, <1>7, <1>8, <1>9 DEF Next

\* The invariant holds throughout.
THEOREM InvHolds == Spec => []Inv
<1>1. Init => Inv
  <2> SUFFICES ASSUME Init PROVE Inv
    OBVIOUS
  <2>1. PICK t \in Times : detector = WithLedger(PinnedLibrary, t, EmptyLedger)
    BY DEF Init, NewDetector
  <2>2. DOMAIN EmptyLedger = {}
    BY DEF EmptyLedger
  <2>3. DetectorType(detector) /\ DetectorBounded(detector)
    BY <2>1, <2>2, WithLedgerSound, PinnedLibraryTyped, TimesTyped
  <2>4. detector.library = PinnedLibrary /\ detector.now = t
    BY <2>1 DEF WithLedger
  <2>5. /\ accepted \in Seq(Events) /\ delivered \in [Keys -> Seq(Int)]
        /\ \A k \in Keys : delivered[k] = <<>>
    BY DEF Init
  <2> QED
    BY <2>3, <2>4, <2>5 DEF Inv, TypeOK, BuffersBounded, LedgerCovers
<1>2. Inv /\ [Next]_vars => Inv'
  BY InvInductive
<1> QED
  BY <1>1, <1>2, PTL DEF Spec

\* The worker's state has its type, also after crashes and failed walks.
THEOREM TypeCorrect == Spec => []TypeOK
<1>1. Inv => TypeOK
  BY DEF Inv
<1> QED
  BY <1>1, InvHolds, PTL

\* Storm containment for a directly driven detector.
THEOREM StormContained == Spec => []BuffersBounded
<1>1. Inv => BuffersBounded
  BY DEF Inv
<1> QED
  BY <1>1, InvHolds, PTL

\* The worker implements the fire-once alarm: every call, storage failure and
\* crash is an alarm batch or invisible, and no restart forgets a fire.
THEOREM WorkerFiresOnce == Spec => ImplementsFireOnce
<1>1. Init => Alarm!Init
  BY DEF Init, Alarm!Init
<1>2. ASSUME Inv, [Next]_vars
      PROVE  [Alarm!Next]_delivered
  <2> DEFINE d == detector
             F == Firing(d)
  <2>0. /\ DetectorType(d) /\ d.library = PinnedLibrary /\ d.now \in Times /\ d.now \in Int
        /\ LedgerCovers(d.dedup) /\ delivered \in [Keys -> Seq(Int)]
    BY <1>2 DEF Inv, TypeOK, DetectorType
  <2>1. CASE evaluate_all
    <3>1. F \in SUBSET Keys
      BY <2>0, FiringIsDue
    <3>2. ASSUME NEW k \in F
          PROVE  Alarm!MayFire(k, d.now)
      <4>1. /\ k \in Keys /\ k[1] \in DOMAIN d.library.patterns
            /\ DedupWindow(Pattern(d, k)) \in Nat
            /\ k \in DOMAIN d.dedup => d.now - d.dedup[k] >= DedupWindow(Pattern(d, k))
        BY <2>0, FiringIsDue
      <4>2. Gap[k] = DedupWindow(Pattern(d, k))
        BY <2>0, <4>1 DEF Gap, Pattern
      <4> HIDE DEF d, F
      <4>3. ASSUME delivered[k] # <<>>
            PROVE  d.now - delivered[k][Len(delivered[k])] >= Gap[k]
        <5>1. Len(delivered[k]) \in 1..Len(delivered[k]) /\ delivered[k] \in Seq(Int)
          BY <2>0, <4>1, <4>3, EmptySeq, LenProperties
        <5>2. delivered[k][Len(delivered[k])] \in Int
          BY <5>1, ElementOfSeq
        <5>3. k \in DOMAIN d.dedup /\ delivered[k][Len(delivered[k])] <= d.dedup[k]
          BY <2>0, <4>1, <4>3 DEF LedgerCovers
        <5>4. d.dedup[k] \in Int
          BY <2>0, <5>3 DEF DetectorType
        <5> QED
          BY <2>0, <4>1, <4>2, <5>2, <5>3, <5>4
      <4> QED
        BY <4>3 DEF Alarm!MayFire
    <3>3. delivered' = [k \in Keys |-> IF k \in F THEN Append(delivered[k], d.now)
                                                  ELSE delivered[k]]
      BY <2>1 DEF evaluate_all
    <3>4. Alarm!Fire(F, d.now)
      BY <3>2, <3>3 DEF Alarm!Fire
    <3> HIDE DEF F, d
    <3> QED
      BY <2>0, <3>1, <3>4 DEF Alarm!Next
  <2>2. CASE ~evaluate_all
    BY <1>2, <2>2 DEF Next, vars, advance_clock, ingest_event, EvaluateFails, Crash,
                      CrashInWalk, Restart
  <2> QED
    BY <2>1, <2>2
<1> QED
  BY <1>1, <1>2, InvHolds, PTL DEF Spec, ImplementsFireOnce, Alarm!Spec

-----------------------------------------------------------------------------
(* What the buffers hold.  A bucket that does not exist yet is as good as   *)
(* an empty one, so the invariant speaks about every pattern and mandate.   *)

HoldsNewestArrivals(d, arrivals) ==
  \A k \in (DOMAIN d.library.patterns) \X Mandates :
    HoldsNewest(BufferOf(d, k), arrivals, MatchingPositions(d.library, arrivals, k))

\* A walk, complete or broken off, drops the oldest events only.
LEMMA WalkHoldsNewestArrivals ==
  ASSUME NEW d, DetectorType(d), NEW arrivals \in Seq(Events), HoldsNewestArrivals(d, arrivals),
         NEW walked, NEW marked, NEW c, c = AfterWalk(d, walked, marked)
  PROVE  HoldsNewestArrivals(c, arrivals)
<1>1. c.library = d.library
  BY AfterWalkFields
<1>2. ASSUME NEW k \in (DOMAIN d.library.patterns) \X Mandates
      PROVE  HoldsNewest(BufferOf(c, k), arrivals, MatchingPositions(d.library, arrivals, k))
  BY WalkHoldsNewest DEF HoldsNewestArrivals
<1> QED
  BY <1>1, <1>2 DEF HoldsNewestArrivals

\* A new detector holds nothing.
LEMMA NewHoldsNewestArrivals ==
  ASSUME NEW t, NEW ledger, NEW arrivals
  PROVE  HoldsNewestArrivals(WithLedger(PinnedLibrary, t, ledger), arrivals)
<1> DEFINE n == WithLedger(PinnedLibrary, t, ledger)
<1>1. ASSUME NEW k, NEW positions
      PROVE  HoldsNewest(BufferOf(n, k), arrivals, positions)
  <2>1. DOMAIN n.buffers = {}
    BY DEF WithLedger
  <2>2. BufferOf(n, k) = <<>> /\ Len(<<>>) = 0
    BY <2>1 DEF BufferOf
  <2> DEFINE none == [i \in 1..0 |-> 0]
  <2>3. NewestAt(<<>>, arrivals, positions, none)
    BY EmptyHoldsNewest
  <2>4. none \in [1..0 -> positions]
    OBVIOUS
  <2> HIDE DEF n, none
  <2> QED
    BY <2>2, <2>3, <2>4 DEF HoldsNewest
<1> HIDE DEF n
<1>2. HoldsNewestArrivals(n, arrivals)
  BY <1>1 DEF HoldsNewestArrivals
<1> QED
  BY <1>2 DEF n

\* Whatever late, early and rejected events arrive and however walks, storage and
\* the worker itself fail (ingest_event, evict_aged_events), a bucket holds
\* exactly the newest arrivals that match it.
THEOREM NewestArrivalsHeld == Spec => []BuffersAreNewestArrivals
<1> DEFINE d == detector
           Held == HoldsNewestArrivals(detector, accepted)
<1>1. Init => Held
  <2> SUFFICES ASSUME Init PROVE Held
    OBVIOUS
  <2>1. PICK t \in Times : detector = WithLedger(PinnedLibrary, t, EmptyLedger)
    BY DEF Init, NewDetector
  <2> QED
    BY <2>1, NewHoldsNewestArrivals
<1>2. Inv /\ Held /\ [Next]_vars => Held'
  <2> SUFFICES ASSUME Inv, Held, [Next]_vars PROVE HoldsNewestArrivals(detector', accepted')
    OBVIOUS
  <2>0. DetectorType(d) /\ accepted \in Seq(Events)
    BY DEF Inv, TypeOK
  <2>1. ASSUME NEW t \in Times, advance_clock(t)
        PROVE  HoldsNewestArrivals(detector', accepted')
    <3>1. /\ d = [library |-> d.library, buffers |-> d.buffers, counters |-> d.counters,
                  now |-> d.now, dedup |-> d.dedup]
          /\ detector' = [d EXCEPT !.now = t] /\ accepted' = accepted
      BY <2>0, <2>1 DEF advance_clock, AdvanceClock, DetectorType
    <3>2. detector'.library = d.library /\ detector'.buffers = d.buffers
      BY <3>1
    <3> QED
      BY <3>1, <3>2 DEF HoldsNewestArrivals, BufferOf
  <2>2. ASSUME NEW e \in Events, ingest_event(e)
        PROVE  HoldsNewestArrivals(detector', accepted')
    <3>1. detector' = Ingest(d, e) /\ accepted' = Append(accepted, e)
      BY <2>2 DEF ingest_event
    <3>2. Ingest(d, e).library = d.library
      <4>1. Ingest(d, e) = [library |-> d.library, buffers |-> Ingest(d, e).buffers,
                            counters |-> Ingest(d, e).counters,
                            now |-> d.now, dedup |-> d.dedup]
        BY <2>0, IngestBuckets
      <4> QED
        BY <4>1
    <3>3. ASSUME NEW k \in (DOMAIN d.library.patterns) \X Mandates
          PROVE  HoldsNewest(BufferOf(Ingest(d, e), k), Append(accepted, e),
                             MatchingPositions(d.library, Append(accepted, e), k))
      BY <2>0, IngestHoldsNewest DEF HoldsNewestArrivals
    <3> QED
      BY <3>1, <3>2, <3>3 DEF HoldsNewestArrivals
  <2>3. ASSUME evaluate_all
        PROVE  HoldsNewestArrivals(detector', accepted')
    BY <2>0, <2>3, WalkHoldsNewestArrivals DEF evaluate_all, EvaluateAll
  <2>4. ASSUME NEW f \in Keys, EvaluateFails(f)
        PROVE  HoldsNewestArrivals(detector', accepted')
    <3>1. accepted' = accepted /\ detector' \in {EvaluateFailsAt(d, f), RecordedUpTo(f)}
      BY <2>4 DEF EvaluateFails
    <3>2. HoldsNewestArrivals(EvaluateFailsAt(d, f), accepted)
      BY <2>0, WalkHoldsNewestArrivals DEF EvaluateFailsAt
    <3>3. HoldsNewestArrivals(RecordedUpTo(f), accepted)
      BY <2>0, WalkHoldsNewestArrivals DEF RecordedUpTo
    <3> QED
      BY <3>1, <3>2, <3>3
  <2>5. ASSUME NEW ledger, NEW t, Restart(ledger, t)
        PROVE  HoldsNewestArrivals(detector', accepted')
    BY <2>5, NewHoldsNewestArrivals DEF Restart
  <2>6. ASSUME UNCHANGED vars
        PROVE  HoldsNewestArrivals(detector', accepted')
    BY <2>6 DEF vars
  <2> QED
    BY <2>1, <2>2, <2>3, <2>4, <2>5, <2>6 DEF Next, Crash, CrashInWalk
<1>3. Inv /\ Held => BuffersAreNewestArrivals
  <2> SUFFICES ASSUME Inv, Held, NEW k \in DOMAIN d.buffers
               PROVE  HoldsNewest(d.buffers[k], accepted, Matching(k))
    BY DEF BuffersAreNewestArrivals
  <2>1. d.library = PinnedLibrary /\ k \in (DOMAIN d.library.patterns) \X Mandates
    BY DEF Inv, TypeOK, DetectorType
  <2>2. BufferOf(d, k) = d.buffers[k]
    BY DEF BufferOf
  <2> QED
    BY <2>1, <2>2 DEF HoldsNewestArrivals, Matching
<1> QED
  BY <1>1, <1>2, <1>3, InvHolds, PTL DEF Spec
=============================================================================
