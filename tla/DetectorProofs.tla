--------------------------- MODULE DetectorProofs ---------------------------
(***************************************************************************)
(* Lemmas about the operators of Detector, for every library, event set    *)
(* and bound: what the ring, the eviction, ingestion and a walk preserve,  *)
(* of one detector and of what it holds out of a history of arrivals.      *)
(***************************************************************************)
EXTENDS Detector, SequenceTheorems, WellFoundedInduction, TLAPS

\* The part of s behind its first o elements.
IsSuffix(r, s, o) ==
  /\ o \in 0..Len(s)
  /\ Len(r) = Len(s) - o
  /\ \A i \in 1..Len(r) : r[i] = s[i + o]

\* Every nonempty set of positions has a least one: the front of a buffer
\* after eviction exists.
LEMMA LeastIndex ==
  ASSUME NEW T \in SUBSET Nat, T # {}
  PROVE  \E x \in T : \A y \in T : x <= y
<1>1. PICK x \in T : \A y \in T : ~(<<y, x>> \in OpToRel(<, Nat))
  BY NatLessThanWellFounded, WFMin
<1>2. \A y \in T : ~(y < x)
  BY <1>1 DEF OpToRel
<1> QED
  BY <1>2

\* A suffix cut out with SubSeq.
LEMMA CutIsSuffix ==
  ASSUME NEW S, NEW s \in Seq(S), NEW m \in 1..(Len(s) + 1)
  PROVE  /\ SubSeq(s, m, Len(s)) \in Seq(S)
         /\ IsSuffix(SubSeq(s, m, Len(s)), s, m - 1)
<1>1. Len(s) \in Nat
  BY LenProperties
<1>2. \A i \in m..Len(s) : s[i] \in S
  BY <1>1, ElementOfSeq
<1>3. /\ SubSeq(s, m, Len(s)) \in Seq(S)
      /\ Len(SubSeq(s, m, Len(s))) = IF m <= Len(s) THEN Len(s) - m + 1 ELSE 0
      /\ \A i \in 1..(Len(s) - m + 1) : SubSeq(s, m, Len(s))[i] = s[m + i - 1]
  BY <1>1, <1>2, SubSeqProperties
<1> QED
  BY <1>1, <1>3 DEF IsSuffix

\* RingPush (the push_back / pop_front loop of ingest_event) keeps the newest
\* arrivals and never exceeds the ring cap.
LEMMA RingPushKeepsNewest ==
  ASSUME NEW buffer \in Seq(Events), NEW e \in Events
  PROVE  /\ RingPush(buffer, e) \in Seq(Events)
         /\ Len(RingPush(buffer, e)) <= MAX_EVENTS_PER_BUFFER
         /\ \E o \in Nat : IsSuffix(RingPush(buffer, e), Append(buffer, e), o)
<1> DEFINE pushed == Append(buffer, e)
           over == Len(pushed) - MAX_EVENTS_PER_BUFFER
<1>1. /\ pushed \in Seq(Events)
      /\ Len(pushed) = Len(buffer) + 1
      /\ Len(buffer) \in Nat
  BY AppendProperties, LenProperties
<1>2. CASE over > 0
  <2>1. over + 1 \in 1..(Len(pushed) + 1)
    BY <1>1, <1>2, BoundsTyped
  <2>2. RingPush(buffer, e) = SubSeq(pushed, over + 1, Len(pushed))
    BY <1>2 DEF RingPush
  <2>3. /\ RingPush(buffer, e) \in Seq(Events)
        /\ IsSuffix(RingPush(buffer, e), pushed, (over + 1) - 1)
    <3> HIDE DEF pushed, over
    <3> QED BY <1>1, <2>1, <2>2, CutIsSuffix
  <2>4. (over + 1) - 1 \in Nat /\ Len(RingPush(buffer, e)) <= MAX_EVENTS_PER_BUFFER
    BY <1>1, <1>2, <2>3, BoundsTyped DEF IsSuffix
  <2> QED
    BY <2>3, <2>4
<1>3. CASE ~(over > 0)
  <2>1. RingPush(buffer, e) = pushed
    BY <1>3 DEF RingPush
  <2>2. IsSuffix(pushed, pushed, 0)
    BY <1>1 DEF IsSuffix
  <2> QED
    BY <1>1, <1>3, <2>1, <2>2, BoundsTyped
<1> QED
  BY <1>2, <1>3

\* evict_aged_events drops a prefix of the buffer, and what is left starts with
\* an event inside the window.
LEMMA EvictionDropsPrefix ==
  ASSUME NEW buffer \in Seq(Events), NEW window \in Nat, NEW now \in Int
  PROVE  LET kept == evict_aged_events(buffer, window, now)
         IN  /\ kept \in Seq(Events)
             /\ \E o \in Nat : IsSuffix(kept, buffer, o)
             /\ Len(kept) > 0 => kept[1].timestamp >= now - window
<1> DEFINE live == {i \in DOMAIN buffer : buffer[i].timestamp >= now - window}
           first == CHOOSE i \in live : \A j \in live : i <= j
           kept == evict_aged_events(buffer, window, now)
<1>1. Len(buffer) \in Nat /\ DOMAIN buffer = 1..Len(buffer)
  BY LenProperties
<1>2. CASE live = {}
  <2>1. kept = <<>>
    BY <1>2 DEF evict_aged_events
  <2>2. IsSuffix(<<>>, buffer, Len(buffer))
    BY <1>1 DEF IsSuffix
  <2> QED
    BY <1>1, <2>1, <2>2
<1>3. CASE live # {}
  <2>1. \E i \in live : \A j \in live : i <= j
    <3>1. live \in SUBSET Nat
      BY <1>1
    <3> HIDE DEF live
    <3> QED BY <1>3, <3>1, LeastIndex
  <2>2. first \in live
    <3> HIDE DEF live
    <3> QED BY <2>1
  <2>3. kept = SubSeq(buffer, first, Len(buffer))
    BY <1>3 DEF evict_aged_events
  <2>4. first \in 1..Len(buffer) /\ buffer[first].timestamp >= now - window
    BY <1>1, <2>2
  <2> HIDE DEF first, live, kept
  <2>5. kept \in Seq(Events) /\ IsSuffix(kept, buffer, first - 1)
    BY <1>1, <2>3, <2>4, CutIsSuffix
  <2>6. kept[1] = buffer[first]
    BY <1>1, <2>4, <2>5 DEF IsSuffix
  <2>7. first - 1 \in Nat
    BY <1>1, <2>4
  <2>8. kept \in Seq(Events) /\ (\E o \in Nat : IsSuffix(kept, buffer, o))
          /\ (Len(kept) > 0 => kept[1].timestamp >= now - window)
    BY <2>4, <2>5, <2>6, <2>7
  <2> QED
    BY <2>8 DEF kept
<1> QED
  BY <1>2, <1>3

-----------------------------------------------------------------------------
(* One detector through its operations.                                    *)

\* The buffers are in timestamp order and not ahead of the clock.
Chronological(d) ==
  \A k \in DOMAIN d.buffers :
    /\ \A i, j \in 1..Len(d.buffers[k]) :
         i <= j => d.buffers[k][i].timestamp <= d.buffers[k][j].timestamp
    /\ \A i \in 1..Len(d.buffers[k]) : d.buffers[k][i].timestamp <= d.now

\* The windows that eviction and the dedup ledger use are numbers of seconds.
LEMMA WindowsTyped ==
  ASSUME NEW d, DetectorType(d), NEW p \in DOMAIN d.library.patterns
  PROVE  /\ d.library.patterns[p].window_seconds # NoWindow
              => d.library.patterns[p].window_seconds \in Nat
         /\ DedupWindow(d.library.patterns[p]) \in Nat
BY LibrariesTyped, BoundsTyped DEF DetectorType, DedupWindow, NoWindow

\* DetectorState::with_ledger builds a well-formed detector around any ledger.
LEMMA WithLedgerSound ==
  ASSUME NEW lib \in Libraries, NEW t \in Int, NEW ledger,
         DOMAIN ledger \subseteq Keys, \A k \in DOMAIN ledger : ledger[k] \in Int
  PROVE  LET d == WithLedger(lib, t, ledger)
         IN  DetectorType(d) /\ DetectorBounded(d) /\ Chronological(d)
BY BoundsTyped DEF WithLedger, DetectorType, DetectorBounded, Chronological

\* advance_clock touches nothing but the clock.
LEMMA AdvanceClockSound ==
  ASSUME NEW d, DetectorType(d), DetectorBounded(d), NEW t \in Int
  PROVE  LET c == AdvanceClock(d, t)
         IN  /\ DetectorType(c) /\ DetectorBounded(c)
             /\ c.library = d.library /\ c.dedup = d.dedup /\ c.now = t
             /\ Chronological(d) /\ ~ClockRegresses(d, t) => Chronological(c)
<1> DEFINE c == AdvanceClock(d, t)
<1>1. /\ c = [library |-> c.library, buffers |-> c.buffers, counters |-> c.counters,
              now |-> c.now, dedup |-> c.dedup]
      /\ c.library = d.library /\ c.buffers = d.buffers /\ c.counters = d.counters
      /\ c.dedup = d.dedup /\ c.now = t
  BY DEF AdvanceClock, DetectorType
<1> HIDE DEF c
<1>2. DetectorType(c) /\ DetectorBounded(c)
  BY <1>1 DEF DetectorType, DetectorBounded
<1>3. ASSUME Chronological(d), ~ClockRegresses(d, t), NEW k \in DOMAIN c.buffers,
             NEW i \in 1..Len(c.buffers[k])
      PROVE  c.buffers[k][i].timestamp <= c.now
  <2>1. c.buffers[k][i] \in Events
    BY <1>1, <1>3, ElementOfSeq DEF DetectorType
  <2> QED
    BY <1>1, <1>3, <2>1, EventsTyped DEF Chronological, ClockRegresses, DetectorType
<1>4. Chronological(d) /\ ~ClockRegresses(d, t) => Chronological(c)
  BY <1>1, <1>3 DEF Chronological
<1> QED
  BY <1>1, <1>2, <1>4 DEF c

\* What ingest_event leaves in a bucket: the bucket itself, or its newest
\* arrivals with the event behind them.
LEMMA IngestBuckets ==
  ASSUME NEW d, DetectorType(d), NEW e \in Events
  PROVE  LET c == Ingest(d, e)
         IN  /\ c = [library |-> d.library, buffers |-> c.buffers, counters |-> c.counters,
                     now |-> d.now, dedup |-> d.dedup]
             /\ c.counters = [d.counters EXCEPT ![e.mandate_id] = @ + 1]
             /\ DOMAIN c.buffers = DOMAIN d.buffers \cup RoutedTo(d, e)
             /\ \A k \in RoutedTo(d, e) : c.buffers[k] = RingPush(BufferOf(d, k), e)
             /\ \A k \in DOMAIN d.buffers \ RoutedTo(d, e) : c.buffers[k] = d.buffers[k]
             /\ \A k \in RoutedTo(d, e) : BufferOf(d, k) \in Seq(Events)
<1>1. \A k \in RoutedTo(d, e) : BufferOf(d, k) \in Seq(Events)
  BY DEF BufferOf, DetectorType
<1> DEFINE B == [k \in DOMAIN d.buffers \cup RoutedTo(d, e) |->
                   IF k \in RoutedTo(d, e) THEN RingPush(BufferOf(d, k), e) ELSE d.buffers[k]]
           C == [d.counters EXCEPT ![e.mandate_id] = @ + 1]
<1>2. Ingest(d, e) = [d EXCEPT !.buffers = B, !.counters = C]
  BY Zenon DEF Ingest
<1>3. Ingest(d, e) = [library |-> d.library, buffers |-> B, counters |-> C,
                      now |-> d.now, dedup |-> d.dedup]
  <2> HIDE DEF B, C
  <2>1. d = [library |-> d.library, buffers |-> d.buffers, counters |-> d.counters,
             now |-> d.now, dedup |-> d.dedup]
    BY DEF DetectorType
  <2> QED BY <1>2, <2>1
<1> QED
  BY <1>1, <1>3

\* ingest_event charges the mandate once and keeps every bucket within its bounds.
LEMMA IngestSound ==
  ASSUME NEW d, DetectorType(d), DetectorBounded(d), NEW e \in Events,
         IngestError(d, e) = "accepted"
  PROVE  DetectorType(Ingest(d, e)) /\ DetectorBounded(Ingest(d, e))
<1> DEFINE c == Ingest(d, e)
<1>1. e.mandate_id \in Mandates /\ d.counters \in [Mandates -> Nat]
  BY EventsTyped DEF DetectorType
<1>2. d.counters[e.mandate_id] < MAX_EVENTS_PER_MANDATE
  BY <1>1, BoundsTyped DEF IngestError
<1>3. /\ c = [library |-> d.library, buffers |-> c.buffers, counters |-> c.counters,
              now |-> d.now, dedup |-> d.dedup]
      /\ c.counters = [d.counters EXCEPT ![e.mandate_id] = @ + 1]
      /\ DOMAIN c.buffers = DOMAIN d.buffers \cup RoutedTo(d, e)
      /\ \A k \in RoutedTo(d, e) : c.buffers[k] = RingPush(BufferOf(d, k), e)
      /\ \A k \in DOMAIN d.buffers \ RoutedTo(d, e) : c.buffers[k] = d.buffers[k]
      /\ \A k \in RoutedTo(d, e) : BufferOf(d, k) \in Seq(Events)
  BY IngestBuckets
<1> HIDE DEF c
<1>4. \A k \in RoutedTo(d, e) :
        k \in (DOMAIN d.library.patterns) \X Mandates /\ k[2] = e.mandate_id
  BY <1>1 DEF RoutedTo
<1>5. /\ c.library = d.library /\ c.now = d.now /\ c.dedup = d.dedup
      /\ c.counters \in [Mandates -> Nat]
      /\ \A m \in Mandates : c.counters[m] <= MAX_EVENTS_PER_MANDATE
      /\ \A m \in Mandates : c.counters[m] >= d.counters[m]
      /\ c.counters[e.mandate_id] = d.counters[e.mandate_id] + 1
  BY <1>1, <1>2, <1>3, BoundsTyped DEF DetectorBounded
<1>6. ASSUME NEW k \in DOMAIN c.buffers
      PROVE  /\ c.buffers[k] \in Seq(Events)
             /\ Len(c.buffers[k]) <= MAX_EVENTS_PER_BUFFER
             /\ Len(c.buffers[k]) <= c.counters[k[2]]
  <2>1. CASE k \in RoutedTo(d, e)
    <3>1. /\ RingPush(BufferOf(d, k), e) \in Seq(Events)
          /\ Len(RingPush(BufferOf(d, k), e)) <= MAX_EVENTS_PER_BUFFER
          /\ \E o \in Nat : IsSuffix(RingPush(BufferOf(d, k), e), Append(BufferOf(d, k), e), o)
      BY <1>3, <2>1, RingPushKeepsNewest
    <3>2. /\ Len(Append(BufferOf(d, k), e)) = Len(BufferOf(d, k)) + 1
          /\ Len(BufferOf(d, k)) \in Nat
      BY <1>3, <2>1, AppendProperties, LenProperties
    <3>3. Len(RingPush(BufferOf(d, k), e)) <= Len(BufferOf(d, k)) + 1
      BY <3>1, <3>2 DEF IsSuffix
    <3>4. Len(BufferOf(d, k)) <= d.counters[e.mandate_id]
      BY <1>1, <1>4, <2>1 DEF BufferOf, DetectorBounded
    <3>5. k[2] = e.mandate_id /\ c.buffers[k] = RingPush(BufferOf(d, k), e)
      BY <1>3, <1>4, <2>1
    <3>6. Len(RingPush(BufferOf(d, k), e)) \in Nat /\ d.counters[e.mandate_id] \in Nat
      BY <1>1, <3>1, LenProperties
    <3> QED
      BY <1>5, <3>1, <3>2, <3>3, <3>4, <3>5, <3>6
  <2>2. CASE k \notin RoutedTo(d, e)
    <3>1. k \in DOMAIN d.buffers /\ c.buffers[k] = d.buffers[k] /\ k[2] \in Mandates
      BY <1>3, <2>2 DEF DetectorType
    <3>2. Len(d.buffers[k]) \in Nat /\ d.buffers[k] \in Seq(Events)
      BY <3>1, LenProperties DEF DetectorType
    <3> QED
      BY <1>1, <1>5, <3>1, <3>2 DEF DetectorBounded
  <2> QED
    BY <2>1, <2>2
<1>7. DetectorType(c)
  BY <1>3, <1>4, <1>5, <1>6 DEF DetectorType
<1>8. DetectorBounded(c)
  BY <1>5, <1>6 DEF DetectorBounded
<1> QED
  BY <1>7, <1>8 DEF c

\* A suffix of a chronological sequence is chronological.
LEMMA SuffixChronological ==
  ASSUME NEW s \in Seq(Events), NEW r \in Seq(Events), NEW o \in Nat, IsSuffix(r, s, o),
         NEW now \in Int,
         \A i, j \in 1..Len(s) : i <= j => s[i].timestamp <= s[j].timestamp,
         \A i \in 1..Len(s) : s[i].timestamp <= now
  PROVE  /\ \A i, j \in 1..Len(r) : i <= j => r[i].timestamp <= r[j].timestamp
         /\ \A i \in 1..Len(r) : r[i].timestamp <= now
<1>1. Len(s) \in Nat /\ Len(r) \in Nat
  BY LenProperties
<1>2. \A i \in 1..Len(r) : i + o \in 1..Len(s) /\ r[i] = s[i + o]
  BY <1>1 DEF IsSuffix
<1>3. ASSUME NEW i \in 1..Len(r), NEW j \in 1..Len(r), i <= j
      PROVE  r[i].timestamp <= r[j].timestamp
  <2>1. /\ i + o \in 1..Len(s) /\ j + o \in 1..Len(s) /\ i + o <= j + o
        /\ r[i] = s[i + o] /\ r[j] = s[j + o]
    BY <1>1, <1>2, <1>3
  <2> QED
    BY <2>1
<1> QED
  BY <1>2, <1>3

\* An event stamped at the clock keeps the buffers chronological.
LEMMA IngestChronological ==
  ASSUME NEW d, DetectorType(d), Chronological(d), NEW e \in Events, e.timestamp = d.now
  PROVE  Chronological(Ingest(d, e))
<1> DEFINE c == Ingest(d, e)
<1>1. /\ c = [library |-> d.library, buffers |-> c.buffers, counters |-> c.counters,
              now |-> d.now, dedup |-> d.dedup]
      /\ c.counters = [d.counters EXCEPT ![e.mandate_id] = @ + 1]
      /\ DOMAIN c.buffers = DOMAIN d.buffers \cup RoutedTo(d, e)
      /\ \A k \in RoutedTo(d, e) : c.buffers[k] = RingPush(BufferOf(d, k), e)
      /\ \A k \in DOMAIN d.buffers \ RoutedTo(d, e) : c.buffers[k] = d.buffers[k]
      /\ \A k \in RoutedTo(d, e) : BufferOf(d, k) \in Seq(Events)
  BY IngestBuckets
<1>2. d.now \in Int
  BY DEF DetectorType
<1> HIDE DEF c
<1>3. c.now = d.now
  BY <1>1
<1>4. ASSUME NEW k \in RoutedTo(d, e)
      PROVE  /\ \A i, j \in 1..Len(c.buffers[k]) :
                  i <= j => c.buffers[k][i].timestamp <= c.buffers[k][j].timestamp
             /\ \A i \in 1..Len(c.buffers[k]) : c.buffers[k][i].timestamp <= d.now
  <2> DEFINE b == BufferOf(d, k)
             s == Append(b, e)
  <2>1. b \in Seq(Events)
    BY <1>1
  <2>2. /\ \A i, j \in 1..Len(b) : i <= j => b[i].timestamp <= b[j].timestamp
        /\ \A i \in 1..Len(b) : b[i].timestamp <= d.now
    BY DEF BufferOf, Chronological
  <2> HIDE DEF b
  <2>3. /\ s \in Seq(Events) /\ Len(s) = Len(b) + 1 /\ Len(b) \in Nat
        /\ \A i \in 1..Len(b) : s[i] = b[i]
        /\ s[Len(b) + 1] = e
    BY <2>1, AppendProperties, LenProperties
  <2> HIDE DEF s
  <2>4. /\ \A i, j \in 1..Len(s) : i <= j => s[i].timestamp <= s[j].timestamp
        /\ \A i \in 1..Len(s) : s[i].timestamp <= d.now
    BY <1>2, <2>2, <2>3
  <2>5. /\ RingPush(b, e) \in Seq(Events)
        /\ \E o \in Nat : IsSuffix(RingPush(b, e), s, o)
    BY <2>1, RingPushKeepsNewest DEF s
  <2>6. c.buffers[k] = RingPush(b, e)
    BY <1>1 DEF b
  <2> QED
    BY <1>2, <2>3, <2>4, <2>5, <2>6, SuffixChronological
<1>5. ASSUME NEW k \in DOMAIN d.buffers \ RoutedTo(d, e)
      PROVE  /\ \A i, j \in 1..Len(c.buffers[k]) :
                  i <= j => c.buffers[k][i].timestamp <= c.buffers[k][j].timestamp
             /\ \A i \in 1..Len(c.buffers[k]) : c.buffers[k][i].timestamp <= d.now
  BY <1>1 DEF Chronological
<1>6. Chronological(c)
  BY <1>1, <1>3, <1>4, <1>5 DEF Chronological
<1> QED
  BY <1>6 DEF c

\* What the evaluator of a bucket sees is the newest part of the bucket.
LEMMA EvictedBufferIsSuffix ==
  ASSUME NEW d, DetectorType(d), NEW k \in DOMAIN d.buffers
  PROVE  /\ EvictedBuffer(d, k) \in Seq(Events)
         /\ \E o \in Nat : IsSuffix(EvictedBuffer(d, k), d.buffers[k], o)
         /\ Pattern(d, k).window_seconds # NoWindow /\ Len(EvictedBuffer(d, k)) > 0
              => EvictedBuffer(d, k)[1].timestamp >= d.now - Pattern(d, k).window_seconds
<1>1. d.buffers[k] \in Seq(Events) /\ k[1] \in DOMAIN d.library.patterns /\ d.now \in Int
  BY DEF DetectorType
<1>2. CASE Pattern(d, k).window_seconds = NoWindow
  <2>1. EvictedBuffer(d, k) = d.buffers[k]
    BY <1>2 DEF EvictedBuffer
  <2>2. IsSuffix(d.buffers[k], d.buffers[k], 0)
    BY <1>1, LenProperties DEF IsSuffix
  <2> QED
    BY <1>1, <1>2, <2>1, <2>2
<1>3. CASE Pattern(d, k).window_seconds # NoWindow
  <2>1. Pattern(d, k).window_seconds \in Nat
    BY <1>1, <1>3, WindowsTyped DEF Pattern
  <2>2. EvictedBuffer(d, k)
          = evict_aged_events(d.buffers[k], Pattern(d, k).window_seconds, d.now)
    BY <1>3 DEF EvictedBuffer
  <2> QED
    BY <1>1, <2>1, <2>2, EvictionDropsPrefix
<1> QED
  BY <1>2, <1>3

\* In a chronological buffer, dropping the aged prefix drops every aged event:
\* a windowed evaluator counts live events only.
LEMMA ChronologicalCountsOnlyLive ==
  ASSUME NEW d, DetectorType(d), Chronological(d)
  PROVE  CountsOnlyLive(d)
<1> SUFFICES ASSUME NEW k \in DOMAIN d.buffers, Pattern(d, k).window_seconds # NoWindow,
                    NEW i \in DOMAIN EvictedBuffer(d, k)
             PROVE  /\ EvictedBuffer(d, k)[i].timestamp
                         >= d.now - Pattern(d, k).window_seconds
                    /\ EvictedBuffer(d, k)[i].timestamp <= d.now
  BY DEF CountsOnlyLive
<1> DEFINE r == EvictedBuffer(d, k)
           w == Pattern(d, k).window_seconds
<1>1. /\ r \in Seq(Events)
      /\ \E o \in Nat : IsSuffix(r, d.buffers[k], o)
      /\ Len(r) > 0 => r[1].timestamp >= d.now - w
  BY EvictedBufferIsSuffix
<1>2. d.buffers[k] \in Seq(Events) /\ d.now \in Int /\ w \in Nat
  BY WindowsTyped DEF DetectorType, Pattern
<1> HIDE DEF r, w
<1>3. /\ \A m, n \in 1..Len(r) : m <= n => r[m].timestamp <= r[n].timestamp
      /\ \A m \in 1..Len(r) : r[m].timestamp <= d.now
  BY <1>1, <1>2, SuffixChronological DEF Chronological
<1>4. i \in 1..Len(r) /\ Len(r) \in Nat
  BY <1>1, LenProperties DEF r
<1>5. 1 \in 1..Len(r) /\ Len(r) > 0 /\ r[1] \in Events /\ r[i] \in Events
  BY <1>1, <1>4, ElementOfSeq
<1>6. r[i].timestamp >= d.now - w /\ r[i].timestamp <= d.now
  BY <1>1, <1>2, <1>3, <1>4, <1>5, EventsTyped
<1> QED
  BY <1>6 DEF r, w

\* A walk of evaluate_all, complete or broken off, keeps library, charges and
\* clock, stamps the recorded fires with the clock and cuts buffers to suffixes.
LEMMA AfterWalkFields ==
  ASSUME NEW d, DetectorType(d), NEW walked, NEW marked, NEW c, c = AfterWalk(d, walked, marked)
  PROVE  /\ c = [library |-> c.library, buffers |-> c.buffers, counters |-> c.counters,
                 now |-> c.now, dedup |-> c.dedup]
         /\ c.library = d.library /\ c.now = d.now /\ c.counters = d.counters
         /\ DOMAIN c.dedup = DOMAIN d.dedup \cup marked
         /\ \A k \in marked : c.dedup[k] = d.now
         /\ \A k \in DOMAIN d.dedup \ marked : c.dedup[k] = d.dedup[k]
         /\ DOMAIN c.buffers = DOMAIN d.buffers
         /\ \A k \in DOMAIN d.buffers : c.buffers[k] \in {EvictedBuffer(d, k), d.buffers[k]}
<1> DEFINE B == [k \in DOMAIN d.buffers |->
                   IF k \in walked THEN EvictedBuffer(d, k) ELSE d.buffers[k]]
           D == [k \in DOMAIN d.dedup \cup marked |->
                   IF k \in marked THEN d.now ELSE d.dedup[k]]
<1>1. c = [d EXCEPT !.buffers = B, !.dedup = D]
  BY Zenon DEF AfterWalk
<1>2. c = [library |-> d.library, buffers |-> B, counters |-> d.counters,
           now |-> d.now, dedup |-> D]
  <2> HIDE DEF B, D
  <2>1. d = [library |-> d.library, buffers |-> d.buffers, counters |-> d.counters,
             now |-> d.now, dedup |-> d.dedup]
    BY DEF DetectorType
  <2> QED BY <1>1, <2>1
<1>3. /\ c = [library |-> c.library, buffers |-> c.buffers, counters |-> c.counters,
              now |-> c.now, dedup |-> c.dedup]
      /\ c.library = d.library /\ c.now = d.now /\ c.counters = d.counters
      /\ c.buffers = B /\ c.dedup = D
  <2> HIDE DEF B, D
  <2> QED BY <1>2
<1> QED
  BY <1>3

\* What a walk leaves in a bucket is the newest part of what was there.
LEMMA AfterWalkBuckets ==
  ASSUME NEW d, DetectorType(d), NEW walked, NEW marked, NEW c, c = AfterWalk(d, walked, marked),
         NEW k \in DOMAIN c.buffers
  PROVE  /\ k \in DOMAIN d.buffers
         /\ d.buffers[k] \in Seq(Events)
         /\ c.buffers[k] \in Seq(Events)
         /\ \E o \in Nat : IsSuffix(c.buffers[k], d.buffers[k], o)
<1>1. /\ k \in DOMAIN d.buffers /\ d.buffers[k] \in Seq(Events)
      /\ c.buffers[k] \in {EvictedBuffer(d, k), d.buffers[k]}
  BY AfterWalkFields DEF DetectorType
<1>2. IsSuffix(d.buffers[k], d.buffers[k], 0)
  BY <1>1, LenProperties DEF IsSuffix
<1> QED
  BY <1>1, <1>2, EvictedBufferIsSuffix

\* The detector after a walk is well-formed and within its bounds.
LEMMA AfterWalkSound ==
  ASSUME NEW d, DetectorType(d), DetectorBounded(d),
         NEW walked, NEW marked \in SUBSET Firing(d),
         NEW c, c = AfterWalk(d, walked, marked)
  PROVE  DetectorType(c) /\ DetectorBounded(c)
<1>1. /\ c = [library |-> c.library, buffers |-> c.buffers, counters |-> c.counters,
              now |-> c.now, dedup |-> c.dedup]
      /\ c.library = d.library /\ c.now = d.now /\ c.counters = d.counters
  BY AfterWalkFields
<1>2. /\ DOMAIN c.dedup = DOMAIN d.dedup \cup marked
      /\ \A k \in marked : c.dedup[k] = d.now
      /\ \A k \in DOMAIN d.dedup \ marked : c.dedup[k] = d.dedup[k]
  BY AfterWalkFields
<1>3. \A k \in DOMAIN c.buffers :
        /\ k \in DOMAIN d.buffers
        /\ d.buffers[k] \in Seq(Events)
        /\ c.buffers[k] \in Seq(Events)
        /\ \E o \in Nat : IsSuffix(c.buffers[k], d.buffers[k], o)
  BY AfterWalkBuckets
<1>4. marked \subseteq Keys
  BY LibrariesTyped DEF Firing, DetectorType, Keys
<1>5. DOMAIN c.dedup \subseteq Keys /\ \A k \in DOMAIN c.dedup : c.dedup[k] \in Int
  BY <1>2, <1>4 DEF DetectorType
<1>6. DetectorType(c)
  BY <1>1, <1>3, <1>5 DEF DetectorType
<1>7. DetectorBounded(c)
  <2>1. ASSUME NEW k \in DOMAIN c.buffers
        PROVE  /\ Len(c.buffers[k]) \in Nat /\ Len(d.buffers[k]) \in Nat
               /\ Len(c.buffers[k]) <= Len(d.buffers[k])
    BY <1>3, LenProperties DEF IsSuffix
  <2>2. \A k \in DOMAIN d.buffers : d.counters[k[2]] \in Nat
    BY DEF DetectorType
  <2> QED BY <1>1, <1>3, <2>1, <2>2, BoundsTyped DEF DetectorBounded
<1> QED
  BY <1>6, <1>7

\* A walk keeps chronological buffers chronological.
LEMMA AfterWalkChronological ==
  ASSUME NEW d, DetectorType(d), Chronological(d), NEW walked, NEW marked,
         NEW c, c = AfterWalk(d, walked, marked)
  PROVE  Chronological(c)
<1>1. d.now \in Int /\ c.now = d.now
  BY AfterWalkFields DEF DetectorType
<1>2. ASSUME NEW k \in DOMAIN c.buffers
      PROVE  /\ \A i, j \in 1..Len(c.buffers[k]) :
                  i <= j => c.buffers[k][i].timestamp <= c.buffers[k][j].timestamp
             /\ \A i \in 1..Len(c.buffers[k]) : c.buffers[k][i].timestamp <= d.now
  <2>1. /\ k \in DOMAIN d.buffers
        /\ d.buffers[k] \in Seq(Events)
        /\ c.buffers[k] \in Seq(Events)
        /\ \E o \in Nat : IsSuffix(c.buffers[k], d.buffers[k], o)
    BY AfterWalkBuckets
  <2> QED BY <1>1, <2>1, SuffixChronological DEF Chronological
<1> QED
  BY <1>1, <1>2 DEF Chronological

-----------------------------------------------------------------------------
(* The buffers against the history of arrivals.                             *)

\* An empty buffer holds nothing, so it holds the newest.
LEMMA EmptyHoldsNewest ==
  ASSUME NEW arrivals, NEW positions
  PROVE  NewestAt(<<>>, arrivals, positions, [i \in 1..0 |-> 0])
BY DEF NewestAt

\* The events of r stand where those of s stood, o places further on.
ShiftedPlaces(r, o, arrivals, positions, place) ==
  \E rest \in [1..Len(r) -> positions] :
    /\ \A i \in 1..Len(r) : rest[i] = place[i + o]
    /\ NewestAt(r, arrivals, positions, rest)

\* What is left of a buffer after its oldest o events were dropped.
LEMMA SuffixNewest ==
  ASSUME NEW s \in Seq(Events), NEW r \in Seq(Events), NEW o \in Nat, IsSuffix(r, s, o),
         NEW arrivals, NEW positions \in SUBSET Int,
         NEW place \in [1..Len(s) -> positions], NewestAt(s, arrivals, positions, place)
  PROVE  ShiftedPlaces(r, o, arrivals, positions, place)
<1> DEFINE rest == [i \in 1..Len(r) |-> place[i + o]]
<1>1. Len(s) \in Nat /\ Len(r) \in Nat /\ o \in 0..Len(s) /\ Len(r) = Len(s) - o
  BY LenProperties DEF IsSuffix
<1>2. \A i \in 1..Len(r) : i + o \in 1..Len(s) /\ r[i] = s[i + o] /\ rest[i] = place[i + o]
  BY <1>1 DEF IsSuffix
<1> HIDE DEF rest
<1>3. rest \in [1..Len(r) -> positions]
  BY <1>2 DEF rest
<1>4. \A i \in 1..Len(r) : r[i] = arrivals[rest[i]]
  BY <1>2 DEF NewestAt
<1>5. \A i, j \in 1..Len(r) : i < j => rest[i] < rest[j]
  <2> SUFFICES ASSUME NEW i \in 1..Len(r), NEW j \in 1..Len(r), i < j
               PROVE  rest[i] < rest[j]
    OBVIOUS
  <2>1. i + o \in 1..Len(s) /\ j + o \in 1..Len(s) /\ i + o < j + o
    BY <1>1, <1>2
  <2> QED
    BY <1>2, <2>1 DEF NewestAt
<1>6. ASSUME NEW p \in positions
      PROVE  (\E i \in 1..Len(r) : rest[i] = p) \/ (\A i \in 1..Len(r) : p < rest[i])
  <2>1. CASE \A i \in 1..Len(s) : p < place[i]
    BY <1>2, <2>1
  <2>2. CASE \E i \in 1..Len(s) : place[i] = p
    <3>1. PICK i \in 1..Len(s) : place[i] = p
      BY <2>2
    <3>2. CASE i > o
      <4>1. i - o \in 1..Len(r) /\ (i - o) + o = i
        BY <1>1, <3>1, <3>2
      <4> QED
        BY <1>2, <3>1, <4>1
    <3>3. CASE i <= o
      <4>1. \A j \in 1..Len(r) : i < j + o /\ j + o \in 1..Len(s)
        BY <1>1, <3>1, <3>3
      <4> QED
        BY <1>2, <3>1, <4>1 DEF NewestAt
    <3> QED
      BY <1>1, <3>2, <3>3
  <2> QED
    BY <2>1, <2>2 DEF NewestAt
<1>7. NewestAt(r, arrivals, positions, rest)
  BY <1>4, <1>5, <1>6 DEF NewestAt
<1> QED
  BY <1>2, <1>3, <1>7 DEF ShiftedPlaces

\* A new arrival that matches goes behind the buffer.
LEMMA AppendNewest ==
  ASSUME NEW b \in Seq(Events), NEW a \in Seq(Events), NEW e \in Events,
         NEW positions \in SUBSET (1..Len(a)),
         NEW place \in [1..Len(b) -> positions], NewestAt(b, a, positions, place)
  PROVE  \E longer \in [1..Len(Append(b, e)) -> positions \cup {Len(a) + 1}] :
           /\ \A i \in 1..Len(b) : longer[i] = place[i]
           /\ longer[Len(b) + 1] = Len(a) + 1
           /\ NewestAt(Append(b, e), Append(a, e), positions \cup {Len(a) + 1}, longer)
<1> DEFINE more == positions \cup {Len(a) + 1}
           longer == [i \in 1..(Len(b) + 1) |-> IF i <= Len(b) THEN place[i] ELSE Len(a) + 1]
           bb == Append(b, e)
           aa == Append(a, e)
<1>1. /\ Len(b) \in Nat /\ Len(a) \in Nat
      /\ Len(bb) = Len(b) + 1 /\ bb[Len(b) + 1] = e /\ \A i \in 1..Len(b) : bb[i] = b[i]
      /\ aa[Len(a) + 1] = e /\ \A i \in 1..Len(a) : aa[i] = a[i]
  BY LenProperties, AppendProperties
<1>2. /\ \A i \in 1..Len(b) : longer[i] = place[i] /\ place[i] \in positions /\ place[i] \in 1..Len(a)
      /\ longer[Len(b) + 1] = Len(a) + 1
  <2>1. \A i \in 1..Len(b) : place[i] \in positions
    OBVIOUS
  <2>2. \A i \in 1..Len(b) : longer[i] = place[i]
    BY <1>1
  <2>3. longer[Len(b) + 1] = Len(a) + 1
    BY <1>1
  <2> QED
    BY <2>1, <2>2, <2>3
<1>3. \A i \in 1..(Len(b) + 1) : i \in 1..Len(b) \/ i = Len(b) + 1
  BY <1>1
<1> HIDE DEF bb, aa, longer
<1>4. longer \in [1..Len(bb) -> more]
  BY <1>1, <1>2, <1>3 DEF longer
<1>5. \A i \in 1..Len(bb) : bb[i] = aa[longer[i]]
  <2>1. ASSUME NEW i \in 1..Len(b)
        PROVE  bb[i] = aa[longer[i]]
    <3>1. b[i] = a[place[i]]
      BY DEF NewestAt
    <3>2. longer[i] = place[i] /\ place[i] \in 1..Len(a)
      BY <1>2
    <3> QED
      BY <1>1, <3>1, <3>2
  <2> QED
    BY <1>1, <1>2, <1>3, <2>1
<1>6. \A i, j \in 1..Len(bb) : i < j => longer[i] < longer[j]
  <2> SUFFICES ASSUME NEW i \in 1..(Len(b) + 1), NEW j \in 1..(Len(b) + 1), i < j
               PROVE  longer[i] < longer[j]
    BY <1>1
  <2>1. i \in 1..Len(b)
    BY <1>1
  <2>2. CASE j \in 1..Len(b)
    BY <1>2, <2>1, <2>2 DEF NewestAt
  <2>3. CASE j = Len(b) + 1
    <3>1. longer[i] \in 1..Len(a) /\ longer[j] = Len(a) + 1
      BY <1>2, <2>1, <2>3
    <3> QED
      BY <1>1, <3>1
  <2> QED
    BY <1>3, <2>2, <2>3
<1>7. ASSUME NEW p \in more
      PROVE  (\E i \in 1..Len(bb) : longer[i] = p) \/ (\A i \in 1..Len(bb) : p < longer[i])
  <2>1. CASE p = Len(a) + 1
    <3>1. Len(b) + 1 \in 1..Len(bb) /\ longer[Len(b) + 1] = p
      BY <1>1, <1>2, <2>1
    <3> QED
      BY <3>1
  <2>2. CASE p \in positions /\ \E i \in 1..Len(b) : place[i] = p
    <3>1. PICK i \in 1..Len(b) : place[i] = p
      BY <2>2
    <3>2. i \in 1..Len(bb) /\ longer[i] = p
      BY <1>1, <1>2, <3>1
    <3> QED
      BY <3>2
  <2>3. CASE p \in positions /\ \A i \in 1..Len(b) : p < place[i]
    BY <1>1, <1>2, <1>3, <2>3
  <2> QED
    BY <2>1, <2>2, <2>3 DEF NewestAt
<1>8. NewestAt(bb, aa, more, longer)
  BY <1>5, <1>6, <1>7 DEF NewestAt
<1> QED
  BY <1>2, <1>4, <1>8 DEF bb, aa

\* A new arrival that does not match leaves the buffer and its places alone.
LEMMA OtherNewest ==
  ASSUME NEW b, NEW a \in Seq(Events), NEW e \in Events,
         NEW positions \in SUBSET (1..Len(a)),
         NEW place \in [1..Len(b) -> positions], NewestAt(b, a, positions, place)
  PROVE  NewestAt(b, Append(a, e), positions, place)
<1>1. \A i \in 1..Len(b) : place[i] \in 1..Len(a)
  OBVIOUS
<1>2. \A i \in 1..Len(a) : Append(a, e)[i] = a[i]
  BY AppendProperties
<1> QED
  BY <1>1, <1>2 DEF NewestAt

\* Which positions match after one more arrival.
LEMMA MatchingAfterArrival ==
  ASSUME NEW lib, NEW a \in Seq(Events), NEW e \in Events, NEW k
  PROVE  /\ MatchingPositions(lib, a, k) \in SUBSET (1..Len(a))
         /\ MatchingPositions(lib, Append(a, e), k)
              = IF e.mandate_id = k[2] /\ ScopeMatches(lib.patterns[k[1]].scope, e)
                  THEN MatchingPositions(lib, a, k) \cup {Len(a) + 1}
                  ELSE MatchingPositions(lib, a, k)
<1>1. /\ Len(a) \in Nat /\ DOMAIN a = 1..Len(a)
      /\ DOMAIN Append(a, e) = 1..(Len(a) + 1)
      /\ \A i \in 1..Len(a) : Append(a, e)[i] = a[i]
      /\ Append(a, e)[Len(a) + 1] = e
  BY LenProperties, AppendProperties
<1>2. 1..(Len(a) + 1) = (1..Len(a)) \cup {Len(a) + 1}
  BY <1>1
<1> QED
  BY <1>1, <1>2 DEF MatchingPositions

\* An event is routed to a bucket exactly if it matches it.
LEMMA RoutedIffMatching ==
  ASSUME NEW d, DetectorType(d), NEW e, NEW k \in (DOMAIN d.library.patterns) \X Mandates
  PROVE  k \in RoutedTo(d, e)
           <=> e.mandate_id = k[2] /\ ScopeMatches(d.library.patterns[k[1]].scope, e)
BY DEF RoutedTo, Pattern

\* The buffers ingestion leaves behind, one bucket at a time.
LEMMA BufferAfterIngest ==
  ASSUME NEW d, DetectorType(d), NEW e \in Events,
         NEW k \in (DOMAIN d.library.patterns) \X Mandates
  PROVE  /\ BufferOf(d, k) \in Seq(Events)
         /\ BufferOf(Ingest(d, e), k)
              = IF k \in RoutedTo(d, e) THEN RingPush(BufferOf(d, k), e) ELSE BufferOf(d, k)
<1> DEFINE c == Ingest(d, e)
<1>1. /\ c = [library |-> d.library, buffers |-> c.buffers, counters |-> c.counters,
              now |-> d.now, dedup |-> d.dedup]
      /\ c.counters = [d.counters EXCEPT ![e.mandate_id] = @ + 1]
      /\ DOMAIN c.buffers = DOMAIN d.buffers \cup RoutedTo(d, e)
      /\ \A j \in RoutedTo(d, e) : c.buffers[j] = RingPush(BufferOf(d, j), e)
      /\ \A j \in DOMAIN d.buffers \ RoutedTo(d, e) : c.buffers[j] = d.buffers[j]
      /\ \A j \in RoutedTo(d, e) : BufferOf(d, j) \in Seq(Events)
  BY IngestBuckets
<1>2. BufferOf(d, k) \in Seq(Events)
  BY DEF BufferOf, DetectorType
<1> HIDE DEF c
<1>3. BufferOf(c, k) = IF k \in RoutedTo(d, e) THEN RingPush(BufferOf(d, k), e) ELSE BufferOf(d, k)
  BY <1>1 DEF BufferOf
<1> QED
  BY <1>2, <1>3 DEF c

\* A walk leaves the newest part of every bucket.
LEMMA BufferAfterWalk ==
  ASSUME NEW d, DetectorType(d), NEW walked, NEW marked, NEW c, c = AfterWalk(d, walked, marked),
         NEW k \in (DOMAIN d.library.patterns) \X Mandates
  PROVE  /\ BufferOf(d, k) \in Seq(Events)
         /\ BufferOf(c, k) \in Seq(Events)
         /\ \E o \in Nat : IsSuffix(BufferOf(c, k), BufferOf(d, k), o)
<1>1. DOMAIN c.buffers = DOMAIN d.buffers
  BY AfterWalkFields
<1>2. CASE k \in DOMAIN c.buffers
  BY <1>1, <1>2, AfterWalkBuckets DEF BufferOf
<1>3. CASE k \notin DOMAIN c.buffers
  <2>1. BufferOf(d, k) = <<>> /\ BufferOf(c, k) = <<>>
    BY <1>1, <1>3 DEF BufferOf
  <2>2. IsSuffix(<<>>, <<>>, 0)
    BY DEF IsSuffix
  <2> QED
    BY <2>1, <2>2
<1> QED
  BY <1>2, <1>3

\* Dropping the oldest events leaves the newest.
LEMMA SuffixHoldsNewest ==
  ASSUME NEW s \in Seq(Events), NEW r \in Seq(Events), NEW o \in Nat, IsSuffix(r, s, o),
         NEW arrivals, NEW positions \in SUBSET Int, HoldsNewest(s, arrivals, positions)
  PROVE  HoldsNewest(r, arrivals, positions)
<1>1. PICK place \in [1..Len(s) -> positions] : NewestAt(s, arrivals, positions, place)
  BY DEF HoldsNewest
<1>2. ShiftedPlaces(r, o, arrivals, positions, place)
  BY <1>1, SuffixNewest
<1> QED
  BY <1>2 DEF HoldsNewest, ShiftedPlaces

\* ingest_event keeps the newest arrivals in every bucket.
LEMMA IngestHoldsNewest ==
  ASSUME NEW d, DetectorType(d), NEW a \in Seq(Events), NEW e \in Events,
         NEW k \in (DOMAIN d.library.patterns) \X Mandates,
         HoldsNewest(BufferOf(d, k), a, MatchingPositions(d.library, a, k))
  PROVE  HoldsNewest(BufferOf(Ingest(d, e), k), Append(a, e),
                     MatchingPositions(d.library, Append(a, e), k))
<1> DEFINE b == BufferOf(d, k)
           positions == MatchingPositions(d.library, a, k)
<1>1. PICK place \in [1..Len(b) -> positions] : NewestAt(b, a, positions, place)
  BY DEF HoldsNewest
<1>2. /\ b \in Seq(Events)
      /\ BufferOf(Ingest(d, e), k) = IF k \in RoutedTo(d, e) THEN RingPush(b, e) ELSE b
      /\ positions \in SUBSET (1..Len(a))
      /\ MatchingPositions(d.library, Append(a, e), k)
           = IF k \in RoutedTo(d, e) THEN positions \cup {Len(a) + 1} ELSE positions
  <2>1. /\ b \in Seq(Events)
        /\ BufferOf(Ingest(d, e), k) = IF k \in RoutedTo(d, e) THEN RingPush(b, e) ELSE b
    BY BufferAfterIngest
  <2>2. k \in RoutedTo(d, e)
          <=> e.mandate_id = k[2] /\ ScopeMatches(d.library.patterns[k[1]].scope, e)
    BY RoutedIffMatching
  <2>3. /\ positions \in SUBSET (1..Len(a))
        /\ MatchingPositions(d.library, Append(a, e), k)
             = IF e.mandate_id = k[2] /\ ScopeMatches(d.library.patterns[k[1]].scope, e)
                 THEN positions \cup {Len(a) + 1} ELSE positions
    BY MatchingAfterArrival
  <2> QED
    BY <2>1, <2>2, <2>3
<1> HIDE DEF b, positions
<1>3. CASE k \in RoutedTo(d, e)
  <2> DEFINE more == positions \cup {Len(a) + 1}
  <2>1. \E longer \in [1..Len(Append(b, e)) -> more] :
          NewestAt(Append(b, e), Append(a, e), more, longer)
    BY <1>1, <1>2, AppendNewest
  <2>2. HoldsNewest(Append(b, e), Append(a, e), more)
    BY <2>1 DEF HoldsNewest
  <2>3. /\ RingPush(b, e) \in Seq(Events) /\ Append(b, e) \in Seq(Events)
        /\ \E o \in Nat : IsSuffix(RingPush(b, e), Append(b, e), o)
    BY <1>2, RingPushKeepsNewest, AppendProperties
  <2>4. more \in SUBSET Int
    <3>1. Len(a) \in Nat
      BY LenProperties
    <3>2. \A p \in 1..Len(a) : p \in Int
      BY <3>1
    <3>3. Len(a) + 1 \in Int
      BY <3>1
    <3> QED
      BY <1>2, <3>2, <3>3
  <2> HIDE DEF more
  <2>5. HoldsNewest(RingPush(b, e), Append(a, e), more)
    BY <2>2, <2>3, <2>4, SuffixHoldsNewest
  <2> QED
    BY <1>2, <1>3, <2>5 DEF more
<1>4. CASE k \notin RoutedTo(d, e)
  BY <1>1, <1>2, <1>4, OtherNewest DEF HoldsNewest
<1> QED
  BY <1>3, <1>4

\* evaluate_all keeps the newest arrivals in every bucket.
LEMMA WalkHoldsNewest ==
  ASSUME NEW d, DetectorType(d), NEW walked, NEW marked, NEW c, c = AfterWalk(d, walked, marked),
         NEW a \in Seq(Events), NEW k \in (DOMAIN d.library.patterns) \X Mandates,
         HoldsNewest(BufferOf(d, k), a, MatchingPositions(d.library, a, k))
  PROVE  HoldsNewest(BufferOf(c, k), a, MatchingPositions(d.library, a, k))
<1>1. MatchingPositions(d.library, a, k) \in SUBSET Int
  BY LenProperties DEF MatchingPositions
<1> QED
  BY <1>1, BufferAfterWalk, SuffixHoldsNewest

-----------------------------------------------------------------------------
(* What a buffer may be missing without an evaluator being able to tell:    *)
(* events outside the window, and whatever came before a full ring.         *)

Aged(d, k, e) ==
  /\ Pattern(d, k).window_seconds # NoWindow
  /\ e.timestamp < d.now - Pattern(d, k).window_seconds

Keeps(d, buffer, arrivals, k) ==
  \E place \in [1..Len(buffer) -> MatchingPositions(d.library, arrivals, k)] :
    /\ NewestAt(buffer, arrivals, MatchingPositions(d.library, arrivals, k), place)
    /\ \A p \in MatchingPositions(d.library, arrivals, k) :
         \/ \E i \in 1..Len(buffer) : place[i] = p
         \/ Len(buffer) = MAX_EVENTS_PER_BUFFER
         \/ Aged(d, k, arrivals[p])

\* The arrivals came in the order of their timestamps and are not ahead of the clock.
InOrder(d, arrivals) ==
  /\ \A i, j \in 1..Len(arrivals) : i <= j => arrivals[i].timestamp <= arrivals[j].timestamp
  /\ \A i \in 1..Len(arrivals) : arrivals[i].timestamp <= d.now

Lossless(d, arrivals) ==
  /\ InOrder(d, arrivals)
  /\ \A k \in (DOMAIN d.library.patterns) \X Mandates : Keeps(d, BufferOf(d, k), arrivals, k)

\* What is older than an aged event is aged.
LEMMA OlderIsAged ==
  ASSUME NEW d, DetectorType(d), NEW k \in (DOMAIN d.library.patterns) \X Mandates,
         NEW e \in Events, NEW f \in Events, f.timestamp <= e.timestamp, Aged(d, k, e)
  PROVE  Aged(d, k, f)
<1> DEFINE w == Pattern(d, k).window_seconds
<1>1. w # NoWindow => w \in Nat
  BY WindowsTyped DEF Pattern
<1>2. d.now \in Int /\ e.timestamp \in Int /\ f.timestamp \in Int
  BY EventsTyped DEF DetectorType
<1>3. w # NoWindow /\ e.timestamp < d.now - w
  BY DEF Aged
<1> HIDE DEF w
<1>4. f.timestamp < d.now - w
  BY <1>1, <1>2, <1>3
<1> QED
  BY <1>3, <1>4 DEF Aged, w

\* Eviction drops aged events only.
LEMMA EvictionDropsAged ==
  ASSUME NEW buffer \in Seq(Events), NEW window \in Nat, NEW now \in Int
  PROVE  \E o \in Nat :
           /\ IsSuffix(evict_aged_events(buffer, window, now), buffer, o)
           /\ \A i \in 1..o : i \in 1..Len(buffer) /\ buffer[i].timestamp < now - window
<1> DEFINE live == {i \in DOMAIN buffer : buffer[i].timestamp >= now - window}
           first == CHOOSE i \in live : \A j \in live : i <= j
           kept == evict_aged_events(buffer, window, now)
<1>1. Len(buffer) \in Nat /\ DOMAIN buffer = 1..Len(buffer)
  BY LenProperties
<1>2. ASSUME NEW i \in 1..Len(buffer), i \notin live
      PROVE  buffer[i].timestamp < now - window
  <2>1. buffer[i].timestamp \in Int /\ now - window \in Int
    BY EventsTyped, ElementOfSeq
  <2>2. ~(buffer[i].timestamp >= now - window)
    BY <1>1, <1>2
  <2> QED
    BY <2>1, <2>2
<1>3. CASE live = {}
  <2>1. kept = <<>>
    BY <1>3 DEF evict_aged_events
  <2>2. IsSuffix(<<>>, buffer, Len(buffer))
    BY <1>1 DEF IsSuffix
  <2> HIDE DEF live, kept
  <2>3. \A i \in 1..Len(buffer) : buffer[i].timestamp < now - window
    BY <1>2, <1>3
  <2> QED
    BY <1>1, <2>1, <2>2, <2>3 DEF kept
<1>4. CASE live # {}
  <2>1. live \in SUBSET Nat
    BY <1>1
  <2>2. kept = SubSeq(buffer, first, Len(buffer))
    BY <1>4 DEF evict_aged_events
  <2> HIDE DEF live, kept
  <2>3. first \in live /\ \A j \in live : first <= j
    BY <1>4, <2>1, LeastIndex
  <2>4. first \in 1..Len(buffer)
    BY <1>1, <2>3 DEF live
  <2> HIDE DEF first
  <2>5. IsSuffix(kept, buffer, first - 1)
    BY <1>1, <2>2, <2>4, CutIsSuffix
  <2>6. \A i \in 1..(first - 1) : i \in 1..Len(buffer) /\ ~(first <= i)
    BY <1>1, <2>4
  <2>7. \A i \in 1..(first - 1) : i \in 1..Len(buffer) /\ buffer[i].timestamp < now - window
    BY <1>2, <2>3, <2>6
  <2>8. first - 1 \in Nat
    BY <1>1, <2>4
  <2> QED
    BY <2>5, <2>7, <2>8 DEF kept
<1> QED
  BY <1>3, <1>4

\* What the evaluator of a bucket does not get to see of it is aged.
LEMMA EvictedBufferMissesAged ==
  ASSUME NEW d, DetectorType(d), NEW k \in DOMAIN d.buffers
  PROVE  \E o \in Nat : /\ IsSuffix(EvictedBuffer(d, k), d.buffers[k], o)
                        /\ \A i \in 1..o : /\ i \in 1..Len(d.buffers[k])
                                           /\ Aged(d, k, d.buffers[k][i])
<1>1. d.buffers[k] \in Seq(Events) /\ k[1] \in DOMAIN d.library.patterns /\ d.now \in Int
  BY DEF DetectorType
<1>2. CASE Pattern(d, k).window_seconds = NoWindow
  <2>1. EvictedBuffer(d, k) = d.buffers[k]
    BY <1>2 DEF EvictedBuffer
  <2>2. IsSuffix(d.buffers[k], d.buffers[k], 0) /\ 0 \in Nat /\ 1..0 = {}
    BY <1>1, LenProperties DEF IsSuffix
  <2> QED
    BY <2>1, <2>2
<1>3. CASE Pattern(d, k).window_seconds # NoWindow
  <2> DEFINE w == Pattern(d, k).window_seconds
  <2>1. w \in Nat
    BY <1>1, <1>3, WindowsTyped DEF Pattern
  <2>2. EvictedBuffer(d, k) = evict_aged_events(d.buffers[k], w, d.now)
    BY <1>3 DEF EvictedBuffer
  <2> HIDE DEF w
  <2>3. PICK o \in Nat :
          /\ IsSuffix(EvictedBuffer(d, k), d.buffers[k], o)
          /\ \A i \in 1..o : /\ i \in 1..Len(d.buffers[k])
                            /\ d.buffers[k][i].timestamp < d.now - w
    BY <1>1, <2>1, <2>2, EvictionDropsAged
  <2>4. \A i \in 1..o : Aged(d, k, d.buffers[k][i])
    BY <1>3, <2>3 DEF Aged, w
  <2> QED
    BY <2>3, <2>4
<1> QED
  BY <1>2, <1>3

\* Dropping aged events from the front loses nothing that counts: whatever was
\* missing before came even earlier.
LEMMA EvictionKeeps ==
  ASSUME NEW d, DetectorType(d), NEW a \in Seq(Events), InOrder(d, a),
         NEW k \in (DOMAIN d.library.patterns) \X Mandates,
         NEW s \in Seq(Events), NEW r \in Seq(Events), NEW o \in Nat, IsSuffix(r, s, o),
         \A i \in 1..o : i \in 1..Len(s) /\ Aged(d, k, s[i]),
         Keeps(d, s, a, k)
  PROVE  Keeps(d, r, a, k)
<1> DEFINE positions == MatchingPositions(d.library, a, k)
<1>0. positions \in SUBSET (1..Len(a)) /\ positions \in SUBSET Int
  <2>1. Len(a) \in Nat /\ DOMAIN a = 1..Len(a)
    BY LenProperties
  <2> QED
    BY <2>1 DEF MatchingPositions
<1>1. PICK place \in [1..Len(s) -> positions] :
        /\ NewestAt(s, a, positions, place)
        /\ \A p \in positions : \/ \E i \in 1..Len(s) : place[i] = p
                               \/ Len(s) = MAX_EVENTS_PER_BUFFER
                               \/ Aged(d, k, a[p])
  BY DEF Keeps
<1> HIDE DEF positions
<1>2. ShiftedPlaces(r, o, a, positions, place)
  BY <1>0, <1>1, SuffixNewest
<1>3. PICK rest \in [1..Len(r) -> positions] :
        /\ \A i \in 1..Len(r) : rest[i] = place[i + o]
        /\ NewestAt(r, a, positions, rest)
  BY <1>2 DEF ShiftedPlaces
<1>4. Len(s) \in Nat /\ Len(r) \in Nat /\ o \in 0..Len(s) /\ Len(r) = Len(s) - o
  BY LenProperties DEF IsSuffix
<1>5. ASSUME NEW p \in positions
      PROVE  \/ \E i \in 1..Len(r) : rest[i] = p
             \/ Len(r) = MAX_EVENTS_PER_BUFFER
             \/ Aged(d, k, a[p])
  <2>1. a[p] \in Events
    BY <1>0, ElementOfSeq
  <2>2. CASE \E i \in 1..Len(s) : place[i] = p
    <3>1. PICK i \in 1..Len(s) : place[i] = p
      BY <2>2
    <3>2. CASE i <= o
      <4>1. i \in 1..o /\ s[i] = a[place[i]]
        BY <1>1, <1>4, <3>1, <3>2 DEF NewestAt
      <4>2. s[i] = a[p]
        BY <3>1, <4>1
      <4>3. Aged(d, k, s[i])
        BY <4>1
      <4> QED
        BY <4>2, <4>3, Zenon
    <3>3. CASE i > o
      <4>1. i - o \in 1..Len(r) /\ (i - o) + o = i
        BY <1>4, <3>1, <3>3
      <4> QED
        BY <1>3, <3>1, <4>1
    <3>4. i <= o \/ i > o
      BY <1>4
    <3> QED
      BY <3>2, <3>3, <3>4, Zenon
  <2>3. CASE o = 0 /\ Len(s) = MAX_EVENTS_PER_BUFFER
    BY <1>4, <2>3
  <2>4. CASE o # 0 /\ ~\E i \in 1..Len(s) : place[i] = p
    <3>1. 1 \in 1..o /\ 1 \in 1..Len(s)
      BY <1>4, <2>4
    <3>2. p < place[1] /\ s[1] = a[place[1]]
      BY <1>1, <2>4, <3>1 DEF NewestAt
    <3>3. place[1] \in positions
      BY <1>1, <3>1
    <3>4. p \in 1..Len(a) /\ place[1] \in 1..Len(a) /\ p <= place[1]
      <4>1. p \in 1..Len(a) /\ place[1] \in 1..Len(a)
        BY <1>0, <3>3
      <4>2. Len(a) \in Nat
        BY LenProperties
      <4> QED
        BY <3>2, <4>1, <4>2
    <3>5. a[p].timestamp <= a[place[1]].timestamp /\ a[place[1]] \in Events
      BY <3>4, ElementOfSeq DEF InOrder
    <3>6. Aged(d, k, a[place[1]])
      BY <3>1, <3>2
    <3> QED
      BY <2>1, <3>5, <3>6, OlderIsAged
  <2> QED
    BY <1>1, <2>2, <2>3, <2>4
<1>6. Keeps(d, r, a, k)
  BY <1>3, <1>5 DEF Keeps, positions
<1> QED
  BY <1>6

\* The ring makes room only when it is full.
LEMMA RingPushFull ==
  ASSUME NEW buffer \in Seq(Events), NEW e \in Events
  PROVE  RingPush(buffer, e) = Append(buffer, e) \/ Len(RingPush(buffer, e)) = MAX_EVENTS_PER_BUFFER
<1> DEFINE pushed == Append(buffer, e)
           over == Len(pushed) - MAX_EVENTS_PER_BUFFER
<1>1. /\ pushed \in Seq(Events) /\ Len(pushed) = Len(buffer) + 1 /\ Len(buffer) \in Nat
  BY AppendProperties, LenProperties
<1>2. CASE over > 0
  <2>1. RingPush(buffer, e) = SubSeq(pushed, over + 1, Len(pushed))
    BY <1>2 DEF RingPush
  <2>2. over + 1 \in 1..(Len(pushed) + 1)
    BY <1>1, <1>2, BoundsTyped
  <2> HIDE DEF pushed, over
  <2>3. IsSuffix(RingPush(buffer, e), pushed, (over + 1) - 1)
    BY <1>1, <2>1, <2>2, CutIsSuffix
  <2> QED
    BY <1>1, <1>2, <2>3, BoundsTyped DEF IsSuffix, over
<1>3. CASE ~(over > 0)
  BY <1>3 DEF RingPush
<1> QED
  BY <1>2, <1>3

\* Ingestion loses nothing that counts.
LEMMA IngestKeeps ==
  ASSUME NEW d, DetectorType(d), DetectorBounded(d), NEW a \in Seq(Events), NEW e \in Events,
         NEW k \in (DOMAIN d.library.patterns) \X Mandates,
         Keeps(d, BufferOf(d, k), a, k)
  PROVE  Keeps(d, BufferOf(Ingest(d, e), k), Append(a, e), k)
<1> DEFINE b == BufferOf(d, k)
           aa == Append(a, e)
           positions == MatchingPositions(d.library, a, k)
           more == positions \cup {Len(a) + 1}
           c == Ingest(d, e)
<1>1. PICK place \in [1..Len(b) -> positions] :
        /\ NewestAt(b, a, positions, place)
        /\ \A p \in positions : \/ \E i \in 1..Len(b) : place[i] = p
                               \/ Len(b) = MAX_EVENTS_PER_BUFFER
                               \/ Aged(d, k, a[p])
  BY DEF Keeps
<1>2. /\ b \in Seq(Events)
      /\ BufferOf(c, k) = IF k \in RoutedTo(d, e) THEN RingPush(b, e) ELSE b
  BY BufferAfterIngest
<1>3. /\ positions \in SUBSET (1..Len(a))
      /\ MatchingPositions(d.library, aa, k) = IF k \in RoutedTo(d, e) THEN more ELSE positions
  <2>1. k \in RoutedTo(d, e)
          <=> e.mandate_id = k[2] /\ ScopeMatches(d.library.patterns[k[1]].scope, e)
    BY RoutedIffMatching
  <2>2. /\ positions \in SUBSET (1..Len(a))
        /\ MatchingPositions(d.library, aa, k)
             = IF e.mandate_id = k[2] /\ ScopeMatches(d.library.patterns[k[1]].scope, e)
                 THEN more ELSE positions
    BY MatchingAfterArrival
  <2> QED
    BY <2>1, <2>2
<1>4. \A i \in 1..Len(a) : aa[i] = a[i]
  BY AppendProperties
<1>5. Len(a) \in Nat /\ Len(b) \in Nat
  BY <1>2, LenProperties
<1> HIDE DEF b, aa, positions, c
<1>6. CASE k \in RoutedTo(d, e)
  <2>1. PICK longer \in [1..Len(Append(b, e)) -> more] :
          /\ \A i \in 1..Len(b) : longer[i] = place[i]
          /\ longer[Len(b) + 1] = Len(a) + 1
          /\ NewestAt(Append(b, e), aa, more, longer)
    <3>1. NewestAt(b, a, positions, place) /\ b \in Seq(Events) /\ positions \in SUBSET (1..Len(a))
      BY <1>1, <1>2, <1>3
    <3> QED
      BY <3>1, AppendNewest DEF aa
  <2>3. more \in SUBSET Int
    <3>1. \A p \in 1..Len(a) : p \in Int
      BY <1>5
    <3>2. Len(a) + 1 \in Int
      BY <1>5
    <3> QED
      BY <1>3, <3>1, <3>2
  <2> HIDE DEF more
  <2>4. /\ RingPush(b, e) \in Seq(Events) /\ Append(b, e) \in Seq(Events)
        /\ Len(RingPush(b, e)) <= MAX_EVENTS_PER_BUFFER
        /\ Len(Append(b, e)) = Len(b) + 1
        /\ \E o \in Nat : IsSuffix(RingPush(b, e), Append(b, e), o)
    BY <1>2, RingPushKeepsNewest, AppendProperties
  <2>5. CASE Len(RingPush(b, e)) = MAX_EVENTS_PER_BUFFER
    <3>1. HoldsNewest(Append(b, e), aa, more)
      BY <2>1 DEF HoldsNewest
    <3>2. HoldsNewest(RingPush(b, e), aa, more)
      BY <2>3, <2>4, <3>1, SuffixHoldsNewest
    <3> QED
      BY <1>2, <1>3, <1>6, <2>5, <3>2 DEF Keeps, HoldsNewest, c, aa
  <2>6. CASE RingPush(b, e) = Append(b, e)
    <3>1. Len(b) + 1 <= MAX_EVENTS_PER_BUFFER /\ Len(b) # MAX_EVENTS_PER_BUFFER
      BY <1>5, <2>4, <2>6, BoundsTyped
    <3>2. ASSUME NEW p \in more
          PROVE  (\E i \in 1..Len(Append(b, e)) : longer[i] = p) \/ Aged(d, k, aa[p])
      <4>1. CASE p = Len(a) + 1
        <5>1. Len(b) + 1 \in 1..Len(Append(b, e))
          BY <1>5, <2>4
        <5> QED
          BY <2>1, <4>1, <5>1
      <4>2. CASE p \in positions /\ \E i \in 1..Len(b) : place[i] = p
        <5>1. \A i \in 1..Len(b) : i \in 1..Len(Append(b, e))
          BY <1>5, <2>4
        <5> QED
          BY <2>1, <4>2, <5>1
      <4>3. CASE p \in positions /\ Aged(d, k, a[p])
        BY <1>3, <1>4, <4>3
      <4> QED
        BY <1>1, <3>1, <4>1, <4>2, <4>3 DEF more
    <3>3. Keeps(d, Append(b, e), aa, k)
      <4>1. MatchingPositions(d.library, aa, k) = more
        BY <1>3, <1>6
      <4> QED
        BY <2>1, <3>2, <4>1 DEF Keeps
    <3>4. BufferOf(c, k) = Append(b, e)
      BY <1>2, <1>6, <2>6
    <3> QED
      BY <3>3, <3>4 DEF c, aa
  <2> QED
    BY <1>2, <2>5, <2>6, RingPushFull
<1>7. CASE k \notin RoutedTo(d, e)
  <2>1. NewestAt(b, aa, positions, place)
    BY <1>1, <1>2, <1>3, OtherNewest DEF aa
  <2>2. \A p \in positions : aa[p] = a[p]
    BY <1>3, <1>4
  <2>3. MatchingPositions(d.library, aa, k) = positions /\ BufferOf(c, k) = b
    BY <1>2, <1>3, <1>7
  <2>4. \A p \in positions : \/ \E i \in 1..Len(b) : place[i] = p
                            \/ Len(b) = MAX_EVENTS_PER_BUFFER
                            \/ Aged(d, k, aa[p])
    BY <1>1, <2>2
  <2>5. Keeps(d, b, aa, k)
    BY <2>1, <2>3, <2>4 DEF Keeps
  <2> QED
    BY <2>3, <2>5 DEF c, aa
<1> QED
  BY <1>6, <1>7
=============================================================================
