----------------------- MODULE AuditOrchestratorProofs -----------------------
(***************************************************************************)
(* The orchestrator's safety for every set of tenants, every library, every*)
(* event and every value of the bounds.                                    *)
(*                                                                         *)
(* FireOnce is not inductive: that the next record of a bucket is far      *)
(* enough from all earlier ones needs the dedup ledger to remember a time  *)
(* no earlier than any record returned (Remembers), which in turn needs    *)
(* that no clock is behind its ledger (Sound).  CountsOnlyLiveEvents needs *)
(* that the buffers are in timestamp order, because eviction only looks at *)
(* their front.                                                            *)
(*                                                                         *)
(* CountFiringIsExact relates an evaluation to everything ever accepted.   *)
(* It needs that an event a bucket no longer holds is aged for good, or    *)
(* came before everything in a full ring (NothingIsLost): the clock never  *)
(* goes back, and accepted events carry its times, hence are in order.     *)
(***************************************************************************)
EXTENDS AuditOrchestrator, DetectorProofs, FiniteSetTheorems

\* A detector the orchestrator may hold under library lib.
Sound(d, lib) ==
  /\ DetectorType(d)
  /\ DetectorBounded(d)
  /\ Chronological(d)
  /\ d.library = lib
  /\ \A k \in DOMAIN d.dedup : d.dedup[k] <= d.now

\* The ledger of d knows every record in "records" (bucket -> times).
Remembers(d, records) ==
  \A k \in Keys : records[k] # <<>> =>
    /\ k \in DOMAIN d.dedup
    /\ \A i \in DOMAIN records[k] : records[k][i] <= d.dedup[k]

\* The inductive invariant.
Inv ==
  /\ TypeOK
  /\ \A t \in DOMAIN tenants : Sound(tenants[t], library) /\ Remembers(tenants[t], delivered[t])
  /\ \A t \in Tenants \ DOMAIN tenants, k \in Keys : delivered[t][k] = <<>>
  /\ FireOnce

-----------------------------------------------------------------------------

\* With nothing registered and nothing returned the invariant holds: at the
\* start and after rotate_library.
LEMMA NothingRegistered ==
  ASSUME library \in Libraries, initial_time \in Int,
         tenants = [t \in {} |-> {}],
         accepted = NothingAccepted, delivered = NothingDelivered
  PROVE  Inv
<1>1. DOMAIN tenants = {}
  OBVIOUS
<1>2. /\ accepted \in [Tenants -> Seq(Events)]
      /\ delivered \in [Tenants -> [Keys -> Seq(Int)]]
      /\ \A t \in Tenants, k \in Keys : delivered[t][k] = <<>>
  BY DEF NothingAccepted, NothingDelivered
<1>3. FireOnce
  BY <1>2 DEF FireOnce
<1> QED
  BY <1>1, <1>2, <1>3 DEF Inv, TypeOK

\* tenant_state_mut yields a sound detector that remembers all records, for
\* known and for newly registered tenants.
LEMMA TenantStateSound ==
  ASSUME Inv, NEW t \in Tenants
  PROVE  Sound(tenant_state_mut(t), library) /\ Remembers(tenant_state_mut(t), delivered[t])
<1>1. CASE t \in DOMAIN tenants
  BY <1>1 DEF Inv, tenant_state_mut
<1>2. CASE t \notin DOMAIN tenants
  <2> DEFINE n == WithLedger(library, initial_time, EmptyLedger)
  <2>1. tenant_state_mut(t) = n
    BY <1>2 DEF tenant_state_mut, NewDetector
  <2>2. DOMAIN EmptyLedger = {}
    BY DEF EmptyLedger
  <2>3. DetectorType(n) /\ DetectorBounded(n) /\ Chronological(n)
    BY <2>2, WithLedgerSound DEF Inv, TypeOK
  <2>4. n.library = library /\ n.dedup = EmptyLedger
    BY DEF WithLedger
  <2> HIDE DEF n
  <2>5. Sound(n, library)
    BY <2>2, <2>3, <2>4 DEF Sound
  <2>6. Remembers(n, delivered[t])
    BY <1>2 DEF Inv, Remembers
  <2> QED
    BY <2>1, <2>5, <2>6
<1> QED
  BY <1>1, <1>2

\* Replacing one tenant's detector by another sound one that remembers the same
\* records keeps the invariant.
LEMMA ReplaceDetector ==
  ASSUME Inv, NEW t \in Tenants, NEW d, Sound(d, library), Remembers(d, delivered[t]), SetTenant(t, d),
         UNCHANGED <<library, initial_time, delivered>>,
         accepted' \in [Tenants -> Seq(Events)]
  PROVE  Inv'
<1>1. /\ DOMAIN tenants' = DOMAIN tenants \cup {t}
      /\ tenants'[t] = d
      /\ \A u \in DOMAIN tenants : u # t => tenants'[u] = tenants[u]
  BY DEF SetTenant
<1>2. \A u \in DOMAIN tenants' : Sound(tenants'[u], library) /\ Remembers(tenants'[u], delivered[u])
  BY <1>1 DEF Inv
<1>3. \A u \in DOMAIN tenants' : Sound(tenants'[u], library') /\ Remembers(tenants'[u], delivered'[u])
  BY <1>2 DEF Sound, Remembers
<1>4. TypeOK'
  BY <1>1, <1>2 DEF Inv, TypeOK, Sound
<1>5. FireOnce'
  BY DEF Inv, FireOnce
<1>6. \A u \in Tenants \ DOMAIN tenants', k \in Keys : delivered'[u][k] = <<>>
  BY <1>1 DEF Inv
<1> QED
  BY <1>3, <1>4, <1>5, <1>6 DEF Inv

\* A walk keeps a detector sound, and its ledger only moves forward.
LEMMA WalkedDetector ==
  ASSUME NEW d, Sound(d, library), NEW walked, NEW marked \in SUBSET Firing(d),
         NEW c, c = AfterWalk(d, walked, marked)
  PROVE  /\ Sound(c, library)
         /\ DOMAIN c.dedup = DOMAIN d.dedup \cup marked
         /\ \A k \in marked : c.dedup[k] = d.now
         /\ \A k \in DOMAIN d.dedup : c.dedup[k] >= d.dedup[k]
<1>1. /\ DetectorType(d) /\ DetectorBounded(d) /\ Chronological(d) /\ d.library = library
      /\ d.now \in Int /\ \A k \in DOMAIN d.dedup : d.dedup[k] \in Int /\ d.dedup[k] <= d.now
  BY DEF Sound, DetectorType
<1>2. DetectorType(c) /\ DetectorBounded(c) /\ Chronological(c)
  BY <1>1, AfterWalkSound, AfterWalkChronological
<1>3. /\ c.library = d.library /\ c.now = d.now
      /\ DOMAIN c.dedup = DOMAIN d.dedup \cup marked
      /\ \A k \in marked : c.dedup[k] = d.now
      /\ \A k \in DOMAIN d.dedup \ marked : c.dedup[k] = d.dedup[k]
  BY <1>1, AfterWalkFields
<1>4. Sound(c, library)
  BY <1>1, <1>2, <1>3 DEF Sound
<1> QED
  BY <1>1, <1>3, <1>4

\* The history of a bucket with one more record.
LEMMA OneMoreRecord ==
  ASSUME NEW s \in Seq(Int), NEW n \in Int
  PROVE  /\ Append(s, n) \in Seq(Int)
         /\ Append(s, n) # <<>>
         /\ DOMAIN Append(s, n) = 1..(Len(s) + 1)
         /\ \A i \in 1..Len(s) : Append(s, n)[i] = s[i]
         /\ Append(s, n)[Len(s) + 1] = n
BY AppendProperties, LenProperties

\* A position of the longer history that is not its last is one of the shorter.
LEMMA NotTheLast ==
  ASSUME NEW n \in Nat, NEW j \in 1..(n + 1), j # n + 1
  PROVE  j \in 1..n
OBVIOUS

\* Evaluate, whether it returns its batch or fails on a full ledger.
LEMMA EvaluateKeepsInv ==
  ASSUME Inv, NEW t \in Tenants, NEW d, Sound(d, library), Remembers(d, delivered[t]), Evaluate(t, d),
         accepted' \in [Tenants -> Seq(Events)]
  PROVE  Inv'
<1>0. /\ delivered \in [Tenants -> [Keys -> Seq(Int)]]
      /\ d.now \in Int /\ UNCHANGED <<library, initial_time>>
      /\ \A k \in DOMAIN d.dedup : d.dedup[k] \in Int /\ d.dedup[k] <= d.now
  BY DEF Inv, TypeOK, Sound, DetectorType, Evaluate
<1>1. CASE /\ CapacityFailures(d) # {}
           /\ SetTenant(t, EvaluateFailsAt(d, FirstKey(CapacityFailures(d))))
           /\ UNCHANGED delivered
  <2> DEFINE f == FirstKey(CapacityFailures(d))
             walked == {k \in DOMAIN d.buffers : k = f \/ Precedes(k, f)}
             marked == {k \in Firing(d) : Precedes(k, f)}
             c == AfterWalk(d, walked, marked)
  <2>1. SetTenant(t, c)
    BY <1>1 DEF EvaluateFailsAt
  <2>2. marked \in SUBSET Firing(d)
    OBVIOUS
  <2> HIDE DEF walked, marked
  <2>3. /\ Sound(c, library)
        /\ DOMAIN c.dedup = DOMAIN d.dedup \cup marked
        /\ \A k \in DOMAIN d.dedup : c.dedup[k] >= d.dedup[k]
        /\ \A k \in marked : c.dedup[k] = d.now
    BY <2>2, WalkedDetector
  <2> HIDE DEF c
  <2>4. \A k \in DOMAIN c.dedup : c.dedup[k] \in Int
    BY <2>3 DEF Sound, DetectorType
  <2>5. ASSUME NEW k \in Keys, delivered[t][k] # <<>>
        PROVE  /\ k \in DOMAIN c.dedup
               /\ \A i \in DOMAIN delivered[t][k] : delivered[t][k][i] <= c.dedup[k]
    <3>1. /\ k \in DOMAIN d.dedup
          /\ \A i \in DOMAIN delivered[t][k] : delivered[t][k][i] <= d.dedup[k]
      BY <2>5 DEF Remembers
    <3>2. \A i \in DOMAIN delivered[t][k] : delivered[t][k][i] \in Int
      BY <1>0, LenProperties, ElementOfSeq
    <3> QED
      BY <1>0, <2>3, <2>4, <3>1, <3>2
  <2>6. Remembers(c, delivered[t])
    BY <2>5 DEF Remembers
  <2> QED
    BY <1>0, <1>1, <2>1, <2>3, <2>6, ReplaceDetector
<1>2. CASE /\ CapacityFailures(d) = {}
           /\ SetTenant(t, EvaluateAll(d))
           /\ delivered' = [delivered EXCEPT ![t] =
                              [k \in Keys |-> IF k \in Firing(d)
                                                THEN Append(delivered[t][k], d.now)
                                                ELSE delivered[t][k]]]
  <2> DEFINE F == Firing(d)
             c == AfterWalk(d, DOMAIN d.buffers, F)
  <2>1. SetTenant(t, c)
    BY <1>2 DEF EvaluateAll
  <2>2. /\ Sound(c, library)
        /\ DOMAIN c.dedup = DOMAIN d.dedup \cup F
        /\ \A k \in F : c.dedup[k] = d.now
        /\ \A k \in DOMAIN d.dedup : c.dedup[k] >= d.dedup[k]
    BY WalkedDetector
  <2> HIDE DEF c, F
  <2>3. /\ DOMAIN tenants' = DOMAIN tenants \cup {t}
        /\ tenants'[t] = c
        /\ \A u \in DOMAIN tenants : u # t => tenants'[u] = tenants[u]
    BY <2>1 DEF SetTenant
  <2>4. /\ \A u \in Tenants : u # t => delivered'[u] = delivered[u]
        /\ \A k \in Keys : delivered'[t][k] = IF k \in F THEN Append(delivered[t][k], d.now)
                                                         ELSE delivered[t][k]
    BY <1>0, <1>2 DEF F
  <2>5. \A k \in Keys : /\ delivered[t][k] \in Seq(Int)
                        /\ DOMAIN delivered[t][k] = 1..Len(delivered[t][k])
                        /\ Len(delivered[t][k]) \in Nat
                        /\ \A i \in 1..Len(delivered[t][k]) : delivered[t][k][i] \in Int
    BY <1>0, LenProperties, ElementOfSeq
  <2>6. \A k \in Keys \cap F :
          /\ delivered'[t][k] \in Seq(Int)
          /\ DOMAIN delivered'[t][k] = 1..(Len(delivered[t][k]) + 1)
          /\ \A i \in 1..Len(delivered[t][k]) : delivered'[t][k][i] = delivered[t][k][i]
          /\ delivered'[t][k][Len(delivered[t][k]) + 1] = d.now
    <3> TAKE k \in Keys \cap F
    <3>1. delivered'[t][k] = Append(delivered[t][k], d.now) /\ delivered[t][k] \in Seq(Int)
      BY <2>4, <2>5
    <3> QED BY <1>0, <3>1, OneMoreRecord
  <2>7. delivered' \in [Tenants -> [Keys -> Seq(Int)]]
    <3>1. [k \in Keys |-> IF k \in F THEN Append(delivered[t][k], d.now)
                                     ELSE delivered[t][k]] \in [Keys -> Seq(Int)]
      BY <1>0, <2>5, AppendProperties
    <3> QED BY <1>0, <1>2, <3>1 DEF F
  \* A bucket that fires is far enough from everything returned for it so far.
  <2>8. ASSUME NEW k \in Keys \cap F, NEW i \in 1..Len(delivered[t][k])
        PROVE  /\ k[1] \in DOMAIN library.patterns
               /\ DedupWindow(library.patterns[k[1]]) \in Nat
               /\ d.now - delivered[t][k][i] >= DedupWindow(library.patterns[k[1]])
    <3>1. k \in DOMAIN d.buffers /\ ~is_fire_suppressed(d, k)
      BY DEF Firing, F
    <3>2. k[1] \in DOMAIN d.library.patterns /\ d.library = library
      BY <3>1 DEF Sound, DetectorType
    <3>3. DedupWindow(library.patterns[k[1]]) \in Nat
      BY <3>2, WindowsTyped DEF Sound
    <3>4. delivered[t][k] # <<>>
      BY <2>5
    <3>5. k \in DOMAIN d.dedup /\ delivered[t][k][i] <= d.dedup[k]
      BY <2>5, <3>4 DEF Remembers
    <3>6. ~(d.now - d.dedup[k] < DedupWindow(library.patterns[k[1]]))
      BY <3>1, <3>2, <3>5 DEF is_fire_suppressed, Pattern
    <3> QED
      BY <1>0, <2>5, <3>2, <3>3, <3>5, <3>6
  <2>9. FireOnce'
    <3> SUFFICES ASSUME NEW u \in Tenants, NEW k \in Keys,
                        NEW i \in DOMAIN delivered'[u][k], NEW j \in DOMAIN delivered'[u][k],
                        i < j
                 PROVE  delivered'[u][k][j] - delivered'[u][k][i]
                          >= DedupWindow(library.patterns[k[1]])
      BY <1>0 DEF FireOnce
    <3>1. CASE u # t \/ k \notin F
      BY <2>4, <3>1 DEF Inv, FireOnce
    <3>2. CASE u = t /\ k \in F
      <4>0. /\ i \in 1..(Len(delivered[t][k]) + 1) /\ j \in 1..(Len(delivered[t][k]) + 1)
            /\ Len(delivered[t][k]) \in Nat
        BY <2>5, <2>6, <3>2
      <4>1. CASE j = Len(delivered[t][k]) + 1
        <5>1. i \in 1..Len(delivered[t][k])
          BY <4>0, <4>1
        <5> QED
          BY <2>6, <2>8, <3>2, <4>1, <5>1
      <4>2. CASE j # Len(delivered[t][k]) + 1
        <5>0. j \in 1..Len(delivered[t][k])
          BY <4>0, <4>2, NotTheLast
        <5>1. i \in 1..Len(delivered[t][k]) /\ j \in 1..Len(delivered[t][k])
          BY <4>0, <5>0
        <5>2. /\ delivered'[t][k][i] = delivered[t][k][i]
              /\ delivered'[t][k][j] = delivered[t][k][j]
          BY <2>6, <3>2, <5>1
        <5>3. delivered[t][k][j] - delivered[t][k][i] >= DedupWindow(library.patterns[k[1]])
          BY <2>5, <5>1 DEF Inv, FireOnce
        <5> QED
          BY <3>2, <5>2, <5>3
      <4> QED
        BY <4>1, <4>2
    <3> QED
      BY <3>1, <3>2
  <2>10. Remembers(c, delivered'[t])
    <3> SUFFICES ASSUME NEW k \in Keys, delivered'[t][k] # <<>>
                 PROVE  /\ k \in DOMAIN c.dedup
                        /\ \A i \in DOMAIN delivered'[t][k] : delivered'[t][k][i] <= c.dedup[k]
      BY DEF Remembers
    <3>1. delivered[t][k] # <<>> =>
            /\ k \in DOMAIN d.dedup
            /\ \A i \in 1..Len(delivered[t][k]) : delivered[t][k][i] <= d.dedup[k]
      BY <2>5 DEF Remembers
    <3>2. CASE k \in F
      <4>1. ASSUME NEW i \in DOMAIN delivered'[t][k]
            PROVE  delivered'[t][k][i] <= d.now
        <5>0. i \in 1..(Len(delivered[t][k]) + 1) /\ Len(delivered[t][k]) \in Nat
          BY <2>5, <2>6, <3>2
        <5>1. CASE i = Len(delivered[t][k]) + 1
          BY <1>0, <2>6, <3>2, <5>1
        <5>2. CASE i # Len(delivered[t][k]) + 1
          <6>1. i \in 1..Len(delivered[t][k])
            BY <5>0, <5>2
          <6>2. delivered[t][k] # <<>>
            BY <5>0, <6>1
          <6>3. k \in DOMAIN d.dedup /\ delivered[t][k][i] <= d.dedup[k]
            BY <3>1, <6>1, <6>2
          <6>4. delivered'[t][k][i] = delivered[t][k][i] /\ delivered[t][k][i] \in Int
            BY <2>5, <2>6, <3>2, <6>1
          <6> QED
            BY <1>0, <6>3, <6>4
        <5> QED
          BY <5>1, <5>2
      <4> QED
        BY <2>2, <3>2, <4>1
    <3>3. CASE k \notin F
      <4>1. delivered'[t][k] = delivered[t][k] /\ delivered[t][k] # <<>>
        BY <2>4, <3>3
      <4>2. c.dedup[k] \in Int
        BY <2>2, <3>1, <4>1 DEF Sound, DetectorType
      <4>3. ASSUME NEW i \in DOMAIN delivered'[t][k]
            PROVE  delivered'[t][k][i] <= c.dedup[k]
        <5>1. i \in 1..Len(delivered[t][k]) /\ delivered[t][k][i] \in Int
          BY <2>5, <4>1
        <5>2. delivered[t][k][i] <= d.dedup[k] /\ d.dedup[k] \in Int /\ c.dedup[k] >= d.dedup[k]
          BY <1>0, <2>2, <3>1, <4>1, <5>1
        <5> QED
          BY <4>1, <4>2, <5>1, <5>2
      <4> QED
        BY <2>2, <3>1, <4>1, <4>3
    <3> QED
      BY <3>2, <3>3
  <2>11. ASSUME NEW u \in DOMAIN tenants'
         PROVE  Sound(tenants'[u], library') /\ Remembers(tenants'[u], delivered'[u])
    <3>1. CASE u = t
      <4>1. Sound(c, library')
        BY <1>0, <2>2 DEF Sound
      <4> QED
        BY <2>3, <2>10, <3>1, <4>1
    <3>2. CASE u # t
      <4>1. u \in DOMAIN tenants /\ tenants'[u] = tenants[u] /\ u \in Tenants
        BY <2>3, <3>2 DEF Inv, TypeOK
      <4>2. delivered'[u] = delivered[u]
        BY <2>4, <3>2, <4>1
      <4>3. Sound(tenants[u], library) /\ Remembers(tenants[u], delivered[u])
        BY <4>1 DEF Inv
      <4> QED
        BY <1>0, <4>1, <4>2, <4>3 DEF Sound, Remembers
    <3> QED
      BY <3>1, <3>2
  <2>12. TypeOK'
    <3>1. \A u \in DOMAIN tenants' : DetectorType(tenants'[u])
      BY <2>2, <2>3 DEF Inv, TypeOK, Sound
    <3> QED
      BY <1>0, <2>3, <2>7, <3>1 DEF Inv, TypeOK
  <2>13. \A u \in Tenants \ DOMAIN tenants', k \in Keys : delivered'[u][k] = <<>>
    BY <2>3, <2>4 DEF Inv
  <2> QED
    BY <2>9, <2>11, <2>12, <2>13 DEF Inv
<1> QED
  BY <1>1, <1>2 DEF Evaluate

-----------------------------------------------------------------------------

\* Every call of the orchestrator's API keeps the invariant.
LEMMA InvInductive ==
  ASSUME Inv, [Next]_vars
  PROVE  Inv'
<1>1. ASSUME NEW t \in Tenants, NEW e \in Events, observe_event(t, e)
      PROVE  Inv'
  <2> DEFINE s == tenant_state_mut(t)
             d == AdvanceClock(s, e.timestamp)
  <2>1. Sound(s, library) /\ Remembers(s, delivered[t])
    BY TenantStateSound
  <2>2. e.timestamp \in Int /\ accepted \in [Tenants -> Seq(Events)]
    BY EventsTyped DEF Inv, TypeOK
  <2>3. ~ClockRegresses(s, e.timestamp) =>
          /\ Sound(d, library) /\ Remembers(d, delivered[t])
          /\ DetectorType(d) /\ DetectorBounded(d) /\ Chronological(d) /\ d.now = e.timestamp
    <3> HIDE DEF s
    <3>1. /\ DetectorType(d) /\ DetectorBounded(d)
          /\ d.library = s.library /\ d.dedup = s.dedup /\ d.now = e.timestamp
          /\ Chronological(s) /\ ~ClockRegresses(s, e.timestamp) => Chronological(d)
      BY <2>1, <2>2, AdvanceClockSound DEF Sound
    <3>2. s.now \in Int /\ \A k \in DOMAIN s.dedup : s.dedup[k] \in Int /\ s.dedup[k] <= s.now
      BY <2>1 DEF Sound, DetectorType
    <3> HIDE DEF d
    <3>3. ~ClockRegresses(s, e.timestamp) => \A k \in DOMAIN d.dedup : d.dedup[k] <= d.now
      BY <2>2, <3>1, <3>2 DEF ClockRegresses
    <3> QED
      BY <2>1, <3>1, <3>3 DEF Sound, Remembers
  <2>4. CASE ObserveRegression(t, e)
    BY <2>1, <2>2, <2>4, ReplaceDetector DEF ObserveRegression
  <2>5. CASE ObserveRejected(t, e)
    <3>1. /\ ~ClockRegresses(s, e.timestamp) /\ SetTenant(t, d)
          /\ UNCHANGED <<library, initial_time, accepted, delivered>>
      BY <2>5 DEF ObserveRejected
    <3> HIDE DEF s, d
    <3> QED
      BY <2>2, <2>3, <3>1, ReplaceDetector
  <2>6. CASE ObserveAccepted(t, e)
    <3>1. /\ ~ClockRegresses(s, e.timestamp)
          /\ IngestError(d, e) = "accepted"
          /\ accepted' = [accepted EXCEPT ![t] = Append(@, e)]
          /\ Evaluate(t, Ingest(d, e))
      BY <2>6 DEF ObserveAccepted
    <3> HIDE DEF s, d
    <3>2. accepted' \in [Tenants -> Seq(Events)]
      BY <2>2, <3>1, AppendProperties
    <3>3. /\ DetectorType(Ingest(d, e)) /\ DetectorBounded(Ingest(d, e))
          /\ Chronological(Ingest(d, e))
      BY <2>3, <3>1, IngestSound, IngestChronological
    <3>4. /\ Ingest(d, e).library = d.library
          /\ Ingest(d, e).dedup = d.dedup /\ Ingest(d, e).now = d.now
      <4>1. Ingest(d, e) = [library |-> d.library, buffers |-> Ingest(d, e).buffers,
                            counters |-> Ingest(d, e).counters,
                            now |-> d.now, dedup |-> d.dedup]
        BY <2>3, <3>1, IngestBuckets
      <4> QED BY <4>1
    <3>5. Sound(Ingest(d, e), library) /\ Remembers(Ingest(d, e), delivered[t])
      BY <2>3, <3>1, <3>3, <3>4 DEF Sound, Remembers
    <3> QED
      BY <3>1, <3>2, <3>5, EvaluateKeepsInv
  <2> QED
    BY <1>1, <2>4, <2>5, <2>6 DEF observe_event
<1>2. ASSUME NEW t \in Tenants, NEW new_time \in Times, advance_clock_for(t, new_time)
      PROVE  Inv'
  <2> DEFINE s == tenant_state_mut(t)
             c == AdvanceClock(s, new_time)
  <2>1. Sound(s, library) /\ Remembers(s, delivered[t]) /\ new_time \in Int
    BY TenantStateSound, TimesTyped
  <2>2. /\ SetTenant(t, IF ClockRegresses(s, new_time) THEN s ELSE c)
        /\ UNCHANGED <<library, initial_time, accepted, delivered>>
        /\ accepted \in [Tenants -> Seq(Events)]
    BY <1>2 DEF advance_clock_for, Inv, TypeOK
  <2> HIDE DEF s
  <2>3. /\ DetectorType(c) /\ DetectorBounded(c)
        /\ c.library = s.library /\ c.dedup = s.dedup /\ c.now = new_time
        /\ Chronological(s) /\ ~ClockRegresses(s, new_time) => Chronological(c)
    BY <2>1, AdvanceClockSound DEF Sound
  <2>4. s.now \in Int /\ \A k \in DOMAIN s.dedup : s.dedup[k] \in Int /\ s.dedup[k] <= s.now
    BY <2>1 DEF Sound, DetectorType
  <2> HIDE DEF c
  <2>5. ~ClockRegresses(s, new_time) => Sound(c, library) /\ Remembers(c, delivered[t])
    <3>1. ~ClockRegresses(s, new_time) => \A k \in DOMAIN c.dedup : c.dedup[k] <= c.now
      BY <2>1, <2>3, <2>4 DEF ClockRegresses
    <3> QED
      BY <2>1, <2>3, <3>1 DEF Sound, Remembers
  <2> QED
    BY <2>1, <2>2, <2>5, ReplaceDetector
<1>3. ASSUME NEW t \in Tenants, drain_fires_for(t)
      PROVE  Inv'
  BY <1>3, EvaluateKeepsInv DEF drain_fires_for, Inv, TypeOK
<1>4. ASSUME NEW l \in Libraries, NEW new_time \in Times, rotate_library(l, new_time)
      PROVE  Inv'
  <2>1. /\ library' \in Libraries /\ initial_time' \in Int
        /\ tenants' = [t \in {} |-> {}]
        /\ accepted' = NothingAccepted /\ delivered' = NothingDelivered
    BY <1>4, TimesTyped DEF rotate_library
  <2>2. DOMAIN tenants' = {}
    BY <2>1
  <2>3. /\ accepted' \in [Tenants -> Seq(Events)]
        /\ delivered' \in [Tenants -> [Keys -> Seq(Int)]]
        /\ \A t \in Tenants, k \in Keys : delivered'[t][k] = <<>>
    BY <2>1 DEF NothingAccepted, NothingDelivered
  <2>4. FireOnce'
    BY <2>3 DEF FireOnce
  <2> QED
    BY <2>1, <2>2, <2>3, <2>4 DEF Inv, TypeOK
<1>5. ASSUME UNCHANGED vars
      PROVE  Inv'
  BY <1>5 DEF vars, Inv, TypeOK, FireOnce
<1> QED
  BY <1>1, <1>2, <1>3, <1>4, <1>5 DEF Next

\* The inductive invariant holds throughout.
THEOREM InvHolds == Spec => []Inv
<1>1. Init => Inv
  BY NothingRegistered, TimesTyped DEF Init
<1>2. Inv /\ [Next]_vars => Inv'
  BY InvInductive
<1> QED
  BY <1>1, <1>2, PTL DEF Spec

\* The orchestrator's state has its type after every sequence of calls, failed
\* ones included.
THEOREM TypeCorrect == Spec => []TypeOK
<1>1. Inv => TypeOK
  BY DEF Inv
<1> QED
  BY <1>1, InvHolds, PTL

\* Fire-once (observe_event and drain_fires_for through is_fire_suppressed and
\* mark_fired): two records returned for a tenant, pattern and mandate under one
\* library are at least the dedup window apart, for any clocks and any failures.
THEOREM FireOnceHolds == Spec => []FireOnce
<1>1. Inv => FireOnce
  BY DEF Inv
<1> QED
  BY <1>1, InvHolds, PTL

\* Storm containment (the per-mandate cap and the ring of ingest_event), whatever
\* the caps are.
THEOREM StormContained == Spec => []BuffersBounded
<1>1. Inv => BuffersBounded
  BY DEF Inv, Sound, BuffersBounded
<1> QED
  BY <1>1, InvHolds, PTL

\* Because observe_event moves the clock to the event before it ingests it, the
\* front-only eviction of evaluate_all leaves no aged event to be counted.
THEOREM OnlyLiveEventsCount == Spec => []CountsOnlyLiveEvents
<1>1. Inv => CountsOnlyLiveEvents
  BY ChronologicalCountsOnlyLive DEF Inv, Sound, CountsOnlyLiveEvents
<1> QED
  BY <1>1, InvHolds, PTL

\* rotate_library leaves no detector of the old library behind, and no other call
\* brings one back.
THEOREM CurrentLibraryPinned == Spec => []TenantsPinCurrentLibrary
<1>1. Inv => TenantsPinCurrentLibrary
  BY DEF Inv, Sound, TenantsPinCurrentLibrary
<1> QED
  BY <1>1, InvHolds, PTL

-----------------------------------------------------------------------------
(* The ledger's cap.  A walk tests it once per new pair; that no walk       *)
(* exceeds it rests on the last pair the walk adds.                         *)

\* A strict order on a finite set has a minimal element.
LEMMA Minimal ==
  ASSUME NEW S, IsFiniteSet(S), S # {}, NEW R,
         \A x \in S : <<x, x>> \notin R,
         \A x, y, z \in S : <<x, y>> \in R /\ <<y, z>> \in R => <<x, z>> \in R
  PROVE  \E x \in S : \A y \in S : <<y, x>> \notin R
<1> DEFINE Below(x) == {y \in S : <<y, x>> \in R}
           Sizes == {Cardinality(Below(x)) : x \in S}
<1>1. \A x \in S : IsFiniteSet(Below(x)) /\ Cardinality(Below(x)) \in Nat
  <2> SUFFICES ASSUME NEW x \in S
               PROVE  IsFiniteSet(Below(x)) /\ Cardinality(Below(x)) \in Nat
    OBVIOUS
  <2>1. Below(x) \in SUBSET S
    OBVIOUS
  <2> HIDE DEF Below
  <2>2. IsFiniteSet(Below(x))
    BY <2>1, FS_Subset
  <2> QED
    BY <2>2, FS_CardinalityType
<1>2. PICK n \in Sizes : \A m \in Sizes : n <= m
  <2>1. Sizes \in SUBSET Nat /\ Sizes # {}
    <3> HIDE DEF Below
    <3> QED
      BY <1>1
  <2> HIDE DEF Sizes
  <2> QED
    BY <2>1, LeastIndex
<1>3. PICK x \in S : n = Cardinality(Below(x))
  OBVIOUS
<1> SUFFICES ASSUME NEW y \in S, <<y, x>> \in R PROVE FALSE
  OBVIOUS
<1>4. Below(y) \in SUBSET Below(x) /\ y \in Below(x) /\ y \notin Below(y)
  OBVIOUS
<1>5. n <= Cardinality(Below(y))
  <2> HIDE DEF Below
  <2> QED
    BY <1>2
<1> HIDE DEF Below
<1>6. /\ Cardinality(Below(y)) <= Cardinality(Below(x))
      /\ Cardinality(Below(x)) = Cardinality(Below(y)) => Below(x) = Below(y)
  BY <1>1, <1>4, FS_Subset
<1> QED
  BY <1>1, <1>3, <1>4, <1>5, <1>6

\* The walk of the BTreeMap has a first and a last key.
LEMMA FirstAndLast ==
  ASSUME NEW S, S \subseteq Keys, IsFiniteSet(S), S # {}
  PROVE  /\ \E f \in S : \A j \in S : j = f \/ Precedes(f, j)
         /\ \E l \in S : \A j \in S : j = l \/ Precedes(j, l)
<1>1. \A j \in S : j = <<j[1], j[2]>> /\ j[1] \in Int /\ j[2] \in Int
  <2> SUFFICES ASSUME NEW j \in S
               PROVE  j = <<j[1], j[2]>> /\ j[1] \in Int /\ j[2] \in Int
    OBVIOUS
  <2>1. j \in PatternIds \X Mandates
    BY DEF Keys
  <2>2. j[1] \in PatternIds /\ j[2] \in Mandates /\ j = <<j[1], j[2]>>
    BY <2>1
  <2> QED
    BY <2>2, IdsAreOrdered
<1>2. /\ \A j \in S : ~Precedes(j, j)
      /\ \A i, j, k \in S : Precedes(i, j) /\ Precedes(j, k) => Precedes(i, k)
      /\ \A i, j \in S : Precedes(i, j) \/ Precedes(j, i) \/ i = j
  BY <1>1 DEF Precedes
<1> DEFINE Up == {p \in S \X S : Precedes(p[1], p[2])}
           Down == {p \in S \X S : Precedes(p[2], p[1])}
<1>3. \A i, j \in S : /\ <<i, j>> \in Up <=> Precedes(i, j)
                      /\ <<i, j>> \in Down <=> Precedes(j, i)
  OBVIOUS
<1> HIDE DEF Up, Down
<1>4. \E f \in S : \A j \in S : <<j, f>> \notin Up
  BY <1>2, <1>3, Minimal
<1>5. \E l \in S : \A j \in S : <<j, l>> \notin Down
  BY <1>2, <1>3, Minimal
<1> QED
  BY <1>2, <1>3, <1>4, <1>5

\* A detector whose ledger respects its cap.
WithinCapacity(d) ==
  /\ IsFiniteSet(DOMAIN d.buffers)
  /\ IsFiniteSet(DOMAIN d.dedup)
  /\ Cardinality(DOMAIN d.dedup) <= MAX_DEDUP_ENTRIES_PER_TENANT

\* A walk that records nothing at a bucket where observe would fail stays within
\* the cap, however many pairs it adds.
LEMMA WalkWithinCapacity ==
  ASSUME NEW d, DetectorType(d), WithinCapacity(d), NEW walked,
         NEW marked \in SUBSET Firing(d), marked \cap CapacityFailures(d) = {}
  PROVE  WithinCapacity(AfterWalk(d, walked, marked))
<1> DEFINE c == AfterWalk(d, walked, marked)
           known == DOMAIN d.dedup
           fresh == marked \ known
<1>1. DOMAIN c.buffers = DOMAIN d.buffers /\ DOMAIN c.dedup = known \cup marked
  BY AfterWalkFields
<1>2. Firing(d) \subseteq DOMAIN d.buffers /\ DOMAIN d.buffers \subseteq Keys
  BY LibrariesTyped DEF Firing, DetectorType, Keys
<1>3. IsFiniteSet(Firing(d)) /\ IsFiniteSet(known) /\ Cardinality(known) <= MAX_DEDUP_ENTRIES_PER_TENANT
  BY <1>2, FS_Subset DEF WithinCapacity
<1>4. IsFiniteSet(marked) /\ IsFiniteSet(known \cup marked)
  BY <1>3, FS_Subset, FS_Union
<1>5. CASE fresh = {}
  <2>1. known \cup marked = known
    BY <1>5
  <2> HIDE DEF c, known
  <2> QED
    BY <1>1, <1>3, <2>1 DEF WithinCapacity, c
<1>6. CASE fresh # {}
  <2>1. IsFiniteSet(fresh) /\ fresh \subseteq Keys
    BY <1>2, <1>4, FS_Subset
  <2> HIDE DEF fresh
  <2>2. PICK l \in fresh : \A j \in fresh : j = l \/ Precedes(j, l)
    BY <1>6, <2>1, FirstAndLast
  <2> DEFINE U == known \cup {j \in Firing(d) : Precedes(j, l)}
  <2>3. l \in Firing(d) \ known /\ l \notin CapacityFailures(d)
    BY DEF fresh
  <2>4. ~(Cardinality(U) >= MAX_DEDUP_ENTRIES_PER_TENANT)
    BY <2>3 DEF CapacityFailures
  <2>5. known \cup marked \in SUBSET (U \cup {l})
    BY <2>2 DEF fresh
  <2>6. {j \in Firing(d) : Precedes(j, l)} \in SUBSET Firing(d)
    OBVIOUS
  <2>7. IsFiniteSet(U)
    BY <1>3, <2>6, FS_Subset, FS_Union
  <2> HIDE DEF U
  <2>8. /\ IsFiniteSet(U \cup {l})
        /\ Cardinality(U) \in Nat
        /\ Cardinality(U \cup {l}) <= Cardinality(U) + 1
    <3>1. Cardinality(U) \in Nat
      BY <2>7, FS_CardinalityType
    <3> QED
      BY <2>7, <3>1, FS_AddElement
  <2>9. Cardinality(known \cup marked) <= Cardinality(U \cup {l})
    BY <2>5, <2>8, FS_Subset
  <2>10. Cardinality(known \cup marked) \in Nat /\ Cardinality(U \cup {l}) \in Nat
    BY <1>4, <2>8, FS_CardinalityType
  <2>11. Cardinality(known \cup marked) <= MAX_DEDUP_ENTRIES_PER_TENANT
    BY <2>4, <2>8, <2>9, <2>10, BoundsTyped
  <2> HIDE DEF c, known
  <2> QED
    BY <1>1, <1>4, <2>11 DEF WithinCapacity, c
<1> QED
  BY <1>5, <1>6

\* Evaluate, complete or broken off at the first bucket that finds the ledger full.
LEMMA EvaluateWithinCapacity ==
  ASSUME NEW t, NEW d, DetectorType(d), WithinCapacity(d), Evaluate(t, d)
  PROVE  \E c : WithinCapacity(c) /\ SetTenant(t, c)
<1>1. CASE CapacityFailures(d) = {} /\ SetTenant(t, EvaluateAll(d))
  BY <1>1, WalkWithinCapacity DEF EvaluateAll
<1>2. CASE /\ CapacityFailures(d) # {}
           /\ SetTenant(t, EvaluateFailsAt(d, FirstKey(CapacityFailures(d))))
  <2> DEFINE failures == CapacityFailures(d)
             f == FirstKey(failures)
             marked == {k \in Firing(d) : Precedes(k, f)}
  <2>1. failures \subseteq DOMAIN d.buffers /\ DOMAIN d.buffers \subseteq Keys
    BY LibrariesTyped DEF CapacityFailures, Firing, DetectorType, Keys
  <2>2. failures \subseteq Keys /\ IsFiniteSet(failures)
    BY <2>1, FS_Subset DEF WithinCapacity
  <2> HIDE DEF failures
  <2>3. f \in failures /\ \A j \in failures : f = j \/ Precedes(f, j)
    BY <1>2, <2>2, FirstAndLast DEF FirstKey, failures
  <2>4. \A j \in failures : ~Precedes(j, f)
    <3>1. \A j \in failures : j[1] \in Int /\ j[2] \in Int
      BY <2>2, IdsAreOrdered DEF Keys
    <3> QED
      BY <2>3, <3>1 DEF Precedes
  <2> HIDE DEF f
  <2>5. marked \in SUBSET Firing(d) /\ marked \cap failures = {}
    BY <2>4
  <2> HIDE DEF marked
  <2>6. WithinCapacity(AfterWalk(d, {k \in DOMAIN d.buffers : k = f \/ Precedes(k, f)}, marked))
    BY <2>5, WalkWithinCapacity DEF failures
  <2> QED
    BY <1>2, <2>6 DEF EvaluateFailsAt, f, failures, marked
<1> QED
  BY <1>1, <1>2 DEF Evaluate

\* Every registered tenant is within the cap.
LedgersWithinCapacity == \A t \in DOMAIN tenants : WithinCapacity(tenants[t])

\* The cap holds for all tenants if it holds for the one that changes.
LEMMA SetWithinCapacity ==
  ASSUME LedgersWithinCapacity, NEW t, NEW c, WithinCapacity(c), SetTenant(t, c)
  PROVE  LedgersWithinCapacity'
<1>1. /\ DOMAIN tenants' = DOMAIN tenants \cup {t} /\ tenants'[t] = c
      /\ \A u \in DOMAIN tenants : u # t => tenants'[u] = tenants[u]
  BY DEF SetTenant
<1> QED
  BY <1>1 DEF LedgersWithinCapacity, WithinCapacity

\* tenant_state_mut: a new tenant has an empty ledger.
LEMMA TenantWithinCapacity ==
  ASSUME LedgersWithinCapacity, NEW t
  PROVE  WithinCapacity(tenant_state_mut(t))
<1>1. CASE t \in DOMAIN tenants
  BY <1>1 DEF tenant_state_mut, LedgersWithinCapacity
<1>2. CASE t \notin DOMAIN tenants
  <2>1. /\ DOMAIN tenant_state_mut(t).buffers = {}
        /\ DOMAIN tenant_state_mut(t).dedup = {}
    BY <1>2 DEF tenant_state_mut, NewDetector, WithLedger, EmptyLedger
  <2> QED
    BY <2>1, FS_EmptySet, BoundsTyped DEF WithinCapacity
<1> QED
  BY <1>1, <1>2

\* Ingestion adds finitely many buckets and leaves the ledger alone.
LEMMA IngestWithinCapacity ==
  ASSUME NEW d, DetectorType(d), WithinCapacity(d), NEW e \in Events
  PROVE  WithinCapacity(Ingest(d, e))
<1>1. DOMAIN Ingest(d, e).buffers = DOMAIN d.buffers \cup RoutedTo(d, e)
  BY IngestBuckets
<1>2. Ingest(d, e).dedup = d.dedup
  <2>1. Ingest(d, e) = [library |-> d.library, buffers |-> Ingest(d, e).buffers,
                        counters |-> Ingest(d, e).counters, now |-> d.now, dedup |-> d.dedup]
    BY IngestBuckets
  <2> QED
    BY <2>1
<1>3. IsFiniteSet(RoutedTo(d, e))
  <2> DEFINE ps == DOMAIN d.library.patterns
             bucket == [p \in ps |-> <<p, e.mandate_id>>]
  <2>1. IsFiniteSet(ps)
    BY LibrariesTyped DEF DetectorType
  <2>2. bucket \in Surjection(ps, ps \X {e.mandate_id})
    BY DEF Surjection
  <2>3. IsFiniteSet(ps \X {e.mandate_id})
    BY <2>1, <2>2, FS_Surjection
  <2>4. RoutedTo(d, e) \in SUBSET (ps \X {e.mandate_id})
    BY DEF RoutedTo
  <2> QED
    BY <2>3, <2>4, FS_Subset
<1> QED
  BY <1>1, <1>2, <1>3, FS_Union DEF WithinCapacity

\* AdvanceClock touches neither the buckets nor the ledger.
LEMMA ClockWithinCapacity ==
  ASSUME NEW d, DetectorType(d), WithinCapacity(d), NEW time
  PROVE  WithinCapacity(AdvanceClock(d, time))
<1>1. d = [library |-> d.library, buffers |-> d.buffers, counters |-> d.counters,
           now |-> d.now, dedup |-> d.dedup]
  BY DEF DetectorType
<1>2. /\ AdvanceClock(d, time).buffers = d.buffers
      /\ AdvanceClock(d, time).dedup = d.dedup
  BY <1>1 DEF AdvanceClock
<1> QED
  BY <1>2 DEF WithinCapacity

\* The dedup ledger never holds more pairs than its cap (DedupLedger::observe,
\* evaluate_all), for any cap, library and sequence of calls.
THEOREM LedgerBounded == Spec => []LedgerWithinCapacity
<1>1. Init => LedgersWithinCapacity
  BY DEF Init, LedgersWithinCapacity
<1>2. Inv /\ LedgersWithinCapacity /\ [Next]_vars => LedgersWithinCapacity'
  <2> SUFFICES ASSUME Inv, LedgersWithinCapacity, [Next]_vars
               PROVE  LedgersWithinCapacity'
    OBVIOUS
  <2>1. ASSUME NEW t \in Tenants, NEW e \in Events, observe_event(t, e)
        PROVE  LedgersWithinCapacity'
    <3> DEFINE s == tenant_state_mut(t)
               d == AdvanceClock(s, e.timestamp)
    <3>1. DetectorType(s) /\ WithinCapacity(s) /\ WithinCapacity(d)
      BY TenantStateSound, TenantWithinCapacity, ClockWithinCapacity DEF Sound
    <3>2. DetectorType(d)
      BY <3>1, TenantStateSound, AdvanceClockSound, EventsTyped DEF Sound
    <3>3. CASE ObserveRegression(t, e)
      BY <3>1, <3>3, SetWithinCapacity DEF ObserveRegression
    <3>4. CASE ObserveRejected(t, e)
      BY <3>1, <3>4, SetWithinCapacity DEF ObserveRejected
    <3>5. CASE ObserveAccepted(t, e)
      <4>1. IngestError(d, e) = "accepted" /\ Evaluate(t, Ingest(d, e))
        BY <3>5 DEF ObserveAccepted
      <4> HIDE DEF d
      <4>2. DetectorBounded(d) => DetectorType(Ingest(d, e))
        BY <3>2, <4>1, IngestSound
      <4>3. DetectorBounded(d)
        BY TenantStateSound, AdvanceClockSound, EventsTyped DEF Sound, d
      <4>4. WithinCapacity(Ingest(d, e))
        BY <3>1, <3>2, IngestWithinCapacity
      <4> QED
        BY <4>1, <4>2, <4>3, <4>4, EvaluateWithinCapacity, SetWithinCapacity
    <3> QED
      BY <2>1, <3>3, <3>4, <3>5 DEF observe_event
  <2>2. ASSUME NEW t \in Tenants, NEW new_time \in Times, advance_clock_for(t, new_time)
        PROVE  LedgersWithinCapacity'
    <3> DEFINE s == tenant_state_mut(t)
    <3>1. WithinCapacity(s) /\ WithinCapacity(AdvanceClock(s, new_time))
      BY TenantStateSound, TenantWithinCapacity, ClockWithinCapacity DEF Sound
    <3>2. SetTenant(t, IF ClockRegresses(s, new_time) THEN s ELSE AdvanceClock(s, new_time))
      BY <2>2 DEF advance_clock_for
    <3> HIDE DEF s
    <3> QED
      BY <3>1, <3>2, SetWithinCapacity
  <2>3. ASSUME NEW t \in Tenants, drain_fires_for(t)
        PROVE  LedgersWithinCapacity'
    <3>1. DetectorType(tenants[t]) /\ WithinCapacity(tenants[t]) /\ Evaluate(t, tenants[t])
      BY <2>3 DEF drain_fires_for, Inv, Sound, LedgersWithinCapacity
    <3> QED
      BY <3>1, EvaluateWithinCapacity, SetWithinCapacity
  <2>4. ASSUME NEW l \in Libraries, NEW new_time \in Times, rotate_library(l, new_time)
        PROVE  LedgersWithinCapacity'
    BY <2>4 DEF rotate_library, LedgersWithinCapacity
  <2>5. ASSUME UNCHANGED vars
        PROVE  LedgersWithinCapacity'
    BY <2>5 DEF vars, LedgersWithinCapacity, WithinCapacity
  <2> QED
    BY <2>1, <2>2, <2>3, <2>4, <2>5 DEF Next
<1>3. LedgersWithinCapacity => LedgerWithinCapacity
  BY DEF LedgersWithinCapacity, WithinCapacity, LedgerWithinCapacity
<1> QED
  BY <1>1, <1>2, <1>3, InvHolds, PTL DEF Spec

-----------------------------------------------------------------------------
(* Exact counting.  A buffer may be missing matching events, but only aged  *)
(* ones and ones that a full ring makes up for (Lossless); it stays so      *)
(* because events are accepted in the order of their timestamps.            *)

\* A newly registered tenant has seen nothing.
LEMMA NewLossless ==
  ASSUME NEW lib, NEW time
  PROVE  Lossless(NewDetector(lib, time), <<>>)
<1> DEFINE n == NewDetector(lib, time)
<1>1. n.library = lib /\ n.buffers = [k \in {} |-> <<>>]
  BY DEF NewDetector, WithLedger
<1>2. DOMAIN n.buffers = {} /\ 1..Len(<<>>) = {} /\ DOMAIN <<>> = {}
  BY <1>1
<1> HIDE DEF n
<1>3. ASSUME NEW k
      PROVE  Keeps(n, BufferOf(n, k), <<>>, k)
  <2>1. BufferOf(n, k) = <<>> /\ MatchingPositions(n.library, <<>>, k) = {}
    BY <1>2 DEF BufferOf, MatchingPositions
  <2> DEFINE none == [i \in 1..0 |-> 0]
  <2>2. none \in [1..Len(<<>>) -> {}]
    BY <1>2
  <2>3. NewestAt(<<>>, <<>>, {}, none)
    BY EmptyHoldsNewest
  <2> HIDE DEF none
  <2> QED
    BY <2>1, <2>2, <2>3 DEF Keeps
<1>4. InOrder(n, <<>>)
  BY <1>2 DEF InOrder
<1>5. Lossless(n, <<>>)
  BY <1>3, <1>4 DEF Lossless
<1> QED
  BY <1>5 DEF n

\* While the clock moves forward, aged events stay aged.
LEMMA ClockLossless ==
  ASSUME NEW d, DetectorType(d), NEW a \in Seq(Events), Lossless(d, a),
         NEW time \in Int, ~ClockRegresses(d, time)
  PROVE  Lossless(AdvanceClock(d, time), a)
<1> DEFINE c == AdvanceClock(d, time)
<1>1. /\ d = [library |-> d.library, buffers |-> d.buffers, counters |-> d.counters,
              now |-> d.now, dedup |-> d.dedup]
      /\ c = [d EXCEPT !.now = time] /\ d.now \in Int
  BY DEF DetectorType, AdvanceClock
<1>2. c.library = d.library /\ c.buffers = d.buffers /\ c.now = time
  BY <1>1
<1> HIDE DEF c
<1>3. d.now <= time
  BY <1>1 DEF ClockRegresses
<1>4. ASSUME NEW e \in Events, NEW k \in (DOMAIN d.library.patterns) \X Mandates, Aged(d, k, e)
      PROVE  Aged(c, k, e)
  <2> DEFINE w == Pattern(d, k).window_seconds
  <2>1. Pattern(c, k).window_seconds = w
    BY <1>2 DEF Pattern
  <2>2. w # NoWindow /\ e.timestamp < d.now - w
    BY <1>4 DEF Aged
  <2>3. w \in Nat
    BY <2>2, WindowsTyped DEF Pattern
  <2>4. e.timestamp \in Int
    BY EventsTyped
  <2> HIDE DEF w
  <2>5. e.timestamp < time - w
    BY <1>1, <1>3, <2>2, <2>3, <2>4
  <2> QED
    BY <1>2, <2>1, <2>2, <2>5 DEF Aged
<1>5. ASSUME NEW k \in (DOMAIN d.library.patterns) \X Mandates
      PROVE  Keeps(c, BufferOf(c, k), a, k)
  <2> DEFINE positions == MatchingPositions(d.library, a, k)
             b == BufferOf(d, k)
  <2>1. BufferOf(c, k) = b /\ MatchingPositions(c.library, a, k) = positions
    BY <1>2 DEF BufferOf
  <2>2. \A p \in positions : a[p] \in Events
    BY ElementOfSeq, LenProperties DEF MatchingPositions
  <2>3. PICK place \in [1..Len(b) -> positions] :
          /\ NewestAt(b, a, positions, place)
          /\ \A p \in positions : \/ \E i \in 1..Len(b) : place[i] = p
                                 \/ Len(b) = MAX_EVENTS_PER_BUFFER
                                 \/ Aged(d, k, a[p])
    BY DEF Lossless, Keeps
  <2> HIDE DEF positions, b
  <2>4. \A p \in positions : \/ \E i \in 1..Len(b) : place[i] = p
                            \/ Len(b) = MAX_EVENTS_PER_BUFFER
                            \/ Aged(c, k, a[p])
    BY <1>4, <2>2, <2>3
  <2> QED
    BY <2>1, <2>3, <2>4 DEF Keeps
<1>6. InOrder(c, a)
  <2>1. \A i \in 1..Len(a) : a[i].timestamp \in Int
    BY EventsTyped, ElementOfSeq
  <2>2. \A i \in 1..Len(a) : a[i].timestamp <= time
    BY <1>1, <1>3, <2>1 DEF Lossless, InOrder
  <2> QED
    BY <1>2, <2>2 DEF Lossless, InOrder
<1>7. Lossless(c, a)
  BY <1>2, <1>5, <1>6 DEF Lossless
<1> QED
  BY <1>7 DEF c

\* Accepting an event stamped at the clock.
LEMMA IngestLossless ==
  ASSUME NEW d, DetectorType(d), DetectorBounded(d), NEW a \in Seq(Events), Lossless(d, a),
         NEW e \in Events, e.timestamp = d.now
  PROVE  Lossless(Ingest(d, e), Append(a, e))
<1> DEFINE c == Ingest(d, e)
           aa == Append(a, e)
<1>1. c.library = d.library /\ c.now = d.now
  <2>1. c = [library |-> d.library, buffers |-> c.buffers, counters |-> c.counters,
             now |-> d.now, dedup |-> d.dedup]
    BY IngestBuckets
  <2> HIDE DEF c
  <2> QED
    BY <2>1
<1>2. \A k \in (DOMAIN d.library.patterns) \X Mandates : Keeps(d, BufferOf(c, k), aa, k)
  BY IngestKeeps DEF Lossless
<1>3. /\ Len(a) \in Nat /\ Len(aa) = Len(a) + 1 /\ aa[Len(a) + 1] = e
      /\ \A i \in 1..Len(a) : aa[i] = a[i]
  BY LenProperties, AppendProperties
<1> HIDE DEF c, aa
<1>4. \A k : Pattern(c, k) = Pattern(d, k) /\ \A f : Aged(c, k, f) <=> Aged(d, k, f)
  BY <1>1 DEF Pattern, Aged
<1>5. ASSUME NEW k \in (DOMAIN d.library.patterns) \X Mandates
      PROVE  Keeps(c, BufferOf(c, k), aa, k)
  BY <1>1, <1>2, <1>4 DEF Keeps
<1>6. \A i \in 1..Len(aa) : i \in 1..Len(a) \/ i = Len(aa)
  BY <1>3
<1>7. d.now \in Int /\ \A i \in 1..Len(a) : a[i].timestamp \in Int /\ a[i].timestamp <= d.now
  BY EventsTyped, ElementOfSeq DEF DetectorType, Lossless, InOrder
<1>8. \A i \in 1..Len(aa) : aa[i].timestamp <= d.now
  BY <1>3, <1>6, <1>7
<1>9. ASSUME NEW i \in 1..Len(aa), NEW j \in 1..Len(aa), i <= j
      PROVE  aa[i].timestamp <= aa[j].timestamp
  <2>1. CASE j = Len(aa)
    BY <1>3, <1>8, <2>1
  <2>2. CASE j \in 1..Len(a)
    <3>1. i \in 1..Len(a)
      BY <1>3, <1>9, <2>2
    <3> QED
      BY <1>3, <1>9, <2>2, <3>1 DEF Lossless, InOrder
  <2> QED
    BY <1>6, <2>1, <2>2
<1>10. Lossless(c, aa)
  BY <1>1, <1>5, <1>8, <1>9 DEF Lossless, InOrder
<1> QED
  BY <1>10 DEF c, aa

\* A walk, complete or broken off.
LEMMA WalkLossless ==
  ASSUME NEW d, DetectorType(d), NEW a \in Seq(Events), Lossless(d, a),
         NEW walked, NEW marked, NEW c, c = AfterWalk(d, walked, marked)
  PROVE  Lossless(c, a)
<1>1. /\ c.library = d.library /\ c.now = d.now
      /\ DOMAIN c.buffers = DOMAIN d.buffers
      /\ \A k \in DOMAIN d.buffers : c.buffers[k] \in {EvictedBuffer(d, k), d.buffers[k]}
  BY AfterWalkFields
<1>2. ASSUME NEW k \in (DOMAIN d.library.patterns) \X Mandates
      PROVE  Keeps(d, BufferOf(c, k), a, k)
  <2>1. CASE BufferOf(c, k) = BufferOf(d, k)
    BY <2>1 DEF Lossless
  <2>2. CASE k \in DOMAIN d.buffers /\ c.buffers[k] = EvictedBuffer(d, k)
    <3>1. BufferOf(c, k) = EvictedBuffer(d, k) /\ BufferOf(d, k) = d.buffers[k]
      BY <1>1, <2>2 DEF BufferOf
    <3>2. EvictedBuffer(d, k) \in Seq(Events) /\ d.buffers[k] \in Seq(Events)
      BY <2>2, EvictedBufferIsSuffix DEF DetectorType
    <3>3. PICK o \in Nat : /\ IsSuffix(EvictedBuffer(d, k), d.buffers[k], o)
                           /\ \A i \in 1..o : /\ i \in 1..Len(d.buffers[k])
                                              /\ Aged(d, k, d.buffers[k][i])
      BY <2>2, EvictedBufferMissesAged
    <3>4. Keeps(d, d.buffers[k], a, k) /\ InOrder(d, a)
      BY <3>1 DEF Lossless
    <3> QED
      BY <3>1, <3>2, <3>3, <3>4, EvictionKeeps
  <2> QED
    BY <1>1, <2>1, <2>2 DEF BufferOf
<1>3. \A k : Pattern(c, k) = Pattern(d, k) /\ \A f : Aged(c, k, f) <=> Aged(d, k, f)
  BY <1>1 DEF Pattern, Aged
<1>4. ASSUME NEW k \in (DOMAIN d.library.patterns) \X Mandates
      PROVE  Keeps(c, BufferOf(c, k), a, k)
  BY <1>1, <1>2, <1>3 DEF Keeps
<1> QED
  BY <1>1, <1>4 DEF Lossless, InOrder

\* What a tenant's buffers are, against all it accepted under this library.
NothingIsLost ==
  /\ \A t \in DOMAIN tenants : Lossless(tenants[t], accepted[t])
  /\ \A t \in Tenants \ DOMAIN tenants : accepted[t] = <<>>

\* Both hold for all tenants if they hold for the one that changes.
LEMMA SetTenantLossless ==
  ASSUME Inv, NothingIsLost, NEW t \in Tenants, NEW c, SetTenant(t, c),
         NEW history, Lossless(c, history),
         accepted' = [accepted EXCEPT ![t] = history]
  PROVE  NothingIsLost'
<1>1. /\ DOMAIN tenants' = DOMAIN tenants \cup {t} /\ tenants'[t] = c
      /\ \A u \in DOMAIN tenants : u # t => tenants'[u] = tenants[u]
  BY DEF SetTenant
<1>2. accepted'[t] = history /\ \A u \in Tenants : u # t => accepted'[u] = accepted[u]
  BY DEF Inv, TypeOK
<1>3. DOMAIN tenants \subseteq Tenants
  BY DEF Inv, TypeOK
<1>4. ASSUME NEW u \in DOMAIN tenants'
      PROVE  Lossless(tenants'[u], accepted'[u])
  <2>1. CASE u = t
    BY <1>1, <1>2, <2>1
  <2>2. CASE u # t
    <3>1. u \in DOMAIN tenants /\ tenants'[u] = tenants[u] /\ accepted'[u] = accepted[u]
      BY <1>1, <1>2, <1>3, <2>2
    <3> QED
      BY <3>1 DEF NothingIsLost
  <2> QED
    BY <2>1, <2>2
<1>5. \A u \in Tenants \ DOMAIN tenants' : accepted'[u] = <<>>
  BY <1>1, <1>2 DEF NothingIsLost
<1> QED
  BY <1>4, <1>5 DEF NothingIsLost

\* tenant_state_mut, for known and for newly registered tenants.
LEMMA TenantLossless ==
  ASSUME NothingIsLost, NEW t \in Tenants
  PROVE  Lossless(tenant_state_mut(t), accepted[t])
<1>1. CASE t \in DOMAIN tenants
  BY <1>1 DEF tenant_state_mut, NothingIsLost
<1>2. CASE t \notin DOMAIN tenants
  BY <1>2, NewLossless DEF tenant_state_mut, NothingIsLost
<1> QED
  BY <1>1, <1>2

\* Evaluate, complete or broken off.
LEMMA EvaluateLossless ==
  ASSUME NEW t, NEW d, DetectorType(d), NEW a \in Seq(Events), Lossless(d, a), Evaluate(t, d)
  PROVE  \E c : Lossless(c, a) /\ SetTenant(t, c)
<1>1. Lossless(EvaluateAll(d), a)
  BY WalkLossless DEF EvaluateAll
<1>2. \A f : Lossless(EvaluateFailsAt(d, f), a)
  BY WalkLossless DEF EvaluateFailsAt
<1> QED
  BY <1>1, <1>2 DEF Evaluate

\* Every call keeps the buffers lossless.
LEMMA NothingIsEverLost == Spec => []NothingIsLost
<1>1. Init => NothingIsLost
  BY DEF Init, NothingIsLost, NothingAccepted
<1>2. Inv /\ NothingIsLost /\ [Next]_vars => NothingIsLost'
  <2> SUFFICES ASSUME Inv, NothingIsLost, [Next]_vars
               PROVE  NothingIsLost'
    OBVIOUS
  <2>0. accepted \in [Tenants -> Seq(Events)]
    BY DEF Inv, TypeOK
  <2>1. \A t \in Tenants : UNCHANGED accepted => accepted' = [accepted EXCEPT ![t] = accepted[t]]
    BY <2>0
  <2>2. ASSUME NEW t \in Tenants, NEW e \in Events, observe_event(t, e)
        PROVE  NothingIsLost'
    <3> DEFINE s == tenant_state_mut(t)
               d == AdvanceClock(s, e.timestamp)
               a == accepted[t]
    <3>1. Sound(s, library) /\ Lossless(s, a) /\ a \in Seq(Events) /\ e.timestamp \in Int
      BY <2>0, TenantStateSound, TenantLossless, EventsTyped
    <3>2. DetectorType(s) /\ DetectorBounded(s)
      BY <3>1 DEF Sound
    <3> HIDE DEF s, a
    <3>3. DetectorType(d) /\ DetectorBounded(d) /\ d.now = e.timestamp
      BY <3>1, <3>2, AdvanceClockSound
    <3>4. ~ClockRegresses(s, e.timestamp) => Lossless(d, a)
      BY <3>1, <3>2, ClockLossless
    <3> HIDE DEF d
    <3>5. CASE ObserveRegression(t, e)
      BY <2>1, <3>1, <3>5, SetTenantLossless DEF ObserveRegression, s, a
    <3>6. CASE ObserveRejected(t, e)
      BY <2>1, <3>4, <3>6, SetTenantLossless DEF ObserveRejected, d, s, a
    <3>7. CASE ObserveAccepted(t, e)
      <4>1. /\ ~ClockRegresses(s, e.timestamp) /\ IngestError(d, e) = "accepted"
            /\ accepted' = [accepted EXCEPT ![t] = Append(a, e)]
            /\ Evaluate(t, Ingest(d, e))
        BY <2>0, <3>7 DEF ObserveAccepted, d, s, a
      <4>2. /\ DetectorType(Ingest(d, e)) /\ Append(a, e) \in Seq(Events)
            /\ Lossless(Ingest(d, e), Append(a, e))
        BY <3>1, <3>3, <3>4, <4>1, IngestSound, IngestLossless, AppendProperties
      <4> QED
        BY <4>1, <4>2, EvaluateLossless, SetTenantLossless
    <3> QED
      BY <2>2, <3>5, <3>6, <3>7 DEF observe_event
  <2>3. ASSUME NEW t \in Tenants, NEW new_time \in Times, advance_clock_for(t, new_time)
        PROVE  NothingIsLost'
    <3> DEFINE s == tenant_state_mut(t)
    <3>1. DetectorType(s) /\ Lossless(s, accepted[t]) /\ accepted[t] \in Seq(Events)
      BY <2>0, TenantStateSound, TenantLossless DEF Sound
    <3>2. /\ SetTenant(t, IF ClockRegresses(s, new_time) THEN s ELSE AdvanceClock(s, new_time))
          /\ UNCHANGED accepted
      BY <2>3 DEF advance_clock_for
    <3> HIDE DEF s
    <3>3. ~ClockRegresses(s, new_time) => Lossless(AdvanceClock(s, new_time), accepted[t])
      BY <3>1, ClockLossless, TimesTyped
    <3> QED
      BY <2>1, <3>1, <3>2, <3>3, SetTenantLossless
  <2>4. ASSUME NEW t \in Tenants, drain_fires_for(t)
        PROVE  NothingIsLost'
    <3>1. /\ DetectorType(tenants[t]) /\ Lossless(tenants[t], accepted[t])
          /\ accepted[t] \in Seq(Events) /\ Evaluate(t, tenants[t]) /\ UNCHANGED accepted
      BY <2>0, <2>4 DEF drain_fires_for, Inv, Sound, NothingIsLost
    <3> QED
      BY <2>1, <3>1, EvaluateLossless, SetTenantLossless
  <2>5. ASSUME NEW l \in Libraries, NEW new_time \in Times, rotate_library(l, new_time)
        PROVE  NothingIsLost'
    BY <2>5 DEF rotate_library, NothingIsLost, NothingAccepted
  <2>6. ASSUME UNCHANGED vars
        PROVE  NothingIsLost'
    BY <2>6 DEF vars, NothingIsLost
  <2> QED
    BY <2>2, <2>3, <2>4, <2>5, <2>6 DEF Next
<1> QED
  BY <1>1, <1>2, InvHolds, PTL DEF Spec

\* The accepted events that bucket k should be counting: an evaluator sees all of
\* them, or as many as a full ring holds.
LEMMA EvaluatorSeesLive ==
  ASSUME NEW d, DetectorType(d), Chronological(d), NEW a \in Seq(Events), Lossless(d, a),
         NEW k \in (DOMAIN d.library.patterns) \X Mandates,
         NEW live, live = {p \in MatchingPositions(d.library, a, k) : ~Aged(d, k, a[p])},
         NEW seen, seen = IF k \in DOMAIN d.buffers THEN EvictedBuffer(d, k) ELSE <<>>
  PROVE  /\ Len(seen) \in Nat /\ Cardinality(live) \in Nat
         /\ live = {} <=> Cardinality(live) = 0
         /\ \/ Cardinality(live) = Len(seen)
            \/ Len(seen) = MAX_EVENTS_PER_BUFFER /\ Cardinality(live) >= Len(seen)
<1> DEFINE positions == MatchingPositions(d.library, a, k)
<1>1. IsFiniteSet(live) /\ Cardinality(live) \in Nat
  <2>1. Len(a) \in Nat /\ live \in SUBSET (1..Len(a))
    BY LenProperties DEF MatchingPositions
  <2>2. IsFiniteSet(1..Len(a))
    BY <2>1, FS_Interval
  <2>3. IsFiniteSet(live)
    BY <2>1, <2>2, FS_Subset
  <2> QED
    BY <2>3, FS_CardinalityType
<1>2. live = {} <=> Cardinality(live) = 0
  BY <1>1, FS_EmptySet
<1>3. Keeps(d, seen, a, k) /\ seen \in Seq(Events)
  <2>1. CASE k \in DOMAIN d.buffers
    <3>1. seen = EvictedBuffer(d, k) /\ BufferOf(d, k) = d.buffers[k]
      BY <2>1 DEF BufferOf
    <3>2. EvictedBuffer(d, k) \in Seq(Events) /\ d.buffers[k] \in Seq(Events)
      BY <2>1, EvictedBufferIsSuffix DEF DetectorType
    <3>3. PICK o \in Nat : /\ IsSuffix(EvictedBuffer(d, k), d.buffers[k], o)
                           /\ \A i \in 1..o : /\ i \in 1..Len(d.buffers[k])
                                              /\ Aged(d, k, d.buffers[k][i])
      BY <2>1, EvictedBufferMissesAged
    <3>4. Keeps(d, d.buffers[k], a, k) /\ InOrder(d, a)
      BY <3>1 DEF Lossless
    <3>5. Keeps(d, EvictedBuffer(d, k), a, k)
      BY <3>2, <3>3, <3>4, EvictionKeeps
    <3> QED
      BY <3>1, <3>2, <3>5
  <2>2. CASE k \notin DOMAIN d.buffers
    <3>1. seen = BufferOf(d, k) /\ seen = <<>>
      BY <2>2 DEF BufferOf
    <3>2. Keeps(d, BufferOf(d, k), a, k)
      BY DEF Lossless
    <3>3. <<>> \in Seq(Events)
      OBVIOUS
    <3> QED
      BY <3>1, <3>2, <3>3
  <2> QED
    BY <2>1, <2>2
<1>4. PICK place \in [1..Len(seen) -> positions] :
        /\ NewestAt(seen, a, positions, place)
        /\ \A p \in positions : \/ \E i \in 1..Len(seen) : place[i] = p
                               \/ Len(seen) = MAX_EVENTS_PER_BUFFER
                               \/ Aged(d, k, a[p])
  BY <1>3 DEF Keeps
<1>5. ASSUME NEW i \in 1..Len(seen)
      PROVE  place[i] \in live
  <2>1. k \in DOMAIN d.buffers /\ seen = EvictedBuffer(d, k)
    BY <1>5
  <2>2. seen[i] = a[place[i]] /\ place[i] \in positions
    BY <1>4 DEF NewestAt
  <2>3. ~Aged(d, k, seen[i])
    <3> SUFFICES ASSUME Pattern(d, k).window_seconds # NoWindow
                 PROVE  ~(seen[i].timestamp < d.now - Pattern(d, k).window_seconds)
      BY DEF Aged
    <3> DEFINE w == Pattern(d, k).window_seconds
    <3>1. i \in DOMAIN EvictedBuffer(d, k)
      BY <1>3, <2>1, LenProperties
    <3>2. CountsOnlyLive(d)
      BY ChronologicalCountsOnlyLive
    <3>3. seen[i].timestamp >= d.now - w
      BY <2>1, <3>1, <3>2 DEF CountsOnlyLive
    <3>4. w \in Nat /\ d.now \in Int /\ seen[i].timestamp \in Int
      BY <1>3, WindowsTyped, EventsTyped, ElementOfSeq DEF Pattern, DetectorType
    <3> HIDE DEF w
    <3>5. ~(seen[i].timestamp < d.now - w)
      BY <3>3, <3>4
    <3> QED
      BY <3>5 DEF w
  <2> QED
    BY <2>2, <2>3
<1>6. /\ Len(seen) \in Nat /\ IsFiniteSet(1..Len(seen))
      /\ Cardinality(1..Len(seen)) = Len(seen)
  BY <1>3, LenProperties, FS_Interval
<1>7. place \in Injection(1..Len(seen), live)
  <2>1. \A i, j \in 1..Len(seen) : place[i] \in Int
    BY LenProperties DEF MatchingPositions
  <2>2. ASSUME NEW i \in 1..Len(seen), NEW j \in 1..Len(seen), i # j
        PROVE  place[i] # place[j]
    <3>1. i < j \/ j < i
      BY <1>6, <2>2
    <3>2. place[i] < place[j] \/ place[j] < place[i]
      BY <1>4, <3>1 DEF NewestAt
    <3> QED
      BY <2>1, <3>2
  <2>3. place \in [1..Len(seen) -> live]
    BY <1>5
  <2> QED
    BY <2>2, <2>3 DEF Injection, IsInjective
<1>8. /\ Len(seen) <= Cardinality(live)
      /\ Len(seen) = Cardinality(live) <=> place \in Surjection(1..Len(seen), live)
  BY <1>1, <1>6, <1>7, FS_Injection
<1>9. CASE \A p \in live : \E i \in 1..Len(seen) : place[i] = p
  <2>1. place \in Surjection(1..Len(seen), live)
    BY <1>7, <1>9 DEF Surjection, Injection
  <2> QED
    BY <1>1, <1>2, <1>6, <1>8, <2>1
<1>10. CASE \E p \in live : \A i \in 1..Len(seen) : place[i] # p
  <2>1. Len(seen) = MAX_EVENTS_PER_BUFFER
    BY <1>4, <1>10
  <2> QED
    BY <1>1, <1>2, <1>6, <1>8, <2>1
<1> QED
  BY <1>9, <1>10

\* What a bucket of a Count pattern fires on, by the length of what its evaluator
\* sees (nothing, when the bucket does not exist).
LEMMA CountFires ==
  ASSUME NEW d, NEW p, NEW m,
         d.library.patterns[p].firing_rule # "SequenceMatch",
         d.library.patterns[p].threshold.kind = "Count",
         NEW seen, seen = IF <<p, m>> \in DOMAIN d.buffers THEN EvictedBuffer(d, <<p, m>>) ELSE <<>>
  PROVE  <<p, m>> \in Firing(d)
           <=> /\ seen # <<>>
               /\ Len(seen) >= d.library.patterns[p].threshold.n
               /\ ~is_fire_suppressed(d, <<p, m>>)
<1>1. Pattern(d, <<p, m>>) = d.library.patterns[p]
  BY DEF Pattern
<1>2. CASE <<p, m>> \in DOMAIN d.buffers
  <2>1. seen = EvictedBuffer(d, <<p, m>>)
    BY <1>2
  <2>2. Crosses(d.library.patterns[p], seen)
          <=> seen # <<>> /\ Len(seen) >= d.library.patterns[p].threshold.n
    BY DEF Crosses, CountCrosses
  <2> QED
    BY <1>1, <1>2, <2>1, <2>2 DEF Firing
<1>3. CASE <<p, m>> \notin DOMAIN d.buffers
  BY <1>3 DEF Firing
<1> QED
  BY <1>2, <1>3

\* Two counts on the same side of a threshold that a full ring can reach.
LEMMA SameSide ==
  ASSUME NEW s \in Nat, NEW l \in Nat, NEW n \in Nat, n <= MAX_EVENTS_PER_BUFFER,
         l = s \/ (s = MAX_EVENTS_PER_BUFFER /\ l >= s)
  PROVE  /\ s >= n <=> l >= n
         /\ s = 0 <=> l = 0
BY BoundsTyped

\* A Count pattern fires for a mandate exactly on the accepted events it should:
\* what ring and window eviction drop in evaluate_all could not have mattered.
THEOREM CountsExactly == Spec => []CountFiringIsExact
<1>1. Inv /\ NothingIsLost => CountFiringIsExact
  <2> SUFFICES ASSUME Inv, NothingIsLost,
                      NEW t \in DOMAIN tenants, NEW p \in CountPatterns("Count"), NEW m \in Mandates
               PROVE  <<p, m>> \in Firing(tenants[t])
                        <=> /\ LiveAccepted(t, <<p, m>>) # {}
                            /\ Cardinality(LiveAccepted(t, <<p, m>>))
                                 >= library.patterns[p].threshold.n
                            /\ ~is_fire_suppressed(tenants[t], <<p, m>>)
    BY DEF CountFiringIsExact
  <2> DEFINE d == tenants[t]
             k == <<p, m>>
             a == accepted[t]
             live == LiveAccepted(t, k)
             seen == IF k \in DOMAIN d.buffers THEN EvictedBuffer(d, k) ELSE <<>>
             n == library.patterns[p].threshold.n
  <2>1. /\ DetectorType(d) /\ Chronological(d) /\ d.library = library
        /\ Lossless(d, a)
        /\ a \in Seq(Events)
    BY DEF Inv, TypeOK, Sound, NothingIsLost
  <2>2. /\ p \in DOMAIN library.patterns /\ library \in Libraries
        /\ library.patterns[p].firing_rule # "SequenceMatch"
        /\ library.patterns[p].threshold.kind = "Count"
        /\ n <= MAX_EVENTS_PER_BUFFER
    BY DEF CountPatterns, Inv, TypeOK
  <2>3. n \in Nat
    BY <2>2, LibrariesTyped
  <2>4. live = {i \in MatchingPositions(d.library, a, k) : ~Aged(d, k, a[i])}
    <3>1. d.now \in Int /\ library.patterns[p].window_seconds \in Nat \cup {NoWindow}
      BY <2>1, <2>2, LibrariesTyped DEF DetectorType
    <3>2. \A i \in MatchingPositions(library, a, k) : a[i].timestamp \in Int
      BY <2>1, EventsTyped, ElementOfSeq, LenProperties DEF MatchingPositions
    <3> DEFINE w == library.patterns[p].window_seconds
    <3>3. Pattern(d, k).window_seconds = w
      BY <2>1 DEF Pattern
    <3>4. LiveAccepted(t, k) = {i \in MatchingPositions(library, a, k) :
                                  w = NoWindow \/ a[i].timestamp >= d.now - w}
      BY DEF LiveAccepted
    <3>5. ASSUME NEW i \in MatchingPositions(library, a, k)
          PROVE  (w = NoWindow \/ a[i].timestamp >= d.now - w) <=> ~Aged(d, k, a[i])
      <4> DEFINE now == d.now
                 ts == a[i].timestamp
      <4>1. ts \in Int /\ now \in Int /\ (w # NoWindow => w \in Nat)
        BY <3>1, <3>2
      <4>2. Aged(d, k, a[i]) <=> w # NoWindow /\ ts < now - w
        BY <3>3 DEF Aged
      <4> HIDE DEF ts, now, w
      <4>3. (w = NoWindow \/ ts >= now - w) <=> ~Aged(d, k, a[i])
        BY <4>1, <4>2
      <4> QED
        BY <4>3 DEF ts, now, w
    <3> QED
      BY <2>1, <3>4, <3>5
  <2>5. k \in (DOMAIN d.library.patterns) \X Mandates
    BY <2>1, <2>2
  <2> HIDE DEF live
  <2>6. /\ Len(seen) \in Nat /\ Cardinality(live) \in Nat
        /\ live = {} <=> Cardinality(live) = 0
        /\ \/ Cardinality(live) = Len(seen)
           \/ Len(seen) = MAX_EVENTS_PER_BUFFER /\ Cardinality(live) >= Len(seen)
    BY <2>1, <2>4, <2>5, EvaluatorSeesLive, SMTT(30)
  <2>7. k \in Firing(d)
          <=> seen # <<>> /\ Len(seen) >= n /\ ~is_fire_suppressed(d, k)
    BY <2>1, <2>2, CountFires
  <2>8. seen = <<>> <=> Len(seen) = 0
    <3>1. k \in DOMAIN d.buffers => EvictedBuffer(d, k) \in Seq(Events)
      BY <2>1, EvictedBufferIsSuffix DEF DetectorType
    <3>2. <<>> \in Seq(Events)
      OBVIOUS
    <3>3. seen \in Seq(Events)
      BY <3>1, <3>2
    <3> HIDE DEF seen
    <3> QED
      BY <3>3, EmptySeq, LenProperties
  <2> HIDE DEF seen, n
  <2>9. /\ Len(seen) >= n <=> Cardinality(live) >= n
        /\ Len(seen) = 0 <=> Cardinality(live) = 0
    BY <2>2, <2>3, <2>6, SameSide DEF n
  <2>10. k \in Firing(d)
           <=> live # {} /\ Cardinality(live) >= n /\ ~is_fire_suppressed(d, k)
    BY <2>6, <2>7, <2>8, <2>9
  <2> QED
    BY <2>10 DEF live, n
<1> QED
  BY <1>1, InvHolds, NothingIsEverLost, PTL
=============================================================================
