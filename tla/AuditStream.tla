----------------------------- MODULE AuditStream -----------------------------
(***************************************************************************)
(* Audit-stream input (event.rs): a stream is either a literal list of     *)
(* events or a pattern description, a template that is expanded into count *)
(* events one interval apart.                                              *)
(*                                                                         *)
(* A description is [start_time, count, interval_seconds, template,        *)
(* resource_ref_pattern, indexed]: start_time is the set of the instants   *)
(* the RFC-3339 text denotes (at most one), indexed says whether the       *)
(* pattern holds the placeholder {i}.  A resource reference is a pair      *)
(* <<name, index>>, so that the expansion of {i} is visible.               *)
(***************************************************************************)
EXTENDS Integers, Sequences, TLAPS

CONSTANT MAX_EXPANDED_EVENTS   \* 100 000

ASSUME ExpansionCapTyped == MAX_EXPANDED_EVENTS \in Nat

\* Mutant: the cap looks at the number of events and not at the time they span.
ExpansionExceeded_CountOnly(pd) == pd.count > MAX_EXPANDED_EVENTS

\* count * max(interval_seconds, 1) is above the cap.  Written as a division, so
\* that a product checked_mul would refuse is refused here too.
ExpansionExceeded(pd) ==
  LET interval_for_bound == IF pd.interval_seconds = 0 THEN 1 ELSE pd.interval_seconds
  IN  pd.count > MAX_EXPANDED_EVENTS \div interval_for_bound

\* The checks of expand in order; the first that fails names the StreamError.
ExpandError(pd) ==
  IF pd.count = 0 THEN "PatternDescriptionCountZero"
  ELSE IF pd.count > 1 /\ pd.interval_seconds = 0 THEN "ZeroIntervalWithMultipleEvents"
  ELSE IF pd.count > 1 /\ ~pd.indexed THEN "PatternMissingIndexPlaceholder"
  ELSE IF ExpansionExceeded(pd) THEN "ExpansionExceeded"
  ELSE IF pd.start_time = {} THEN "TimestampParseFailed"
  ELSE "ok"

StartOf(pd) == CHOOSE t \in pd.start_time : TRUE

\* Event number i (from 0) of an accepted description.
ExpandedEvent(pd, i) ==
  [timestamp     |-> StartOf(pd) + i * pd.interval_seconds,
   resource_ref  |-> <<pd.resource_ref_pattern, IF pd.indexed THEN i ELSE 0>>,
   mandate_id    |-> pd.template.mandate_id,
   tier          |-> pd.template.tier,
   integration   |-> pd.template.integration,
   verb          |-> pd.template.verb,
   resource_kind |-> pd.template.resource_kind]

expand(pd) ==
  IF ExpandError(pd) = "ok"
    THEN [error |-> "ok", events |-> [j \in 1..pd.count |-> ExpandedEvent(pd, j - 1)]]
    ELSE [error |-> ExpandError(pd), events |-> <<>>]

\* AuditStreamInput::normalize.  A literal stream is taken as it is, unchecked.
normalize(stream) ==
  IF stream.kind = "literal" THEN [error |-> "ok", events |-> stream.events]
                             ELSE expand(stream.description)

-----------------------------------------------------------------------------

\* What normalize promises of a description: an accepted one yields at most the
\* cap's number of events, in strictly increasing time, all within the cap's span
\* of the first and on resources of their own.
ExpansionIsWellFormed(pd) ==
  LET events == expand(pd).events
  IN  /\ Len(events) <= MAX_EXPANDED_EVENTS
      /\ \A i, j \in DOMAIN events :
           i < j => /\ events[i].timestamp < events[j].timestamp
                    /\ events[j].timestamp - events[i].timestamp <= MAX_EXPANDED_EVENTS
                    /\ events[i].resource_ref # events[j].resource_ref

DescriptionTyped(pd) ==
  /\ pd.count \in Nat
  /\ pd.interval_seconds \in Nat
  /\ pd.start_time \subseteq Int

\* The division in ExpansionExceeded bounds the product it stands for.
LEMMA DivisionBoundsProduct ==
  ASSUME NEW n \in Nat, NEW d \in Nat, d > 0, NEW cap \in Nat, n <= cap \div d
  PROVE  n <= cap /\ n * d <= cap
<1>1. n * d <= cap
  OBVIOUS
<1>2. n <= n * d
  OBVIOUS
<1>. QED  BY <1>1, <1>2

\* Instants that are n > 0 intervals apart.
LEMMA Spacing ==
  ASSUME NEW start \in Int, NEW i \in Nat, NEW j \in Nat, NEW d \in Nat,
         i < j, d > 0
  PROVE  /\ start + i * d < start + j * d
         /\ (start + j * d) - (start + i * d) <= j * d
  OBVIOUS

\* Events expanded from a description that is accepted.
LEMMA AcceptedDescription ==
  ASSUME NEW pd, DescriptionTyped(pd), ExpandError(pd) = "ok"
  PROVE  /\ StartOf(pd) \in Int
         /\ pd.count \in Nat \ {0}
         /\ pd.count <= MAX_EXPANDED_EVENTS
         /\ pd.count > 1 => /\ pd.indexed
                            /\ pd.interval_seconds > 0
                            /\ pd.count * pd.interval_seconds <= MAX_EXPANDED_EVENTS
<1>. DEFINE b == IF pd.interval_seconds = 0 THEN 1 ELSE pd.interval_seconds
<1>1. /\ pd.start_time # {} /\ pd.count # 0
      /\ ~(pd.count > 1 /\ pd.interval_seconds = 0)
      /\ ~(pd.count > 1 /\ ~pd.indexed)
      /\ ~(pd.count > MAX_EXPANDED_EVENTS \div b)
  BY DEF ExpandError, ExpansionExceeded
<1>2. b \in Nat /\ b > 0
  BY DEF DescriptionTyped
<1>3. MAX_EXPANDED_EVENTS \div b \in Int
  BY <1>2, ExpansionCapTyped
<1>. HIDE DEF b
<1>4. pd.count <= MAX_EXPANDED_EVENTS /\ pd.count * b <= MAX_EXPANDED_EVENTS
  BY <1>1, <1>2, <1>3, DivisionBoundsProduct, ExpansionCapTyped DEF DescriptionTyped
<1>5. StartOf(pd) \in Int
  BY <1>1 DEF StartOf, DescriptionTyped
<1>6. pd.count > 1 => b = pd.interval_seconds
  BY <1>1 DEF b
<1>. QED  BY <1>1, <1>2, <1>4, <1>5, <1>6 DEF DescriptionTyped

\* The guarantee of normalize holds for every description (PatternDescription::expand).
THEOREM ExpansionBounded ==
  ASSUME NEW pd, DescriptionTyped(pd)
  PROVE  ExpansionIsWellFormed(pd)
<1>1. CASE ExpandError(pd) # "ok"
  <2>1. expand(pd).events = <<>>
    BY <1>1 DEF expand
  <2>. QED  BY <2>1, ExpansionCapTyped DEF ExpansionIsWellFormed
<1>2. CASE ExpandError(pd) = "ok"
  <2>. DEFINE events == expand(pd).events
  <2>1. events = [j \in 1..pd.count |-> ExpandedEvent(pd, j - 1)]
    BY <1>2 DEF expand
  <2>2. /\ StartOf(pd) \in Int /\ pd.count \in Nat \ {0} /\ pd.count <= MAX_EXPANDED_EVENTS
        /\ pd.count > 1 => /\ pd.indexed /\ pd.interval_seconds > 0
                           /\ pd.count * pd.interval_seconds <= MAX_EXPANDED_EVENTS
    BY <1>2, AcceptedDescription
  <2>3. Len(events) = pd.count /\ DOMAIN events = 1..pd.count
    BY <2>1, <2>2
  <2>4. ASSUME NEW i \in 1..pd.count, NEW j \in 1..pd.count, i < j
        PROVE  /\ events[i].timestamp < events[j].timestamp
               /\ events[j].timestamp - events[i].timestamp <= MAX_EXPANDED_EVENTS
               /\ events[i].resource_ref # events[j].resource_ref
    <3>1. /\ pd.indexed /\ pd.interval_seconds \in Nat /\ pd.interval_seconds > 0
          /\ pd.count * pd.interval_seconds <= MAX_EXPANDED_EVENTS
      BY <2>2, <2>4 DEF DescriptionTyped
    <3>2. /\ events[i].timestamp = StartOf(pd) + (i - 1) * pd.interval_seconds
          /\ events[j].timestamp = StartOf(pd) + (j - 1) * pd.interval_seconds
      BY <2>1, <2>2 DEF ExpandedEvent
    <3>3. /\ events[i].resource_ref = <<pd.resource_ref_pattern, i - 1>>
          /\ events[j].resource_ref = <<pd.resource_ref_pattern, j - 1>>
      BY <2>1, <2>2, <3>1 DEF ExpandedEvent
    <3>4. (j - 1) * pd.interval_seconds <= pd.count * pd.interval_seconds
      BY <2>2, <3>1
    <3>5. /\ events[i].timestamp < events[j].timestamp
          /\ events[j].timestamp - events[i].timestamp <= (j - 1) * pd.interval_seconds
      BY <2>2, <2>4, <3>1, <3>2, Spacing
    <3>6. events[i].timestamp \in Int /\ events[j].timestamp \in Int
      BY <2>2, <3>1, <3>2
    <3>. QED
      BY <2>2, <2>4, <3>1, <3>3, <3>4, <3>5, <3>6, ExpansionCapTyped
  <2>5. \A i, j \in DOMAIN events :
          i < j => /\ events[i].timestamp < events[j].timestamp
                   /\ events[j].timestamp - events[i].timestamp <= MAX_EXPANDED_EVENTS
                   /\ events[i].resource_ref # events[j].resource_ref
    BY <2>3, <2>4
  <2>. QED  BY <2>2, <2>3, <2>5 DEF ExpansionIsWellFormed
<1>. QED  BY <1>1, <1>2
=============================================================================
