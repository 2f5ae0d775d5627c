------------------------ MODULE MCAuditOrchestrator ------------------------
(***************************************************************************)
(* Small instances of the orchestrator: libraries, events and clock values *)
(* for TLC.                                                                *)
(***************************************************************************)
EXTENDS AuditOrchestrator, TLC

AnyMandate == [mandate_id |-> {}, integration_ref |-> {}]

\* Counts destructive verbs: 2 within 1 second.
Storm ==
  [window_seconds |-> 1, firing_rule |-> "FirstMatch",
   threshold |-> [kind |-> "Count", n |-> 2],
   scope |-> [kind |-> "VerbResourceMandate", verb |-> [kind |-> "AnyDestructive"],
              resource_kind |-> {}, mandate_scope |-> AnyMandate]]

\* Distinct resources: 2 within 3 seconds.
Fanout ==
  [window_seconds |-> 3, firing_rule |-> "CumulativeOverBaseline",
   threshold |-> [kind |-> "DistinctCount", n |-> 2],
   scope |-> [kind |-> "VerbFanout", verb |-> [kind |-> "Exact", verb |-> "delete"],
              mandate_scope |-> AnyMandate]]

\* One traversal of the tiers 1, 2, without a window.
Escalation ==
  [window_seconds |-> NoWindow, firing_rule |-> "SequenceMatch",
   threshold |-> [kind |-> "Sequence", n |-> 1],
   scope |-> [kind |-> "CrossTierSequence", tier_progression |-> <<1, 2>>,
              mandate_scope |-> AnyMandate]]

\* A burst of 2 within 1 second after 2 seconds of silence.
Burst ==
  [window_seconds |-> 2, firing_rule |-> "SequenceMatch",
   threshold |-> [kind |-> "Sequence", n |-> 1],
   scope |-> [kind |-> "SilenceThenBurst", silence_seconds |-> 2,
              burst_seconds |-> 1, burst_threshold |-> 2]]

\* Any event, windowless: fires on every second event.
Pace ==
  [window_seconds |-> NoWindow, firing_rule |-> "CumulativeOverBaseline",
   threshold |-> [kind |-> "Count", n |-> 2],
   scope |-> [kind |-> "MandatePace", tier_floor |-> 1,
              exclude_verb_category |-> {"read-only"}]]

LibraryA == [version |-> 1, patterns |-> (1 :> Storm @@ 2 :> Escalation @@ 3 :> Burst)]
LibraryB == [version |-> 2, patterns |-> (1 :> Pace @@ 4 :> Fanout)]

MCLibraries == {LibraryA, LibraryB}

Event(m, ts, verb, ref, tier) ==
  [mandate_id |-> m, timestamp |-> ts, verb |-> verb, resource_kind |-> "node",
   resource_ref |-> ref, integration |-> "i1", tier |-> tier]

\* One mandate with every kind of event, one with a single kind.
MCTimes == {0, 3}
MCEvents ==
  {Event(1, ts, s[1], s[2], s[3]) :
     ts \in 0..4, s \in {<<"delete", "r1", 1>>, <<"drop", "r2", 2>>}}
    \cup {Event(1, ts, "get", "r1", 2) : ts \in {1, 3}}
    \cup {Event(2, ts, "delete", "r2", 1) : ts \in {1, 2, 4}}

-----------------------------------------------------------------------------
(* Instances on which a comment of the code is refuted.                    *)

SteadyLibraries == {[version |-> 1, patterns |-> (3 :> Burst)]}
SteadyEvents == {Event(1, ts, "get", "r1", 1) : ts \in 0..4}

FanoutLibraries ==
  {[version |-> 1, patterns |-> (4 :> [Fanout EXCEPT !.threshold.n = 3])]}
FanoutEvents == {Event(1, ts, "delete", r, 1) : ts \in 0..1, r \in {"r1", "r2", "r3"}}
=============================================================================
