-------------------------- MODULE MCDetectorWorker --------------------------
(***************************************************************************)
(* A small worker: two patterns, two mandates, late and early events.      *)
(***************************************************************************)
EXTENDS DetectorWorker, TLC

AnyMandate == [mandate_id |-> {}, integration_ref |-> {}]

Storm ==
  [window_seconds |-> 2, firing_rule |-> "FirstMatch",
   threshold |-> [kind |-> "Count", n |-> 2],
   scope |-> [kind |-> "IamAttachFamily", verb_family |-> "iam-attach",
              mandate_scope |-> AnyMandate]]

\* Windowless, bound to mandate 1, fires on the first event.
Branches ==
  [window_seconds |-> NoWindow, firing_rule |-> "CumulativeOverBaseline",
   threshold |-> [kind |-> "Count", n |-> 1],
   scope |-> [kind |-> "ProtectedBranches",
              mandate_scope |-> [mandate_id |-> {1}, integration_ref |-> {"i1"}]]]

Depth ==
  [window_seconds |-> NoWindow, firing_rule |-> "FirstMatch",
   threshold |-> [kind |-> "ChainDepth", n |-> 1],
   scope |-> [kind |-> "DelegationDepth"]]

MCLibrary == [version |-> 1, patterns |-> (1 :> Storm @@ 2 :> Branches @@ 3 :> Depth)]
MCLibraries == {MCLibrary}

Event(m, ts, verb) ==
  [mandate_id |-> m, timestamp |-> ts, verb |-> verb, resource_kind |-> "role",
   resource_ref |-> "r1", integration |-> "i1", tier |-> 1]

\* Stamped behind, at and ahead of the clock; too late and too early ones too.
MCTimes == {0, 3}
MCEvents ==
  {Event(1, ts, "attachrolepolicy") : ts \in {0, 1, 3, 4}}
    \cup {Event(2, 2, "attachuserpolicy")}
=============================================================================
