----------------------------- MODULE Evaluators -----------------------------
(***************************************************************************)
(* The three firing rules of evaluators.rs: does the (already evicted)     *)
(* buffer of one (pattern, mandate) bucket cross the pattern's threshold?  *)
(* A buffer is the sequence of the bucket's events, oldest arrival first.  *)
(***************************************************************************)
EXTENDS Integers, Sequences, FiniteSets, ScopeMatch

CONSTANT
  FALLBACK_FIRE_ONCE_WINDOW_SECONDS   \* dedup window of a windowless pattern (3600)

\* window_seconds = None.  A window is a u32, so -1 is none of them.
NoWindow == -1

\* The window is_fire_suppressed asks the dedup ledger about.
DedupWindow(pattern) ==
  IF pattern.window_seconds = NoWindow
    THEN FALLBACK_FIRE_ONCE_WINDOW_SECONDS
    ELSE pattern.window_seconds

count_distinct_resource_refs(buffer) ==
  Cardinality({buffer[i].resource_ref : i \in DOMAIN buffer})

\* walk[i]: the step awaited and the traversals completed after i events.  An
\* event below the awaited tier is skipped and does not reset the walk.
count_cross_tier_sequences(buffer, tiers) ==
  LET walk[i \in 0..Len(buffer)] ==
        IF i = 0 THEN [step |-> 1, completions |-> 0]
        ELSE LET w == walk[i - 1]
             IN  IF buffer[i].tier < tiers[w.step] THEN w
                 ELSE IF w.step = Len(tiers)
                        THEN [step |-> 1, completions |-> w.completions + 1]
                        ELSE [w EXCEPT !.step = @ + 1]
  IN  IF tiers = <<>> THEN 0 ELSE walk[Len(buffer)].completions

\* completions[i]: the bursts the scan finds from position i on.  The first
\* buffered event counts as preceded by silence; the scan resumes behind a burst.
count_silence_then_burst(buffer, silence, burst, needed) ==
  LET SilenceBefore(i) ==
        i = 1 \/ buffer[i].timestamp - buffer[i - 1].timestamp >= silence
      Burst(i) == buffer[i + needed - 1].timestamp - buffer[i].timestamp <= burst
      completions[i \in 1..(Len(buffer) + 1)] ==
        IF i + needed - 1 > Len(buffer) THEN 0
        ELSE IF SilenceBefore(i) /\ Burst(i)
               THEN 1 + completions[i + needed]
               ELSE completions[i + 1]
  IN  IF needed = 0 THEN 0 ELSE completions[1]

\* evaluate_first_match and evaluate_cumulative_over_baseline count events or
\* distinct resources; any other threshold shape never fires.
CountCrosses(pattern, buffer) ==
  \/ /\ pattern.threshold.kind = "Count"
     /\ Len(buffer) >= pattern.threshold.n
  \/ /\ pattern.threshold.kind = "DistinctCount"
     /\ count_distinct_resource_refs(buffer) >= pattern.threshold.n

\* evaluate_sequence_match counts completions of the scope's own sequence.
SequenceCrosses(pattern, buffer) ==
  /\ pattern.threshold.kind = "Sequence"
  /\ \/ /\ pattern.scope.kind = "CrossTierSequence"
        /\ count_cross_tier_sequences(buffer, pattern.scope.tier_progression)
             >= pattern.threshold.n
     \/ /\ pattern.scope.kind = "SilenceThenBurst"
        /\ count_silence_then_burst(buffer, pattern.scope.silence_seconds,
                                    pattern.scope.burst_seconds,
                                    pattern.scope.burst_threshold)
             >= pattern.threshold.n

\* The evaluator gets as far as is_fire_suppressed: a sequence rule with another
\* threshold shape returns before it asks the ledger.
AsksLedger(pattern) ==
  pattern.firing_rule = "SequenceMatch" => pattern.threshold.kind = "Sequence"

\* The dispatch on firing_rule.  An empty buffer has no sample event and never
\* fires, even at a threshold of 0.
Crosses(pattern, buffer) ==
  /\ buffer # <<>>
  /\ IF pattern.firing_rule = "SequenceMatch"
       THEN SequenceCrosses(pattern, buffer)
       ELSE CountCrosses(pattern, buffer)
=============================================================================
