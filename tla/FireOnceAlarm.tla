---------------------------- MODULE FireOnceAlarm ----------------------------
(***************************************************************************)
(* What a detector promises its consumers about repetition, and nothing    *)
(* else: alarms come in batches, a batch carries one instant, and a pair   *)
(* is in a batch only if its previous alarm is at least its gap older.     *)
(***************************************************************************)
EXTENDS Integers, Sequences

CONSTANTS
  Pairs,      \* what an alarm is about: a pattern and a mandate
  Gap,        \* pair -> least time between two of its alarms
  Instants    \* the clock values

VARIABLE fired   \* pair -> the instants of its alarms, in the order given

Init == fired = [p \in Pairs |-> <<>>]

MayFire(p, now) == fired[p] # <<>> => now - fired[p][Len(fired[p])] >= Gap[p]

Fire(S, now) ==
  /\ \A p \in S : MayFire(p, now)
  /\ fired' = [p \in Pairs |-> IF p \in S THEN Append(fired[p], now) ELSE fired[p]]

Next == \E S \in SUBSET Pairs, now \in Instants : Fire(S, now)

Spec == Init /\ [][Next]_fired
=============================================================================
