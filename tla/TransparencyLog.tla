--------------------------- MODULE TransparencyLog ---------------------------
(***************************************************************************)
(* A transparency log, its operator and a verifier that holds a            *)
(* RekorKeySet.  The log and the operator are external: the log appends    *)
(* entries and signs tree heads with the key its schedule gives; the       *)
(* operator announces each key before its window opens, may announce one   *)
(* again with another window, and always plans a later window for a later  *)
(* key.  The verifier is the code of rekor.rs: it registers keys in the    *)
(* order in which announcements reach it and judges heads and inclusion    *)
(* proofs at its own clock.                                                *)
(*                                                                         *)
(* Logs of up to eight entries reach a right edge with orphans on one and  *)
(* on two levels (sizes 3, 5, 6 and 7) and both balanced shapes above      *)
(* them; three keys and four seconds let windows overlap, touch and leave  *)
(* a gap.                                                                  *)
(***************************************************************************)
EXTENDS Rekor

CONSTANTS Keys,        \* signing keys of the log
          FirstKey,    \* the key registered at start
          Foreign,     \* the identifier of another log
          MaxSize,     \* bound on the log's length
          MaxTime,     \* bound on the clock
          MaxAge,      \* the verifier's max_age
          MaxHeads     \* bound on the heads that are kept

ASSUME LogTyped ==
  /\ FirstKey \in Keys
  /\ MaxSize \in Nat \ {0}
  /\ MaxTime \in Nat /\ MaxAge \in Nat /\ MaxHeads \in Nat

\* No log is longer than the cap on proof paths allows (rekor.rs, its test of
\* expected_proof_depth: a log of 2^40 entries is not).
ASSUME ProofsFit == expected_proof_depth(0, MaxSize) <= MAX_INCLUSION_DEPTH

VARIABLES size,        \* the log holds the entries 1 .. size
          now,         \* the verifier's and the log's clock
          schedule,    \* key -> window, as first announced
          registry,    \* RekorKeySet::entries
          heads        \* the heads the log has signed

vars == <<size, now, schedule, registry, heads>>

ThisLog == "this-log"

\* RFC 9162, 2.1.1: the root of the entries lo + 1 .. lo + n, for every range
\* inside a log of MaxSize entries.
MTH[n \in 1 .. MaxSize] ==
  [lo \in 0 .. (MaxSize - n) |->
     IF n = 1 THEN leaf_hash(lo + 1)
     ELSE LET k == LargestPowerBelow(n)
          IN  inner_hash(MTH[k][lo], MTH[n - k][lo + k])]

\* RFC 9162, 2.1.3.1: the inclusion path of leaf m in the range of n entries
\* that starts behind lo.
PATH[n \in 1 .. MaxSize] ==
  [lo \in 0 .. (MaxSize - n) |->
     [m \in 0 .. (n - 1) |->
        IF n = 1 THEN <<>>
        ELSE LET k == LargestPowerBelow(n)
             IN  IF m < k THEN Append(PATH[k][lo][m], MTH[n - k][lo + k])
                          ELSE Append(PATH[n - k][lo + k][m - k], MTH[k][lo])]]

\* The key the log signs with: the one that opened last, while it is open.
SigningKeys ==
  {k \in DOMAIN schedule :
     /\ now \in schedule[k].from .. schedule[k].until
     /\ \A j \in DOMAIN schedule : schedule[j].from <= now => schedule[j].from <= schedule[k].from}

Init ==
  /\ size = 1
  /\ now = 0
  /\ \E until \in 0 .. MaxTime :
       /\ schedule = [k \in {FirstKey} |-> [from |-> 0, until |-> until]]
       /\ registry = insert_checked(<<>>, [log_id |-> ThisLog, key |-> FirstKey,
                                           valid_from |-> 0, valid_until |-> until])
  /\ heads = {}

Tick == /\ now < MaxTime
        /\ now' = now + 1
        /\ UNCHANGED <<size, schedule, registry, heads>>

Append1 == /\ size < MaxSize
           /\ size' = size + 1
           /\ UNCHANGED <<now, schedule, registry, heads>>

\* The announcement of a key reaches the verifier, which calls
\* insert_trusted_key: a new key is planned behind every other one, a known key
\* is announced once more.
Announce(k, from, until) ==
  /\ from > now
  /\ \/ k \in DOMAIN schedule /\ schedule' = schedule
     \/ /\ k \notin DOMAIN schedule
        /\ from <= until
        /\ \A j \in DOMAIN schedule : schedule[j].from < from
        /\ schedule' = [j \in DOMAIN schedule \cup {k} |->
                           IF j = k THEN [from |-> from, until |-> until] ELSE schedule[j]]
  /\ registry' = insert_checked(registry, [log_id |-> ThisLog, key |-> k,
                                           valid_from |-> from, valid_until |-> until])
  /\ UNCHANGED <<size, now, heads>>

EmitHead ==
  /\ Cardinality(heads) < MaxHeads
  /\ \E k \in SigningKeys :
       LET head == [log_id |-> ThisLog, tree_size |-> size, tree_root |-> MTH[size][0],
                    timestamp |-> now, signature |-> {}]
       IN  heads' = heads \cup {[head EXCEPT !.signature = {[pk |-> k, tbs |-> canonical_bytes(head)]}]}
  /\ UNCHANGED <<size, now, schedule, registry>>

Next == \/ Tick
        \/ Append1
        \/ EmitHead
        \/ \E k \in Keys, from, until \in 0 .. MaxTime : Announce(k, from, until)

Spec == Init /\ [][Next]_vars
-----------------------------------------------------------------------------
\* The registry holds one entry per announced key, in the order of their
\* windows, none of them inverted.
TypeOK ==
  /\ size \in 1 .. MaxSize
  /\ now \in 0 .. MaxTime
  /\ DOMAIN schedule \subseteq Keys
  /\ registry \in Seq([log_id : {ThisLog}, key : Keys, valid_from : 0 .. MaxTime, valid_until : 0 .. MaxTime])
  /\ \A i, j \in DOMAIN registry : i < j => registry[i].valid_from < registry[j].valid_from
  /\ Cardinality(heads) <= MaxHeads

\* Key rotation loses no head and revives none: whatever was announced since,
\* and however often, a head the log signed verifies exactly as long as it is
\* not older than max_age (find_for_timestamp resolves by the head's own time,
\* and insert_checked never moves a window).
HeadsVerifyExactlyWhileFresh ==
  \A head \in heads :
    (verify_rekor_sth(head, registry, now, MaxAge) = "Ok") <=> (now - head.timestamp <= MaxAge)

\* The heads someone can make of a signed one without a key.
Altered(head) ==
  {[head EXCEPT !.tree_size = n] : n \in 1 .. MaxSize} \cup
  {[head EXCEPT !.timestamp = t] : t \in 0 .. MaxTime} \cup
  {[head EXCEPT !.log_id = Foreign], [head EXCEPT !.tree_root = leaf_hash(0)]}

\* A leaf that verifies against a head that verifies is the entry the log holds
\* at the claimed index, although path, index, leaf and head come from the
\* presenter: canonical_bytes binds the size the walk depends on, and the walk
\* admits a path for one index only.
VerifiedLeavesAreLogged ==
  \A signed \in heads : \A head \in Altered(signed) :
    verify_rekor_sth(head, registry, now, MaxAge) = "Ok" =>
      \A m \in 0 .. (signed.tree_size - 1), index \in 0 .. MaxSize :
       \A leaf \in {leaf_hash(m + 1), leaf_hash(0)} :
        verify_rekor_inclusion([leaf_hash |-> leaf, proof_path |-> PATH[signed.tree_size][0][m],
                                index |-> index, tree_size |-> head.tree_size],
                               leaf, head.tree_root) = "Ok"
          => index < size /\ leaf = leaf_hash(index + 1)

\* Every entry a head covers can be proved against it with the RFC 9162 path,
\* also where the right edge of the tree has orphans: the walk of
\* verify_rekor_inclusion and expected_proof_depth agree with the recursive
\* definition of the tree.
LoggedEntriesCanBeProved ==
  \A head \in heads : \A m \in 0 .. (head.tree_size - 1) :
    verify_rekor_inclusion([leaf_hash |-> leaf_hash(m + 1), proof_path |-> PATH[head.tree_size][0][m],
                            index |-> m, tree_size |-> head.tree_size],
                           leaf_hash(m + 1), head.tree_root) = "Ok"
=============================================================================
