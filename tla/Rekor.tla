-------------------------------- MODULE Rekor --------------------------------
(***************************************************************************)
(* The Rekor transparency-log verifier of ephemeral-attestation: the       *)
(* Merkle inclusion walk, the registry of log keys and the check of a      *)
(* signed tree head (rekor.rs).                                            *)
(*                                                                         *)
(* Hashes are free terms: a leaf hash is a one-tuple and an inner node the *)
(* pair of its children, so two hashes are equal exactly when their        *)
(* preimages are (the 0x00 and 0x01 prefixes keep leaves and nodes apart). *)
(***************************************************************************)
EXTENDS Integers, Sequences, FiniteSetsExt

MAX_INCLUSION_DEPTH == 40
MAX_STH_AGE_SECONDS == 86400

leaf_hash(entry) == <<entry>>
inner_hash(left, right) == <<left, right>>

\* 1 << m.ilog2(): the largest power of two up to m.
HighestBit[m \in Nat \ {0}] == IF m = 1 THEN 1 ELSE 2 * HighestBit[m \div 2]

LargestPowerBelow(n) == HighestBit[n - 1]

\* Each descent into D[0:k] or D[k:n] contributes one sibling.
ProofDepth[n \in Nat \ {0}] ==
  [m \in 0 .. (n - 1) |->
     IF n = 1 THEN 0
     ELSE LET k == LargestPowerBelow(n)
          IN  1 + (IF m < k THEN ProofDepth[k][m] ELSE ProofDepth[n - k][m - k])]

expected_proof_depth(index, tree_size) == ProofDepth[tree_size][index]

\* The inner loop: while the position is even and not zero, it and the right edge
\* are shifted together.
OrphansSkipped[fn \in Nat] ==
  [sn \in Nat |-> IF fn % 2 = 1 \/ fn = 0 THEN [fn |-> fn, sn |-> sn]
                  ELSE OrphansSkipped[fn \div 2][sn \div 2]]

\* Mutant: the parity walk, right only where the right edge has no orphan.
WalkStep_Parity(w, sibling) ==
  [current |-> IF w.fn % 2 = 1 THEN inner_hash(sibling, w.current)
                               ELSE inner_hash(w.current, sibling),
   fn |-> w.fn \div 2,
   sn |-> w.sn \div 2]

\* One sibling of the path: fn is the node's position on its level, sn the
\* position of the right edge.
WalkStep(w, sibling) ==
  LET on_the_right == w.fn % 2 = 1 \/ w.fn = w.sn
      below == IF on_the_right THEN OrphansSkipped[w.fn][w.sn] ELSE w
  IN  [current |-> IF on_the_right THEN inner_hash(sibling, w.current)
                                   ELSE inner_hash(w.current, sibling),
       fn |-> below.fn \div 2,
       sn |-> below.sn \div 2]

\* The root that the proof path reconstructs.
WalkedRoot(entry) ==
  LET walk[i \in 0 .. Len(entry.proof_path)] ==
        IF i = 0 THEN [current |-> entry.leaf_hash, fn |-> entry.index, sn |-> entry.tree_size - 1]
        ELSE WalkStep(walk[i - 1], entry.proof_path[i])
  IN  walk[Len(entry.proof_path)].current

\* "Ok" or "RekorProofInvalid".
verify_rekor_inclusion(entry, payload_hash, tree_root) ==
  IF /\ entry.tree_size > 0
     /\ entry.index < entry.tree_size
     /\ Len(entry.proof_path) <= MAX_INCLUSION_DEPTH
     /\ Len(entry.proof_path) = expected_proof_depth(entry.index, entry.tree_size)
     /\ entry.leaf_hash = payload_hash
     /\ WalkedRoot(entry) = tree_root
    THEN "Ok" ELSE "RekorProofInvalid"

\* Mutant: the signature leaves the size of the tree open.
canonical_bytes_NoSize(sth) == <<sth.log_id, sth.tree_root, sth.timestamp>>

\* RekorSignedTreeHead::canonical_bytes binds every field but the signature.
canonical_bytes(sth) == <<sth.log_id, sth.tree_size, sth.tree_root, sth.timestamp>>

\* Mutant: registering a known key again replaces its window.
insert_checked_Extends(entries, e) ==
  IF e.valid_from > e.valid_until THEN entries
  ELSE Append(SelectSeq(entries, LAMBDA o : <<o.log_id, o.key>> # <<e.log_id, e.key>>), e)

\* RekorKeySet::insert_checked: an inverted window is refused, and a known key
\* keeps the window it was first registered with.
insert_checked(entries, e) ==
  IF \/ e.valid_from > e.valid_until
     \/ \E i \in DOMAIN entries : entries[i].log_id = e.log_id /\ entries[i].key = e.key
    THEN entries ELSE Append(entries, e)

\* The entries of a log whose window covers ts.
Covering(entries, log_id, ts) ==
  {i \in DOMAIN entries : entries[i].log_id = log_id /\ ts \in entries[i].valid_from .. entries[i].valid_until}

\* Mutant: the first registered key that covers ts.
find_for_timestamp_First(entries, log_id, ts) ==
  LET active == Covering(entries, log_id, ts)
  IN  IF active = {} THEN {} ELSE {entries[Min(active)].key}

\* RekorKeySet::find_for_timestamp: the latest valid_from wins, and of several
\* with the same one the last registered (max_by_key).  A set of at most one key.
find_for_timestamp(entries, log_id, ts) ==
  LET active == Covering(entries, log_id, ts)
      newest == {i \in active : \A j \in active : entries[j].valid_from <= entries[i].valid_from}
  IN  IF active = {} THEN {} ELSE {entries[Max(newest)].key}

\* verify_rekor_sth.  A signature that is not 64 bytes long is {}.
verify_rekor_sth(sth, entries, current_time, max_age) ==
  LET keys == find_for_timestamp(entries, sth.log_id, sth.timestamp)
  IN  IF sth.timestamp > current_time THEN "RekorProofInvalid"
      ELSE IF keys = {} THEN "RekorLogUntrusted"
      ELSE IF sth.signature = {} THEN "RekorProofInvalid"
      ELSE IF \A k \in keys : sth.signature # {[pk |-> k, tbs |-> canonical_bytes(sth)]}
        THEN "RekorProofInvalid"
      ELSE IF current_time - sth.timestamp > max_age THEN "RekorSthStale"
      ELSE "Ok"
=============================================================================
