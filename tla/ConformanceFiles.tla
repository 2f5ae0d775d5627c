-------------------------- MODULE ConformanceFiles --------------------------
(***************************************************************************)
(* The directory conformance/, which the vector signer writes and the      *)
(* command line reads.  A document is a suite and the keys of its vectors: *)
(* their ids, as far as these tell the vectors apart.                      *)
(* A file may also be absent, or torn: cut short by a writer that was      *)
(* stopped, or is still at it.                                             *)
(***************************************************************************)
EXTENDS Naturals, Sequences, FiniteSets

CONSTANTS
  Documents,      \* file names
  Aliases,        \* key -> id, where they differ
  Nonconforming,  \* keys of vectors that schema.json refuses
  InitialDisks    \* the directories to start from

VARIABLE disk     \* file name -> content

Document(suite, vectors) == [state |-> "whole", suite |-> suite, vectors |-> vectors]
Absent == [state |-> "absent", suite |-> "none", vectors |-> <<>>]
Torn == [state |-> "torn", suite |-> "none", vectors |-> <<>>]

IdOf(key) == IF key \in DOMAIN Aliases THEN Aliases[key] ELSE key

Ids(doc) == {IdOf(doc.vectors[i]) : i \in DOMAIN doc.vectors}

\* At most one vector of each id.
IdsAreDistinct(doc) == Cardinality(Ids(doc)) = Len(doc.vectors)

Contents == {Absent, Torn} \cup [state : {"whole"}, suite : STRING, vectors : Seq(STRING)]

\* A checked-out directory: no writer has been at work in it.
ASSUME InitialDisksTyped ==
  \A files \in InitialDisks :
    /\ files \in [Documents -> Contents]
    /\ \A d \in Documents : files[d].state # "torn" /\ IdsAreDistinct(files[d])
=============================================================================
