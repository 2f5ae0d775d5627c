------------------------- MODULE ConformanceProofs -------------------------
(***************************************************************************)
(* The vector signer, the command line and the classifier host, each by    *)
(* itself and for every environment: what holds of the directory whatever  *)
(* commands are run and stopped, of the report whatever is written into    *)
(* the directory meanwhile, and of the host whatever it has to run.  At    *)
(* the end, that their composition implements each of the three, so that   *)
(* all of this holds of the tooling at work.                               *)
(***************************************************************************)
EXTENDS Conformance, SequenceTheorems, FiniteSetTheorems, WellFoundedInduction, TLAPS

\* Every nonempty set of natural numbers has a least one.
LEMMA LeastNumber ==
  ASSUME NEW T \in SUBSET Nat, T # {}
  PROVE  \E x \in T : \A y \in T : x <= y
<1>1. PICK x \in T : \A y \in T : ~(<<y, x>> \in OpToRel(<, Nat))
  BY NatLessThanWellFounded, WFMin, Zenon
<1>2. \A y \in T : ~(y < x)
  BY <1>1, Zenon DEF OpToRel
<1> QED
  BY <1>2

-----------------------------------------------------------------------------
(* The signer.                                                             *)

\* No two vectors of the sequence have one id.
Injective(vectors) ==
  \A i, j \in 1..Len(vectors) : IdOf(vectors[i]) = IdOf(vectors[j]) => i = j

IdsIn(vectors) == {IdOf(vectors[i]) : i \in 1..Len(vectors)}

LEMMA IdsOfDocument ==
  ASSUME NEW doc, doc.vectors \in Seq(STRING)
  PROVE  /\ Ids(doc) = IdsIn(doc.vectors)
         /\ IdsAreDistinct(doc) <=> Injective(doc.vectors)
<1> DEFINE v == doc.vectors
           f == [i \in 1..Len(v) |-> IdOf(v[i])]
<1>1. Len(v) \in Nat /\ DOMAIN v = 1..Len(v)
  BY LenProperties
<1>2. Ids(doc) = IdsIn(v)
  BY <1>1 DEF Ids, IdsIn
<1>3. IsFiniteSet(1..Len(v)) /\ Cardinality(1..Len(v)) = Len(v)
  BY <1>1, FS_Interval
<1>4. f \in Surjection(1..Len(v), IdsIn(v))
  BY DEF Surjection, IdsIn
<1>5. Cardinality(IdsIn(v)) = Len(v) <=> f \in Injection(1..Len(v), IdsIn(v))
  BY <1>3, <1>4, FS_Surjection
<1>6. f \in Injection(1..Len(v), IdsIn(v)) <=> Injective(v)
  BY <1>4 DEF Injection, IsInjective, Injective, Surjection
<1> QED
  BY <1>2, <1>5, <1>6 DEF IdsAreDistinct

\* append_vectors: no id is lost, and none comes twice.
LEMMA ExtendedSound ==
  ASSUME NEW v \in Seq(STRING), NEW new \in Seq(STRING), Injective(v), Injective(new),
         \A i \in 1..Len(new), j \in 1..Len(v) : IdOf(v[j]) # IdOf(new[i])
  PROVE  /\ v \o new \in Seq(STRING)
         /\ Injective(v \o new)
         /\ IdsIn(v) \subseteq IdsIn(v \o new)
<1> DEFINE w == v \o new
<1>1. /\ Len(v) \in Nat /\ Len(new) \in Nat
      /\ w \in Seq(STRING) /\ Len(w) = Len(v) + Len(new)
      /\ \A i \in 1..Len(w) : w[i] = IF i <= Len(v) THEN v[i] ELSE new[i - Len(v)]
  BY ConcatProperties, LenProperties
<1> HIDE DEF w
<1>2. \A i \in 1..Len(w) : \/ i \in 1..Len(v) /\ w[i] = v[i]
                           \/ i > Len(v) /\ i - Len(v) \in 1..Len(new) /\ w[i] = new[i - Len(v)]
  BY <1>1
<1>3. Injective(w)
  <2> SUFFICES ASSUME NEW i \in 1..Len(w), NEW j \in 1..Len(w), IdOf(w[i]) = IdOf(w[j])
               PROVE  i = j
    BY DEF Injective
  <2>1. CASE i \in 1..Len(v) /\ w[i] = v[i] /\ j \in 1..Len(v) /\ w[j] = v[j]
    BY <2>1 DEF Injective
  <2>2. CASE /\ i - Len(v) \in 1..Len(new) /\ w[i] = new[i - Len(v)]
             /\ j - Len(v) \in 1..Len(new) /\ w[j] = new[j - Len(v)]
    <3>1. i - Len(v) = j - Len(v)
      BY <2>2 DEF Injective
    <3> QED
      BY <1>1, <3>1
  <2> QED
    BY <1>2, <2>1, <2>2
<1>4. IdsIn(v) \subseteq IdsIn(w)
  <2>1. \A i \in 1..Len(v) : i \in 1..Len(w) /\ w[i] = v[i]
    BY <1>1
  <2> QED
    BY <2>1 DEF IdsIn
<1> QED
  BY <1>1, <1>3, <1>4 DEF w

\* One patch: no id is lost, and none comes twice.
LEMMA PatchOneSound ==
  ASSUME NEW v \in Seq(STRING), NEW patch \in STRING, Injective(v)
  PROVE  /\ PatchOne(v, patch) \in Seq(STRING)
         /\ Injective(PatchOne(v, patch))
         /\ IdsIn(v) \subseteq IdsIn(PatchOne(v, patch))
<1> DEFINE hits == Positions(v, patch)
           w == PatchOne(v, patch)
<1>1. Len(v) \in Nat /\ DOMAIN v = 1..Len(v) /\ v \in [1..Len(v) -> STRING]
  BY LenProperties
<1>2. CASE hits = {}
  <2>0. w = Append(v, patch)
    BY <1>2 DEF PatchOne
  <2> HIDE DEF w
  <2>1. w \in Seq(STRING) /\ Len(w) = Len(v) + 1
    <3>1. Append(v, patch) \in Seq(STRING) /\ Len(Append(v, patch)) = Len(v) + 1
      BY AppendProperties
    <3> QED
      BY <2>0, <3>1, Zenon
  <2>2. w[Len(v) + 1] = patch /\ \A i \in 1..Len(v) : w[i] = v[i]
    BY <2>0, AppendProperties
  <2>3. \A i \in 1..Len(v) : IdOf(v[i]) # IdOf(patch)
    BY <1>1, <1>2 DEF Positions
  <2>4. Injective(w)
    <3> SUFFICES ASSUME NEW i \in 1..Len(w), NEW j \in 1..Len(w), IdOf(w[i]) = IdOf(w[j])
                 PROVE  i = j
      BY DEF Injective
    <3>1. \A k \in 1..Len(w) : (k \in 1..Len(v) /\ w[k] = v[k]) \/ (k = Len(v) + 1 /\ w[k] = patch)
      <4> DEFINE n == Len(v)
      <4>1. n \in Nat /\ Len(w) = n + 1
        BY <1>1, <2>1
      <4> HIDE DEF n
      <4>2. \A k \in 1..Len(w) : k \in 1..n \/ k = n + 1
        BY <4>1
      <4> QED
        BY <2>2, <4>2 DEF n
    <3> QED
      BY <3>1, <2>3 DEF Injective
  <2>5. IdsIn(v) \subseteq IdsIn(w)
    <3>1. \A i \in 1..Len(v) : i \in 1..Len(w) /\ w[i] = v[i]
      BY <1>1, <2>1, <2>2
    <3> QED
      BY <3>1 DEF IdsIn
  <2> QED
    BY <2>1, <2>4, <2>5 DEF w
<1>3. CASE hits # {}
  <2> DEFINE k == First(hits)
  <2>1. hits \subseteq 1..Len(v)
    BY <1>1 DEF Positions
  <2>2. \E i \in hits : \A j \in hits : i <= j
    <3> HIDE DEF hits
    <3>1. hits \in SUBSET Nat
      BY <1>1, <2>1
    <3> QED
      BY <1>3, <3>1, LeastNumber
  <2>3. k \in 1..Len(v) /\ IdOf(v[k]) = IdOf(patch)
    <3>1. k \in hits
      BY <2>2 DEF First
    <3> QED
      BY <1>1, <3>1 DEF Positions
  <2>4. w = [v EXCEPT ![k] = patch]
    BY <1>3 DEF PatchOne
  <2> HIDE DEF k, w
  <2>5. w \in Seq(STRING) /\ Len(w) = Len(v)
    <3> DEFINE n == Len(v)
    <3>1. n \in Nat /\ v \in [1..n -> STRING] /\ k \in 1..n
      BY <1>1, <2>3
    <3> HIDE DEF n
    <3>2. w \in [1..n -> STRING]
      BY <2>4, <3>1
    <3>3. w \in Seq(STRING) /\ Len(w) = n
      BY <3>1, <3>2
    <3> QED
      BY <3>3 DEF n
  <2>6. \A i \in 1..Len(v) : IdOf(w[i]) = IdOf(v[i])
    <3> TAKE i \in 1..Len(v)
    <3>1. CASE i = k
      BY <1>1, <2>3, <2>4, <3>1
    <3>2. CASE i # k
      BY <1>1, <2>4, <3>2
    <3> QED
      BY <3>1, <3>2
  <2>7. Injective(w) /\ IdsIn(v) \subseteq IdsIn(w)
    BY <2>5, <2>6 DEF Injective, IdsIn
  <2> QED
    BY <2>5, <2>7 DEF w
<1> QED
  BY <1>2, <1>3

\* What the first k patches make of v, if they are put in one by one.
StepsOf(f, v, patches, k) ==
  f = [i \in 0..k |-> IF i = 0 THEN v ELSE PatchOne(f[i - 1], patches[i])]

\* The recursion of patch_vectors_in_file is well founded.
LEMMA PatchesCanBeMade ==
  ASSUME NEW v, NEW patches \in Seq(STRING)
  PROVE  \A k \in 0..Len(patches) : \E f : StepsOf(f, v, patches, k)
<1> DEFINE Bad == {k \in 0..Len(patches) : ~ \E f : StepsOf(f, v, patches, k)}
<1>0. Len(patches) \in Nat
  BY LenProperties
<1> SUFFICES ASSUME Bad # {}
             PROVE  FALSE
  OBVIOUS
<1>1. PICK k \in Bad : \A j \in Bad : k <= j
  <2>1. Bad \in SUBSET Nat
    BY <1>0
  <2> HIDE DEF Bad
  <2> QED
    BY <2>1, LeastNumber
<1>2. k \in 0..Len(patches) /\ k \in Nat
  BY <1>0
<1>3. CASE k = 0
  <2> DEFINE f == [i \in 0..0 |-> v]
  <2>1. StepsOf(f, v, patches, 0)
    BY DEF StepsOf
  <2> QED
    BY <1>3, <2>1
<1>4. CASE k # 0
  <2>1. k - 1 \in 0..Len(patches) /\ k - 1 \notin Bad
    BY <1>0, <1>1, <1>2, <1>4
  <2>2. PICK f : StepsOf(f, v, patches, k - 1)
    BY <2>1
  <2> DEFINE g == [i \in 0..k |-> IF i = k THEN PatchOne(f[k - 1], patches[k]) ELSE f[i]]
  <2>3. \A i \in 0..(k - 1) : g[i] = f[i]
    BY <1>2
  <2>4. g[k] = PatchOne(f[k - 1], patches[k])
    BY <1>2
  <2>5. \A i \in 0..(k - 1) : f[i] = IF i = 0 THEN v ELSE PatchOne(f[i - 1], patches[i])
    BY <2>2 DEF StepsOf
  <2>6. \A i \in 0..k : g[i] = IF i = 0 THEN v ELSE PatchOne(g[i - 1], patches[i])
    <3> TAKE i \in 0..k
    <3>1. CASE i = k
      <4>1. g[k - 1] = f[k - 1]
        BY <1>2, <1>4, <2>3
      <4> QED
        BY <1>4, <2>4, <3>1, <4>1
    <3>2. CASE i # k /\ i = 0
      BY <1>2, <2>3, <2>5, <3>2
    <3>3. CASE i # k /\ i # 0
      <4>1. i \in 0..(k - 1) /\ i - 1 \in 0..(k - 1)
        BY <1>2, <3>3
      <4>2. g[i] = f[i] /\ g[i - 1] = f[i - 1]
        BY <2>3, <4>1
      <4> QED
        BY <2>5, <3>3, <4>1, <4>2
    <3> QED
      BY <3>1, <3>2, <3>3
  <2>7. StepsOf(g, v, patches, k)
    <3> DEFINE h == [i \in 0..k |-> IF i = 0 THEN v ELSE PatchOne(g[i - 1], patches[i])]
    <3>1. DOMAIN g = 0..k /\ DOMAIN h = 0..k /\ g = [i \in 0..k |-> g[i]]
      OBVIOUS
    <3>2. g = h
      BY <2>6, <3>1
    <3> QED
      BY <3>2 DEF StepsOf
  <2> QED
    BY <2>7
<1> QED
  BY <1>3, <1>4

\* patch_vectors_in_file: no id is lost, and none comes twice.
LEMMA PatchedSound ==
  ASSUME NEW v \in Seq(STRING), NEW patches \in Seq(STRING), Injective(v)
  PROVE  /\ PatchedOneByOne(v, patches) \in Seq(STRING)
         /\ Injective(PatchedOneByOne(v, patches))
         /\ IdsIn(v) \subseteq IdsIn(PatchedOneByOne(v, patches))
<1> DEFINE n == Len(patches)
           f == CHOOSE g : StepsOf(g, v, patches, n)
           Sound(w) == w \in Seq(STRING) /\ Injective(w) /\ IdsIn(v) \subseteq IdsIn(w)
           Bad == {k \in 0..n : ~Sound(f[k])}
<1>1. n \in Nat /\ \A i \in 1..n : patches[i] \in STRING
  BY LenProperties, ElementOfSeq
<1>2. StepsOf(f, v, patches, n)
  <2>1. \E g : StepsOf(g, v, patches, n)
    <3>1. n \in 0..Len(patches)
      BY <1>1
    <3> HIDE DEF n
    <3> QED
      BY <3>1, PatchesCanBeMade
  <2> QED
    BY <2>1
<1>3. PatchedOneByOne(v, patches) = f[n]
  BY DEF PatchedOneByOne, StepsOf
<1> HIDE DEF f, n
<1>4. f[0] = v
  BY <1>1, <1>2 DEF StepsOf
<1>5. \A k \in 1..n : f[k] = PatchOne(f[k - 1], patches[k])
  BY <1>1, <1>2 DEF StepsOf
<1>6. Bad = {}
  <2> SUFFICES ASSUME Bad # {}
               PROVE  FALSE
    OBVIOUS
  <2>1. PICK k \in Bad : \A j \in Bad : k <= j
    <3>1. Bad \in SUBSET Nat
      BY <1>1
    <3> HIDE DEF Bad
    <3> QED
      BY <3>1, LeastNumber
  <2>2. k \in 0..n /\ k # 0
    BY <1>4
  <2>3. k \in 1..n /\ k - 1 \in 0..n /\ k - 1 \notin Bad
    BY <1>1, <2>1, <2>2
  <2>4. Sound(f[k - 1])
    BY <2>3
  <2>5. Sound(PatchOne(f[k - 1], patches[k]))
    BY <1>1, <2>3, <2>4, PatchOneSound
  <2> QED
    BY <1>5, <2>3, <2>5
<1> QED
  BY <1>1, <1>3, <1>6

\* Nothing can be read of a file that is not whole.
LEMMA FileStates ==
  ASSUME NEW doc \in Contents
  PROVE  /\ doc.vectors \in Seq(STRING)
         /\ doc.state \in {"whole", "absent", "torn"}
         /\ doc.state = "whole" => doc \in [state : {"whole"}, suite : STRING, vectors : Seq(STRING)]
         /\ doc.state # "whole" => doc.vectors = <<>> /\ Ids(doc) = {}
<1>1. CASE doc \in {Absent, Torn}
  <2>1. doc.vectors = <<>> /\ doc.state \in {"absent", "torn"}
    BY <1>1 DEF Absent, Torn
  <2>2. <<>> \in Seq(STRING) /\ DOMAIN <<>> = {}
    OBVIOUS
  <2>3. Ids(doc) = {}
    BY <2>1, <2>2 DEF Ids
  <2> QED
    BY <2>1, <2>2, <2>3
<1>2. CASE doc \in [state : {"whole"}, suite : STRING, vectors : Seq(STRING)]
  BY <1>2
<1> QED
  BY <1>1, <1>2 DEF Contents

LEMMA WholeFiles ==
  ASSUME NEW doc \in [state : {"whole"}, suite : STRING, vectors : Seq(STRING)],
         NEW v \in Seq(STRING)
  PROVE  LET new == [doc EXCEPT !.vectors = v]
         IN  new \in Contents /\ new.state = "whole" /\ new.vectors = v
BY DEF Contents

\* A file that is read as a document, or as the one that is to be made.
Readable(doc) == doc \in Contents /\ (doc.state = "whole" => IdsAreDistinct(doc))

\* What a command makes of its target holds every id the target held, once.
LEMMA EditsSound ==
  ASSUME NEW doc, Readable(doc), NEW c \in DOMAIN Commands, NEW new \in Edits(doc, Commands[c])
  PROVE  /\ Readable(new) /\ new.state = "whole"
         /\ Ids(doc) \subseteq Ids(new)
<1> DEFINE by == Commands[c]
<1>1. by.mode \in {"append", "patch"} /\ by.suite \in STRING /\ by.vectors \in Seq(STRING)
  BY CommandsTyped
<1>2. doc \in Contents
  BY DEF Readable
<1>3. doc.vectors \in Seq(STRING) /\ doc.state \in {"whole", "absent", "torn"}
  BY <1>2, FileStates
<1>4. CASE by.mode = "append"
  <2> DEFINE base == IF doc.state = "absent" THEN Document(by.suite, <<>>) ELSE doc
  <2>1. new = Extended(base, by.vectors) /\ doc.state # "torn"
        /\ \A i \in DOMAIN by.vectors : Positions(base.vectors, by.vectors[i]) = {}
    BY <1>4 DEF Edits, AppendTo
  <2>2. base \in Contents /\ base.state = "whole"
    <3>1. CASE doc.state = "absent"
      BY <1>1, <3>1 DEF Contents, Document
    <3>2. CASE doc.state # "absent"
      BY <1>2, <1>3, <2>1, <3>2
    <3> QED
      BY <3>1, <3>2
  <2>3. base.vectors \in Seq(STRING) /\ Injective(base.vectors)
    <3>1. CASE doc.state = "absent"
      <4>1. base.vectors = <<>>
        BY <3>1 DEF Document
      <4> HIDE DEF base
      <4>2. Len(base.vectors) = 0
        BY <4>1
      <4> QED
        BY <4>1, <4>2 DEF Injective
    <3>2. CASE doc.state # "absent"
      <4>1. base = doc /\ doc.state = "whole"
        BY <1>3, <2>1, <3>2
      <4> QED
        BY <1>3, <4>1, IdsOfDocument DEF Readable
    <3> QED
      BY <3>1, <3>2
  <2>4. Injective(by.vectors)
    <3>1. Document(by.suite, by.vectors).vectors = by.vectors
      BY DEF Document
    <3>2. IdsAreDistinct(Document(by.suite, by.vectors))
      BY <1>4, CommandsTyped
    <3> QED
      BY <1>1, <3>1, <3>2, IdsOfDocument
  <2>5. Ids(doc) = IdsIn(base.vectors)
    <3>1. CASE doc.state = "absent"
      <4>1. doc.vectors = <<>> /\ base.vectors = <<>>
        BY <1>2, <3>1, FileStates DEF Document
      <4> HIDE DEF base
      <4> QED
        BY <1>3, <4>1, IdsOfDocument
    <3>2. CASE doc.state # "absent"
      BY <1>3, <3>2, IdsOfDocument
    <3> QED
      BY <3>1, <3>2
  <2> DEFINE v == base.vectors
             w == by.vectors
  <2>6. \A i \in 1..Len(w), j \in 1..Len(v) : IdOf(v[j]) # IdOf(w[i])
    <3>1. DOMAIN w = 1..Len(w) /\ DOMAIN v = 1..Len(v)
      BY <1>1, <2>3, LenProperties
    <3> QED
      BY <2>1, <3>1 DEF Positions
  <2>7. v \o w \in Seq(STRING) /\ Injective(v \o w) /\ IdsIn(v) \subseteq IdsIn(v \o w)
    <3> HIDE DEF v, w
    <3> QED
      BY <1>1, <2>3, <2>4, <2>6, ExtendedSound DEF v, w
  <2>8. new = [base EXCEPT !.vectors = v \o w]
    BY <2>1 DEF Extended
  <2> HIDE DEF base, v, w
  <2>9. new \in Contents /\ new.state = "whole" /\ new.vectors = v \o w
    BY <2>2, <2>7, <2>8, FileStates, WholeFiles
  <2> QED
    BY <2>5, <2>7, <2>9, IdsOfDocument DEF Readable, v
<1>5. CASE by.mode = "patch"
  <2> DEFINE v == doc.vectors
             w == PatchedOneByOne(doc.vectors, by.vectors)
  <2>1. new = [doc EXCEPT !.vectors = w] /\ doc.state = "whole"
    BY <1>5 DEF Edits, PatchOf, Patched
  <2>2. Injective(v) /\ Ids(doc) = IdsIn(v)
    BY <1>3, <2>1, IdsOfDocument DEF Readable
  <2>3. w \in Seq(STRING) /\ Injective(w) /\ IdsIn(v) \subseteq IdsIn(w)
    BY <1>1, <1>3, <2>2, PatchedSound
  <2> HIDE DEF w
  <2>4. new \in Contents /\ new.state = "whole" /\ new.vectors = w
    BY <1>2, <2>1, <2>3, FileStates, WholeFiles
  <2> QED
    BY <2>2, <2>3, <2>4, IdsOfDocument DEF Readable
<1> QED
  BY <1>1, <1>4, <1>5

\* The document the running command has made will hold all its target ever held.
EditIsReady ==
  signer \in {"write", "rest", "rename"} =>
    Readable(edited) /\ edited.state = "whole" /\ published[Target] \subseteq Ids(edited)

\* Only an append leaves its target torn for a while.
TornByAppends ==
  /\ signer = "rest" => Commands[command].mode = "append"
  /\ PatchedFileIsNeverTorn

SignerInv ==
  /\ disk \in [Documents -> Contents]
  /\ DOMAIN published = Documents
  /\ signer # "idle" => command \in DOMAIN Commands
  /\ DocumentsOnlyGrow
  /\ \A d \in Documents : disk[d].state = "absent" => published[d] = {}
  /\ EditIsReady
  /\ TornByAppends

LEMMA SignerInitially == disk \in InitialDisks /\ SignerInit => SignerInv
<1> SUFFICES ASSUME disk \in InitialDisks, SignerInit
             PROVE  SignerInv
  OBVIOUS
<1>1. /\ disk \in [Documents -> Contents]
      /\ \A d \in Documents : disk[d].state # "torn" /\ IdsAreDistinct(disk[d])
  BY InitialDisksTyped
<1>2. \A d \in Documents : disk[d].state = "absent" => Ids(disk[d]) = {}
  BY <1>1, FileStates
<1> QED
  BY <1>1, <1>2 DEF SignerInit, SignerInv, DocumentsOnlyGrow, EditIsReady, TornByAppends,
                    PatchedFileIsNeverTorn

LEMMA SignerStepKeeps == SignerInv /\ [SignerNext]_<<disk, signerVars>> => SignerInv'
<1> SUFFICES ASSUME SignerInv, [SignerNext]_<<disk, signerVars>>
             PROVE  SignerInv'
  OBVIOUS
<1> USE DEF SignerInv
<1>1. signer # "idle" => Target \in Documents
  BY CommandsTyped DEF Target
<1>2. ASSUME NEW c \in DOMAIN Commands, StartCommand(c)
      PROVE  SignerInv'
  BY <1>2 DEF StartCommand, DocumentsOnlyGrow, EditIsReady, TornByAppends, PatchedFileIsNeverTorn
<1>3. CASE ReadTarget
  <2> DEFINE doc == disk[Target]
             edits == Edits(doc, Commands[command])
  <2>1. signer = "read" /\ UNCHANGED <<disk, temps, started, published>>
    BY <1>3 DEF ReadTarget
  <2>2. CASE edits = {}
    <3>1. signer' = "idle"
      BY <1>3, <2>2 DEF ReadTarget, Ended
    <3> QED
      BY <2>1, <3>1 DEF DocumentsOnlyGrow, EditIsReady, TornByAppends, PatchedFileIsNeverTorn
  <2>3. CASE edits # {}
    <3>1. signer' = "write" /\ edited' \in edits /\ command' = command
      BY <1>3, <2>3 DEF ReadTarget
    <3>2. Readable(doc) /\ (doc.state # "torn" => published[Target] = Ids(doc))
      <4>1. doc \in Contents
        BY <1>1, <2>1
      <4>2. doc.state \in {"whole", "absent", "torn"} /\ (doc.state = "absent" => Ids(doc) = {})
        BY <4>1, FileStates
      <4> QED
        BY <1>1, <2>1, <4>1, <4>2 DEF Readable, DocumentsOnlyGrow
    <3>3. doc.state # "torn"
      BY <2>3 DEF Edits, AppendTo, PatchOf
    <3>4. Readable(edited') /\ edited'.state = "whole" /\ published[Target] \subseteq Ids(edited')
      BY <2>1, <3>1, <3>2, <3>3, EditsSound
    <3>5. EditIsReady'
      BY <2>1, <3>1, <3>4 DEF EditIsReady, Target
    <3> QED
      BY <2>1, <3>1, <3>5 DEF DocumentsOnlyGrow, TornByAppends, PatchedFileIsNeverTorn
  <2> QED
    BY <2>2, <2>3
<1>4. CASE Truncate
  <2>1. /\ signer = "write" /\ signer' = "rest" /\ Commands[command].mode = "append"
        /\ disk' = [disk EXCEPT ![Target] = Torn]
        /\ UNCHANGED <<command, edited, temps, started, published>>
    BY <1>4 DEF Truncate
  <2>2. Torn \in Contents /\ Torn.state = "torn"
    BY DEF Torn, Contents
  <2>3. disk' \in [Documents -> Contents] /\ \A d \in Documents : disk'[d] = IF d = Target THEN Torn ELSE disk[d]
    BY <1>1, <2>1, <2>2
  <2>4. EditIsReady'
    BY <2>1 DEF EditIsReady, Target
  <2>5. TornByAppends'
    <3>1. \A d \in Documents : d = Target => ~ \A c \in DOMAIN Commands : Commands[c].target = d => Commands[c].mode = "patch"
      BY <2>1 DEF Target
    <3> QED
      BY <2>1, <2>3, <3>1 DEF TornByAppends, PatchedFileIsNeverTorn
  <2> QED
    BY <1>1, <2>1, <2>2, <2>3, <2>4, <2>5 DEF DocumentsOnlyGrow
<1>5. ASSUME signer \in {"rest", "rename"}, Publish(Target)
      PROVE  SignerInv'
  <2>1. /\ disk' = [disk EXCEPT ![Target] = edited]
        /\ published' = [published EXCEPT ![Target] = @ \cup Ids(edited)]
        /\ signer' = "idle"
    BY <1>5 DEF Publish, Ended
  <2>2. Readable(edited) /\ edited.state = "whole" /\ published[Target] \subseteq Ids(edited)
    BY <1>5 DEF EditIsReady
  <2>3. /\ disk' \in [Documents -> Contents]
        /\ \A d \in Documents : disk'[d] = IF d = Target THEN edited ELSE disk[d]
    BY <1>1, <1>5, <2>1, <2>2 DEF Readable
  <2>4. /\ DOMAIN published' = Documents
        /\ \A d \in Documents : published'[d] = IF d = Target THEN Ids(edited) ELSE published[d]
    BY <1>1, <1>5, <2>1, <2>2
  <2>5. DocumentsOnlyGrow'
    BY <2>2, <2>3, <2>4 DEF DocumentsOnlyGrow, Readable
  <2>6. \A d \in Documents : disk'[d].state = "absent" => published'[d] = {}
    BY <2>2, <2>3, <2>4
  <2>7. TornByAppends' /\ EditIsReady'
    BY <2>1, <2>2, <2>3 DEF TornByAppends, PatchedFileIsNeverTorn, EditIsReady
  <2> QED
    BY <2>1, <2>3, <2>4, <2>5, <2>6, <2>7
<1>6. CASE WriteRest
  BY <1>5, <1>6 DEF WriteRest
<1>7. CASE Rename
  BY <1>5, <1>7 DEF Rename
<1>8. CASE WriteTemp
  <2>1. /\ signer = "write" /\ signer' = "rename"
        /\ UNCHANGED <<disk, command, edited, started, published>>
    BY <1>8 DEF WriteTemp
  <2> QED
    BY <2>1 DEF DocumentsOnlyGrow, EditIsReady, Target, TornByAppends, PatchedFileIsNeverTorn
<1>9. CASE Crash
  BY <1>9 DEF Crash, Ended, DocumentsOnlyGrow, EditIsReady, TornByAppends, PatchedFileIsNeverTorn
<1>10. CASE UNCHANGED <<disk, signerVars>>
  BY <1>10 DEF signerVars, DocumentsOnlyGrow, EditIsReady, Target, TornByAppends, PatchedFileIsNeverTorn
<1> QED
  BY <1>2, <1>3, <1>4, <1>6, <1>7, <1>8, <1>9, <1>10 DEF SignerNext

\* A document that can be read holds every vector it ever held, and none twice,
\* whatever commands are run, refused or stopped (append_vectors,
\* patch_vectors_in_file).
THEOREM DocumentsGrow == SignerSpec => []DocumentsOnlyGrow
<1>1. SignerInv => DocumentsOnlyGrow
  BY DEF SignerInv
<1> QED
  BY SignerInitially, SignerStepKeeps, <1>1, PTL DEF SignerSpec

\* A document that only patches are aimed at can be read at every moment
\* (patch_vectors_in_file: the new document is written beside it, and renamed).
THEOREM PatchedFilesStayWhole == SignerSpec => []PatchedFileIsNeverTorn
<1>1. SignerInv => PatchedFileIsNeverTorn
  BY DEF SignerInv, TornByAppends
<1> QED
  BY SignerInitially, SignerStepKeeps, <1>1, PTL DEF SignerSpec

-----------------------------------------------------------------------------
(* The command line.                                                       *)

\* A nonempty set of the first numbers, counted up to its n-th element: that element
\* has n - 1 below it.
LEMMA NthElement ==
  ASSUME NEW m \in Nat, NEW T \in SUBSET (1..m), NEW n \in 1..Cardinality(T)
  PROVE  \E i \in T : Cardinality({j \in T : j < i}) = n - 1
<1> DEFINE UpTo(k) == {j \in T : j <= k}
           Bad == {k \in 0..m : Cardinality(UpTo(k)) >= n}
<1>0. m \in Int /\ \A j \in T : j \in Nat /\ 1 <= j /\ j <= m
  OBVIOUS
<1>1. IsFiniteSet(T) /\ Cardinality(T) \in Nat
  <2>1. IsFiniteSet(1..m)
    BY <1>0, FS_Interval
  <2> QED
    BY <2>1, FS_Subset, FS_CardinalityType
<1>2. \A k : IsFiniteSet(UpTo(k)) /\ Cardinality(UpTo(k)) \in Nat
  <2> TAKE k
  <2>1. UpTo(k) \in SUBSET T
    OBVIOUS
  <2> QED
    BY <1>1, <2>1, FS_Subset, FS_CardinalityType
<1>n. n \in Nat /\ n >= 1 /\ n <= Cardinality(T)
  BY <1>1
<1>3. m \in Bad
  <2>1. UpTo(m) = T
    BY <1>0
  <2> QED
    BY <1>1, <1>n, <2>1
<1>4. \E k \in Bad : \A l \in Bad : k <= l
  <2>1. Bad \in SUBSET Nat
    OBVIOUS
  <2>2. Bad # {}
    BY <1>3
  <2> HIDE DEF Bad
  <2> QED
    BY <2>1, <2>2, LeastNumber
<1> PICK k \in Bad : \A l \in Bad : k <= l
  BY <1>4
<1>k. k \in 0..m /\ Cardinality(UpTo(k)) >= n /\ \A l \in Bad : k <= l
  OBVIOUS
<1>5. k \in Nat /\ k # 0
  <2>0. \A j \in T : ~(j <= 0)
    BY <1>0
  <2>1. UpTo(0) = {}
    BY <2>0
  <2>2. Cardinality(UpTo(0)) = 0
    BY <2>1, FS_EmptySet
  <2>3. 0 \notin Bad
    BY <1>n, <2>2
  <2> QED
    BY <1>k, <2>3
<1>6. ~(Cardinality(UpTo(k - 1)) >= n)
  <2>1. k - 1 \in 0..m /\ ~(k <= k - 1)
    BY <1>k, <1>5
  <2> QED
    BY <1>k, <2>1
<1>e. /\ \A j \in T : (j <= k <=> j <= k - 1 \/ j = k) /\ (j < k <=> j <= k - 1)
      /\ k <= k /\ ~(k <= k - 1)
  BY <1>0, <1>5
<1>7. k \in T
  <2> SUFFICES ASSUME k \notin T
               PROVE  FALSE
    OBVIOUS
  <2>1. UpTo(k) = UpTo(k - 1)
    BY <1>e
  <2> QED
    BY <1>k, <1>6, <2>1
<1>8. UpTo(k) = UpTo(k - 1) \cup {k} /\ k \notin UpTo(k - 1)
  BY <1>e, <1>7
<1>9. Cardinality(UpTo(k)) = Cardinality(UpTo(k - 1)) + 1
  <2> HIDE DEF UpTo
  <2> QED
    BY <1>2, <1>8, FS_AddElement
<1>10. {j \in T : j < k} = UpTo(k - 1)
  BY <1>e
<1> DEFINE c == Cardinality(UpTo(k - 1))
<1>11. c \in Nat /\ c + 1 >= n /\ ~(c >= n)
  BY <1>2, <1>k, <1>6, <1>9
<1> HIDE DEF c
<1>12. c = n - 1
  BY <1>n, <1>11
<1> QED
  BY <1>7, <1>10, <1>12 DEF c

\* default_inputs finds files it looks for.
LEMMA DefaultInputsAreDocuments == default_inputs \in Seq(Documents)
<1> DEFINE there == {i \in DOMAIN DefaultInputs : disk[DefaultInputs[i]].state # "absent"}
           Nth(n) == CHOOSE i \in there : Cardinality({j \in there : j < i}) = n - 1
<1>1. DefaultInputs \in Seq(Documents) /\ Len(DefaultInputs) \in Nat
      /\ DOMAIN DefaultInputs = 1..Len(DefaultInputs)
  BY InvocationsTyped, LenProperties
<1>2. there \in SUBSET (1..Len(DefaultInputs))
  BY <1>1
<1>3. Cardinality(there) \in Nat
  <2>1. IsFiniteSet(1..Len(DefaultInputs))
    BY <1>1, FS_Interval
  <2> QED
    BY <1>2, <2>1, FS_Subset, FS_CardinalityType
<1>4. \A n \in 1..Cardinality(there) : DefaultInputs[Nth(n)] \in Documents
  <2> TAKE n \in 1..Cardinality(there)
  <2>1. \E i \in there : Cardinality({j \in there : j < i}) = n - 1
    <3> HIDE DEF there
    <3> QED
      BY <1>1, <1>2, NthElement
  <2>2. Nth(n) \in there
    BY <2>1
  <2> QED
    BY <1>1, <1>2, <2>2, ElementOfSeq
<1>5. default_inputs = [n \in 1..Cardinality(there) |-> DefaultInputs[Nth(n)]]
  BY DEF default_inputs
<1> HIDE DEF there, Nth
<1> QED
  BY <1>3, <1>4, <1>5

\* The fields of a report that the others leave alone.
ReportFields == {"file", "schema_ok", "pass", "fail", "error", "skipped", "failures"}

\* The report t is r, and the vectors with these keys besides: each passed or failed,
\* and none that failed went unseen.
TalliesUp(t, r, keys, failing) ==
  /\ DOMAIN t = ReportFields /\ t.pass \in Nat /\ t.fail \in Nat
  /\ t.pass + t.fail = r.pass + r.fail + Len(keys)
  /\ t.error = r.error /\ t.skipped = r.skipped
  /\ t.fail = 0 => /\ r.fail = 0 /\ t.failures = r.failures
                   /\ \A i \in 1..Len(keys) : keys[i] \notin failing

LEMMA TalliedSound ==
  ASSUME NEW r, DOMAIN r = ReportFields, r.pass \in Nat, r.fail \in Nat,
         NEW keys \in Seq(STRING), NEW failing
  PROVE  TalliesUp(Tallied(r, keys, failing), r, keys, failing)
<1> DEFINE failed == {i \in DOMAIN keys : keys[i] \in failing}
           t == Tallied(r, keys, failing)
           k == Len(keys)
           c == Cardinality(failed)
           p == r.pass
           f == r.fail
<1>1. k \in Nat /\ DOMAIN keys = 1..k
  BY LenProperties
<1>2. IsFiniteSet(1..k) /\ Cardinality(1..k) = k
  <2> HIDE DEF k
  <2>1. 1 \in Int /\ k \in Int /\ (IF 1 > k THEN 0 ELSE k - 1 + 1) = k
    BY <1>1
  <2> QED
    BY <2>1, FS_Interval
<1>3. IsFiniteSet(failed) /\ c <= k /\ c \in Nat
  <2>1. failed \in SUBSET (1..k)
    BY <1>1
  <2> HIDE DEF failed
  <2> QED
    BY <1>2, <2>1, FS_Subset, FS_CardinalityType
<1>4. c = 0 => failed = {}
  BY <1>3, FS_EmptySet
<1>5. /\ DOMAIN t = ReportFields
      /\ t.pass = p + k - c /\ t.fail = f + c
      /\ t.error = r.error /\ t.skipped = r.skipped
      /\ t.failures = r.failures \cup {IdOf(keys[i]) : i \in failed}
  BY DEF Tallied, ReportFields
<1>6. failed = {} => \A i \in 1..k : keys[i] \notin failing
  BY <1>1
<1>7. p \in Nat /\ f \in Nat
  OBVIOUS
<1> HIDE DEF c, p, f, k, t, failed
<1>8. p + k - c \in Nat /\ f + c \in Nat /\ (p + k - c) + (f + c) = p + f + k
  BY <1>1, <1>3, <1>7
<1>9. f + c = 0 => f = 0 /\ c = 0
  BY <1>3, <1>7
<1>10. failed = {} => t.failures = r.failures
  BY <1>5
<1>11. /\ t.pass \in Nat /\ t.fail \in Nat /\ t.pass + t.fail = p + f + k
  BY <1>5, <1>8
<1>12. t.fail = 0 => f = 0 /\ failed = {}
  BY <1>4, <1>5, <1>9
<1> QED
  BY <1>5, <1>6, <1>10, <1>11, <1>12 DEF TalliesUp, t, p, f, k

\* The vectors judged in one go end where a classifier is next, or the file ends.
LEMMA StopsAtClassifier ==
  ASSUME loaded.vectors \in Seq(STRING), vec \in 1..Len(loaded.vectors) + 1
  PROVE  /\ Stop \in vec..Len(loaded.vectors) + 1 /\ Waits(Stop)
         /\ \A i \in vec..Stop - 1 : ~Waits(i)
<1> DEFINE k == Len(loaded.vectors)
           waiting == {i \in vec .. k + 1 : Waits(i)}
<1>1. k \in Nat
  BY LenProperties
<1>2. k + 1 \in waiting
  BY <1>1 DEF Waits
<1>3. waiting \in SUBSET Nat
  BY <1>1
<1>4. \E i \in waiting : \A j \in waiting : i <= j
  <2>1. waiting # {}
    BY <1>2
  <2> HIDE DEF waiting
  <2> QED
    BY <1>3, <2>1, LeastNumber
<1>5. Stop \in waiting /\ \A j \in waiting : Stop <= j
  BY <1>4 DEF Stop
<1>6. Stop \in vec..k + 1
  BY <1>5
<1>7. ASSUME NEW i \in vec..Stop - 1
      PROVE  ~Waits(i)
  <2>1. i \in vec..k + 1 /\ ~(Stop <= i)
    BY <1>1, <1>6
  <2> QED
    BY <1>5, <2>1
<1> QED
  BY <1>5, <1>6, <1>7

-----------------------------------------------------------------------------

\* What the first n inputs of a suite stand for.
DueIn(suite, n) ==
  UNION {{<<i, j>> : j \in 1 .. Weight(reads[i])} : i \in {i \in 1..n : SuiteOf(i) = suite}}

\* One input more adds what it stands for to its own suite, and nothing to the others.
LEMMA DueGrows ==
  ASSUME NEW suite, NEW n \in Nat, IsFiniteSet(DueIn(suite, n)),
         NEW w \in Nat, Weight(reads[n + 1])' = w,
         \A i \in 1..n : SuiteOf(i)' = SuiteOf(i) /\ Weight(reads[i])' = Weight(reads[i])
  PROVE  /\ IsFiniteSet(DueIn(suite, n + 1)')
         /\ SuiteOf(n + 1)' = suite =>
              Cardinality(DueIn(suite, n + 1)') = Cardinality(DueIn(suite, n)) + w
         /\ SuiteOf(n + 1)' # suite => DueIn(suite, n + 1)' = DueIn(suite, n)
<1> DEFINE old == DueIn(suite, n)
           new == DueIn(suite, n + 1)'
           added == {n + 1} \X (1..w)
<1>1. \A x : x \in old <=> \E i \in 1..n : SuiteOf(i) = suite /\ \E j \in 1..Weight(reads[i]) : x = <<i, j>>
  BY DEF DueIn
<1>2. \A x : x \in new <=> \E i \in 1..n + 1 :
                             SuiteOf(i)' = suite /\ \E j \in 1..Weight(reads[i])' : x = <<i, j>>
  BY DEF DueIn
<1>3. \A x : x \in added <=> \E j \in 1..w : x = <<n + 1, j>>
  OBVIOUS
<1>4. \A i : i \in 1..n + 1 <=> i \in 1..n \/ i = n + 1
  OBVIOUS
<1>5. n + 1 \notin 1..n
  OBVIOUS
<1>6. IsFiniteSet(added) /\ Cardinality(added) = w
  <2>1. IsFiniteSet({n + 1}) /\ Cardinality({n + 1}) = 1
    BY FS_Singleton
  <2>2. IsFiniteSet(1..w) /\ Cardinality(1..w) = w
    BY FS_Interval
  <2>3. IsFiniteSet(added) /\ Cardinality(added) = Cardinality({n + 1}) * Cardinality(1..w)
    BY <2>1, <2>2, FS_Product, Zenon
  <2> QED
    BY <2>1, <2>2, <2>3
<1> HIDE DEF old, new, added
<1>7. CASE SuiteOf(n + 1)' = suite
  <2>1. \A x : x \in new <=> x \in old \/ x \in added
    BY <1>1, <1>2, <1>3, <1>4, <1>7
  <2>2. new = old \cup added
    BY <2>1
  <2>3. old \cap added = {}
    BY <1>1, <1>3, <1>5
  <2>4. IsFiniteSet(old)
    BY DEF old
  <2>5. IsFiniteSet(new) /\ Cardinality(new) = Cardinality(old) + Cardinality(added) - Cardinality({})
    BY <1>6, <2>2, <2>3, <2>4, FS_Union
  <2>6. Cardinality({}) = 0 /\ Cardinality(old) \in Nat
    BY <2>4, FS_EmptySet, FS_CardinalityType
  <2> QED
    BY <1>6, <1>7, <2>5, <2>6 DEF old, new
<1>8. CASE SuiteOf(n + 1)' # suite
  <2>1. \A x : x \in new <=> x \in old
    BY <1>1, <1>2, <1>4, <1>8
  <2>2. new = old
    BY <2>1
  <2> QED
    BY <1>8, <2>2 DEF old, new
<1> QED
  BY <1>7, <1>8

\* A file that could be read, and conforms to the schema unless it was filtered out.
Usable(doc) == doc.state = "whole" /\ (Excluded(doc) \/ Conforms(doc))
Passes(doc) == Excluded(doc) \/ \A n \in DOMAIN doc.vectors : doc.vectors[n] \notin judged.failing

HasCounts(r) == r.pass \in Nat /\ r.fail \in Nat /\ r.error \in Nat /\ r.skipped \in Nat

\* The report r is the truth about one file ...
ReportsOnFile(r, doc) ==
  /\ HasCounts(r) /\ Weight(doc) \in Nat
  /\ r.pass + r.fail + r.error + r.skipped = Weight(doc)
  /\ r.error = 0 => Usable(doc)
  /\ r.error = 0 /\ r.fail = 0 => r.failures = {} /\ Passes(doc)

\* ... and about those of the first n inputs that belong to a suite.
ReportsOnSuite(r, suite, n) ==
  /\ HasCounts(r)
  /\ IsFiniteSet(DueIn(suite, n))
  /\ r.pass + r.fail + r.error + r.skipped = Cardinality(DueIn(suite, n))
  /\ r.error = 0 => \A i \in 1..n : SuiteOf(i) = suite => Usable(reads[i])
  /\ r.error = 0 /\ r.fail = 0 =>
       r.failures = {} /\ \A i \in 1..n : SuiteOf(i) = suite => Passes(reads[i])

\* The next input is read, and those before it stay what they were.
ReadNext(n, suite, doc) ==
  /\ reads[n + 1]' = doc /\ SuiteOf(n + 1)' = suite
  /\ \A i \in 1..n : reads[i]' = reads[i] /\ SuiteOf(i)' = SuiteOf(i)
  /\ UNCHANGED <<job, judged>>

LEMMA JudgedAsBefore ==
  ASSUME NEW n \in Nat, NEW suite, NEW doc, ReadNext(n, suite, doc)
  PROVE  /\ Weight(reads[n + 1])' = Weight(doc) /\ (Usable(reads[n + 1])' <=> Usable(doc))
         /\ Passes(reads[n + 1])' <=> Passes(doc)
         /\ \A i \in 1..n : /\ Weight(reads[i])' = Weight(reads[i])
                            /\ Usable(reads[i])' <=> Usable(reads[i])
                            /\ Passes(reads[i])' <=> Passes(reads[i])
BY DEF ReadNext, Weight, Usable, Passes, Excluded, Conforms

\* merge_into: what is added up is the truth about the suite and its new file.
LEMMA MergedSound ==
  ASSUME NEW n \in Nat, NEW suite, NEW doc, ReadNext(n, suite, doc),
         NEW e, ReportsOnSuite(e, suite, n), NEW r, ReportsOnFile(r, doc),
         NEW m, m.pass = e.pass + r.pass, m.fail = e.fail + r.fail, m.error = e.error + r.error,
         m.skipped = e.skipped + r.skipped, m.failures = e.failures \cup r.failures
  PROVE  ReportsOnSuite(m, suite, n + 1)'
<1> DEFINE e1 == e.pass
           e2 == e.fail
           e3 == e.error
           e4 == e.skipped
           r1 == r.pass
           r2 == r.fail
           r3 == r.error
           r4 == r.skipped
           c == Cardinality(DueIn(suite, n))
           w == Weight(doc)
<1>1. /\ e1 \in Nat /\ e2 \in Nat /\ e3 \in Nat /\ e4 \in Nat /\ e1 + e2 + e3 + e4 = c
      /\ IsFiniteSet(DueIn(suite, n))
  BY DEF ReportsOnSuite, HasCounts
<1>2. /\ r1 \in Nat /\ r2 \in Nat /\ r3 \in Nat /\ r4 \in Nat /\ r1 + r2 + r3 + r4 = w
      /\ w \in Nat
  BY DEF ReportsOnFile, HasCounts
<1>3. m.pass = e1 + r1 /\ m.fail = e2 + r2 /\ m.error = e3 + r3 /\ m.skipped = e4 + r4
  OBVIOUS
<1>4. /\ IsFiniteSet(DueIn(suite, n + 1)')
      /\ Cardinality(DueIn(suite, n + 1)') = c + w
  <2>1. /\ Weight(reads[n + 1])' = w
        /\ \A i \in 1..n : SuiteOf(i)' = SuiteOf(i) /\ Weight(reads[i])' = Weight(reads[i])
        /\ SuiteOf(n + 1)' = suite
    BY JudgedAsBefore DEF ReadNext
  <2> HIDE DEF w
  <2> QED
    BY <1>1, <1>2, <2>1, DueGrows
<1>5. e3 = 0 => \A i \in 1..n : SuiteOf(i) = suite => Usable(reads[i])
  BY DEF ReportsOnSuite
<1>6. e3 = 0 /\ e2 = 0 => e.failures = {} /\ \A i \in 1..n : SuiteOf(i) = suite => Passes(reads[i])
  BY DEF ReportsOnSuite
<1>7. (r3 = 0 => Usable(doc)) /\ (r3 = 0 /\ r2 = 0 => r.failures = {} /\ Passes(doc))
  BY DEF ReportsOnFile
<1> HIDE DEF e1, e2, e3, e4, r1, r2, r3, r4, c, w
<1>8. HasCounts(m)
  BY <1>1, <1>2, <1>3 DEF HasCounts
<1>9. m.pass + m.fail + m.error + m.skipped = c + w
  <2>1. (e1 + r1) + (e2 + r2) + (e3 + r3) + (e4 + r4) = (e1 + e2 + e3 + e4) + (r1 + r2 + r3 + r4)
    BY <1>1, <1>2
  <2> QED
    BY <1>1, <1>2, <1>3, <2>1
<1>10. m.error = 0 => e3 = 0 /\ r3 = 0
  BY <1>1, <1>2, <1>3
<1>11. m.fail = 0 => e2 = 0 /\ r2 = 0
  BY <1>1, <1>2, <1>3
<1>12. \A i \in 1..n + 1 : i \in 1..n \/ i = n + 1
  OBVIOUS
<1>13. m.error = 0 => \A i \in 1..n + 1 : SuiteOf(i)' = suite => Usable(reads[i])'
  <2> SUFFICES ASSUME m.error = 0, NEW i \in 1..n + 1, SuiteOf(i)' = suite
               PROVE  Usable(reads[i])'
    OBVIOUS
  <2>1. CASE i \in 1..n
    <3>1. SuiteOf(i) = suite
      BY <2>1 DEF ReadNext
    <3>2. Usable(reads[i])
      BY <1>5, <1>10, <2>1, <3>1
    <3> QED
      BY <2>1, <3>2, JudgedAsBefore
  <2>2. CASE i = n + 1
    <3>1. Usable(doc)
      BY <1>7, <1>10
    <3> QED
      BY <2>2, <3>1, JudgedAsBefore
  <2> QED
    BY <1>12, <2>1, <2>2
<1>14. m.error = 0 /\ m.fail = 0 =>
         m.failures = {} /\ \A i \in 1..n + 1 : SuiteOf(i)' = suite => Passes(reads[i])'
  <2> SUFFICES ASSUME m.error = 0, m.fail = 0
               PROVE  m.failures = {} /\ \A i \in 1..n + 1 : SuiteOf(i)' = suite => Passes(reads[i])'
    OBVIOUS
  <2>0. e.failures = {} /\ r.failures = {} /\ Passes(doc)
        /\ \A i \in 1..n : SuiteOf(i) = suite => Passes(reads[i])
    BY <1>6, <1>7, <1>10, <1>11
  <2>1. m.failures = {}
    BY <2>0
  <2>2. ASSUME NEW i \in 1..n + 1, SuiteOf(i)' = suite
        PROVE  Passes(reads[i])'
    <3>1. CASE i \in 1..n
      <4>1. SuiteOf(i) = suite
        BY <2>2, <3>1 DEF ReadNext
      <4> QED
        BY <2>0, <3>1, <4>1, JudgedAsBefore
    <3>2. CASE i = n + 1
      BY <2>0, <3>2, JudgedAsBefore
    <3> QED
      BY <1>12, <3>1, <3>2
  <2> QED
    BY <2>1, <2>2
<1> QED
  BY <1>4, <1>8, <1>9, <1>13, <1>14 DEF ReportsOnSuite, HasCounts

\* The other suites have no more to report than before.
LEMMA OthersSound ==
  ASSUME NEW n \in Nat, NEW suite, NEW doc, ReadNext(n, suite, doc), Weight(doc) \in Nat,
         NEW other, other # suite, NEW e, ReportsOnSuite(e, other, n)
  PROVE  ReportsOnSuite(e, other, n + 1)'
<1>1. DueIn(other, n + 1)' = DueIn(other, n)
  <2>1. /\ IsFiniteSet(DueIn(other, n)) /\ Weight(reads[n + 1])' = Weight(doc)
        /\ \A i \in 1..n : SuiteOf(i)' = SuiteOf(i) /\ Weight(reads[i])' = Weight(reads[i])
        /\ SuiteOf(n + 1)' # other
    BY JudgedAsBefore DEF ReadNext, ReportsOnSuite
  <2> QED
    BY <2>1, DueGrows
<1>2. \A i \in 1..n + 1 : SuiteOf(i)' = other =>
        /\ i \in 1..n /\ SuiteOf(i) = other
        /\ Usable(reads[i])' <=> Usable(reads[i])
        /\ Passes(reads[i])' <=> Passes(reads[i])
  <2> SUFFICES ASSUME NEW i \in 1..n + 1, SuiteOf(i)' = other
               PROVE  /\ i \in 1..n /\ SuiteOf(i) = other
                      /\ Usable(reads[i])' <=> Usable(reads[i])
                      /\ Passes(reads[i])' <=> Passes(reads[i])
    OBVIOUS
  <2>1. i # n + 1
    BY DEF ReadNext
  <2>2. i \in 1..n
    BY <2>1
  <2>3. SuiteOf(i) = other
    BY <2>2 DEF ReadNext
  <2> QED
    BY <2>2, <2>3, JudgedAsBefore
<1> QED
  BY <1>1, <1>2 DEF ReportsOnSuite, HasCounts

-----------------------------------------------------------------------------

Judging == cli \in {"judging", "classifying"}

\* How far the run is: at - 1 inputs are done, and one more is read while it is judged.
Progress ==
  /\ inputs \in Seq(Documents) /\ reads \in Seq(Contents)
  /\ at \in Nat \ {0}
  /\ Len(reads) = IF Judging THEN at ELSE at - 1
  /\ cli \in {"idle", "reading", "judging", "classifying", "summarizing", "exited"}
  /\ cli = "idle" => at = 1 /\ DOMAIN report = {}
  /\ cli \in {"reading", "judging", "classifying"} => at <= Len(inputs)
  /\ cli = "summarizing" => at = Len(inputs) + 1

\* The file at hand, of which the vectors before vec are judged.
FileAtHand ==
  Judging =>
    /\ loaded = reads[at] /\ Usable(loaded) /\ ~Excluded(loaded)
    /\ vec \in 1..Len(loaded.vectors) + 1
    /\ cli = "classifying" => vec <= Len(loaded.vectors) /\ loaded.vectors[vec] \in ClassifierKeys
    /\ DOMAIN sr = ReportFields /\ sr.pass \in Nat /\ sr.fail \in Nat
    /\ sr.pass + sr.fail = vec - 1 /\ sr.error = 0 /\ sr.skipped = 0
    /\ sr.fail = 0 => /\ sr.failures = {}
                      /\ \A i \in 1..vec - 1 : loaded.vectors[i] \notin judged.failing

\* Every input that is done is reported under its suite, and truly.
ReportIsTrue ==
  /\ \A i \in 1..at - 1 : SuiteOf(i) \in DOMAIN report
  /\ \A s \in DOMAIN report : ReportsOnSuite(report[s], s, at - 1)

\* While nobody writes, what was read is what is there, and what the second summary
\* is made from.
NothingWasWritten == ~changed /\ cli \notin {"idle", "exited"}
ReadsAreFresh == NothingWasWritten => \A i \in 1..Len(reads) : reads[i] = disk[inputs[i]]
AttestationKeys == KeysNow({"pcr-attestation-reject"})
SummariesAreFresh ==
  /\ \E S : summaries \in Seq(S)
  /\ cli \in {"idle", "reading", "judging", "classifying"} => summaries = <<>>
  /\ NothingWasWritten /\ Len(summaries) >= 2 =>
       summaries[2].live + summaries[2].mock = Cardinality(AttestationKeys)

CleanExit == exit = {0} => cli = "exited" /\ is_clean

HarnessInv ==
  /\ disk \in [Documents -> Contents]
  /\ judged.failing \cap ClassifierKeys = {}
  /\ Progress
  /\ FileAtHand
  /\ ReportIsTrue
  /\ ReadsAreFresh
  /\ SummariesAreFresh
  /\ CleanExit

LEMMA HarnessInitially == disk \in InitialDisks /\ HarnessInit => HarnessInv
<1> SUFFICES ASSUME disk \in InitialDisks, HarnessInit
             PROVE  HarnessInv
  OBVIOUS
<1>1. disk \in [Documents -> Contents]
  BY InitialDisksTyped
<1>2. /\ cli = "idle" /\ inputs = <<>> /\ at = 1 /\ reads = <<>> /\ summaries = <<>> /\ exit = {}
      /\ DOMAIN report = {} /\ judged.failing \cap ClassifierKeys = {}
  BY DEF HarnessInit
<1>3. inputs \in Seq(Documents) /\ reads \in Seq(Contents) /\ summaries \in Seq({}) /\ Len(reads) = 0
  BY <1>2
<1>4. Progress
  BY <1>2, <1>3 DEF Progress, Judging
<1>5. FileAtHand /\ ReadsAreFresh /\ SummariesAreFresh /\ CleanExit
  BY <1>2, <1>3 DEF FileAtHand, Judging, ReadsAreFresh, SummariesAreFresh, NothingWasWritten, CleanExit
<1>6. ReportIsTrue
  BY <1>2 DEF ReportIsTrue
<1> QED
  BY <1>1, <1>2, <1>4, <1>5, <1>6 DEF HarnessInv

\* A file is done: its report is merged into that of its suite.
LEMMA FileIsDone ==
  ASSUME HarnessInv, at <= Len(inputs),
         NEW n \in Nat, at = n + 1, NEW suite, NEW doc, ReadNext(n, suite, doc),
         NEW r, ReportsOnFile(r, doc), NextFile(suite, r),
         reads' \in Seq(Contents), Len(reads') = at, summaries = <<>>, exit # {0},
         \A i \in 1..n : NothingWasWritten => reads[i] = disk[inputs[i]],
         NothingWasWritten => doc = disk[inputs[at]],
         NothingWasWritten' => NothingWasWritten,
         UNCHANGED <<disk, judged, changed>>
  PROVE  HarnessInv'
<1>1. Len(inputs) \in Nat
  BY LenProperties DEF HarnessInv, Progress
<1>2. /\ at' = at + 1 /\ report' = merge_into(suite, r)
      /\ cli' = IF at = Len(inputs) THEN "summarizing" ELSE "reading"
      /\ UNCHANGED <<job, inputs, summaries, exit, disk, judged, changed>>
  BY DEF NextFile
<1>3. Progress' /\ FileAtHand'
  BY <1>1, <1>2 DEF HarnessInv, Progress, Judging, FileAtHand
<1>4. SummariesAreFresh' /\ CleanExit'
  <2>1. Len(summaries') = 0 /\ summaries' = <<>>
    BY <1>2
  <2> QED
    BY <1>2, <2>1 DEF HarnessInv, SummariesAreFresh, CleanExit
<1>5. ReadsAreFresh'
  <2> SUFFICES ASSUME NothingWasWritten, NEW i \in 1..at
               PROVE  reads'[i] = disk[inputs[i]]
    BY <1>2 DEF ReadsAreFresh
  <2>1. i \in 1..n \/ i = at
    BY <1>1
  <2>2. CASE i \in 1..n
    BY <1>1, <2>2 DEF ReadNext
  <2>3. CASE i = at
    BY <1>1, <2>3 DEF ReadNext
  <2> QED
    BY <2>1, <2>2, <2>3
<1> DEFINE e == IF suite \in DOMAIN report THEN report[suite] ELSE EmptyReport
<1>6. /\ DOMAIN report' = DOMAIN report \cup {suite}
      /\ \A s \in DOMAIN report : s # suite => report'[s] = report[s]
  BY <1>2 DEF merge_into
<1> PICK m : m = report'[suite]
  OBVIOUS
<1>7. /\ m.pass = e.pass + r.pass /\ m.fail = e.fail + r.fail /\ m.error = e.error + r.error
      /\ m.skipped = e.skipped + r.skipped /\ m.failures = e.failures \cup r.failures
  BY <1>2 DEF merge_into
<1>8. ReportsOnSuite(e, suite, n)
  <2>1. CASE suite \in DOMAIN report
    BY <1>1, <2>1 DEF HarnessInv, ReportIsTrue
  <2>2. CASE suite \notin DOMAIN report
    <3>1. \A i \in 1..n : SuiteOf(i) # suite
      BY <1>1, <2>2 DEF HarnessInv, ReportIsTrue
    <3>2. DueIn(suite, n) = {}
      BY <3>1 DEF DueIn
    <3>3. IsFiniteSet(DueIn(suite, n)) /\ Cardinality(DueIn(suite, n)) = 0
      BY <3>2, FS_EmptySet
    <3>4. /\ e.pass = 0 /\ e.fail = 0 /\ e.error = 0 /\ e.skipped = 0 /\ e.failures = {}
      BY <2>2 DEF EmptyReport
    <3>5. HasCounts(e) /\ e.pass + e.fail + e.error + e.skipped = 0
      <4> HIDE DEF e
      <4> QED
        BY <3>4 DEF HasCounts
    <3> HIDE DEF e
    <3> QED
      BY <3>1, <3>3, <3>4, <3>5 DEF ReportsOnSuite
  <2> QED
    BY <2>1, <2>2
<1>9. ReportsOnSuite(m, suite, n + 1)'
  <2> HIDE DEF e
  <2> PICK k : k = e
    OBVIOUS
  <2>1. ReportsOnSuite(k, suite, n)
    BY <1>8
  <2>2. /\ m.pass = k.pass + r.pass /\ m.fail = k.fail + r.fail /\ m.error = k.error + r.error
        /\ m.skipped = k.skipped + r.skipped /\ m.failures = k.failures \cup r.failures
    BY <1>7
  <2> QED
    BY <2>1, <2>2, MergedSound
<1>10. ASSUME NEW s \in DOMAIN report, s # suite
       PROVE  ReportsOnSuite(report[s], s, n + 1)'
  <2> PICK k : k = report[s]
    OBVIOUS
  <2>1. ReportsOnSuite(k, s, n)
    BY <1>1 DEF HarnessInv, ReportIsTrue
  <2>2. ReportsOnSuite(k, s, n + 1)'
    BY <1>1, <1>10, <2>1, OthersSound DEF ReportsOnFile
  <2>3. k = report'[s]
    BY <1>6, <1>10
  <2> QED
    BY <2>2, <2>3
<1>11. \A s \in DOMAIN report' : ReportsOnSuite(report[s], s, n + 1)'
  <2> SUFFICES ASSUME NEW s \in DOMAIN report'
               PROVE  ReportsOnSuite(report[s], s, n + 1)'
    OBVIOUS
  <2>1. CASE s = suite
    BY <1>9, <2>1
  <2>2. CASE s # suite
    BY <1>6, <1>10, <2>2
  <2> QED
    BY <2>1, <2>2
<1>12. \A i \in 1..n + 1 : SuiteOf(i)' \in DOMAIN report'
  <2> TAKE i \in 1..n + 1
  <2>1. CASE i \in 1..n
    <3>1. SuiteOf(i) \in DOMAIN report /\ SuiteOf(i)' = SuiteOf(i)
      BY <1>1, <2>1 DEF HarnessInv, ReportIsTrue, ReadNext
    <3> QED
      BY <1>6, <3>1
  <2>2. CASE i = n + 1
    BY <1>1, <1>6, <2>2 DEF ReadNext
  <2> QED
    BY <2>1, <2>2
<1>13. ReportIsTrue'
  <2>1. at' - 1 = n + 1
    BY <1>1, <1>2
  <2> QED
    BY <1>11, <1>12, <2>1 DEF ReportIsTrue
<1> QED
  BY <1>2, <1>3, <1>4, <1>5, <1>13 DEF HarnessInv

\* A file that cannot be used counts as one error.
LEMMA FileErrorSound ==
  ASSUME NEW doc, ~Usable(doc), NEW file, NEW schema_ok
  PROVE  ReportsOnFile(FileError(file, schema_ok), doc)
<1> DEFINE r == FileError(file, schema_ok)
<1>1. r.pass = 0 /\ r.fail = 0 /\ r.error = 1 /\ r.skipped = 0
  BY DEF FileError, EmptyReport
<1>2. Weight(doc) = 1
  BY DEF Weight, Usable
<1> HIDE DEF r
<1>3. HasCounts(r) /\ r.pass + r.fail + r.error + r.skipped = 1 /\ r.error # 0
  BY <1>1 DEF HasCounts
<1> QED
  BY <1>2, <1>3 DEF ReportsOnFile, r

\* A file that was filtered out counts as so many skipped vectors.
LEMMA SkippedSound ==
  ASSUME NEW doc \in Contents, doc.state = "whole", Excluded(doc), NEW file
  PROVE  ReportsOnFile([EmptyReport EXCEPT !.file = file, !.skipped = Len(doc.vectors)], doc)
<1> DEFINE r == [EmptyReport EXCEPT !.file = file, !.skipped = Len(doc.vectors)]
           k == Len(doc.vectors)
<1>1. k \in Nat
  BY FileStates, LenProperties
<1>2. r.pass = 0 /\ r.fail = 0 /\ r.error = 0 /\ r.skipped = k /\ r.failures = {}
  BY DEF EmptyReport
<1>3. Weight(doc) = k /\ Usable(doc) /\ Passes(doc)
  BY DEF Weight, Usable, Passes
<1> HIDE DEF r, k
<1>4. HasCounts(r) /\ r.pass + r.fail + r.error + r.skipped = k
  BY <1>1, <1>2 DEF HasCounts
<1> QED
  BY <1>1, <1>2, <1>3, <1>4 DEF ReportsOnFile, r

\* A file whose vectors were all judged counts as they passed or failed.
LEMMA JudgedSound ==
  ASSUME HarnessInv, cli = "judging", vec > Len(loaded.vectors)
  PROVE  ReportsOnFile(sr, loaded)
<1> DEFINE k == Len(loaded.vectors)
           p == sr.pass
           f == sr.fail
<1>1. /\ Usable(loaded) /\ ~Excluded(loaded) /\ vec \in 1..k + 1
      /\ p \in Nat /\ f \in Nat /\ p + f = vec - 1 /\ sr.error = 0 /\ sr.skipped = 0
      /\ f = 0 => sr.failures = {} /\ \A i \in 1..vec - 1 : loaded.vectors[i] \notin judged.failing
  BY DEF HarnessInv, FileAtHand, Judging
<1>2. loaded \in Contents
  BY ElementOfSeq DEF HarnessInv, FileAtHand, Judging, Progress
<1>3. k \in Nat /\ DOMAIN loaded.vectors = 1..k
  BY <1>2, FileStates, LenProperties
<1>4. Weight(loaded) = k
  BY <1>1 DEF Weight, Usable
<1> HIDE DEF k, p, f
<1>5. vec - 1 = k
  BY <1>1, <1>3 DEF k
<1>6. p + f + 0 + 0 = k
  BY <1>1, <1>5
<1>7. HasCounts(sr) /\ sr.pass + sr.fail + sr.error + sr.skipped = k
  BY <1>1, <1>6 DEF HasCounts, p, f
<1>8. f = 0 => sr.failures = {} /\ Passes(loaded)
  BY <1>1, <1>3, <1>5 DEF Passes
<1> QED
  BY <1>1, <1>3, <1>4, <1>7, <1>8 DEF ReportsOnFile, f

\* The report is as true as before while no file is done.
LEMMA ReportStays ==
  ASSUME ReportIsTrue, UNCHANGED <<job, inputs, at, report, judged>>,
         \A i \in 1..at - 1 : reads[i]' = reads[i]
  PROVE  ReportIsTrue'
<1>1. \A i \in 1..at - 1 : /\ SuiteOf(i)' = SuiteOf(i) /\ Weight(reads[i])' = Weight(reads[i])
                           /\ Usable(reads[i])' <=> Usable(reads[i])
                           /\ Passes(reads[i])' <=> Passes(reads[i])
  BY DEF SuiteOf, stem_suite_hint, Weight, Usable, Passes, Excluded, Conforms
<1>2. ASSUME NEW s
      PROVE  DueIn(s, at - 1)' = DueIn(s, at - 1)
  <2>1. {i \in 1..at - 1 : SuiteOf(i) = s}' = {i \in 1..at - 1 : SuiteOf(i) = s}
    BY <1>1
  <2>2. \A x : x \in DueIn(s, at - 1)' <=> x \in DueIn(s, at - 1)
    BY <1>1, <2>1 DEF DueIn
  <2> QED
    BY <2>2
<1>3. ASSUME NEW s \in DOMAIN report
      PROVE  ReportsOnSuite(report[s], s, at - 1)'
  <2>1. ReportsOnSuite(report[s], s, at - 1)
    BY DEF ReportIsTrue
  <2> QED
    BY <1>1, <1>2, <2>1 DEF ReportsOnSuite, HasCounts
<1> QED
  BY <1>1, <1>3 DEF ReportIsTrue

\* What is left alone while a file is at hand.
LEMMA StillAtHand ==
  ASSUME HarnessInv, Judging, Judging', FileAtHand',
         UNCHANGED <<job, inputs, at, report, summaries, exit, reads, disk, judged, changed>>
  PROVE  HarnessInv'
<1>1. Progress' /\ CleanExit'
  <2>1. cli \in {"judging", "classifying"} /\ cli' \in {"judging", "classifying"}
    BY DEF Judging
  <2>2. CleanExit'
    BY <2>1 DEF HarnessInv, CleanExit
  <2>3. at <= Len(inputs) /\ Len(reads) = at
    BY <2>1 DEF HarnessInv, Progress, Judging
  <2>4. Progress'
    BY <2>1, <2>3 DEF HarnessInv, Progress, Judging
  <2> QED
    BY <2>2, <2>4
<1>2. ReportIsTrue'
  BY ReportStays DEF HarnessInv
<1>3. ReadsAreFresh'
  BY DEF HarnessInv, ReadsAreFresh, NothingWasWritten, Judging
<1>4. SummariesAreFresh'
  BY DEF HarnessInv, SummariesAreFresh, NothingWasWritten, Judging
<1> QED
  BY <1>1, <1>2, <1>3, <1>4 DEF HarnessInv

LEMMA InvokeKeeps ==
  ASSUME HarnessInv, NEW j \in Invocations, Invoke(j), UNCHANGED <<disk, judged, changed>>
  PROVE  HarnessInv'
<1> DEFINE chosen == IF j.inputs = <<>> THEN default_inputs ELSE j.inputs
<1>1. chosen \in Seq(Documents)
  BY DefaultInputsAreDocuments, InvocationsTyped
<1> HIDE DEF chosen
<1>2. /\ cli = "idle" /\ inputs' = chosen
      /\ \/ cli' = "reading" /\ exit' = exit /\ chosen # <<>>
         \/ cli' = "exited" /\ exit' = {2}
      /\ UNCHANGED <<at, report, summaries, reads, disk, judged, changed>>
  BY DEF Invoke, Exit, chosen
<1>3. at = 1 /\ DOMAIN report = {} /\ Len(reads) = 0 /\ summaries = <<>>
  BY <1>2 DEF HarnessInv, Progress, Judging, SummariesAreFresh
<1>4. chosen # <<>> => 1 <= Len(chosen)
  BY <1>1, EmptySeq, LenProperties
<1>5. Progress'
  BY <1>1, <1>2, <1>3, <1>4 DEF HarnessInv, Progress, Judging
<1>6. FileAtHand'
  BY <1>2 DEF FileAtHand, Judging
<1>7. ReportIsTrue' /\ ReadsAreFresh'
  BY <1>2, <1>3 DEF ReportIsTrue, ReadsAreFresh
<1>8. SummariesAreFresh'
  BY <1>2, <1>3 DEF HarnessInv, SummariesAreFresh
<1>9. CleanExit'
  <2>1. {2} # {0}
    OBVIOUS
  <2> QED
    BY <1>2, <2>1 DEF HarnessInv, CleanExit
<1> QED
  BY <1>2, <1>5, <1>6, <1>7, <1>8, <1>9 DEF HarnessInv

LEMMA ReadFileKeeps ==
  ASSUME HarnessInv, ReadFile, UNCHANGED <<disk, judged, changed>>
  PROVE  HarnessInv'
<1> DEFINE file == inputs[at]
           doc == disk[file]
<1>1. /\ cli = "reading" /\ reads' = Append(reads, doc)
      /\ summaries = <<>> /\ at \in Nat \ {0} /\ Len(reads) = at - 1 /\ at <= Len(inputs)
      /\ reads \in Seq(Contents) /\ inputs \in Seq(Documents) /\ disk \in [Documents -> Contents]
  BY DEF ReadFile, HarnessInv, Progress, Judging, SummariesAreFresh
<1> PICK n \in Nat : at = n + 1
  BY <1>1
<1>2. file \in Documents /\ doc \in Contents
  <2>1. at \in 1..Len(inputs)
    BY <1>1, LenProperties
  <2> QED
    BY <1>1, <2>1, ElementOfSeq
<1> PICK d \in Contents : d = doc
  BY <1>2
<1> PICK f : f = file
  OBVIOUS
<1>3. /\ reads' \in Seq(Contents) /\ Len(reads') = at
      /\ reads'[n + 1] = d /\ \A i \in 1..n : reads'[i] = reads[i]
  BY <1>1, AppendProperties
<1>4. exit # {0}
  BY <1>1 DEF HarnessInv, CleanExit
<1> DEFINE suite == IF d.state = "whole" THEN d.suite ELSE stem_suite_hint(f)
<1>5. NothingWasWritten => d = disk[inputs[at]] /\ \A i \in 1..n : reads[i] = disk[inputs[i]]
  BY <1>1 DEF HarnessInv, ReadsAreFresh
<1>6. ASSUME NEW r, NEW s, s = suite, NextFile(s, r), ReportsOnFile(r, d)
      PROVE  HarnessInv'
  <2>1. UNCHANGED <<job, inputs>> /\ cli' \in {"reading", "summarizing"}
    BY <1>6 DEF NextFile
  <2>2. SuiteOf(n + 1)' = s
    BY <1>3, <1>6, <2>1 DEF SuiteOf, stem_suite_hint
  <2>3. \A i \in 1..n : SuiteOf(i)' = SuiteOf(i)
    BY <1>3, <2>1 DEF SuiteOf, stem_suite_hint
  <2>4. ReadNext(n, s, d)
    BY <1>3, <2>1, <2>2, <2>3 DEF ReadNext
  <2>5. NothingWasWritten' => NothingWasWritten
    BY <1>1 DEF NothingWasWritten
  <2> HIDE DEF suite, doc
  <2> QED
    BY <1>1, <1>3, <1>4, <1>5, <1>6, <2>4, <2>5, FileIsDone
<1>7. CASE d.state # "whole"
  <2>1. NextFile(stem_suite_hint(f), FileError(f, {})) /\ ~Usable(d)
    BY <1>7 DEF ReadFile, Usable
  <2> PICK r : r = FileError(f, {})
    OBVIOUS
  <2> PICK s : s = stem_suite_hint(f)
    OBVIOUS
  <2> QED
    BY <1>6, <1>7, <2>1, FileErrorSound
<1>8. CASE d.state = "whole" /\ Excluded(d)
  <2> PICK r : r = [EmptyReport EXCEPT !.file = f, !.skipped = Len(d.vectors)]
    OBVIOUS
  <2>1. NextFile(d.suite, r)
    BY <1>8 DEF ReadFile
  <2>2. ReportsOnFile(r, d)
    BY <1>8, SkippedSound
  <2> QED
    BY <1>6, <1>8, <2>1, <2>2
<1>9. CASE d.state = "whole" /\ ~Excluded(d) /\ ~Conforms(d)
  <2>1. NextFile(d.suite, FileError(f, {FALSE})) /\ ~Usable(d)
    BY <1>9 DEF ReadFile, Usable
  <2> PICK r : r = FileError(f, {FALSE})
    OBVIOUS
  <2> QED
    BY <1>6, <1>9, <2>1, FileErrorSound
<1>10. CASE d.state = "whole" /\ ~Excluded(d) /\ Conforms(d)
  <2>1. /\ cli' = "judging" /\ loaded' = d /\ vec' = 1
        /\ sr' = [EmptyReport EXCEPT !.file = f, !.schema_ok = {TRUE}]
        /\ UNCHANGED <<job, inputs, at, report, summaries, exit>>
    BY <1>10 DEF ReadFile
  <2>2. /\ DOMAIN sr' = ReportFields /\ sr'.pass = 0 /\ sr'.fail = 0 /\ sr'.error = 0
        /\ sr'.skipped = 0 /\ sr'.failures = {}
    BY <2>1 DEF EmptyReport, ReportFields
  <2>3. Usable(loaded)' /\ ~Excluded(loaded)'
    BY <1>10, <2>1 DEF Usable, Excluded, Conforms
  <2>4. Len(loaded'.vectors) \in Nat
    BY <2>1, FileStates, LenProperties
  <2>5. FileAtHand'
    BY <1>3, <2>1, <2>2, <2>3, <2>4 DEF FileAtHand, Judging
  <2>6. Progress'
    BY <1>1, <1>3, <2>1 DEF HarnessInv, Progress, Judging
  <2>7. ReportIsTrue'
    BY <1>3, <2>1, ReportStays DEF HarnessInv
  <2>8. ReadsAreFresh'
    BY <1>1, <1>3, <1>5, <2>1 DEF ReadsAreFresh, NothingWasWritten
  <2>9. SummariesAreFresh' /\ CleanExit'
    BY <1>1, <1>4, <2>1 DEF HarnessInv, SummariesAreFresh, CleanExit
  <2> QED
    BY <2>1, <2>5, <2>6, <2>7, <2>8, <2>9 DEF HarnessInv
<1> QED
  BY <1>7, <1>8, <1>9, <1>10

LEMMA FinishFileKeeps ==
  ASSUME HarnessInv, FinishFile, UNCHANGED <<disk, judged, changed>>
  PROVE  HarnessInv'
<1>1. /\ cli = "judging" /\ vec > Len(loaded.vectors) /\ NextFile(loaded.suite, sr)
      /\ UNCHANGED <<reads, job, inputs>>
  BY DEF FinishFile, NextFile
<1>2. /\ loaded = reads[at] /\ Usable(loaded) /\ Len(reads) = at /\ reads \in Seq(Contents)
      /\ at \in Nat \ {0} /\ at <= Len(inputs) /\ summaries = <<>> /\ exit # {0}
  BY <1>1 DEF HarnessInv, FileAtHand, Progress, Judging, SummariesAreFresh, CleanExit
<1> PICK n \in Nat : at = n + 1
  BY <1>2
<1> PICK d : d = loaded
  OBVIOUS
<1> PICK s : s = loaded.suite
  OBVIOUS
<1> PICK r : r = sr
  OBVIOUS
<1>3. ReportsOnFile(r, d)
  BY <1>1, JudgedSound
<1>4. SuiteOf(n + 1)' = s
  BY <1>1, <1>2 DEF SuiteOf, Usable
<1>5. \A i \in 1..n : SuiteOf(i)' = SuiteOf(i)
  BY <1>1 DEF SuiteOf, stem_suite_hint
<1>6. ReadNext(n, s, d)
  BY <1>1, <1>2, <1>4, <1>5 DEF ReadNext
<1>7. NothingWasWritten => d = disk[inputs[at]] /\ \A i \in 1..n : reads[i] = disk[inputs[i]]
  BY <1>2 DEF HarnessInv, ReadsAreFresh
<1>8. NothingWasWritten' => NothingWasWritten
  BY <1>1 DEF NothingWasWritten
<1>9. NextFile(s, r)
  BY <1>1
<1> QED
  BY <1>1, <1>2, <1>3, <1>6, <1>7, <1>8, <1>9, FileIsDone

LEMMA JudgeVectorsKeeps ==
  ASSUME HarnessInv, JudgeVectors, UNCHANGED <<disk, judged, changed>>
  PROVE  HarnessInv'
<1> DEFINE v == loaded.vectors
           keys == SubSeq(v, vec, Stop - 1)
           k == Len(v)
<1>1. /\ cli = "judging" /\ cli' = cli /\ ~Waits(vec)
      /\ sr' = Tallied(sr, keys, judged.failing) /\ vec' = Stop
      /\ UNCHANGED <<job, inputs, at, loaded, report, summaries, exit, reads>>
  BY DEF JudgeVectors
<1>2. /\ loaded = reads[at] /\ Usable(loaded) /\ ~Excluded(loaded) /\ vec \in 1..k + 1
      /\ DOMAIN sr = ReportFields /\ sr.pass \in Nat /\ sr.fail \in Nat
      /\ sr.pass + sr.fail = vec - 1 /\ sr.error = 0 /\ sr.skipped = 0
      /\ sr.fail = 0 => /\ sr.failures = {}
                        /\ \A i \in 1..vec - 1 : v[i] \notin judged.failing
  BY <1>1 DEF HarnessInv, FileAtHand, Judging
<1>3. v \in Seq(STRING) /\ k \in Nat
  <2>1. loaded \in Contents
    BY <1>1, <1>2, ElementOfSeq DEF HarnessInv, Progress, Judging
  <2> QED
    BY <2>1, FileStates, LenProperties
<1> PICK to : to = Stop
  OBVIOUS
<1>4. to \in vec..k + 1
  BY <1>2, <1>3, StopsAtClassifier
<1>5. /\ keys \in Seq(STRING) /\ Len(keys) = to - vec
      /\ \A i \in 1..to - vec : keys[i] = v[vec + i - 1]
  <2>1. \A i \in vec..to - 1 : v[i] \in STRING
    BY <1>2, <1>3, <1>4, ElementOfSeq
  <2>2. vec \in Int /\ to - 1 \in Int /\ (to - 1) - vec + 1 = to - vec
        /\ (IF vec <= to - 1 THEN (to - 1) - vec + 1 ELSE 0) = to - vec
    BY <1>2, <1>3, <1>4
  <2> HIDE DEF v
  <2> QED
    BY <2>1, <2>2, SubSeqProperties
<1> HIDE DEF keys, v, k
<1>6. TalliesUp(sr', sr, keys, judged.failing)
  BY <1>1, <1>2, <1>5, TalliedSound
<1>7. sr.pass + sr.fail + Len(keys) = to - 1
  BY <1>2, <1>3, <1>4, <1>5
<1>8. ASSUME sr'.fail = 0
      PROVE  sr'.failures = {} /\ \A i \in 1..to - 1 : v[i] \notin judged.failing
  <2>1. sr'.failures = {}
    BY <1>2, <1>6, <1>8 DEF TalliesUp
  <2>2. ASSUME NEW i \in 1..to - 1
        PROVE  v[i] \notin judged.failing
    <3>1. CASE i \in 1..vec - 1
      BY <1>2, <1>6, <1>8, <3>1 DEF TalliesUp
    <3>2. CASE i \in vec..to - 1
      <4>1. i - vec + 1 \in 1..to - vec /\ vec + (i - vec + 1) - 1 = i
        BY <1>2, <1>3, <1>4, <3>2
      <4>2. keys[i - vec + 1] = v[i] /\ keys[i - vec + 1] \notin judged.failing
        BY <1>5, <1>6, <1>8, <4>1 DEF TalliesUp
      <4> QED
        BY <4>2
    <3> QED
      BY <1>2, <1>3, <1>4, <3>1, <3>2
  <2> QED
    BY <2>1, <2>2
<1>9. Usable(loaded)' /\ ~Excluded(loaded)'
  BY <1>1, <1>2 DEF Usable, Excluded, Conforms
<1>10. to \in 1..k + 1
  BY <1>2, <1>3, <1>4
<1>11. FileAtHand'
  BY <1>1, <1>2, <1>6, <1>7, <1>8, <1>9, <1>10 DEF TalliesUp, FileAtHand, Judging, v, k
<1> QED
  BY <1>1, <1>11, StillAtHand DEF Judging

LEMMA HandOverKeeps ==
  ASSUME HarnessInv, HandOver, UNCHANGED <<disk, judged, changed>>
  PROVE  HarnessInv'
<1>1. /\ cli = "judging" /\ cli' = "classifying" /\ vec <= Len(loaded.vectors) /\ Waits(vec)
      /\ UNCHANGED <<job, inputs, at, loaded, vec, sr, report, summaries, exit, reads>>
  BY DEF HandOver, AtClassifier
<1>2. loaded.vectors[vec] \in ClassifierKeys
  <2>1. loaded \in Contents /\ vec \in 1..Len(loaded.vectors) + 1
    BY <1>1, ElementOfSeq DEF HarnessInv, Progress, FileAtHand, Judging
  <2>2. Len(loaded.vectors) \in Nat
    BY <2>1, FileStates, LenProperties
  <2> QED
    BY <1>1, <2>1, <2>2 DEF Waits
<1>3. FileAtHand'
  BY <1>1, <1>2 DEF HarnessInv, FileAtHand, Judging, Usable, Excluded, Conforms
<1> QED
  BY <1>1, <1>3, StillAtHand DEF Judging

LEMMA TakeUpKeeps ==
  ASSUME HarnessInv, NEW verdict, TakeUp(verdict), UNCHANGED <<disk, judged, changed>>
  PROVE  HarnessInv'
<1> DEFINE v == loaded.vectors
           k == Len(v)
           keys == <<v[vec]>>
           failing == IF verdict = "Pass" THEN {} ELSE {v[vec]}
<1>1. /\ cli = "classifying" /\ cli' = "judging"
      /\ sr' = Tallied(sr, keys, failing) /\ vec' = vec + 1
      /\ UNCHANGED <<job, inputs, at, loaded, report, summaries, exit, reads>>
  BY DEF TakeUp
<1>2. /\ loaded = reads[at] /\ Usable(loaded) /\ ~Excluded(loaded) /\ vec \in 1..k + 1 /\ vec <= k
      /\ v[vec] \notin judged.failing
      /\ DOMAIN sr = ReportFields /\ sr.pass \in Nat /\ sr.fail \in Nat
      /\ sr.pass + sr.fail = vec - 1 /\ sr.error = 0 /\ sr.skipped = 0
      /\ sr.fail = 0 => /\ sr.failures = {}
                        /\ \A i \in 1..vec - 1 : v[i] \notin judged.failing
  BY <1>1 DEF HarnessInv, FileAtHand, Judging
<1>3. v \in Seq(STRING) /\ k \in Nat
  <2>1. loaded \in Contents
    BY <1>1, <1>2, ElementOfSeq DEF HarnessInv, Progress, Judging
  <2> QED
    BY <2>1, FileStates, LenProperties
<1>4. keys \in Seq(STRING) /\ Len(keys) = 1
  <2>1. vec \in 1..k
    BY <1>2, <1>3
  <2>2. v[vec] \in STRING
    BY <1>3, <2>1, ElementOfSeq
  <2> QED
    BY <2>2
<1> HIDE DEF keys, v, k, failing
<1>5. TalliesUp(sr', sr, keys, failing)
  BY <1>1, <1>2, <1>4, TalliedSound
<1>6. sr'.pass + sr'.fail = (vec + 1) - 1 /\ vec + 1 \in 1..k + 1
  BY <1>2, <1>3, <1>4, <1>5 DEF TalliesUp
<1>7. sr'.fail = 0 => sr'.failures = {} /\ \A i \in 1..vec : v[i] \notin judged.failing
  <2>1. \A i \in 1..vec : i \in 1..vec - 1 \/ i = vec
    BY <1>2
  <2> QED
    BY <1>2, <1>5, <2>1 DEF TalliesUp
<1>8. Usable(loaded)' /\ ~Excluded(loaded)'
  BY <1>1, <1>2 DEF Usable, Excluded, Conforms
<1>9. (vec + 1) - 1 = vec
  BY <1>2, <1>3
<1>10. FileAtHand'
  BY <1>1, <1>2, <1>5, <1>6, <1>7, <1>8, <1>9 DEF TalliesUp, FileAtHand, Judging, v, k
<1> QED
  BY <1>1, <1>10, StillAtHand DEF Judging

\* The second summary is about finitely many vectors.
LEMMA KeysAreFinite ==
  ASSUME NEW suites, inputs \in Seq(Documents), disk \in [Documents -> Contents]
  PROVE  IsFiniteSet(KeysNow(suites))
<1> DEFINE I == {i \in DOMAIN inputs : disk[inputs[i]].suite \in suites}
           KeysOf(i) == {<<i, n>> : n \in DOMAIN disk[inputs[i]].vectors}
           f == [i \in I |-> KeysOf(i)]
           T == {KeysOf(i) : i \in I}
<1>1. IsFiniteSet(I) /\ I \subseteq 1..Len(inputs)
  <2>1. Len(inputs) \in Nat /\ DOMAIN inputs = 1..Len(inputs)
    BY LenProperties
  <2>2. IsFiniteSet(1..Len(inputs))
    BY <2>1, FS_Interval
  <2>3. I \in SUBSET (1..Len(inputs))
    BY <2>1
  <2> HIDE DEF I
  <2> QED
    BY <2>2, <2>3, FS_Subset
<1>2. ASSUME NEW i \in I
      PROVE  IsFiniteSet(KeysOf(i))
  <2> DEFINE vectors == disk[inputs[i]].vectors
  <2>1. disk[inputs[i]] \in Contents
    BY <1>1, ElementOfSeq
  <2>2. Len(vectors) \in Nat /\ DOMAIN vectors = 1..Len(vectors)
    <3>1. vectors \in Seq(STRING)
      BY <2>1, FileStates
    <3> HIDE DEF vectors
    <3> QED
      BY <3>1, LenProperties
  <2>3. IsFiniteSet(1..Len(vectors)) /\ IsFiniteSet({i})
    <3> HIDE DEF vectors
    <3>1. IsFiniteSet(1..Len(vectors))
      BY <2>2, FS_Interval
    <3>2. IsFiniteSet({i})
      BY FS_Singleton, Zenon
    <3> QED
      BY <3>1, <3>2
  <2>4. KeysOf(i) = {i} \X (1..Len(vectors))
    BY <2>2
  <2> HIDE DEF KeysOf, vectors
  <2>5. IsFiniteSet({i} \X (1..Len(vectors)))
    BY <2>3, FS_Product
  <2> QED
    BY <2>4, <2>5
<1>3. f \in Surjection(I, T)
  <2> HIDE DEF KeysOf, I
  <2> QED
    BY DEF Surjection
<1>4. IsFiniteSet(T)
  <2> HIDE DEF f, T, I
  <2> QED
    BY <1>1, <1>3, FS_Surjection
<1>5. \A S \in T : IsFiniteSet(S)
  <2> HIDE DEF KeysOf, I
  <2> QED
    BY <1>2
<1>6. KeysNow(suites) = UNION T
  BY DEF KeysNow
<1> HIDE DEF T
<1> QED
  BY <1>4, <1>5, <1>6, FS_UNION

\* summarize_attestation: every key is live or mock, and none is both.
LEMMA AttestationIsAPartition ==
  ASSUME inputs \in Seq(Documents), disk \in [Documents -> Contents]
  PROVE  summarize_attestation.live + summarize_attestation.mock = Cardinality(AttestationKeys)
<1> DEFINE keys == AttestationKeys
           live == {p \in keys : "cose" \in MarksOf(p)}
<1>1. IsFiniteSet(keys)
  BY KeysAreFinite DEF AttestationKeys
<1>2. live \subseteq keys
  OBVIOUS
<1>3. /\ summarize_attestation.live = Cardinality(live)
      /\ summarize_attestation.mock = Cardinality(keys \ live)
  BY DEF summarize_attestation, Summary, AttestationKeys
<1> HIDE DEF keys, live
<1>4. IsFiniteSet(live) /\ IsFiniteSet(keys \ live)
  BY <1>1, <1>2, FS_Subset, FS_Difference
<1>5. live \cup (keys \ live) = keys /\ live \cap (keys \ live) = {}
  BY <1>2
<1>6. Cardinality(keys) = Cardinality(live) + Cardinality(keys \ live) - Cardinality({})
  BY <1>4, <1>5, FS_Union
<1>7. Cardinality({}) = 0 /\ Cardinality(live) \in Nat /\ Cardinality(keys \ live) \in Nat
  BY <1>4, FS_EmptySet, FS_CardinalityType
<1> QED
  BY <1>3, <1>6, <1>7 DEF keys

LEMMA SummarizeKeeps ==
  ASSUME HarnessInv, Summarize, UNCHANGED <<disk, judged, changed>>
  PROVE  HarnessInv'
<1>1. /\ cli = "summarizing" /\ Len(summaries) < 3
      /\ UNCHANGED <<cli, job, inputs, at, loaded, vec, sr, report, exit, reads, disk, judged, changed>>
  BY DEF Summarize
<1>2. inputs \in Seq(Documents) /\ disk \in [Documents -> Contents]
  BY DEF HarnessInv, Progress
<1> PICK S : summaries \in Seq(S)
  BY DEF HarnessInv, SummariesAreFresh
<1> DEFINE k == Len(summaries)
<1> PICK x : x = <<summarize_crypto, summarize_attestation, summarize_transparency>>[k + 1]
  OBVIOUS
<1>3. summaries' = Append(summaries, x)
  BY DEF Summarize
<1>4. k \in Nat
  BY LenProperties
<1>5. summaries \in Seq(S \cup {x})
  <2>1. S \subseteq S \cup {x}
    OBVIOUS
  <2> QED
    BY <2>1
<1>6. /\ summaries' \in Seq(S \cup {x}) /\ Len(summaries') = k + 1
      /\ summaries'[k + 1] = x /\ \A i \in 1..k : summaries'[i] = summaries[i]
  BY <1>3, <1>5, AppendProperties
<1>7. k = 1 => x = summarize_attestation
  OBVIOUS
<1> HIDE DEF k
<1>8. NothingWasWritten /\ k + 1 >= 2 =>
        summaries'[2].live + summaries'[2].mock = Cardinality(AttestationKeys)
  <2> SUFFICES ASSUME NothingWasWritten, k + 1 >= 2
               PROVE  summaries'[2].live + summaries'[2].mock = Cardinality(AttestationKeys)
    OBVIOUS
  <2>1. CASE k = 1
    <3>1. summaries'[2] = summarize_attestation
      BY <1>6, <1>7, <2>1
    <3> QED
      BY <1>2, <3>1, AttestationIsAPartition
  <2>2. CASE k # 1
    <3>1. k >= 2 /\ 2 \in 1..k
      BY <1>4, <2>2
    <3>2. summaries'[2] = summaries[2]
      BY <1>6, <3>1
    <3> QED
      BY <3>1, <3>2 DEF HarnessInv, SummariesAreFresh, k
  <2> QED
    BY <2>1, <2>2
<1>9. AttestationKeys' = AttestationKeys /\ (NothingWasWritten' <=> NothingWasWritten)
  BY <1>1 DEF AttestationKeys, KeysNow, NothingWasWritten
<1>10. SummariesAreFresh'
  BY <1>1, <1>6, <1>8, <1>9 DEF SummariesAreFresh
<1>11. Progress' /\ FileAtHand' /\ ReadsAreFresh'
  BY <1>1 DEF HarnessInv, Progress, Judging, FileAtHand, ReadsAreFresh, NothingWasWritten
<1>12. ReportIsTrue'
  BY <1>1, ReportStays DEF HarnessInv
<1>13. CleanExit'
  BY <1>1 DEF HarnessInv, CleanExit, is_clean
<1> QED
  BY <1>1, <1>10, <1>11, <1>12, <1>13 DEF HarnessInv

LEMMA FinishKeeps ==
  ASSUME HarnessInv, NEW written, Finish(written), UNCHANGED <<disk, judged, changed>>
  PROVE  HarnessInv'
<1>1. /\ cli = "summarizing" /\ cli' = "exited"
      /\ exit' = {2} \/ exit' = {IF is_clean THEN 0 ELSE 1}
      /\ UNCHANGED <<job, inputs, at, loaded, vec, sr, report, summaries, reads, disk, judged, changed>>
  BY DEF Finish, Exit
<1>2. CleanExit'
  <2>1. exit' = {0} => is_clean
    <3>1. {2} # {0} /\ {1} # {0}
      OBVIOUS
    <3> QED
      BY <1>1, <3>1
  <2>2. is_clean => is_clean'
    BY <1>1 DEF is_clean
  <2> QED
    BY <1>1, <2>1, <2>2 DEF CleanExit
<1>3. Progress' /\ FileAtHand' /\ ReadsAreFresh' /\ SummariesAreFresh'
  BY <1>1 DEF HarnessInv, Progress, Judging, FileAtHand, ReadsAreFresh, SummariesAreFresh,
              NothingWasWritten
<1>4. ReportIsTrue'
  BY <1>1, ReportStays DEF HarnessInv
<1> QED
  BY <1>1, <1>2, <1>3, <1>4 DEF HarnessInv

\* What others write into the directory, if it shows.
LEMMA OthersWrite ==
  ASSUME HarnessInv, disk' \in [Documents -> Contents],
         NothingWasWritten' => NothingWasWritten /\ disk' = disk,
         UNCHANGED <<harnessVars, judged>>
  PROVE  HarnessInv'
<1>1. UNCHANGED <<cli, job, inputs, at, loaded, vec, sr, report, summaries, exit, reads, judged>>
  BY DEF harnessVars
<1>3. Progress' /\ FileAtHand'
  BY <1>1 DEF HarnessInv, Progress, Judging, FileAtHand, Usable, Excluded, Conforms
<1>4. ReportIsTrue'
  BY <1>1, ReportStays DEF HarnessInv
<1>5. ReadsAreFresh'
  <2> SUFFICES ASSUME NothingWasWritten', NEW i \in 1..Len(reads')
               PROVE  reads'[i] = disk'[inputs'[i]]
    BY DEF ReadsAreFresh
  <2> QED
    BY <1>1 DEF HarnessInv, ReadsAreFresh
<1>6. SummariesAreFresh'
  <2>1. disk' = disk => AttestationKeys' = AttestationKeys
    BY <1>1 DEF AttestationKeys, KeysNow
  <2> QED
    BY <1>1, <2>1 DEF HarnessInv, SummariesAreFresh
<1>7. CleanExit'
  BY <1>1 DEF HarnessInv, CleanExit, is_clean
<1> QED
  BY <1>1, <1>3, <1>4, <1>5, <1>6, <1>7 DEF HarnessInv

LEMMA HarnessStepKeeps ==
  HarnessInv /\ [HarnessNext]_<<disk, harnessVars, judged, changed>> => HarnessInv'
<1> SUFFICES ASSUME HarnessInv, [HarnessNext]_<<disk, harnessVars, judged, changed>>
             PROVE  HarnessInv'
  OBVIOUS
<1>1. CASE UNCHANGED <<disk, harnessVars, judged, changed>>
  <2>1. disk' \in [Documents -> Contents] /\ (NothingWasWritten' => NothingWasWritten)
    BY <1>1 DEF HarnessInv, NothingWasWritten, harnessVars
  <2> QED
    BY <1>1, <2>1, OthersWrite
<1>2. CASE disk' \in [Documents -> Contents] /\ FilesWritten
  <2>1. NothingWasWritten' => NothingWasWritten /\ disk' = disk
    BY <1>2 DEF FilesWritten, NothingWasWritten, harnessVars
  <2> QED
    BY <1>2, <2>1, OthersWrite DEF FilesWritten
<1>3. ASSUME UNCHANGED <<disk, judged, changed>>,
             \/ \E j \in Invocations : Invoke(j)
             \/ ReadFile \/ JudgeVectors \/ FinishFile \/ HandOver \/ Summarize
             \/ \E verdict \in {"Pass", "Fail"} : TakeUp(verdict)
             \/ \E written \in BOOLEAN : Finish(written)
      PROVE  HarnessInv'
  BY <1>3, InvokeKeeps, ReadFileKeeps, JudgeVectorsKeeps, FinishFileKeeps, HandOverKeeps,
     SummarizeKeeps, TakeUpKeeps, FinishKeeps
<1> QED
  BY <1>1, <1>2, <1>3 DEF HarnessNext

\* Exit code 0 means that every input could be read, conformed to the schema unless
\* its suite was filtered out, and held no vector that failed (run_file, merge_into,
\* is_clean, main), whatever is written into the directory meanwhile.
THEOREM CleanIsClean == HarnessSpec => []CleanMeansEveryVectorPassed
<1>1. HarnessInv => CleanMeansEveryVectorPassed
  <2> SUFFICES ASSUME HarnessInv, exit = {0}
               PROVE  /\ \A i \in DOMAIN reads : Usable(reads[i]) /\ Passes(reads[i])
                      /\ \A s \in DOMAIN report : report[s].failures = {}
    BY DEF CleanMeansEveryVectorPassed, Usable, Passes
  <2>1. cli = "exited" /\ is_clean
    BY DEF HarnessInv, CleanExit
  <2>2. DOMAIN reads = 1..at - 1
    BY <2>1, LenProperties DEF HarnessInv, Progress, Judging
  <2>3. ASSUME NEW s \in DOMAIN report
        PROVE  /\ report[s].failures = {}
               /\ \A i \in 1..at - 1 : SuiteOf(i) = s => Usable(reads[i]) /\ Passes(reads[i])
    <3> DEFINE f == report[s].fail
               e == report[s].error
    <3>1. ReportsOnSuite(report[s], s, at - 1) /\ f + e = 0
      BY <2>1 DEF HarnessInv, ReportIsTrue, is_clean
    <3>2. f \in Nat /\ e \in Nat
      BY <3>1 DEF ReportsOnSuite, HasCounts
    <3> HIDE DEF f, e
    <3>3. f = 0 /\ e = 0
      BY <3>1, <3>2
    <3> QED
      BY <3>1, <3>3 DEF ReportsOnSuite, f, e
  <2>4. \A i \in 1..at - 1 : SuiteOf(i) \in DOMAIN report
    BY DEF HarnessInv, ReportIsTrue
  <2> QED
    BY <2>2, <2>3, <2>4
<1> QED
  BY HarnessInitially, HarnessStepKeeps, <1>1, PTL DEF HarnessSpec

\* When all inputs of the attestation suite could be used, and nobody wrote, the
\* second reading finds what the first one counted.
LEMMA SameVectorsTwice ==
  ASSUME HarnessInv, cli = "summarizing", NothingWasWritten,
         \A i \in 1..at - 1 : SuiteOf(i) = "pcr-attestation-reject" => Usable(reads[i])
  PROVE  DueIn("pcr-attestation-reject", at - 1) = AttestationKeys
<1> DEFINE pcr == "pcr-attestation-reject"
           due == DueIn(pcr, at - 1)
<1>1. /\ at = Len(inputs) + 1 /\ Len(reads) = at - 1 /\ reads \in Seq(Contents)
      /\ inputs \in Seq(Documents)
  BY DEF HarnessInv, Progress, Judging
<1>2. Len(inputs) \in Nat /\ DOMAIN inputs = 1..at - 1 /\ Len(reads) = at - 1
  BY <1>1, LenProperties
<1>3. \A i \in 1..at - 1 : reads[i] = disk[inputs[i]] /\ reads[i] \in Contents
  BY <1>1, <1>2, ElementOfSeq DEF HarnessInv, ReadsAreFresh
<1>4. ASSUME NEW i \in 1..at - 1
      PROVE  /\ SuiteOf(i) = pcr <=> disk[inputs[i]].suite = pcr
             /\ SuiteOf(i) = pcr => 1..Weight(reads[i]) = DOMAIN disk[inputs[i]].vectors
  <2>1. CASE reads[i].state = "whole"
    <3>1. SuiteOf(i) = reads[i].suite
      BY <2>1 DEF SuiteOf
    <3>2. SuiteOf(i) = pcr => Weight(reads[i]) = Len(reads[i].vectors)
      BY DEF Weight, Usable
    <3>3. DOMAIN reads[i].vectors = 1..Len(reads[i].vectors)
      BY <1>3, FileStates, LenProperties
    <3> QED
      BY <1>3, <3>1, <3>2, <3>3
  <2>2. CASE reads[i].state # "whole"
    <3>1. reads[i].suite = "none"
      BY <1>3, <2>2 DEF Contents, Absent, Torn
    <3>2. SuiteOf(i) # pcr
      BY <2>2 DEF Usable
    <3> QED
      BY <1>3, <3>1, <3>2
  <2> QED
    BY <2>1, <2>2
<1>5. \A x : x \in due <=> \E i \in 1..at - 1 :
                            SuiteOf(i) = pcr /\ \E n \in 1..Weight(reads[i]) : x = <<i, n>>
  BY DEF DueIn
<1>6. \A x : x \in AttestationKeys <=>
               \E i \in 1..at - 1 : /\ disk[inputs[i]].suite = pcr
                                    /\ \E n \in DOMAIN disk[inputs[i]].vectors : x = <<i, n>>
  BY <1>2 DEF AttestationKeys, KeysNow
<1> HIDE DEF due
<1>7. \A x : x \in due <=> x \in AttestationKeys
  BY <1>4, <1>5, <1>6
<1> QED
  BY <1>7 DEF due

\* The report accounts, suite by suite, for every vector that was read and every file
\* that could not be, and the attestation summary is about the same vectors when no
\* file changed during the run (merge_into, tally, summarize_attestation).
THEOREM TalliesAccount == HarnessSpec => []TalliesAccountForEveryVector
<1>1. HarnessInv => TalliesAccountForEveryVector
  <2> SUFFICES ASSUME HarnessInv, cli = "summarizing"
               PROVE  TalliesAccountForEveryVector
    BY DEF TalliesAccountForEveryVector
  <2>1. DOMAIN reads = 1..at - 1
    BY LenProperties DEF HarnessInv, Progress, Judging
  <2>2. \A s : Due(s) = DueIn(s, at - 1)
    BY <2>1 DEF Due, DueIn
  <2>3. /\ \A i \in DOMAIN reads : SuiteOf(i) \in DOMAIN report
        /\ \A s \in DOMAIN report : ReportsOnSuite(report[s], s, at - 1)
    BY <2>1 DEF HarnessInv, ReportIsTrue
  <2>4. \A s \in DOMAIN report :
          report[s].pass + report[s].fail + report[s].error + report[s].skipped = Cardinality(Due(s))
    BY <2>2, <2>3 DEF ReportsOnSuite
  <2> DEFINE pcr == "pcr-attestation-reject"
             r == report[pcr]
  <2>5. ASSUME ~changed, Len(summaries) >= 2, pcr \in DOMAIN report, r.error = 0
        PROVE  summaries[2].live + summaries[2].mock = r.pass + r.fail + r.skipped
    <3>1. NothingWasWritten
      BY <2>5 DEF NothingWasWritten
    <3>2. summaries[2].live + summaries[2].mock = Cardinality(AttestationKeys)
      BY <2>5, <3>1 DEF HarnessInv, SummariesAreFresh
    <3>3. ReportsOnSuite(r, pcr, at - 1)
      BY <2>3, <2>5
    <3>4. DueIn(pcr, at - 1) = AttestationKeys
      BY <2>5, <3>1, <3>3, SameVectorsTwice DEF ReportsOnSuite
    <3> DEFINE p == r.pass
               f == r.fail
               e == r.error
               s == r.skipped
               c == Cardinality(AttestationKeys)
    <3>5. p \in Nat /\ f \in Nat /\ e = 0 /\ s \in Nat /\ p + f + e + s = c
      BY <2>5, <3>3, <3>4 DEF ReportsOnSuite, HasCounts
    <3> HIDE DEF p, f, e, s, c
    <3>6. c = p + f + s
      BY <3>5
    <3> QED
      BY <3>2, <3>6 DEF p, f, s, c
  <2> QED
    BY <2>3, <2>4, <2>5 DEF TalliesAccountForEveryVector
<1> QED
  BY HarnessInitially, HarnessStepKeeps, <1>1, PTL DEF HarnessSpec

-----------------------------------------------------------------------------
CanExceed(m) ==
  \/ m.pages > max_memory_pages
  \/ \E f \in {"alloc", "classify"} : m.may[f].grows # {}

\* The inductive invariant: a call that runs has a sound module, and a denial on
\* record is this module's own.
HostInv ==
  /\ pages \in 0 .. max_memory_pages
  /\ elements \in 0 .. MAX_TABLE_ELEMENTS
  /\ fuel \in 0 .. fuel_budget
  /\ buffer <= max_output_bytes
  /\ Running => SizesTyped(wasm)
  /\ denial # {} => CanExceed(wasm)
  /\ result.error = "MemoryGrowthDenied" => CanExceed(wasm)

\* An execution starts within the caps, and with no denial but its own.
LEMMA BeginKeeps ==
  ASSUME HostInv, NEW m, SizesTyped(m), NEW length, Begin(m, length)
  PROVE  HostInv'
<1> DEFINE tooBig == ModuleError(m) = "ok" /\ m.pages > max_memory_pages
           recorded == IF tooBig THEN Denied(FreshDenial, 0, m.pages) ELSE FreshDenial
           error == IF ModuleError(m) # "ok" THEN ModuleError(m)
                    ELSE IF tooBig \/ m.elements > MAX_TABLE_ELEMENTS \/ ~m.data_fits
                      THEN map_guest_trap(recorded, "InstantiationFailed")
                    ELSE IF m.start THEN "ForbiddenStartFunction"
                    ELSE IF length >= 2^(WordBits - 1) THEN "InputTooLarge"
                    ELSE "ok"
<1>1. /\ wasm' = m /\ buffer' = 0 /\ fuel' = fuel_budget /\ denial' = recorded
      /\ IF error = "ok"
           THEN phase' = "alloc" /\ pages' = m.pages /\ elements' = m.elements /\ result' = Failure("none")
           ELSE phase' = "idle" /\ pages' = 0 /\ elements' = 0 /\ result' = Failure(error)
  BY DEF Begin
<1>2. recorded # {} => tooBig
  BY DEF FreshDenial
<1>3. tooBig => CanExceed(m)
  BY DEF CanExceed
<1>4. ModuleError(m) # "MemoryGrowthDenied"
  BY DEF ModuleError
<1>5. error = "MemoryGrowthDenied" => recorded # {}
  BY <1>4 DEF map_guest_trap
<1>6. error = "ok" => ~tooBig /\ ~(m.elements > MAX_TABLE_ELEMENTS) /\ ModuleError(m) = "ok"
  BY DEF map_guest_trap
<1>7. CASE error = "ok"
  <2>1. /\ m.pages \in 0 .. max_memory_pages /\ m.elements \in 0 .. MAX_TABLE_ELEMENTS
        /\ fuel_budget \in 0 .. fuel_budget /\ 0 <= max_output_bytes
    BY <1>6, <1>7, ClassifierConfigTyped DEF SizesTyped
  <2>2. result'.error # "MemoryGrowthDenied"
    BY <1>1, <1>7 DEF Failure
  <2>3. denial' # {} => CanExceed(wasm)'
    BY <1>1, <1>2, <1>3 DEF CanExceed
  <2>4. SizesTyped(wasm)'
    BY <1>1 DEF SizesTyped
  <2> QED
    BY <1>1, <1>7, <2>1, <2>2, <2>3, <2>4 DEF HostInv
<1>8. CASE error # "ok"
  <2>1. /\ 0 \in 0 .. max_memory_pages /\ 0 \in 0 .. MAX_TABLE_ELEMENTS
        /\ fuel_budget \in 0 .. fuel_budget /\ 0 <= max_output_bytes
    BY ClassifierConfigTyped
  <2>2. ~Running'
    BY <1>1, <1>8 DEF Running
  <2>3. result'.error = "MemoryGrowthDenied" => error = "MemoryGrowthDenied"
    BY <1>1, <1>8 DEF Failure
  <2>4. denial' # {} => CanExceed(wasm)'
    BY <1>1, <1>2, <1>3 DEF CanExceed
  <2>5. result'.error = "MemoryGrowthDenied" => CanExceed(wasm)'
    BY <1>1, <1>2, <1>3, <1>5, <2>3 DEF CanExceed
  <2> QED
    BY <1>1, <1>8, <2>1, <2>2, <2>4, <2>5 DEF HostInv
<1> QED
  BY <1>7, <1>8

\* No instruction of the guest takes it past a cap, and every denial is its own.
LEMMA GuestKeeps ==
  ASSUME HostInv, NEW length, GuestStep(length)
  PROVE  HostInv'
<1>1. CASE GuestWork
  <2>1. fuel' \in 0 .. fuel_budget
    BY <1>1, ClassifierConfigTyped DEF GuestWork, FuelAfter, HostInv
  <2> QED
    BY <1>1, <2>1 DEF GuestWork, HostInv, Running, SizesTyped, CanExceed
<1>2. CASE GuestTraps
  <2>1. denial' = denial /\ wasm' = wasm /\ ~Running'
    BY <1>2 DEF GuestTraps, Running
  <2>2. result'.error = "MemoryGrowthDenied" => denial # {}
    BY <1>2 DEF GuestTraps, map_guest_trap, Failure
  <2>3. result'.error = "MemoryGrowthDenied" => CanExceed(wasm)'
    BY <2>1, <2>2 DEF HostInv, CanExceed
  <2> QED
    BY <1>2, <2>1, <2>3 DEF GuestTraps, HostInv, CanExceed
<1>3. ASSUME Running, NEW delta \in May.grows, GuestGrows(delta) PROVE HostInv'
  <2>1. delta \in Nat /\ pages \in Nat /\ CanExceed(wasm)
    BY <1>3 DEF HostInv, Running, May, SizesTyped, CanExceed
  <2>2. fuel' \in 0 .. fuel_budget
    BY <1>3, ClassifierConfigTyped DEF GuestGrows, FuelAfter, HostInv
  <2>3. pages' \in 0 .. max_memory_pages
    BY <1>3, <2>1, ClassifierConfigTyped DEF GuestGrows, HostInv
  <2>4. wasm' = wasm /\ CanExceed(wasm)'
    BY <1>3, <2>1 DEF GuestGrows, CanExceed
  <2> QED
    BY <1>3, <2>2, <2>3, <2>4 DEF GuestGrows, HostInv, Running, SizesTyped
<1>4. ASSUME NEW ptr, AllocReturns(ptr, length) PROVE HostInv'
  <2>1. fuel' \in 0 .. fuel_budget
    BY <1>4, ClassifierConfigTyped DEF AllocReturns, HostInv
  <2>2. result'.error = "MemoryGrowthDenied" => result.error = "MemoryGrowthDenied"
    BY <1>4 DEF AllocReturns, Failure
  <2>3. Running' => Running
    BY <1>4 DEF AllocReturns, Running
  <2> QED
    BY <1>4, <2>1, <2>2, <2>3 DEF AllocReturns, HostInv, SizesTyped, CanExceed
<1>5. ASSUME NEW reply, ClassifyReturns(reply) PROVE HostInv'
  <2>1. fuel' \in 0 .. fuel_budget
    BY <1>5, ClassifierConfigTyped DEF ClassifyReturns, HostInv
  <2>2. buffer' <= max_output_bytes
    BY <1>5, ClassifierConfigTyped DEF ClassifyReturns, OutputBuffer
  <2>3. result'.error # "MemoryGrowthDenied"
    BY <1>5 DEF ClassifyReturns, Failure, Success
  <2>4. ~Running'
    BY <1>5 DEF ClassifyReturns, Running
  <2> QED
    BY <1>5, <2>1, <2>2, <2>3, <2>4 DEF ClassifyReturns, HostInv, CanExceed
<1> QED
  BY <1>1, <1>2, <1>3, <1>4, <1>5 DEF GuestStep

\* The invariant holds throughout.
THEOREM HostInvHolds ==
  ASSUME NEW CONSTANT Modules, NEW CONSTANT Lengths, \A m \in Modules : SizesTyped(m)
  PROVE  HostSpec(Modules, Lengths) => []HostInv
<1>1. HostInit => HostInv
  BY ClassifierConfigTyped DEF HostInit, HostInv, Running, Failure
<1>2. HostInv /\ [HostNext(Modules, Lengths)]_hostVars => HostInv'
  <2> SUFFICES ASSUME HostInv, [HostNext(Modules, Lengths)]_hostVars PROVE HostInv'
    OBVIOUS
  <2>1. ASSUME NEW m \in Modules, NEW length \in Lengths, Begin(m, length) PROVE HostInv'
    BY <2>1, BeginKeeps
  <2>2. ASSUME NEW length \in Lengths, GuestStep(length) PROVE HostInv'
    BY <2>2, GuestKeeps
  <2>3. CASE UNCHANGED hostVars
    BY <2>3 DEF hostVars, HostInv, Running, SizesTyped, CanExceed
  <2> QED
    BY <2>1, <2>2, <2>3 DEF HostNext
<1> QED
  BY <1>1, <1>2, PTL DEF HostSpec

\* Whatever modules a host runs, none costs it more than its configuration allows
\* (ClassifierMemoryLimiter of limiter.rs, execute_classifier of runtime.rs).
THEOREM GuestsContained ==
  ASSUME NEW CONSTANT Modules, NEW CONSTANT Lengths, \A m \in Modules : SizesTyped(m)
  PROVE  HostSpec(Modules, Lengths) => []GuestIsContained
<1>1. HostInv => GuestIsContained
  BY ClassifierConfigTyped DEF HostInv, GuestIsContained
<1> QED
  BY <1>1, HostInvHolds, PTL

\* No module is told that memory was denied because an earlier one was
\* (map_guest_trap of runtime.rs).
THEOREM DenialsDeserved ==
  ASSUME NEW CONSTANT Modules, NEW CONSTANT Lengths, \A m \in Modules : SizesTyped(m)
  PROVE  HostSpec(Modules, Lengths) => []DenialsAreDeserved
<1>1. HostInv => DenialsAreDeserved
  BY DEF HostInv, DenialsAreDeserved, CanExceed
<1> QED
  BY <1>1, HostInvHolds, PTL

-----------------------------------------------------------------------------
(* The composition.                                                        *)

ClassifierModules == UNION {Classifiers[key].input.wasm : key \in ClassifierKeys}
ContextLengths == UNION {Classifiers[key].input.context : key \in ClassifierKeys}

\* The classifier of the vector at hand is one of them.
LEMMA AtHandIsKnown ==
  ASSUME HarnessInv, cli = "classifying" \/ AtClassifier
  PROVE  VectorAtHand.input.wasm \subseteq ClassifierModules
         /\ VectorAtHand.input.context \subseteq ContextLengths
<1>1. loaded.vectors[vec] \in ClassifierKeys
  <2>1. CASE cli = "classifying"
    BY <2>1 DEF HarnessInv, FileAtHand, Judging
  <2>2. CASE AtClassifier
    <3>1. vec \in 1..Len(loaded.vectors) + 1 /\ Len(loaded.vectors) \in Nat
      BY <2>2, LenProperties DEF AtClassifier, HarnessInv, FileAtHand, Judging
    <3> QED
      BY <2>2, <3>1 DEF AtClassifier, Waits
  <2> QED
    BY <2>1, <2>2
<1> QED
  BY <1>1 DEF VectorAtHand, ClassifierModules, ContextLengths

\* The signer's steps are its own, and what it writes the command line takes for
\* somebody's writing.
LEMMA SignersPart ==
  ASSUME SignerInv, SignerStep
  PROVE  SignerNext /\ HarnessNext /\ UNCHANGED hostVars
<1>1. SignerInv'
  BY SignerStepKeeps DEF SignerStep
<1>2. disk' \in [Documents -> Contents]
  BY <1>1 DEF SignerInv
<1> QED
  BY <1>2 DEF SignerStep, HarnessNext

\* A step of the command line is one of the harness, of the host, or of both.
LEMMA CommandLinesPart ==
  ASSUME HarnessInv, CommandLine
  PROVE  /\ UNCHANGED <<disk, signerVars>>
         /\ [HarnessNext]_<<disk, harnessVars, judged, changed>>
         /\ [HostNext(ClassifierModules, ContextLengths)]_hostVars
<1>1. CASE CliStep
  BY <1>1 DEF CliStep, HarnessNext
<1>2. CASE Classify
  <2>1. VectorAtHand.input.wasm \subseteq ClassifierModules
        /\ VectorAtHand.input.context \subseteq ContextLengths
    BY <1>2, AtHandIsKnown DEF Classify, HandOver
  <2> QED
    BY <1>2, <2>1 DEF Classify, HarnessNext, HostNext
<1>3. CASE HostStep
  <2>1. VectorAtHand.input.context \subseteq ContextLengths
    BY <1>3, AtHandIsKnown DEF HostStep
  <2>2. PICK length \in VectorAtHand.input.context : GuestStep(length)
    BY <1>3 DEF HostStep
  <2>3. HostNext(ClassifierModules, ContextLengths)
    BY <2>1, <2>2 DEF HostNext
  <2>4. UNCHANGED <<disk, signerVars>> /\ UNCHANGED <<disk, harnessVars, judged, changed>>
    BY <1>3 DEF HostStep
  <2> QED
    BY <2>3, <2>4
<1>4. CASE Classified
  <2>1. FuzzExecutor!execute(VectorAtHand, {result}) \in {"Pass", "Fail"}
    BY Zenon DEF FuzzExecutor!execute
  <2>2. PICK verdict \in {"Pass", "Fail"} : TakeUp(verdict)
    BY <1>4, <2>1 DEF Classified
  <2>3. UNCHANGED <<disk, signerVars>> /\ UNCHANGED hostVars /\ UNCHANGED <<disk, judged, changed>>
    BY <1>4 DEF Classified
  <2> QED
    BY <2>2, <2>3 DEF HarnessNext
<1> QED
  BY <1>1, <1>2, <1>3, <1>4 DEF CommandLine

\* The invariants of the signer and of the command line hold side by side.
LEMMA InvariantsHold == Spec => [](SignerInv /\ HarnessInv)
<1>1. Init => SignerInv /\ HarnessInv
  BY SignerInitially, HarnessInitially DEF Init
<1>2. SignerInv /\ HarnessInv /\ [Next]_conformanceVars => SignerInv' /\ HarnessInv'
  <2> SUFFICES ASSUME SignerInv, HarnessInv, [Next]_conformanceVars
               PROVE  SignerInv' /\ HarnessInv'
    OBVIOUS
  <2>1. CASE SignerStep
    BY <2>1, SignersPart, SignerStepKeeps, HarnessStepKeeps
  <2>2. CASE CommandLine
    BY <2>2, CommandLinesPart, SignerStepKeeps, HarnessStepKeeps
  <2>3. CASE UNCHANGED conformanceVars
    BY <2>3, SignerStepKeeps, HarnessStepKeeps DEF conformanceVars
  <2> QED
    BY <2>1, <2>2, <2>3 DEF Next
<1> QED
  BY <1>1, <1>2, PTL DEF Spec

\* The tooling at work implements its three parts: to the signer, the command line and
\* its guests are idle; to the command line, the signer is somebody who writes files;
\* and to the host, the command line brings modules (runner.rs, fuzz.rs, vector-signer).
THEOREM PartsAreImplemented ==
  Spec => SignerSpec /\ HarnessSpec /\ HostSpec(ClassifierModules, ContextLengths)
<1>1. Init => /\ disk \in InitialDisks /\ SignerInit
              /\ disk \in InitialDisks /\ HarnessInit
              /\ HostInit
  BY DEF Init
<1>2. SignerInv /\ HarnessInv /\ [Next]_conformanceVars
        => /\ [SignerNext]_<<disk, signerVars>>
           /\ [HarnessNext]_<<disk, harnessVars, judged, changed>>
           /\ [HostNext(ClassifierModules, ContextLengths)]_hostVars
  <2> SUFFICES ASSUME SignerInv, HarnessInv, [Next]_conformanceVars
               PROVE  /\ [SignerNext]_<<disk, signerVars>>
                      /\ [HarnessNext]_<<disk, harnessVars, judged, changed>>
                      /\ [HostNext(ClassifierModules, ContextLengths)]_hostVars
    OBVIOUS
  <2>1. CASE SignerStep
    BY <2>1, SignersPart
  <2>2. CASE CommandLine
    BY <2>2, CommandLinesPart
  <2>3. CASE UNCHANGED conformanceVars
    BY <2>3 DEF conformanceVars
  <2> QED
    BY <2>1, <2>2, <2>3 DEF Next
<1> QED
  BY <1>1, <1>2, InvariantsHold, PTL DEF Spec, SignerSpec, HarnessSpec, HostSpec

\* While the signer writes, is stopped and starts again, and the command line judges
\* with whatever guests: no document loses a vector, none that is only patched is ever
\* torn, a clean exit means that everything read passed, the report accounts for
\* everything, and no guest exceeds its caps or is denied for another's sake.
THEOREM ToolingIsSound ==
  Spec => /\ []DocumentsOnlyGrow /\ []PatchedFileIsNeverTorn
          /\ []CleanMeansEveryVectorPassed /\ []TalliesAccountForEveryVector
          /\ []GuestIsContained /\ []DenialsAreDeserved
<1>1. \A m \in ClassifierModules : SizesTyped(m)
  BY ClassifiersTyped DEF ClassifierModules
<1>2. HostSpec(ClassifierModules, ContextLengths) => []GuestIsContained /\ []DenialsAreDeserved
  BY <1>1, GuestsContained, DenialsDeserved
<1> QED
  BY <1>2, PartsAreImplemented, DocumentsGrow, PatchedFilesStayWhole, CleanIsClean,
     TalliesAccount, PTL
=============================================================================
