----------------------- MODULE TransparencyLogProofs -----------------------
(***************************************************************************)
(* What the verifier of rekor.rs guarantees for a log of any length: the   *)
(* walk up a proof path admits, for each index, exactly the leaf and the   *)
(* path that RFC 9162 defines, orphans on the right edge included, and the *)
(* registry resolves every signed head to the key that signed it.          *)
(***************************************************************************)
EXTENDS TransparencyLog, FiniteSetTheorems, WellFoundedInduction, TLAPS

-----------------------------------------------------------------------------
(* Recursion on the natural numbers.                                       *)

\* Every nonempty set of natural numbers has a least one.
LEMMA SmallestNumber ==
  ASSUME NEW T \in SUBSET Nat, T # {}
  PROVE  \E x \in T : \A y \in T : x <= y
<1>1. PICK x \in T : \A y \in T : ~(<<y, x>> \in OpToRel(<, Nat))
  BY NatLessThanWellFounded, WFMin, Zenon
<1>2. \A y \in T : ~(y < x)
  BY <1>1, Zenon DEF OpToRel
<1> QED
  BY <1>2

\* f obeys the recursion rule up to n.
ObeysUpTo(rule, f, n) == \A i \in 0..n : f[i] = rule[i][f]

\* The rules that give the value at n from the values below n.
Rules(V) ==
  {rule \in [Nat -> [[Nat -> V] -> V]] :
     \A n \in Nat : \A f, g \in [Nat -> V] :
       (\A i \in 0..n : i < n => f[i] = g[i]) => rule[n][f] = rule[n][g]}

\* Such a rule has a solution.
LEMMA RecursionHasSolution ==
  ASSUME NEW V, V # {}, NEW rule \in Rules(V)
  PROVE  \E f \in [Nat -> V] : \A n \in Nat : f[n] = rule[n][f]
<1>v. PICK v0 \in V : TRUE
  OBVIOUS
<1>r. /\ rule \in [Nat -> [[Nat -> V] -> V]]
      /\ \A n \in Nat : \A f, g \in [Nat -> V] :
           (\A i \in 0..n : i < n => f[i] = g[i]) => rule[n][f] = rule[n][g]
  BY DEF Rules
<1> DEFINE Fn == [Nat -> V]
           Good(f, n) == f \in Fn /\ ObeysUpTo(rule, f, n)
<1>1. \A n \in Nat : \E f \in Fn : Good(f, n)
  <2> DEFINE T == {n \in Nat : ~ \E f \in Fn : Good(f, n)}
  <2> SUFFICES T = {}
    OBVIOUS
  <2> SUFFICES ASSUME T # {} PROVE FALSE
    OBVIOUS
  <2>1. PICK n \in T : \A y \in T : n <= y
    BY SmallestNumber
  <2>2. \E g \in Fn : \A i \in 0..n : i < n => g[i] = rule[i][g]
    <3>1. CASE n = 0
      <4>1. [i \in Nat |-> v0] \in Fn
        BY <1>v
      <4>2. \A i \in 0..n : ~(i < n)
        BY <3>1
      <4> QED
        BY <4>1, <4>2
    <3>2. CASE n # 0
      <4>0. n \in Nat
        BY <2>1
      <4>1. n - 1 \in Nat /\ n - 1 \notin T
        <5> HIDE DEF T
        <5> QED
          BY <2>1, <3>2, <4>0
      <4>2. PICK g \in Fn : Good(g, n - 1)
        BY <4>1
      <4>3. \A i \in 0..(n - 1) : g[i] = rule[i][g]
        BY <4>2 DEF ObeysUpTo
      <4>4. \A i \in 0..n : i < n => i \in 0..(n - 1)
        BY <2>1
      <4> QED
        BY <4>2, <4>3, <4>4
    <3> QED
      BY <3>1, <3>2
  <2>3. PICK g \in Fn : \A i \in 0..n : i < n => g[i] = rule[i][g]
    BY <2>2
  <2> DEFINE f == [g EXCEPT ![n] = rule[n][g]]
  <2>4. f \in Fn /\ f[n] = rule[n][g] /\ \A i \in Nat : i # n => f[i] = g[i]
    BY <1>r, <2>1, <2>3
  <2> HIDE DEF f
  <2>5. ASSUME NEW i \in 0..n PROVE f[i] = rule[i][f]
    <3>1. i \in Nat /\ n \in Nat
      BY <2>1
    <3>2. \A j \in 0..i : j < i => g[j] = f[j]
      BY <2>4, <3>1
    <3>3. rule[i][g] = rule[i][f]
      BY <1>r, <2>3, <2>4, <3>1, <3>2
    <3> QED
      BY <2>3, <2>4, <3>1, <3>3
  <2>6. Good(f, n)
    BY <2>4, <2>5 DEF ObeysUpTo
  <2> QED
    BY <2>1, <2>4, <2>6
<1>2. ASSUME NEW n \in Nat, NEW m \in Nat, NEW f \in Fn, NEW g \in Fn, Good(f, n), Good(g, m)
      PROVE  \A i \in Nat : i <= n /\ i <= m => f[i] = g[i]
  <2> DEFINE T == {i \in Nat : i <= n /\ i <= m /\ f[i] # g[i]}
  <2> SUFFICES ASSUME T # {} PROVE FALSE
    OBVIOUS
  <2>1. PICK i \in T : \A y \in T : i <= y
    BY SmallestNumber
  <2>2. \A j \in 0..i : j < i => f[j] = g[j]
    BY <2>1
  <2>3. rule[i][f] = rule[i][g]
    BY <1>r, <2>1, <2>2
  <2>4. f[i] = rule[i][f] /\ g[i] = rule[i][g]
    BY <1>2, <2>1 DEF ObeysUpTo
  <2> QED
    BY <2>1, <2>3, <2>4
<1> DEFINE a == [n \in Nat |-> CHOOSE f \in Fn : Good(f, n)]
           F == [n \in Nat |-> a[n][n]]
<1>3. \A n \in Nat : a[n] \in Fn /\ Good(a[n], n)
  BY <1>1
<1> HIDE DEF a
<1>4. F \in Fn /\ \A n \in Nat : F[n] = a[n][n]
  BY <1>3
<1> HIDE DEF F
<1>5. ASSUME NEW n \in Nat PROVE F[n] = rule[n][F]
  <2>1. ASSUME NEW i \in 0..n PROVE a[n][i] = F[i]
    <3>1. i \in Nat /\ i <= n /\ i <= i
      OBVIOUS
    <3>2. a[n][i] = a[i][i]
      BY <1>2, <1>3, <3>1
    <3> QED
      BY <1>4, <3>1, <3>2
  <2>2. rule[n][a[n]] = rule[n][F]
    BY <1>r, <1>3, <1>4, <2>1
  <2>3. a[n][n] = rule[n][a[n]]
    BY <1>3 DEF ObeysUpTo
  <2> QED
    BY <1>4, <2>2, <2>3
<1> QED
  BY <1>4, <1>5

-----------------------------------------------------------------------------
(* Powers of two.                                                          *)

LEMMA Halves ==
  ASSUME NEW m \in Nat, m > 1
  PROVE  /\ m \div 2 \in Nat \ {0} /\ m \div 2 < m
         /\ m = 2 * (m \div 2) \/ m = 2 * (m \div 2) + 1
OBVIOUS

IsHighestBit(h) == h = [m \in Nat \ {0} |-> IF m = 1 THEN 1 ELSE 2 * h[m \div 2]]

LEMMA HighestBitIs ==
  /\ HighestBit \in [Nat \ {0} -> Nat]
  /\ HighestBit[1] = 1
  /\ \A m \in Nat : m > 1 => HighestBit[m] = 2 * HighestBit[m \div 2]
<1> DEFINE rule == [n \in Nat |-> [f \in [Nat -> Nat] |-> IF n <= 1 THEN 1 ELSE 2 * f[n \div 2]]]
<1>1. rule \in [Nat -> [[Nat -> Nat] -> Nat]]
  OBVIOUS
<1>2. \A n \in Nat : \A f \in [Nat -> Nat] : rule[n][f] = IF n <= 1 THEN 1 ELSE 2 * f[n \div 2]
  OBVIOUS
<1> HIDE DEF rule
<1>3. \A n \in Nat : \A f, g \in [Nat -> Nat] :
        (\A i \in 0..n : i < n => f[i] = g[i]) => rule[n][f] = rule[n][g]
  <2> SUFFICES ASSUME NEW n \in Nat, NEW f \in [Nat -> Nat], NEW g \in [Nat -> Nat],
                      \A i \in 0..n : i < n => f[i] = g[i]
               PROVE  rule[n][f] = rule[n][g]
    OBVIOUS
  <2>1. n > 1 => n \div 2 \in 0..n /\ n \div 2 < n
    BY Halves
  <2> QED
    BY <1>2, <2>1
<1>4. PICK f \in [Nat -> Nat] : \A n \in Nat : f[n] = rule[n][f]
  <2>1. rule \in Rules(Nat)
    BY <1>1, <1>3 DEF Rules
  <2>2. Nat # {}
    OBVIOUS
  <2> QED
    BY <2>1, <2>2, RecursionHasSolution
<1> DEFINE h0 == [m \in Nat \ {0} |-> f[m]]
<1>5. IsHighestBit(h0)
  <2>0. DOMAIN h0 = Nat \ {0} /\ h0 = [m \in Nat \ {0} |-> h0[m]] /\ \A m \in Nat \ {0} : h0[m] = f[m]
    OBVIOUS
  <2> HIDE DEF h0
  <2>1. ASSUME NEW m \in Nat \ {0} PROVE h0[m] = IF m = 1 THEN 1 ELSE 2 * h0[m \div 2]
    <3>1. f[m] = IF m <= 1 THEN 1 ELSE 2 * f[m \div 2]
      BY <1>2, <1>4
    <3>2. CASE m = 1
      BY <2>0, <3>1, <3>2
    <3>3. CASE m > 1
      <4>1. m \div 2 \in Nat \ {0}
        BY <3>3, Halves
      <4> QED
        BY <2>0, <3>1, <3>3, <4>1
    <3> QED
      BY <3>2, <3>3
  <2> DEFINE h1 == [m \in Nat \ {0} |-> IF m = 1 THEN 1 ELSE 2 * h0[m \div 2]]
  <2>2. h0 = h1
    BY <2>0, <2>1
  <2> QED
    BY <2>2 DEF IsHighestBit
<1>6. IsHighestBit(HighestBit)
  <2>1. HighestBit = CHOOSE h : IsHighestBit(h)
    BY DEF HighestBit, IsHighestBit
  <2> QED
    BY <1>5, <2>1, Zenon
<1>7. \A m \in Nat \ {0} : HighestBit[m] \in Nat
  <2> DEFINE T == {m \in Nat : m # 0 /\ HighestBit[m] \notin Nat}
  <2> SUFFICES ASSUME T # {} PROVE FALSE
    OBVIOUS
  <2>1. PICK m \in T : \A y \in T : m <= y
    BY SmallestNumber
  <2>2. CASE m = 1
    BY <1>6, <2>1, <2>2 DEF IsHighestBit
  <2>3. CASE m > 1
    <3>1. m \div 2 \in Nat \ {0} /\ m \div 2 < m
      BY <2>1, <2>3, Halves
    <3>2. HighestBit[m \div 2] \in Nat
      BY <2>1, <3>1
    <3> QED
      BY <1>6, <2>1, <2>3, <3>2 DEF IsHighestBit
  <2> QED
    BY <2>1, <2>2, <2>3
<1>8. HighestBit[1] = 1 /\ \A m \in Nat : m > 1 => HighestBit[m] = 2 * HighestBit[m \div 2]
  BY <1>6 DEF IsHighestBit
<1>9. HighestBit \in [Nat \ {0} -> Nat]
  BY <1>6, <1>7 DEF IsHighestBit
<1> QED
  BY <1>8, <1>9

Power(P) == P \in Nat \ {0} /\ HighestBit[P] = P

LEMMA PowersDouble ==
  ASSUME NEW h, Power(h)
  PROVE  Power(2 * h)
<1>1. h \in Nat \ {0} /\ 2 * h \in Nat /\ 2 * h > 1 /\ (2 * h) \div 2 = h
  BY DEF Power
<1>2. HighestBit[2 * h] = 2 * h
  BY <1>1, HighestBitIs DEF Power
<1> QED
  BY <1>1, <1>2 DEF Power

\* The highest bit of m is a power of two, and m has no higher one.
LEMMA HighestBitBounds ==
  ASSUME NEW m \in Nat \ {0}
  PROVE  Power(HighestBit[m]) /\ HighestBit[m] <= m /\ m < 2 * HighestBit[m]
<1> DEFINE Ok(x) == Power(HighestBit[x]) /\ HighestBit[x] <= x /\ x < 2 * HighestBit[x]
           T == {x \in Nat : x # 0 /\ ~Ok(x)}
<1> SUFFICES ASSUME T # {} PROVE FALSE
  OBVIOUS
<1>1. PICK x \in T : \A y \in T : x <= y
  BY SmallestNumber
<1>2. x \in Nat \ {0} /\ ~Ok(x) /\ \A y \in Nat \ {0} : y < x => Ok(y)
  BY <1>1
<1> HIDE DEF T, Ok
<1>3. CASE x = 1
  BY <1>2, <1>3, HighestBitIs DEF Ok, Power
<1>4. CASE x > 1
  <2> DEFINE y == x \div 2
  <2>1. y \in Nat \ {0} /\ y < x /\ (x = 2 * y \/ x = 2 * y + 1)
    BY <1>2, <1>4, Halves
  <2> HIDE DEF y
  <2>2. Ok(y)
    BY <1>2, <2>1
  <2>3. HighestBit[x] = 2 * HighestBit[y]
    BY <1>2, <1>4, HighestBitIs DEF y
  <2>4. Power(2 * HighestBit[y])
    BY <2>2, PowersDouble DEF Ok
  <2>5. HighestBit[y] \in Nat
    BY <2>1, HighestBitIs
  <2> QED
    BY <1>2, <2>1, <2>2, <2>3, <2>4, <2>5 DEF Ok
<1> QED
  BY <1>2, <1>3, <1>4

LEMMA PowersHalve ==
  ASSUME NEW P, Power(P), P > 1
  PROVE  \E h : Power(h) /\ P = 2 * h
<1> DEFINE h == P \div 2
<1>1. P \in Nat /\ h \in Nat \ {0} /\ (P = 2 * h \/ P = 2 * h + 1)
  BY Halves DEF Power
<1>2. P = 2 * HighestBit[h]
  BY <1>1, HighestBitIs DEF Power
<1> HIDE DEF h
<1>3. HighestBit[h] \in Nat /\ Power(HighestBit[h])
  BY <1>1, HighestBitBounds, HighestBitIs
<1> QED
  BY <1>2, <1>3

LEMMA HighestBitGrows ==
  ASSUME NEW m \in Nat \ {0}, NEW n \in Nat \ {0}, m <= n
  PROVE  HighestBit[m] <= HighestBit[n]
<1> DEFINE Ok(x) == \A y \in Nat \ {0} : y <= x => HighestBit[y] <= HighestBit[x]
           T == {x \in Nat : x # 0 /\ ~Ok(x)}
<1> SUFFICES ASSUME T # {} PROVE FALSE
  OBVIOUS
<1>1. PICK x \in T : \A y \in T : x <= y
  BY SmallestNumber
<1>2. x \in Nat \ {0} /\ ~Ok(x) /\ \A y \in Nat \ {0} : y < x => Ok(y)
  BY <1>1
<1> HIDE DEF T
<1>3. PICK y \in Nat \ {0} : y <= x /\ ~(HighestBit[y] <= HighestBit[x])
  BY <1>2
<1> HIDE DEF Ok
<1>4. HighestBit[x] \in Nat /\ HighestBit[y] \in Nat
  BY <1>2, HighestBitIs
<1>5. CASE y = 1
  <2>1. HighestBit[x] # 0
    BY <1>2, HighestBitBounds DEF Power
  <2> QED
    BY <1>3, <1>4, <1>5, <2>1, HighestBitIs
<1>6. CASE y > 1
  <2> DEFINE a == x \div 2
             b == y \div 2
  <2>1. a \in Nat \ {0} /\ b \in Nat \ {0} /\ a < x /\ b <= a
    BY <1>2, <1>3, <1>6, Halves
  <2>2. HighestBit[x] = 2 * HighestBit[a] /\ HighestBit[y] = 2 * HighestBit[b]
    BY <1>2, <1>3, <1>6, HighestBitIs
  <2> HIDE DEF a, b
  <2>3. HighestBit[b] <= HighestBit[a]
    BY <1>2, <2>1 DEF Ok
  <2>4. HighestBit[a] \in Nat /\ HighestBit[b] \in Nat
    BY <2>1, HighestBitIs
  <2> QED
    BY <1>3, <2>2, <2>3, <2>4
<1> QED
  BY <1>3, <1>5, <1>6

\* A tree is split at a power of two, into a left part that is full and a right part
\* that is not larger.
LEMMA SplitBounds ==
  ASSUME NEW n \in Nat, n > 1
  PROVE  LET k == LargestPowerBelow(n)
         IN  Power(k) /\ k \in 1..(n - 1) /\ n - k \in 1..k
<1>1. n - 1 \in Nat \ {0}
  OBVIOUS
<1>2. LargestPowerBelow(n) \in Nat \ {0}
  BY <1>1, HighestBitBounds DEF LargestPowerBelow, Power
<1> QED
  BY <1>1, <1>2, HighestBitBounds DEF LargestPowerBelow

\* A full tree is split into halves.
LEMMA FullTreesAreHalved ==
  ASSUME NEW h, Power(h)
  PROVE  LargestPowerBelow(2 * h) = h
<1> DEFINE T == {x \in Nat : Power(x) /\ HighestBit[2 * x - 1] # x}
<1> SUFFICES ASSUME T # {} PROVE FALSE
  BY DEF LargestPowerBelow, Power
<1>1. PICK x \in T : \A y \in T : x <= y
  BY SmallestNumber
<1>2. x \in Nat \ {0} /\ Power(x) /\ HighestBit[2 * x - 1] # x
  BY <1>1 DEF Power
<1>3. x > 1
  BY <1>2, HighestBitIs
<1>4. PICK y : Power(y) /\ x = 2 * y
  BY <1>2, <1>3, PowersHalve
<1>5. y \in Nat \ {0}
  BY <1>4 DEF Power
<1>6. HighestBit[2 * y - 1] = y
  BY <1>1, <1>4, <1>5
<1>7. 2 * x - 1 \in Nat /\ 2 * x - 1 > 1 /\ (2 * x - 1) \div 2 = 2 * y - 1
  BY <1>3, <1>4, <1>5
<1>8. HighestBit[2 * x - 1] = 2 * HighestBit[2 * y - 1]
  BY <1>7, HighestBitIs
<1> QED
  BY <1>2, <1>4, <1>6, <1>8

LEMMA PowersDivide ==
  ASSUME NEW k, Power(k), NEW P, Power(P), k < P
  PROVE  \E c : Power(c) /\ P = 2 * (k * c)
<1> DEFINE Ok(x) == \A y \in Nat : Power(y) /\ x < y => \E c \in Nat : Power(c) /\ y = 2 * (x * c)
           T == {x \in Nat : Power(x) /\ ~Ok(x)}
<1> SUFFICES ASSUME T # {} PROVE FALSE
  <2>1. k \in Nat /\ P \in Nat
    BY DEF Power
  <2> QED
    BY <2>1
<1>1. PICK x \in T : \A y \in T : x <= y
  BY SmallestNumber
<1>2. x \in Nat \ {0} /\ Power(x) /\ ~Ok(x) /\ \A y \in Nat : Power(y) /\ y < x => Ok(y)
  BY <1>1 DEF Power
<1> HIDE DEF T
<1>3. PICK y \in Nat : Power(y) /\ x < y /\ \A c \in Nat : ~(Power(c) /\ y = 2 * (x * c))
  BY <1>2
<1>4. PICK z : Power(z) /\ y = 2 * z
  BY <1>2, <1>3, PowersHalve
<1>5. z \in Nat \ {0}
  BY <1>4 DEF Power
<1>6. CASE x = 1
  <2>1. y = 2 * (x * z)
    BY <1>4, <1>5, <1>6
  <2> QED
    BY <1>3, <1>4, <1>5, <2>1
<1>7. CASE x > 1
  <2>1. PICK w : Power(w) /\ x = 2 * w
    BY <1>2, <1>7, PowersHalve
  <2>2. w \in Nat \ {0} /\ w < z /\ w < x
    BY <1>3, <1>4, <1>5, <2>1 DEF Power
  <2>3. PICK c \in Nat : Power(c) /\ z = 2 * (w * c)
    BY <1>2, <1>4, <1>5, <2>1, <2>2
  <2>4. \A a, b \in Nat : 2 * (2 * (a * b)) = 2 * ((2 * a) * b)
    OBVIOUS
  <2>5. y = 2 * (x * c)
    BY <1>4, <2>1, <2>2, <2>3, <2>4
  <2> QED
    BY <1>3, <2>3, <2>5
<1> QED
  BY <1>2, <1>6, <1>7

-----------------------------------------------------------------------------
(* The depth of a leaf.                                                    *)

\* A tree of more than one entry, split at k: every leaf lies one deeper.
DepthRow(k, left, right) == [m \in Nat |-> 1 + (IF m < k THEN left[m] ELSE right[m - k])]

LEMMA DepthRowIs ==
  ASSUME NEW k \in Nat, NEW left \in [Nat -> Nat], NEW right \in [Nat -> Nat]
  PROVE  /\ DepthRow(k, left, right) \in [Nat -> Nat]
         /\ \A m \in Nat : DepthRow(k, left, right)[m] = 1 + (IF m < k THEN left[m] ELSE right[m - k])
<1>1. ASSUME NEW m \in Nat PROVE 1 + (IF m < k THEN left[m] ELSE right[m - k]) \in Nat
  <2>1. CASE m < k
    BY <2>1
  <2>2. CASE ~(m < k)
    <3>1. m - k \in Nat
      BY <2>2
    <3>2. right[m - k] \in Nat
      BY <3>1
    <3> QED
      BY <2>2, <3>2
  <2> QED
    BY <2>1, <2>2
<1> QED
  BY <1>1 DEF DepthRow

\* The two parts of a tree are smaller than the tree.
LEMMA PartsAreSmaller ==
  ASSUME NEW n \in Nat, n > 1
  PROVE  /\ LargestPowerBelow(n) \in Nat \ {0} /\ LargestPowerBelow(n) < n
         /\ n - LargestPowerBelow(n) \in Nat \ {0} /\ n - LargestPowerBelow(n) < n
<1>1. LargestPowerBelow(n) \in 1..(n - 1)
  BY SplitBounds
<1> QED
  BY <1>1

IsProofDepth(h) ==
  h = [n \in Nat \ {0} |->
         [m \in 0 .. (n - 1) |->
            IF n = 1 THEN 0
            ELSE LET k == LargestPowerBelow(n)
                 IN  1 + (IF m < k THEN h[k][m] ELSE h[n - k][m - k])]]

\* The recursion is well founded: as a table with rows for every m.
LEMMA DepthsExist ==
  \E f \in [Nat -> [Nat -> Nat]] :
    /\ f[1][0] = 0
    /\ \A n \in Nat : n > 1 =>
         f[n] = DepthRow(LargestPowerBelow(n), f[LargestPowerBelow(n)], f[n - LargestPowerBelow(n)])
<1> DEFINE V == [Nat -> Nat]
           zero == [m \in Nat |-> 0]
           K(n) == LargestPowerBelow(n)
           Row(n, f) == IF n <= 1 THEN zero ELSE DepthRow(K(n), f[K(n)], f[n - K(n)])
           rule == [n \in Nat |-> [f \in [Nat -> V] |-> Row(n, f)]]
<1>0. zero \in V /\ zero[0] = 0
  OBVIOUS
<1> HIDE DEF zero
<1>z. ASSUME NEW n \in Nat, NEW f, n <= 1 PROVE Row(n, f) = zero
  BY <1>z
<1>r. ASSUME NEW n \in Nat, NEW f, n > 1 PROVE Row(n, f) = DepthRow(K(n), f[K(n)], f[n - K(n)])
  <2>1. ~(n <= 1)
    BY <1>r
  <2> QED
    BY <2>1
<1> HIDE DEF Row
<1>1. ASSUME NEW n \in Nat, NEW f \in [Nat -> V] PROVE Row(n, f) \in V
  <2>1. CASE n <= 1
    BY <1>0, <1>z, <2>1
  <2>2. CASE n > 1
    <3>1. K(n) \in Nat /\ n - K(n) \in Nat
      BY <2>2, PartsAreSmaller
    <3>2. f[K(n)] \in V /\ f[n - K(n)] \in V
      BY <3>1
    <3>3. DepthRow(K(n), f[K(n)], f[n - K(n)]) \in V
      BY <3>1, <3>2, DepthRowIs
    <3> QED
      BY <1>r, <2>2, <3>3
  <2>3. n <= 1 \/ n > 1
    OBVIOUS
  <2> QED
    BY <2>1, <2>2, <2>3, Zenon
<1>2. ASSUME NEW n \in Nat, NEW f \in [Nat -> V], NEW g \in [Nat -> V],
             \A i \in 0..n : i < n => f[i] = g[i]
      PROVE  Row(n, f) = Row(n, g)
  <2>1. CASE n <= 1
    BY <1>z, <2>1
  <2>2. CASE n > 1
    <3>1. K(n) \in Nat /\ K(n) < n /\ n - K(n) \in Nat /\ n - K(n) < n
      BY <2>2, PartsAreSmaller
    <3> DEFINE k == K(n)
               l == n - K(n)
    <3>2. k \in Nat /\ k < n /\ l \in Nat /\ l < n
      BY <3>1
    <3> HIDE DEF k, l
    <3>3. f[k] = g[k] /\ f[l] = g[l]
      BY <1>2, <3>2
    <3>4. f[K(n)] = g[K(n)] /\ f[n - K(n)] = g[n - K(n)]
      BY <3>3 DEF k, l
    <3> QED
      BY <1>r, <2>2, <3>4
  <2> QED
    BY <2>1, <2>2
<1>3. rule \in [Nat -> [[Nat -> V] -> V]] /\ \A n \in Nat : \A f \in [Nat -> V] : rule[n][f] = Row(n, f)
  <2> HIDE DEF V
  <2> QED
    BY <1>1
<1> HIDE DEF rule
<1>4. rule \in Rules(V)
  <2> HIDE DEF V
  <2>1. ASSUME NEW n \in Nat, NEW f \in [Nat -> V], NEW g \in [Nat -> V],
               \A i \in 0..n : i < n => f[i] = g[i]
        PROVE  rule[n][f] = rule[n][g]
    BY <1>2, <1>3, <2>1
  <2> QED
    BY <1>3, <2>1 DEF Rules
<1>5. PICK f \in [Nat -> V] : \A n \in Nat : f[n] = rule[n][f]
  <2>1. V # {}
    BY <1>0
  <2> HIDE DEF V
  <2> QED
    BY <1>4, <2>1, RecursionHasSolution
<1>6. \A n \in Nat : f[n] = Row(n, f)
  <2> HIDE DEF V
  <2> QED
    BY <1>3, <1>5
<1>7. f[1][0] = 0
  BY <1>0, <1>6, <1>z
<1>8. \A n \in Nat : n > 1 => f[n] = DepthRow(K(n), f[K(n)], f[n - K(n)])
  BY <1>6, <1>r
<1> QED
  BY <1>5, <1>7, <1>8

LEMMA ProofDepthIs ==
  /\ \A n \in Nat \ {0} : \A m \in 0..(n - 1) : ProofDepth[n][m] \in Nat
  /\ ProofDepth[1][0] = 0
  /\ \A n \in Nat : n > 1 =>
       LET k == LargestPowerBelow(n)
       IN  \A m \in 0..(n - 1) :
             ProofDepth[n][m] = 1 + (IF m < k THEN ProofDepth[k][m] ELSE ProofDepth[n - k][m - k])
<1>1. PICK f \in [Nat -> [Nat -> Nat]] :
        /\ f[1][0] = 0
        /\ \A n \in Nat : n > 1 =>
             f[n] = DepthRow(LargestPowerBelow(n), f[LargestPowerBelow(n)], f[n - LargestPowerBelow(n)])
  BY DepthsExist
<1> DEFINE K(n) == LargestPowerBelow(n)
           h0 == [n \in Nat \ {0} |-> [m \in 0..(n - 1) |-> f[n][m]]]
           body(h, n, m) == IF n = 1 THEN 0 ELSE 1 + (IF m < K(n) THEN h[K(n)][m] ELSE h[n - K(n)][m - K(n)])
<1>2. /\ \A n \in Nat \ {0} : h0[n] = [m \in 0..(n - 1) |-> f[n][m]]
      /\ \A n \in Nat \ {0} : \A m \in 0..(n - 1) : h0[n][m] = f[n][m]
  OBVIOUS
<1>3. ASSUME NEW n \in Nat \ {0}, NEW m \in 0..(n - 1)
      PROVE  f[n][m] = body(h0, n, m)
  <2> HIDE DEF h0
  <2>1. CASE n = 1
    BY <1>1, <2>1
  <2>2. CASE n > 1
    <3> DEFINE k == K(n)
               l == n - k
    <3>1. k \in Nat \ {0} /\ l \in Nat \ {0} /\ l = n - k
      BY <2>2, PartsAreSmaller
    <3>2. f[n] = DepthRow(k, f[k], f[l])
      BY <1>1, <2>2
    <3> HIDE DEF k, l
    <3>3. f[k] \in [Nat -> Nat] /\ f[l] \in [Nat -> Nat]
      BY <1>1, <3>1
    <3>4. f[n][m] = 1 + (IF m < k THEN f[k][m] ELSE f[l][m - k])
      <4>1. m \in Nat /\ k \in Nat
        BY <3>1
      <4> DEFINE a == f[k]
                 b == f[l]
      <4>a. a \in [Nat -> Nat] /\ b \in [Nat -> Nat]
        BY <3>3
      <4> HIDE DEF a, b
      <4>b. \A j \in Nat : DepthRow(k, a, b)[j] = 1 + (IF j < k THEN a[j] ELSE b[j - k])
        BY <4>a, <4>1, DepthRowIs, Zenon
      <4>c. DepthRow(k, a, b)[m] = 1 + (IF m < k THEN a[m] ELSE b[m - k])
        BY <4>b, <4>1, Zenon
      <4>2. DepthRow(k, f[k], f[l])[m] = 1 + (IF m < k THEN f[k][m] ELSE f[l][m - k])
        BY <4>c DEF a, b
      <4> QED
        BY <3>2, <4>2
    <3>5. m < k => h0[k][m] = f[k][m]
      <4>1. m < k => m \in 0..(k - 1)
        BY <3>1
      <4> QED
        BY <1>2, <3>1, <4>1
    <3>6. ~(m < k) => h0[l][m - k] = f[l][m - k]
      <4>1. ~(m < k) => m - k \in 0..(l - 1)
        BY <3>1
      <4> QED
        BY <1>2, <3>1, <4>1
    <3>7. f[n][m] = 1 + (IF m < k THEN h0[k][m] ELSE h0[l][m - k])
      BY <3>4, <3>5, <3>6
    <3> QED
      BY <2>2, <3>7 DEF k, l
  <2> QED
    BY <2>1, <2>2
<1>4. IsProofDepth(h0)
  <2> HIDE DEF body
  <2>1. \A n \in Nat \ {0} : [m \in 0..(n - 1) |-> f[n][m]] = [m \in 0..(n - 1) |-> body(h0, n, m)]
    BY <1>3
  <2>2. h0 = [n \in Nat \ {0} |-> [m \in 0..(n - 1) |-> body(h0, n, m)]]
    <3> DEFINE row(n) == [m \in 0..(n - 1) |-> f[n][m]]
               row2(n) == [m \in 0..(n - 1) |-> body(h0, n, m)]
    <3>1. \A n \in Nat \ {0} : row(n) = row2(n)
      BY <2>1
    <3>2. h0 = [n \in Nat \ {0} |-> row(n)]
      OBVIOUS
    <3> HIDE DEF row, row2, h0
    <3>3. h0 = [n \in Nat \ {0} |-> row2(n)]
      BY <3>1, <3>2
    <3> QED
      BY <3>3 DEF row2
  <2> HIDE DEF h0
  <2> QED
    BY <2>2 DEF IsProofDepth, body
<1>5. IsProofDepth(ProofDepth)
  <2>1. ProofDepth = CHOOSE h : IsProofDepth(h)
    BY DEF ProofDepth, IsProofDepth
  <2> QED
    BY <1>4, <2>1, Zenon
<1>6. ASSUME NEW n \in Nat \ {0}, NEW m \in 0..(n - 1)
      PROVE  ProofDepth[n][m] = body(ProofDepth, n, m)
  <2> HIDE DEF body, h0
  <2>1. ProofDepth = [i \in Nat \ {0} |-> [j \in 0..(i - 1) |-> body(ProofDepth, i, j)]]
    BY <1>5 DEF IsProofDepth, body
  <2>2. ProofDepth[n] = [j \in 0..(n - 1) |-> body(ProofDepth, n, j)]
    BY <2>1
  <2> QED
    BY <2>2
<1>7. ASSUME NEW m \in 0..0 PROVE ProofDepth[1][m] = 0
  <2>1. 1 \in Nat \ {0} /\ m \in 0..(1 - 1)
    OBVIOUS
  <2>2. ProofDepth[1][m] = body(ProofDepth, 1, m)
    <3> HIDE DEF body
    <3> QED
      BY <1>6, <2>1
  <2> QED
    BY <2>2
<1>8. ASSUME NEW n \in Nat, n > 1, NEW m \in 0..(n - 1)
      PROVE  ProofDepth[n][m] = 1 + (IF m < K(n) THEN ProofDepth[K(n)][m] ELSE ProofDepth[n - K(n)][m - K(n)])
  <2>1. n \in Nat \ {0} /\ n # 1
    BY <1>8
  <2>2. ProofDepth[n][m] = body(ProofDepth, n, m)
    <3> HIDE DEF body
    <3> QED
      BY <1>6, <2>1
  <2> QED
    BY <2>1, <2>2
<1>9. \A n \in Nat \ {0} : \A m \in 0..(n - 1) : ProofDepth[n][m] \in Nat
  <2> DEFINE Ok(n) == \A m \in 0..(n - 1) : ProofDepth[n][m] \in Nat
             T == {n \in Nat : n # 0 /\ ~Ok(n)}
  <2> SUFFICES ASSUME T # {} PROVE FALSE
    OBVIOUS
  <2>1. PICK n \in T : \A y \in T : n <= y
    BY SmallestNumber
  <2> HIDE DEF Ok
  <2>2. n \in Nat \ {0} /\ ~Ok(n) /\ \A y \in Nat \ {0} : y < n => Ok(y)
    BY <2>1
  <2> HIDE DEF T
  <2>3. ASSUME NEW m \in 0..(n - 1) PROVE ProofDepth[n][m] \in Nat
    <3>1. CASE n = 1
      <4>1. m \in 0..0
        BY <3>1
      <4>2. ProofDepth[1][m] = 0 /\ 0 \in Nat
        BY <1>7, <4>1
      <4> QED
        BY <3>1, <4>2, Zenon
    <3>2. CASE n > 1
      <4> DEFINE k == K(n)
                 l == n - k
      <4>1. k \in Nat \ {0} /\ k < n /\ l \in Nat \ {0} /\ l < n /\ l = n - k
        BY <2>2, <3>2, PartsAreSmaller
      <4>2. ProofDepth[n][m] = 1 + (IF m < k THEN ProofDepth[k][m] ELSE ProofDepth[l][m - k])
        BY <1>8, <2>2, <3>2
      <4> HIDE DEF k, l
      <4>3. Ok(k) /\ Ok(l)
        BY <2>2, <4>1
      <4>4. CASE m < k
        <5>1. m \in 0..(k - 1)
          BY <2>2, <4>1, <4>4
        <5>2. ProofDepth[k][m] \in Nat
          BY <4>3, <5>1 DEF Ok
        <5> DEFINE d == ProofDepth[k][m]
        <5>3. ProofDepth[n][m] = 1 + d
          BY <4>2, <4>4, Zenon
        <5> HIDE DEF d
        <5>4. d \in Nat => 1 + d \in Nat
          OBVIOUS
        <5> QED
          BY <5>2, <5>3, <5>4, Zenon DEF d
      <4>5. CASE ~(m < k)
        <5>1. m - k \in 0..(l - 1)
          BY <2>2, <4>1, <4>5
        <5>2. ProofDepth[l][m - k] \in Nat
          BY <4>3, <5>1 DEF Ok
        <5> DEFINE d == ProofDepth[l][m - k]
        <5>3. ProofDepth[n][m] = 1 + d
          BY <4>2, <4>5, Zenon
        <5> HIDE DEF d
        <5>4. d \in Nat => 1 + d \in Nat
          OBVIOUS
        <5> QED
          BY <5>2, <5>3, <5>4, Zenon DEF d
      <4> QED
        BY <4>4, <4>5
    <3> QED
      BY <2>2, <3>1, <3>2
  <2> QED
    BY <2>2, <2>3 DEF Ok
<1>10. ProofDepth[1][0] = 0
  BY <1>7
<1> HIDE DEF K, body
<1> QED
  BY <1>8, <1>9, <1>10 DEF K

\* No leaf lies deeper than the leftmost one of a tree that is at least as large.
LEMMA LeftmostIsDeepest ==
  ASSUME NEW N \in Nat \ {0}, NEW n \in 1..N, NEW m \in 0..(n - 1)
  PROVE  expected_proof_depth(m, n) <= expected_proof_depth(0, N)
<1> DEFINE Ok(x) == \A y \in 1..x : \A i \in 0..(y - 1) : ProofDepth[y][i] <= ProofDepth[x][0]
           T == {x \in Nat : x # 0 /\ ~Ok(x)}
<1> SUFFICES ASSUME T # {} PROVE FALSE
  BY DEF expected_proof_depth
<1>1. PICK x \in T : \A y \in T : x <= y
  BY SmallestNumber
<1>2. x \in Nat \ {0} /\ ~Ok(x) /\ \A y \in Nat \ {0} : y < x => Ok(y)
  BY <1>1
<1> HIDE DEF T
<1>3. PICK y \in 1..x : \E i \in 0..(y - 1) : ~(ProofDepth[y][i] <= ProofDepth[x][0])
  BY <1>2
<1>4. PICK i \in 0..(y - 1) : ~(ProofDepth[y][i] <= ProofDepth[x][0])
  BY <1>3
<1>5. y \in Nat \ {0} /\ ProofDepth[x][0] \in Nat
  BY <1>2, <1>3, ProofDepthIs
<1>6. CASE y = 1
  BY <1>4, <1>5, <1>6, ProofDepthIs
<1>7. CASE y > 1
  <2> DEFINE K == LargestPowerBelow(x)
             k == LargestPowerBelow(y)
  <2>1. K \in 1..(x - 1) /\ k \in 1..(y - 1) /\ y - k \in 1..k
    BY <1>2, <1>3, <1>5, <1>7, SplitBounds
  <2>2. k <= K
    <3>1. x - 1 \in Nat \ {0} /\ y - 1 \in Nat \ {0} /\ y - 1 <= x - 1
      BY <1>2, <1>3, <1>7
    <3> QED
      BY <3>1, HighestBitGrows DEF LargestPowerBelow
  <2>3. ProofDepth[x][0] = 1 + ProofDepth[K][0]
    BY <1>2, <1>3, <1>5, <1>7, <2>1, ProofDepthIs
  <2>4. ProofDepth[y][i] = 1 + (IF i < k THEN ProofDepth[k][i] ELSE ProofDepth[y - k][i - k])
    BY <1>4, <1>5, <1>7, ProofDepthIs
  <2> HIDE DEF K, k
  <2>5. Ok(K) /\ ProofDepth[K][0] \in Nat
    <3>1. K \in Nat \ {0} /\ K < x
      BY <1>2, <2>1
    <3> QED
      BY <1>2, <3>1, ProofDepthIs
  <2>6. CASE i < k
    <3>1. k \in 1..K /\ i \in 0..(k - 1) /\ ProofDepth[k][i] \in Nat
      BY <1>2, <1>4, <1>5, <2>1, <2>2, <2>6, ProofDepthIs
    <3> QED
      BY <1>4, <2>3, <2>4, <2>5, <2>6, <3>1
  <2>7. CASE ~(i < k)
    <3>1. y - k \in 1..K /\ i - k \in 0..(y - k - 1) /\ ProofDepth[y - k][i - k] \in Nat
      <4>1. y - k \in Nat \ {0} /\ y - k <= K /\ i - k \in 0..(y - k - 1)
        BY <1>2, <1>4, <1>5, <2>1, <2>2, <2>7
      <4> QED
        BY <2>1, <4>1, ProofDepthIs
    <3> QED
      BY <1>4, <2>3, <2>4, <2>5, <2>7, <3>1
  <2> QED
    BY <2>6, <2>7
<1> QED
  BY <1>3, <1>5, <1>6, <1>7

-----------------------------------------------------------------------------
(* Orphans on the right edge.                                              *)

Positions == [fn : Nat, sn : Nat]

\* One shift: above holds what is left once the position has been halved.
Skipped(pos, above) ==
  [sn \in Nat |-> IF pos % 2 = 1 \/ pos = 0 THEN [fn |-> pos, sn |-> sn] ELSE above[sn \div 2]]

LEMMA SkippedIs ==
  ASSUME NEW pos \in Nat, NEW above
  PROVE  /\ pos % 2 = 1 \/ pos = 0 => Skipped(pos, above) = [sn \in Nat |-> [fn |-> pos, sn |-> sn]]
         /\ ~(pos % 2 = 1 \/ pos = 0) => Skipped(pos, above) = [sn \in Nat |-> above[sn \div 2]]
BY DEF Skipped

IsOrphansSkipped(h) ==
  h = [fn \in Nat |-> [sn \in Nat |-> IF fn % 2 = 1 \/ fn = 0 THEN [fn |-> fn, sn |-> sn]
                                      ELSE h[fn \div 2][sn \div 2]]]

LEMMA OrphansSkippedIs ==
  /\ \A fn, sn \in Nat : fn % 2 = 1 => OrphansSkipped[fn][sn] = [fn |-> fn, sn |-> sn]
  /\ \A fn, sn \in Nat : fn % 2 # 1 /\ fn # 0 =>
       OrphansSkipped[fn][sn] = OrphansSkipped[fn \div 2][sn \div 2]
<1> DEFINE V == [Nat -> Positions]
           rule == [n \in Nat |-> [f \in [Nat -> V] |-> Skipped(n, f[n \div 2])]]
<1>0. /\ \A n \in Nat : n \div 2 \in Nat
      /\ \A n \in Nat : n # 0 => n \div 2 < n
  OBVIOUS
<1>1. ASSUME NEW n \in Nat, NEW f \in [Nat -> V] PROVE Skipped(n, f[n \div 2]) \in V
  <2>1. f[n \div 2] \in V
    BY <1>0
  <2> DEFINE above == f[n \div 2]
  <2>2. above \in [Nat -> Positions]
    BY <2>1
  <2> HIDE DEF above
  <2>3. Skipped(n, above) \in V
    <3>1. CASE n % 2 = 1 \/ n = 0
      <4>1. \A sn \in Nat : [fn |-> n, sn |-> sn] \in Positions
        BY DEF Positions
      <4> QED
        BY <3>1, <4>1, SkippedIs
    <3>2. CASE ~(n % 2 = 1 \/ n = 0)
      <4>1. \A sn \in Nat : above[sn \div 2] \in Positions
        BY <1>0, <2>2
      <4> QED
        BY <3>2, <4>1, SkippedIs
    <3> QED
      BY <3>1, <3>2
  <2> QED
    BY <2>3 DEF above
<1>2. ASSUME NEW n \in Nat, NEW f \in [Nat -> V], NEW g \in [Nat -> V],
             \A i \in 0..n : i < n => f[i] = g[i]
      PROVE  Skipped(n, f[n \div 2]) = Skipped(n, g[n \div 2])
  <2>1. CASE n = 0
    BY <2>1, SkippedIs
  <2>2. CASE n # 0
    <3>1. n \div 2 \in 0..n /\ n \div 2 < n
      BY <1>0, <2>2
    <3> DEFINE k == n \div 2
    <3>2. k \in 0..n /\ k < n
      BY <3>1
    <3> HIDE DEF k
    <3>3. f[k] = g[k]
      BY <1>2, <3>2
    <3> QED
      BY <3>3 DEF k
  <2> QED
    BY <2>1, <2>2
<1>3. rule \in [Nat -> [[Nat -> V] -> V]]
      /\ \A n \in Nat : \A f \in [Nat -> V] : rule[n][f] = Skipped(n, f[n \div 2])
  <2> HIDE DEF V
  <2> QED
    BY <1>1
<1> HIDE DEF rule
<1>4. rule \in Rules(V)
  <2> HIDE DEF V
  <2>1. ASSUME NEW n \in Nat, NEW f \in [Nat -> V], NEW g \in [Nat -> V],
               \A i \in 0..n : i < n => f[i] = g[i]
        PROVE  rule[n][f] = rule[n][g]
    BY <1>2, <1>3, <2>1
  <2> QED
    BY <1>3, <2>1 DEF Rules
<1>5. PICK f \in [Nat -> V] : \A n \in Nat : f[n] = rule[n][f]
  <2>1. V # {}
    <3>1. [n \in Nat |-> [fn |-> 0, sn |-> 0]] \in V
      BY DEF Positions
    <3> QED
      BY <3>1
  <2> HIDE DEF V
  <2> QED
    BY <1>4, <2>1, RecursionHasSolution
<1>6. IsOrphansSkipped(f)
  <2> HIDE DEF V
  <2>1. \A n \in Nat : f[n] = Skipped(n, f[n \div 2])
    BY <1>3, <1>5
  <2>2. f = [n \in Nat |-> Skipped(n, f[n \div 2])]
    BY <1>5, <2>1
  <2> QED
    BY <2>2, Zenon DEF IsOrphansSkipped, Skipped
<1>7. IsOrphansSkipped(OrphansSkipped)
  <2>1. OrphansSkipped = CHOOSE h : IsOrphansSkipped(h)
    BY DEF OrphansSkipped, IsOrphansSkipped
  <2> QED
    BY <1>6, <2>1, Zenon
<1>8. \A n \in Nat : OrphansSkipped[n] = Skipped(n, OrphansSkipped[n \div 2])
  <2>1. OrphansSkipped = [n \in Nat |-> Skipped(n, OrphansSkipped[n \div 2])]
    BY <1>7, Zenon DEF IsOrphansSkipped, Skipped
  <2> QED
    BY <2>1
<1>9. ASSUME NEW n \in Nat, NEW sn \in Nat, n % 2 = 1
      PROVE  OrphansSkipped[n][sn] = [fn |-> n, sn |-> sn]
  <2>1. OrphansSkipped[n] = [i \in Nat |-> [fn |-> n, sn |-> i]]
    BY <1>8, <1>9, SkippedIs
  <2> QED
    BY <2>1
<1>10. ASSUME NEW n \in Nat, NEW sn \in Nat, n % 2 # 1, n # 0
       PROVE  OrphansSkipped[n][sn] = OrphansSkipped[n \div 2][sn \div 2]
  <2>1. OrphansSkipped[n] = [i \in Nat |-> OrphansSkipped[n \div 2][i \div 2]]
    BY <1>8, <1>10, SkippedIs
  <2> QED
    BY <2>1
<1> QED
  BY <1>9, <1>10

\* Of a position on the right edge, every factor of two is skipped at once.
LEMMA OrphansAreSkipped ==
  ASSUME NEW c, Power(c), NEW j \in Nat
  PROVE  LET o == 2 * j + 1 IN OrphansSkipped[o * c][o * c] = [fn |-> o, sn |-> o]
<1> DEFINE o == 2 * j + 1
           Ok(x) == OrphansSkipped[o * x][o * x] = [fn |-> o, sn |-> o]
           T == {x \in Nat : Power(x) /\ ~Ok(x)}
<1>0. o \in Nat /\ o # 0 /\ o % 2 = 1
  OBVIOUS
<1> HIDE DEF o
<1> SUFFICES ASSUME T # {} PROVE FALSE
  BY DEF Power, o
<1>1. PICK x \in T : \A y \in T : x <= y
  BY SmallestNumber
<1>2. x \in Nat \ {0} /\ Power(x) /\ ~Ok(x) /\ \A y \in Nat : Power(y) /\ y < x => Ok(y)
  BY <1>1 DEF Power
<1> HIDE DEF T
<1>3. CASE x = 1
  <2>1. o * x = o
    BY <1>0, <1>3
  <2>2. OrphansSkipped[o][o] = [fn |-> o, sn |-> o]
    BY <1>0, OrphansSkippedIs
  <2> QED
    BY <1>2, <2>1, <2>2
<1>4. CASE x > 1
  <2>1. PICK y : Power(y) /\ x = 2 * y
    BY <1>2, <1>4, PowersHalve
  <2>2. y \in Nat \ {0} /\ y < x
    BY <2>1 DEF Power
  <2>3. Ok(y)
    BY <1>2, <2>1, <2>2
  <2> DEFINE p == o * y
  <2>4. p \in Nat /\ p # 0
    BY <1>0, <2>2
  <2>5. o * x = 2 * p
    <3>1. \A a, b \in Nat : a * (2 * b) = 2 * (a * b)
      OBVIOUS
    <3> QED
      BY <1>0, <2>1, <2>2, <3>1
  <2> HIDE DEF p
  <2>6. 2 * p \in Nat /\ (2 * p) % 2 # 1 /\ 2 * p # 0 /\ (2 * p) \div 2 = p
    BY <2>4
  <2>7. OrphansSkipped[2 * p][2 * p] = OrphansSkipped[p][p]
    BY <2>6, OrphansSkippedIs
  <2>8. OrphansSkipped[p][p] = [fn |-> o, sn |-> o]
    BY <2>3 DEF p
  <2> QED
    BY <1>2, <2>5, <2>7, <2>8
<1> QED
  BY <1>2, <1>3, <1>4

-----------------------------------------------------------------------------
(* The roots and the paths of RFC 9162.                                    *)

RootRow(n, roots) ==
  [lo \in 0 .. (MaxSize - n) |->
     IF n = 1 THEN leaf_hash(lo + 1)
     ELSE LET k == LargestPowerBelow(n)
          IN  inner_hash(roots[k][lo], roots[n - k][lo + k])]

PathRow(n, paths) ==
  [lo \in 0 .. (MaxSize - n) |->
     [m \in 0 .. (n - 1) |->
        IF n = 1 THEN <<>>
        ELSE LET k == LargestPowerBelow(n)
             IN  IF m < k THEN Append(paths[k][lo][m], MTH[n - k][lo + k])
                          ELSE Append(paths[n - k][lo + k][m - k], MTH[k][lo])]]

LEMMA RowsDependOnParts ==
  ASSUME NEW n \in Nat \ {0}, NEW f, NEW g, \A i \in 1 .. (n - 1) : f[i] = g[i]
  PROVE  RootRow(n, f) = RootRow(n, g) /\ PathRow(n, f) = PathRow(n, g)
<1>1. CASE n = 1
  BY <1>1 DEF RootRow, PathRow
<1>2. CASE n # 1
  <2> DEFINE k == LargestPowerBelow(n)
             l == n - k
  <2>1. k \in 1 .. (n - 1) /\ l \in 1 .. (n - 1)
    <3>1. n > 1
      BY <1>2
    <3> QED
      BY <3>1, PartsAreSmaller
  <2> HIDE DEF k, l
  <2>2. f[k] = g[k] /\ f[l] = g[l]
    BY <2>1
  <2>3. f[LargestPowerBelow(n)] = g[LargestPowerBelow(n)]
        /\ f[n - LargestPowerBelow(n)] = g[n - LargestPowerBelow(n)]
    BY <2>2 DEF k, l
  <2> QED
    BY <2>3, Zenon DEF RootRow, PathRow
<1> QED
  BY <1>1, <1>2

LEMMA RootsExist ==
  ASSUME NEW N \in Nat
  PROVE  \E f : f = [n \in 1 .. N |-> RootRow(n, f)]
<1> DEFINE Table(f, x) == f = [n \in 1 .. x |-> RootRow(n, f)]
           T == {x \in Nat : ~ \E f : Table(f, x)}
<1> SUFFICES ASSUME T # {} PROVE FALSE
  OBVIOUS
<1>1. PICK x \in T : \A y \in T : x <= y
  BY SmallestNumber
<1> HIDE DEF Table
<1>2. x \in Nat /\ (~ \E f : Table(f, x)) /\ \A y \in Nat : y < x => \E f : Table(f, y)
  BY <1>1
<1> HIDE DEF T
<1>3. CASE x = 0
  <2> DEFINE f == [n \in {} |-> 0]
  <2>1. f = [n \in 1 .. 0 |-> RootRow(n, f)]
    OBVIOUS
  <2>2. Table(f, x)
    BY <1>3, <2>1 DEF Table
  <2> QED
    BY <1>2, <2>2
<1>4. CASE x # 0
  <2>1. x - 1 \in Nat /\ x - 1 < x
    BY <1>2, <1>4
  <2>2. PICK f : Table(f, x - 1)
    BY <1>2, <2>1
  <2>3. f = [n \in 1 .. (x - 1) |-> RootRow(n, f)]
    BY <2>2 DEF Table
  <2>a. \A n \in 1 .. (x - 1) : f[n] = RootRow(n, f)
    BY <2>3, Zenon
  <2>b. \A n \in 1 .. (x - 1) : n \in 1 .. x
    BY <1>2
  <2> DEFINE g == [n \in 1 .. x |-> RootRow(n, f)]
  <2>4. DOMAIN g = 1 .. x /\ \A n \in 1 .. x : g[n] = RootRow(n, f)
    OBVIOUS
  <2>5. \A n \in 1 .. (x - 1) : g[n] = f[n]
    BY <2>a, <2>b, <2>4, Zenon
  <2> HIDE DEF g
  <2>6. ASSUME NEW n \in 1 .. x PROVE RootRow(n, f) = RootRow(n, g)
    <3>1. n \in Nat \ {0} /\ \A i \in 1 .. (n - 1) : i \in 1 .. (x - 1)
      BY <1>2
    <3>2. \A i \in 1 .. (n - 1) : f[i] = g[i]
      BY <2>5, <3>1
    <3> QED
      BY <3>1, <3>2, RowsDependOnParts
  <2>7. g = [n \in 1 .. x |-> RootRow(n, g)]
    BY <2>6 DEF g
  <2> QED
    BY <1>2, <2>7 DEF Table
<1> QED
  BY <1>3, <1>4

LEMMA MTHIs == MTH = [n \in 1 .. MaxSize |-> RootRow(n, MTH)]
<1>1. MTH = CHOOSE f : f = [n \in 1 .. MaxSize |-> RootRow(n, f)]
  BY Zenon DEF MTH, RootRow
<1>2. \E f : f = [n \in 1 .. MaxSize |-> RootRow(n, f)]
  BY LogTyped, RootsExist
<1> QED
  BY <1>1, <1>2, Zenon

LEMMA PathsExist ==
  ASSUME NEW N \in Nat
  PROVE  \E f : f = [n \in 1 .. N |-> PathRow(n, f)]
<1> DEFINE Table(f, x) == f = [n \in 1 .. x |-> PathRow(n, f)]
           T == {x \in Nat : ~ \E f : Table(f, x)}
<1> SUFFICES ASSUME T # {} PROVE FALSE
  OBVIOUS
<1>1. PICK x \in T : \A y \in T : x <= y
  BY SmallestNumber
<1> HIDE DEF Table
<1>2. x \in Nat /\ (~ \E f : Table(f, x)) /\ \A y \in Nat : y < x => \E f : Table(f, y)
  BY <1>1
<1> HIDE DEF T
<1>3. CASE x = 0
  <2> DEFINE f == [n \in {} |-> 0]
  <2>1. f = [n \in 1 .. 0 |-> PathRow(n, f)]
    OBVIOUS
  <2>2. Table(f, x)
    BY <1>3, <2>1 DEF Table
  <2> QED
    BY <1>2, <2>2
<1>4. CASE x # 0
  <2>1. x - 1 \in Nat /\ x - 1 < x
    BY <1>2, <1>4
  <2>2. PICK f : Table(f, x - 1)
    BY <1>2, <2>1
  <2>3. f = [n \in 1 .. (x - 1) |-> PathRow(n, f)]
    BY <2>2 DEF Table
  <2>a. \A n \in 1 .. (x - 1) : f[n] = PathRow(n, f)
    BY <2>3, Zenon
  <2>b. \A n \in 1 .. (x - 1) : n \in 1 .. x
    BY <1>2
  <2> DEFINE g == [n \in 1 .. x |-> PathRow(n, f)]
  <2>4. DOMAIN g = 1 .. x /\ \A n \in 1 .. x : g[n] = PathRow(n, f)
    OBVIOUS
  <2>5. \A n \in 1 .. (x - 1) : g[n] = f[n]
    BY <2>a, <2>b, <2>4, Zenon
  <2> HIDE DEF g
  <2>6. ASSUME NEW n \in 1 .. x PROVE PathRow(n, f) = PathRow(n, g)
    <3>1. n \in Nat \ {0} /\ \A i \in 1 .. (n - 1) : i \in 1 .. (x - 1)
      BY <1>2
    <3>2. \A i \in 1 .. (n - 1) : f[i] = g[i]
      BY <2>5, <3>1
    <3> QED
      BY <3>1, <3>2, RowsDependOnParts
  <2>7. g = [n \in 1 .. x |-> PathRow(n, g)]
    BY <2>6 DEF g
  <2> QED
    BY <1>2, <2>7 DEF Table
<1> QED
  BY <1>3, <1>4

LEMMA PATHIs == PATH = [n \in 1 .. MaxSize |-> PathRow(n, PATH)]
<1>1. PATH = CHOOSE f : f = [n \in 1 .. MaxSize |-> PathRow(n, f)]
  BY Zenon DEF PATH, PathRow
<1>2. \E f : f = [n \in 1 .. MaxSize |-> PathRow(n, f)]
  BY LogTyped, PathsExist
<1> QED
  BY <1>1, <1>2, Zenon

LEMMA RootsAre ==
  /\ \A lo \in 0 .. (MaxSize - 1) : MTH[1][lo] = leaf_hash(lo + 1)
  /\ \A n \in 1 .. MaxSize : \A lo \in 0 .. (MaxSize - n) : n > 1 =>
       LET k == LargestPowerBelow(n)
       IN  MTH[n][lo] = inner_hash(MTH[k][lo], MTH[n - k][lo + k])
<1>1. \A n \in 1 .. MaxSize : MTH[n] = RootRow(n, MTH)
  BY MTHIs, Zenon
<1>2. \A n \in 1 .. MaxSize : \A lo \in 0 .. (MaxSize - n) : RootRow(n, MTH)[lo] =
        IF n = 1 THEN leaf_hash(lo + 1)
        ELSE LET k == LargestPowerBelow(n)
             IN  inner_hash(MTH[k][lo], MTH[n - k][lo + k])
  BY Zenon DEF RootRow
<1>3. 1 \in 1 .. MaxSize
  BY LogTyped
<1> QED
  BY <1>1, <1>2, <1>3

LEMMA PathsAre ==
  /\ \A lo \in 0 .. (MaxSize - 1) : PATH[1][lo][0] = <<>>
  /\ \A n \in 1 .. MaxSize : \A lo \in 0 .. (MaxSize - n) : \A m \in 0 .. (n - 1) : n > 1 =>
       LET k == LargestPowerBelow(n)
       IN  /\ m < k => PATH[n][lo][m] = Append(PATH[k][lo][m], MTH[n - k][lo + k])
           /\ ~(m < k) => PATH[n][lo][m] = Append(PATH[n - k][lo + k][m - k], MTH[k][lo])
<1> DEFINE Entry(n, lo, m) ==
             IF n = 1 THEN <<>>
             ELSE LET k == LargestPowerBelow(n)
                  IN  IF m < k THEN Append(PATH[k][lo][m], MTH[n - k][lo + k])
                               ELSE Append(PATH[n - k][lo + k][m - k], MTH[k][lo])
<1>1. \A n \in 1 .. MaxSize : PATH[n] = PathRow(n, PATH)
  BY PATHIs, Zenon
<1>2. \A n \in 1 .. MaxSize : \A lo \in 0 .. (MaxSize - n) : \A m \in 0 .. (n - 1) :
        PathRow(n, PATH)[lo][m] = Entry(n, lo, m)
  BY Zenon DEF PathRow
<1>3. 1 \in 1 .. MaxSize /\ 0 \in 0 .. (1 - 1)
  BY LogTyped
<1> HIDE DEF Entry
<1>4. \A n \in 1 .. MaxSize : \A lo \in 0 .. (MaxSize - n) : \A m \in 0 .. (n - 1) :
        PATH[n][lo][m] = Entry(n, lo, m)
  BY <1>1, <1>2
<1>5. \A n \in 1 .. MaxSize : n > 1 => n # 1
  OBVIOUS
<1> QED
  BY <1>3, <1>4, <1>5, Zenon DEF Entry

\* A range of entries inside the log, and a leaf of it.
InLog(n, lo, m) == n \in 1 .. MaxSize /\ lo \in 0 .. (MaxSize - n) /\ m \in 0 .. (n - 1)

\* The part of a range of more than one entry that holds a leaf is in the log, too.
LEMMA PartsAreInLog ==
  ASSUME NEW n, NEW lo, NEW m, InLog(n, lo, m), n > 1
  PROVE  LET k == LargestPowerBelow(n)
         IN  /\ k \in Nat \ {0} /\ k < n /\ n - k \in Nat \ {0} /\ n - k < n
             /\ m < k => InLog(k, lo, m)
             /\ ~(m < k) => InLog(n - k, lo + k, m - k)
<1> DEFINE k == LargestPowerBelow(n)
<1>1. n \in Nat /\ MaxSize \in Nat /\ n <= MaxSize
  BY LogTyped DEF InLog
<1>2. k \in Nat \ {0} /\ k < n /\ n - k \in Nat \ {0} /\ n - k < n
  BY <1>1, PartsAreSmaller
<1> HIDE DEF k
<1>3. m < k => InLog(k, lo, m)
  BY <1>1, <1>2 DEF InLog
<1>4. ~(m < k) => InLog(n - k, lo + k, m - k)
  BY <1>1, <1>2 DEF InLog
<1> QED
  BY <1>2, <1>3, <1>4 DEF k

Hashes == {MTH[p[1]][p[2]] : p \in (1 .. MaxSize) \X (0 .. MaxSize)}

\* A path has a sibling for each level.
LEMMA PathsFit ==
  ASSUME NEW n, NEW lo, NEW m, InLog(n, lo, m)
  PROVE  /\ PATH[n][lo][m] \in Seq(Hashes)
         /\ Len(PATH[n][lo][m]) = ProofDepth[n][m]
<1> DEFINE Fits(y, b, i) == PATH[y][b][i] \in Seq(Hashes) /\ Len(PATH[y][b][i]) = ProofDepth[y][i]
           Ok(y) == \A b, i : InLog(y, b, i) => Fits(y, b, i)
           T == {y \in Nat : ~Ok(y)}
<1> SUFFICES ASSUME T # {} PROVE FALSE
  BY DEF InLog
<1>1. PICK y \in T : \A z \in T : y <= z
  BY SmallestNumber
<1>2. y \in Nat /\ ~Ok(y) /\ \A z \in Nat : z < y => Ok(z)
  BY <1>1
<1> HIDE DEF T
<1>3. PICK b, i : InLog(y, b, i) /\ ~Fits(y, b, i)
  BY <1>2
<1> HIDE DEF Ok
<1>4. y \in 1 .. MaxSize /\ b \in 0 .. (MaxSize - y) /\ i \in 0 .. (y - 1) /\ MaxSize \in Nat
  BY <1>3, LogTyped DEF InLog
<1>5. CASE y = 1
  <2>1. i = 0 /\ b \in 0 .. (MaxSize - 1)
    BY <1>4, <1>5
  <2>2. PATH[y][b][i] = <<>> /\ ProofDepth[y][i] = 0
    BY <1>5, <2>1, PathsAre, ProofDepthIs
  <2> QED
    BY <1>3, <2>2
<1>6. CASE y > 1
  <2> DEFINE k == LargestPowerBelow(y)
             l == y - k
  <2>1. /\ k \in Nat \ {0} /\ k < y /\ l \in Nat \ {0} /\ l < y /\ l = y - k
        /\ i < k => InLog(k, b, i)
        /\ ~(i < k) => InLog(l, b + k, i - k)
    BY <1>3, <1>6, PartsAreInLog
  <2>2. /\ i < k => PATH[y][b][i] = Append(PATH[k][b][i], MTH[l][b + k])
        /\ ~(i < k) => PATH[y][b][i] = Append(PATH[l][b + k][i - k], MTH[k][b])
    BY <1>4, <1>6, PathsAre
  <2>3. /\ i < k => ProofDepth[y][i] = 1 + ProofDepth[k][i]
        /\ ~(i < k) => ProofDepth[y][i] = 1 + ProofDepth[l][i - k]
    BY <1>4, <1>6, ProofDepthIs
  <2> HIDE DEF k, l
  <2>4. MTH[l][b + k] \in Hashes /\ MTH[k][b] \in Hashes
    <3>1. <<l, b + k>> \in (1 .. MaxSize) \X (0 .. MaxSize) /\ <<k, b>> \in (1 .. MaxSize) \X (0 .. MaxSize)
      BY <1>4, <2>1
    <3>2. <<l, b + k>>[1] = l /\ <<l, b + k>>[2] = b + k /\ <<k, b>>[1] = k /\ <<k, b>>[2] = b
      OBVIOUS
    <3> QED
      BY <3>1, <3>2, Zenon DEF Hashes
  <2>5. \A s \in Seq(Hashes), h \in Hashes : Append(s, h) \in Seq(Hashes) /\ Len(Append(s, h)) = 1 + Len(s)
    OBVIOUS
  <2>6. CASE i < k
    <3>1. Fits(k, b, i)
      BY <1>2, <2>1, <2>6 DEF Ok
    <3> QED
      BY <1>3, <2>2, <2>3, <2>4, <2>5, <2>6, <3>1, Zenon
  <2>7. CASE ~(i < k)
    <3>1. Fits(l, b + k, i - k)
      BY <1>2, <2>1, <2>7 DEF Ok
    <3> QED
      BY <1>3, <2>2, <2>3, <2>4, <2>5, <2>7, <3>1, Zenon
  <2> QED
    BY <2>6, <2>7
<1> QED
  BY <1>4, <1>5, <1>6

-----------------------------------------------------------------------------
(* The walk.                                                               *)

IsWalk(W, start, path, L) ==
  W = [i \in 0 .. L |-> IF i = 0 THEN start ELSE WalkStep(W[i - 1], path[i])]

LEMMA WalksExist ==
  ASSUME NEW start, NEW path, NEW L \in Nat
  PROVE  \E W : IsWalk(W, start, path, L)
<1> DEFINE T == {x \in Nat : ~ \E W : IsWalk(W, start, path, x)}
<1> SUFFICES ASSUME T # {} PROVE FALSE
  OBVIOUS
<1>1. PICK x \in T : \A y \in T : x <= y
  BY SmallestNumber
<1>2. x \in Nat /\ (~ \E W : IsWalk(W, start, path, x)) /\ \A y \in Nat : y < x => \E W : IsWalk(W, start, path, y)
  BY <1>1
<1> HIDE DEF T
<1>3. CASE x = 0
  <2> DEFINE W == [i \in {0} |-> start]
  <2>1. W = [i \in 0 .. 0 |-> IF i = 0 THEN start ELSE WalkStep(W[i - 1], path[i])]
    OBVIOUS
  <2> HIDE DEF W
  <2> QED
    BY <1>2, <1>3, <2>1 DEF IsWalk
<1>4. CASE x # 0
  <2>1. x - 1 \in Nat /\ x - 1 < x
    BY <1>2, <1>4
  <2>2. PICK V : IsWalk(V, start, path, x - 1)
    BY <1>2, <2>1
  <2> DEFINE To(U, i) == IF i = 0 THEN start ELSE WalkStep(U[i - 1], path[i])
             W == [i \in 0 .. x |-> To(V, i)]
  <2>3. \A i \in 0 .. (x - 1) : V[i] = To(V, i)
    BY <2>2, Zenon DEF IsWalk
  <2>4. \A i \in 0 .. x : W[i] = To(V, i)
    BY Zenon
  <2> HIDE DEF W
  <2>5. ASSUME NEW i \in 0 .. x PROVE To(V, i) = To(W, i)
    <3>1. CASE i = 0
      BY <3>1
    <3>2. CASE i # 0
      <4>1. i - 1 \in 0 .. x /\ i - 1 \in 0 .. (x - 1)
        BY <1>2, <3>2
      <4>2. V[i - 1] = W[i - 1]
        BY <2>3, <2>4, <4>1, Zenon
      <4> QED
        BY <3>2, <4>2, Zenon
    <3> QED
      BY <3>1, <3>2
  <2>6. W = [i \in 0 .. x |-> To(W, i)]
    <3> HIDE DEF To
    <3> QED
      BY <2>5 DEF W
  <2> QED
    BY <1>2, <2>6, Zenon DEF IsWalk
<1> QED
  BY <1>3, <1>4

\* W is a walk up the first L siblings of the path.
WalksUp(W, path, L) == \A i \in 1 .. L : W[i] = WalkStep(W[i - 1], path[i])

LEMMA WalkedRootIs ==
  ASSUME NEW entry, Len(entry.proof_path) \in Nat
  PROVE  \E W : /\ W[0] = [current |-> entry.leaf_hash, fn |-> entry.index, sn |-> entry.tree_size - 1]
                /\ WalksUp(W, entry.proof_path, Len(entry.proof_path))
                /\ WalkedRoot(entry) = W[Len(entry.proof_path)].current
<1> DEFINE start == [current |-> entry.leaf_hash, fn |-> entry.index, sn |-> entry.tree_size - 1]
           path == entry.proof_path
           L == Len(path)
           W == CHOOSE V : IsWalk(V, start, path, L)
<1>1. WalkedRoot(entry) = W[L].current
  BY Zenon DEF WalkedRoot, IsWalk
<1>2. IsWalk(W, start, path, L)
  BY WalksExist, Zenon
<1> HIDE DEF W, start, path
<1>3. \A i \in 0 .. L : W[i] = IF i = 0 THEN start ELSE WalkStep(W[i - 1], path[i])
  BY <1>2, Zenon DEF IsWalk
<1>4. L \in Nat
  BY DEF path
<1>5. W[0] = start
  BY <1>3, <1>4
<1>6. WalksUp(W, path, L)
  <2>1. \A i \in 1 .. L : i \in 0 .. L /\ i # 0
    OBVIOUS
  <2> QED
    BY <1>3, <2>1, Zenon DEF WalksUp
<1> QED
  BY <1>1, <1>5, <1>6, Zenon DEF start, path

At(w, fn, sn) == w.fn = fn /\ w.sn = sn

IsStep(w, sibling, v) == v = WalkStep(w, sibling)

\* Below position q of a level whose right edge is at t: as the left child, as the right
\* child, and on the edge with any number of orphans in between.
BelowLeft(w, q, t) == q \in Nat /\ w.fn = 2 * q /\ w.sn \in Nat /\ w.sn # w.fn /\ t = w.sn \div 2
BelowRight(w, q, t) == q \in Nat /\ w.fn = 2 * q + 1 /\ w.sn \in Nat /\ t = w.sn \div 2
BelowEdge(w, q) == q \in Nat /\ \E c : Power(c) /\ At(w, (2 * q + 1) * c, (2 * q + 1) * c)

\* A left child has its sibling on the right.
LEMMA StepFromLeft ==
  ASSUME NEW w, NEW sibling, NEW v, IsStep(w, sibling, v), NEW q, NEW t, BelowLeft(w, q, t)
  PROVE  v.current = inner_hash(w.current, sibling) /\ At(v, q, t)
<1>1. q \in Nat /\ (2 * q) % 2 # 1 /\ (2 * q) \div 2 = q
  BY DEF BelowLeft
<1> QED
  BY <1>1 DEF IsStep, BelowLeft, WalkStep, At

\* A right child has it on the left, and so has the node on the edge, whose orphans
\* are skipped first.
LEMMA StepFromRight ==
  ASSUME NEW w, NEW sibling, NEW v, IsStep(w, sibling, v), NEW q, NEW t, BelowRight(w, q, t)
  PROVE  v.current = inner_hash(sibling, w.current) /\ At(v, q, t)
<1>1. q \in Nat /\ 2 * q + 1 \in Nat /\ (2 * q + 1) % 2 = 1 /\ (2 * q + 1) \div 2 = q
  BY DEF BelowRight
<1>2. OrphansSkipped[w.fn][w.sn] = [fn |-> w.fn, sn |-> w.sn]
  BY <1>1, OrphansSkippedIs DEF BelowRight
<1> QED
  BY <1>1, <1>2 DEF IsStep, BelowRight, WalkStep, At

LEMMA StepFromEdge ==
  ASSUME NEW w, NEW sibling, NEW v, IsStep(w, sibling, v), NEW q, BelowEdge(w, q)
  PROVE  v.current = inner_hash(sibling, w.current) /\ At(v, q, q)
<1>0. PICK c : Power(c) /\ At(w, (2 * q + 1) * c, (2 * q + 1) * c)
  BY DEF BelowEdge
<1> DEFINE p == (2 * q + 1) * c
<1>1. q \in Nat /\ OrphansSkipped[p][p] = [fn |-> 2 * q + 1, sn |-> 2 * q + 1]
  BY <1>0, OrphansAreSkipped DEF BelowEdge
<1>2. w.fn = p /\ w.sn = p
  BY <1>0 DEF At
<1>3. (2 * q + 1) \div 2 = q
  BY <1>1
<1> HIDE DEF p
<1> QED
  BY <1>1, <1>2, <1>3 DEF IsStep, WalkStep, At

\* The walk W is at the root of the range exactly if it started at the leaf and went up
\* the leaf's path.
Reaches(W, path, n, lo, m) ==
  (W[ProofDepth[n][m]].current = MTH[n][lo])
    <=> /\ W[0].current = leaf_hash(lo + m + 1)
        /\ \A i \in 1 .. ProofDepth[n][m] : path[i] = PATH[n][lo][m][i]

LEMMA ReachesLeaf ==
  ASSUME NEW W, NEW path, NEW lo \in 0 .. (MaxSize - 1)
  PROVE  Reaches(W, path, 1, lo, 0)
<1>1. MTH[1][lo] = leaf_hash(lo + 1) /\ ProofDepth[1][0] = 0 /\ lo + 0 + 1 = lo + 1
  BY RootsAre, ProofDepthIs
<1>2. \A i \in 1 .. 0 : FALSE
  OBVIOUS
<1> QED
  BY <1>1, <1>2, Zenon DEF Reaches

\* A path with one more sibling.
LEMMA OneMoreSibling ==
  ASSUME NEW S, NEW s \in Seq(S), NEW h \in S, NEW path, NEW d \in Nat, Len(s) = d
  PROVE  (\A i \in 1 .. (d + 1) : path[i] = Append(s, h)[i])
           <=> (\A i \in 1 .. d : path[i] = s[i]) /\ path[d + 1] = h
<1>1. /\ \A i \in 1 .. d : Append(s, h)[i] = s[i] /\ i \in 1 .. (d + 1)
      /\ Append(s, h)[d + 1] = h /\ d + 1 \in 1 .. (d + 1)
      /\ \A i \in 1 .. (d + 1) : i \in 1 .. d \/ i = d + 1
  OBVIOUS
<1> QED
  BY <1>1, Zenon

\* One level up from the left part, and from the right one.
LEMMA ClimbLeft ==
  ASSUME NEW W, NEW path, NEW n, NEW lo, NEW m, InLog(n, lo, m), n > 1,
         m < LargestPowerBelow(n),
         NEW d, d = ProofDepth[LargestPowerBelow(n)][m],
         Reaches(W, path, LargestPowerBelow(n), lo, m),
         W[d + 1].current = inner_hash(W[d].current, path[d + 1])
  PROVE  ProofDepth[n][m] = d + 1 /\ Reaches(W, path, n, lo, m)
<1> DEFINE k == LargestPowerBelow(n)
           l == n - k
           left == MTH[k][lo]
           right == MTH[l][lo + k]
           p == PATH[k][lo][m]
           root == MTH[n][lo]
           full == PATH[n][lo][m]
<1>1. n \in 1 .. MaxSize /\ n \in Nat /\ lo \in 0 .. (MaxSize - n) /\ m \in 0 .. (n - 1) /\ MaxSize \in Nat
  BY LogTyped DEF InLog
<1>2. InLog(k, lo, m) /\ k \in Nat \ {0} /\ k < n /\ l \in Nat \ {0} /\ l < n /\ l = n - k
  BY PartsAreInLog
<1>3. root = inner_hash(left, right) /\ full = Append(p, right)
  BY <1>1, RootsAre, PathsAre
<1>4. p \in Seq(Hashes) /\ Len(p) = d
  BY <1>2, PathsFit
<1>5. ProofDepth[n][m] = 1 + d
  BY <1>1, ProofDepthIs
<1>6. W[d].current = left <=> W[0].current = leaf_hash(lo + m + 1) /\ \A i \in 1 .. d : path[i] = p[i]
  BY DEF Reaches
<1>7. right \in Hashes
  <2> HIDE DEF k, l
  <2>1. <<l, lo + k>> \in (1 .. MaxSize) \X (0 .. MaxSize)
    BY <1>1, <1>2
  <2>2. <<l, lo + k>>[1] = l /\ <<l, lo + k>>[2] = lo + k
    OBVIOUS
  <2> QED
    BY <2>1, <2>2, Zenon DEF Hashes
<1> HIDE DEF k, l, left, right, p, root, full
<1>8. d \in Nat
  BY <1>4
<1>9. (\A i \in 1 .. (d + 1) : path[i] = full[i]) <=> (\A i \in 1 .. d : path[i] = p[i]) /\ path[d + 1] = right
  BY <1>3, <1>4, <1>7, <1>8, OneMoreSibling
<1>10. W[d + 1].current = root <=> W[d].current = left /\ path[d + 1] = right
  BY <1>3 DEF inner_hash
<1>11. ProofDepth[n][m] = d + 1
  BY <1>5, <1>8
<1> QED
  BY <1>6, <1>9, <1>10, <1>11, Zenon DEF Reaches, root, full

LEMMA ClimbRight ==
  ASSUME NEW W, NEW path, NEW n, NEW lo, NEW m, InLog(n, lo, m), n > 1,
         NEW k, k = LargestPowerBelow(n), ~(m < k),
         NEW d, d = ProofDepth[n - k][m - k],
         Reaches(W, path, n - k, lo + k, m - k),
         W[d + 1].current = inner_hash(path[d + 1], W[d].current)
  PROVE  ProofDepth[n][m] = d + 1 /\ Reaches(W, path, n, lo, m)
<1> DEFINE l == n - k
           left == MTH[k][lo]
           right == MTH[l][lo + k]
           p == PATH[l][lo + k][m - k]
           root == MTH[n][lo]
           full == PATH[n][lo][m]
<1>1. n \in 1 .. MaxSize /\ n \in Nat /\ lo \in 0 .. (MaxSize - n) /\ m \in 0 .. (n - 1) /\ MaxSize \in Nat
  BY LogTyped DEF InLog
<1>2. InLog(l, lo + k, m - k) /\ k \in Nat \ {0} /\ k < n /\ l \in Nat \ {0} /\ l < n /\ l = n - k
  BY PartsAreInLog
<1>3. root = inner_hash(left, right) /\ full = Append(p, left)
  BY <1>1, RootsAre, PathsAre
<1>4. p \in Seq(Hashes) /\ Len(p) = d
  BY <1>2, PathsFit
<1>5. ProofDepth[n][m] = 1 + d
  BY <1>1, ProofDepthIs
<1>6. W[d].current = right <=> W[0].current = leaf_hash(lo + m + 1) /\ \A i \in 1 .. d : path[i] = p[i]
  <2>1. lo + k + (m - k) + 1 = lo + m + 1
    BY <1>1, <1>2
  <2> QED
    BY <2>1 DEF Reaches
<1>7. left \in Hashes
  <2> HIDE DEF l
  <2>1. <<k, lo>> \in (1 .. MaxSize) \X (0 .. MaxSize)
    BY <1>1, <1>2
  <2>2. <<k, lo>>[1] = k /\ <<k, lo>>[2] = lo
    OBVIOUS
  <2> QED
    BY <2>1, <2>2, Zenon DEF Hashes
<1> HIDE DEF l, left, right, p, root, full
<1>8. d \in Nat
  BY <1>4
<1>9. (\A i \in 1 .. (d + 1) : path[i] = full[i]) <=> (\A i \in 1 .. d : path[i] = p[i]) /\ path[d + 1] = left
  BY <1>3, <1>4, <1>7, <1>8, OneMoreSibling
<1>10. W[d + 1].current = root <=> W[d].current = right /\ path[d + 1] = left
  BY <1>3 DEF inner_hash
<1>11. ProofDepth[n][m] = d + 1
  BY <1>5, <1>8
<1> QED
  BY <1>6, <1>9, <1>10, <1>11, Zenon DEF Reaches, root, full

\* The walk does what it should for a range of n entries: started anywhere on the path,
\* it arrives at position q of its level, the right edge at s.
ArrivesAt(W, path, n, lo, m, q, s) ==
  At(W[ProofDepth[n][m]], q, s) /\ Reaches(W, path, n, lo, m)

LEMMA Doubled ==
  ASSUME NEW a \in Nat, NEW h \in Nat
  PROVE  /\ a * (2 * h) = (2 * a) * h
         /\ (2 * a + 1) * h = (2 * a) * h + h
         /\ (2 * a) * h \in Nat
<1>1. a * (2 * h) = (2 * a) * h
  OBVIOUS
<1>2. (2 * a + 1) * h = (2 * a) * h + h
  OBVIOUS
<1>3. (2 * a) * h \in Nat
  OBVIOUS
<1> QED
  BY <1>1, <1>2, <1>3

LEMMA ChildrenKeepTheOrder ==
  ASSUME NEW a \in Nat, NEW c \in Nat, a < c, NEW t, t = 2 * c \/ t = 2 * c + 1
  PROVE  t \in Nat /\ t \div 2 = c /\ 2 * a < t /\ 2 * a + 1 < t /\ t # 2 * a
<1>1. CASE t = 2 * c
  BY <1>1
<1>2. CASE t = 2 * c + 1
  BY <1>2
<1> QED
  BY <1>1, <1>2

\* Inside the tree, where all ranges are full: the q-th range of P entries, left of the
\* s-th.
LEMMA InteriorIsSound ==
  ASSUME NEW W, NEW path, NEW D \in Nat, WalksUp(W, path, D),
         NEW P, Power(P), NEW lo, NEW m, InLog(P, lo, m), ProofDepth[P][m] <= D,
         NEW q \in Nat, NEW s \in Nat, q < s, NEW r \in 0 .. (P - 1),
         At(W[0], q * P + m, s * P + r)
  PROVE  ArrivesAt(W, path, P, lo, m, q, s)
<1> DEFINE From(x, b, i, a, c, e) ==
             /\ Power(x) /\ InLog(x, b, i) /\ ProofDepth[x][i] <= D
             /\ a \in Nat /\ c \in Nat /\ a < c /\ e \in 0 .. (x - 1)
             /\ At(W[0], a * x + i, c * x + e)
           Ok(x) == \A b, i, a, c, e : From(x, b, i, a, c, e) => ArrivesAt(W, path, x, b, i, a, c)
           T == {x \in Nat : ~Ok(x)}
<1> SUFFICES ASSUME T # {} PROVE FALSE
  <2>1. P \in Nat /\ From(P, lo, m, q, s, r)
    BY DEF Power
  <2>2. Ok(P)
    BY <2>1
  <2> HIDE DEF From
  <2> QED
    BY <2>1, <2>2
<1>1. PICK x \in T : \A y \in T : x <= y
  BY SmallestNumber
<1>2. x \in Nat /\ ~Ok(x) /\ \A y \in Nat : y < x => Ok(y)
  BY <1>1
<1> HIDE DEF T
<1>3. PICK b, i, a, c, e : From(x, b, i, a, c, e) /\ ~ArrivesAt(W, path, x, b, i, a, c)
  BY <1>2
<1> HIDE DEF Ok
<1>4. /\ Power(x) /\ x \in Nat \ {0} /\ InLog(x, b, i) /\ ProofDepth[x][i] <= D
      /\ a \in Nat /\ c \in Nat /\ a < c /\ e \in 0 .. (x - 1)
      /\ At(W[0], a * x + i, c * x + e)
  BY <1>3 DEF Power
<1>5. x \in 1 .. MaxSize /\ b \in 0 .. (MaxSize - x) /\ i \in 0 .. (x - 1) /\ MaxSize \in Nat
  BY <1>4, LogTyped DEF InLog
<1>6. CASE x = 1
  <2>1. i = 0 /\ e = 0 /\ b \in 0 .. (MaxSize - 1) /\ a * x + i = a /\ c * x + e = c
    BY <1>4, <1>5, <1>6
  <2>2. Reaches(W, path, x, b, i)
    BY <1>6, <2>1, ReachesLeaf
  <2>3. ProofDepth[x][i] = 0
    BY <1>6, <2>1, ProofDepthIs
  <2> QED
    BY <1>3, <1>4, <2>1, <2>2, <2>3 DEF ArrivesAt
<1>7. CASE x > 1
  <2>1. PICK h : Power(h) /\ x = 2 * h
    BY <1>4, <1>7, PowersHalve
  <2>2. h \in Nat \ {0} /\ h < x /\ LargestPowerBelow(x) = h /\ x - h = h
    BY <2>1, FullTreesAreHalved DEF Power
  <2>3. Ok(h)
    BY <1>2, <2>2
  <2>4. /\ i < h => InLog(h, b, i)
        /\ ~(i < h) => InLog(h, b + h, i - h)
    BY <1>4, <1>7, <2>2, PartsAreInLog
  <2>5. a * x = (2 * a) * h /\ (2 * a + 1) * h = (2 * a) * h + h
        /\ c * x = (2 * c) * h /\ (2 * c + 1) * h = (2 * c) * h + h
        /\ (2 * a) * h \in Nat /\ (2 * c) * h \in Nat
    BY <1>4, <2>1, <2>2, Doubled
  <2>6. PICK t \in {2 * c, 2 * c + 1}, f \in 0 .. (h - 1) : c * x + e = t * h + f
    <3>1. CASE e < h
      <4>1. e \in 0 .. (h - 1) /\ c * x + e = (2 * c) * h + e
        BY <1>4, <2>2, <2>5, <3>1
      <4> QED
        BY <4>1
    <3>2. CASE ~(e < h)
      <4> DEFINE ch == (2 * c) * h
      <4>1. ch \in Nat /\ c * x = ch /\ (2 * c + 1) * h = ch + h
        BY <2>5
      <4> HIDE DEF ch
      <4>2. e - h \in 0 .. (h - 1) /\ c * x + e = (2 * c + 1) * h + (e - h)
        BY <1>4, <2>1, <2>2, <3>2, <4>1
      <4> QED
        BY <4>2
    <3> QED
      BY <3>1, <3>2
  <2>7. t \in Nat /\ t \div 2 = c /\ 2 * a < t /\ 2 * a + 1 < t /\ t # 2 * a
    BY <1>4, <2>6, ChildrenKeepTheOrder
  <2>8. CASE i < h
    <3> DEFINE d == ProofDepth[h][i]
    <3>1. i \in 0 .. (h - 1) /\ i \in 0 .. (x - 1)
      BY <1>5, <2>2, <2>8
    <3>2. d \in Nat /\ ProofDepth[x][i] = 1 + d
      BY <1>5, <1>7, <2>2, <2>8, <3>1, ProofDepthIs
    <3>3. d <= D /\ d + 1 \in 1 .. D
      BY <1>4, <3>2
    <3>4. From(h, b, i, 2 * a, t, f)
      BY <1>4, <2>1, <2>4, <2>5, <2>6, <2>7, <2>8, <3>3
    <3> HIDE DEF From
    <3>5. ArrivesAt(W, path, h, b, i, 2 * a, t)
      BY <2>3, <3>4 DEF Ok
    <3>6. At(W[d], 2 * a, t) /\ Reaches(W, path, h, b, i)
      BY <3>5 DEF ArrivesAt
    <3> HIDE DEF d
    <3>7. W[d + 1] = WalkStep(W[d], path[d + 1])
      <4>1. (d + 1) - 1 = d
        BY <3>2
      <4> QED
        BY <3>3, <4>1 DEF WalksUp
    <3>8. W[d + 1].current = inner_hash(W[d].current, path[d + 1]) /\ At(W[d + 1], a, c)
      <4>1. IsStep(W[d], path[d + 1], W[d + 1])
        BY <3>7 DEF IsStep
      <4>2. BelowLeft(W[d], a, c)
        BY <1>4, <2>7, <3>6 DEF BelowLeft, At
      <4> QED
        BY <4>1, <4>2, StepFromLeft
    <3>9. ProofDepth[x][i] = d + 1 /\ Reaches(W, path, x, b, i)
      BY <1>4, <1>7, <2>2, <2>8, <3>6, <3>8, ClimbLeft DEF d
    <3> QED
      BY <1>3, <3>8, <3>9 DEF ArrivesAt
  <2>9. CASE ~(i < h)
    <3> DEFINE d == ProofDepth[h][i - h]
    <3>1. i - h \in 0 .. (h - 1) /\ i \in 0 .. (x - 1)
      BY <1>5, <2>1, <2>2, <2>9
    <3>2. d \in Nat /\ ProofDepth[x][i] = 1 + d
      BY <1>5, <1>7, <2>2, <2>9, <3>1, ProofDepthIs
    <3>3. d <= D /\ d + 1 \in 1 .. D
      BY <1>4, <3>2
    <3>4. From(h, b + h, i - h, 2 * a + 1, t, f)
      <4> DEFINE ah == (2 * a) * h
      <4>1. ah \in Nat /\ a * x = ah /\ (2 * a + 1) * h = ah + h
        BY <2>5
      <4> HIDE DEF ah
      <4>2. a * x + i = (2 * a + 1) * h + (i - h)
        BY <1>5, <2>2, <4>1
      <4> QED
        BY <1>4, <2>1, <2>4, <2>6, <2>7, <2>9, <3>3, <4>2
    <3> HIDE DEF From
    <3>5. ArrivesAt(W, path, h, b + h, i - h, 2 * a + 1, t)
      BY <2>3, <3>4 DEF Ok
    <3>6. At(W[d], 2 * a + 1, t) /\ Reaches(W, path, h, b + h, i - h)
      BY <3>5 DEF ArrivesAt
    <3> HIDE DEF d
    <3>7. W[d + 1] = WalkStep(W[d], path[d + 1])
      <4>1. (d + 1) - 1 = d
        BY <3>2
      <4> QED
        BY <3>3, <4>1 DEF WalksUp
    <3>8. W[d + 1].current = inner_hash(path[d + 1], W[d].current) /\ At(W[d + 1], a, c)
      <4>1. IsStep(W[d], path[d + 1], W[d + 1])
        BY <3>7 DEF IsStep
      <4>2. BelowRight(W[d], a, c)
        BY <1>4, <2>7, <3>6 DEF BelowRight, At
      <4> QED
        BY <4>1, <4>2, StepFromRight
    <3>9. ProofDepth[x][i] = d + 1 /\ Reaches(W, path, x, b, i)
      BY <1>4, <1>7, <2>2, <2>9, <3>6, <3>8, ClimbRight DEF d
    <3> QED
      BY <1>3, <3>8, <3>9 DEF ArrivesAt
  <2> QED
    BY <2>8, <2>9
<1> QED
  BY <1>4, <1>6, <1>7

\* k ranges fit c times into each half of P.
LEMMA HalvesOfPower ==
  ASSUME NEW q \in Nat, NEW k \in Nat, NEW c \in Nat
  PROVE  LET j == q * c IN j \in Nat /\ q * (2 * (k * c)) = (2 * j) * k
<1>1. \A a, b \in Nat : a * b \in Nat /\ a * b = b * a
  OBVIOUS
<1>2. q * (2 * (k * c)) = 2 * (q * (k * c))
  OBVIOUS
<1>3. q * (k * c) = (q * c) * k
  OBVIOUS
<1> DEFINE j == q * c
<1>4. j \in Nat
  BY <1>1
<1>5. q * (2 * (k * c)) = 2 * (j * k)
  BY <1>2, <1>3
<1> HIDE DEF j
<1>6. 2 * (j * k) = (2 * j) * k
  BY <1>4
<1> QED
  BY <1>4, <1>5, <1>6 DEF j

\* On the right edge: the last n entries, where a full range would have P.
LEMMA EdgeIsSound ==
  ASSUME NEW W, NEW path, NEW D \in Nat, WalksUp(W, path, D),
         NEW n, NEW lo, NEW m, InLog(n, lo, m), ProofDepth[n][m] <= D,
         NEW P, Power(P), n <= P, NEW q \in Nat,
         At(W[0], q * P + m, q * P + (n - 1))
  PROVE  \E c : Power(c) /\ ArrivesAt(W, path, n, lo, m, q * c, q * c)
<1> DEFINE From(x, b, i, X, a) ==
             /\ InLog(x, b, i) /\ ProofDepth[x][i] <= D
             /\ Power(X) /\ x <= X /\ a \in Nat
             /\ At(W[0], a * X + i, a * X + (x - 1))
           Arrives(x, b, i, a) == \E c : Power(c) /\ ArrivesAt(W, path, x, b, i, a * c, a * c)
           Ok(x) == \A b, i, X, a : From(x, b, i, X, a) => Arrives(x, b, i, a)
           T == {x \in Nat : ~Ok(x)}
<1> SUFFICES ASSUME T # {} PROVE FALSE
  <2>1. n \in Nat /\ From(n, lo, m, P, q)
    BY LogTyped DEF InLog
  <2>2. Ok(n)
    BY <2>1
  <2> HIDE DEF From
  <2> QED
    BY <2>1, <2>2
<1>1. PICK x \in T : \A y \in T : x <= y
  BY SmallestNumber
<1>2. x \in Nat /\ ~Ok(x) /\ \A y \in Nat : y < x => Ok(y)
  BY <1>1
<1> HIDE DEF T
<1>3. PICK b, i, X, a : From(x, b, i, X, a) /\ ~Arrives(x, b, i, a)
  BY <1>2
<1> HIDE DEF Ok
<1>4. /\ InLog(x, b, i) /\ ProofDepth[x][i] <= D
      /\ Power(X) /\ X \in Nat \ {0} /\ x <= X /\ a \in Nat
      /\ At(W[0], a * X + i, a * X + (x - 1))
  BY <1>3 DEF Power
<1> HIDE DEF Arrives
<1>5. x \in 1 .. MaxSize /\ b \in 0 .. (MaxSize - x) /\ i \in 0 .. (x - 1) /\ MaxSize \in Nat
  BY <1>4, LogTyped DEF InLog
<1>6. CASE x = 1
  <2> DEFINE p == a * X
  <2>0. p \in Nat
    BY <1>4
  <2> HIDE DEF p
  <2>1. i = 0 /\ b \in 0 .. (MaxSize - 1) /\ p + i = p /\ p + (x - 1) = p
    BY <1>5, <1>6, <2>0
  <2>2. Reaches(W, path, x, b, i)
    BY <1>6, <2>1, ReachesLeaf
  <2>3. ProofDepth[x][i] = 0
    BY <1>6, <2>1, ProofDepthIs
  <2>4. At(W[0], p, p)
    BY <1>4, <2>1 DEF p
  <2>5. ArrivesAt(W, path, x, b, i, a * X, a * X)
    BY <2>2, <2>3, <2>4 DEF ArrivesAt, p
  <2> QED
    BY <1>3, <1>4, <2>5 DEF Arrives
<1>7. CASE x > 1
  <2> DEFINE k == LargestPowerBelow(x)
             l == x - k
  <2>1. /\ Power(k) /\ k \in Nat \ {0} /\ k < x /\ l \in Nat \ {0} /\ l < x /\ l <= k /\ x = k + l
        /\ i < k => InLog(k, b, i)
        /\ ~(i < k) => InLog(l, b + k, i - k)
    <3>1. Power(k) /\ l \in 1 .. k
      BY <1>2, <1>7, SplitBounds
    <3>2. /\ k \in Nat \ {0} /\ k < x /\ l \in Nat \ {0} /\ l < x /\ l = x - k
          /\ i < k => InLog(k, b, i)
          /\ ~(i < k) => InLog(l, b + k, i - k)
      BY <1>4, <1>7, PartsAreInLog
    <3> HIDE DEF k, l
    <3> QED
      BY <1>2, <3>1, <3>2
  <2>2. /\ i < k => ProofDepth[x][i] = 1 + ProofDepth[k][i]
        /\ ~(i < k) => ProofDepth[x][i] = 1 + ProofDepth[l][i - k]
    BY <1>5, <1>7, ProofDepthIs
  <2>k. k = LargestPowerBelow(x) /\ l = x - k
    OBVIOUS
  <2> HIDE DEF k, l
  <2>3. PICK c : Power(c) /\ X = 2 * (k * c)
    <3>1. k < X
      BY <1>2, <1>4, <2>1
    <3> QED
      BY <1>4, <2>1, <3>1, PowersDivide
  <2> DEFINE j == a * c
             even == 2 * j
             odd == 2 * j + 1
             at == even * k
  <2>4. j \in Nat /\ a * X = at
    <3>1. c \in Nat
      BY <2>3 DEF Power
    <3> QED
      BY <1>4, <2>1, <2>3, <3>1, HalvesOfPower
  <2>5. at \in Nat /\ odd * k = at + k
    BY <2>1, <2>4, Doubled
  <2>6. even \in Nat /\ odd \in Nat /\ even < odd /\ odd # even /\ j = odd \div 2
    BY <2>4
  <2>e. even = 2 * j /\ odd = 2 * j + 1 /\ at = even * k
    OBVIOUS
  <2> HIDE DEF even, odd, at
  <2>7. i < k => At(W[0], even * k + i, odd * k + (l - 1)) /\ l - 1 \in 0 .. (k - 1)
    <3>1. at + (x - 1) = odd * k + (l - 1) /\ l - 1 \in 0 .. (k - 1)
      BY <2>1, <2>5
    <3> QED
      BY <1>4, <2>4, <2>e, <3>1
  <2>8. ~(i < k) => At(W[0], odd * k + (i - k), odd * k + (l - 1))
    <3>1. at + (x - 1) = odd * k + (l - 1) /\ at + i = odd * k + (i - k)
      BY <1>5, <2>1, <2>5
    <3> QED
      BY <1>4, <2>4, <3>1
  <2>j. j = a * c
    OBVIOUS
  <2> HIDE DEF j
  <2>9. CASE i < k
    <3> DEFINE d == ProofDepth[k][i]
    <3>1. d \in Nat
      <4>1. i \in 0 .. (k - 1)
        BY <1>5, <2>1, <2>9
      <4> QED
        BY <2>1, <4>1, ProofDepthIs
    <3>2. d <= D /\ d + 1 \in 1 .. D
      BY <1>4, <2>2, <2>9, <3>1
    <3>3. ArrivesAt(W, path, k, b, i, even, odd)
      BY <2>1, <2>6, <2>7, <2>9, <3>2, InteriorIsSound
    <3>4. At(W[d], even, odd) /\ Reaches(W, path, k, b, i)
      BY <3>3 DEF ArrivesAt
    <3>d. d = ProofDepth[k][i]
      OBVIOUS
    <3> HIDE DEF d
    <3>5. W[d + 1] = WalkStep(W[d], path[d + 1])
      <4>1. (d + 1) - 1 = d
        BY <3>1
      <4> QED
        BY <3>2, <4>1 DEF WalksUp
    <3>6. W[d + 1].current = inner_hash(W[d].current, path[d + 1]) /\ At(W[d + 1], j, j)
      <4>1. IsStep(W[d], path[d + 1], W[d + 1])
        BY <3>5 DEF IsStep
      <4>2. BelowLeft(W[d], j, j)
        BY <2>4, <2>6, <2>e, <3>4 DEF BelowLeft, At
      <4> QED
        BY <4>1, <4>2, StepFromLeft
    <3>7. ProofDepth[x][i] = d + 1 /\ Reaches(W, path, x, b, i)
      BY <1>4, <1>7, <2>9, <2>k, <3>4, <3>6, <3>d, ClimbLeft
    <3>8. ArrivesAt(W, path, x, b, i, a * c, a * c)
      BY <2>j, <3>6, <3>7 DEF ArrivesAt
    <3> QED
      BY <1>3, <2>3, <3>8 DEF Arrives
  <2>10. CASE ~(i < k)
    <3> DEFINE d == ProofDepth[l][i - k]
    <3>1. d \in Nat
      <4>1. i - k \in 0 .. (l - 1)
        BY <1>5, <2>1, <2>10
      <4> QED
        BY <2>1, <4>1, ProofDepthIs
    <3>2. d <= D /\ d + 1 \in 1 .. D
      BY <1>4, <2>2, <2>10, <3>1
    <3>3. Arrives(l, b + k, i - k, odd)
      <4>1. From(l, b + k, i - k, k, odd)
        BY <2>1, <2>6, <2>8, <2>10, <3>2
      <4> HIDE DEF From
      <4>2. Ok(l)
        BY <1>2, <2>1
      <4> QED
        BY <4>1, <4>2 DEF Ok
    <3>4. PICK z : Power(z) /\ At(W[d], odd * z, odd * z) /\ Reaches(W, path, l, b + k, i - k)
      BY <3>3 DEF Arrives, ArrivesAt
    <3>d. d = ProofDepth[l][i - k]
      OBVIOUS
    <3> HIDE DEF d
    <3>5. W[d + 1] = WalkStep(W[d], path[d + 1])
      <4>1. (d + 1) - 1 = d
        BY <3>1
      <4> QED
        BY <3>2, <4>1 DEF WalksUp
    <3>6. W[d + 1].current = inner_hash(path[d + 1], W[d].current) /\ At(W[d + 1], j, j)
      <4>1. IsStep(W[d], path[d + 1], W[d + 1])
        BY <3>5 DEF IsStep
      <4>2. BelowEdge(W[d], j)
        BY <2>4, <2>e, <3>4, Zenon DEF BelowEdge
      <4> QED
        BY <4>1, <4>2, StepFromEdge
    <3>7. ProofDepth[x][i] = d + 1 /\ Reaches(W, path, x, b, i)
      BY <1>4, <1>7, <2>10, <2>k, <3>4, <3>6, <3>d, ClimbRight
    <3>8. ArrivesAt(W, path, x, b, i, a * c, a * c)
      BY <2>j, <3>6, <3>7 DEF ArrivesAt
    <3> QED
      BY <1>3, <2>3, <3>8 DEF Arrives
  <2> QED
    BY <2>9, <2>10
<1> QED
  BY <1>5, <1>6, <1>7

-----------------------------------------------------------------------------
(* The verdict.                                                            *)

Accepted(n, path, index, leaf, payload) ==
  verify_rekor_inclusion([leaf_hash |-> leaf, proof_path |-> path, index |-> index, tree_size |-> n],
                         payload, MTH[n][0]) = "Ok"

\* Against the root of the first n entries of the log, the verifier accepts for each index
\* the one leaf the log holds there and the one path RFC 9162 defines, and nothing else
\* (verify_rekor_inclusion with its depth check and its walk).
THEOREM OnlyTheProofIsAccepted ==
  ASSUME NEW n \in 1 .. MaxSize, NEW S, NEW path \in Seq(S), NEW index \in Nat, NEW leaf, NEW payload
  PROVE  Accepted(n, path, index, leaf, payload)
           <=> /\ index < n
               /\ path = PATH[n][0][index]
               /\ leaf = leaf_hash(index + 1)
               /\ leaf = payload
<1> DEFINE entry == [leaf_hash |-> leaf, proof_path |-> path, index |-> index, tree_size |-> n]
           L == Len(path)
           depth == ProofDepth[n][index]
           valid == PATH[n][0][index]
           same == L = depth /\ \A i \in 1 .. depth : path[i] = valid[i]
<1>0. /\ entry.leaf_hash = leaf /\ entry.proof_path = path /\ entry.index = index /\ entry.tree_size = n
      /\ L \in Nat /\ n \in Nat /\ n > 0 /\ n <= MaxSize /\ MaxSize \in Nat \ {0}
  BY LogTyped
<1>1. Accepted(n, path, index, leaf, payload)
        <=> /\ index < n
            /\ L <= MAX_INCLUSION_DEPTH
            /\ L = depth
            /\ leaf = payload
            /\ WalkedRoot(entry) = MTH[n][0]
  <2>1. Accepted(n, path, index, leaf, payload) <=> verify_rekor_inclusion(entry, payload, MTH[n][0]) = "Ok"
    BY DEF Accepted
  <2> HIDE DEF entry
  <2> QED
    BY <1>0, <2>1 DEF verify_rekor_inclusion, expected_proof_depth
<1> SUFFICES ASSUME index < n
             PROVE  /\ L <= MAX_INCLUSION_DEPTH
                    /\ L = depth
                    /\ leaf = payload
                    /\ WalkedRoot(entry) = MTH[n][0]
                    <=> /\ path = valid
                        /\ leaf = leaf_hash(index + 1)
                        /\ leaf = payload
  <2> HIDE DEF entry, depth, valid
  <2> QED
    BY <1>1 DEF entry, valid
<1>2. InLog(n, 0, index)
  BY <1>0 DEF InLog
<1>3. valid \in Seq(Hashes) /\ Len(valid) = depth
  BY <1>2, PathsFit
<1>4. depth \in Nat /\ depth <= MAX_INCLUSION_DEPTH
  <2>1. index \in 0 .. (n - 1) /\ n \in Nat \ {0}
    BY <1>0
  <2>2. depth \in Nat
    BY <2>1, ProofDepthIs
  <2>3. expected_proof_depth(0, MaxSize) \in Nat
    <3>1. 0 \in 0 .. (MaxSize - 1)
      BY <1>0
    <3> QED
      BY <1>0, <3>1, ProofDepthIs DEF expected_proof_depth
  <2>4. depth <= expected_proof_depth(0, MaxSize)
    BY <1>0, <2>1, LeftmostIsDeepest DEF expected_proof_depth
  <2> HIDE DEF depth
  <2> QED
    BY <2>2, <2>3, <2>4, ProofsFit DEF MAX_INCLUSION_DEPTH
<1> HIDE DEF entry, depth, valid
<1>5. path = valid <=> same
  <2>1. path = valid => same
    BY <1>3
  <2>2. ASSUME same PROVE path = valid
    <3>1. path = [i \in 1 .. L |-> path[i]] /\ valid = [i \in 1 .. depth |-> valid[i]]
      BY <1>3
    <3> QED
      BY <2>2, <3>1
  <2> QED
    BY <2>1, <2>2
<1>6. ASSUME L = depth
      PROVE  WalkedRoot(entry) = MTH[n][0]
               <=> leaf = leaf_hash(index + 1) /\ \A i \in 1 .. depth : path[i] = valid[i]
  <2>1. PICK W : /\ W[0] = [current |-> leaf, fn |-> index, sn |-> n - 1]
                 /\ WalksUp(W, path, L)
                 /\ WalkedRoot(entry) = W[L].current
    BY <1>0, WalkedRootIs
  <2> DEFINE P == 2 * HighestBit[n]
  <2>2. Power(P) /\ n <= P
    <3>1. Power(HighestBit[n]) /\ n < 2 * HighestBit[n] /\ HighestBit[n] \in Nat
      BY <1>0, HighestBitBounds DEF Power
    <3> QED
      BY <1>0, <3>1, PowersDouble
  <2> HIDE DEF P
  <2>3. At(W[0], 0 * P + index, 0 * P + (n - 1))
    <3>1. 0 * P + index = index /\ 0 * P + (n - 1) = n - 1
      BY <1>0, <2>2 DEF Power
    <3> QED
      BY <2>1, <3>1 DEF At
  <2>4. Reaches(W, path, n, 0, index)
    <3>1. ProofDepth[n][index] <= L /\ 0 \in Nat
      BY <1>0, <1>6 DEF depth
    <3>2. \E c : Power(c) /\ ArrivesAt(W, path, n, 0, index, 0 * c, 0 * c)
      BY <1>0, <1>2, <2>1, <2>2, <2>3, <3>1, EdgeIsSound
    <3> QED
      BY <3>2 DEF ArrivesAt
  <2>5. W[0].current = leaf /\ 0 + index + 1 = index + 1
    BY <2>1
  <2> QED
    BY <1>6, <2>1, <2>4, <2>5, Zenon DEF Reaches, depth, valid
<1> QED
  BY <1>4, <1>5, <1>6

-----------------------------------------------------------------------------
(* The invariants, for every log, set of keys and order of announcements.  *)

Entries == [log_id : {ThisLog}, key : Keys, valid_from : 0 .. MaxTime, valid_until : 0 .. MaxTime]

\* The registry is the schedule, in the order of the windows.
RegistryIsSchedule ==
  /\ registry \in Seq(Entries)
  /\ DOMAIN schedule \subseteq Keys
  /\ \A k \in DOMAIN schedule :
       /\ schedule[k].from \in 0 .. MaxTime /\ schedule[k].until \in 0 .. MaxTime
       /\ \E i \in DOMAIN registry : registry[i].key = k
  /\ \A i \in DOMAIN registry :
       /\ registry[i].key \in DOMAIN schedule
       /\ registry[i].valid_from = schedule[registry[i].key].from
       /\ registry[i].valid_until = schedule[registry[i].key].until
  /\ \A i, j \in DOMAIN registry : i < j => registry[i].valid_from < registry[j].valid_from

\* Key k was the signing key when the head was made, and still is the one of the
\* schedule that opened last before it.
SignedBy(head, k) ==
  /\ head.log_id = ThisLog
  /\ head.timestamp \in 0 .. now
  /\ k \in DOMAIN schedule
  /\ head.timestamp \in schedule[k].from .. schedule[k].until
  /\ \A j \in DOMAIN schedule : schedule[j].from <= head.timestamp => schedule[j].from <= schedule[k].from
  /\ head.signature = {[pk |-> k, tbs |-> canonical_bytes(head)]}

\* The head states the root of a prefix of the log.
IsHead(head) ==
  /\ head.tree_size \in 1 .. size
  /\ head = [log_id |-> ThisLog, tree_size |-> head.tree_size, tree_root |-> MTH[head.tree_size][0],
             timestamp |-> head.timestamp, signature |-> head.signature]

\* The inductive invariant: HeadsVerifyExactlyWhileFresh speaks of the registry
\* alone and says nothing of the announcements to come.
IInv ==
  /\ size \in 1 .. MaxSize
  /\ now \in 0 .. MaxTime
  /\ RegistryIsSchedule
  /\ IsFiniteSet(heads) /\ Cardinality(heads) <= MaxHeads
  /\ \A head \in heads : IsHead(head)
  /\ \A head \in heads : \E k \in DOMAIN schedule : SignedBy(head, k)

\* insert_checked appends a key it does not know.
LEMMA NewKeyIsAppended ==
  ASSUME RegistryIsSchedule, NEW k \in Keys, NEW from \in 0 .. MaxTime, NEW until \in 0 .. MaxTime,
         k \notin DOMAIN schedule, from <= until,
         \A j \in DOMAIN schedule : schedule[j].from < from,
         schedule' = [j \in DOMAIN schedule \cup {k} |->
                        IF j = k THEN [from |-> from, until |-> until] ELSE schedule[j]],
         registry' = insert_checked(registry, [log_id |-> ThisLog, key |-> k,
                                               valid_from |-> from, valid_until |-> until])
  PROVE  RegistryIsSchedule'
<1> DEFINE e == [log_id |-> ThisLog, key |-> k, valid_from |-> from, valid_until |-> until]
           n == Len(registry)
<1>1. e \in Entries /\ e.key = k /\ e.valid_from = from /\ e.valid_until = until
  BY DEF Entries
<1>2. registry' = Append(registry, e)
  BY <1>1 DEF insert_checked, RegistryIsSchedule
<1>3. /\ registry \in Seq(Entries) /\ n \in Nat /\ DOMAIN registry = 1 .. n
      /\ \A i \in 1 .. n : registry[i] \in Entries
  BY DEF RegistryIsSchedule
<1> HIDE DEF e
<1>4. /\ registry' \in Seq(Entries) /\ DOMAIN registry' = 1 .. (n + 1)
      /\ \A i \in 1 .. n : registry'[i] = registry[i]
      /\ registry'[n + 1] = e
  BY <1>1, <1>2, <1>3
<1>5. /\ DOMAIN schedule' = DOMAIN schedule \cup {k}
      /\ schedule'[k].from = from /\ schedule'[k].until = until
      /\ \A j \in DOMAIN schedule : schedule'[j] = schedule[j]
  OBVIOUS
<1>6. \A i \in 1 .. n : /\ registry[i].key \in DOMAIN schedule
                        /\ registry[i].valid_from = schedule[registry[i].key].from
                        /\ registry[i].valid_until = schedule[registry[i].key].until
                        /\ registry[i].valid_from < from
  BY <1>3 DEF RegistryIsSchedule
<1>7. \A i \in 1 .. (n + 1) : i \in 1 .. n \/ i = n + 1
  BY <1>3
<1> HIDE DEF n
<1>8. ASSUME NEW j \in DOMAIN schedule'
      PROVE  /\ schedule'[j].from \in 0 .. MaxTime /\ schedule'[j].until \in 0 .. MaxTime
             /\ \E i \in DOMAIN registry' : registry'[i].key = j
  <2>1. CASE j = k
    <3>1. n + 1 \in DOMAIN registry'
      BY <1>3, <1>4
    <3> QED
      BY <1>1, <1>4, <1>5, <2>1, <3>1
  <2>2. CASE j # k
    <3>1. j \in DOMAIN schedule
      BY <1>5, <2>2
    <3>2. PICK i \in 1 .. n : registry[i].key = j
      BY <1>3, <3>1 DEF RegistryIsSchedule
    <3>3. i \in DOMAIN registry' /\ registry'[i] = registry[i]
      BY <1>3, <1>4
    <3> QED
      BY <1>5, <3>1, <3>2, <3>3 DEF RegistryIsSchedule
  <2> QED
    BY <2>1, <2>2
<1>9. ASSUME NEW i \in DOMAIN registry'
      PROVE  /\ registry'[i].key \in DOMAIN schedule'
             /\ registry'[i].valid_from = schedule'[registry'[i].key].from
             /\ registry'[i].valid_until = schedule'[registry'[i].key].until
  <2>1. CASE i \in 1 .. n
    <3>1. registry'[i] = registry[i] /\ registry[i].key \in DOMAIN schedule
      BY <1>4, <1>6, <2>1
    <3> QED
      BY <1>5, <1>6, <2>1, <3>1
  <2>2. CASE i = n + 1
    BY <1>1, <1>4, <1>5, <2>2
  <2> QED
    BY <1>4, <1>7, <2>1, <2>2
<1>10. ASSUME NEW i \in DOMAIN registry', NEW j \in DOMAIN registry', i < j
       PROVE  registry'[i].valid_from < registry'[j].valid_from
  <2>1. i \in 1 .. n
    BY <1>3, <1>4, <1>10
  <2>2. CASE j \in 1 .. n
    BY <1>3, <1>4, <1>10, <2>1, <2>2 DEF RegistryIsSchedule
  <2>3. CASE j = n + 1
    BY <1>1, <1>4, <1>6, <2>1, <2>3
  <2> QED
    BY <1>4, <1>7, <2>2, <2>3
<1>11. DOMAIN schedule' \subseteq Keys
  BY <1>5 DEF RegistryIsSchedule
<1> QED
  BY <1>4, <1>8, <1>9, <1>10, <1>11 DEF RegistryIsSchedule, Entries

\* insert_checked leaves a key it knows alone.
LEMMA KnownKeyIsKept ==
  ASSUME RegistryIsSchedule, NEW k \in DOMAIN schedule, NEW from, NEW until
  PROVE  insert_checked(registry, [log_id |-> ThisLog, key |-> k,
                                   valid_from |-> from, valid_until |-> until]) = registry
<1>1. PICK i \in DOMAIN registry : registry[i].key = k
  BY DEF RegistryIsSchedule
<1>2. registry[i] \in Entries
  BY <1>1 DEF RegistryIsSchedule
<1>3. registry[i].log_id = ThisLog
  BY <1>2 DEF Entries
<1> QED
  BY <1>1, <1>3 DEF insert_checked

\* The registry resolves a signed head's time to the key that signed it
\* (find_for_timestamp).
LEMMA ResolvesToSigner ==
  ASSUME RegistryIsSchedule, now \in 0 .. MaxTime, NEW head, NEW k, SignedBy(head, k)
  PROVE  find_for_timestamp(registry, ThisLog, head.timestamp) = {k}
<1> DEFINE ts == head.timestamp
           active == Covering(registry, ThisLog, ts)
           newest == {i \in active : \A j \in active : registry[j].valid_from <= registry[i].valid_from}
<1>1. /\ ts \in Int /\ k \in DOMAIN schedule
      /\ schedule[k].from <= ts /\ ts <= schedule[k].until
      /\ \A j \in DOMAIN schedule : schedule[j].from <= ts => schedule[j].from <= schedule[k].from
      /\ \A j \in DOMAIN schedule : schedule[j].from \in Int /\ schedule[j].until \in Int
  BY LogTyped DEF SignedBy, RegistryIsSchedule
<1>2. PICK i \in DOMAIN registry : registry[i].key = k
  BY <1>1 DEF RegistryIsSchedule
<1>3. /\ DOMAIN registry \subseteq Nat
      /\ \A j \in DOMAIN registry : /\ registry[j].log_id = ThisLog
                                    /\ registry[j].key \in DOMAIN schedule
                                    /\ registry[j].valid_from = schedule[registry[j].key].from
                                    /\ registry[j].valid_until = schedule[registry[j].key].until
                                    /\ registry[j].valid_from \in Int
      /\ \A j, l \in DOMAIN registry : j < l => registry[j].valid_from < registry[l].valid_from
  <2>1. DOMAIN registry \subseteq Nat /\ \A j \in DOMAIN registry : registry[j] \in Entries
    BY DEF RegistryIsSchedule
  <2>2. ASSUME NEW j \in DOMAIN registry PROVE registry[j].log_id = ThisLog
    BY <2>1 DEF Entries
  <2>3. ASSUME NEW j \in DOMAIN registry
        PROVE  /\ registry[j].key \in DOMAIN schedule
               /\ registry[j].valid_from = schedule[registry[j].key].from
               /\ registry[j].valid_until = schedule[registry[j].key].until
               /\ registry[j].valid_from \in Int
    BY <1>1 DEF RegistryIsSchedule
  <2>4. \A j, l \in DOMAIN registry : j < l => registry[j].valid_from < registry[l].valid_from
    BY DEF RegistryIsSchedule
  <2> QED
    BY <2>1, <2>2, <2>3, <2>4
<1> HIDE DEF ts
<1>4. i \in active
  BY <1>1, <1>2, <1>3 DEF Covering
<1>5. \A j \in active : j \in DOMAIN registry /\ registry[j].valid_from <= registry[i].valid_from
  BY <1>1, <1>2, <1>3 DEF Covering
<1> HIDE DEF active
<1>6. newest = {i}
  <2>1. i \in newest
    BY <1>4, <1>5
  <2>2. ASSUME NEW j \in newest PROVE j = i
    <3>1. j \in DOMAIN registry /\ registry[i].valid_from = registry[j].valid_from
      BY <1>2, <1>3, <1>4, <1>5
    <3> QED
      BY <1>2, <1>3, <3>1
  <2> QED
    BY <2>1, <2>2
<1> HIDE DEF newest
<1>7. Max(newest) = i
  <2>1. i \in Int
    BY <1>2, <1>3
  <2> QED
    BY <1>6, <2>1 DEF Max
<1> QED
  BY <1>2, <1>4, <1>7 DEF find_for_timestamp, active, newest, ts

\* The invariant holds throughout.
THEOREM InvHolds == Spec => []IInv
<1>1. Init => IInv
  <2> SUFFICES ASSUME Init PROVE IInv
    OBVIOUS
  <2>1. PICK until \in 0 .. MaxTime :
          /\ schedule = [k \in {FirstKey} |-> [from |-> 0, until |-> until]]
          /\ registry = insert_checked(<<>>, [log_id |-> ThisLog, key |-> FirstKey,
                                              valid_from |-> 0, valid_until |-> until])
    BY DEF Init
  <2> DEFINE e == [log_id |-> ThisLog, key |-> FirstKey, valid_from |-> 0, valid_until |-> until]
  <2>2. registry = <<e>>
    BY <2>1, LogTyped DEF insert_checked
  <2>3. e \in Entries /\ e.key = FirstKey /\ e.valid_from = 0 /\ e.valid_until = until
    BY LogTyped DEF Entries
  <2>4. /\ DOMAIN schedule = {FirstKey}
        /\ schedule[FirstKey].from = 0 /\ schedule[FirstKey].until = until
    BY <2>1
  <2> HIDE DEF e
  <2>5. registry \in Seq(Entries) /\ DOMAIN registry = {1} /\ registry[1] = e
    BY <2>2, <2>3
  <2>6. RegistryIsSchedule
    BY <2>3, <2>4, <2>5, LogTyped DEF RegistryIsSchedule
  <2> QED
    BY <2>6, FS_EmptySet, LogTyped DEF Init, IInv
<1>2. IInv /\ [Next]_vars => IInv'
  <2> SUFFICES ASSUME IInv, [Next]_vars PROVE IInv'
    OBVIOUS
  <2>1. ASSUME UNCHANGED <<schedule, registry, heads>>, size' \in 1 .. MaxSize, size' >= size,
               now' \in 0 .. MaxTime, now' >= now
        PROVE  IInv'
    <3>1. ASSUME NEW head, NEW k, SignedBy(head, k) PROVE SignedBy(head, k)'
      BY <2>1, <3>1, LogTyped DEF SignedBy, IInv
    <3>2. RegistryIsSchedule'
      BY <2>1 DEF IInv, RegistryIsSchedule, Entries
    <3>3. ASSUME NEW head, IsHead(head) PROVE IsHead(head)'
      <4>1. head.tree_size \in 1 .. size'
        BY <2>1, <3>3, LogTyped DEF IsHead, IInv
      <4> QED
        BY <3>3, <4>1, Zenon DEF IsHead
    <3> QED
      BY <2>1, <3>1, <3>2, <3>3 DEF IInv
  <2>2. CASE Tick
    BY <2>1, <2>2, LogTyped DEF Tick, IInv
  <2>3. CASE Append1
    BY <2>1, <2>3, LogTyped DEF Append1, IInv
  <2>4. CASE EmitHead
    <3>1. PICK k \in SigningKeys :
            LET head == [log_id |-> ThisLog, tree_size |-> size, tree_root |-> MTH[size][0],
                         timestamp |-> now, signature |-> {}]
            IN  heads' = heads \cup {[head EXCEPT !.signature = {[pk |-> k, tbs |-> canonical_bytes(head)]}]}
      BY <2>4 DEF EmitHead
    <3> DEFINE bare == [log_id |-> ThisLog, tree_size |-> size, tree_root |-> MTH[size][0],
                        timestamp |-> now, signature |-> {}]
               head == [bare EXCEPT !.signature = {[pk |-> k, tbs |-> canonical_bytes(bare)]}]
    <3>2. heads' = heads \cup {head}
      BY <3>1
    <3>3. SignedBy(head, k)
      BY LogTyped DEF SignedBy, SigningKeys, canonical_bytes, IInv
    <3>h. IsHead(head)
      <4> DEFINE sig == {[pk |-> k, tbs |-> canonical_bytes(bare)]}
                 root == MTH[size][0]
                 made == [log_id |-> ThisLog, tree_size |-> size, tree_root |-> root,
                          timestamp |-> now, signature |-> sig]
      <4>1. head = [[log_id |-> ThisLog, tree_size |-> size, tree_root |-> root,
                     timestamp |-> now, signature |-> {}] EXCEPT !.signature = sig]
        OBVIOUS
      <4>2. size \in 1 .. size
        BY LogTyped DEF IInv
      <4>3. root = MTH[size][0]
        OBVIOUS
      <4> HIDE DEF sig, root, head, bare
      <4>4. head = made
        BY <4>1
      <4>5. /\ made.tree_size = size /\ made.timestamp = now /\ made.signature = sig
        OBVIOUS
      <4>6. made = [log_id |-> ThisLog, tree_size |-> made.tree_size, tree_root |-> MTH[made.tree_size][0],
                    timestamp |-> made.timestamp, signature |-> made.signature]
        BY <4>3, <4>5, Zenon
      <4> HIDE DEF made
      <4> QED
        BY <4>2, <4>4, <4>5, <4>6, Zenon DEF IsHead
    <3> HIDE DEF head
    <3>4. UNCHANGED <<size, now, schedule, registry>> /\ Cardinality(heads) < MaxHeads
      BY <2>4 DEF EmitHead
    <3>5. IsFiniteSet(heads') /\ Cardinality(heads') <= MaxHeads
      <4>1. Cardinality(heads) \in Nat
        BY FS_CardinalityType DEF IInv
      <4> QED
        BY <3>2, <3>4, <4>1, FS_AddElement, LogTyped DEF IInv
    <3>6. RegistryIsSchedule'
      BY <3>4 DEF IInv, RegistryIsSchedule, Entries
    <3>7. \A h \in heads' : \E j \in DOMAIN schedule : SignedBy(h, j)
      BY <3>2, <3>3 DEF IInv, SignedBy
    <3>8. \A h \in heads' : \E j \in DOMAIN schedule' : SignedBy(h, j)'
      BY <3>4, <3>7 DEF SignedBy
    <3>9. \A h \in heads' : IsHead(h)'
      BY <3>2, <3>4, <3>h DEF IInv, IsHead
    <3> QED
      BY <3>4, <3>5, <3>6, <3>8, <3>9 DEF IInv
  <2>5. ASSUME NEW k \in Keys, NEW from \in 0 .. MaxTime, NEW until \in 0 .. MaxTime,
               Announce(k, from, until)
        PROVE  IInv'
    <3> DEFINE e == [log_id |-> ThisLog, key |-> k, valid_from |-> from, valid_until |-> until]
    <3>1. from > now /\ registry' = insert_checked(registry, e) /\ UNCHANGED <<size, now, heads>>
      BY <2>5 DEF Announce
    <3>2. CASE k \in DOMAIN schedule /\ schedule' = schedule
      <4>1. registry' = registry
        BY <3>1, <3>2, KnownKeyIsKept DEF IInv
      <4> QED
        BY <2>1, <3>1, <3>2, <4>1, LogTyped DEF IInv
    <3>3. CASE /\ k \notin DOMAIN schedule
               /\ from <= until
               /\ \A j \in DOMAIN schedule : schedule[j].from < from
               /\ schedule' = [j \in DOMAIN schedule \cup {k} |->
                                 IF j = k THEN [from |-> from, until |-> until] ELSE schedule[j]]
      <4>1. RegistryIsSchedule'
        BY <3>1, <3>3, NewKeyIsAppended DEF IInv
      <4>2. /\ DOMAIN schedule' = DOMAIN schedule \cup {k} /\ schedule'[k].from = from
            /\ \A j \in DOMAIN schedule : schedule'[j] = schedule[j]
        BY <3>3
      <4>3. ASSUME NEW head, NEW j, SignedBy(head, j) PROVE SignedBy(head, j)'
        <5>1. /\ head.timestamp \in Int /\ head.timestamp <= now
              /\ now \in Int /\ from \in Int /\ ~(from <= head.timestamp)
          BY <3>1, <4>3, LogTyped DEF SignedBy, IInv
        <5>2. \A i \in DOMAIN schedule' :
                schedule'[i].from <= head.timestamp => schedule'[i].from <= schedule'[j].from
          BY <4>2, <4>3, <5>1 DEF SignedBy
        <5> QED
          BY <3>1, <4>2, <4>3, <5>2 DEF SignedBy
      <4>4. \A h \in heads' : IsHead(h)'
        BY <3>1 DEF IInv, IsHead
      <4> QED
        BY <3>1, <4>1, <4>2, <4>3, <4>4 DEF IInv
    <3> QED
      BY <2>5, <3>2, <3>3 DEF Announce
  <2>6. CASE UNCHANGED vars
    BY <2>1, <2>6, LogTyped DEF vars, IInv
  <2> QED
    BY <2>2, <2>3, <2>4, <2>5, <2>6 DEF Next
<1> QED
  BY <1>1, <1>2, PTL DEF Spec

\* The verifier's registry and the log keep their types, and the registry is in
\* the order of its windows, with one entry per key (insert_checked).
THEOREM TypeCorrect == Spec => []TypeOK
<1>1. IInv => TypeOK
  BY DEF IInv, RegistryIsSchedule, TypeOK, Entries
<1> QED
  BY <1>1, InvHolds, PTL

\* However many keys are announced and however often, a signed head verifies as
\* long as it is fresh and no longer (verify_rekor_sth, find_for_timestamp).
THEOREM FreshHeadsVerify == Spec => []HeadsVerifyExactlyWhileFresh
<1>1. IInv => HeadsVerifyExactlyWhileFresh
  <2> SUFFICES ASSUME IInv, NEW head \in heads
               PROVE  (verify_rekor_sth(head, registry, now, MaxAge) = "Ok")
                        <=> (now - head.timestamp <= MaxAge)
    BY DEF HeadsVerifyExactlyWhileFresh
  <2>1. PICK k \in DOMAIN schedule : SignedBy(head, k)
    BY DEF IInv
  <2>2. find_for_timestamp(registry, head.log_id, head.timestamp) = {k}
    BY <2>1, ResolvesToSigner DEF IInv, SignedBy
  <2>3. /\ head.timestamp \in Int /\ now \in Int /\ MaxAge \in Int
        /\ ~(head.timestamp > now)
        /\ head.signature # {}
        /\ head.signature = {[pk |-> k, tbs |-> canonical_bytes(head)]}
    BY <2>1, LogTyped DEF IInv, SignedBy
  <2> DEFINE stale == now - head.timestamp > MaxAge
  <2>4. verify_rekor_sth(head, registry, now, MaxAge) = IF stale THEN "RekorSthStale" ELSE "Ok"
    BY <2>2, <2>3, Zenon DEF verify_rekor_sth
  <2>5. stale <=> ~(now - head.timestamp <= MaxAge)
    BY <2>3
  <2> HIDE DEF stale
  <2> QED
    BY <2>4, <2>5
<1> QED
  BY <1>1, InvHolds, PTL

\* Without a key, whatever is changed in a signed head, what still verifies states the
\* same tree (canonical_bytes, verify_rekor_sth).
LEMMA AlteredHeadsStateTheSameTree ==
  ASSUME IInv, NEW signed \in heads, NEW head \in Altered(signed),
         verify_rekor_sth(head, registry, now, MaxAge) = "Ok"
  PROVE  head.tree_size = signed.tree_size /\ head.tree_root = signed.tree_root
<1>1. PICK k : SignedBy(signed, k)
  BY DEF IInv
<1>2. IsHead(signed)
  BY DEF IInv
<1>3. head.signature = signed.signature
  BY <1>2 DEF Altered, IsHead
<1>4. signed.signature = {[pk |-> k, tbs |-> canonical_bytes(signed)]}
  BY <1>1 DEF SignedBy
<1>5. PICK j : head.signature = {[pk |-> j, tbs |-> canonical_bytes(head)]}
  <2> DEFINE keys == find_for_timestamp(registry, head.log_id, head.timestamp)
  <2>1. ~(\A i \in keys : head.signature # {[pk |-> i, tbs |-> canonical_bytes(head)]})
    <3>1. /\ "RekorProofInvalid" # "Ok" /\ "RekorLogUntrusted" # "Ok"
      OBVIOUS
    <3> HIDE DEF keys
    <3> QED
      BY <3>1, Zenon DEF verify_rekor_sth, keys
  <2> HIDE DEF keys
  <2> QED
    BY <2>1
<1>6. canonical_bytes(head) = canonical_bytes(signed)
  <2>1. [pk |-> j, tbs |-> canonical_bytes(head)] = [pk |-> k, tbs |-> canonical_bytes(signed)]
    BY <1>3, <1>4, <1>5, Zenon
  <2>2. [pk |-> j, tbs |-> canonical_bytes(head)].tbs = [pk |-> k, tbs |-> canonical_bytes(signed)].tbs
    BY <2>1, Zenon
  <2> QED
    BY <2>2
<1> QED
  BY <1>6 DEF canonical_bytes

\* A leaf that verifies against a head that verifies is the entry the log holds at the
\* claimed index, whatever the presenter made of the head and of the index
\* (verify_rekor_sth, verify_rekor_inclusion).
THEOREM OnlyLoggedLeavesVerify == Spec => []VerifiedLeavesAreLogged
<1>1. IInv => VerifiedLeavesAreLogged
  <2> SUFFICES ASSUME IInv, NEW signed \in heads, NEW head \in Altered(signed),
                      verify_rekor_sth(head, registry, now, MaxAge) = "Ok",
                      NEW m \in 0 .. (signed.tree_size - 1), NEW index \in 0 .. MaxSize,
                      NEW leaf \in {leaf_hash(m + 1), leaf_hash(0)},
                      verify_rekor_inclusion([leaf_hash |-> leaf, proof_path |-> PATH[signed.tree_size][0][m],
                                              index |-> index, tree_size |-> head.tree_size],
                                             leaf, head.tree_root) = "Ok"
               PROVE  index < size /\ leaf = leaf_hash(index + 1)
    BY DEF VerifiedLeavesAreLogged
  <2> DEFINE n == signed.tree_size
             path == PATH[n][0][m]
  <2>1. n \in 1 .. size /\ size \in 1 .. MaxSize /\ signed.tree_root = MTH[n][0]
    BY DEF IInv, IsHead
  <2>2. n \in 1 .. MaxSize /\ MaxSize \in Nat
    BY <2>1, LogTyped
  <2>3. path \in Seq(Hashes)
    <3>1. InLog(n, 0, m)
      BY <2>2 DEF InLog
    <3> QED
      BY <3>1, PathsFit
  <2>4. head.tree_size = n /\ head.tree_root = MTH[n][0]
    BY <2>1, AlteredHeadsStateTheSameTree
  <2>5. Accepted(n, path, index, leaf, leaf)
    BY <2>4 DEF Accepted
  <2> HIDE DEF n, path
  <2>6. index \in Nat
    BY <2>2
  <2>7. index < n /\ leaf = leaf_hash(index + 1)
    BY <2>2, <2>3, <2>5, <2>6, OnlyTheProofIsAccepted
  <2> QED
    BY <2>1, <2>6, <2>7
<1> QED
  BY <1>1, InvHolds, PTL

\* Every entry a head covers can be proved against it with the path of RFC 9162, whatever
\* the shape of the tree (expected_proof_depth, verify_rekor_inclusion).
THEOREM EveryEntryCanBeProved == Spec => []LoggedEntriesCanBeProved
<1>1. IInv => LoggedEntriesCanBeProved
  <2> SUFFICES ASSUME IInv, NEW head \in heads, NEW m \in 0 .. (head.tree_size - 1)
               PROVE  verify_rekor_inclusion([leaf_hash |-> leaf_hash(m + 1),
                                              proof_path |-> PATH[head.tree_size][0][m],
                                              index |-> m, tree_size |-> head.tree_size],
                                             leaf_hash(m + 1), head.tree_root) = "Ok"
    BY DEF LoggedEntriesCanBeProved
  <2> DEFINE n == head.tree_size
             path == PATH[n][0][m]
             leaf == leaf_hash(m + 1)
  <2>1. n \in 1 .. size /\ size \in 1 .. MaxSize /\ head.tree_root = MTH[n][0]
    BY DEF IInv, IsHead
  <2>2. n \in 1 .. MaxSize /\ MaxSize \in Nat /\ m \in Nat /\ m < n
    BY <2>1, LogTyped
  <2>3. path \in Seq(Hashes)
    <3>1. InLog(n, 0, m)
      BY <2>2 DEF InLog
    <3> QED
      BY <3>1, PathsFit
  <2>p. path = PATH[n][0][m] /\ leaf = leaf_hash(m + 1)
    OBVIOUS
  <2> HIDE DEF n, path, leaf
  <2>4. Accepted(n, path, m, leaf, leaf)
    BY <2>2, <2>3, <2>p, OnlyTheProofIsAccepted
  <2> QED
    BY <2>1, <2>4 DEF Accepted, n, path, leaf
<1> QED
  BY <1>1, InvHolds, PTL
=============================================================================
