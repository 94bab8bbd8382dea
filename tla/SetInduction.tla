---------------------------- MODULE SetInduction ----------------------------
(***************************************************************************)
(* Induction and recursion over the natural numbers, stated with sets and  *)
(* functions.  The theorems of NaturalsInduction take an operator as a     *)
(* parameter, for which the provers find no instance; a set or a function  *)
(* in its place is an ordinary term.  Everything comes from the fact that  *)
(* the natural numbers are well ordered.  At the end, for sorting and      *)
(* filtering: the places of the elements of a finite set in an order.      *)
(***************************************************************************)
EXTENDS Integers, FiniteSetTheorems, WellFoundedInduction, TLAPS

\* A set of natural numbers that is not empty has a least element.
LEMMA LeastElement ==
  ASSUME NEW T, T \subseteq Nat, T # {}
  PROVE  \E x \in T : \A y \in T : x <= y
<1> DEFINE R == {ss \in Nat \X Nat : ss[1] < ss[2]}
<1>1. IsWellFoundedOn(R, Nat)
  BY NatLessThanWellFounded DEF OpToRel
<1>2. \A x, y \in Nat : <<y, x>> \notin R => x <= y
  <2> SUFFICES ASSUME NEW x \in Nat, NEW y \in Nat, <<y, x>> \notin R PROVE x <= y
    OBVIOUS
  <2>1. ~ (y < x)
    OBVIOUS
  <2> QED
    BY <2>1
<1> HIDE DEF R
<1>3. PICK x \in T : \A y \in T : <<y, x>> \notin R
  BY <1>1, WFMin
<1> QED
  BY <1>2, <1>3

\* A set of integers with a lower bound, not empty, has a least element; one with
\* an upper bound has a greatest.
LEMMA BoundedExtrema ==
  ASSUME NEW T, T \subseteq Int, T # {}, NEW b \in Int
  PROVE  /\ (\A y \in T : b <= y) => \E x \in T : \A y \in T : x <= y
         /\ (\A y \in T : y <= b) => \E x \in T : \A y \in T : y <= x
<1>1. ASSUME \A y \in T : b <= y PROVE \E x \in T : \A y \in T : x <= y
  <2> DEFINE U == {n \in Nat : \E y \in T : n = y - b}
  <2>1. \A y \in T : y - b \in Nat
    BY <1>1
  <2>2. \A y \in T : y - b \in U
    BY <2>1
  <2>3. U \subseteq Nat /\ U # {}
    BY <2>2
  <2>4. PICK u \in U : \A v \in U : u <= v
    <3> HIDE DEF U
    <3> QED
      BY <2>3, LeastElement
  <2>5. PICK x \in T : u = x - b
    BY <2>4
  <2>6. ASSUME NEW y \in T PROVE x <= y
    <3>1. x - b <= y - b
      BY <2>2, <2>4, <2>5
    <3> QED
      BY <3>1
  <2> QED
    BY <2>6
<1>2. ASSUME \A y \in T : y <= b PROVE \E x \in T : \A y \in T : y <= x
  <2> DEFINE U == {n \in Nat : \E y \in T : n = b - y}
  <2>1. \A y \in T : b - y \in Nat
    BY <1>2
  <2>2. \A y \in T : b - y \in U
    BY <2>1
  <2>3. U \subseteq Nat /\ U # {}
    BY <2>2
  <2>4. PICK u \in U : \A v \in U : u <= v
    <3> HIDE DEF U
    <3> QED
      BY <2>3, LeastElement
  <2>5. PICK x \in T : u = b - x
    BY <2>4
  <2>6. ASSUME NEW y \in T PROVE y <= x
    <3>1. b - x <= b - y
      BY <2>2, <2>4, <2>5
    <3> QED
      BY <3>1
  <2> QED
    BY <2>6
<1> QED
  BY <1>1, <1>2

\* Induction: a set that has 0 and, with a number, the next one has them all.
LEMMA InductionOverSet ==
  ASSUME NEW S, 0 \in S, \A n \in Nat : n \in S => n + 1 \in S
  PROVE  \A n \in Nat : n \in S
<1> DEFINE T == {n \in Nat : n \notin S}
<1>1. SUFFICES ASSUME T # {} PROVE FALSE
  OBVIOUS
<1>2. PICK x \in T : \A y \in T : x <= y
  BY <1>1, LeastElement
<1>3. x # 0 /\ x - 1 \in Nat
  BY <1>2
<1>4. x - 1 \in S
  BY <1>2, <1>3
<1>5. (x - 1) + 1 = x
  BY <1>2
<1> QED
  BY <1>2, <1>3, <1>4, <1>5

\* The same between 0 and a bound.
LEMMA InductionUpTo ==
  ASSUME NEW N \in Nat, NEW S, 0 \in S, \A n \in 0 .. N - 1 : n \in S => n + 1 \in S
  PROVE  \A n \in 0 .. N : n \in S
<1> DEFINE T == {n \in Nat : n \in S \/ n > N}
<1>1. 0 \in T
  OBVIOUS
<1>2. ASSUME NEW n \in Nat, n \in T PROVE n + 1 \in T
  BY <1>2
<1>3. \A n \in Nat : n \in T
  <2> HIDE DEF T
  <2> QED
    BY <1>1, <1>2, InductionOverSet
<1> QED
  BY <1>3

\* f starts at base and takes the given step from each number to the next.
IsRecursion(f, S, base, step) ==
    /\ f \in [Nat -> S] /\ f[0] = base
    /\ \A n \in Nat : f[n + 1] = step[n][f[n]]

\* Recursion: there is such a function, whatever the step.
LEMMA RecursionExists ==
  ASSUME NEW S, NEW base \in S, NEW step \in [Nat -> [S -> S]]
  PROVE  \E f : IsRecursion(f, S, base, step)
<1> DEFINE Part(n, g) == /\ g \in [0 .. n -> S] /\ g[0] = base
                         /\ \A i \in 0 .. n - 1 : g[i + 1] = step[i][g[i]]
           Good == {n \in Nat : \E g : Part(n, g)}
           G(n) == CHOOSE g : Part(n, g)
           f == [n \in Nat |-> G(n)[n]]
<1>1. \A n \in Nat : n \in Good
  <2>1. 0 \in Good
    <3>1. Part(0, [i \in 0 .. 0 |-> base])
      OBVIOUS
    <3> QED
      BY <3>1
  <2>2. ASSUME NEW n \in Nat, n \in Good PROVE n + 1 \in Good
    <3>1. PICK g : Part(n, g)
      BY <2>2
    <3> DEFINE h == [i \in 0 .. n + 1 |-> IF i = n + 1 THEN step[n][g[n]] ELSE g[i]]
    <3>2. h \in [0 .. n + 1 -> S] /\ h[0] = base
      BY <3>1
    <3>3. ASSUME NEW i \in 0 .. (n + 1) - 1 PROVE h[i + 1] = step[i][h[i]]
      <4>1. CASE i = n
        <5>1. h[n + 1] = step[n][g[n]] /\ h[n] = g[n]
          OBVIOUS
        <5> QED
          BY <4>1, <5>1
      <4>2. CASE i # n
        <5>1. i \in 0 .. n - 1 /\ i + 1 # n + 1 /\ i + 1 \in 0 .. n + 1 /\ i \in 0 .. n + 1
          BY <4>2
        <5> QED
          BY <5>1, <3>1
      <4> QED
        BY <4>1, <4>2
    <3>4. Part(n + 1, h)
      BY <3>2, <3>3
    <3> HIDE DEF h, Part
    <3> QED
      BY <3>4
  <2> HIDE DEF Good
  <2> QED
    BY <2>1, <2>2, InductionOverSet
<1>2. \A n \in Nat : Part(n, G(n))
  BY <1>1
<1> HIDE DEF G, Good
<1>3. ASSUME NEW n \in Nat PROVE G(n)[n] = G(n + 1)[n]
  <2> DEFINE Same == {i \in Nat : i <= n => G(n)[i] = G(n + 1)[i]}
  <2>1. Part(n, G(n)) /\ Part(n + 1, G(n + 1))
    BY <1>2, n + 1 \in Nat
  <2>2. 0 \in Same
    BY <2>1
  <2>3. ASSUME NEW i \in Nat, i \in Same PROVE i + 1 \in Same
    <3>1. SUFFICES ASSUME i + 1 <= n PROVE G(n)[i + 1] = G(n + 1)[i + 1]
      OBVIOUS
    <3>2. i \in 0 .. n - 1 /\ i \in 0 .. (n + 1) - 1
      BY <3>1
    <3>3. G(n)[i] = G(n + 1)[i]
      BY <2>3, <3>1
    <3> QED
      BY <3>2, <3>3, <2>1
  <2>4. \A i \in Nat : i \in Same
    <3> HIDE DEF Same
    <3> QED
      BY <2>2, <2>3, InductionOverSet
  <2> QED
    BY <2>4
<1>4. f \in [Nat -> S] /\ f[0] = base
  BY <1>2
<1>5. ASSUME NEW n \in Nat PROVE f[n + 1] = step[n][f[n]]
  <2>1. G(n + 1)[n + 1] = step[n][G(n + 1)[n]]
    <3>1. Part(n + 1, G(n + 1)) /\ n \in 0 .. (n + 1) - 1
      BY <1>2, n + 1 \in Nat
    <3> QED
      BY <3>1
  <2>2. f[n + 1] = G(n + 1)[n + 1] /\ f[n] = G(n)[n]
    OBVIOUS
  <2> HIDE DEF f
  <2> QED
    BY <2>1, <2>2, <1>3
<1> HIDE DEF f
<1>6. IsRecursion(f, S, base, step)
  BY <1>4, <1>5 DEF IsRecursion
<1> QED
  BY <1>6

\* And only one.
LEMMA RecursionUnique ==
  ASSUME NEW S, NEW base, NEW step, NEW f, NEW g,
         IsRecursion(f, S, base, step), IsRecursion(g, S, base, step)
  PROVE  f = g
<1> DEFINE Same == {n \in Nat : f[n] = g[n]}
<1>1. 0 \in Same
  BY DEF IsRecursion
<1>2. ASSUME NEW n \in Nat, n \in Same PROVE n + 1 \in Same
  <2>1. f[n] = g[n] /\ f[n + 1] = step[n][f[n]] /\ g[n + 1] = step[n][g[n]]
    BY <1>2 DEF IsRecursion
  <2>2. f[n + 1] = g[n + 1]
    BY <2>1
  <2> QED
    BY <2>2
<1>3. \A n \in Nat : n \in Same
  <2> HIDE DEF Same
  <2> QED
    BY <1>1, <1>2, InductionOverSet
<1> QED
  BY <1>3 DEF IsRecursion

\* The same between 0 and a bound.
IsRecursionUpTo(N, f, S, base, step) ==
    /\ f \in [0 .. N -> S] /\ f[0] = base
    /\ \A n \in 1 .. N : f[n] = step[n][f[n - 1]]

LEMMA RecursionUpTo ==
  ASSUME NEW N \in Nat, NEW S, NEW base \in S, NEW step \in [1 .. N -> [S -> S]]
  PROVE  \E f : IsRecursionUpTo(N, f, S, base, step)
<1> DEFINE onwards == [n \in Nat |-> IF n + 1 \in 1 .. N THEN step[n + 1] ELSE [x \in S |-> x]]
<1>1. onwards \in [Nat -> [S -> S]]
  OBVIOUS
<1>2. PICK g : IsRecursion(g, S, base, onwards)
  <2> HIDE DEF onwards
  <2> QED
    BY <1>1, RecursionExists
<1>3. g \in [Nat -> S] /\ g[0] = base
  BY <1>2 DEF IsRecursion
<1>4. ASSUME NEW n \in 1 .. N PROVE g[n] = step[n][g[n - 1]]
  <2>1. n - 1 \in Nat /\ (n - 1) + 1 = n
    OBVIOUS
  <2>2. onwards[n - 1] = step[n]
    BY <2>1
  <2>3. g[(n - 1) + 1] = onwards[n - 1][g[n - 1]]
    BY <1>2, <2>1 DEF IsRecursion
  <2> QED
    BY <2>1, <2>2, <2>3
<1> DEFINE f == [n \in 0 .. N |-> g[n]]
<1>5. f \in [0 .. N -> S] /\ f[0] = base
  BY <1>3
<1>6. ASSUME NEW n \in 1 .. N PROVE f[n] = step[n][f[n - 1]]
  BY <1>4, n - 1 \in 0 .. N, n \in 0 .. N
<1> HIDE DEF f
<1>7. IsRecursionUpTo(N, f, S, base, step)
  BY <1>5, <1>6 DEF IsRecursionUpTo
<1> QED
  BY <1>7

-----------------------------------------------------------------------------
(***************************************************************************)
(* Places in a strict order, a set of pairs.                               *)
(***************************************************************************)

IsStrictOrder(R, D) ==
    /\ \A i \in D : <<i, i>> \notin R
    /\ \A i, j \in D : i # j => <<i, j>> \in R \/ <<j, i>> \in R
    /\ \A i, j, k \in D : <<i, j>> \in R /\ <<j, k>> \in R => <<i, k>> \in R

Rank(R, D) == [i \in D |-> Cardinality({j \in D : <<j, i>> \in R})]

\* The number of those before an element is its place in the order, counted from
\* 0, and every place is taken.
LEMMA RankIsPlace ==
  ASSUME NEW D, IsFiniteSet(D), NEW R, IsStrictOrder(R, D),
         NEW rank, rank = Rank(R, D), NEW n, n = Cardinality(D)
  PROVE  /\ n \in Nat /\ rank \in [D -> 0 .. n - 1]
         /\ \A k \in 0 .. n - 1 : \E i \in D : rank[i] = k
         /\ \A i, j \in D : <<i, j>> \in R <=> rank[i] < rank[j]
<1> DEFINE Ahead(i) == {j \in D : <<j, i>> \in R}
<1>1. n \in Nat
  BY FS_CardinalityType
<1>2. /\ rank = [i \in D |-> rank[i]] /\ DOMAIN rank = D
      /\ \A i \in D : rank[i] = Cardinality(Ahead(i))
  BY DEF Rank
<1>3. ASSUME NEW i \in D
      PROVE  /\ IsFiniteSet(Ahead(i) \cup {i}) /\ rank[i] \in Nat /\ rank[i] + 1 <= n
             /\ Cardinality(Ahead(i) \cup {i}) = rank[i] + 1
  <2>1. Ahead(i) \in SUBSET D /\ Ahead(i) \cup {i} \in SUBSET D /\ i \notin Ahead(i)
    BY DEF IsStrictOrder
  <2>2. rank[i] = Cardinality(Ahead(i))
    BY <1>2
  <2> HIDE DEF Ahead
  <2>3. IsFiniteSet(Ahead(i)) /\ IsFiniteSet(Ahead(i) \cup {i})
    BY <2>1, FS_Subset
  <2>4. rank[i] \in Nat /\ Cardinality(Ahead(i) \cup {i}) = rank[i] + 1
    BY <2>1, <2>2, <2>3, FS_AddElement, FS_CardinalityType
  <2>5. Cardinality(Ahead(i) \cup {i}) <= n
    BY <2>1, FS_Subset
  <2> QED
    BY <2>3, <2>4, <2>5
<1>4. \A i \in D : rank[i] \in Nat /\ rank[i] + 1 <= n
  BY <1>3
<1>5. ASSUME NEW i \in D, NEW j \in D, <<i, j>> \in R PROVE rank[i] < rank[j]
  <2>1. Ahead(i) \cup {i} \in SUBSET Ahead(j) /\ Ahead(j) \in SUBSET D
    BY <1>5 DEF IsStrictOrder
  <2>2. rank[j] = Cardinality(Ahead(j))
    BY <1>2
  <2> HIDE DEF Ahead
  <2>3. IsFiniteSet(Ahead(j))
    BY <2>1, FS_Subset
  <2>4. Cardinality(Ahead(i) \cup {i}) <= Cardinality(Ahead(j))
    BY <2>1, <2>3, FS_Subset
  <2>5. rank[i] + 1 <= rank[j]
    BY <1>3, <2>2, <2>4
  <2> QED
    BY <1>4, <2>5
<1> HIDE DEF Ahead
<1>6. \A i, j \in D : rank[i] < rank[j] => <<i, j>> \in R
  <2> SUFFICES ASSUME NEW i \in D, NEW j \in D, rank[i] < rank[j], <<i, j>> \notin R PROVE FALSE
    OBVIOUS
  <2>1. i # j
    BY <1>4
  <2>2. <<j, i>> \in R
    BY <2>1 DEF IsStrictOrder
  <2>3. rank[j] < rank[i]
    BY <1>5, <2>2
  <2> QED
    BY <1>4, <2>3
<1>7. \A i \in D : rank[i] \in 0 .. n - 1
  BY <1>1, <1>4
<1>8. rank \in [D -> 0 .. n - 1]
  BY <1>2, <1>7
<1>9. \A i, j \in D : rank[i] = rank[j] => i = j
  <2> SUFFICES ASSUME NEW i \in D, NEW j \in D, rank[i] = rank[j], i # j PROVE FALSE
    OBVIOUS
  <2>1. <<i, j>> \in R \/ <<j, i>> \in R
    BY DEF IsStrictOrder
  <2>2. rank[i] < rank[j] \/ rank[j] < rank[i]
    BY <1>5, <2>1
  <2> QED
    BY <1>4, <2>2
<1>10. rank \in Injection(D, 0 .. n - 1)
  BY <1>8, <1>9 DEF Injection, IsInjective
<1>11. IsFiniteSet(0 .. n - 1) /\ Cardinality(0 .. n - 1) = n
  <2>1. CASE n = 0
    <3>1. 0 .. n - 1 = {}
      BY <2>1
    <3> QED
      BY <2>1, <3>1, FS_EmptySet
  <2>2. CASE n # 0
    BY <1>1, <2>2, FS_Interval, 0 \in Int, n - 1 \in Int, ~ (0 > n - 1), (n - 1) - 0 + 1 = n
  <2> QED
    BY <2>1, <2>2
<1>12. rank \in Surjection(D, 0 .. n - 1)
  <2>1. Cardinality(D) = Cardinality(0 .. n - 1) <=> rank \in Surjection(D, 0 .. n - 1)
    BY <1>10, <1>11, FS_Injection
  <2> QED
    BY <1>11, <2>1
<1>13. \A k \in 0 .. n - 1 : \E i \in D : rank[i] = k
  BY <1>12 DEF Surjection
<1> QED
  BY <1>1, <1>5, <1>6, <1>8, <1>13
=============================================================================
