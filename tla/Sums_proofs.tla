---------------------------- MODULE Sums_proofs ----------------------------
(***************************************************************************)
(* What the proofs about governance need to know of SumOver: it is a        *)
(* natural number, zero over nothing, and changes with one summand by       *)
(* exactly the change of that summand.  And facts about sets of natural     *)
(* numbers: a least element, induction, by way of the least counterexample, *)
(* and a greatest element of a finite set.                                  *)
(***************************************************************************)
EXTENDS Sums, FiniteSetTheorems, WellFoundedInduction, TLAPS

-----------------------------------------------------------------------------
(* Sets of natural numbers *)

\* A nonempty set of natural numbers has a least element.
LEMMA LeastNat ==
    ASSUME NEW T \in SUBSET Nat, T # {}
    PROVE  \E x \in T : \A y \in T : x <= y
<1> DEFINE R == OpToRel(<, Nat)
<1>1. IsWellFoundedOn(R, Nat)
  BY NatLessThanWellFounded
<1>2. \A x, y \in Nat : x < y => <<x, y>> \in R
  BY DEF OpToRel
<1> HIDE DEF R
<1>3. PICK x \in T : \A y \in T : ~(<<y, x>> \in R)
  BY <1>1, WFMin, Zenon
<1>4. \A y \in T : ~(y < x)
  BY <1>2, <1>3
<1> QED
  BY <1>4

\* Induction from 0 to n: a set with 0 and the successor of each of its elements is all.
LEMMA InductionUpTo ==
    ASSUME NEW n \in Nat, NEW P, 0 \in P, \A i \in 1 .. n : i - 1 \in P => i \in P
    PROVE  \A i \in 0 .. n : i \in P
<1> DEFINE Bad == {i \in 0 .. n : i \notin P}
<1> SUFFICES ASSUME Bad # {} PROVE FALSE
  OBVIOUS
<1>1. Bad \in SUBSET Nat
  OBVIOUS
<1>2. PICK m \in Bad : \A k \in Bad : m <= k
  <2> HIDE DEF Bad
  <2> QED
    BY <1>1, LeastNat
<1>3. m \in 1 .. n
  BY <1>2
<1>4. m - 1 \in P
  BY <1>2, <1>3
<1> QED
  BY <1>2, <1>3, <1>4

\* A finite nonempty set of natural numbers has a greatest element.  A smallest set
\* without one would have one after all: of an element and what is left without it.
LEMMA FiniteHasMax ==
    ASSUME NEW S \in SUBSET Nat, IsFiniteSet(S), S # {}
    PROVE  \E x \in S : \A y \in S : x >= y
<1> DEFINE HasMax(U) == \E x \in U : \A y \in U : x >= y
           Bad == {U \in SUBSET S : U # {} /\ ~HasMax(U)}
           T == {Cardinality(U) : U \in Bad}
<1> SUFFICES ASSUME ~HasMax(S) PROVE FALSE
  OBVIOUS
<1>1. \A U \in SUBSET S : IsFiniteSet(U) /\ Cardinality(U) \in Nat
  BY FS_Subset, FS_CardinalityType
<1>2. T \in SUBSET Nat /\ T # {}
  BY <1>1
<1>3. PICK c \in T : \A d \in T : c <= d
  BY <1>2, LeastNat
<1>4. PICK U \in Bad : c = Cardinality(U)
  OBVIOUS
<1>5. PICK x \in U : TRUE
  OBVIOUS
<1> DEFINE V == U \ {x}
<1>6. V \in SUBSET S /\ V # {}
  <2>1. V # {}
    <3>1. SUFFICES ASSUME V = {} PROVE HasMax(U)
      BY <1>4
    <3>2. U = {x} /\ x \in Nat
      BY <1>5, <3>1
    <3> QED
      BY <3>2
  <2> QED
    BY <2>1
<1>7. Cardinality(V) = Cardinality(U) - 1 /\ Cardinality(U) \in Nat
  BY <1>1, <1>5, FS_RemoveElement
<1>8. HasMax(V)
  <2> SUFFICES ASSUME V \in Bad PROVE FALSE
    BY <1>6
  <2>1. Cardinality(U) <= Cardinality(V)
    BY <1>3, <1>4
  <2> QED
    BY <1>7, <2>1
<1>9. PICK m \in V : \A y \in V : m >= y
  BY <1>8
<1>10. x \in Nat /\ m \in Nat /\ m \in U /\ \A y \in U : y = x \/ m >= y
  BY <1>5, <1>9
<1>11. HasMax(U)
  <2>1. CASE m >= x
    BY <1>10, <2>1
  <2>2. CASE ~(m >= x)
    <3>1. \A y \in U : y \in Nat
      OBVIOUS
    <3>2. \A y \in U : x >= y
      BY <1>10, <2>2, <3>1
    <3> QED
      BY <1>5, <3>2
  <2> QED
    BY <2>1, <2>2
<1> QED
  BY <1>4, <1>11

-----------------------------------------------------------------------------
(* Sums *)

\* One element contributes as many units as its value says.
LEMMA OneUnits ==
    ASSUME NEW x, NEW n \in Nat
    PROVE  /\ IsFiniteSet({x} \X (1 .. n))
           /\ Cardinality({x} \X (1 .. n)) = n
<1>1. IsFiniteSet({x}) /\ Cardinality({x}) = 1
  BY FS_Singleton
<1>2. IsFiniteSet(1 .. n) /\ Cardinality(1 .. n) = n
  BY FS_Interval
<1>3. /\ IsFiniteSet({x} \X (1 .. n))
      /\ Cardinality({x} \X (1 .. n)) = Cardinality({x}) * Cardinality(1 .. n)
  BY <1>1, <1>2, FS_Product, Zenon
<1> QED
  BY <1>1, <1>2, <1>3

\* There are finitely many units.
LEMMA UnitsFinite ==
    ASSUME NEW S, IsFiniteSet(S), NEW f, \A x \in S : f[x] \in Nat
    PROVE  IsFiniteSet(Units(f, S))
<1> DEFINE g == [x \in S |-> {x} \X (1 .. f[x])]
           T == {{x} \X (1 .. f[x]) : x \in S}
<1>1. g \in Surjection(S, T)
  BY DEF Surjection
<1>2. IsFiniteSet(T)
  BY <1>1, FS_Surjection
<1>3. \A x \in S : IsFiniteSet({x} \X (1 .. f[x]))
  BY OneUnits, Zenon
<1>4. \A U \in T : IsFiniteSet(U)
  BY <1>3
<1> QED
  BY <1>2, <1>4, FS_UNION DEF Units

\* A sum of natural numbers is a natural number.
LEMMA SumType ==
    ASSUME NEW S, IsFiniteSet(S), NEW f, \A x \in S : f[x] \in Nat
    PROVE  SumOver(f, S) \in Nat
BY UnitsFinite, FS_CardinalityType DEF SumOver

\* The sum over no elements is zero.
LEMMA SumEmpty ==
    ASSUME NEW f
    PROVE  SumOver(f, {}) = 0
<1>1. Units(f, {}) = {}
  BY DEF Units
<1> QED
  BY <1>1, FS_EmptySet DEF SumOver

\* A sum of zeros is zero.
LEMMA SumZero ==
    ASSUME NEW S, NEW f, \A x \in S : f[x] = 0
    PROVE  SumOver(f, S) = 0
<1>1. Units(f, S) = {}
  BY DEF Units
<1> QED
  BY <1>1, FS_EmptySet DEF SumOver

\* Taking one element out of the set.
LEMMA SumSplit ==
    ASSUME NEW S, IsFiniteSet(S), NEW f, \A y \in S : f[y] \in Nat, NEW x \in S
    PROVE  /\ SumOver(f, S \ {x}) \in Nat
           /\ SumOver(f, S) = SumOver(f, S \ {x}) + f[x]
<1> DEFINE R == Units(f, S \ {x})
           U == {x} \X (1 .. f[x])
<1>1. Units(f, S) = R \cup U
  BY DEF Units
<1>2. R \cap U = {}
  BY DEF Units
<1>3. IsFiniteSet(Units(f, S))
  BY UnitsFinite
<1>4. IsFiniteSet(R)
  <2>1. R \in SUBSET Units(f, S)
    BY <1>1
  <2> QED
    BY <1>3, <2>1, FS_Subset
<1>5. IsFiniteSet(U) /\ Cardinality(U) = f[x]
  BY OneUnits
<1>6. Cardinality(R \cup U) = Cardinality(R) + Cardinality(U) - Cardinality(R \cap U)
  BY <1>4, <1>5, FS_Union
<1>7. Cardinality(R \cap U) = 0
  BY <1>2, FS_EmptySet
<1>8. Cardinality(R) \in Nat
  BY <1>4, FS_CardinalityType
<1> QED
  BY <1>1, <1>5, <1>6, <1>7, <1>8 DEF SumOver

\* One summand is never more than the sum.
LEMMA SumBound ==
    ASSUME NEW S, IsFiniteSet(S), NEW f, \A y \in S : f[y] \in Nat, NEW x \in S
    PROVE  f[x] <= SumOver(f, S)
<1>1. /\ SumOver(f, S \ {x}) \in Nat
      /\ SumOver(f, S) = SumOver(f, S \ {x}) + f[x]
  BY SumSplit, Zenon
<1>2. f[x] \in Nat
  OBVIOUS
<1> QED
  BY <1>1, <1>2

\* Changing one summand changes the sum by the difference.
LEMMA SumUpdate ==
    ASSUME NEW S, IsFiniteSet(S), NEW x \in S, NEW f, NEW g,
           \A y \in S : f[y] \in Nat /\ g[y] \in Nat,
           \A y \in S : y # x => g[y] = f[y]
    PROVE  SumOver(g, S) = SumOver(f, S) - f[x] + g[x]
<1>1. Units(f, S \ {x}) = Units(g, S \ {x})
  BY DEF Units
<1>2. SumOver(f, S \ {x}) = SumOver(g, S \ {x})
  BY <1>1 DEF SumOver
<1>3. /\ SumOver(f, S \ {x}) \in Nat
      /\ SumOver(f, S) = SumOver(f, S \ {x}) + f[x]
  BY SumSplit
<1>4. SumOver(g, S) = SumOver(g, S \ {x}) + g[x]
  BY SumSplit
<1> QED
  BY <1>2, <1>3, <1>4

\* Only the summands count.
LEMMA SumSame ==
    ASSUME NEW S, NEW f, NEW g, \A x \in S : f[x] = g[x]
    PROVE  SumOver(f, S) = SumOver(g, S)
<1>1. Units(f, S) = Units(g, S)
  BY DEF Units
<1> QED
  BY <1>1 DEF SumOver

\* The sum of the first n numbers of a sequence, from that of the first n - 1.
LEMMA SumUpTo ==
    ASSUME NEW n \in Nat \ {0}, NEW f, \A i \in 1 .. n : f[i] \in Nat
    PROVE  /\ SumOver(f, 1 .. n - 1) \in Nat /\ SumOver(f, 1 .. n) \in Nat
           /\ SumOver(f, 1 .. n) = SumOver(f, 1 .. n - 1) + f[n]
<1>1. IsFiniteSet(1 .. n) /\ n \in 1 .. n /\ (1 .. n) \ {n} = 1 .. n - 1
  BY FS_Interval
<1>2. IsFiniteSet(1 .. n - 1)
  BY FS_Interval
<1>3. SumOver(f, 1 .. n - 1) \in Nat /\ SumOver(f, 1 .. n) \in Nat
  BY <1>1, <1>2, SumType
<1> QED
  BY <1>1, <1>3, SumSplit
=============================================================================
