----------------------------- MODULE DataLemmas -----------------------------
(***************************************************************************)
(* Facts about data that the proofs of several components share: induction *)
(* over the numbers, and what an element more or less does to a bag and to *)
(* its size.                                                               *)
(***************************************************************************)
EXTENDS BagCount, FiniteSetTheorems, WellFoundedInduction, TLAPS

(* Induction over the naturals, for a set of them.                         *)
LEMMA Induction ==
  ASSUME NEW P, 0 \in P, \A n \in Nat : n \in P => n + 1 \in P
  PROVE  Nat \subseteq P
<1> DEFINE R == OpToRel(<, Nat)
           T == Nat \ P
<1>1. IsWellFoundedOn(R, Nat)
  BY NatLessThanWellFounded
<1>2. \A m, n \in Nat : m < n => <<m, n>> \in R
  BY DEF OpToRel
<1> SUFFICES ASSUME T # {} PROVE FALSE
  OBVIOUS
<1> HIDE DEF R
<1>3. PICK m \in T : \A n \in T : ~(<<n, m>> \in R)
  <2>1. T \subseteq Nat
    OBVIOUS
  <2> HIDE DEF T
  <2> QED
    BY <1>1, <2>1, WFMin
<1>4. m \in Nat /\ m # 0 /\ m - 1 \in Nat /\ m - 1 < m /\ (m - 1) + 1 = m
  OBVIOUS
<1>5. m - 1 \notin T
  BY <1>2, <1>3, <1>4
<1> QED
  BY <1>4, <1>5

-----------------------------------------------------------------------------
(* Bags with finitely many occurrences of members of S.                    *)
Bag(B, S) == IsABag(B) /\ DOMAIN B \subseteq S /\ IsFiniteSet(Occurrences(B))

(* A bag's occurrences, one by one.                                        *)
LEMMA OccurrencesOf ==
  ASSUME NEW B
  PROVE  /\ \A x, i : <<x, i>> \in Occurrences(B) <=> x \in DOMAIN B /\ i \in 1..B[x]
         /\ \A o \in Occurrences(B) : \E x, i : o = <<x, i>>
  BY DEF Occurrences

(* The empty bag.                                                          *)
LEMMA BagEmpty == \A S : Bag(EmptyBag, S) /\ BagSize(EmptyBag) = 0
<1>1. DOMAIN EmptyBag = {} /\ IsABag(EmptyBag)
  BY DEF EmptyBag, SetToBag, IsABag
<1>2. Occurrences(EmptyBag) = {}
  BY <1>1 DEF Occurrences
<1> QED
  BY <1>1, <1>2, FS_EmptySet DEF Bag, BagSize

(* One element more.                                                       *)
LEMMA BagAdded ==
  ASSUME NEW S, NEW B, Bag(B, S), NEW x \in S
  PROVE  /\ Bag(B (+) SetToBag({x}), S)
         /\ BagSize(B (+) SetToBag({x})) = BagSize(B) + 1
<1> DEFINE C == B (+) SetToBag({x})
           n == IF x \in DOMAIN B THEN B[x] ELSE 0
<1>1. \A y \in DOMAIN B : B[y] \in Nat /\ B[y] > 0
  BY DEF Bag, IsABag
<1>2. n \in Nat
  BY <1>1
<1>3. /\ DOMAIN C = DOMAIN B \cup {x} /\ C[x] = n + 1
      /\ \A y \in DOMAIN B \ {x} : C[y] = B[y]
      /\ C = [y \in DOMAIN C |-> C[y]]
  BY <1>1 DEF SetToBag, (+)
<1> HIDE DEF C, n
<1>4. IsABag(C)
  <2>1. \A y \in DOMAIN C : C[y] \in Nat /\ C[y] > 0
    BY <1>1, <1>2, <1>3
  <2>2. C \in [DOMAIN C -> {k \in Nat : k > 0}]
    BY <1>3, <2>1
  <2> QED
    BY <2>2 DEF IsABag
<1>5. Occurrences(C) = Occurrences(B) \cup {<<x, n + 1>>}
  <2>1. ASSUME NEW y, NEW i
        PROVE  <<y, i>> \in Occurrences(C) <=> <<y, i>> \in Occurrences(B) \/ (y = x /\ i = n + 1)
    <3>1. CASE y # x
      BY <1>3, <3>1, OccurrencesOf
    <3>2. CASE y = x
      <4>1. <<x, i>> \in Occurrences(C) <=> i \in 1..(n + 1)
        BY <1>3, OccurrencesOf
      <4>2. <<x, i>> \in Occurrences(B) <=> i \in 1..n
        BY <1>2, OccurrencesOf DEF n
      <4>3. i \in 1..(n + 1) <=> i \in 1..n \/ i = n + 1
        BY <1>2
      <4> QED
        BY <3>2, <4>1, <4>2, <4>3
    <3> QED
      BY <3>1, <3>2
  <2> QED
    BY <2>1, OccurrencesOf
<1>6. <<x, n + 1>> \notin Occurrences(B)
  BY <1>2, OccurrencesOf DEF n
<1>7. IsFiniteSet(Occurrences(C)) /\ Cardinality(Occurrences(C)) = Cardinality(Occurrences(B)) + 1
  BY <1>5, <1>6, FS_AddElement DEF Bag
<1>8. DOMAIN C \subseteq S
  BY <1>3 DEF Bag
<1> QED
  BY <1>4, <1>7, <1>8 DEF Bag, BagSize, C

(* One element fewer.                                                      *)
LEMMA BagRemoved ==
  ASSUME NEW S, NEW B, Bag(B, S), NEW x \in DOMAIN B
  PROVE  /\ Bag(B (-) SetToBag({x}), S)
         /\ BagSize(B (-) SetToBag({x})) = BagSize(B) - 1
<1> DEFINE C == B (-) SetToBag({x})
           n == B[x]
<1>1. \A y \in DOMAIN B : B[y] \in Nat /\ B[y] > 0
  BY DEF Bag, IsABag
<1>2. n \in Nat /\ n > 0
  BY <1>1
<1>3. /\ DOMAIN C = IF n = 1 THEN DOMAIN B \ {x} ELSE DOMAIN B
      /\ n # 1 => C[x] = n - 1
      /\ \A y \in DOMAIN B \ {x} : C[y] = B[y]
      /\ C = [y \in DOMAIN C |-> C[y]]
  <2> DEFINE D == [e \in DOMAIN B |-> IF e = x THEN B[e] - 1 ELSE B[e]]
  <2>1. C = [e \in {d \in DOMAIN D : D[d] > 0} |-> D[e]]
    BY DEF SetToBag, (-)
  <2>2. {d \in DOMAIN D : D[d] > 0} = IF n = 1 THEN DOMAIN B \ {x} ELSE DOMAIN B
    BY <1>1, <1>2
  <2> QED
    BY <2>1, <2>2
<1> HIDE DEF C, n
<1>4. IsABag(C)
  <2>1. \A y \in DOMAIN C : C[y] \in Nat /\ C[y] > 0
    <3> TAKE y \in DOMAIN C
    <3>1. CASE y = x
      <4>1. n # 1
        BY <1>3, <3>1
      <4> QED
        BY <1>2, <1>3, <3>1, <4>1
    <3>2. CASE y # x
      <4>1. y \in DOMAIN B \ {x}
        BY <1>3, <3>2
      <4> QED
        BY <1>1, <1>3, <4>1
    <3> QED
      BY <3>1, <3>2
  <2>2. C \in [DOMAIN C -> {k \in Nat : k > 0}]
    BY <1>3, <2>1
  <2> QED
    BY <2>2 DEF IsABag
<1>5. Occurrences(C) = Occurrences(B) \ {<<x, n>>}
  <2>1. ASSUME NEW y, NEW i
        PROVE  <<y, i>> \in Occurrences(C) <=> <<y, i>> \in Occurrences(B) /\ ~(y = x /\ i = n)
    <3>1. CASE y # x
      BY <1>3, <3>1, OccurrencesOf
    <3>2. CASE y = x
      <4>1. <<x, i>> \in Occurrences(C) <=> n # 1 /\ i \in 1..(n - 1)
        BY <1>3, OccurrencesOf
      <4>2. <<x, i>> \in Occurrences(B) <=> i \in 1..n
        BY OccurrencesOf DEF n
      <4>3. (n # 1 /\ i \in 1..(n - 1)) <=> i \in 1..n /\ i # n
        BY <1>2
      <4> QED
        BY <3>2, <4>1, <4>2, <4>3
    <3> QED
      BY <3>1, <3>2
  <2> QED
    BY <2>1, OccurrencesOf
<1>6. <<x, n>> \in Occurrences(B)
  BY <1>2, OccurrencesOf DEF n
<1>7. IsFiniteSet(Occurrences(C)) /\ Cardinality(Occurrences(C)) = Cardinality(Occurrences(B)) - 1
  BY <1>5, <1>6, FS_RemoveElement DEF Bag
<1>8. DOMAIN C \subseteq S
  BY <1>3 DEF Bag
<1> QED
  BY <1>4, <1>7, <1>8 DEF Bag, BagSize, C

(* Sizes are numbers.                                                      *)
LEMMA BagSizeType ==
  ASSUME NEW S, NEW B, Bag(B, S)
  PROVE  BagSize(B) \in Nat
BY FS_CardinalityType DEF Bag, BagSize
=============================================================================
