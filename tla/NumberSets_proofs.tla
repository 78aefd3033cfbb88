------------------------- MODULE NumberSets_proofs -------------------------
(* Facts about sets of numbers that the proofs about the metrics builder    *)
(* need: their least and greatest elements, and the total of a finite set   *)
(* of pairs.                                                                *)
EXTENDS Integers, FiniteSetsExt, FiniteSetTheorems, WellFoundedInduction, TLAPS

-----------------------------------------------------------------------------
(* Induction, stated of sets.                                               *)

\* A set of naturals that is not empty has a least element.
LEMMA LeastNatural ==
    ASSUME NEW S \in SUBSET Nat, S # {}
    PROVE  \E x \in S : \A y \in S : x <= y
<1>1. IsWellFoundedOn(OpToRel(<, Nat), Nat)
  BY NatLessThanWellFounded
<1>2. PICK x \in S : \A y \in S : ~(<<y, x>> \in OpToRel(<, Nat))
  BY <1>1, WFMin
<1>3. \A y \in S : ~(y < x)
  BY <1>2 DEF OpToRel
<1> QED
  BY <1>3

\* A set that holds zero and with each number the next holds them all.
LEMMA InductionOnNaturals ==
    ASSUME NEW S, 0 \in S, \A n \in Nat : n \in S => n + 1 \in S
    PROVE  Nat \subseteq S
<1> SUFFICES ASSUME Nat \ S # {}
             PROVE  FALSE
  OBVIOUS
<1>1. PICK x \in Nat \ S : \A y \in Nat \ S : x <= y
  BY LeastNatural
<1>2. x # 0 /\ x - 1 \in Nat
  BY <1>1
<1>3. x - 1 \in S
  BY <1>1, <1>2
<1>4. (x - 1) + 1 \in S
  BY <1>2, <1>3
<1> QED
  BY <1>1, <1>4

-----------------------------------------------------------------------------
(* Least and greatest elements.                                             *)

LEMMA MinProperties ==
    ASSUME NEW S \in SUBSET Nat, S # {}
    PROVE  Min(S) \in S /\ \A y \in S : Min(S) <= y
BY LeastNatural DEF Min

\* The least element is the only one that is least.
LEMMA MinUnique ==
    ASSUME NEW S \in SUBSET Nat, NEW x \in S, \A y \in S : x <= y
    PROVE  Min(S) = x
<1>1. Min(S) \in S /\ Min(S) <= x
  BY MinProperties
<1>2. Min(S) \in Nat /\ x \in Nat /\ x <= Min(S)
  BY <1>1
<1> QED
  BY <1>1, <1>2

LEMMA MaxUnique ==
    ASSUME NEW S \in SUBSET Nat, NEW x \in S, \A y \in S : x >= y
    PROVE  Max(S) = x
<1>1. Max(S) \in S /\ \A y \in S : Max(S) >= y
  BY DEF Max
<1>2. Max(S) \in Nat /\ x \in Nat /\ x >= Max(S) /\ Max(S) >= x
  BY <1>1
<1> QED
  BY <1>2
-----------------------------------------------------------------------------
(* Totals.                                                                  *)

\* Induction over the subsets of a finite set.
LEMMA InductionOnSubsets ==
    ASSUME NEW U, IsFiniteSet(U), NEW P,
           \A s \in SUBSET U : (\A x \in s : s \ {x} \in P) => s \in P
    PROVE  SUBSET U \subseteq P
<1> SUFFICES ASSUME (SUBSET U) \ P # {}
             PROVE  FALSE
  OBVIOUS
<1> DEFINE Left == (SUBSET U) \ P
           Sizes == {Cardinality(s) : s \in Left}
<1>1. \A s \in SUBSET U : IsFiniteSet(s) /\ Cardinality(s) \in Nat
  BY FS_Subset, FS_CardinalityType
<1>2. PICK n \in Sizes : \A k \in Sizes : n <= k
  <2>1. Sizes \in SUBSET Nat /\ Sizes # {}
    BY <1>1
  <2> QED
    BY <2>1, LeastNatural
<1>3. PICK s \in Left : n = Cardinality(s)
  BY <1>2
<1>4. ASSUME NEW x \in s
      PROVE  s \ {x} \in P
  <2>1. s \ {x} \in SUBSET U
    BY <1>3
  <2>2. Cardinality(s \ {x}) = n - 1
    BY <1>1, <1>3, <1>4, FS_RemoveElement
  <2>3. n \in Nat
    BY <1>1, <1>3
  <2>4. Cardinality(s \ {x}) \notin Sizes
    BY <1>2, <2>2, <2>3
  <2> QED
    BY <2>1, <2>4
<1> QED
  BY <1>3, <1>4

Pick(s) == CHOOSE x \in s : TRUE

\* The total of the second components of a set of pairs.
Total(S) == MapThenSumSet(LAMBDA r : r[2], S)

\* The function by which the fold is defined, on a family of sets.
IsFold(F, family) ==
    F = [s \in family |-> IF s = {} THEN 0
                          ELSE Pick(s)[2] + F[s \ {Pick(s)}]]

\* There is such a function for the subsets of a finite set.
LEMMA FoldExists ==
    ASSUME NEW U, IsFiniteSet(U)
    PROVE  \E F : IsFold(F, SUBSET U)
<1> DEFINE Upto(n) == {s \in SUBSET U : Cardinality(s) <= n}
           Good == {n \in Nat : \E F : IsFold(F, Upto(n))}
<1>1. \A s \in SUBSET U : IsFiniteSet(s) /\ Cardinality(s) \in Nat
  BY FS_Subset, FS_CardinalityType
<1>2. 0 \in Good
  <2>1. Upto(0) = {{}}
    BY <1>1, FS_EmptySet
  <2> DEFINE F == [s \in {{}} |-> 0]
  <2>2. F = [s \in {{}} |-> IF s = {} THEN 0
                            ELSE Pick(s)[2] + F[s \ {Pick(s)}]]
    OBVIOUS
  <2>3. IsFold(F, Upto(0))
    BY <2>1, <2>2 DEF IsFold
  <2> QED
    BY <2>3
<1>3. ASSUME NEW n \in Nat, n \in Good
      PROVE  n + 1 \in Good
  <2>1. PICK F : IsFold(F, Upto(n))
    BY <1>3
  <2> DEFINE Step(s) == IF s = {} THEN 0 ELSE Pick(s)[2] + F[s \ {Pick(s)}]
             G == [s \in Upto(n + 1) |-> Step(s)]
  <2>2. \A s \in Upto(n) : F[s] = Step(s) /\ s \in Upto(n + 1)
    <3>1. \A s \in Upto(n) : s \in Upto(n + 1)
      BY <1>1
    <3> HIDE DEF Upto
    <3>2. \A s \in Upto(n) : F[s] = Step(s)
      BY <2>1 DEF IsFold
    <3> QED
      BY <3>1, <3>2
  <2>3. \A s \in Upto(n + 1) : s # {} => s \ {Pick(s)} \in Upto(n)
    <3> SUFFICES ASSUME NEW s \in Upto(n + 1), s # {}
                 PROVE  s \ {Pick(s)} \in Upto(n)
      OBVIOUS
    <3>1. Pick(s) \in s
      BY DEF Pick
    <3>2. IsFiniteSet(s) /\ Cardinality(s) \in Nat /\ Cardinality(s) <= n + 1
      BY <1>1
    <3>3. Cardinality(s \ {Pick(s)}) = Cardinality(s) - 1
      BY <3>1, <3>2, FS_RemoveElement
    <3> QED
      BY <3>2, <3>3
  <2>4. \A s \in Upto(n) : G[s] = F[s]
    BY <2>2
  <2>5. \A s \in Upto(n + 1) :
           s # {} => Pick(s)[2] + F[s \ {Pick(s)}]
                        = Pick(s)[2] + G[s \ {Pick(s)}]
    BY <2>3, <2>4
  <2>6. G = [s \in Upto(n + 1) |-> IF s = {} THEN 0
                                   ELSE Pick(s)[2] + G[s \ {Pick(s)}]]
    <3>1. \A s \in Upto(n + 1) :
             Step(s) = IF s = {} THEN 0 ELSE Pick(s)[2] + G[s \ {Pick(s)}]
      BY <2>5
    <3> HIDE DEF Upto
    <3>2. G = [s \in Upto(n + 1) |-> Step(s)]
      OBVIOUS
    <3> HIDE DEF G, Step
    <3> QED
      BY <3>1, <3>2
  <2>7. IsFold(G, Upto(n + 1))
    BY <2>6 DEF IsFold
  <2> HIDE DEF G, Upto
  <2>8. n + 1 \in Nat
    OBVIOUS
  <2> QED
    BY <2>7, <2>8
<1>4. Cardinality(U) \in Good
  BY <1>1, <1>2, <1>3, InductionOnNaturals
<1>5. Upto(Cardinality(U)) = SUBSET U
  BY FS_Subset
<1> QED
  BY <1>4, <1>5

\* The total is what such a function makes of the whole set.
LEMMA TotalIsFold ==
    ASSUME NEW S, IsFiniteSet(S)
    PROVE  \E F : IsFold(F, SUBSET S) /\ Total(S) = F[S]
<1>1. \E F : IsFold(F, SUBSET S)
  BY FoldExists
<1>2. Total(S) = (CHOOSE F : IsFold(F, SUBSET S))[S]
  BY DEF Total, IsFold, MapThenSumSet, MapThenFoldSet, Pick
<1> QED
  BY <1>1, <1>2

\* Two of them agree where both are defined.
LEMMA FoldUnique ==
    ASSUME NEW U, IsFiniteSet(U), NEW V, U \subseteq V, NEW F, NEW G,
           IsFold(F, SUBSET U), IsFold(G, SUBSET V)
    PROVE  F[U] = G[U]
<1> DEFINE P == {s \in SUBSET U : F[s] = G[s]}
<1>1. ASSUME NEW s \in SUBSET U, \A x \in s : s \ {x} \in P
      PROVE  s \in P
  <2>1. F[s] = IF s = {} THEN 0 ELSE Pick(s)[2] + F[s \ {Pick(s)}]
    BY DEF IsFold
  <2>2. G[s] = IF s = {} THEN 0 ELSE Pick(s)[2] + G[s \ {Pick(s)}]
    BY DEF IsFold
  <2>3. s # {} => F[s \ {Pick(s)}] = G[s \ {Pick(s)}]
    BY <1>1 DEF Pick
  <2> QED
    BY <2>1, <2>2, <2>3
<1> HIDE DEF P
<1>2. SUBSET U \subseteq P
  BY <1>1, InductionOnSubsets
<1> QED
  BY <1>2 DEF P

\* It yields numbers.
LEMMA FoldType ==
    ASSUME NEW U, IsFiniteSet(U), \A x \in U : x[2] \in Nat,
           NEW F, IsFold(F, SUBSET U)
    PROVE  \A s \in SUBSET U : F[s] \in Nat
<1> DEFINE P == {s \in SUBSET U : F[s] \in Nat}
<1>1. ASSUME NEW s \in SUBSET U, \A x \in s : s \ {x} \in P
      PROVE  s \in P
  <2>1. F[s] = IF s = {} THEN 0 ELSE Pick(s)[2] + F[s \ {Pick(s)}]
    BY DEF IsFold
  <2>2. s # {} => Pick(s)[2] \in Nat /\ F[s \ {Pick(s)}] \in Nat
    BY <1>1 DEF Pick
  <2> QED
    BY <2>1, <2>2
<1> HIDE DEF P
<1>2. SUBSET U \subseteq P
  BY <1>1, InductionOnSubsets
<1> QED
  BY <1>2 DEF P

\* It does not matter which element is taken out first.
LEMMA FoldTakesAny ==
    ASSUME NEW U, IsFiniteSet(U), \A x \in U : x[2] \in Nat,
           NEW F, IsFold(F, SUBSET U)
    PROVE  \A s \in SUBSET U : \A x \in s : F[s] = x[2] + F[s \ {x}]
<1> DEFINE P == {s \in SUBSET U : \A x \in s : F[s] = x[2] + F[s \ {x}]}
<1>1. ASSUME NEW s \in SUBSET U, \A x \in s : s \ {x} \in P
      PROVE  s \in P
  <2> SUFFICES ASSUME NEW x \in s
               PROVE  F[s] = x[2] + F[s \ {x}]
    OBVIOUS
  <2> DEFINE c == Pick(s)
  <2>1. c \in s /\ F[s] = c[2] + F[s \ {c}]
    BY DEF IsFold, Pick
  <2> HIDE DEF c
  <2>2. CASE x = c
    BY <2>1, <2>2
  <2>3. CASE x # c
    <3> DEFINE r == F[(s \ {x}) \ {c}]
    <3>1. F[s \ {c}] = x[2] + F[(s \ {c}) \ {x}]
      BY <1>1, <2>1, <2>3
    <3>2. F[s \ {x}] = c[2] + r
      BY <1>1, <2>1, <2>3
    <3>3. (s \ {c}) \ {x} = (s \ {x}) \ {c}
      OBVIOUS
    <3>4. r \in Nat /\ x[2] \in Nat /\ c[2] \in Nat
      BY <2>1, FoldType
    <3> HIDE DEF r
    <3>5. F[s \ {c}] = x[2] + r
      BY <3>1, <3>3 DEF r
    <3>6. c[2] + (x[2] + r) = x[2] + (c[2] + r)
      BY <3>4
    <3> QED
      BY <2>1, <3>2, <3>5, <3>6
  <2> QED
    BY <2>2, <2>3
<1> HIDE DEF P
<1>2. SUBSET U \subseteq P
  BY <1>1, InductionOnSubsets
<1> QED
  BY <1>2 DEF P

\* Adding a pair to a set adds its second component to the total.
LEMMA TotalAdds ==
    ASSUME NEW S, IsFiniteSet(S), \A r \in S : r[2] \in Nat,
           NEW x, x \notin S, x[2] \in Nat
    PROVE  /\ Total(S) \in Nat
           /\ Total(S \cup {x}) = Total(S) + x[2]
<1> DEFINE V == S \cup {x}
<1>1. IsFiniteSet(V)
  BY FS_AddElement
<1>2. PICK F : IsFold(F, SUBSET S) /\ Total(S) = F[S]
  BY TotalIsFold
<1>3. PICK G : IsFold(G, SUBSET V) /\ Total(V) = G[V]
  BY <1>1, TotalIsFold
<1>4. F[S] = G[S]
  BY <1>2, <1>3, FoldUnique
<1>5. /\ G[S] \in Nat
      /\ G[V] = x[2] + G[V \ {x}]
  <2>1. \A r \in V : r[2] \in Nat
    OBVIOUS
  <2>2. S \in SUBSET V /\ V \in SUBSET V /\ x \in V
    OBVIOUS
  <2> HIDE DEF V
  <2> QED
    BY <1>1, <1>3, <2>1, <2>2, FoldType, FoldTakesAny
<1>6. V \ {x} = S
  OBVIOUS
<1>7. Total(V) = x[2] + Total(S) /\ Total(S) \in Nat
  BY <1>2, <1>3, <1>4, <1>5, <1>6
<1> QED
  BY <1>7

LEMMA TotalOfNone == Total({}) = 0
<1>1. PICK F : IsFold(F, SUBSET {}) /\ Total({}) = F[{}]
  BY TotalIsFold, FS_EmptySet
<1> QED
  BY <1>1 DEF IsFold
=============================================================================
