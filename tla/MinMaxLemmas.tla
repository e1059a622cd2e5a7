---------------------------- MODULE MinMaxLemmas ----------------------------
(***************************************************************************)
(* Least and greatest elements, which the queries of the poller, the        *)
(* attribution of blame and the pending nonce of a node are defined by.     *)
(***************************************************************************)
EXTENDS Integers, FiniteSets, FiniteSetsExt, FiniteSetTheorems, TLAPS

(* A set of naturals that is not empty has a least element, and Min is it.  *)
LEMMA MinIsLeast ==
  ASSUME NEW S \in SUBSET Nat, S # {}
  PROVE  Min(S) \in S /\ \A x \in S : Min(S) <= x
<1>1. PICK m \in S : \A y \in S : ~(<<y, m>> \in OpToRel(<, Nat))
  BY NatLessThanWellFounded, WFMin
<1>2. \A y \in S : m <= y
  <2>1. \A y \in S : <<y, m>> \in Nat \X Nat /\ <<y, m>>[1] = y /\ <<y, m>>[2] = m
    OBVIOUS
  <2>2. \A y \in S : ~(y < m)
    BY <1>1, <2>1 DEF OpToRel
  <2>3. QED
    BY <2>2
<1>3. QED
  BY <1>2 DEF Min

(* A set of naturals with an upper bound has a greatest element, and Max is  *)
(* it.                                                                      *)
LEMMA MaxIsGreatest ==
  ASSUME NEW n \in Nat, NEW S \in SUBSET (0..n), S # {}
  PROVE  Max(S) \in S /\ \A x \in S : x <= Max(S)
<1> DEFINE T == {n - x : x \in S}
<1>0. \A x \in S : x \in Int /\ n - x \in Nat
  OBVIOUS
<1>1. T \in SUBSET Nat /\ T # {}
  BY <1>0
<1>2. Min(T) \in T /\ \A y \in T : Min(T) <= y
  BY <1>1, MinIsLeast
<1>3. PICK m \in S : Min(T) = n - m
  BY <1>2
<1>4. \A x \in S : x <= m
  <2>1. SUFFICES ASSUME NEW x \in S
                 PROVE  x <= m
    OBVIOUS
  <2>2. n - x \in T
    OBVIOUS
  <2>3. n - m <= n - x
    BY <1>2, <1>3, <2>2
  <2>4. QED
    BY <1>0, <2>3
<1>5. QED
  BY <1>4 DEF Max

(* A finite set of naturals has an upper bound: among its subsets that have  *)
(* none, one with the fewest elements would have one as well.                *)
LEMMA FiniteIsBounded ==
  ASSUME NEW S \in SUBSET Nat, IsFiniteSet(S)
  PROVE  \E n \in Nat : S \in SUBSET (0..n)
<1> DEFINE Bounded(T) == \E n \in Nat : \A x \in T : x <= n
           D == {m \in Nat : \E T \in SUBSET S : ~Bounded(T) /\ Cardinality(T) = m}
<1>1. \A T \in SUBSET S : IsFiniteSet(T) /\ Cardinality(T) \in Nat
  BY FS_Subset, FS_CardinalityType
<1>2. D = {}
  <2>1. SUFFICES ASSUME D # {}
                 PROVE  FALSE
    OBVIOUS
  <2>2. D \in SUBSET Nat
    OBVIOUS
  <2>3. PICK m \in D : \A x \in D : m <= x
    <3> HIDE DEF D
    <3>1. QED
      BY <2>1, <2>2, MinIsLeast
  <2>4. PICK T \in SUBSET S : ~Bounded(T) /\ Cardinality(T) = m
    BY <2>3
  <2>5. T # {}
    BY <2>4
  <2>6. PICK x \in T : TRUE
    BY <2>5
  <2>7. IsFiniteSet(T) /\ Cardinality(T \ {x}) = Cardinality(T) - 1
    BY <1>1, <2>6, FS_RemoveElement
  <2>8. Cardinality(T \ {x}) < m /\ Cardinality(T \ {x}) \in Nat /\ T \ {x} \in SUBSET S
    BY <1>1, <2>4, <2>7
  <2>9. Bounded(T \ {x})
    <3>1. SUFFICES ASSUME ~Bounded(T \ {x})
                   PROVE  FALSE
      OBVIOUS
    <3>2. Cardinality(T \ {x}) \in D
      BY <2>8, <3>1
    <3>3. m \in Nat
      BY <2>3
    <3> HIDE DEF D
    <3>4. QED
      BY <2>3, <2>8, <3>2, <3>3
  <2>10. PICK n \in Nat : \A y \in T \ {x} : y <= n
    BY <2>9
  <2>11. x \in Nat /\ \A y \in T : y \in Nat
    BY <2>6
  <2>12. \A y \in T : y <= n + x
    BY <2>10, <2>11
  <2>13. n + x \in Nat
    BY <2>10, <2>11
  <2>14. QED
    BY <2>4, <2>12, <2>13
<1>3. Bounded(S)
  <2>1. Cardinality(S) \in Nat /\ S \in SUBSET S
    BY <1>1
  <2> HIDE DEF Bounded
  <2>2. QED
    BY <1>2, <2>1
<1>4. PICK n \in Nat : \A x \in S : x <= n
  BY <1>3
<1>5. S \in SUBSET (0..n)
  BY <1>4
<1>6. QED
  BY <1>5
=============================================================================
