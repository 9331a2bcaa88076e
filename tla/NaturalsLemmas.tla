---------------------------- MODULE NaturalsLemmas ----------------------------
(***************************************************************************)
(* Least and greatest elements, and induction, for sets of naturals: what  *)
(* the proofs of several components need of the choices and the recursive  *)
(* functions of their models.                                              *)
(***************************************************************************)
EXTENDS Integers, WellFoundedInduction, TLAPS

\* A set of naturals that is not empty has a least element.
LEMMA LeastNat ==
    ASSUME NEW S, S \subseteq Nat, S # {}
    PROVE  \E n \in S : \A m \in S : n <= m
<1> DEFINE Less == {p \in Nat \X Nat : p[1] < p[2]}
<1>1. IsWellFoundedOn(Less, Nat)
    BY NatLessThanWellFounded DEF OpToRel
<1>2. \A m, n \in Nat : m < n => <<m, n>> \in Less
    OBVIOUS
<1> HIDE DEF Less
<1>3. PICK n \in S : \A m \in S : ~ (<<m, n>> \in Less)
    BY <1>1, WFMin
<1>4. \A m \in S : n <= m
    <2> SUFFICES ASSUME NEW m \in S PROVE n <= m
        OBVIOUS
    <2>1. m \in Nat /\ n \in Nat
        OBVIOUS
    <2>2. ~ (<<m, n>> \in Less)
        BY <1>3
    <2>3. m < n => <<m, n>> \in Less
        BY <2>1, <1>2
    <2> QED
        BY <2>1, <2>2, <2>3
<1> QED
    BY <1>4

\* A bounded one has a greatest element.
LEMMA GreatestNat ==
    ASSUME NEW S, S \subseteq Nat, S # {}, NEW b \in Nat, \A n \in S : n <= b
    PROVE  \E n \in S : \A m \in S : m <= n
<1> DEFINE D == {b - n : n \in S}
<1>1. D \subseteq Nat /\ D # {}
    <2>1. \A n \in S : n \in Nat /\ b - n \in Nat
        OBVIOUS
    <2> QED
        BY <2>1
<1>2. PICK d \in D : \A e \in D : d <= e
    BY <1>1, LeastNat
<1>3. PICK n \in S : d = b - n
    OBVIOUS
<1>4. \A m \in S : m <= n
    <2> SUFFICES ASSUME NEW m \in S PROVE m <= n
        OBVIOUS
    <2>1. m \in Nat /\ n \in Nat /\ d <= b - m
        BY <1>2
    <2> QED
        BY <2>1, <1>3
<1> QED
    BY <1>4

\* Induction, for a set in the place of a predicate.
LEMMA SetInduction ==
    ASSUME NEW S, 0 \in S, \A n \in Nat : n \in S => n + 1 \in S
    PROVE  Nat \subseteq S
<1> SUFFICES ASSUME Nat \ S # {} PROVE FALSE
    OBVIOUS
<1>1. PICK n \in Nat \ S : \A m \in Nat \ S : n <= m
    BY LeastNat
<1>2. n # 0 /\ n - 1 \in Nat /\ n - 1 \in S
    BY <1>1
<1> QED
    BY <1>1, <1>2
===============================================================================
