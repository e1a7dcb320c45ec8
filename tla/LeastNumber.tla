----------------------------- MODULE LeastNumber -----------------------------
(* The least-number principle over a set, from which proofs by induction on  *)
(* the naturals follow: the set of counterexamples has no least element.     *)
EXTENDS Integers, TLAPS, WellFoundedInduction

(* A nonempty set of naturals has a least element.                           *)
LEMMA Least ==
    ASSUME NEW T \in SUBSET Nat, T # {}
    PROVE  \E x \in T : \A y \in T : x <= y
<1> DEFINE R == {ss \in Nat \X Nat : ss[1] < ss[2]}
<1>1. OpToRel(<, Nat) = R
  BY Zenon DEF OpToRel
<1>2. IsWellFoundedOn(R, Nat)
  BY NatLessThanWellFounded, <1>1, Zenon
<1>3. PICK x \in T : \A y \in T : ~(<<y, x>> \in R)
  <2> HIDE DEF R
  <2> QED
    BY <1>2, WFMin
<1>4. ASSUME NEW y \in T PROVE x <= y
  <2>1. x \in Nat /\ y \in Nat
    OBVIOUS
  <2>2. ~(y < x)
    BY <2>1, <1>3
  <2> QED
    BY <2>1, <2>2
<1> QED
  BY <1>4

(* Induction: what begins a set and is passed on is all of the interval.     *)
LEMMA Induction ==
    ASSUME NEW n \in Nat, NEW S, 0 \in S,
           \A i \in 0..(n - 1) : i \in S => i + 1 \in S
    PROVE  0..n \subseteq S
<1> SUFFICES ASSUME 0..n \ S # {} PROVE FALSE
  OBVIOUS
<1>1. PICK m \in 0..n \ S : \A y \in 0..n \ S : m <= y
  <2>1. 0..n \ S \in SUBSET Nat
    OBVIOUS
  <2> QED
    BY <2>1, Least
<1>2. m # 0
  OBVIOUS
<1>3. m - 1 \in 0..(n - 1) /\ m - 1 \in 0..n
  BY <1>2
<1>4. m - 1 \in S
  BY <1>1, <1>3
<1> QED
  BY <1>3, <1>4
=============================================================================
