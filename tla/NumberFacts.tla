----------------------------- MODULE NumberFacts -----------------------------
(***************************************************************************)
(* Induction over natural numbers for the proofs of the other modules,     *)
(* with a set where the library has a predicate: what a loop over a text   *)
(* has computed after i steps is shown for all i with InductionTo.         *)
(***************************************************************************)
EXTENDS Integers, WellFoundedInduction, TLAPS

\* A non-empty set of natural numbers has a least element.
LEMMA LeastNumber ==
  ASSUME NEW T \in SUBSET Nat, T # {}
  PROVE  \E x \in T : \A y \in T : x <= y
<1> DEFINE R == OpToRel(<, Nat)
<1>1. IsWellFoundedOn(R, Nat)
  BY NatLessThanWellFounded
<1>2. \A y, x \in Nat : y < x => <<y, x>> \in R
  BY DEF OpToRel
<1> HIDE DEF R
<1>3. PICK x \in T : \A y \in T : ~ (<<y, x>> \in R)
  BY <1>1, WFMin
<1>4. \A y \in T : ~ (y < x)
  BY <1>2, <1>3
<1>5. \A y \in T : x <= y
  BY <1>4
<1> QED
  BY <1>5

\* Induction up to a bound, with a set in place of a predicate.
LEMMA InductionTo ==
  ASSUME NEW n \in Nat, NEW T, 0 \in T,
         \A i \in 1 .. n : i - 1 \in T => i \in T
  PROVE  \A i \in 0 .. n : i \in T
<1> DEFINE U == {i \in 0 .. n : i \notin T}
<1> SUFFICES ASSUME U # {} PROVE FALSE
  OBVIOUS
<1>1. PICK x \in U : \A y \in U : x <= y
  <2>1. U \in SUBSET Nat
    OBVIOUS
  <2> HIDE DEF U
  <2> QED
    BY <2>1, LeastNumber
<1>2. x \in 1 .. n /\ x - 1 \in 0 .. n /\ x - 1 \notin U
  BY <1>1
<1> QED
  BY <1>1, <1>2
=============================================================================
