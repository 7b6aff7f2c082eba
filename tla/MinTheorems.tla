---------------------------- MODULE MinTheorems ----------------------------
(* What the first free slot, offset or entry of a table is.                *)
EXTENDS Integers, FiniteSetsExt, WellFoundedInduction, TLAPS

(* Min of a nonempty set of numbers is its least element.                  *)
LEMMA MinIsLeast ==
  ASSUME NEW S, S \subseteq Nat, S # {}
  PROVE  Min(S) \in S /\ \A y \in S : Min(S) <= y
<1>1. PICK x \in S : \A y \in S : ~(<<y, x>> \in OpToRel(<, Nat))
  BY NatLessThanWellFounded, WFMin
<1>2. \A y \in S : x <= y
  <2>1. SUFFICES ASSUME NEW y \in S PROVE x <= y
    OBVIOUS
  <2>2. ~(y < x)
    BY <1>1 DEF OpToRel
  <2>. QED BY <2>2
<1>. QED BY <1>2 DEF Min
=============================================================================
