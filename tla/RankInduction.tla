--------------------------- MODULE RankInduction ---------------------------
(***************************************************************************)
(* Induction on the natural numbers in a form the liveness proofs can use: *)
(* for a family of formulas T(0), T(1), ... that speak of whole behaviours.*)
(* The family is handed over as the function [k \in Nat |-> T(k)]; Family  *)
(* says nothing, and is there to name that function.                       *)
(***************************************************************************)
EXTENDS Integers, WellFoundedInduction, TLAPS

Family(f) == TRUE

\* A property of the naturals that fails somewhere fails first at a place
\* that the step from its predecessor, or the base, excludes.
LEMMA NoFirstFailure ==
  ASSUME NEW f, f[0], \A n \in Nat : f[n] => f[n + 1]
  PROVE  \A n \in Nat : f[n]
<1> DEFINE Fails == {n \in Nat : ~f[n]}
<1> SUFFICES ASSUME NEW m \in Nat, ~f[m] PROVE FALSE
  OBVIOUS
<1>1. PICK n \in Fails : \A k \in Fails : ~(<<k, n>> \in OpToRel(<, Nat))
  <2>1. Fails \subseteq Nat /\ Fails # {}
    OBVIOUS
  <2> HIDE DEF Fails
  <2> QED BY <2>1, NatLessThanWellFounded, WFMin, Zenon
<1>2. n \in Nat /\ n # 0
  BY <1>1
<1>3. n - 1 \in Nat /\ n = (n - 1) + 1 /\ <<n - 1, n>> \in OpToRel(<, Nat)
  BY <1>2 DEF OpToRel
<1> QED BY <1>1, <1>2, <1>3

\* Induction: what holds at rank 0, and at every rank if it does at the rank
\* before, holds at every rank.
THEOREM RankInduct ==
  \A f : /\ Family(f) /\ DOMAIN f = Nat
         /\ f[0] /\ \A n \in Nat : f[n] => f[n + 1]
         => \A n \in Nat : f[n]
  BY NoFirstFailure

\* The number that two digits make.
Then(base, high, low) == high * base + low

\* A smaller high digit makes a smaller number, whatever the low one.
LEMMA ThenFacts ==
  ASSUME NEW base \in Nat, NEW h \in Nat, NEW l \in Nat
  PROVE  /\ Then(base, h, l) \in Nat
         /\ \A i \in Nat, m \in 0 .. base - 1 :
              i < h \/ (i = h /\ m < l) => Then(base, i, m) < Then(base, h, l)
<1>1. Then(base, h, l) \in Nat
  BY DEF Then
<1>2. ASSUME NEW i \in Nat, NEW m \in 0 .. base - 1, i < h
      PROVE  Then(base, i, m) < Then(base, h, l)
  <2>1. PICK d \in Nat : h = i + 1 + d
    <3>1. h - i - 1 \in Nat /\ h = i + 1 + (h - i - 1)
      BY <1>2
    <3> QED BY <3>1
  <2>2. h * base = i * base + base + d * base
    BY <2>1
  <2>3. d * base \in Nat /\ i * base \in Nat
    OBVIOUS
  <2> QED BY <2>2, <2>3 DEF Then
<1>3. ASSUME NEW m \in 0 .. base - 1, m < l
      PROVE  Then(base, h, m) < Then(base, h, l)
  <2>1. h * base \in Nat
    OBVIOUS
  <2> QED BY <1>3, <2>1 DEF Then
<1> QED BY <1>1, <1>2, <1>3
=============================================================================
