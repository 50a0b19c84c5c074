---------------------------- MODULE NatInduction ----------------------------
(* Induction on naturals, for a set instead of a predicate: the provers can   *)
(* instantiate a set. What the recursive definitions of the other modules     *)
(* compute is proved with it.                                                *)
EXTENDS Naturals, TLAPS, WellFoundedInduction

(* A non-empty set of naturals has a least element.                           *)
LEMMA LeastNumber ==
  ASSUME NEW S \in SUBSET Nat, S # {}
  PROVE  \E m \in S : \A k \in S : m <= k
<1>1. PICK m \in S : \A k \in S : ~ (<<k, m>> \in OpToRel(<, Nat))
  BY WFMin, NatLessThanWellFounded
<1>2. \A k \in S : k < m => <<k, m>> \in OpToRel(<, Nat)
  BY DEF OpToRel
<1>3. \A k \in S : ~ (k < m)
  BY <1>1, <1>2, Zenon
<1>. QED
  BY <1>3

(* A set that holds 0 and the successor of each number it holds, holds all.   *)
LEMMA SetInduction ==
  ASSUME NEW S, 0 \in S, \A n \in Nat : n \in S => n + 1 \in S
  PROVE  \A n \in Nat : n \in S
<1>. DEFINE T == { n \in Nat : n \notin S }
<1>. SUFFICES ASSUME T # {} PROVE FALSE
  OBVIOUS
<1>1. PICK m \in T : \A k \in T : m <= k
  BY LeastNumber
<1>2. m # 0 /\ m - 1 \in Nat
  OBVIOUS
<1>3. m - 1 \in S
  BY <1>1, <1>2
<1>. QED
  BY <1>2, <1>3
=============================================================================
