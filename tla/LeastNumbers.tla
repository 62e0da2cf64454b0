----------------------------- MODULE LeastNumbers ---------------------------
(* The fact about numbers that the proofs of several components rest on. *)
EXTENDS Integers, WellFoundedInduction, TLAPS

(* Every non-empty set of naturals has a least element. *)
LEMMA LeastElement ==
    ASSUME NEW T, T \subseteq Nat, T # {}
    PROVE  \E m \in T : \A n \in T : m <= n
<1> DEFINE Less == {s \in Nat \X Nat : s[1] < s[2]}
<1>1. IsWellFoundedOn(Less, Nat)
  BY NatLessThanWellFounded DEF OpToRel
<1>2. \E x \in T : \A y \in T : ~ (<<y, x>> \in Less)
  <2> HIDE DEF Less
  <2> QED BY <1>1, WFMin, Zenon
<1>3. PICK m \in T : \A n \in T : ~ (<<n, m>> \in Less)
  BY <1>2
<1>4. \A n \in T : ~ (n < m)
  BY <1>3
<1> QED BY <1>4
=============================================================================
