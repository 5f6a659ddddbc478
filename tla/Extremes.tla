------------------------------ MODULE Extremes ------------------------------
(* The least and the greatest member of a bounded set of natural numbers.     *)
EXTENDS Integers, FiniteSetsExt, WellFoundedInduction, TLAPS

Before == {p \in Nat \X Nat : p[1] < p[2]}

\* Every nonempty set of natural numbers has a least member.
LEMMA LeastExists == ASSUME NEW T \in SUBSET Nat, T # {} PROVE \E x \in T : \A y \in T : x <= y
  <1>1. IsWellFoundedOn(Before, Nat)
    BY NatLessThanWellFounded DEF OpToRel, Before
  <1>2. PICK x \in T : \A y \in T : ~ (<<y, x>> \in Before)
    BY <1>1, WFMin
  <1>3. \A y \in T : x <= y
    <2> TAKE y \in T
    <2>1. x \in Nat /\ y \in Nat /\ <<y, x>> \notin Before
      BY <1>2
    <2>2. ~ (y < x)
      BY <2>1 DEF Before
    <2> QED
      BY <2>1, <2>2
  <1> QED
    BY <1>3

\* So has every nonempty bounded one a greatest.
LEMMA GreatestExists ==
    ASSUME NEW n \in Nat, NEW S \in SUBSET (0 .. n), S # {}
    PROVE  \E x \in S : \A y \in S : x >= y
  <1> DEFINE Mirror == {n - x : x \in S}
  <1>1. \A x \in S : n - x \in Nat
    OBVIOUS
  <1>2. Mirror \in SUBSET Nat /\ Mirror # {}
    BY <1>1
  <1>3. PICK m \in Mirror : \A k \in Mirror : m <= k
    BY <1>2, LeastExists
  <1>4. PICK x \in S : m = n - x
    BY <1>3
  <1>5. \A y \in S : n - x <= n - y
    BY <1>3, <1>4
  <1> QED
    BY <1>5

\* Min and Max of a bounded set are members of it.
LEMMA MinMaxAreMembers ==
    ASSUME NEW n \in Nat, NEW S \in SUBSET (0 .. n), S # {}
    PROVE  Min(S) \in S /\ Max(S) \in S
  <1>1. \E x \in S : \A y \in S : x <= y
    BY LeastExists
  <1> QED
    BY <1>1, GreatestExists DEF Min, Max
=============================================================================
