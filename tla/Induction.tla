----------------------------- MODULE Induction -----------------------------
(***************************************************************************)
(* Induction over the naturals stated with sets, so that a proof can use   *)
(* it: the set of the numbers a fact holds of takes the place of the fact. *)
(***************************************************************************)
EXTENDS Naturals, WellFoundedInduction, TLAPS

\* A non-empty set of naturals has a least element.
LEMMA LeastNatural ==
    ASSUME NEW T \in SUBSET Nat, T # {}
    PROVE  \E x \in T : \A y \in T : x <= y
<1> DEFINE R == OpToRel(<, Nat)
<1>1. \A x, y \in Nat : <<y, x>> \in R <=> y < x
  BY DEF OpToRel
<1>2. IsWellFoundedOn(R, Nat)
  BY NatLessThanWellFounded
<1> HIDE DEF R
<1>3. \E x \in T : \A y \in T : ~ (<<y, x>> \in R)
  BY <1>2, WFMin
<1>4. PICK x \in T : \A y \in T : ~ (<<y, x>> \in R)
  BY <1>3
<1>5. \A y \in T : ~ (y < x)
  BY <1>1, <1>4
<1>6. QED
  BY <1>5

\* A set that holds m and, with a number below n, its successor holds m..n.
LEMMA IntervalInduction ==
    ASSUME NEW m \in Nat, NEW n \in Nat, NEW S, m \in S,
           \A i \in m..n : i < n /\ i \in S => i + 1 \in S
    PROVE  \A i \in m..n : i \in S
<1> DEFINE T == {i \in m..n : i \notin S}
<1> SUFFICES ASSUME T # {} PROVE FALSE
  OBVIOUS
<1>0. T \in SUBSET Nat
  OBVIOUS
<1>1. PICK i \in T : \A k \in T : i <= k
  <2> HIDE DEF T
  <2>1. QED
    BY <1>0, LeastNatural
<1>2. i # m /\ i \in m..n
  BY <1>1
<1>3. i - 1 \in m..n /\ i - 1 < n /\ i - 1 \notin T
  BY <1>1, <1>2
<1>4. i - 1 \in S
  BY <1>3
<1>5. (i - 1) + 1 = i
  BY <1>2
<1>6. QED
  BY <1>1, <1>3, <1>4, <1>5

\* A non-empty set of numbers up to n has a greatest element.
LEMMA GreatestNatural ==
    ASSUME NEW n \in Nat, NEW T \in SUBSET (0..n), T # {}
    PROVE  \E x \in T : \A y \in T : y <= x
<1> DEFINE D == {n - x : x \in T}
<1>1. D \in SUBSET Nat /\ D # {}
  <2>1. \A x \in T : n - x \in Nat
    OBVIOUS
  <2>2. PICK x : x \in T
    OBVIOUS
  <2>3. n - x \in D
    BY <2>2
  <2> QED BY <2>1, <2>3
<1>2. PICK k \in D : \A j \in D : k <= j
  <2> HIDE DEF D
  <2> QED BY <1>1, LeastNatural
<1>3. PICK x \in T : k = n - x
  OBVIOUS
<1>4. ASSUME NEW y \in T PROVE y <= x
  <2>1. k <= n - y
    BY <1>2
  <2> QED BY <1>3, <2>1
<1> QED BY <1>4
=============================================================================
