----------------------------- MODULE OrderFacts -----------------------------
(***************************************************************************)
(* Facts about numbers and sets that the proofs about several components   *)
(* need.  They take the place of inductions: a least or a largest element  *)
(* is named instead.                                                       *)
(***************************************************************************)
EXTENDS Integers, FiniteSets, Sequences, WellFoundedInduction, FiniteSetTheorems, TLAPS

\* A nonempty set of bounded naturals has a largest element.
LEMMA LargestExists ==
  ASSUME NEW n \in Nat, NEW T \in SUBSET (0 .. n), T # {}
  PROVE  \E m \in T : \A x \in T : x <= m
<1> DEFINE R == OpToRel(<, Nat)
           D == {n - x : x \in T}
<1>1. D \subseteq Nat /\ D # {}
  <2>1. \A x \in T : x \in Int /\ 0 <= x /\ x <= n
    OBVIOUS
  <2>2. \A x \in T : n - x \in Nat
    BY <2>1
  <2> QED BY <2>2
<1>2. IsWellFoundedOn(R, Nat)
  BY NatLessThanWellFounded
<1>3. \E d \in D : \A y \in D : ~ (<<y, d>> \in R)
  <2> HIDE DEF D, R
  <2> QED BY <1>1, <1>2, WFMin
<1>4. PICK d \in D : \A y \in D : ~ (<<y, d>> \in R)
  BY <1>3
<1>5. \A y \in D : ~ (y < d)
  BY <1>1, <1>4 DEF OpToRel
<1>6. PICK m \in T : d = n - m
  BY <1>4
<1>7. ASSUME NEW x \in T PROVE x <= m
  <2>1. n - x \in D
    OBVIOUS
  <2>3. x \in Int /\ m \in Int /\ n \in Int
    OBVIOUS
  <2>2. ~ (n - x < n - m)
    BY <1>5, <1>6, <2>1
  <2> QED BY <2>2, <2>3
<1> QED BY <1>7

\* A nonempty set of naturals has a least element.
LEMMA LeastExists ==
  ASSUME NEW T \in SUBSET Nat, T # {}
  PROVE  \E m \in T : \A x \in T : m <= x
<1> DEFINE R == OpToRel(<, Nat)
<1>1. IsWellFoundedOn(R, Nat)
  BY NatLessThanWellFounded
<1>2. \E m \in T : \A y \in T : ~ (<<y, m>> \in R)
  <2> HIDE DEF R
  <2> QED BY <1>1, WFMin
<1>3. PICK m \in T : \A y \in T : ~ (<<y, m>> \in R)
  BY <1>2
<1>4. \A y \in T : ~ (y < m)
  BY <1>3 DEF OpToRel
<1>5. \A y \in T : y \in Nat /\ m \in Nat
  OBVIOUS
<1> QED BY <1>4, <1>5

\* The places before n that a downward closed condition holds at are 1 to m,
\* and there are m of them: what a loop that drops a prefix has dropped.
LEMMA PrefixSet ==
  ASSUME NEW n \in Nat, NEW T \in SUBSET (1 .. n),
         \A i \in T : \A j \in 1 .. i : j \in T
  PROVE  \E m \in 0 .. n : T = 1 .. m /\ Cardinality(T) = m
<1>1. CASE T = {}
  BY <1>1, FS_EmptySet
<1>2. CASE T # {}
  <2>1. T \in SUBSET (0 .. n)
    OBVIOUS
  <2>2. PICK m \in T : \A x \in T : x <= m
    BY <1>2, <2>1, LargestExists
  <2>3. m \in 1 .. n
    OBVIOUS
  <2>4. T = 1 .. m
    <3>1. \A j \in 1 .. m : j \in T
      OBVIOUS
    <3>2. \A x \in T : x \in 1 .. m
      BY <2>2, <2>3
    <3> QED BY <3>1, <3>2
  <2>5. Cardinality(1 .. m) = m
    BY <2>3, FS_Interval
  <2> QED BY <2>3, <2>4, <2>5
<1> QED BY <1>1, <1>2
=============================================================================
