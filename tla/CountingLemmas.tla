---------------------------- MODULE CountingLemmas ----------------------------
(***************************************************************************)
(* Lemmas about numbers that the proofs of several modules rest on: least  *)
(* and greatest elements, induction over a set of numbers, and indexes     *)
(* that wrap around.                                                       *)
(***************************************************************************)
EXTENDS Integers, FiniteSetsExt, FiniteSetTheorems, WellFoundedInduction, TLAPS

\* A nonempty set of numbers up to n has a least element, which is its Min.
LEMMA MinIsLeast ==
  ASSUME NEW n \in Nat, NEW S, S \subseteq 1..n, S # {}
  PROVE  Min(S) \in S /\ \A x \in S : Min(S) <= x
  <1> DEFINE T == {1..x : x \in S}
  <1>1. IsFiniteSet(1..n)
    BY FS_Interval
  <1>2. \A x \in S : x \in Nat /\ 1..x \in SUBSET (1..n)
    OBVIOUS
  <1>3. \E A \in T : \A B \in T : ~ (<<B, A>> \in StrictSubsetOrdering(1..n))
    <2>1. T # {}
      OBVIOUS
    <2>2. T \subseteq FiniteSubsetsOf(1..n)
      BY <1>1, <1>2, FS_Subset DEF FiniteSubsetsOf
    <2> HIDE DEF T
    <2> QED
      BY <2>1, <2>2, FS_StrictSubsetOrderingWellFounded, WFMin
  <1>4. PICK x \in S : \A y \in S : ~ (<<1..y, 1..x>> \in StrictSubsetOrdering(1..n))
    BY <1>3
  <1>5. ASSUME NEW y \in S PROVE x <= y
    <2>1. 1..y \subseteq 1..x => 1..y = 1..x
      BY <1>2, <1>4 DEF StrictSubsetOrdering
    <2>2. x \in Nat /\ y \in Nat /\ x > 0
      OBVIOUS
    <2>3. x \in 1..x /\ (y < x => x \notin 1..y /\ 1..y \subseteq 1..x)
      BY <2>2
    <2> QED
      BY <2>1, <2>2, <2>3
  <1> QED
    BY <1>5 DEF Min

\* A set of numbers that has 0, and the successor of each number it has, has them
\* all.
LEMMA CountingUp ==
  ASSUME NEW S, 0 \in S, \A n \in Nat : n \in S => n + 1 \in S
  PROVE  \A n \in Nat : n \in S
  <1> SUFFICES ASSUME NEW n \in Nat, n \notin S PROVE FALSE
    OBVIOUS
  <1> DEFINE T == {i \in 1..n : i \notin S}
             x == Min(T)
  <1>1. T \subseteq 1..n /\ T # {}
    OBVIOUS
  <1>2. x \in T /\ \A y \in T : x <= y
    <2> HIDE DEF T
    <2> QED
      BY <1>1, MinIsLeast
  <1> HIDE DEF x
  <1>3. x \in 1..n /\ x - 1 \in Nat /\ x \notin S
    BY <1>2
  <1>4. x - 1 \in S
    BY <1>2, <1>3
  <1> QED
    BY <1>3, <1>4

\* The greatest of some of the numbers up to n is n if it is one of them.
LEMMA MaxOfInterval ==
  ASSUME NEW n \in Nat, NEW d \in SUBSET (1..n), n \in d
  PROVE  Max(d) = n
  <1>1. \A y \in d : n >= y
    OBVIOUS
  <1>2. ASSUME NEW x \in d, \A y \in d : x >= y PROVE x = n
    BY <1>2
  <1>3. \E x \in d : \A y \in d : x >= y
    BY <1>1
  <1> DEFINE x == CHOOSE x \in d : \A y \in d : x >= y
  <1>4. x \in d /\ \A y \in d : x >= y
    BY <1>3
  <1>5. x = n
    <2> HIDE DEF x
    <2> QED
      BY <1>2, <1>4
  <1> QED
    BY <1>5 DEF Max

\* An index that has left its range once is back in it.
LEMMA ModOnce ==
  ASSUME NEW n \in Nat \ {0}, NEW a \in Int, a > -n, a < 2 * n
  PROVE  a % n = IF a < 0 THEN a + n ELSE IF a < n THEN a ELSE a - n
  <1>1. CASE a < 0
    BY <1>1, Z3
  <1>2. CASE a \in 0..n - 1
    BY <1>2, Z3
  <1>3. CASE a >= n
    BY <1>3, Z3
  <1> QED
    BY <1>1, <1>2, <1>3
==============================================================================
