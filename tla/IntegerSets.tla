----------------------------- MODULE IntegerSets -----------------------------
(***************************************************************************)
(* Facts about finite sets of integers that the proofs about seqs and pages  *)
(* need: the least and the greatest member, and the lowest n of a set, which *)
(* is what ORDER BY ... LIMIT n returns.                                     *)
(***************************************************************************)
EXTENDS FiniteSetsExt, FiniteSetTheorems, TLAPS

(* A property that a finite nonempty set has when it is a singleton, and     *)
(* keeps when an element is added, is had by all: this for "has a greatest   *)
(* member", by the smallest set that has none.                               *)
LEMMA FiniteHasMax ==
  ASSUME NEW S \in SUBSET Int, IsFiniteSet(S), S # {}
  PROVE  \E m \in S : \A x \in S : x <= m
<1> DEFINE Bad == {T \in SUBSET S : T # {} /\ ~\E m \in T : \A x \in T : x <= m}
<1>1. SUFFICES ASSUME Bad # {} PROVE FALSE
  BY <1>1
<1>2. /\ IsWellFoundedOn(StrictSubsetOrdering(S), FiniteSubsetsOf(S))
      /\ FiniteSubsetsOf(S) = SUBSET S
  BY FS_StrictSubsetOrderingWellFounded, FS_FiniteSubsetsOfFinite
<1>3. PICK T \in Bad : \A U \in Bad : <<U, T>> \notin StrictSubsetOrdering(S)
  <2> HIDE DEF Bad
  <2>1. Bad \subseteq FiniteSubsetsOf(S)
    BY <1>2 DEF Bad
  <2> QED
    BY <1>1, <1>2, <2>1, WFMin
<1>4. PICK x \in T : TRUE
  OBVIOUS
<1>5. T \ {x} # {}
  <2>1. SUFFICES ASSUME T \ {x} = {} PROVE FALSE
    OBVIOUS
  <2>2. T = {x} /\ x \in Int
    BY <2>1
  <2>3. \A y \in T : y <= x
    BY <2>2
  <2> QED
    BY <2>3
<1>6. T \ {x} \notin Bad
  BY <1>3 DEF StrictSubsetOrdering
<1>7. PICK m \in T \ {x} : \A y \in T \ {x} : y <= m
  BY <1>5, <1>6
<1>8. m \in Int /\ x \in Int /\ \A y \in T : y \in Int
  OBVIOUS
<1>9. CASE x <= m
  <2>1. \A y \in T : y <= m
    BY <1>7, <1>9
  <2> QED
    BY <2>1
<1>10. CASE m <= x
  <2>1. \A y \in T : y <= x
    BY <1>7, <1>8, <1>10
  <2> QED
    BY <2>1
<1> QED
  BY <1>8, <1>9, <1>10

(* It has a lowest one too. *)
LEMMA FiniteHasMin ==
  ASSUME NEW S \in SUBSET Int, IsFiniteSet(S), S # {}
  PROVE  \E m \in S : \A x \in S : m <= x
<1> DEFINE N == {-x : x \in S}
           Negate == [x \in S |-> -x]
<1>1. N \in SUBSET Int /\ N # {}
  <2>1. \A x \in S : -x \in Int
    OBVIOUS
  <2> QED
    BY <2>1
<1>2. IsFiniteSet(N)
  <2>1. Negate \in Surjection(S, N)
    BY DEF Surjection
  <2> QED
    BY <2>1, FS_Surjection
<1>3. PICK m \in N : \A x \in N : x <= m
  <2> HIDE DEF N
  <2> QED
    BY <1>1, <1>2, FiniteHasMax
<1>4. PICK k \in S : m = -k
  OBVIOUS
<1>5. \A x \in S : k <= x
  <2>1. TAKE x \in S
  <2>2. -x <= -k
    BY <1>3, <1>4
  <2> QED
    BY <2>2
<1> QED
  BY <1>5

(* Max and Min of such a set are its greatest and its least member. *)
LEMMA MaxIs ==
  ASSUME NEW S \in SUBSET Int, NEW m \in S, \A x \in S : x <= m
  PROVE  Max(S) = m
<1>1. Max(S) \in S /\ \A x \in S : Max(S) >= x
  BY DEF Max
<1>2. Max(S) \in Int /\ m \in Int /\ Max(S) >= m /\ Max(S) <= m
  BY <1>1
<1> QED
  BY <1>2

(* Max of a finite, non-empty set is such a one. *)
LEMMA MaxOf ==
  ASSUME NEW S \in SUBSET Int, IsFiniteSet(S), S # {}
  PROVE  Max(S) \in S /\ \A x \in S : x <= Max(S)
<1>1. PICK m \in S : \A x \in S : x <= m
  BY FiniteHasMax
<1> QED
  BY <1>1, MaxIs

(* What is in the set and at most all of it is its Min. *)
LEMMA MinIs ==
  ASSUME NEW S \in SUBSET Int, NEW m \in S, \A x \in S : m <= x
  PROVE  Min(S) = m
<1>1. Min(S) \in S /\ \A x \in S : Min(S) <= x
  BY DEF Min
<1>2. Min(S) \in Int /\ m \in Int /\ Min(S) <= m /\ m <= Min(S)
  BY <1>1
<1> QED
  BY <1>2

(* Min of a finite, non-empty set is such a one. *)
LEMMA MinOf ==
  ASSUME NEW S \in SUBSET Int, IsFiniteSet(S), S # {}
  PROVE  Min(S) \in S /\ \A x \in S : Min(S) <= x
<1>1. PICK m \in S : \A x \in S : m <= x
  BY FiniteHasMin
<1> QED
  BY <1>1, MinIs

(* The n lowest of S: none is left out below one that is taken, and fewer    *)
(* than n are all of S.                                                      *)
LEMMA LowestAreLowest ==
  ASSUME NEW S \in SUBSET Int, IsFiniteSet(S), NEW n \in Nat
  PROVE  LET low == {i \in S : Cardinality({j \in S : j < i}) < n} IN
           /\ \A i \in low : \A j \in S : j < i => j \in low
           /\ Cardinality(low) < n => low = S
           /\ n # 0 /\ S # {} => low # {}
<1> DEFINE Below(i) == {j \in S : j < i}
           low == {i \in S : Cardinality(Below(i)) < n}
<1>0. \A i \in S : i \in Int
  OBVIOUS
<1>1. \A i \in S : /\ IsFiniteSet(Below(i)) /\ Cardinality(Below(i)) \in Nat
  BY FS_Subset, FS_CardinalityType
<1>2. ASSUME NEW i \in low, NEW j \in S, j < i PROVE j \in low
  <2>0. i \in Int /\ j \in Int /\ \A k \in S : k \in Int /\ (k < j => k < i)
    BY <1>0, <1>2
  <2>1. Below(j) \subseteq Below(i)
    BY <2>0
  <2>2. Cardinality(Below(j)) <= Cardinality(Below(i))
    BY <1>1, <2>1, FS_Subset
  <2> QED
    BY <1>1, <2>2
<1>3. ASSUME Cardinality(low) < n, low # S PROVE FALSE
  <2>1. /\ S \ low \in SUBSET Int /\ S \ low # {} /\ IsFiniteSet(S \ low) /\ IsFiniteSet(low)
    BY <1>3, FS_Subset
  <2>2. PICK i \in S \ low : \A x \in S \ low : i <= x
    <3> HIDE DEF low
    <3> QED
      BY <2>1, FiniteHasMin
  <2>3. \A j \in Below(i) : j \in low
    BY <1>0, <2>2
  <2>4. Cardinality(Below(i)) <= Cardinality(low) /\ Cardinality(low) \in Nat
    BY <2>1, <2>3, FS_Subset, FS_CardinalityType
  <2>5. Cardinality(Below(i)) >= n
    BY <1>1
  <2> QED
    BY <1>1, <1>3, <2>4, <2>5
<1>4. ASSUME n # 0, S # {} PROVE low # {}
  <2>1. PICK m \in S : \A x \in S : m <= x
    BY <1>4, FiniteHasMin
  <2>2. \A j \in S : ~(j < m)
    BY <1>0, <2>1
  <2>3. Cardinality(Below(m)) = 0
    BY <2>2, FS_EmptySet
  <2> QED
    BY <1>4, <2>3
<1> QED
  BY <1>2, <1>3, <1>4

(* What holds of 0 and of the successor of each that it holds of, up to n,   *)
(* holds of all of them.                                                     *)
LEMMA UpTo ==
  ASSUME NEW n \in Nat, NEW S, 0 \in S, \A i \in 0..n : i \in S /\ i < n => i + 1 \in S
  PROVE  \A i \in 0..n : i \in S
<1> DEFINE Bad == (0..n) \ S
<1>1. SUFFICES ASSUME Bad # {} PROVE FALSE
  BY <1>1
<1>2. IsFiniteSet(Bad) /\ Bad \in SUBSET Int
  <2>1. IsFiniteSet(0..n)
    BY FS_Interval
  <2> QED
    BY <2>1, FS_Subset
<1>3. PICK m \in Bad : \A i \in Bad : m <= i
  <2> HIDE DEF Bad
  <2> QED
    BY <1>1, <1>2, FiniteHasMin
<1>4. m # 0 /\ m \in 0..n /\ m \notin S
  OBVIOUS
<1>5. m - 1 \in 0..n /\ m - 1 < n /\ m - 1 \notin Bad
  <2>1. m - 1 \in 0..n /\ m - 1 < n /\ ~(m <= m - 1)
    BY <1>4
  <2> QED
    BY <1>3, <2>1
<1>6. m - 1 \in S /\ (m - 1) + 1 = m
  BY <1>4, <1>5
<1> QED
  BY <1>4, <1>5, <1>6
=============================================================================
