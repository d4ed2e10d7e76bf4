------------------------------ MODULE OrderLemmas ------------------------------
(***************************************************************************)
(* Facts about sets of numbers that the proofs share: least and greatest   *)
(* members, and the member of a given rank.  They rest on the order of the *)
(* naturals being well founded, which stands in for induction here.        *)
(***************************************************************************)
EXTENDS Integers, FiniteSetsExt, FiniteSetTheorems, WellFoundedInduction, TLAPS

Less == OpToRel(<, Nat)

LEMMA LessIsLess == \A x, y \in Nat : y < x => <<y, x>> \in Less
<1>1. Less = {p \in Nat \X Nat : p[1] < p[2]}
  BY DEF Less, OpToRel
<1> HIDE DEF Less
<1>2. ASSUME NEW x \in Nat, NEW y \in Nat, y < x
      PROVE  <<y, x>> \in Less
  BY <1>1, <1>2
<1> QED
  BY <1>2

\* A list that is not empty has a first record.
LEMMA MinExists ==
  ASSUME NEW list \in SUBSET Nat, list # {}
  PROVE  Min(list) \in list /\ \A x \in list : Min(list) <= x
<1>1. IsWellFoundedOn(Less, Nat)
  BY NatLessThanWellFounded DEF Less
<1>2. PICK least \in list : \A x \in list : ~ (<<x, least>> \in Less)
  BY <1>1, WFMin, Zenon
<1>3. \A x \in list : least <= x
  <2> TAKE x \in list
  <2>1. least \in Nat /\ x \in Nat /\ ~ (x < least)
    BY <1>2, LessIsLess
  <2> QED
    BY <2>1
<1> QED
  BY <1>3 DEF Min

\* A set of numbers with a bound has a greatest one.
LEMMA MaxExists ==
  ASSUME NEW set \in SUBSET Nat, set # {}, NEW n \in Nat, \A x \in set : x <= n
  PROVE  Max(set) \in set /\ \A x \in set : Max(set) >= x
<1> DEFINE gaps == {n - x : x \in set}
<1>1. \A x \in set : x \in Nat /\ x <= n
  OBVIOUS
<1>2. \A x \in set : n - x \in Nat
  BY <1>1
<1>3. gaps \in SUBSET Nat /\ gaps # {}
  BY <1>2
<1>4. Min(gaps) \in gaps /\ \A gap \in gaps : Min(gaps) <= gap
  BY <1>3, MinExists
<1>5. PICK most \in set : n - most = Min(gaps)
  BY <1>4
<1>6. \A x \in set : n - most <= n - x
  BY <1>4, <1>5
<1>7. \A x \in set : most >= x
  BY <1>1, <1>6
<1> QED
  BY <1>7 DEF Max

\* How many members of a set come up to a number.
UpTo(set, k) == Cardinality({j \in set : j <= k})

\* In a set of n numbers and more there is one of rank n.
LEMMA RankReached ==
  ASSUME NEW len \in Nat, NEW places \in SUBSET (1 .. len), NEW n \in 1 .. Cardinality(places)
  PROVE  \E k \in places : UpTo(places, k) = n
<1> DEFINE late == {k \in 0 .. len : UpTo(places, k) >= n}
<1>0. \A j \in places : j \in Int /\ 1 <= j /\ j <= len
  OBVIOUS
<1>1. IsFiniteSet(places) /\ Cardinality(places) \in Nat
  <2>1. IsFiniteSet(1 .. len)
    BY FS_Interval
  <2> QED
    BY <2>1, FS_Subset, FS_CardinalityType
<1>2. ASSUME NEW k \in Int
      PROVE  IsFiniteSet({j \in places : j <= k}) /\ UpTo(places, k) \in Nat
  <2>1. {j \in places : j <= k} \in SUBSET places
    OBVIOUS
  <2> QED
    BY <1>1, <2>1, FS_Subset, FS_CardinalityType DEF UpTo
<1> HIDE DEF UpTo
<1>3. {j \in places : j <= len} = places
  BY <1>0
<1>4. UpTo(places, len) = Cardinality(places)
  BY <1>3 DEF UpTo
<1>5. len \in late /\ late \in SUBSET Nat
  BY <1>1, <1>4
<1>6. Min(late) \in late /\ \A k \in late : Min(late) <= k
  BY <1>5, MinExists
<1>7. PICK k \in late : \A i \in late : k <= i
  BY <1>6
<1>8. k \in 0 .. len /\ UpTo(places, k) >= n
  OBVIOUS
<1>9. \A i \in 0 .. len : UpTo(places, i) >= n => k <= i
  BY <1>7
<1> HIDE DEF late
<1>10. k # 0
  <2>0. \A j \in places : ~ (j <= 0)
    BY <1>0
  <2>1. {j \in places : j <= 0} = {}
    BY <2>0
  <2>2. UpTo(places, 0) = 0
    BY <2>1, FS_EmptySet DEF UpTo
  <2> QED
    BY <1>8, <2>2
<1>11. k - 1 \in 0 .. len /\ UpTo(places, k - 1) < n
  <2>1. k - 1 \in 0 .. len /\ ~ (k <= k - 1)
    BY <1>8, <1>10
  <2>2. ~ (UpTo(places, k - 1) >= n)
    BY <1>9, <2>1
  <2>3. k - 1 \in Int
    BY <2>1
  <2>4. UpTo(places, k - 1) \in Nat
    BY <1>2, <2>3
  <2> QED
    BY <2>1, <2>2, <2>4
<1> DEFINE before == {j \in places : j <= k - 1}
<1>12. {j \in places : j <= k} = IF k \in places THEN before \cup {k} ELSE before
  <2>1. k \in Int
    BY <1>8
  <2>2. \A j \in places : j <= k <=> j <= k - 1 \/ j = k
    BY <1>0, <2>1
  <2> QED
    BY <2>2
<1>13. k \notin before /\ IsFiniteSet(before) /\ Cardinality(before) = UpTo(places, k - 1)
  <2>1. k \in Int /\ k - 1 \in Int /\ ~ (k <= k - 1)
    BY <1>8
  <2>2. IsFiniteSet(before)
    BY <1>2, <2>1
  <2>3. Cardinality(before) = UpTo(places, k - 1)
    BY DEF UpTo
  <2> QED
    BY <2>1, <2>2, <2>3
<1>14. UpTo(places, k) = IF k \in places THEN UpTo(places, k - 1) + 1 ELSE UpTo(places, k - 1)
  BY <1>12, <1>13, FS_AddElement DEF UpTo
<1>15. UpTo(places, k - 1) \in Nat /\ UpTo(places, k) \in Nat
  <2>1. k \in Int /\ k - 1 \in Int
    BY <1>8
  <2>2. UpTo(places, k) \in Nat
    BY <1>2, <2>1
  <2>3. UpTo(places, k - 1) \in Nat
    BY <1>2, <2>1
  <2> QED
    BY <2>2, <2>3
<1> QED
  BY <1>8, <1>11, <1>14, <1>15
===============================================================================
