------------------------------- MODULE SeqLemmas -------------------------------
(***************************************************************************)
(* Facts that the proofs of several modules use: about sequences, induction *)
(* over the natural numbers, the sets of indices of IndexSets, and rows that *)
(* stay in a sequence while others are deleted and inserted.               *)
(***************************************************************************)
EXTENDS Integers, SequencesExt, IndexSets, SequenceTheorems, FiniteSetTheorems,
        TLAPS

(* The length of a sequence, and when it is empty.                         *)
LEMMA SeqLen ==
    ASSUME NEW S, NEW s \in Seq(S)
    PROVE  /\ Len(s) \in Nat
           /\ DOMAIN s = 1 .. Len(s)
           /\ s = <<>> <=> Len(s) = 0
BY LenProperties, EmptySeq

(* Removing an element leaves a sequence that is one shorter, in which the *)
(* elements behind it have moved up.                                       *)
LEMMA RemoveAtSeq ==
    ASSUME NEW S, NEW s \in Seq(S), NEW i \in DOMAIN s
    PROVE  /\ RemoveAt(s, i) \in Seq(S)
           /\ Len(RemoveAt(s, i)) = Len(s) - 1
           /\ \A j \in 1 .. Len(s) - 1 :
                 RemoveAt(s, i)[j] = IF j < i THEN s[j] ELSE s[j + 1]
<1> DEFINE a == SubSeq(s, 1, i - 1)
           b == SubSeq(s, i + 1, Len(s))
<1>1. i \in 1 .. Len(s) /\ Len(s) \in Nat
  BY SeqLen
<1>2. a \in Seq(S) /\ Len(a) = i - 1 /\ \A j \in 1 .. i - 1 : a[j] = s[j]
  BY <1>1
<1>3. /\ b \in Seq(S) /\ Len(b) = Len(s) - i
      /\ \A j \in 1 .. Len(s) - i : b[j] = s[i + j]
  BY <1>1
<1>4. RemoveAt(s, i) = a \o b
  BY DEF RemoveAt
<1> HIDE DEF a, b
<1>5. /\ a \o b \in Seq(S) /\ Len(a \o b) = Len(s) - 1
      /\ \A j \in 1 .. Len(s) - 1 :
            (a \o b)[j] = IF j <= i - 1 THEN a[j] ELSE b[j - (i - 1)]
  <2>1. Len(a) + Len(b) = Len(s) - 1
    BY <1>1, <1>2, <1>3
  <2>2. /\ a \o b \in Seq(S) /\ Len(a \o b) = Len(a) + Len(b)
        /\ \A j \in 1 .. Len(a) + Len(b) :
              (a \o b)[j] = IF j <= Len(a) THEN a[j] ELSE b[j - Len(a)]
    BY <1>2, <1>3, ConcatProperties, ZenonT(30)
  <2>3. Len(a) = i - 1
    BY <1>2
  <2> QED  BY <2>1, <2>2, <2>3, Zenon
<1>6. ASSUME NEW j \in 1 .. Len(s) - 1
      PROVE  (a \o b)[j] = IF j < i THEN s[j] ELSE s[j + 1]
  <2>1. CASE j < i
    BY <1>1, <1>2, <1>5, <2>1
  <2>2. CASE ~(j < i)
    <3>1. j - (i - 1) \in 1 .. Len(s) - i /\ i + (j - (i - 1)) = j + 1
      BY <1>1, <2>2
    <3>2. b[j - (i - 1)] = s[i + (j - (i - 1))]
      BY <1>3, <3>1
    <3>3. (a \o b)[j] = b[j - (i - 1)]
      <4>1. ~(j <= i - 1)
        BY <1>1, <2>2
      <4> QED  BY <1>5, <4>1, Zenon
    <3> QED  BY <2>2, <3>1, <3>2, <3>3
  <2> QED  BY <2>1, <2>2
<1> QED  BY <1>4, <1>5, <1>6

(* Replacing an element by one of the same set.                            *)
LEMMA ReplaceAtSeq ==
    ASSUME NEW S, NEW s \in Seq(S), NEW i \in DOMAIN s, NEW e \in S
    PROVE  /\ [s EXCEPT ![i] = e] \in Seq(S)
           /\ Len([s EXCEPT ![i] = e]) = Len(s)
           /\ \A j \in 1 .. Len(s) :
                 [s EXCEPT ![i] = e][j] = IF j = i THEN e ELSE s[j]
BY SeqLen, ExceptSeq

(* A function on 1 .. n with values in S is a sequence over S.             *)
LEMMA FunctionIsSeq ==
    ASSUME NEW S, NEW n \in Nat, NEW f \in [1 .. n -> S]
    PROVE  f \in Seq(S) /\ Len(f) = n
BY SeqDef

(* Every set of natural numbers has a least element.  The library's        *)
(* least-number principle is about an operator, which no prover here can   *)
(* instantiate; this one, about a set, follows from the finite sets        *)
(* 0 .. k, which are well-founded by inclusion.                            *)
LEMMA LeastNat ==
    ASSUME NEW T \in SUBSET Nat, T # {}
    PROVE  \E m \in T : \A k \in T : m <= k
<1> DEFINE R == StrictSubsetOrdering(Nat)
           U == {0 .. k : k \in T}
<1>1. U \subseteq FiniteSubsetsOf(Nat) /\ U # {}
  <2>1. ASSUME NEW k \in T PROVE 0 .. k \in SUBSET Nat /\ IsFiniteSet(0 .. k)
    BY FS_Interval
  <2> QED  BY <2>1 DEF FiniteSubsetsOf
<1>2. IsWellFoundedOn(R, FiniteSubsetsOf(Nat))
  BY FS_StrictSubsetOrderingWellFounded
<1> HIDE DEF R
<1>3. PICK x \in U : \A y \in U : ~(<<y, x>> \in R)
  BY <1>1, <1>2, WFMin
<1>4. PICK m \in T : x = 0 .. m
  OBVIOUS
<1>5. ASSUME NEW k \in T PROVE m <= k
  <2> SUFFICES ASSUME k < m PROVE FALSE
    OBVIOUS
  <2>1. <<0 .. k, 0 .. m>> \in R
    BY DEF R, StrictSubsetOrdering
  <2> QED  BY <1>3, <1>4, <2>1
<1> QED  BY <1>5

(* Induction up to n, for a set of numbers.                                *)
LEMMA UpTo ==
    ASSUME NEW n \in Nat, NEW T, 0 \in T, \A i \in 1 .. n : i - 1 \in T => i \in T
    PROVE  0 .. n \subseteq T
<1> DEFINE C == {i \in 0 .. n : i \notin T}
<1> SUFFICES ASSUME C # {} PROVE FALSE
  OBVIOUS
<1>1. C \in SUBSET Nat
  OBVIOUS
<1>2. PICK m \in C : \A k \in C : m <= k
  <2> HIDE DEF C
  <2> QED  BY <1>1, LeastNat
<1>3. m \in 1 .. n /\ m - 1 \in 0 .. n /\ m - 1 \notin C
  BY <1>2
<1> QED  BY <1>3

(* A set of numbers up to n has a greatest element.                        *)
LEMMA GreatestNat ==
    ASSUME NEW n \in Nat, NEW T \in SUBSET (0 .. n), T # {}
    PROVE  \E m \in T : \A k \in T : k <= m
<1> DEFINE D == {n - k : k \in T}
<1>1. D \in SUBSET Nat /\ D # {}
  <2>1. \A k \in T : n - k \in Nat
    OBVIOUS
  <2>2. PICK k \in T : TRUE
    OBVIOUS
  <2>3. n - k \in D
    OBVIOUS
  <2> QED  BY <2>1, <2>3
<1>2. PICK d \in D : \A e \in D : d <= e
  <2> HIDE DEF D
  <2> QED  BY <1>1, LeastNat
<1>3. PICK m \in T : d = n - m
  OBVIOUS
<1>4. ASSUME NEW k \in T PROVE k <= m
  <2>1. n - k \in D
    OBVIOUS
  <2>2. d <= n - k
    BY <1>2, <2>1
  <2> QED  BY <1>3, <2>2
<1> QED  BY <1>4

-----------------------------------------------------------------------------
(* Counting past a finite set of indices *)

\* The sets an IndexSet can hold.
Indices == {S \in SUBSET Nat : \E n \in Nat : \A x \in S : x <= n}

\* Such a set is finite.
LEMMA IndicesFinite ==
  ASSUME NEW S \in Indices
  PROVE  S \subseteq Nat /\ IsFiniteSet(S)
<1>1. PICK n \in Nat : S \subseteq 0 .. n
  BY DEF Indices
<1>2. IsFiniteSet(0 .. n)
  BY FS_Interval
<1> QED  BY <1>1, <1>2, FS_Subset DEF Indices

\* What count(0, x) returns: at most x, and at most the size of the set.
LEMMA BelowType ==
  ASSUME NEW S \in Indices, NEW x \in Nat
  PROVE  /\ Below(S, x) \in 0 .. x /\ Below(S, x) <= Cardinality(S)
         /\ Cardinality(S) \in Nat
<1> DEFINE B == {j \in S : j < x}
<1>1. IsFiniteSet(S) /\ S \subseteq Nat
  BY IndicesFinite
<1>2. B \subseteq 0 .. x - 1 /\ IsFiniteSet(0 .. x - 1) /\ Cardinality(0 .. x - 1) = x
  <2>1. IsFiniteSet(0 .. x - 1) /\ Cardinality(0 .. x - 1) = IF 0 > x - 1 THEN 0 ELSE (x - 1) - 0 + 1
    BY FS_Interval
  <2>2. B \subseteq 0 .. x - 1
    <3>1. \A j \in B : j \in 0 .. x - 1
      BY <1>1
    <3> QED  BY <3>1
  <2>3. Cardinality(0 .. x - 1) = x
    BY <2>1
  <2>4. IsFiniteSet(0 .. x - 1)
    BY <2>1
  <2> HIDE DEF B
  <2> QED  BY <2>2, <2>3, <2>4
<1>3. IsFiniteSet(B) /\ Cardinality(B) <= x
  BY <1>2, FS_Subset
<1>4. Cardinality(B) \in Nat /\ Cardinality(S) \in Nat
  BY <1>1, <1>3, FS_CardinalityType
<1>5. Cardinality(B) <= Cardinality(S)
  BY <1>1, FS_Subset
<1>6. Below(S, x) = Cardinality(B)
  BY DEF Below
<1> HIDE DEF B
<1> QED  BY <1>3, <1>4, <1>5, <1>6

\* Unshifting an index gives one that is no larger.
LEMMA UnshiftType ==
  ASSUME NEW S \in Indices, NEW x \in Nat
  PROVE  Unshift(S, x) \in 0 .. x /\ x <= Unshift(S, x) + Cardinality(S)
BY BelowType DEF Unshift

\* From one index to the next, unshift goes on by one, past a member it stays.
LEMMA UnshiftStep ==
  ASSUME NEW S \in Indices
  PROVE  /\ Unshift(S, 0) = 0
         /\ \A x \in Nat : Unshift(S, x + 1) = IF x \in S THEN Unshift(S, x)
                                               ELSE Unshift(S, x) + 1
<1>1. Unshift(S, 0) = 0
  BY UnshiftType
<1>2. ASSUME NEW x \in Nat
      PROVE  Unshift(S, x + 1) = IF x \in S THEN Unshift(S, x) ELSE Unshift(S, x) + 1
  <2> DEFINE B == {j \in S : j < x}
             C == {j \in S : j < x + 1}
  <2>1. S \subseteq Nat /\ IsFiniteSet(S)
    BY IndicesFinite
  <2>2. IsFiniteSet(B) /\ Cardinality(B) \in Nat
    BY <2>1, FS_Subset, FS_CardinalityType
  <2>3. x \notin B
    BY <2>1
  <2>4. C = IF x \in S THEN B \cup {x} ELSE B
    <3>1. \A j \in Nat : j < x + 1 <=> j < x \/ j = x
      OBVIOUS
    <3>2. \A j : j \in C <=> j \in B \/ (j = x /\ x \in S)
      BY <2>1, <3>1
    <3> HIDE DEF B, C
    <3> QED  BY <3>2
  <2>5. Cardinality(C) = IF x \in S THEN Cardinality(B) + 1 ELSE Cardinality(B)
    <3> HIDE DEF B, C
    <3>1. Cardinality(B \cup {x}) = Cardinality(B) + 1
      BY <2>2, <2>3, FS_AddElement
    <3> QED  BY <2>4, <3>1
  <2>6. Below(S, x) = Cardinality(B) /\ Below(S, x + 1) = Cardinality(C)
    BY DEF Below
  <2> DEFINE b == Cardinality(B)
             c == Cardinality(C)
  <2>7. b \in Nat /\ c = IF x \in S THEN b + 1 ELSE b
    BY <2>2, <2>5
  <2>8. Unshift(S, x) = x - b /\ Unshift(S, x + 1) = (x + 1) - c
    <3> HIDE DEF B, C
    <3> QED  BY <2>6 DEF Unshift
  <2> HIDE DEF b, c
  <2>9. CASE x \in S
    BY <2>7, <2>8, <2>9
  <2>10. CASE x \notin S
    BY <2>7, <2>8, <2>10
  <2> QED  BY <2>9, <2>10
<1> QED  BY <1>1, <1>2

\* Whoever counts like Unshift is Unshift.
LEMMA UnshiftUnique ==
  ASSUME NEW S \in Indices, NEW n \in Nat, NEW u, u[0] = 0,
         \A x \in 0 .. n - 1 : u[x + 1] = IF x \in S THEN u[x] ELSE u[x] + 1
  PROVE  \A x \in 0 .. n : Unshift(S, x) = u[x]
<1> DEFINE T == {x \in 0 .. n : Unshift(S, x) = u[x]}
<1>1. 0 \in T
  BY UnshiftStep
<1>2. ASSUME NEW x \in 1 .. n, x - 1 \in T PROVE x \in T
  <2>1. x - 1 \in 0 .. n - 1 /\ x - 1 \in Nat /\ (x - 1) + 1 = x /\ Unshift(S, x - 1) = u[x - 1]
    BY <1>2
  <2>2. u[(x - 1) + 1] = IF x - 1 \in S THEN u[x - 1] ELSE u[x - 1] + 1
    BY <2>1
  <2>3. Unshift(S, (x - 1) + 1) = IF x - 1 \in S THEN Unshift(S, x - 1) ELSE Unshift(S, x - 1) + 1
    BY <2>1, UnshiftStep
  <2> QED  BY <2>1, <2>2, <2>3
<1>3. 0 .. n \subseteq T
  <2> HIDE DEF T
  <2> QED  BY <1>1, <1>2, UpTo
<1> QED  BY <1>3

\* It grows with the index, and slower for a larger set.
LEMMA UnshiftGrows ==
  ASSUME NEW T \in Indices, NEW S \in SUBSET T, NEW p \in Nat, NEW q \in Nat, p <= q
  PROVE  /\ S \in Indices
         /\ Unshift(T, p) <= Unshift(T, q)
         /\ Unshift(T, q) - Unshift(T, p) <= Unshift(S, q) - Unshift(S, p)
<1> DEFINE A == {d \in 0 .. q - p :
                   /\ Unshift(T, p) <= Unshift(T, p + d)
                   /\ Unshift(T, p + d) - Unshift(T, p) <= Unshift(S, p + d) - Unshift(S, p)}
<1>1. S \in Indices
  BY DEF Indices
<1>2. \A x \in Nat : Unshift(S, x) \in Nat /\ Unshift(T, x) \in Nat
  BY <1>1, UnshiftType
<1>3. 0 \in A
  BY <1>2
<1>4. ASSUME NEW d \in 1 .. q - p, d - 1 \in A PROVE d \in A
  <2> DEFINE x == p + (d - 1)
  <2>1. x \in Nat /\ x + 1 = p + d
    OBVIOUS
  <2>2. /\ Unshift(T, p) <= Unshift(T, x)
        /\ Unshift(T, x) - Unshift(T, p) <= Unshift(S, x) - Unshift(S, p)
    BY <1>4
  <2>3. /\ Unshift(T, x + 1) = IF x \in T THEN Unshift(T, x) ELSE Unshift(T, x) + 1
        /\ Unshift(S, x + 1) = IF x \in S THEN Unshift(S, x) ELSE Unshift(S, x) + 1
    BY <1>1, <2>1, UnshiftStep
  <2> HIDE DEF x
  <2>4. /\ Unshift(T, p) <= Unshift(T, x + 1)
        /\ Unshift(T, x + 1) - Unshift(T, p) <= Unshift(S, x + 1) - Unshift(S, p)
    BY <1>2, <2>1, <2>2, <2>3
  <2> QED  BY <2>1, <2>4
<1>5. q - p \in A
  <2> HIDE DEF A
  <2> QED  BY <1>3, <1>4, UpTo
<1> QED  BY <1>1, <1>5

\* Unshift keeps the order of the indices outside the set ...
LEMMA UnshiftStrict ==
  ASSUME NEW S \in Indices, NEW p \in Nat, NEW q \in Nat, p < q, p \notin S
  PROVE  Unshift(S, p) < Unshift(S, q)
<1>1. Unshift(S, p + 1) = Unshift(S, p) + 1
  BY UnshiftStep
<1>2. Unshift(S, p + 1) <= Unshift(S, q)
  BY UnshiftGrows
<1>3. Unshift(S, p) \in Nat /\ Unshift(S, q) \in Nat
  BY UnshiftType
<1> QED  BY <1>1, <1>2, <1>3

\* ... so no two of them are unshifted to the same one.
LEMMA UnshiftInjective ==
  ASSUME NEW S \in Indices, NEW p \in Nat \ S, NEW q \in Nat \ S,
         Unshift(S, p) = Unshift(S, q)
  PROVE  p = q
<1>1. Unshift(S, p) \in Nat /\ Unshift(S, q) \in Nat
  BY UnshiftType
<1>2. p < q => FALSE
  BY <1>1, UnshiftStrict
<1>3. q < p => FALSE
  BY <1>1, UnshiftStrict
<1> QED  BY <1>2, <1>3

\* shift() is the inverse of unshift() on the indices outside the set.
LEMMA ShiftIs ==
  ASSUME NEW S \in Indices, NEW i \in Nat
  PROVE  /\ Shift(S, i) \in Nat \ S
         /\ Unshift(S, Shift(S, i)) = i
<1> DEFINE n == i + Cardinality(S)
           A == {y \in Nat : Unshift(S, y) >= i + 1}
           P(k) == k \notin S /\ k - Below(S, k) = i
<1>1. n \in Nat
  BY BelowType
<1>2. Unshift(S, n + 1) >= i + 1 /\ Unshift(S, n + 1) \in Nat
  BY <1>1, UnshiftType, BelowType
<1>3. A \in SUBSET Nat /\ n + 1 \in A
  BY <1>1, <1>2
<1>4. PICK y \in A : \A z \in A : y <= z
  <2> HIDE DEF A
  <2> QED  BY <1>3, LeastNat
<1>5. y \in Nat /\ y # 0 /\ y - 1 \in Nat /\ y - 1 \notin A /\ y <= n + 1
  <2>1. y # 0
    BY <1>4, UnshiftStep
  <2> QED  BY <1>1, <1>3, <1>4, <2>1
<1>6. Unshift(S, y) = IF y - 1 \in S THEN Unshift(S, y - 1) ELSE Unshift(S, y - 1) + 1
  BY <1>5, UnshiftStep
<1>7. Unshift(S, y - 1) \in Nat /\ Unshift(S, y) >= i + 1 /\ ~(Unshift(S, y - 1) >= i + 1)
  BY <1>4, <1>5, UnshiftType
<1>8. y - 1 \notin S /\ Unshift(S, y - 1) = i
  BY <1>6, <1>7
<1>9. y - 1 \in 0 .. n /\ P(y - 1)
  BY <1>1, <1>5, <1>8 DEF Unshift
<1>10. Shift(S, i) = CHOOSE k \in 0 .. n : P(k)
  BY DEF Shift
<1>11. Shift(S, i) \in 0 .. n /\ P(Shift(S, i))
  <2> HIDE DEF P, n
  <2> QED  BY <1>9, <1>10
<1> QED  BY <1>1, <1>11 DEF Unshift

\* Shifting back what was unshifted.
LEMMA ShiftUnique ==
  ASSUME NEW S \in Indices, NEW y \in Nat \ S
  PROVE  Shift(S, Unshift(S, y)) = y
BY ShiftIs, UnshiftInjective, UnshiftType


\* Below n there are as many indices outside S as Unshift says.
LEMMA UnshiftLess ==
  ASSUME NEW S \in Indices, NEW x \in Nat \ S, NEW n \in Nat
  PROVE  x < n <=> Unshift(S, x) < Unshift(S, n)
<1>1. x < n => Unshift(S, x) < Unshift(S, n)
  BY UnshiftStrict
<1>2. n <= x => Unshift(S, n) <= Unshift(S, x)
  <2>1. S \in SUBSET S
    OBVIOUS
  <2> QED  BY <2>1, UnshiftGrows
<1>3. Unshift(S, x) \in Nat /\ Unshift(S, n) \in Nat
  BY UnshiftType
<1> QED  BY <1>1, <1>2, <1>3

-----------------------------------------------------------------------------
(* The operations on sets of indices *)

\* What is in a set after one place was inserted.
LEMMA InsertMember ==
  ASSUME NEW S \in Indices, NEW i \in Nat
  PROVE  /\ ShiftForInsertAt(S, i, 1) \in Indices /\ InsertIndices(S, i, 1) \in Indices
         /\ \A x \in Nat : x \in ShiftForInsertAt(S, i, 1)
                             <=> (x < i /\ x \in S) \/ (x > i /\ x - 1 \in S)
         /\ \A x \in Nat : x \in InsertIndices(S, i, 1)
                             <=> x = i \/ (x < i /\ x \in S) \/ (x > i /\ x - 1 \in S)
<1> DEFINE M == {IF j < i THEN j ELSE j + 1 : j \in S}
<1>1. PICK n \in Nat : \A x \in S : x <= n
  BY DEF Indices
<1>2. S \subseteq Nat
  BY DEF Indices
<1>3. ASSUME NEW x \in Nat PROVE x \in M <=> (x < i /\ x \in S) \/ (x > i /\ x - 1 \in S)
  <2>1. ASSUME x \in M PROVE (x < i /\ x \in S) \/ (x > i /\ x - 1 \in S)
    BY <1>2, <2>1
  <2>2. ASSUME x > i, x - 1 \in S PROVE x \in M
    <3>1. x = IF x - 1 < i THEN x - 1 ELSE (x - 1) + 1
      BY <2>2
    <3> QED  BY <2>2, <3>1
  <2> QED  BY <2>1, <2>2
<1>4. \A x \in M : x \in Nat /\ x <= n + 1
  BY <1>1, <1>2
<1>5. M \in Indices
  <2> HIDE DEF M
  <2> QED  BY <1>1, <1>4 DEF Indices
<1>6. M = ShiftForInsertAt(S, i, 1) /\ InsertIndices(S, i, 1) = M \cup i .. (i + 1) - 1
  BY DEF ShiftForInsertAt, InsertIndices
<1> HIDE DEF M
<1>7. \A x : x \in i .. (i + 1) - 1 <=> x = i
  OBVIOUS
<1>8. M \cup i .. (i + 1) - 1 \in Indices
  <2>1. \A x \in M \cup i .. (i + 1) - 1 : x \in Nat /\ x <= n + 1 + i
    BY <1>1, <1>4, <1>7
  <2> QED  BY <1>1, <2>1 DEF Indices
<1> QED  BY <1>3, <1>5, <1>6, <1>7, <1>8

\* What is in a set after one place was erased.
LEMMA EraseMember ==
  ASSUME NEW S \in Indices, NEW i \in Nat
  PROVE  /\ EraseAt(S, i) \in Indices
         /\ \A x \in Nat : x \in EraseAt(S, i) <=> (x < i /\ x \in S) \/ (x >= i /\ x + 1 \in S)
<1> DEFINE M == {IF j < i THEN j ELSE j - 1 : j \in S \ {i}}
<1>1. PICK n \in Nat : \A x \in S : x <= n
  BY DEF Indices
<1>2. S \subseteq Nat
  BY DEF Indices
<1>3. ASSUME NEW x \in Nat PROVE x \in M <=> (x < i /\ x \in S) \/ (x >= i /\ x + 1 \in S)
  <2>1. ASSUME x \in M PROVE (x < i /\ x \in S) \/ (x >= i /\ x + 1 \in S)
    BY <1>2, <2>1
  <2>2. ASSUME x >= i, x + 1 \in S PROVE x \in M
    <3>1. x = (IF x + 1 < i THEN x + 1 ELSE (x + 1) - 1) /\ x + 1 # i
      BY <2>2
    <3> QED  BY <2>2, <3>1
  <2>3. ASSUME x < i, x \in S PROVE x \in M
    BY <2>3
  <2> QED  BY <2>1, <2>2, <2>3
<1>4. \A x \in M : x \in Nat /\ x <= n
  BY <1>1, <1>2
<1>5. M \in Indices
  <2> HIDE DEF M
  <2> QED  BY <1>1, <1>4 DEF Indices
<1> QED  BY <1>3, <1>5 DEF EraseAt

\* What is in a set after a shifted index was added.
LEMMA AddMember ==
  ASSUME NEW S \in Indices, NEW i \in Nat
  PROVE  S \cup {i} \in Indices /\ S \ {i} \in Indices
<1>1. PICK n \in Nat : \A x \in S : x <= n
  BY DEF Indices
<1>2. \A x \in S \cup {i} : x <= n + i /\ x \in Nat
  BY <1>1 DEF Indices
<1>3. \A x \in S \ {i} : x <= n /\ x \in Nat
  BY <1>1 DEF Indices
<1> QED  BY <1>1, <1>2, <1>3 DEF Indices

\* Unshifting through a set into which a place was inserted.
LEMMA UnshiftInsert ==
  ASSUME NEW S \in Indices, NEW i \in Nat, NEW x \in Nat
  PROVE  Unshift(InsertIndices(S, i, 1), x) = IF x <= i THEN Unshift(S, x) ELSE Unshift(S, x - 1)
<1> DEFINE T == InsertIndices(S, i, 1)
           u == [y \in 0 .. x |-> IF y <= i THEN Unshift(S, y) ELSE Unshift(S, y - 1)]
<1>1. /\ T \in Indices
      /\ \A y \in Nat : y \in T <=> y = i \/ (y < i /\ y \in S) \/ (y > i /\ y - 1 \in S)
  BY InsertMember
<1> HIDE DEF T
<1>2. u[0] = 0
  BY UnshiftStep
<1>3. ASSUME NEW y \in 0 .. x - 1
      PROVE  u[y + 1] = IF y \in T THEN u[y] ELSE u[y] + 1
  <2>1. y \in Nat /\ y \in 0 .. x /\ y + 1 \in 0 .. x
    OBVIOUS
  <2>2. /\ u[y] = IF y <= i THEN Unshift(S, y) ELSE Unshift(S, y - 1)
        /\ u[y + 1] = IF y + 1 <= i THEN Unshift(S, y + 1) ELSE Unshift(S, (y + 1) - 1)
    BY <2>1
  <2> HIDE DEF u
  <2>3. CASE y < i
    <3>1. y \in T <=> y \in S
      BY <1>1, <2>1, <2>3
    <3>2. u[y] = Unshift(S, y) /\ u[y + 1] = Unshift(S, y + 1)
      BY <2>1, <2>2, <2>3
    <3> QED  BY <2>1, <3>1, <3>2, UnshiftStep
  <2>4. CASE y = i
    <3>1. y \in T
      BY <1>1, <2>1, <2>4
    <3>2. u[y] = Unshift(S, y) /\ u[y + 1] = Unshift(S, y)
      BY <2>1, <2>2, <2>4
    <3> QED  BY <3>1, <3>2
  <2>5. CASE y > i
    <3>1. y \in T <=> y - 1 \in S
      BY <1>1, <2>1, <2>5
    <3>2. u[y] = Unshift(S, y - 1) /\ u[y + 1] = Unshift(S, y) /\ y - 1 \in Nat /\ (y - 1) + 1 = y
      BY <2>1, <2>2, <2>5
    <3>3. Unshift(S, (y - 1) + 1) = IF y - 1 \in S THEN Unshift(S, y - 1) ELSE Unshift(S, y - 1) + 1
      BY <3>2, UnshiftStep
    <3> QED  BY <3>1, <3>2, <3>3
  <2> QED  BY <2>1, <2>3, <2>4, <2>5
<1>4. Unshift(T, x) = u[x]
  <2> HIDE DEF u
  <2>1. \A y \in 0 .. x : Unshift(T, y) = u[y]
    BY <1>1, <1>2, <1>3, UnshiftUnique
  <2> QED  BY <2>1
<1> QED  BY <1>4 DEF T

\* Unshifting through a set from which a place was erased.
LEMMA UnshiftErase ==
  ASSUME NEW S \in Indices, NEW i \in S, NEW x \in Nat
  PROVE  Unshift(EraseAt(S, i), x) = IF x <= i THEN Unshift(S, x) ELSE Unshift(S, x + 1)
<1> DEFINE T == EraseAt(S, i)
           u == [y \in 0 .. x |-> IF y <= i THEN Unshift(S, y) ELSE Unshift(S, y + 1)]
<1>0. i \in Nat
  BY DEF Indices
<1>1. /\ T \in Indices
      /\ \A y \in Nat : y \in T <=> (y < i /\ y \in S) \/ (y >= i /\ y + 1 \in S)
  BY <1>0, EraseMember
<1> HIDE DEF T
<1>2. u[0] = 0
  BY <1>0, UnshiftStep
<1>3. ASSUME NEW y \in 0 .. x - 1
      PROVE  u[y + 1] = IF y \in T THEN u[y] ELSE u[y] + 1
  <2>1. y \in Nat /\ y \in 0 .. x /\ y + 1 \in 0 .. x /\ y + 1 \in Nat
    OBVIOUS
  <2>2. /\ u[y] = IF y <= i THEN Unshift(S, y) ELSE Unshift(S, y + 1)
        /\ u[y + 1] = IF y + 1 <= i THEN Unshift(S, y + 1) ELSE Unshift(S, (y + 1) + 1)
    BY <2>1
  <2> HIDE DEF u
  <2>3. CASE y < i
    <3>1. y \in T <=> y \in S
      BY <1>0, <1>1, <2>1, <2>3
    <3>2. u[y] = Unshift(S, y) /\ u[y + 1] = Unshift(S, y + 1)
      BY <1>0, <2>1, <2>2, <2>3
    <3> QED  BY <2>1, <3>1, <3>2, UnshiftStep
  <2>4. CASE y = i
    <3>1. y \in T <=> y + 1 \in S
      BY <1>0, <1>1, <2>1, <2>4
    <3>2. u[y] = Unshift(S, y) /\ u[y + 1] = Unshift(S, (y + 1) + 1)
      BY <1>0, <2>1, <2>2, <2>4
    <3>3. Unshift(S, y + 1) = Unshift(S, y)
      BY <2>1, <2>4, UnshiftStep
    <3>4. Unshift(S, (y + 1) + 1) = IF y + 1 \in S THEN Unshift(S, y + 1) ELSE Unshift(S, y + 1) + 1
      BY <2>1, UnshiftStep
    <3> QED  BY <3>1, <3>2, <3>3, <3>4
  <2>5. CASE y > i
    <3>1. y \in T <=> y + 1 \in S
      BY <1>0, <1>1, <2>1, <2>5
    <3>2. u[y] = Unshift(S, y + 1) /\ u[y + 1] = Unshift(S, (y + 1) + 1)
      BY <1>0, <2>1, <2>2, <2>5
    <3>4. Unshift(S, (y + 1) + 1) = IF y + 1 \in S THEN Unshift(S, y + 1) ELSE Unshift(S, y + 1) + 1
      BY <2>1, UnshiftStep
    <3> QED  BY <3>1, <3>2, <3>4
  <2> QED  BY <1>0, <2>1, <2>3, <2>4, <2>5
<1>4. Unshift(T, x) = u[x]
  <2> HIDE DEF u
  <2>1. \A y \in 0 .. x : Unshift(T, y) = u[y]
    BY <1>1, <1>2, <1>3, UnshiftUnique
  <2> QED  BY <2>1
<1> QED  BY <1>4 DEF T

\* Unshifting through a set with one more member.
LEMMA UnshiftAdd ==
  ASSUME NEW S \in Indices, NEW s \in Nat \ S, NEW x \in Nat
  PROVE  Unshift(S \cup {s}, x) = IF s < x THEN Unshift(S, x) - 1 ELSE Unshift(S, x)
<1> DEFINE T == S \cup {s}
           u == [y \in 0 .. x |-> IF s < y THEN Unshift(S, y) - 1 ELSE Unshift(S, y)]
<1>1. T \in Indices
  BY AddMember
<1>2. u[0] = 0
  BY UnshiftStep
<1>3. ASSUME NEW y \in 0 .. x - 1
      PROVE  u[y + 1] = IF y \in T THEN u[y] ELSE u[y] + 1
  <2>1. y \in Nat /\ y \in 0 .. x /\ y + 1 \in 0 .. x
    OBVIOUS
  <2>2. /\ u[y] = IF s < y THEN Unshift(S, y) - 1 ELSE Unshift(S, y)
        /\ u[y + 1] = IF s < y + 1 THEN Unshift(S, y + 1) - 1 ELSE Unshift(S, y + 1)
    BY <2>1
  <2>3. Unshift(S, y + 1) = IF y \in S THEN Unshift(S, y) ELSE Unshift(S, y) + 1
    BY <2>1, UnshiftStep
  <2>4. Unshift(S, y) \in Nat /\ Unshift(S, y + 1) \in Nat
    BY <2>1, UnshiftType
  <2>5. y \in T <=> y \in S \/ y = s
    OBVIOUS
  <2> HIDE DEF u, T
  <2> QED  BY <2>1, <2>2, <2>3, <2>4, <2>5
<1>4. Unshift(T, x) = u[x]
  <2> HIDE DEF u, T
  <2>1. \A y \in 0 .. x : Unshift(T, y) = u[y]
    BY <1>1, <1>2, <1>3, UnshiftUnique
  <2> QED  BY <2>1
<1> QED  BY <1>4

-----------------------------------------------------------------------------
(* Rows that stay: the k-th index outside the insertions holds the row of  *)
(* the k-th index outside the deletions.  The indices beyond the rows are  *)
(* paired with each other.                                                 *)

Pairs(D, I, old, new) ==
  \A x \in Nat \ I, y \in Nat \ D :
    Unshift(I, x) = Unshift(D, y) => /\ x < Len(new) <=> y < Len(old)
                                     /\ x < Len(new) => new[x + 1] = old[y + 1]

\* A pair that leaves both sets of staying rows leaves the others paired.
LEMMA PairsAdd ==
  ASSUME NEW D \in Indices, NEW I \in Indices,
         NEW i \in Nat \ I, NEW s \in Nat \ D, Unshift(I, i) = Unshift(D, s),
         NEW x \in Nat \ (I \cup {i}), NEW y \in Nat \ (D \cup {s})
  PROVE  Unshift(I \cup {i}, x) = Unshift(D \cup {s}, y) <=> Unshift(I, x) = Unshift(D, y)
<1> DEFINE a == Unshift(I, x)
           b == Unshift(D, y)
           p == Unshift(I, i)
<1>1. a \in Nat /\ b \in Nat /\ p \in Nat
  BY UnshiftType
<1>2. (i < x <=> p < a) /\ (x < i <=> a < p) /\ (s < y <=> p < b) /\ (y < s <=> b < p)
  BY UnshiftLess
<1>3. /\ Unshift(I \cup {i}, x) = IF i < x THEN a - 1 ELSE a
      /\ Unshift(D \cup {s}, y) = IF s < y THEN b - 1 ELSE b
  BY UnshiftAdd
<1>4. x # i /\ y # s
  OBVIOUS
<1> HIDE DEF a, b, p
<1>5. (i < x \/ x < i) /\ (s < y \/ y < s)
  BY <1>4
<1> QED  BY <1>1, <1>2, <1>3, <1>5 DEF a, b

\* Dropping a pair that holds one row, or adding a pair, keeps the others.
LEMMA PairsMore ==
  ASSUME NEW D \in Indices, NEW I \in Indices, NEW old, NEW new, Pairs(D, I, old, new),
         NEW i \in Nat \ I, NEW s \in Nat \ D, Unshift(I, i) = Unshift(D, s)
  PROVE  Pairs(D \cup {s}, I \cup {i}, old, new)
<1> SUFFICES ASSUME NEW x \in Nat \ (I \cup {i}), NEW y \in Nat \ (D \cup {s}),
                    Unshift(I \cup {i}, x) = Unshift(D \cup {s}, y)
             PROVE  /\ x < Len(new) <=> y < Len(old)
                    /\ x < Len(new) => new[x + 1] = old[y + 1]
  BY DEF Pairs
<1>1. Unshift(I, x) = Unshift(D, y)
  BY PairsAdd
<1> QED  BY <1>1 DEF Pairs

\* A deletion and an insertion of the same row, dropped together.
LEMMA PairsFewer ==
  ASSUME NEW D \in Indices, NEW I \in Indices, NEW old, NEW new, Pairs(D, I, old, new),
         NEW i \in I, NEW s \in D, Unshift(I, i) = Unshift(D, s),
         i < Len(new), s < Len(old), new[i + 1] = old[s + 1]
  PROVE  Pairs(D \ {s}, I \ {i}, old, new)
<1> DEFINE J == I \ {i}
           C == D \ {s}
<1>1. J \in Indices /\ C \in Indices /\ i \in Nat /\ s \in Nat
  BY AddMember DEF Indices
<1>2. I = J \cup {i} /\ D = C \cup {s} /\ i \notin J /\ s \notin C
  OBVIOUS
<1> HIDE DEF J, C
<1>3. Unshift(J, i) = Unshift(C, s)
  <2>1. Unshift(I, i) = Unshift(J, i) /\ Unshift(D, s) = Unshift(C, s)
    <3>1. ~(i < i) /\ ~(s < s)
      BY <1>1
    <3> QED  BY <1>1, <1>2, <3>1, UnshiftAdd
  <2> QED  BY <2>1
<1>5. \A x \in Nat \ (J \cup {i}), y \in Nat \ (C \cup {s}) :
         Unshift(J \cup {i}, x) = Unshift(C \cup {s}, y) <=> Unshift(J, x) = Unshift(C, y)
  <2>1. i \in Nat \ J /\ s \in Nat \ C
    BY <1>1, <1>2
  <2>2. J \in Indices /\ C \in Indices
    BY <1>1
  <2>3. \A A, B \in Indices : \A k \in Nat \ B, t \in Nat \ A : Unshift(B, k) = Unshift(A, t) =>
         \A x \in Nat \ (B \cup {k}), y \in Nat \ (A \cup {t}) :
           Unshift(B \cup {k}, x) = Unshift(A \cup {t}, y) <=> Unshift(B, x) = Unshift(A, y)
    BY PairsAdd
  <2>4. \A k \in Nat \ J, t \in Nat \ C : Unshift(J, k) = Unshift(C, t) =>
         \A x \in Nat \ (J \cup {k}), y \in Nat \ (C \cup {t}) :
           Unshift(J \cup {k}, x) = Unshift(C \cup {t}, y) <=> Unshift(J, x) = Unshift(C, y)
    BY <2>2, <2>3, Zenon
  <2> QED  BY <1>3, <2>1, <2>4, Zenon
<1>4. ASSUME NEW x \in Nat \ J, NEW y \in Nat \ C, Unshift(J, x) = Unshift(C, y)
      PROVE  /\ x < Len(new) <=> y < Len(old)
             /\ x < Len(new) => new[x + 1] = old[y + 1]
  <2>1. CASE x = i
    <3>1. y = s
      BY <1>1, <1>2, <1>3, <1>4, <2>1, UnshiftInjective
    <3> QED  BY <2>1, <3>1
  <2>2. CASE y = s
    <3>1. x = i
      BY <1>1, <1>2, <1>3, <1>4, <2>2, UnshiftInjective
    <3> QED  BY <2>2, <3>1
  <2>3. CASE x # i /\ y # s
    <3>1. x \in Nat \ (J \cup {i}) /\ y \in Nat \ (C \cup {s})
      BY <1>4, <2>3
    <3>2. Unshift(I, x) = Unshift(D, y)
      BY <1>2, <1>4, <1>5, <3>1
    <3> QED  BY <1>2, <3>1, <3>2 DEF Pairs
  <2> QED  BY <2>1, <2>2, <2>3
<1> QED  BY <1>4 DEF Pairs, J, C

\* An inserted row is erased again.
LEMMA PairsErase ==
  ASSUME NEW D \in Indices, NEW I \in Indices, NEW R, NEW old, NEW new \in Seq(R),
         Pairs(D, I, old, new), NEW i \in I, i < Len(new)
  PROVE  Pairs(D, EraseAt(I, i), old, RemoveAt(new, i + 1))
<1> DEFINE J == EraseAt(I, i)
           less == RemoveAt(new, i + 1)
<1>1. i \in Nat /\ Len(new) \in Nat /\ i + 1 \in DOMAIN new
  BY SeqLen DEF Indices
<1>2. /\ Len(less) = Len(new) - 1
      /\ \A j \in 1 .. Len(new) - 1 : less[j] = IF j < i + 1 THEN new[j] ELSE new[j + 1]
  BY <1>1, RemoveAtSeq
<1>3. \A x \in Nat : x \in J <=> (x < i /\ x \in I) \/ (x >= i /\ x + 1 \in I)
  BY <1>1, EraseMember
<1>4. \A x \in Nat : Unshift(J, x) = IF x <= i THEN Unshift(I, x) ELSE Unshift(I, x + 1)
  BY UnshiftErase
<1> HIDE DEF J, less
<1> SUFFICES ASSUME NEW x \in Nat \ J, NEW y \in Nat \ D, Unshift(J, x) = Unshift(D, y)
             PROVE  /\ x < Len(less) <=> y < Len(old)
                    /\ x < Len(less) => less[x + 1] = old[y + 1]
  BY DEF Pairs, J, less
<1>5. CASE x < i
  <2>1. x \in Nat \ I /\ Unshift(I, x) = Unshift(D, y)
    BY <1>1, <1>3, <1>4, <1>5
  <2>2. /\ x < Len(new) <=> y < Len(old)
        /\ x < Len(new) => new[x + 1] = old[y + 1]
    BY <2>1 DEF Pairs
  <2>3. x < Len(less) /\ x < Len(new) /\ less[x + 1] = new[x + 1]
    BY <1>1, <1>2, <1>5
  <2> QED  BY <2>2, <2>3
<1>6. CASE x >= i
  <2>1. x + 1 \in Nat \ I
    BY <1>1, <1>3, <1>6
  <2>2. Unshift(I, x + 1) = Unshift(D, y)
    <3>1. CASE x = i
      <4>1. Unshift(I, x + 1) = Unshift(I, x)
        BY <3>1, <1>1, UnshiftStep
      <4> QED  BY <1>1, <1>4, <3>1, <4>1
    <3>2. CASE x # i
      BY <1>1, <1>4, <1>6, <3>2
    <3> QED  BY <3>1, <3>2
  <2>3. /\ x + 1 < Len(new) <=> y < Len(old)
        /\ x + 1 < Len(new) => new[(x + 1) + 1] = old[y + 1]
    BY <2>1, <2>2 DEF Pairs
  <2>4. /\ x < Len(less) <=> x + 1 < Len(new)
        /\ x < Len(less) => less[x + 1] = new[(x + 1) + 1]
    BY <1>1, <1>2, <1>6
  <2> QED  BY <2>3, <2>4
<1> QED  BY <1>1, <1>5, <1>6

\* Inserting an element into a sequence.
LEMMA InsertAtSeq ==
  ASSUME NEW R, NEW s \in Seq(R), NEW i \in 0 .. Len(s), NEW e \in R
  PROVE  /\ InsertAt(s, i + 1, e) \in Seq(R)
         /\ Len(InsertAt(s, i + 1, e)) = Len(s) + 1
         /\ \A x \in 0 .. Len(s) : InsertAt(s, i + 1, e)[x + 1] =
               IF x < i THEN s[x + 1] ELSE IF x = i THEN e ELSE s[x]
<1> DEFINE a == SubSeq(s, 1, i)
           b == SubSeq(s, i + 1, Len(s))
           c == a \o <<e>>
<1>1. Len(s) \in Nat /\ i \in Nat
  BY SeqLen
<1>2. a \in Seq(R) /\ Len(a) = i /\ \A j \in 1 .. i : a[j] = s[j]
  BY <1>1
<1>3. /\ b \in Seq(R) /\ Len(b) = Len(s) - i
      /\ \A j \in 1 .. Len(s) - i : b[j] = s[i + j]
  BY <1>1
<1>4. InsertAt(s, i + 1, e) = c \o b
  <2>1. InsertAt(s, i + 1, e) = SubSeq(s, 1, (i + 1) - 1) \o <<e>> \o SubSeq(s, i + 1, Len(s))
    BY DEF InsertAt
  <2>2. (i + 1) - 1 = i
    BY <1>1
  <2> QED  BY <2>1, <2>2
<1> HIDE DEF a, b
<1>5. <<e>> \in Seq(R) /\ Len(<<e>>) = 1 /\ <<e>>[1] = e
  OBVIOUS
<1>6. /\ c \in Seq(R) /\ Len(c) = i + 1
      /\ \A j \in 1 .. i + 1 : c[j] = IF j <= i THEN a[j] ELSE <<e>>[j - i]
  <2>1. /\ c \in Seq(R) /\ Len(c) = Len(a) + Len(<<e>>)
        /\ \A j \in 1 .. Len(a) + Len(<<e>>) :
              c[j] = IF j <= Len(a) THEN a[j] ELSE <<e>>[j - Len(a)]
    BY <1>2, <1>5, ConcatProperties, ZenonT(30)
  <2>2. Len(a) = i /\ Len(<<e>>) = 1
    BY <1>2, <1>5
  <2> QED  BY <2>1, <2>2, Zenon
<1> HIDE DEF c
<1>7. /\ c \o b \in Seq(R) /\ Len(c \o b) = (i + 1) + (Len(s) - i)
      /\ \A j \in 1 .. (i + 1) + (Len(s) - i) :
            (c \o b)[j] = IF j <= i + 1 THEN c[j] ELSE b[j - (i + 1)]
  <2>1. /\ c \o b \in Seq(R) /\ Len(c \o b) = Len(c) + Len(b)
        /\ \A j \in 1 .. Len(c) + Len(b) :
              (c \o b)[j] = IF j <= Len(c) THEN c[j] ELSE b[j - Len(c)]
    BY <1>3, <1>6, ConcatProperties, ZenonT(30)
  <2>2. Len(c) = i + 1 /\ Len(b) = Len(s) - i
    BY <1>3, <1>6
  <2> QED  BY <2>1, <2>2, Zenon
<1>8. ASSUME NEW x \in 0 .. Len(s)
      PROVE  (c \o b)[x + 1] = IF x < i THEN s[x + 1] ELSE IF x = i THEN e ELSE s[x]
  <2>1. x + 1 \in 1 .. (i + 1) + (Len(s) - i)
    BY <1>1
  <2>2. (c \o b)[x + 1] = IF x + 1 <= i + 1 THEN c[x + 1] ELSE b[(x + 1) - (i + 1)]
    BY <1>7, <2>1
  <2>3. CASE x < i
    <3>1. c[x + 1] = a[x + 1] /\ a[x + 1] = s[x + 1]
      BY <1>1, <1>2, <1>6, <2>3
    <3> QED  BY <1>1, <2>2, <2>3, <3>1
  <2>4. CASE x = i
    <3>1. c[x + 1] = <<e>>[(i + 1) - i] /\ (i + 1) - i = 1
      BY <1>1, <1>6, <2>4
    <3> QED  BY <1>1, <1>5, <2>2, <2>4, <3>1
  <2>5. CASE x > i
    <3>1. (x + 1) - (i + 1) \in 1 .. Len(s) - i /\ i + ((x + 1) - (i + 1)) = x
      BY <1>1, <2>5
    <3>2. b[(x + 1) - (i + 1)] = s[x]
      BY <1>3, <3>1
    <3> QED  BY <1>1, <2>2, <2>5, <3>2
  <2>6. x < i \/ x = i \/ x > i
    BY <1>1
  <2> QED  BY <2>3, <2>4, <2>5, <2>6
<1>9. (i + 1) + (Len(s) - i) = Len(s) + 1
  BY <1>1
<1> QED  BY <1>4, <1>7, <1>8, <1>9

\* A new row is inserted.
LEMMA PairsInsert ==
  ASSUME NEW D \in Indices, NEW I \in Indices, NEW R, NEW old, NEW new \in Seq(R),
         Pairs(D, I, old, new), NEW i \in 0 .. Len(new), NEW e \in R
  PROVE  Pairs(D, InsertIndices(I, i, 1), old, InsertAt(new, i + 1, e))
<1> DEFINE J == InsertIndices(I, i, 1)
           more == InsertAt(new, i + 1, e)
<1>1. i \in Nat /\ Len(new) \in Nat
  BY SeqLen
<1>2. /\ Len(more) = Len(new) + 1
      /\ \A x \in 0 .. Len(new) : more[x + 1] =
            IF x < i THEN new[x + 1] ELSE IF x = i THEN e ELSE new[x]
  BY InsertAtSeq
<1>3. \A x \in Nat : x \in J <=> x = i \/ (x < i /\ x \in I) \/ (x > i /\ x - 1 \in I)
  BY <1>1, InsertMember
<1>4. \A x \in Nat : Unshift(J, x) = IF x <= i THEN Unshift(I, x) ELSE Unshift(I, x - 1)
  BY <1>1, UnshiftInsert
<1> HIDE DEF J, more
<1> SUFFICES ASSUME NEW x \in Nat \ J, NEW y \in Nat \ D, Unshift(J, x) = Unshift(D, y)
             PROVE  /\ x < Len(more) <=> y < Len(old)
                    /\ x < Len(more) => more[x + 1] = old[y + 1]
  BY DEF Pairs, J, more
<1>5. CASE x < i
  <2>1. x \in Nat \ I /\ Unshift(I, x) = Unshift(D, y)
    BY <1>1, <1>3, <1>4, <1>5
  <2>2. /\ x < Len(new) <=> y < Len(old)
        /\ x < Len(new) => new[x + 1] = old[y + 1]
    BY <2>1 DEF Pairs
  <2>3. x < Len(more) /\ x < Len(new) /\ more[x + 1] = new[x + 1]
    BY <1>1, <1>2, <1>5
  <2> QED  BY <2>2, <2>3
<1>6. CASE x > i
  <2>1. x - 1 \in Nat \ I /\ Unshift(I, x - 1) = Unshift(D, y)
    BY <1>1, <1>3, <1>4, <1>6
  <2>3. /\ x - 1 < Len(new) <=> y < Len(old)
        /\ x - 1 < Len(new) => new[(x - 1) + 1] = old[y + 1]
    BY <2>1 DEF Pairs
  <2>4. /\ x < Len(more) <=> x - 1 < Len(new)
        /\ x < Len(more) => more[x + 1] = new[(x - 1) + 1]
    BY <1>1, <1>2, <1>6
  <2> QED  BY <2>3, <2>4
<1>7. x # i
  BY <1>1, <1>3
<1> QED  BY <1>1, <1>5, <1>6, <1>7

\* Nothing changed, and everything was taken away.
LEMMA PairsNone ==
  ASSUME NEW rws
  PROVE  Pairs({}, {}, rws, rws)
<1>1. {} \in Indices
  BY DEF Indices
<1> SUFFICES ASSUME NEW x \in Nat, NEW y \in Nat, Unshift({}, x) = Unshift({}, y)
             PROVE  x = y
  BY DEF Pairs
<1> QED  BY <1>1, UnshiftInjective

\* Without deletions and insertions the rows are the same.
LEMMA PairsSame ==
  ASSUME NEW R, NEW old \in Seq(R), NEW new \in Seq(R), Pairs({}, {}, old, new)
  PROVE  old = new
<1>1. \A x \in Nat : /\ x < Len(new) <=> x < Len(old)
                     /\ x < Len(new) => new[x + 1] = old[x + 1]
  BY DEF Pairs
<1>2. Len(old) \in Nat /\ Len(new) \in Nat
  BY SeqLen
<1>3. Len(old) = Len(new)
  <2>1. ~(Len(old) < Len(new)) /\ ~(Len(new) < Len(old))
    BY <1>1, <1>2
  <2> QED  BY <1>2, <2>1
<1>4. ASSUME NEW k \in 1 .. Len(old) PROVE old[k] = new[k]
  <2>1. k - 1 \in Nat /\ k - 1 < Len(new) /\ (k - 1) + 1 = k
    BY <1>2, <1>3
  <2> QED  BY <1>1, <2>1
<1> QED  BY <1>3, <1>4, SeqEqual

\* All rows are deleted.
LEMMA PairsCleared ==
  ASSUME NEW n \in Nat, NEW old, Len(old) \in Nat, Len(old) <= n
  PROVE  Pairs(0 .. n - 1, {}, old, <<>>) /\ 0 .. n - 1 \in Indices
<1>1. 0 .. n - 1 \in Indices
  <2>1. \A x \in 0 .. n - 1 : x \in Nat /\ x <= n
    OBVIOUS
  <2> QED  BY <2>1 DEF Indices
<1>2. ASSUME NEW x \in Nat, NEW y \in Nat \ (0 .. n - 1)
      PROVE  ~(x < Len(<<>>)) /\ ~(y < Len(old))
  OBVIOUS
<1> QED  BY <1>1, <1>2 DEF Pairs

-----------------------------------------------------------------------------
(* Changes on top of changes: an index is unpaired if it is in the later   *)
(* insertions, or if its partner in the middle is in the earlier ones.     *)

\* What is in a set after another was added to it, unshifted and shifted.
LEMMA AddShiftedByMember ==
  ASSUME NEW A \in Indices, NEW B \in Indices, NEW S \in Indices
  PROVE  /\ AddShiftedBy(A, B, S) \in Indices
         /\ \A x \in A : x \in AddShiftedBy(A, B, S)
         /\ \A x \in Nat \ A, m \in Nat \ B : Unshift(A, x) = Unshift(B, m) =>
              (x \in AddShiftedBy(A, B, S) <=> m \in S)
<1> DEFINE M == {Shift(A, Unshift(B, v)) : v \in S \ B}
<1>1. PICK n \in Nat : \A x \in S : x <= n
  BY DEF Indices
<1>2. PICK a \in Nat : \A x \in A : x <= a
  BY DEF Indices
<1>3. A \subseteq Nat /\ B \subseteq Nat /\ S \subseteq Nat
  BY DEF Indices
<1>4. ASSUME NEW v \in S \ B
      PROVE  /\ Shift(A, Unshift(B, v)) \in Nat \ A
             /\ Unshift(A, Shift(A, Unshift(B, v))) = Unshift(B, v)
             /\ Shift(A, Unshift(B, v)) <= n + Cardinality(A)
  <2>1. v \in Nat /\ v <= n
    BY <1>1, <1>3
  <2>2. Unshift(B, v) \in 0 .. v
    BY <2>1, UnshiftType
  <2> DEFINE x == Shift(A, Unshift(B, v))
  <2>3. x \in Nat \ A /\ Unshift(A, x) = Unshift(B, v)
    BY <2>2, ShiftIs
  <2> HIDE DEF x
  <2>4. x <= Unshift(A, x) + Cardinality(A) /\ Cardinality(A) \in Nat
    BY <2>3, UnshiftType, BelowType
  <2>5. x <= n + Cardinality(A)
    BY <2>1, <2>2, <2>3, <2>4
  <2> QED  BY <2>3, <2>5 DEF x
<1>5. Cardinality(A) \in Nat
  <2>1. 0 \in Nat
    OBVIOUS
  <2> QED  BY <2>1, BelowType
<1>6. AddShiftedBy(A, B, S) = A \cup M
  BY DEF AddShiftedBy
<1>7. ASSUME NEW x \in M PROVE x \in Nat /\ x <= n + Cardinality(A)
  BY <1>4
<1>8. A \cup M \in Indices
  <2> HIDE DEF M
  <2>1. \A x \in A \cup M : x \in Nat /\ x <= n + Cardinality(A) + a
    BY <1>1, <1>2, <1>3, <1>5, <1>7
  <2>2. n + Cardinality(A) + a \in Nat
    BY <1>5
  <2> QED  BY <2>1, <2>2 DEF Indices
<1>9. ASSUME NEW x \in Nat \ A, NEW m \in Nat \ B, Unshift(A, x) = Unshift(B, m)
      PROVE  x \in M <=> m \in S
  <2>1. ASSUME m \in S PROVE x \in M
    <3>1. Shift(A, Unshift(B, m)) = x
      BY <1>9, ShiftUnique
    <3> QED  BY <2>1, <3>1
  <2>2. ASSUME x \in M PROVE m \in S
    <3>1. PICK v \in S \ B : x = Shift(A, Unshift(B, v))
      BY <2>2
    <3>2. v \in Nat \ B /\ Unshift(B, v) = Unshift(B, m)
      BY <1>3, <1>4, <1>9, <3>1
    <3>3. v = m
      BY <3>2, UnshiftInjective
    <3> QED  BY <3>3
  <2> QED  BY <2>1, <2>2
<1> HIDE DEF M
<1> QED  BY <1>6, <1>8, <1>9

\* Counting past both is counting in the middle.
LEMMA UnshiftBoth ==
  ASSUME NEW A \in Indices, NEW B \in Indices, NEW S \in Indices,
         NEW x \in Nat \ A, NEW m \in Nat \ B, Unshift(A, x) = Unshift(B, m)
  PROVE  Unshift(AddShiftedBy(A, B, S), x) = Unshift(B \cup S, m)
<1> DEFINE T == AddShiftedBy(A, B, S)
           C == B \cup S
           to(y) == Shift(B, Unshift(A, y))
           u == [y \in 0 .. x |-> Unshift(C, to(y))]
<1>1. /\ T \in Indices
      /\ \A y \in A : y \in T
      /\ \A y \in Nat \ A, k \in Nat \ B : Unshift(A, y) = Unshift(B, k) => (y \in T <=> k \in S)
  BY AddShiftedByMember
<1> HIDE DEF T
<1>2. C \in Indices /\ B \in SUBSET C
  <2>1. PICK b \in Nat : \A y \in B : y <= b
    BY DEF Indices
  <2>2. PICK c \in Nat : \A y \in S : y <= c
    BY DEF Indices
  <2>3. \A y \in C : y \in Nat /\ y <= b + c
    BY <2>1, <2>2 DEF Indices
  <2> QED  BY <2>1, <2>2, <2>3 DEF Indices
<1> HIDE DEF C
<1>3. ASSUME NEW y \in Nat
      PROVE  to(y) \in Nat \ B /\ Unshift(B, to(y)) = Unshift(A, y)
  <2>1. Unshift(A, y) \in Nat
    BY UnshiftType
  <2> QED  BY <2>1, ShiftIs
<1>4. u[0] = 0
  <2>1. Unshift(B, to(0)) = 0 /\ to(0) \in Nat
    BY <1>3, UnshiftStep
  <2>2. Unshift(C, to(0)) - Unshift(C, 0) <= Unshift(B, to(0)) - Unshift(B, 0)
    BY <1>2, <2>1, UnshiftGrows
  <2>3. Unshift(C, to(0)) \in Nat /\ Unshift(C, 0) = 0 /\ Unshift(B, 0) = 0
    BY <1>2, <2>1, UnshiftType, UnshiftStep
  <2>4. u[0] = Unshift(C, to(0))
    OBVIOUS
  <2> HIDE DEF u
  <2> QED  BY <2>1, <2>2, <2>3, <2>4
<1>5. ASSUME NEW y \in 0 .. x - 1
      PROVE  u[y + 1] = IF y \in T THEN u[y] ELSE u[y] + 1
  <2>1. y \in Nat /\ y + 1 \in Nat /\ y \in 0 .. x /\ y + 1 \in 0 .. x
    OBVIOUS
  <2>2. u[y] = Unshift(C, to(y)) /\ u[y + 1] = Unshift(C, to(y + 1))
    BY <2>1
  <2> HIDE DEF u
  <2>3. CASE y \in A
    <3>1. Unshift(A, y + 1) = Unshift(A, y)
      BY <2>1, <2>3, UnshiftStep
    <3>2. to(y + 1) = to(y)
      BY <3>1
    <3> QED  BY <1>1, <2>2, <2>3, <3>2
  <2>4. CASE y \notin A
    <3> DEFINE p == to(y)
               q == to(y + 1)
    <3>1. Unshift(A, y + 1) = Unshift(A, y) + 1
      BY <2>1, <2>4, UnshiftStep
    <3>2. /\ p \in Nat \ B /\ Unshift(B, p) = Unshift(A, y)
          /\ q \in Nat \ B /\ Unshift(B, q) = Unshift(A, y) + 1
      BY <1>3, <2>1, <3>1
    <3>3. y \in T <=> p \in S
      BY <1>1, <2>1, <2>4, <3>2
    <3>4. u[y] = Unshift(C, p) /\ u[y + 1] = Unshift(C, q)
      BY <2>2
    <3> HIDE DEF p, q
    <3>5. Unshift(A, y) \in Nat
      BY <2>1, UnshiftType
    <3>6. p < q
      <4>1. Unshift(B, p) < Unshift(B, q)
        BY <3>2, <3>5
      <4> QED  BY <3>2, <4>1, UnshiftLess
    <3>7. /\ Unshift(C, p + 1) <= Unshift(C, q)
          /\ Unshift(C, q) - Unshift(C, p + 1) <= Unshift(B, q) - Unshift(B, p + 1)
      <4>1. p + 1 \in Nat /\ q \in Nat /\ p + 1 <= q
        BY <3>2, <3>6
      <4> QED  BY <1>2, <4>1, UnshiftGrows
    <3>8. Unshift(B, p + 1) = Unshift(B, p) + 1
      BY <3>2, UnshiftStep
    <3>9. Unshift(C, p + 1) \in Nat /\ Unshift(C, q) \in Nat /\ Unshift(C, p) \in Nat
      BY <1>2, <3>2, UnshiftType
    <3>10. Unshift(C, q) = Unshift(C, p + 1)
      BY <3>2, <3>5, <3>7, <3>8, <3>9
    <3>11. Unshift(C, p + 1) = IF p \in C THEN Unshift(C, p) ELSE Unshift(C, p) + 1
      BY <1>2, <3>2, UnshiftStep
    <3>12. p \in C <=> p \in S
      BY <3>2 DEF C
    <3> QED  BY <3>3, <3>4, <3>10, <3>11, <3>12
  <2> QED  BY <2>3, <2>4
<1>6. Unshift(T, x) = u[x]
  <2> HIDE DEF u
  <2>1. \A y \in 0 .. x : Unshift(T, y) = u[y]
    BY <1>1, <1>4, <1>5, UnshiftUnique
  <2> QED  BY <2>1
<1>7. to(x) = m
  BY ShiftUnique
<1>8. u[x] = Unshift(C, m)
  BY <1>7
<1> QED  BY <1>6, <1>8 DEF C, T

\* The pairs of two changes, one after the other: the sets merge() makes.
LEMMA PairsBoth ==
  ASSUME NEW Db \in Indices, NEW Ib \in Indices, NEW Dc \in Indices, NEW Ic \in Indices,
         NEW old, NEW middle, NEW new, Pairs(Db, Ib, old, middle), Pairs(Dc, Ic, middle, new)
  PROVE  Pairs(AddShiftedBy(Db, Ib, Dc), AddShiftedBy(Ic, Dc, Ib), old, new)
<1> DEFINE D == AddShiftedBy(Db, Ib, Dc)
           I == AddShiftedBy(Ic, Dc, Ib)
<1> SUFFICES ASSUME NEW x \in Nat \ I, NEW y \in Nat \ D, Unshift(I, x) = Unshift(D, y)
             PROVE  /\ x < Len(new) <=> y < Len(old)
                    /\ x < Len(new) => new[x + 1] = old[y + 1]
  BY DEF Pairs
<1>1. x \notin Ic /\ y \notin Db
  BY AddShiftedByMember
<1> DEFINE m == Shift(Dc, Unshift(Ic, x))
           n == Shift(Ib, Unshift(Db, y))
<1>2. /\ m \in Nat \ Dc /\ Unshift(Dc, m) = Unshift(Ic, x)
      /\ n \in Nat \ Ib /\ Unshift(Ib, n) = Unshift(Db, y)
  <2>1. Unshift(Ic, x) \in Nat /\ Unshift(Db, y) \in Nat
    BY UnshiftType
  <2> QED  BY <2>1, ShiftIs
<1> HIDE DEF m, n
<1>3. m \notin Ib
  BY <1>1, <1>2, AddShiftedByMember
<1>4. n \notin Dc
  BY <1>1, <1>2, AddShiftedByMember
<1>5. Unshift(I, x) = Unshift(Dc \cup Ib, m)
  BY <1>1, <1>2, UnshiftBoth
<1>6. Unshift(D, y) = Unshift(Ib \cup Dc, n)
  BY <1>1, <1>2, UnshiftBoth
<1>7. Dc \cup Ib = Ib \cup Dc
  OBVIOUS
<1>8. Ib \cup Dc \in Indices
  <2>1. PICK b \in Nat : \A k \in Ib : k <= b
    BY DEF Indices
  <2>2. PICK c \in Nat : \A k \in Dc : k <= c
    BY DEF Indices
  <2>3. \A k \in Ib \cup Dc : k \in Nat /\ k <= b + c
    BY <2>1, <2>2 DEF Indices
  <2> QED  BY <2>1, <2>2, <2>3 DEF Indices
<1>9. m = n
  <2>1. m \in Nat \ (Ib \cup Dc) /\ n \in Nat \ (Ib \cup Dc)
    BY <1>2, <1>3, <1>4
  <2>2. Unshift(Ib \cup Dc, m) = Unshift(Ib \cup Dc, n)
    BY <1>5, <1>6, <1>7
  <2> QED  BY <1>8, <2>1, <2>2, UnshiftInjective
<1>10. /\ x < Len(new) <=> m < Len(middle)
       /\ x < Len(new) => new[x + 1] = middle[m + 1]
  BY <1>1, <1>2 DEF Pairs
<1>11. /\ m < Len(middle) <=> y < Len(old)
       /\ m < Len(middle) => middle[m + 1] = old[y + 1]
  BY <1>1, <1>2, <1>9 DEF Pairs
<1> QED  BY <1>10, <1>11

\* erase_at and insert_at of all the later changes, on the earlier insertions.
LEMMA InsertionsBoth ==
  ASSUME NEW I, NEW D, NEW J
  PROVE  InsertAtAll(EraseAtAll(I, D), J) = AddShiftedBy(J, D, I)
BY DEF InsertAtAll, EraseAtAll, ShiftForInsertAtAll, AddShiftedBy

===============================================================================
