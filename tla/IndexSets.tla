----------------------------- MODULE IndexSets -----------------------------
(***************************************************************************)
(* What the operations of IndexSet (ObjectStore index_set.cpp) promise,    *)
(* on plain sets of natural numbers.  The specification AbstractIndexSet   *)
(* is made of these operators, IndexSet.tla (chunks of ranges with cached  *)
(* bounds and counts) implements it, and ChangeBuilder.tla uses them.      *)
(***************************************************************************)
EXTENDS Integers, FiniteSets

\* size_t(-1): no index
npos == -1

\* How many indices of S are below i: count(0, i).
Below(S, i) == Cardinality({j \in S : j < i})

\* The i-th index (from 0) that is not in S.
Shift(S, i) ==
  CHOOSE k \in 0 .. i + Cardinality(S) : k \notin S /\ k - Below(S, k) = i

Unshift(S, i) == i - Below(S, i)

Add(S, i) == S \cup {i}
AddShifted(S, i) == S \cup {Shift(S, i)}

\* Indices of `values' that are not in `by', unshifted by it, then shifted by S.
AddShiftedBy(S, by, values) ==
  S \cup {Shift(S, Unshift(by, v)) : v \in values \ by}

ShiftForInsertAt(S, i, n) == {IF j < i THEN j ELSE j + n : j \in S}
ShiftForInsertAtAll(S, places) == {Shift(places, j) : j \in S}

InsertIndices(S, i, n) == ShiftForInsertAt(S, i, n) \cup i .. i + n - 1
InsertAtAll(S, places) == places \cup ShiftForInsertAtAll(S, places)

EraseAt(S, i) == {IF j < i THEN j ELSE j - 1 : j \in S \ {i}}
EraseAtAll(S, places) == {Unshift(places, j) : j \in S \ places}

\* What erase_or_unshift returns; it leaves EraseAt(S, i).
ErasedOrUnshifted(S, i) == IF i \in S THEN npos ELSE Unshift(S, i)

=============================================================================
