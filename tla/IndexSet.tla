------------------------------ MODULE IndexSet ------------------------------
(***************************************************************************)
(* IndexSet and ChunkedRangeVector (ObjectStore index_set.cpp): a set of   *)
(* indices kept as ranges <<first, second>>, second excluded, in chunks of *)
(* at most MaxSize ranges.  Each chunk caches where it begins and ends and *)
(* how many indices it holds; the operations skip whole chunks on the      *)
(* strength of these caches.  One action per operation.                    *)
(***************************************************************************)
EXTENDS Integers, SequencesExt, FiniteSetsExt

CONSTANTS
  MaxSize,   \* ranges in a chunk: max_size, 4 in a debug build
  MaxIndex,  \* bound: every index stays at or below it
  Args,      \* bound: the sets given as arguments
  ByArgs     \* bound: the sets given to add_shifted_by

ASSUME SizeAssumption == MaxSize \in Nat \ {0} /\ MaxSize % 2 = 0

VARIABLES
  chunks,    \* m_data
  op,        \* the last call, its arguments and its result
  outgrown   \* history: the last rebuild gave a chunk a count that is too low

vars == <<chunks, op, outgrown>>
IS == INSTANCE IndexSets
npos == IS!npos

-----------------------------------------------------------------------------
(* Iterators: <<chunk, position in the chunk>>, and the end iterator.       *)

Start == <<1, 1>>
End(c) == <<Len(c) + 1, 1>>
At(c, p) == c[p[1]].data[p[2]]
Succ(c, p) == IF p[2] < Len(c[p[1]].data) THEN <<p[1], p[2] + 1>> ELSE <<p[1] + 1, 1>>
Pred(c, p) == IF p[2] > 1 THEN <<p[1], p[2] - 1>> ELSE <<p[1] - 1, Len(c[p[1] - 1].data)>>
Size(r) == r[2] - r[1]

Ranges(c) == FlattenSeq([k \in DOMAIN c |-> c[k].data])
Indices(c) == UNION {r[1] .. r[2] - 1 : r \in ToSet(Ranges(c))}
AsIndexes(S) == SelectSeq([k \in 1 .. MaxIndex + 2 |-> k - 1], LAMBDA i : i \in S)

\* The mutations an iterator makes: adjust, shift and set keep the caches.
Adjust(c, p, front, back) ==
  [c EXCEPT ![p[1]].data[p[2]] = <<@[1] + front, @[2] + back>>,
            ![p[1]].begin = IF p[2] = 1 THEN @ + front ELSE @,
            ![p[1]].end = IF p[2] = Len(c[p[1]].data) THEN @ + back ELSE @,
            ![p[1]].count = @ - front + back]

SetRange(c, p, front, back) ==
  [c EXCEPT ![p[1]].data[p[2]] = <<front, back>>,
            ![p[1]].begin = IF p[2] = 1 THEN front ELSE @,
            ![p[1]].end = IF p[2] = Len(c[p[1]].data) THEN back ELSE @,
            ![p[1]].count = @ - Size(At(c, p)) + (back - front)]

RECURSIVE ShiftFrom(_, _, _)
ShiftFrom(c, p, distance) ==
  IF p = End(c) THEN c
  ELSE ShiftFrom(Adjust(c, p, distance, distance), Succ(c, p), distance)

-----------------------------------------------------------------------------
(* ChunkedRangeVector.  Operations that return an iterator give <<c, p>>.   *)

NewChunk(r, end, count) == [data |-> <<r>>, begin |-> r[1], end |-> end, count |-> count]

PushBack(c, r) ==
  IF c # <<>> /\ Len(Last(c).data) < MaxSize
  THEN [c EXCEPT ![Len(c)] = [@ EXCEPT !.data = Append(@, r),
                                       !.count = @ + Size(r),
                                       !.end = r[2]]]
  ELSE Append(c, NewChunk(r, r[2], Size(r)))

\* Variant: the half that stays keeps the count of the whole chunk.
EnsureSpaceCounted(c, p) ==
  IF Len(c[p[1]].data) < MaxSize THEN <<c, p>>
  ELSE LET half  == MaxSize \div 2
           old   == c[p[1]]
           stay  == SubSeq(old.data, 1, Len(old.data) - half)
           moved == SubSeq(old.data, Len(old.data) - half + 1, Len(old.data))
           n     == FoldLeft(LAMBDA sum, r : sum + Size(r), 0, moved)
       IN <<InsertAt([c EXCEPT ![p[1]].data = stay, ![p[1]].end = Last(stay)[2]], p[1] + 1,
                     [data |-> moved, begin |-> moved[1][1], end |-> Last(moved)[2], count |-> n]),
            IF p[2] > half THEN <<p[1] + 1, p[2] - half>> ELSE p>>

\* Make room for one more range at p, splitting a full chunk in half.
EnsureSpace(c, p) ==
  IF Len(c[p[1]].data) < MaxSize THEN <<c, p>>
  ELSE LET half  == MaxSize \div 2
           old   == c[p[1]]
           stay  == SubSeq(old.data, 1, Len(old.data) - half)
           moved == SubSeq(old.data, Len(old.data) - half + 1, Len(old.data))
           n     == FoldLeft(LAMBDA sum, r : sum + Size(r), 0, moved)
           split == [c EXCEPT ![p[1]] = [data |-> stay, begin |-> old.begin,
                                         end |-> Last(stay)[2], count |-> old.count - n]]
           new   == [data |-> moved, begin |-> moved[1][1],
                     end |-> Last(moved)[2], count |-> n]
       IN <<InsertAt(split, p[1] + 1, new),
            IF p[2] > half THEN <<p[1] + 1, p[2] - half>> ELSE p>>

Insert(c, pos, r) ==
  IF pos = End(c)
  THEN LET pushed == PushBack(c, r) IN <<pushed, Pred(pushed, End(pushed))>>
  ELSE LET room == EnsureSpace(c, pos)
           p == room[2]
       IN <<[room[1] EXCEPT ![p[1]] =
               [data |-> InsertAt(@.data, p[2], r), begin |-> Min({@.begin, r[1]}),
                end |-> Max({@.end, r[2]}), count |-> @.count + Size(r)]], p>>

Erase(c, p) ==
  LET rest == RemoveAt(c[p[1]].data, p[2])
  IN IF rest = <<>> THEN <<RemoveAt(c, p[1]), <<p[1], 1>>>>
     ELSE <<[c EXCEPT ![p[1]] = [data |-> rest, begin |-> rest[1][1], end |-> Last(rest)[2],
                                 count |-> @.count - Size(At(c, p))]],
            IF p[2] <= Len(rest) THEN p ELSE <<p[1] + 1, 1>>>>

\* ChunkedRangeVectorBuilder: `aside' chunks are allocated in advance; a
\* chunk past them is appended with a count of one, whatever the range.
Aside(c) == Len(Ranges(c)) \div MaxSize + 1

BuildRange(aside, c, r) ==
  LET last == Last(c)
  IN CASE c = <<>> -> <<NewChunk(r, 0, Size(r))>>
       [] c # <<>> /\ r[1] = Last(last.data)[2] ->
            [c EXCEPT ![Len(c)].data[Len(last.data)] = <<@[1], r[2]>>,
                      ![Len(c)].count = @ + Size(r)]
       [] c # <<>> /\ r[1] # Last(last.data)[2] /\ Len(last.data) < MaxSize ->
            [c EXCEPT ![Len(c)].data = Append(@, r), ![Len(c)].count = @ + Size(r)]
       [] OTHER ->
            Append([c EXCEPT ![Len(c)].end = Last(last.data)[2]],
                   NewChunk(r, 0, IF Len(c) < aside THEN Size(r) ELSE 1))

\* push_back of every range in turn, then finalize().
Build(c, ranges) ==
  LET built == FoldLeft(LAMBDA b, r : BuildRange(Aside(c), b, r), <<>>, ranges)
  IN IF built = <<>> THEN built
     ELSE [built EXCEPT ![Len(built)].end = Last(Last(built).data)[2]]

\* The rebuild appended a chunk past those set aside for a range of several
\* indices: it is given a count of one, which every later index is added to.
Outgrows(c, ranges) ==
  LET built == Build(c, ranges)
  IN \E k \in Aside(c) + 1 .. Len(built) :
       \E r \in ToSet(ranges) : r[1] = built[k].begin /\ Size(r) > 1

Singles(s) == [k \in DOMAIN s |-> <<s[k], s[k] + 1>>]

-----------------------------------------------------------------------------
(* IndexSet's queries.                                                      *)

Find(c, i, from) ==
  LET after == {k \in from[1] .. Len(c) : c[k].end > i}
      k     == Min(after)
      first == IF k = from[1] THEN from[2] ELSE 1
  IN IF after = {} THEN End(c)
     ELSE IF i < c[k].begin THEN <<k, 1>>
     ELSE <<k, Min({j \in first .. Len(c[k].data) : c[k].data[j][2] > i})>>

ContainsIndex(c, i) ==
  LET p == Find(c, i, Start) IN p # End(c) /\ At(c, p)[1] <= i

\* The end of count(): whole chunks from chunk k on, then the ranges of the
\* first chunk that reaches past e.
CountChunks(c, k, e) ==
  LET past == {m \in k .. Len(c) : c[m].end > e}
      last == Min(past)
      upTo == IF past = {} THEN Len(c) ELSE last - 1
  IN MapThenSumSet(LAMBDA m : c[m].count, k .. upTo)
     + IF past = {} THEN 0
       ELSE MapThenSumSet(LAMBDA r : Min({r[2], e}) - r[1],
                          {r \in ToSet(c[last].data) : r[1] < e})

Count(c, s, e) ==
  LET p == Find(c, s, Start)
      k == p[1]
      full == {j \in p[2] + 1 .. Len(c[k].data) : \A m \in p[2] + 1 .. j : c[k].data[m][2] < e}
      q == IF full = {} THEN Succ(c, p) ELSE Succ(c, <<k, Max(full)>>)
      whole == At(c, p)[2] - Max({At(c, p)[1], s})
               + MapThenSumSet(LAMBDA j : Size(c[k].data[j]), full)
      part == IF q # End(c) /\ At(c, q)[1] < e /\ q[2] # 1 THEN e - At(c, q)[1] ELSE 0
  IN CASE p = End(c) \/ At(c, p)[1] >= e -> 0
       [] p # End(c) /\ At(c, p)[1] < e /\ At(c, p)[2] >= e -> e - Max({At(c, p)[1], s})
       [] OTHER ->
            IF s <= At(c, p)[1] /\ p[2] = 1 THEN CountChunks(c, k, e)
            ELSE IF q = End(c) \/ At(c, q)[2] >= e THEN whole + part
            ELSE whole + part + CountChunks(c, q[1], e)

\* Variant: a range that begins at the index is not passed.
RECURSIVE ShiftRangesBefore(_, _, _)
ShiftRangesBefore(c, p, i) ==
  IF p # End(c) /\ At(c, p)[1] < i THEN ShiftRangesBefore(c, Succ(c, p), i + Size(At(c, p))) ELSE i

RECURSIVE ShiftRanges(_, _, _)
ShiftRanges(c, p, i) ==
  IF p # End(c) /\ At(c, p)[1] <= i THEN ShiftRanges(c, Succ(c, p), i + Size(At(c, p))) ELSE i

ShiftIndex(c, i) == ShiftRanges(c, Start, i)
UnshiftIndex(c, i) == i - Count(c, 0, i)

-----------------------------------------------------------------------------
(* The algorithms of IndexSet's operations.                                 *)

DoAdd(c, p, i) ==
  LET before == p # Start
      valid == p # End(c)
      prev == Pred(c, p)
      grown == Adjust(c, prev, 0, 1)
  IN CASE valid /\ At(c, p)[1] <= i /\ i < At(c, p)[2] -> <<c, p>>
       [] before /\ At(c, prev)[2] = i ->
            IF valid /\ i + 1 = At(c, p)[1]
            THEN LET e == Erase(Adjust(grown, prev, 0, Size(At(c, p))), p)
                 IN <<e[1], Pred(e[1], e[2])>>
            ELSE <<grown, prev>>
       [] valid /\ At(c, p)[1] = i + 1 /\ ~(before /\ At(c, prev)[2] = i) ->
            <<Adjust(c, p, -1, 0), p>>
       [] OTHER -> Insert(c, p, <<i, i + 1>>)

DoErase(c, p, i) ==
  LET r == At(c, p)
      prev == Pred(c, p)
  IN IF r[1] <= i
     THEN IF Size(r) = 1
          THEN LET e == Erase(c, p) IN ShiftFrom(e[1], e[2], -1)
          ELSE ShiftFrom(Adjust(c, p, 0, -1), Succ(c, p), -1)
     ELSE IF p # Start /\ At(c, prev)[2] + 1 = r[1]
          THEN LET e == Erase(Adjust(c, prev, 0, Size(r)), p) IN ShiftFrom(e[1], e[2], -1)
          ELSE ShiftFrom(c, p, -1)

RECURSIVE DoRemove(_, _, _, _)
DoRemove(c, from, first, last) ==
  LET p == Find(c, first, from)
      r == At(c, p)
      b == Max({r[1], first})
  IN IF p = End(c) THEN <<c, p>>
     ELSE IF r[1] >= last THEN <<c, p>>
     ELSE IF r[1] < b /\ r[2] > last
          THEN LET cut == SetRange(c, p, r[1], b)
                   ins == Insert(cut, Succ(cut, p), <<last, r[2]>>)
               IN DoRemove(ins[1], Pred(ins[1], ins[2]), b, last)
     ELSE IF b = r[1] /\ last >= r[2]
          THEN LET e == Erase(c, p) IN DoRemove(e[1], e[2], b, last)
     ELSE IF b = r[1] THEN DoRemove(SetRange(c, p, last, r[2]), p, b, last)
     ELSE DoRemove(SetRange(c, p, r[1], b), p, b, last)

\* The loops that merge two sorted sequences of indices, in push_back order.
RECURSIVE MergeInsert(_, _, _, _)
MergeInsert(a, b, shift, keep) ==
  IF a = <<>> THEN IF keep THEN b ELSE <<>>
  ELSE IF b = <<>> THEN [k \in DOMAIN a |-> a[k] + shift]
  ELSE IF a[1] + shift < b[1] THEN <<a[1] + shift>> \o MergeInsert(Tail(a), b, shift, keep)
  ELSE (IF keep THEN <<b[1]>> ELSE <<>>) \o MergeInsert(a, Tail(b), shift + 1, keep)

RECURSIVE MergeErase(_, _, _)
MergeErase(a, b, shift) ==
  IF a = <<>> \/ b = <<>> THEN [k \in DOMAIN a |-> a[k] - shift]
  ELSE IF a[1] < b[1] THEN <<a[1] - shift>> \o MergeErase(Tail(a), b, shift)
  ELSE MergeErase(IF a[1] = b[1] THEN Tail(a) ELSE a, Tail(b), shift + 1)

\* add_shifted_by's loop over `values' (v): `old' the ranges not yet copied,
\* `by' those of shifted_by not yet passed.  The result ends with what is
\* copied as whole ranges.
RECURSIVE MergeShifted(_, _, _, _, _, _)
MergeShifted(old, by, v, skip, oldShift, newShift) ==
  IF v = <<>> THEN old
  ELSE IF by # <<>> /\ by[1][1] <= v[1]
       THEN MergeShifted(old, Tail(by), v, by[1][2], oldShift, newShift + Size(by[1]))
  ELSE IF v[1] < skip THEN MergeShifted(old, by, Tail(v), skip, oldShift, newShift)
  ELSE IF old # <<>> /\ old[1][1] <= v[1] - newShift + oldShift
       THEN Singles(AsIndexes(old[1][1] .. old[1][2] - 1))
            \o MergeShifted(Tail(old), by, v, skip, oldShift + Size(old[1]), newShift)
  ELSE Singles(<<v[1] - newShift + oldShift>>)
       \o MergeShifted(old, by, Tail(v), skip, oldShift, newShift)

\* The ranges an IndexSet that holds S keeps.
RangesOf(S) ==
  LET first == AsIndexes({i \in S : i - 1 \notin S})
  IN [k \in DOMAIN first |->
        <<first[k], Min({j \in first[k] .. Max(S) + 1 : j \notin S})>>]

RECURSIVE SkipChunks(_, _, _)
SkipChunks(c, k, i) ==
  IF k <= Len(c) /\ c[k].end <= i THEN SkipChunks(c, k + 1, i + c[k].count) ELSE <<<<k, 1>>, i>>

RECURSIVE SkipRanges(_, _, _)
SkipRanges(c, p, i) ==
  IF p # End(c) /\ At(c, p)[1] <= i THEN SkipRanges(c, Succ(c, p), i + Size(At(c, p)))
  ELSE <<p, i>>

-----------------------------------------------------------------------------
(* The operations.                                                          *)

Index == 0 .. MaxIndex
Lengths == 1 .. 3

\* Bound: no index above MaxIndex.
Bounded(c) == \A k \in DOMAIN c : \A r \in ToSet(c[k].data) : r[2] <= MaxIndex + 1

Init == chunks = <<>> /\ op = [name |-> "none", result |-> npos] /\ outgrown = FALSE

\* A call that changes the chunks in place, by their bounds and counts.  Bound:
\* it is not made on a set with a wrong count, at which verify() stops a debug
\* build.
Does(o, c) ==
  /\ ~outgrown
  /\ Bounded(c)
  /\ chunks' = c
  /\ op' = o
  /\ UNCHANGED outgrown

\* A call that replaces every chunk, with what is copied from the ranges.
Replaces(o, c, low) ==
  /\ Bounded(c)
  /\ chunks' = c
  /\ op' = o
  /\ outgrown' = low

Rebuilds(o, ranges) == Replaces(o, Build(chunks, ranges), Outgrows(chunks, ranges))
Keeps(o) == op' = o /\ UNCHANGED <<chunks, outgrown>>

AddIndex(i) ==
  Does([name |-> "add", i |-> i, result |-> npos], DoAdd(chunks, Find(chunks, i, Start), i)[1])

AddAll(S) ==
  LET step(acc, i) == DoAdd(acc[1], Find(acc[1], i, acc[2]), i)
  IN Does([name |-> "addAll", set |-> S, result |-> npos],
          FoldLeft(step, <<chunks, Start>>, AsIndexes(S))[1])

AddShifted(i) ==
  LET skip == SkipChunks(chunks, 1, i)
      there == SkipRanges(chunks, skip[1], skip[2])
  IN Does([name |-> "addShifted", i |-> i, result |-> there[2]],
          DoAdd(chunks, there[1], there[2])[1])

AddShiftedBy(by, S) ==
  LET o == [name |-> "addShiftedBy", by |-> by, set |-> S, result |-> npos]
  IN \/ S = {} /\ Keeps(o)
     \/ S # {} /\ Rebuilds(o, MergeShifted(Ranges(chunks), RangesOf(by), AsIndexes(S), 0, 0, 0))

SetLength(len) ==
  Replaces([name |-> "set", i |-> len, result |-> npos],
           IF len = 0 THEN <<>> ELSE PushBack(<<>>, <<0, len>>), FALSE)

\* insert_at(index, count): room is made after pos, then each index added.
InsertIndexes(i, n) ==
  LET p == Find(chunks, i, Start)
      inside == p # End(chunks) /\ At(chunks, p)[1] <= i
      room == IF inside THEN ShiftFrom(Adjust(chunks, p, 0, n), Succ(chunks, p), n)
              ELSE ShiftFrom(chunks, p, n)
      step(acc, j) == LET d == DoAdd(acc[1], acc[2], j) IN <<d[1], Succ(d[1], d[2])>>
  IN Does([name |-> "insertAt", i |-> i, n |-> n, result |-> npos],
          IF inside THEN room
          ELSE FoldLeft(step, <<room, p>>, AsIndexes(i .. i + n - 1))[1])

\* An empty set takes over the chunks of its argument.
InsertAtAll(S) ==
  LET o == [name |-> "insertAtAll", set |-> S, result |-> npos]
  IN \/ S = {} /\ Keeps(o)
     \/ S # {} /\ chunks = <<>> /\ Replaces(o, FoldLeft(PushBack, <<>>, RangesOf(S)), FALSE)
     \/ S # {} /\ chunks # <<>>
        /\ Rebuilds(o, Singles(MergeInsert(AsIndexes(Indices(chunks)), AsIndexes(S), 0, TRUE)))

\* Variant: a range around the place is moved whole instead of split.
ShiftForInsertAtWhole(i, n) ==
  LET p == Find(chunks, i, Start)
  IN Does([name |-> "shiftForInsertAt", i |-> i, n |-> n, result |-> npos],
          IF p = End(chunks) THEN chunks ELSE ShiftFrom(chunks, p, n))

ShiftForInsertAt(i, n) ==
  LET p == Find(chunks, i, Start)
      r == At(chunks, p)
      shifted == ShiftFrom(chunks, p, n)
      head == SetRange(shifted, p, r[1], i)
  IN Does([name |-> "shiftForInsertAt", i |-> i, n |-> n, result |-> npos],
          IF p = End(chunks) THEN chunks
          ELSE IF r[1] < i THEN Insert(head, Succ(head, p), <<i + n, r[2] + n>>)[1]
          ELSE shifted)

ShiftForInsertAtAll(S) ==
  LET o == [name |-> "shiftForInsertAtAll", set |-> S, result |-> npos]
      past == chunks = <<>> \/ S = {} \/ Min(S) >= Last(chunks).end
  IN IF past THEN Keeps(o)
     ELSE Rebuilds(o, Singles(MergeInsert(AsIndexes(Indices(chunks)), AsIndexes(S), 0, FALSE)))

EraseIndex(i) ==
  LET p == Find(chunks, i, Start)
  IN Does([name |-> "eraseAt", i |-> i, result |-> npos],
          IF p = End(chunks) THEN chunks ELSE DoErase(chunks, p, i))

EraseAll(S) ==
  LET o == [name |-> "eraseAtAll", set |-> S, result |-> npos]
  IN IF chunks = <<>> \/ S = {} THEN Keeps(o)
     ELSE Rebuilds(o, Singles(MergeErase(AsIndexes(Indices(chunks)), AsIndexes(S), 0)))

\* Whole chunks up to i, then ranges up to i, are taken off the index.
EraseOrUnshift(i) ==
  LET later == {k \in DOMAIN chunks : chunks[k].end > i}
      k == IF later = {} THEN Len(chunks) + 1 ELSE Min(later)
      inner == {j \in DOMAIN chunks[k].data : chunks[k].data[j][2] > i}
      p == IF later = {} THEN End(chunks) ELSE <<k, Min(inner)>>
      before == MapThenSumSet(LAMBDA m : chunks[m].count, 1 .. k - 1)
                + IF later = {} THEN 0
                  ELSE MapThenSumSet(LAMBDA j : Size(chunks[k].data[j]), 1 .. p[2] - 1)
      within == p # End(chunks) /\ At(chunks, p)[1] <= i
  IN Does([name |-> "eraseOrUnshift", i |-> i, result |-> IF within THEN npos ELSE i - before],
          IF p = End(chunks) THEN chunks ELSE DoErase(chunks, p, i))

RemoveIndexes(i, n) ==
  Does([name |-> "remove", i |-> i, n |-> n, result |-> npos],
       DoRemove(chunks, Find(chunks, i, Start), i, i + n)[1])

RemoveAll(S) ==
  LET step(acc, r) == IF acc[2] = End(acc[1]) THEN acc ELSE DoRemove(acc[1], acc[2], r[1], r[2])
  IN Does([name |-> "removeAll", set |-> S, result |-> npos],
          FoldLeft(step, <<chunks, Start>>, RangesOf(S))[1])

Next ==
  \/ \E i \in Index : AddIndex(i) \/ AddShifted(i) \/ EraseIndex(i) \/ EraseOrUnshift(i)
  \/ \E i \in 0 .. MaxIndex + 1 : SetLength(i)
  \/ \E i \in Index, n \in Lengths :
       InsertIndexes(i, n) \/ ShiftForInsertAt(i, n) \/ RemoveIndexes(i, n)
  \/ \E S \in Args : AddAll(S) \/ InsertAtAll(S) \/ ShiftForInsertAtAll(S)
                       \/ EraseAll(S) \/ RemoveAll(S)
  \/ \E by, S \in ByArgs : AddShiftedBy(by, S)

Spec == Init /\ [][Next]_vars

-----------------------------------------------------------------------------
(* Properties.                                                              *)

OneByOne(ch) == FoldLeft(LAMBDA sum, r : sum + Size(r), 0, ch.data)

RangesInOrder ==
  LET all == Ranges(chunks)
  IN /\ \A k \in DOMAIN all : all[k][1] < all[k][2]
     /\ \A k \in 1 .. Len(all) - 1 : all[k][2] < all[k + 1][1]

BoundsAreExact ==
  \A ch \in ToSet(chunks) :
    ch.data # <<>> /\ ch.begin = ch.data[1][1] /\ ch.end = Last(ch.data)[2]

CountsAreExact == \A ch \in ToSet(chunks) : ch.count = OneByOne(ch)

\* ChunkedRangeVector::verify(): ranges are non-empty, in order and never touch
\* across or inside chunks; and each chunk's cached begin, end and count are
\* those of its ranges.  A rebuild by add_shifted_by breaks it.
Verified == RangesInOrder /\ BoundsAreExact /\ CountsAreExact

\* What holds of verify(): ranges and bounds are right after every call, counts
\* too but after a rebuild that outgrew the chunks set aside, which leaves one
\* too low until the next rebuild; and no chunk outgrows max_size.
VerifiedUntilOutgrown ==
  /\ RangesInOrder /\ BoundsAreExact
  /\ outgrown <=> ~CountsAreExact
  /\ \A ch \in ToSet(chunks) : Len(ch.data) <= MaxSize /\ ch.count <= OneByOne(ch)

\* count(start, end) when start is not 0: the last range is left out when the walk from
\* the middle of a chunk ends at a chunk whose first range reaches past e.
CountsOrFallsShort(S, s, e) ==
  LET n == Cardinality({i \in S : s <= i /\ i < e})
      counted == Count(chunks, s, e)
  IN \/ counted = n
     \/ \E k \in 2 .. Len(chunks) :
          LET r == chunks[k].data[1]
          IN /\ chunks[k - 1].begin < s /\ s < chunks[k - 1].end
             /\ r[1] < e /\ e <= r[2]
             /\ counted = n - (e - r[1])

\* contains() and shift() answer as the set of indices does; so do count(0, end)
\* and unshift(), which skip over chunks by their counts, as long as these are
\* right; and count(start, end) falls short in one case only.
QueriesAreExact ==
  LET S == Indices(chunks)
  IN /\ \A i \in 0 .. MaxIndex + 1 :
          /\ ContainsIndex(chunks, i) <=> i \in S
          /\ ShiftIndex(chunks, i) = IS!Shift(S, i)
     /\ ~outgrown => \A i \in 0 .. MaxIndex + 1 :
          /\ Count(chunks, 0, i) = IS!Below(S, i)
          /\ i \notin S => UnshiftIndex(chunks, i) = IS!Unshift(S, i)
          /\ \A s \in 1 .. i - 1 : CountsOrFallsShort(S, s, i)

\* Each operation changes the set of indices, and returns, what AbstractIndexSet
\* promises for it, however the ranges fall into chunks.
Abstract == INSTANCE AbstractIndexSet WITH set <- Indices(chunks)
Implements == Abstract!Spec

=============================================================================
