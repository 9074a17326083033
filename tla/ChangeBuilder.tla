--------------------------- MODULE ChangeBuilder ---------------------------
(***************************************************************************)
(* CollectionChangeBuilder (ObjectStore collection_change_builder.cpp):    *)
(* what changed in a collection, as sets of deleted, inserted and modified *)
(* indices and a list of moves, kept up to date while the transaction log  *)
(* is parsed (transact_log_handler.cpp), merged over several transactions, *)
(* and calculated from two lists of rows for query results.  Index sets    *)
(* are sets (IndexSet.tla implements IndexSets.tla); the per-column sets,  *)
(* which follow `modifications' step for step, are left out.               *)
(***************************************************************************)
EXTENDS Integers, SequencesExt, IndexSets

CONSTANTS
  Kinds,     \* the kinds of collection, of "list" "table" "swapped" "linked" "sorted"
  Rows,      \* bound: rows at the beginning, for each kind
  MaxRows,   \* bound: rows of a collection
  MaxCalls,  \* bound: operations in all, for each kind
  Beyond     \* bound: stands for the largest size_t, which a table's clear gives

ASSUME BoundAssumption ==
  /\ Kinds \subseteq {"list", "table", "swapped", "linked", "sorted"}
  /\ MaxRows \in Nat /\ Beyond \in Nat
  /\ Rows \in [Kinds -> 0 .. MaxRows]
  /\ MaxCalls \in [Kinds -> Nat]
  /\ MaxRows < Beyond

VARIABLES
  kind,      \* "list": a LinkList; "table": a table whose moves are tracked;
             \* "swapped": one whose rows are swapped too; "linked": one whose
             \* moves are not tracked; "sorted": sorted query results
  base, mid, rows,  \* the rows at the beginning, at the last parse_complete, now
  builder,   \* the changes from mid to rows
  total,     \* the merged changes from base to mid
  dirty,     \* the rows set since mid
  dirtyTotal,\* the rows set between base and mid
  calls, next \* operations so far; the next new row

vars == <<kind, base, mid, rows, builder, total, dirty, dirtyTotal, calls, next>>

Empty == [deletions |-> {}, insertions |-> {}, modifications |-> {},
          moves |-> <<>>, mapping |-> <<>>]

IsEmpty(b) == b.deletions = {} /\ b.insertions = {} /\ b.modifications = {} /\ b.moves = <<>>

Map(s, F(_)) == [k \in DOMAIN s |-> F(s[k])]

\* What is left of a sequence without the elements at these indices, and the
\* indices of those that F picks.
Rest(s, indices) == [k \in 1 .. Len(s) - Below(indices, Len(s)) |-> s[Shift(indices, k - 1) + 1]]
Where(s, F(_)) == {k - 1 : k \in {l \in DOMAIN s : F(s[l])}}

Without(f, k) == Restrict(f, DOMAIN f \ {k})
With(f, k, v) == [l \in DOMAIN f \cup {k} |-> IF l = k THEN v ELSE f[l]]
Track == kind # "linked"

-----------------------------------------------------------------------------
(* The builder's operations.                                                *)

Inserted(b, i, n) ==
  LET mods == ShiftForInsertAt(b.modifications, i, n)
      to(k) == IF k >= i THEN k + n ELSE k
  IN IF ~Track THEN [b EXCEPT !.modifications = mods]
     ELSE [deletions |-> b.deletions, insertions |-> InsertIndices(b.insertions, i, n),
           modifications |-> mods,
           moves |-> Map(b.moves, LAMBDA m : [m EXCEPT !.to = to(@)]),
           mapping |-> [k \in {to(j) : j \in DOMAIN b.mapping} |->
                          b.mapping[CHOOSE j \in DOMAIN b.mapping : to(j) = k]]]

\* Variant: a deletion is recorded where the row is now, not where it was.
ErasedHere(b, i) ==
  [b EXCEPT !.modifications = EraseAt(@, i),
            !.insertions = EraseAt(@, i),
            !.deletions = IF i \in b.insertions THEN @ ELSE @ \cup {i},
            !.moves = Map(Rest(@, Where(@, LAMBDA m : m.to = i)),
                          LAMBDA m : [m EXCEPT !.to = IF @ > i THEN @ - 1 ELSE @])]

Erased(b, i) ==
  LET old == ErasedOrUnshifted(b.insertions, i)
  IN [b EXCEPT !.modifications = EraseAt(@, i),
               !.insertions = EraseAt(@, i),
               !.deletions = IF old = npos THEN @ ELSE AddShifted(@, old),
               !.moves = Map(Rest(@, Where(@, LAMBDA m : m.to = i)),
                             LAMBDA m : [m EXCEPT !.to = IF @ > i THEN @ - 1 ELSE @])]

\* A list gives its size; a table gives the largest size_t.
Cleared(b, size) ==
  [Empty EXCEPT !.deletions =
     0 .. (IF size = Beyond THEN size
           ELSE size + Cardinality(b.deletions) - Cardinality(b.insertions)) - 1]

Moved(b, from, to) ==
  LET shifted(k) == CASE k = from -> to
                      [] k >= to /\ k < from -> k + 1
                      [] k <= to /\ k > from -> k - 1
                      [] OTHER -> k
      known == \E k \in DOMAIN b.moves : b.moves[k].to = from
      old == ErasedOrUnshifted(b.insertions, from)
      moves == Map(b.moves, LAMBDA m : [m EXCEPT !.to = shifted(@)])
      erased == EraseAt(b.modifications, from)
      new == ~known /\ old # npos
  IN [b EXCEPT
        !.insertions = InsertIndices(EraseAt(@, from), to, 1),
        !.deletions = IF new THEN AddShifted(@, old) ELSE @,
        !.moves = IF new THEN Append(moves, [from |-> Shift(b.deletions, old), to |-> to])
                  ELSE moves,
        !.modifications = IF from \in @ THEN InsertIndices(erased, to, 1)
                          ELSE ShiftForInsertAt(erased, to, 1)]

\* The last row takes the place of row i.
MovedOver(b, i, last) ==
  LET lastIn == last \in b.insertions
      rowIn == i \in b.insertions
      again == lastIn /\ last \in DOMAIN b.mapping
      mods == (b.modifications \ {i, last}) \cup (IF last \in b.modifications THEN {i} ELSE {})
      old == ErasedOrUnshifted(b.insertions, i)
      \* after the last row is marked
      ins == b.insertions \ {last}
      dels == IF lastIn THEN b.deletions ELSE AddShifted(b.deletions, Unshift(b.insertions, last))
      kept == IF again \/ rowIn THEN Without(b.mapping, i) ELSE b.mapping
      mapping == CASE again -> With(Without(kept, last), i, b.mapping[last])
                   [] lastIn /\ ~again -> kept
                   [] OTHER -> With(kept, i, Shift(b.deletions, Unshift(b.insertions, last)))
  IN CASE i = last ->
            IF ~Track THEN [b EXCEPT !.modifications = @ \ {i}]
            ELSE [b EXCEPT !.modifications = @ \ {i},
                           !.insertions = EraseAt(@, i),
                           !.deletions = IF old = npos THEN @ ELSE AddShifted(@, old),
                           !.mapping = Without(@, i)]
       [] i # last /\ ~Track -> [b EXCEPT !.modifications = mods]
       [] OTHER -> [b EXCEPT
            !.modifications = mods,
            !.deletions = IF rowIn THEN dels ELSE AddShifted(dels, Unshift(ins, i)),
            !.insertions = ins \cup {i},
            !.mapping = mapping]

\* Variant: the old index is not shifted past the deletions before it.
MarkMovedUnshifted(b, i, j) ==
  IF i \in b.insertions THEN b
  ELSE [b EXCEPT !.mapping = With(@, j, Unshift(b.insertions, i)),
                 !.deletions = AddShifted(@, Unshift(b.insertions, i)),
                 !.insertions = @ \cup {i}]

\* Mark row i as moved to j unless it is new: part of swap.
MarkMoved(b, i, j) ==
  IF i \in b.insertions THEN b
  ELSE [b EXCEPT !.mapping = With(@, j, Shift(b.deletions, Unshift(b.insertions, i))),
                 !.deletions = AddShifted(@, Unshift(b.insertions, i)),
                 !.insertions = @ \cup {i}]

\* Row `from' was moved before: its move now ends at `to', whose row goes to `from'.
Redirect(b, from, to) ==
  MarkMoved([b EXCEPT !.mapping = With(Without(@, from), to, b.mapping[from])], to, from)

Swapped(b, i, j) ==
  LET swap(k) == CASE k = i -> j [] k = j -> i [] OTHER -> k
      c == [b EXCEPT !.modifications = {swap(k) : k \in @}]
      known == DOMAIN b.mapping
  IN CASE ~Track -> c
       [] Track /\ {i, j} \subseteq known ->
            [c EXCEPT !.mapping = [@ EXCEPT ![i] = b.mapping[j], ![j] = b.mapping[i]]]
       [] Track /\ {i, j} \cap known = {i} -> Redirect(c, i, j)
       [] Track /\ {i, j} \cap known = {j} -> Redirect(c, j, i)
       [] OTHER -> MarkMoved(MarkMoved(c, j, i), i, j)

\* Moves that no longer change anything are dropped one after the other; each
\* takes its deletion and insertion with it.
CleanUpStaleMoves(b) ==
  LET step(acc, m) ==
        IF Unshift(acc.deletions, m.from) # Unshift(acc.insertions, m.to)
        THEN [acc EXCEPT !.moves = Append(@, m)]
        ELSE [acc EXCEPT !.deletions = @ \ {m.from}, !.insertions = @ \ {m.to}]
      clean[k \in 0 .. Len(b.moves)] ==  \* after the first k moves
        IF k = 0 THEN [b EXCEPT !.moves = <<>>] ELSE step(clean[k - 1], b.moves[k])
  IN clean[Len(b.moves)]

\* Moves in the order of their sources.
ByFrom(moves) ==
  LET froms == {m.from : m \in moves}
  IN [n \in 1 .. Cardinality(froms) |-> CHOOSE m \in moves : Below(froms, m.from) = n - 1]

\* parse_complete(): the mapping becomes moves, sorted by their source.
ParseComplete(b) ==
  LET stay == {k \in DOMAIN b.mapping : b.mapping[k] = k}
      moved == {[from |-> b.mapping[k], to |-> k] : k \in DOMAIN b.mapping \ stay}
  IN [b EXCEPT !.deletions = @ \ stay, !.insertions = @ \ stay, !.mapping = <<>>,
               !.moves = ByFrom(ToSet(@) \cup moved)]

\* Variant: a row that moves again forgets it was modified.
NeverModified(b, m) == {}

\* The new index of a modified row that moved.
StillModified(b, m) == IF m.from \in b.modifications THEN {m.to} ELSE {}

\* merge(): b, then c on top of it.
Merge(b, c) ==
  LET step(acc, m) ==  \* follow an old move through c
        IF \E k \in DOMAIN acc.left : acc.left[k].from = m.to
        THEN LET k == CHOOSE n \in DOMAIN acc.left : acc.left[n].from = m.to
                 l == acc.left[k]
             IN [moves |-> Append(acc.moves, [m EXCEPT !.to = l.to]),
                 left |-> Front([acc.left EXCEPT ![k] = Last(acc.left)]),
                 mods |-> acc.mods \cup StillModified(b, l)]
        ELSE IF m.to \in c.deletions THEN acc
        ELSE [acc EXCEPT !.moves =
                Append(@, [m EXCEPT !.to = Shift(c.insertions, Unshift(c.deletions, @))])]
      follow[k \in 0 .. Len(b.moves)] ==  \* after the first k of them
        IF k = 0 THEN [moves |-> <<>>, left |-> c.moves, mods |-> c.modifications]
        ELSE step(follow[k - 1], b.moves[k])
      followed == follow[Len(b.moves)]
      new == Rest(followed.left, Where(followed.left, LAMBDA m : m.from \in b.insertions))
      mods == followed.mods \cup UNION {StillModified(b, m) : m \in ToSet(new)}
      from(m) == [m EXCEPT !.from = Shift(b.deletions, Unshift(b.insertions, @))]
  IN CASE IsEmpty(c) -> b
       [] IsEmpty(b) /\ ~IsEmpty(c) -> c
       [] OTHER -> CleanUpStaleMoves(
            [deletions |-> AddShiftedBy(b.deletions, b.insertions, c.deletions),
             insertions |-> InsertAtAll(EraseAtAll(b.insertions, c.deletions), c.insertions),
             modifications |-> ShiftForInsertAtAll(EraseAtAll(b.modifications, c.deletions),
                                                   c.insertions) \cup mods,
             moves |-> followed.moves \o Map(new, from), mapping |-> <<>>])

\* Variant: the deletions are put back before the insertions are taken out.
FinalizedBackwards(b) ==
  [old |-> EraseAtAll(ShiftForInsertAtAll(b.modifications, b.deletions), b.insertions),
   new |-> b.modifications \ b.insertions]

\* The modifications a callback sees, as old and as new indices.
Finalized(b) ==
  [old |-> ShiftForInsertAtAll(EraseAtAll(b.modifications, b.insertions), b.deletions),
   new |-> b.modifications \ b.insertions]

-----------------------------------------------------------------------------
(* calculate(): the changes from one list of rows to another.               *)

IndexOf(s, r) == (CHOOSE k \in DOMAIN s : s[k] = r) - 1

\* The indices of the rows that were deleted.
Gone(old) == Where(old, LAMBDA r : r = npos)

\* The rows of `new' also in `old', in the order of `new'.
Kept(old, new) ==
  LET info(r) == [row |-> r, prev |-> IndexOf(old, r), tv |-> IndexOf(new, r),
                  shifted |-> Unshift(Gone(old), IndexOf(old, r))]
  IN Map(Rest(new, Where(new, LAMBDA r : r \notin ToSet(old))), info)

\* Rows in table order: only the candidates can have moved.
MovesUnsorted(kept, b, removed, candidates) ==
  LET step(acc, r) ==
        LET calc == r.tv - Below(acc.insertions, r.tv) + Below(acc.removed, r.prev)
        IN CASE r.shifted = acc.expected -> [acc EXCEPT !.expected = @ + 1]
             [] r.shifted # acc.expected /\ (r.row \notin candidates \/ r.shifted = calc) ->
                  [acc EXCEPT !.expected = r.shifted + 1]
             [] OTHER -> [acc EXCEPT !.moves = Append(@, [from |-> r.prev, to |-> r.tv]),
                                     !.insertions = @ \cup {r.tv},
                                     !.removed = @ \cup {r.prev}]
      done[k \in 0 .. Len(kept)] ==  \* after the first k rows
        IF k = 0 THEN [expected |-> 0, moves |-> <<>>, insertions |-> b.insertions,
                       removed |-> removed]
        ELSE step(done[k - 1], kept[k])
      all == done[Len(kept)]
  IN [b EXCEPT !.moves = all.moves, !.insertions = all.insertions,
               !.deletions = @ \cup all.removed]

\* The longest run of rows i in b1 .. e1 - 1 that follow one another at
\* j[i] in b2 .. e2 - 1; of two as long, the one with fewer modified rows.
LongestMatch(j, mods, w) ==
  LET within(i) == i \in w.b1 .. w.e1 - 1 /\ j[i] \in w.b2 .. w.e2 - 1
      run(i) == Max({l \in 1 .. i - w.b1 + 1 :
                       \A k \in 0 .. l - 1 : within(i - k) /\ j[i - k] = j[i] - k})
      count(from, to) == IF from < 0 THEN 0 ELSE Cardinality(mods \cap from .. to - 1)
      at(i, modified) == [i |-> i - run(i) + 1, j |-> j[i] - run(i) + 1,
                          size |-> run(i), modified |-> modified]
      step(best, i) ==
        LET m == IF best.modified = -1 THEN count(best.j - run(i) + 1, best.j + 1)
                 ELSE best.modified
            c == count(j[i] - run(i) + 1, j[i] + 1)
        IN CASE run(i) > best.size -> at(i, -1)
             [] run(i) = best.size /\ c < m -> at(i, c)
             [] run(i) = best.size /\ c >= m -> [best EXCEPT !.modified = m]
             [] OTHER -> best
      best[e \in w.b1 .. w.e1] ==  \* of the rows before e
        IF e = w.b1 THEN [i |-> w.b1, j |-> w.b2, size |-> 0, modified |-> 0]
        ELSE IF within(e - 1) THEN step(best[e - 1], e - 1) ELSE best[e - 1]
  IN best[w.e1]

\* The longest match, and those before and after it.
LongestMatches(j, mods, first, n) ==
  LET windows == {w \in [b1 : first .. n, e1 : first .. n, b2 : first .. n, e2 : first .. n] :
                    w.b1 <= w.e1}
      matches[w \in windows] ==
        LET around(m) ==
              LET before == [w EXCEPT !.e1 = m.i, !.e2 = m.j]
                  after == [w EXCEPT !.b1 = m.i + m.size, !.b2 = m.j + m.size]
              IN IF m.size = 0 THEN {}
                 ELSE {m} \cup (IF m.i > w.b1 /\ m.j > w.b2 THEN matches[before] ELSE {})
                          \cup (IF after.b1 < w.e2 /\ after.b2 < w.e2 THEN matches[after] ELSE {})
        IN around(LongestMatch(j, mods, w))
  IN matches[[b1 |-> first, e1 |-> n, b2 |-> first, e2 |-> n]]

\* Rows in the order in which they were before.
ByPrev(kept) ==
  LET prevs == {r.prev : r \in ToSet(kept)}
  IN [n \in DOMAIN kept |-> CHOOSE r \in ToSet(kept) : Below(prevs, r.prev) = n - 1]

\* Sorted rows: whatever is outside the longest matches is deleted and inserted.
MovesSorted(kept, b, removed) ==
  LET n == Len(kept)
      a == ByPrev(kept)
      differ == {i \in 1 .. n : a[i].row # kept[i].row}
      first == (CHOOSE i \in differ : \A k \in differ : i <= k) - 1
      j == [i \in 0 .. n - 1 |-> (CHOOSE k \in 1 .. n : kept[k].row = a[i + 1].row) - 1]
      matched == LongestMatches(j, b.modifications, first, n)
      inA == UNION {m.i .. m.i + m.size - 1 : m \in matched}
      inB == UNION {m.j .. m.j + m.size - 1 : m \in matched}
  IN IF differ = {} THEN [b EXCEPT !.deletions = @ \cup removed]
     ELSE [b EXCEPT
             !.deletions = @ \cup removed \cup {a[i + 1].prev : i \in first .. n - 1 \ inA},
             !.insertions = @ \cup {kept[i + 1].tv : i \in first .. n - 1 \ inB}]

\* prev holds npos for a deleted row; `changed' the rows that were modified.
Calculate(prev, new, changed, sorted, candidates) ==
  LET kept == Kept(prev, new)
      b == [Empty EXCEPT
              !.deletions = Gone(prev),
              !.insertions = Where(new, LAMBDA r : r \notin ToSet(prev)),
              !.modifications = {r.tv : r \in {s \in ToSet(kept) : s.row \in changed}}]
      removed == Where(prev, LAMBDA r : r \notin ToSet(new) \cup {npos})
  IN IF sorted THEN MovesSorted(kept, b, removed)
     ELSE MovesUnsorted(kept, b, removed, candidates)

-----------------------------------------------------------------------------
(* The transaction log's operations on the collection.                      *)

Call(b, new) ==
  /\ calls < MaxCalls[kind] /\ calls' = calls + 1
  /\ Len(new) <= MaxRows
  /\ builder' = b
  /\ rows' = new
  /\ UNCHANGED <<kind, base, mid, total, dirtyTotal>>

Init ==
  /\ kind \in Kinds
  /\ base = [k \in 1 .. Rows[kind] |-> k] /\ mid = base /\ rows = base
  /\ builder = Empty /\ total = Empty
  /\ dirty = {} /\ dirtyTotal = {}
  /\ calls = 0 /\ next = Rows[kind] + 1

\* A table's rows are only ever added at its end (add_empty_row).
InsertRow(i) ==
  /\ kind = "list" \/ (kind # "sorted" /\ i = Len(rows))
  /\ Call(Inserted(builder, i, 1), InsertAt(rows, i + 1, next))
  /\ next' = next + 1
  /\ UNCHANGED dirty

EraseRow(i) ==
  /\ kind = "list"
  /\ Call(Erased(builder, i), RemoveAt(rows, i + 1))
  /\ UNCHANGED <<dirty, next>>

ClearRows ==
  /\ kind # "sorted" /\ rows # <<>>
  /\ Call(Cleared(builder, IF kind = "list" THEN Len(rows) ELSE Beyond), <<>>)
  /\ UNCHANGED <<dirty, next>>

MoveRow(from, to) ==
  /\ kind = "list" /\ from # to
  /\ Call(Moved(builder, from, to),
          InsertAt(RemoveAt(rows, from + 1), to + 1, rows[from + 1]))
  /\ UNCHANGED <<dirty, next>>

MoveLastOver(i) ==
  /\ kind \in {"table", "swapped", "linked"}
  /\ Call(MovedOver(builder, i, Len(rows) - 1), Front([rows EXCEPT ![i + 1] = Last(rows)]))
  /\ UNCHANGED <<dirty, next>>

SwapRows(i, j) ==
  /\ kind = "swapped" /\ i < j
  /\ Call(Swapped(builder, i, j), [rows EXCEPT ![i + 1] = rows[j + 1], ![j + 1] = rows[i + 1]])
  /\ UNCHANGED <<dirty, next>>

ModifyRow(i) ==
  /\ kind # "sorted"
  /\ Call([builder EXCEPT !.modifications = Add(@, i)], rows)
  /\ dirty' = dirty \cup {rows[i + 1]}
  /\ UNCHANGED next

\* A sorted query's rows are compared with those of its last run; `gone' are
\* rows deleted from the table.
Rerun(new, gone, changed) ==
  /\ kind = "sorted" /\ builder = Empty
  /\ Call(Calculate(Map(rows, LAMBDA r : IF r \in gone THEN npos ELSE r), new, changed, TRUE, {}),
          new)
  /\ dirty' = changed
  /\ next' = IF next \in ToSet(new) THEN next + 1 ELSE next

\* The log ends (parse_complete), and its changes are merged into the earlier ones.
Complete ==
  /\ ~IsEmpty(builder) \/ rows # mid
  /\ total' = Merge(total, CASE kind = "list" -> CleanUpStaleMoves(builder)
                             [] kind = "sorted" -> builder
                             [] OTHER -> ParseComplete(builder))
  /\ mid' = rows
  /\ dirtyTotal' = dirtyTotal \cup dirty
  /\ builder' = Empty
  /\ dirty' = {}
  /\ UNCHANGED <<kind, base, rows, calls, next>>

\* The rows a run of a sorted query may find.  Each row is found once: the sorted
\* results of a list that holds a row twice are left out.
Arrangements(S) == UNION {{s \in [1 .. n -> S] : IsInjective(s)} : n \in 0 .. MaxRows}

Next ==
  \/ ClearRows \/ Complete
  \/ \E i \in 0 .. Len(rows) : InsertRow(i)
  \/ \E i \in 0 .. Len(rows) - 1 :
       \/ EraseRow(i) \/ MoveLastOver(i) \/ ModifyRow(i)
       \/ \E j \in 0 .. Len(rows) - 1 : MoveRow(i, j) \/ SwapRows(i, j)
  \/ \E new \in IF kind = "sorted" /\ builder = Empty /\ calls < MaxCalls[kind]
                THEN Arrangements(ToSet(rows) \cup {next}) ELSE {} :
       \E gone \in {{}, ToSet(rows) \ ToSet(new)}, changed \in {{}} \cup {{r} : r \in ToSet(new)} :
         Rerun(new, gone, changed)

Spec == Init /\ [][Next]_vars

-----------------------------------------------------------------------------
(* Properties.                                                              *)

\* Taking the deletions out of the old rows leaves what taking the insertions
\* out of the new rows leaves.
Applies(b, old, new) == Rest(old, b.deletions) = Rest(new, b.insertions)

\* A reported move is one: the row at `from' is now at `to', and the move has
\* its deletion and insertion.
TrueMove(b, old, new, m) ==
  /\ m.from \in b.deletions /\ m.to \in b.insertions
  /\ m.from < Len(old) /\ m.to < Len(new)
  /\ old[m.from + 1] = new[m.to + 1]

BuilderMoves(b) ==
  ToSet(b.moves) \cup {[from |-> b.mapping[k], to |-> k] : k \in DOMAIN b.mapping}

\* The modifications are the rows set; nothing is asked of a row that is a
\* plain insertion, where finalize() drops them.
Modifies(b, new, set) ==
  LET movedTo == {m.to : m \in BuilderMoves(b)}
  IN \A k \in DOMAIN new :
       (k - 1 \in b.insertions => k - 1 \in movedTo)
         => (k - 1 \in b.modifications <=> new[k] \in set)

\* The changes recorded so far, and those merged over all the logs, turn the
\* old rows into the new ones (the check at the end of calculate(), for every
\* way changes are built).
ChangesApply ==
  Track => Applies(builder, mid, rows) /\ Applies(total, base, mid)

\* "A reported move will always actually be a move": it joins the old and the
\* new index of one row, which are a deletion and an insertion (verify()).
MovesAreTrue ==
  /\ \A m \in BuilderMoves(builder) : TrueMove(builder, mid, rows, m)
  /\ \A m \in ToSet(total.moves) : TrueMove(total, base, mid, m)

\* A row is in the modifications exactly if it was set, wherever inserts,
\* erases, moves and merges have taken it.
ModificationsAreExact ==
  /\ Modifies(builder, rows, dirty)
  /\ kind # "linked" => Modifies(total, mid, dirtyTotal)

\* finalize(): `modifications' (old indices) and `modifications_new' (new ones)
\* name the same rows.
FinalizedAgree ==
  Track => LET f == Finalized(total)
           IN /\ \A k \in f.old : k < Len(base)
              /\ {base[k + 1] : k \in f.old} = {mid[k + 1] : k \in f.new}

\* "combine the transaction change info objects so that all of the notifiers
\* see the complete set of changes" (realm_coordinator.cpp), for a table that
\* is only linked to, whose insertions and deletions are not recorded.
LinkedModifications == kind = "linked" => Modifies(total, mid, dirtyTotal)

-----------------------------------------------------------------------------
(* ResultsNotifier::calculate_changes() for a query in table order: the old *)
(* results are taken through the table's changes, then compared.            *)

\* std::lower_bound in moves, by `from'.
LowerBound(moves, i) ==
  LET bound[first \in 1 .. Len(moves) + 1, count \in 0 .. Len(moves)] ==
        LET half == count \div 2
        IN IF count = 0 THEN first
           ELSE IF moves[first + half].from < i
                THEN bound[first + half + 1, count - half - 1]
                ELSE bound[first, half]
  IN bound[1, Len(moves)]

\* Variant: the rows deleted before a row do not pull it forward.
ThroughInsertions(b, i) ==
  LET k == LowerBound(b.moves, i)
  IN IF i \notin b.deletions THEN Shift(b.insertions, i)
     ELSE IF k \in DOMAIN b.moves /\ b.moves[k].from = i THEN b.moves[k].to ELSE npos

\* Where row i is after the changes b, npos if it was deleted.
Through(b, i) ==
  LET k == LowerBound(b.moves, i)
  IN IF i \notin b.deletions THEN Shift(b.insertions, Unshift(b.deletions, i))
     ELSE IF k \in DOMAIN b.moves /\ b.moves[k].from = i THEN b.moves[k].to ELSE npos

QueryChanges(b, old, new) ==
  Calculate(Map(old, LAMBDA i : Through(b, i)), new, b.modifications, FALSE, b.insertions)

\* The changes of the query's results, for any rows it found and finds.
QueryApplies(b, old, new) ==
  \A P \in SUBSET DOMAIN old, N \in SUBSET DOMAIN new :
    LET indices(s, S) == Rest([k \in DOMAIN s |-> k - 1], {k - 1 : k \in DOMAIN s \ S})
        found(s, S) == Map(indices(s, S), LAMBDA i : s[i + 1])
        changes == QueryChanges(b, indices(old, P), indices(new, N))
    IN /\ Applies(changes, found(old, P), found(new, N))
       /\ \A m \in ToSet(changes.moves) : TrueMove(changes, found(old, P), found(new, N), m)

\* Whatever rows the query found before and finds now, the changes reported
\* turn the old results into the new ones and every move in them is one (the
\* check at the end of calculate()).  A notifier that has run is given the
\* changes of one parsed log, never merged ones (run_async_notifiers).
QueryChangesApply == kind = "table" => QueryApplies(ParseComplete(builder), mid, rows)

=============================================================================
