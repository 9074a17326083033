------------------------ MODULE ChangeBuilder_proofs ------------------------
(***************************************************************************)
(* Proofs about ChangeBuilder for collections of any size and any number   *)
(* of operations and transactions.                                         *)
(*                                                                         *)
(* The invariant: the rows that stay are paired, the k-th index outside    *)
(* the insertions with the k-th outside the deletions (Pairs), every move  *)
(* and every entry of the mapping joins a deletion and an insertion of one *)
(* row, no two moves start at one index, and the modifications mark the    *)
(* rows set.  For a table the two sets are the same indices until the log  *)
(* is parsed (Tables), which is why its moves may end where they started;  *)
(* parse_complete drops those, and what it leaves is what a list has at    *)
(* any time (Good).  clean_up_stale_moves and merge keep Good.             *)
(***************************************************************************)
EXTENDS ChangeBuilder, SeqLemmas

-----------------------------------------------------------------------------
(* What is left of a sequence *)

\* As many rows stay as are left of either list.
LEMMA PairsRest ==
  ASSUME NEW D \in Indices, NEW I \in Indices, NEW R, NEW old \in Seq(R), NEW new \in Seq(R),
         Pairs(D, I, old, new)
  PROVE  /\ Unshift(D, Len(old)) = Unshift(I, Len(new))
         /\ Rest(old, D) = Rest(new, I)
<1> DEFINE p == Unshift(D, Len(old))
           q == Unshift(I, Len(new))
<1>1. Len(old) \in Nat /\ Len(new) \in Nat
  BY SeqLen
<1>2. p \in Nat /\ q \in Nat
  BY <1>1, UnshiftType
<1>3. ASSUME NEW k \in Nat
      PROVE  /\ k < p <=> Shift(D, k) < Len(old)
             /\ k < q <=> Shift(I, k) < Len(new)
             /\ Shift(I, k) < Len(new) <=> Shift(D, k) < Len(old)
             /\ Shift(I, k) < Len(new) => new[Shift(I, k) + 1] = old[Shift(D, k) + 1]
  <2>1. /\ Shift(D, k) \in Nat \ D /\ Unshift(D, Shift(D, k)) = k
        /\ Shift(I, k) \in Nat \ I /\ Unshift(I, Shift(I, k)) = k
    BY ShiftIs
  <2> DEFINE y == Shift(D, k)
             x == Shift(I, k)
  <2>2. y \in Nat \ D /\ x \in Nat \ I /\ Unshift(I, x) = Unshift(D, y)
        /\ Unshift(D, y) = k /\ Unshift(I, x) = k
    BY <2>1
  <2> HIDE DEF x, y
  <2>3. (y < Len(old) <=> k < p) /\ (x < Len(new) <=> k < q)
    BY <1>1, <2>2, UnshiftLess
  <2>4. /\ x < Len(new) <=> y < Len(old)
        /\ x < Len(new) => new[x + 1] = old[y + 1]
    BY <2>2 DEF Pairs
  <2> QED  BY <2>3, <2>4 DEF x, y
<1>4. p = q
  <2> HIDE DEF p, q
  <2>1. ~(p < q) /\ ~(q < p)
    BY <1>2, <1>3
  <2> QED  BY <1>2, <2>1
<1>5. ASSUME NEW k \in 1 .. p
      PROVE  old[Shift(D, k - 1) + 1] = new[Shift(I, k - 1) + 1]
  <2>1. k - 1 \in Nat /\ k - 1 < q
    BY <1>2, <1>4
  <2> HIDE DEF p, q
  <2> QED  BY <1>3, <2>1
<1>6. Len(old) - Below(D, Len(old)) = p /\ Len(new) - Below(I, Len(new)) = p
  BY <1>4 DEF Unshift
<1> HIDE DEF p, q
<1>7. Rest(old, D) = [k \in 1 .. p |-> old[Shift(D, k - 1) + 1]]
  BY <1>6 DEF Rest
<1>8. Rest(new, I) = [k \in 1 .. p |-> new[Shift(I, k - 1) + 1]]
  BY <1>6 DEF Rest
<1> QED  BY <1>4, <1>5, <1>7, <1>8 DEF p, q

\* Rest keeps exactly the elements outside the set, in their order.
LEMMA RestFacts ==
  ASSUME NEW R, NEW s \in Seq(R), NEW T \in Indices
  PROVE  /\ Rest(s, T) \in Seq(R)
         /\ \A k \in DOMAIN Rest(s, T) : \E p \in DOMAIN s :
               /\ p - 1 \notin T /\ Rest(s, T)[k] = s[p] /\ Unshift(T, p - 1) = k - 1
         /\ \A p \in DOMAIN s : p - 1 \notin T =>
               \E k \in DOMAIN Rest(s, T) : Rest(s, T)[k] = s[p]
<1> DEFINE n == Unshift(T, Len(s))
           r == Rest(s, T)
<1>1. Len(s) \in Nat /\ DOMAIN s = 1 .. Len(s) /\ \A p \in 1 .. Len(s) : s[p] \in R
  BY SeqLen, ElementOfSeq
<1>2. n \in Nat
  BY <1>1, UnshiftType
<1>3. r = [k \in 1 .. n |-> s[Shift(T, k - 1) + 1]]
  BY DEF Rest, Unshift
<1> HIDE DEF n, r
<1>4. ASSUME NEW k \in 1 .. n
      PROVE  \E p \in 1 .. Len(s) :
               /\ p - 1 \notin T /\ r[k] = s[p] /\ Unshift(T, p - 1) = k - 1
  <2> DEFINE q == Shift(T, k - 1)
  <2>1. k - 1 \in Nat /\ k - 1 < n
    BY <1>2
  <2>2. q \in Nat \ T /\ Unshift(T, q) = k - 1
    BY <2>1, ShiftIs
  <2>3. r[k] = s[q + 1]
    BY <1>3
  <2> HIDE DEF q
  <2>4. q < Len(s)
    BY <1>1, <2>1, <2>2, UnshiftLess DEF n
  <2>5. q + 1 \in 1 .. Len(s) /\ (q + 1) - 1 = q
    BY <1>1, <2>2, <2>4
  <2> QED  BY <2>2, <2>3, <2>5
<1>5. r \in [1 .. n -> R]
  <2>1. \A k \in 1 .. n : r[k] \in R
    BY <1>1, <1>4
  <2> QED  BY <1>3, <2>1
<1>6. r \in Seq(R) /\ DOMAIN r = 1 .. n
  BY <1>2, <1>5, FunctionIsSeq
<1>7. ASSUME NEW p \in 1 .. Len(s), p - 1 \notin T
      PROVE  \E k \in 1 .. n : r[k] = s[p]
  <2> DEFINE k == Unshift(T, p - 1) + 1
  <2>1. p - 1 \in Nat \ T /\ p - 1 < Len(s) /\ (p - 1) + 1 = p
    BY <1>1, <1>7
  <2>2. Unshift(T, p - 1) \in Nat /\ Unshift(T, p - 1) < n
    BY <1>1, <2>1, UnshiftType, UnshiftLess DEF n
  <2>3. k \in 1 .. n /\ k - 1 = Unshift(T, p - 1)
    BY <1>2, <2>2
  <2>4. Shift(T, k - 1) = p - 1
    BY <2>1, <2>3, ShiftUnique
  <2>5. r[k] = s[Shift(T, k - 1) + 1]
    BY <1>3, <2>3
  <2> HIDE DEF k
  <2>6. r[k] = s[p]
    BY <2>1, <2>4, <2>5
  <2> QED  BY <2>3, <2>6
<1> QED  BY <1>1, <1>4, <1>6, <1>7 DEF r

-----------------------------------------------------------------------------
(* What is true of a change set between two lists of rows *)

Move == [from : Nat, to : Nat]

IsBuilder(b) ==
  b \in [deletions : Indices, insertions : Indices, modifications : Indices,
         moves : Seq(Move), mapping : {b.mapping}]

Bounded(b, new) ==
  /\ \A x \in b.insertions : x < Len(new)
  /\ \A x \in b.modifications : x < Len(new)

MovedTo(b, x) == (\E k \in DOMAIN b.moves : b.moves[k].to = x) \/ x \in DOMAIN b.mapping

\* Modifies, index by index.
Marks(b, new, set) ==
  \A x \in Nat : x < Len(new) /\ (x \in b.insertions => MovedTo(b, x))
                   => (x \in b.modifications <=> new[x + 1] \in set)

TrueMoves(b, old, new) ==
  /\ \A k \in DOMAIN b.moves : TrueMove(b, old, new, b.moves[k])
  /\ \A k \in DOMAIN b.mapping : TrueMove(b, old, new, [from |-> b.mapping[k], to |-> k])

DistinctMoves(b) == \A k, l \in DOMAIN b.moves : b.moves[k].from = b.moves[l].from => k = l

Sound(b, old, new, set) ==
  IsBuilder(b) /\ Bounded(b, new) /\ TrueMoves(b, old, new) /\ DistinctMoves(b) /\ Marks(b, new, set)

\* What holds of a list's changes, and of any that a parsed log ends with.
Good(b, old, new, set) ==
  Sound(b, old, new, set) /\ DOMAIN b.mapping = {} /\ Pairs(b.deletions, b.insertions, old, new)

\* The two forms of the property.
LEMMA MarksAreModifies ==
  ASSUME NEW R, NEW new \in Seq(R), NEW b, NEW set
  PROVE  Modifies(b, new, set) <=> Marks(b, new, set)
<1> DEFINE to == {m.to : m \in BuilderMoves(b)}
<1>1. \A x : x \in to <=> MovedTo(b, x)
  <2>1. \A x : x \in to <=> \E m \in BuilderMoves(b) : m.to = x
    OBVIOUS
  <2>2. \A m : m \in BuilderMoves(b) <=> \/ \E k \in DOMAIN b.moves : m = b.moves[k]
                                        \/ \E k \in DOMAIN b.mapping :
                                              m = [from |-> b.mapping[k], to |-> k]
    BY DEF BuilderMoves, ToSet
  <2>3. \A k : [from |-> b.mapping[k], to |-> k].to = k
    OBVIOUS
  <2> HIDE DEF to
  <2>4. ASSUME NEW x, x \in to PROVE MovedTo(b, x)
    <3>1. PICK m \in BuilderMoves(b) : m.to = x
      BY <2>1, <2>4
    <3>2. CASE \E k \in DOMAIN b.moves : m = b.moves[k]
      BY <3>1, <3>2 DEF MovedTo
    <3>3. CASE \E k \in DOMAIN b.mapping : m = [from |-> b.mapping[k], to |-> k]
      BY <2>3, <3>1, <3>3 DEF MovedTo
    <3> QED  BY <2>2, <3>2, <3>3
  <2>5. ASSUME NEW x, MovedTo(b, x) PROVE x \in to
    BY <2>1, <2>2, <2>3, <2>5 DEF MovedTo
  <2> QED  BY <2>4, <2>5
<1>2. Len(new) \in Nat /\ DOMAIN new = 1 .. Len(new)
  BY SeqLen
<1> HIDE DEF to
<1>3. ASSUME Modifies(b, new, set) PROVE Marks(b, new, set)
  <2> SUFFICES ASSUME NEW x \in Nat, x < Len(new), x \in b.insertions => MovedTo(b, x)
               PROVE  x \in b.modifications <=> new[x + 1] \in set
    BY DEF Marks
  <2>1. x + 1 \in DOMAIN new /\ (x + 1) - 1 = x
    BY <1>2
  <2>2. (x + 1) - 1 \in b.modifications <=> new[x + 1] \in set
    BY <1>1, <1>3, <2>1 DEF Modifies, to
  <2> QED  BY <2>1, <2>2
<1>4. ASSUME Marks(b, new, set) PROVE Modifies(b, new, set)
  <2>1. ASSUME NEW k \in DOMAIN new, k - 1 \in b.insertions => k - 1 \in to
        PROVE  k - 1 \in b.modifications <=> new[k] \in set
    <3>1. k - 1 \in Nat /\ k - 1 < Len(new) /\ (k - 1) + 1 = k
      BY <1>2
    <3>2. k - 1 \in b.modifications <=> new[(k - 1) + 1] \in set
      BY <1>1, <1>4, <2>1, <3>1 DEF Marks
    <3> QED  BY <3>1, <3>2
  <2> QED  BY <2>1 DEF Modifies, to
<1> QED  BY <1>3, <1>4

\* The fields of a builder.
LEMMA BuilderFields ==
  ASSUME NEW b, IsBuilder(b)
  PROVE  /\ b.deletions \in Indices /\ b.insertions \in Indices /\ b.modifications \in Indices
         /\ b.moves \in Seq(Move) /\ Len(b.moves) \in Nat /\ DOMAIN b.moves = 1 .. Len(b.moves)
         /\ \A k \in DOMAIN b.moves : /\ b.moves[k] \in Move
                                      /\ b.moves[k].from \in Nat /\ b.moves[k].to \in Nat
<1>1. /\ b.deletions \in Indices /\ b.insertions \in Indices /\ b.modifications \in Indices
      /\ b.moves \in Seq(Move)
  BY DEF IsBuilder
<1>2. Len(b.moves) \in Nat /\ DOMAIN b.moves = 1 .. Len(b.moves)
  BY <1>1, SeqLen
<1>3. \A k \in DOMAIN b.moves : b.moves[k] \in Move
  BY <1>1, <1>2, ElementOfSeq
<1>4. \A m \in Move : m.from \in Nat /\ m.to \in Nat
  BY DEF Move
<1> QED  BY <1>1, <1>2, <1>3, <1>4

\* Moves whose targets went elsewhere.
Retargeted(s, to) == [k \in DOMAIN s |-> [s[k] EXCEPT !.to = to[@]]]

\* Changing where the moves of a list end.
LEMMA MapMoves ==
  ASSUME NEW s \in Seq(Move), NEW to, \A k \in DOMAIN s : to[s[k].to] \in Nat
  PROVE  /\ Retargeted(s, to) \in Seq(Move)
         /\ DOMAIN Retargeted(s, to) = DOMAIN s /\ Len(Retargeted(s, to)) = Len(s)
         /\ \A k \in DOMAIN s : /\ Retargeted(s, to)[k].from = s[k].from
                                /\ Retargeted(s, to)[k].to = to[s[k].to]
<1> DEFINE t == Retargeted(s, to)
<1>1. Len(s) \in Nat /\ DOMAIN s = 1 .. Len(s)
  BY SeqLen
<1>2. \A k \in DOMAIN s : s[k] \in Move
  BY <1>1, ElementOfSeq
<1>3. \A k \in DOMAIN s : t[k] = [s[k] EXCEPT !.to = to[@]]
  BY DEF Retargeted
<1>4. \A k \in DOMAIN s : t[k] \in Move /\ t[k].from = s[k].from /\ t[k].to = to[s[k].to]
  <2> SUFFICES ASSUME NEW k \in DOMAIN s
               PROVE  t[k] \in Move /\ t[k].from = s[k].from /\ t[k].to = to[s[k].to]
    OBVIOUS
  <2>1. /\ s[k] = [from |-> s[k].from, to |-> s[k].to]
        /\ s[k].from \in Nat /\ s[k].to \in Nat
    BY <1>2 DEF Move
  <2>2. t[k] = [from |-> s[k].from, to |-> to[s[k].to]]
    BY <1>3, <2>1
  <2> HIDE DEF t
  <2> QED  BY <2>1, <2>2 DEF Move
<1>5. t \in [1 .. Len(s) -> Move]
  BY <1>1, <1>4 DEF Retargeted
<1>6. t \in Seq(Move) /\ Len(t) = Len(s)
  BY <1>1, <1>5, FunctionIsSeq
<1> QED  BY <1>4, <1>6

\* A row is inserted.
LEMMA InsertedGood ==
  ASSUME NEW R, NEW old, NEW new \in Seq(R), NEW set, NEW b, Good(b, old, new, set), Track,
         NEW i \in 0 .. Len(new), NEW e \in R
  PROVE  Good(Inserted(b, i, 1), old, InsertAt(new, i + 1, e), set)
<1> DEFINE a == InsertAt(new, i + 1, e)
           up == [x \in Nat |-> IF x >= i THEN x + 1 ELSE x]
           moves == Retargeted(b.moves, up)
           I == InsertIndices(b.insertions, i, 1)
           M == ShiftForInsertAt(b.modifications, i, 1)
           c == Inserted(b, i, 1)
<1>1. /\ IsBuilder(b) /\ DOMAIN b.mapping = {}
      /\ Pairs(b.deletions, b.insertions, old, new)
      /\ Bounded(b, new) /\ TrueMoves(b, old, new) /\ DistinctMoves(b) /\ Marks(b, new, set)
  BY DEF Good, Sound
<1>2. /\ b.deletions \in Indices /\ b.insertions \in Indices /\ b.modifications \in Indices
      /\ b.moves \in Seq(Move)
      /\ \A k \in DOMAIN b.moves : b.moves[k].from \in Nat /\ b.moves[k].to \in Nat
  BY <1>1, BuilderFields
<1>3. Len(new) \in Nat /\ i \in Nat
  BY SeqLen
<1>4. \A k \in DOMAIN b.moves : up[b.moves[k].to] \in Nat
  <2>1. \A x \in Nat : up[x] \in Nat
    BY <1>3
  <2> HIDE DEF up
  <2> QED  BY <1>2, <2>1
<1>5. /\ moves \in Seq(Move) /\ DOMAIN moves = DOMAIN b.moves
      /\ \A k \in DOMAIN b.moves : /\ moves[k].from = b.moves[k].from
                                   /\ moves[k].to = up[b.moves[k].to]
  <2>1. b.moves \in Seq(Move)
    BY <1>2
  <2> HIDE DEF up
  <2> QED  BY <2>1, <1>4, MapMoves
<1>6. /\ c.deletions = b.deletions /\ c.insertions = I /\ c.modifications = M
      /\ c.moves = moves /\ DOMAIN c.mapping = {}
      /\ c = [deletions |-> b.deletions, insertions |-> I, modifications |-> M, moves |-> moves,
              mapping |-> c.mapping]
  <2>1. \A k \in DOMAIN b.moves :
          [b.moves[k] EXCEPT !.to = IF @ >= i THEN @ + 1 ELSE @] = [b.moves[k] EXCEPT !.to = up[@]]
    BY <1>2
  <2>2. moves = [k \in DOMAIN b.moves |->
                   [b.moves[k] EXCEPT !.to = IF @ >= i THEN @ + 1 ELSE @]]
    <3> HIDE DEF up
    <3> QED  BY <2>1 DEF Retargeted
  <2> HIDE DEF moves, I, M
  <2> QED  BY <1>1, <2>2 DEF Inserted, Map, I, M
<1>7. /\ I \in Indices /\ M \in Indices
      /\ \A x \in Nat : x \in M <=> (x < i /\ x \in b.modifications)
                                     \/ (x > i /\ x - 1 \in b.modifications)
      /\ \A x \in Nat : x \in I <=> x = i \/ (x < i /\ x \in b.insertions)
                                     \/ (x > i /\ x - 1 \in b.insertions)
  <2>1. \A S \in Indices :
          /\ ShiftForInsertAt(S, i, 1) \in Indices /\ InsertIndices(S, i, 1) \in Indices
          /\ \A x \in Nat : x \in ShiftForInsertAt(S, i, 1)
                              <=> (x < i /\ x \in S) \/ (x > i /\ x - 1 \in S)
          /\ \A x \in Nat : x \in InsertIndices(S, i, 1)
                              <=> x = i \/ (x < i /\ x \in S) \/ (x > i /\ x - 1 \in S)
    BY <1>3, InsertMember
  <2>2. I \in Indices /\ M \in Indices
    BY <1>2, <2>1
  <2>3. \A x \in Nat : x \in M <=> (x < i /\ x \in b.modifications)
                                    \/ (x > i /\ x - 1 \in b.modifications)
    BY <1>2, <2>1
  <2>4. \A x \in Nat : x \in I <=> x = i \/ (x < i /\ x \in b.insertions)
                                    \/ (x > i /\ x - 1 \in b.insertions)
    BY <1>2, <2>1
  <2> QED  BY <2>2, <2>3, <2>4
<1>8. /\ a \in Seq(R) /\ Len(a) = Len(new) + 1
      /\ \A x \in 0 .. Len(new) : a[x + 1] = IF x < i THEN new[x + 1]
                                             ELSE IF x = i THEN e ELSE new[x]
  <2>1. a \in Seq(R)
    BY InsertAtSeq
  <2>2. /\ Len(a) = Len(new) + 1
        /\ \A x \in 0 .. Len(new) : a[x + 1] = IF x < i THEN new[x + 1]
                                               ELSE IF x = i THEN e ELSE new[x]
    BY InsertAtSeq
  <2> QED  BY <2>1, <2>2
<1>9. Pairs(b.deletions, I, old, a)
  BY <1>1, <1>2, PairsInsert
<1> HIDE DEF a, I, M, c, moves
<1>10. IsBuilder(c)
  BY <1>2, <1>5, <1>6, <1>7 DEF IsBuilder
<1>11. Bounded(c, a)
  <2>1. \A x \in I : x \in Nat
    BY <1>7 DEF Indices
  <2>2. \A x \in M : x \in Nat
    BY <1>7 DEF Indices
  <2>3. \A x \in I : x < Len(a)
    <3> SUFFICES ASSUME NEW x \in I PROVE x < Len(new) + 1
      BY <1>8
    <3>1. CASE x = i
      BY <1>3, <3>1
    <3>2. CASE x < i
      BY <1>3, <2>1, <3>2
    <3>3. CASE x > i /\ x - 1 \in b.insertions
      BY <1>1, <1>3, <2>1, <3>3 DEF Bounded
    <3> QED  BY <1>7, <2>1, <3>1, <3>2, <3>3
  <2>4. \A x \in M : x < Len(a)
    <3> SUFFICES ASSUME NEW x \in M PROVE x < Len(new) + 1
      BY <1>8
    <3>1. CASE x < i
      BY <1>3, <2>2, <3>1
    <3>2. CASE x > i /\ x - 1 \in b.modifications
      BY <1>1, <1>3, <2>2, <3>2 DEF Bounded
    <3> QED  BY <1>7, <2>2, <3>1, <3>2
  <2> QED  BY <1>6, <2>3, <2>4 DEF Bounded
<1>12. TrueMoves(c, old, a)
  <2> SUFFICES ASSUME NEW k \in DOMAIN b.moves PROVE TrueMove(c, old, a, moves[k])
    BY <1>5, <1>6 DEF TrueMoves
  <2> DEFINE x == b.moves[k].to
             y == b.moves[k].from
  <2>1. x \in Nat /\ y \in Nat
    BY <1>2
  <2>2. y \in b.deletions /\ x \in b.insertions /\ y < Len(old) /\ x < Len(new)
        /\ old[y + 1] = new[x + 1]
    BY <1>1 DEF TrueMoves, TrueMove
  <2>3. moves[k].from = y /\ moves[k].to = IF x >= i THEN x + 1 ELSE x
    BY <1>5, <2>1
  <2> HIDE DEF x, y
  <2>4. CASE x >= i
    <3>1. x + 1 \in I
      <4>1. x + 1 \in Nat /\ x + 1 > i /\ (x + 1) - 1 = x
        BY <1>3, <2>1, <2>4
      <4> QED  BY <1>7, <2>2, <4>1
    <3>2. x + 1 \in 0 .. Len(new) /\ ~(x + 1 < i) /\ x + 1 # i
      BY <1>3, <2>1, <2>2, <2>4
    <3>3. a[(x + 1) + 1] = new[x + 1]
      BY <1>8, <3>2
    <3>4. x + 1 < Len(a)
      BY <1>3, <1>8, <2>1, <2>2
    <3>5. moves[k].to = x + 1
      BY <2>3, <2>4
    <3> QED  BY <1>6, <2>2, <2>3, <3>1, <3>3, <3>4, <3>5 DEF TrueMove
  <2>5. CASE ~(x >= i)
    <3>1. x \in I
      BY <1>3, <1>7, <2>1, <2>2, <2>5
    <3>2. x \in 0 .. Len(new) /\ x < i
      BY <1>3, <2>1, <2>2, <2>5
    <3>3. a[x + 1] = new[x + 1]
      BY <1>8, <3>2
    <3>4. x < Len(a)
      BY <1>3, <1>8, <2>1, <2>2
    <3>5. moves[k].to = x
      BY <2>3, <2>5
    <3> QED  BY <1>6, <2>2, <2>3, <3>1, <3>3, <3>4, <3>5 DEF TrueMove
  <2> QED  BY <2>4, <2>5
<1>13. DistinctMoves(c)
  BY <1>1, <1>5, <1>6 DEF DistinctMoves
<1>14. Marks(c, a, set)
  <2> SUFFICES ASSUME NEW x \in Nat, x < Len(a), x \in I => MovedTo(c, x)
               PROVE  x \in M <=> a[x + 1] \in set
    BY <1>6 DEF Marks
  <2>1. x \in 0 .. Len(new)
    BY <1>3, <1>8
  <2>2. MovedTo(c, x) => \E k \in DOMAIN b.moves : x = IF b.moves[k].to >= i THEN b.moves[k].to + 1
                                                       ELSE b.moves[k].to
    <3>1. MovedTo(c, x) => \E k \in DOMAIN b.moves : moves[k].to = x
      BY <1>5, <1>6 DEF MovedTo
    <3>2. \A k \in DOMAIN b.moves : moves[k].to = IF b.moves[k].to >= i THEN b.moves[k].to + 1
                                                  ELSE b.moves[k].to
      BY <1>2, <1>5
    <3> QED  BY <3>1, <3>2
  <2>3. CASE x < i
    <3>1. x < Len(new)
      BY <1>3, <2>3
    <3>2. x \in b.insertions => MovedTo(b, x)
      <4> SUFFICES ASSUME x \in b.insertions PROVE MovedTo(b, x)
        OBVIOUS
      <4>1. PICK k \in DOMAIN b.moves : x = IF b.moves[k].to >= i THEN b.moves[k].to + 1
                                            ELSE b.moves[k].to
        BY <1>7, <2>2, <2>3
      <4>2. b.moves[k].to = x
        BY <1>2, <1>3, <2>3, <4>1
      <4> QED  BY <4>2 DEF MovedTo
    <3>3. x \in b.modifications <=> new[x + 1] \in set
      BY <1>1, <3>1, <3>2 DEF Marks
    <3>4. x \in M <=> x \in b.modifications
      BY <1>3, <1>7, <2>3
    <3>5. a[x + 1] = new[x + 1]
      BY <1>8, <2>1, <2>3
    <3> QED  BY <3>3, <3>4, <3>5
  <2>4. CASE x = i
    <3>1. x \in I
      BY <1>7, <2>4
    <3>2. PICK k \in DOMAIN b.moves : x = IF b.moves[k].to >= i THEN b.moves[k].to + 1
                                          ELSE b.moves[k].to
      BY <2>2, <3>1
    <3> QED  BY <1>2, <1>3, <2>4, <3>2
  <2>5. CASE x > i
    <3>1. x - 1 \in Nat /\ x - 1 < Len(new) /\ (x - 1) + 1 = x
      BY <1>3, <2>1, <2>5
    <3>2. x - 1 \in b.insertions => MovedTo(b, x - 1)
      <4> SUFFICES ASSUME x - 1 \in b.insertions PROVE MovedTo(b, x - 1)
        OBVIOUS
      <4>1. PICK k \in DOMAIN b.moves : x = IF b.moves[k].to >= i THEN b.moves[k].to + 1
                                            ELSE b.moves[k].to
        BY <1>7, <2>2, <2>5
      <4>2. b.moves[k].to = x - 1
        BY <1>2, <1>3, <2>5, <4>1
      <4> QED  BY <4>2 DEF MovedTo
    <3>3. x - 1 \in b.modifications <=> new[x] \in set
      BY <1>1, <3>1, <3>2 DEF Marks
    <3>4. x \in M <=> x - 1 \in b.modifications
      BY <1>3, <1>7, <2>5
    <3>5. a[x + 1] = new[x]
      BY <1>3, <1>8, <2>1, <2>5
    <3> QED  BY <3>3, <3>4, <3>5
  <2> QED  BY <1>3, <2>3, <2>4, <2>5
<1> QED  BY <1>6, <1>9, <1>10, <1>11, <1>12, <1>13, <1>14 DEF Good, Sound, a, c

\* What is left when those moves are dropped whose target is erased.
Staying(s, i) == Rest(s, Where(s, LAMBDA m : m.to = i))

\* The moves that do not end at i.
LEMMA StayingFacts ==
  ASSUME NEW s \in Seq(Move), NEW i
  PROVE  /\ Staying(s, i) \in Seq(Move)
         /\ \A k \in DOMAIN Staying(s, i) : \E p \in DOMAIN s :
               s[p].to # i /\ Staying(s, i)[k] = s[p]
         /\ \A p \in DOMAIN s : s[p].to # i =>
               \E k \in DOMAIN Staying(s, i) : Staying(s, i)[k] = s[p]
         /\ (\A p, q \in DOMAIN s : s[p].from = s[q].from => p = q) =>
               \A k, l \in DOMAIN Staying(s, i) :
                 Staying(s, i)[k].from = Staying(s, i)[l].from => k = l
<1> DEFINE W == {k - 1 : k \in {l \in DOMAIN s : s[l].to = i}}
           r == Rest(s, W)
<1>1. Staying(s, i) = r
  BY DEF Staying, Where
<1>2. Len(s) \in Nat /\ DOMAIN s = 1 .. Len(s)
  BY SeqLen
<1>3. \A p \in DOMAIN s : p - 1 \in W <=> s[p].to = i
  <2> SUFFICES ASSUME NEW p \in DOMAIN s PROVE p - 1 \in W <=> s[p].to = i
    OBVIOUS
  <2>1. p - 1 \in W => s[p].to = i
    <3> SUFFICES ASSUME p - 1 \in W PROVE s[p].to = i
      OBVIOUS
    <3>1. PICK l \in DOMAIN s : s[l].to = i /\ l - 1 = p - 1
      OBVIOUS
    <3>2. l = p
      BY <1>2, <3>1
    <3> QED  BY <3>1, <3>2
  <2>2. s[p].to = i => p - 1 \in W
    OBVIOUS
  <2> QED  BY <2>1, <2>2
<1>4. W \in Indices
  <2>1. \A x \in W : x \in Nat /\ x <= Len(s)
    BY <1>2
  <2> HIDE DEF W
  <2> QED  BY <1>2, <2>1 DEF Indices
<1> HIDE DEF W, r
<1>5. /\ r \in Seq(Move)
      /\ \A k \in DOMAIN r : \E p \in DOMAIN s :
            p - 1 \notin W /\ r[k] = s[p] /\ Unshift(W, p - 1) = k - 1
      /\ \A p \in DOMAIN s : p - 1 \notin W => \E k \in DOMAIN r : r[k] = s[p]
  BY <1>4, RestFacts DEF r
<1>6. ASSUME \A p, q \in DOMAIN s : s[p].from = s[q].from => p = q,
             NEW k \in DOMAIN r, NEW l \in DOMAIN r, r[k].from = r[l].from
      PROVE  k = l
  <2>1. PICK p \in DOMAIN s : r[k] = s[p] /\ Unshift(W, p - 1) = k - 1
    BY <1>5
  <2>2. PICK q \in DOMAIN s : r[l] = s[q] /\ Unshift(W, q - 1) = l - 1
    BY <1>5
  <2>3. p = q
    BY <1>6, <2>1, <2>2
  <2>4. k - 1 = l - 1
    BY <2>1, <2>2, <2>3
  <2>5. k \in Nat /\ l \in Nat
    <3>1. r \in Seq(Move)
      BY <1>5
    <3>2. DOMAIN r = 1 .. Len(r) /\ Len(r) \in Nat
      BY <3>1, SeqLen
    <3> QED  BY <3>2
  <2> QED  BY <2>4, <2>5
<1>7. \A k \in DOMAIN r : \E p \in DOMAIN s : s[p].to # i /\ r[k] = s[p]
  BY <1>3, <1>5
<1>8. \A p \in DOMAIN s : s[p].to # i => \E k \in DOMAIN r : r[k] = s[p]
  BY <1>3, <1>5
<1> QED  BY <1>1, <1>5, <1>6, <1>7, <1>8

\* A row is erased: the old row it pairs with is deleted.
LEMMA PairsErased ==
  ASSUME NEW D \in Indices, NEW I \in Indices, NEW R, NEW old, NEW new \in Seq(R),
         Pairs(D, I, old, new), NEW i \in Nat, i < Len(new)
  PROVE  LET E == IF i \in I THEN D ELSE D \cup {Shift(D, Unshift(I, i))}
         IN /\ E \in Indices /\ Pairs(E, EraseAt(I, i), old, RemoveAt(new, i + 1))
            /\ \A d \in D : d \in E
<1>1. CASE i \in I
  BY <1>1, PairsErase
<1>2. CASE i \notin I
  <2> DEFINE s == Shift(D, Unshift(I, i))
  <2>1. Unshift(I, i) \in Nat
    BY UnshiftType
  <2>2. s \in Nat \ D /\ Unshift(D, s) = Unshift(I, i)
    BY <2>1, ShiftIs
  <2> HIDE DEF s
  <2>3. D \cup {s} \in Indices /\ I \cup {i} \in Indices
    BY <2>2, AddMember
  <2>4. Pairs(D \cup {s}, I \cup {i}, old, new)
    BY <1>2, <2>2, PairsMore
  <2>5. Pairs(D \cup {s}, EraseAt(I \cup {i}, i), old, RemoveAt(new, i + 1))
    <3>1. i \in I \cup {i}
      OBVIOUS
    <3> QED  BY <2>3, <2>4, <3>1, PairsErase
  <2>6. EraseAt(I \cup {i}, i) = EraseAt(I, i)
    <3>1. (I \cup {i}) \ {i} = I \ {i}
      OBVIOUS
    <3> QED  BY <3>1 DEF EraseAt
  <2>7. \A d \in D : d \in D \cup {s}
    OBVIOUS
  <2> QED  BY <1>2, <2>3, <2>5, <2>6, <2>7 DEF s
<1> QED  BY <1>1, <1>2

\* A row is erased.
LEMMA ErasedGood ==
  ASSUME NEW R, NEW old, NEW new \in Seq(R), NEW set, NEW b, Good(b, old, new, set),
         NEW i \in Nat, i < Len(new)
  PROVE  Good(Erased(b, i), old, RemoveAt(new, i + 1), set)
<1> DEFINE a == RemoveAt(new, i + 1)
           down == [x \in Nat |-> IF x > i THEN x - 1 ELSE x]
           kept == Staying(b.moves, i)
           moves == Retargeted(kept, down)
           D == IF i \in b.insertions THEN b.deletions
                ELSE b.deletions \cup {Shift(b.deletions, Unshift(b.insertions, i))}
           I == EraseAt(b.insertions, i)
           M == EraseAt(b.modifications, i)
           c == Erased(b, i)
<1>1. /\ IsBuilder(b) /\ DOMAIN b.mapping = {}
      /\ Pairs(b.deletions, b.insertions, old, new)
      /\ Bounded(b, new) /\ TrueMoves(b, old, new) /\ DistinctMoves(b) /\ Marks(b, new, set)
  BY DEF Good, Sound
<1>2. /\ b.deletions \in Indices /\ b.insertions \in Indices /\ b.modifications \in Indices
      /\ b.moves \in Seq(Move)
      /\ \A k \in DOMAIN b.moves : b.moves[k].from \in Nat /\ b.moves[k].to \in Nat
  BY <1>1, BuilderFields
<1>3. Len(new) \in Nat /\ DOMAIN new = 1 .. Len(new)
  BY SeqLen
<1>4. /\ kept \in Seq(Move)
      /\ \A k \in DOMAIN kept : \E p \in DOMAIN b.moves :
            b.moves[p].to # i /\ kept[k] = b.moves[p]
      /\ \A p \in DOMAIN b.moves : b.moves[p].to # i =>
            \E k \in DOMAIN kept : kept[k] = b.moves[p]
      /\ \A k, l \in DOMAIN kept : kept[k].from = kept[l].from => k = l
  <2> HIDE DEF kept
  <2>1. \A p, q \in DOMAIN b.moves : b.moves[p].from = b.moves[q].from => p = q
    BY <1>1 DEF DistinctMoves
  <2> QED  BY <1>2, <2>1, StayingFacts DEF kept
<1> HIDE DEF kept
<1>5. /\ moves \in Seq(Move) /\ DOMAIN moves = DOMAIN kept
      /\ \A k \in DOMAIN kept : moves[k].from = kept[k].from /\ moves[k].to = down[kept[k].to]
  <2>1. \A x \in Nat : down[x] \in Nat
    <3> SUFFICES ASSUME NEW x \in Nat PROVE (IF x > i THEN x - 1 ELSE x) \in Nat
      OBVIOUS
    <3> QED  OBVIOUS
  <2>2. \A k \in DOMAIN kept : down[kept[k].to] \in Nat
    BY <1>2, <1>4, <2>1
  <2> HIDE DEF down
  <2> QED  BY <1>4, <2>2, MapMoves
<1>6. /\ c.deletions = D /\ c.insertions = I /\ c.modifications = M
      /\ c.moves = moves /\ c.mapping = b.mapping
      /\ c = [deletions |-> D, insertions |-> I, modifications |-> M, moves |-> moves,
              mapping |-> b.mapping]
  <2>1. \A k \in DOMAIN kept :
          [kept[k] EXCEPT !.to = IF @ > i THEN @ - 1 ELSE @] = [kept[k] EXCEPT !.to = down[@]]
    <3>1. \A k \in DOMAIN kept : kept[k].to \in Nat
      BY <1>2, <1>4
    <3>2. \A x \in Nat : down[x] = IF x > i THEN x - 1 ELSE x
      OBVIOUS
    <3> HIDE DEF down
    <3> QED  BY <3>1, <3>2
  <2>2. moves = [k \in DOMAIN kept |-> [kept[k] EXCEPT !.to = IF @ > i THEN @ - 1 ELSE @]]
    <3> HIDE DEF down
    <3> QED  BY <2>1 DEF Retargeted
  <2>3. D = IF ErasedOrUnshifted(b.insertions, i) = npos THEN b.deletions
            ELSE AddShifted(b.deletions, ErasedOrUnshifted(b.insertions, i))
    <3>1. Unshift(b.insertions, i) \in Nat
      <4>1. Unshift(b.insertions, i) \in 0 .. i
        BY <1>2, UnshiftType
      <4> QED  BY <4>1
    <3>2. \A n \in Nat : n # npos
      BY DEF npos
    <3> QED  BY <3>1, <3>2 DEF ErasedOrUnshifted, AddShifted
  <2>4. c = [b EXCEPT !.modifications = M, !.insertions = I, !.deletions = D, !.moves = moves]
    <3> HIDE DEF moves, D
    <3> QED  BY <2>2, <2>3 DEF Erased, Map, Staying, kept
  <2> HIDE DEF moves, D, I, M, c
  <2> QED  BY <1>1, <2>4 DEF IsBuilder
<1>7. /\ I \in Indices /\ M \in Indices
      /\ \A x \in Nat : x \in M <=> (x < i /\ x \in b.modifications)
                                     \/ (x >= i /\ x + 1 \in b.modifications)
      /\ \A x \in Nat : x \in I <=> (x < i /\ x \in b.insertions)
                                     \/ (x >= i /\ x + 1 \in b.insertions)
  <2>1. \A S \in Indices :
          /\ EraseAt(S, i) \in Indices
          /\ \A x \in Nat : x \in EraseAt(S, i) <=> (x < i /\ x \in S) \/ (x >= i /\ x + 1 \in S)
    BY EraseMember
  <2>2. I \in Indices /\ M \in Indices
    BY <1>2, <2>1
  <2>3. \A x \in Nat : x \in M <=> (x < i /\ x \in b.modifications)
                                     \/ (x >= i /\ x + 1 \in b.modifications)
    BY <1>2, <2>1
  <2>4. \A x \in Nat : x \in I <=> (x < i /\ x \in b.insertions)
                                     \/ (x >= i /\ x + 1 \in b.insertions)
    BY <1>2, <2>1
  <2> QED  BY <2>2, <2>3, <2>4
<1>8. /\ a \in Seq(R) /\ Len(a) = Len(new) - 1
      /\ \A x \in Nat : x < Len(new) - 1 =>
            a[x + 1] = IF x < i THEN new[x + 1] ELSE new[(x + 1) + 1]
  <2>1. i + 1 \in DOMAIN new
    BY <1>3
  <2>2. /\ a \in Seq(R) /\ Len(a) = Len(new) - 1
        /\ \A j \in 1 .. Len(new) - 1 : a[j] = IF j < i + 1 THEN new[j] ELSE new[j + 1]
    BY <2>1, RemoveAtSeq
  <2> HIDE DEF a
  <2>3. ASSUME NEW x \in Nat, x < Len(new) - 1
        PROVE  a[x + 1] = IF x < i THEN new[x + 1] ELSE new[(x + 1) + 1]
    <3>1. x + 1 \in 1 .. Len(new) - 1 /\ (x + 1 < i + 1 <=> x < i)
      BY <1>3, <2>3
    <3> QED  BY <2>2, <3>1
  <2> QED  BY <2>2, <2>3
<1>9. D \in Indices /\ Pairs(D, I, old, a) /\ \A d \in b.deletions : d \in D
  BY <1>1, <1>2, PairsErased
<1> HIDE DEF a, D, I, M, c, moves
<1>10. IsBuilder(c)
  BY <1>2, <1>5, <1>6, <1>7, <1>9 DEF IsBuilder
<1>11. Bounded(c, a)
  <2>1. \A x \in I : x \in Nat
    BY <1>7 DEF Indices
  <2>2. \A x \in M : x \in Nat
    BY <1>7 DEF Indices
  <2>3. \A x \in I : x < Len(a)
    <3> SUFFICES ASSUME NEW x \in I PROVE x < Len(new) - 1
      BY <1>8
    <3>1. CASE x < i
      BY <1>3, <2>1, <3>1
    <3>2. CASE x >= i /\ x + 1 \in b.insertions
      BY <1>1, <1>3, <2>1, <3>2 DEF Bounded
    <3> QED  BY <1>7, <2>1, <3>1, <3>2
  <2>4. \A x \in M : x < Len(a)
    <3> SUFFICES ASSUME NEW x \in M PROVE x < Len(new) - 1
      BY <1>8
    <3>1. CASE x < i
      BY <1>3, <2>2, <3>1
    <3>2. CASE x >= i /\ x + 1 \in b.modifications
      BY <1>1, <1>3, <2>2, <3>2 DEF Bounded
    <3> QED  BY <1>7, <2>2, <3>1, <3>2
  <2> QED  BY <1>6, <2>3, <2>4 DEF Bounded
<1>12. TrueMoves(c, old, a)
  <2> SUFFICES ASSUME NEW k \in DOMAIN kept PROVE TrueMove(c, old, a, moves[k])
    BY <1>1, <1>5, <1>6 DEF TrueMoves
  <2>0. PICK p \in DOMAIN b.moves : b.moves[p].to # i /\ kept[k] = b.moves[p]
    BY <1>4
  <2> DEFINE x == b.moves[p].to
             y == b.moves[p].from
  <2>1. x \in Nat /\ y \in Nat /\ x # i
    BY <1>2, <2>0
  <2>2. y \in b.deletions /\ x \in b.insertions /\ y < Len(old) /\ x < Len(new)
        /\ old[y + 1] = new[x + 1]
    BY <1>1 DEF TrueMoves, TrueMove
  <2>3. moves[k].from = y /\ moves[k].to = IF x > i THEN x - 1 ELSE x
    BY <1>5, <2>0, <2>1
  <2> HIDE DEF x, y
  <2>4. CASE x > i
    <3>1. x - 1 \in I
      <4>1. x - 1 \in Nat /\ x - 1 >= i /\ (x - 1) + 1 = x
        BY <2>1, <2>4
      <4> QED  BY <1>7, <2>2, <4>1
    <3>2. x - 1 \in Nat /\ x - 1 < Len(new) - 1 /\ ~(x - 1 < i) /\ (x - 1) + 1 = x
      BY <1>3, <2>1, <2>2, <2>4
    <3>3. a[(x - 1) + 1] = new[x + 1]
      BY <1>8, <3>2
    <3>5. moves[k].to = x - 1
      BY <2>3, <2>4
    <3> QED  BY <1>6, <1>8, <1>9, <2>2, <2>3, <3>1, <3>2, <3>3, <3>5 DEF TrueMove
  <2>5. CASE ~(x > i)
    <3>1. x < i /\ x < Len(new) - 1
      BY <1>3, <2>1, <2>5
    <3>2. x \in I
      BY <1>7, <2>1, <2>2, <3>1
    <3>3. a[x + 1] = new[x + 1]
      BY <1>8, <2>1, <3>1
    <3>5. moves[k].to = x
      BY <2>3, <2>5
    <3> QED  BY <1>6, <1>8, <1>9, <2>2, <2>3, <3>1, <3>2, <3>3, <3>5 DEF TrueMove
  <2> QED  BY <2>4, <2>5
<1>13. DistinctMoves(c)
  BY <1>4, <1>5, <1>6 DEF DistinctMoves
<1>14. Marks(c, a, set)
  <2> SUFFICES ASSUME NEW x \in Nat, x < Len(a), x \in I => MovedTo(c, x)
               PROVE  x \in M <=> a[x + 1] \in set
    BY <1>6 DEF Marks
  <2>2. MovedTo(c, x) => \E p \in DOMAIN b.moves :
                           /\ b.moves[p].to # i
                           /\ x = IF b.moves[p].to > i THEN b.moves[p].to - 1 ELSE b.moves[p].to
    <3> SUFFICES ASSUME MovedTo(c, x)
                 PROVE  \E p \in DOMAIN b.moves :
                           /\ b.moves[p].to # i
                           /\ x = IF b.moves[p].to > i THEN b.moves[p].to - 1 ELSE b.moves[p].to
      OBVIOUS
    <3>1. PICK k \in DOMAIN kept : moves[k].to = x
      BY <1>1, <1>5, <1>6 DEF MovedTo
    <3>2. PICK p \in DOMAIN b.moves : b.moves[p].to # i /\ kept[k] = b.moves[p]
      BY <1>4
    <3>3. moves[k].to = IF b.moves[p].to > i THEN b.moves[p].to - 1 ELSE b.moves[p].to
      BY <1>2, <1>5, <3>2
    <3> QED  BY <3>1, <3>2, <3>3
  <2>3. CASE x < i
    <3>1. x < Len(new)
      BY <1>3, <2>3
    <3>2. x \in b.insertions => MovedTo(b, x)
      <4> SUFFICES ASSUME x \in b.insertions PROVE MovedTo(b, x)
        OBVIOUS
      <4>1. PICK p \in DOMAIN b.moves :
              /\ b.moves[p].to # i
              /\ x = IF b.moves[p].to > i THEN b.moves[p].to - 1 ELSE b.moves[p].to
        BY <1>7, <2>2, <2>3
      <4>2. b.moves[p].to = x
        BY <1>2, <2>3, <4>1
      <4> QED  BY <4>2 DEF MovedTo
    <3>3. x \in b.modifications <=> new[x + 1] \in set
      BY <1>1, <3>1, <3>2 DEF Marks
    <3>4. x \in M <=> x \in b.modifications
      BY <1>7, <2>3
    <3>5. a[x + 1] = new[x + 1]
      BY <1>8, <2>3
    <3> QED  BY <3>3, <3>4, <3>5
  <2>4. CASE ~(x < i)
    <3>1. x + 1 \in Nat /\ x + 1 < Len(new)
      BY <1>3, <1>8
    <3>2. x + 1 \in b.insertions => MovedTo(b, x + 1)
      <4> SUFFICES ASSUME x + 1 \in b.insertions PROVE MovedTo(b, x + 1)
        OBVIOUS
      <4>1. PICK p \in DOMAIN b.moves :
              /\ b.moves[p].to # i
              /\ x = IF b.moves[p].to > i THEN b.moves[p].to - 1 ELSE b.moves[p].to
        BY <1>7, <2>2, <2>4
      <4>2. b.moves[p].to = x + 1
        BY <1>2, <2>4, <4>1
      <4> QED  BY <4>2 DEF MovedTo
    <3>3. x + 1 \in b.modifications <=> new[(x + 1) + 1] \in set
      BY <1>1, <3>1, <3>2 DEF Marks
    <3>4. x \in M <=> x + 1 \in b.modifications
      BY <1>7, <2>4
    <3>5. a[x + 1] = new[(x + 1) + 1]
      BY <1>8, <2>4
    <3> QED  BY <3>3, <3>4, <3>5
  <2> QED  BY <2>3, <2>4
<1> QED  BY <1>1, <1>6, <1>9, <1>10, <1>11, <1>12, <1>13, <1>14 DEF Good, Sound, a, c

\* A list is cleared: what was deleted covers all of its old rows.
LEMMA ClearedGood ==
  ASSUME NEW R, NEW old \in Seq(R), NEW new \in Seq(R), NEW set, NEW b, Good(b, old, new, set),
         Len(new) # Beyond
  PROVE  Good(Cleared(b, Len(new)), old, <<>>, set)
<1> DEFINE n == Len(new) + Cardinality(b.deletions) - Cardinality(b.insertions)
           c == Cleared(b, Len(new))
<1>1. /\ b.deletions \in Indices /\ b.insertions \in Indices
      /\ Pairs(b.deletions, b.insertions, old, new) /\ Bounded(b, new)
  BY BuilderFields DEF Good, Sound
<1>2. Len(new) \in Nat /\ Len(old) \in Nat
  BY SeqLen
<1>3. /\ Cardinality(b.deletions) \in Nat /\ Cardinality(b.insertions) \in Nat
      /\ Below(b.deletions, Len(old)) \in Nat /\ Below(b.deletions, Len(old)) <= Cardinality(b.deletions)
  <2>1. Below(b.deletions, Len(old)) \in 0 .. Len(old)
    BY <1>1, <1>2, BelowType
  <2>2. Below(b.deletions, Len(old)) \in Nat
    BY <1>2, <2>1
  <2> QED  BY <1>1, <1>2, <2>2, BelowType
<1>4. Below(b.insertions, Len(new)) = Cardinality(b.insertions)
  <2>1. {j \in b.insertions : j < Len(new)} = b.insertions
    BY <1>1 DEF Bounded
  <2> QED  BY <2>1 DEF Below
<1>5. Len(old) - Below(b.deletions, Len(old)) = Len(new) - Below(b.insertions, Len(new))
  BY <1>1, PairsRest DEF Unshift
<1>6. n \in Nat /\ Len(old) <= n
  BY <1>2, <1>3, <1>4, <1>5
<1>7. c = [deletions |-> 0 .. n - 1, insertions |-> {}, modifications |-> {}, moves |-> <<>>,
           mapping |-> <<>>]
  <2>1. (IF Len(new) = Beyond THEN Len(new) ELSE n) = n
    OBVIOUS
  <2>2. c = [Empty EXCEPT !.deletions = 0 .. n - 1]
    BY <2>1 DEF Cleared
  <2> HIDE DEF n, c
  <2> QED  BY <2>2 DEF Empty
<1> HIDE DEF n, c
<1>8. 0 .. n - 1 \in Indices /\ Pairs(0 .. n - 1, {}, old, <<>>)
  BY <1>2, <1>6, PairsCleared
<1>9. {} \in Indices /\ <<>> \in Seq(Move) /\ Len(<<>>) = 0 /\ DOMAIN <<>> = {}
  BY DEF Indices
<1>10. IsBuilder(c)
  BY <1>7, <1>8, <1>9 DEF IsBuilder
<1>11. Bounded(c, <<>>) /\ TrueMoves(c, old, <<>>) /\ DistinctMoves(c) /\ Marks(c, <<>>, set)
  BY <1>7, <1>9 DEF Bounded, TrueMoves, DistinctMoves, Marks
<1> QED  BY <1>7, <1>8, <1>9, <1>10, <1>11 DEF Good, Sound, c

\* Where a move of a row from one index to another takes the rows.
Slide(from, to) ==
  [x \in Nat |-> CASE x = from -> to
                   [] x >= to /\ x < from -> x + 1
                   [] x <= to /\ x > from -> x - 1
                   [] OTHER -> x]

\* Where move() takes an index.
LEMMA SlideIs ==
  ASSUME NEW from \in Nat, NEW to \in Nat, from # to, NEW x \in Nat
  PROVE  Slide(from, to)[x] = IF x = from THEN to
                              ELSE IF x >= to /\ x < from THEN x + 1
                              ELSE IF x <= to /\ x > from THEN x - 1 ELSE x
<1>1. Slide(from, to)[x] = CASE x = from -> to
                             [] x >= to /\ x < from -> x + 1
                             [] x <= to /\ x > from -> x - 1
                             [] OTHER -> x
  BY DEF Slide
<1> QED  BY <1>1

\* It takes every index to another one, and only `from' to `to'.
LEMMA SlideFacts ==
  ASSUME NEW from \in Nat, NEW to \in Nat, from # to
  PROVE  /\ \A x \in Nat : /\ Slide(from, to)[x] \in Nat
                           /\ Slide(from, to)[x] = to <=> x = from
         /\ \A x, y \in Nat : Slide(from, to)[x] = Slide(from, to)[y] => x = y
<1> DEFINE f == Slide(from, to)
<1>1. \A x \in Nat : f[x] = IF x = from THEN to
                            ELSE IF x >= to /\ x < from THEN x + 1
                            ELSE IF x <= to /\ x > from THEN x - 1 ELSE x
  BY SlideIs
<1> HIDE DEF f
<1>2. \A x \in Nat : f[x] \in Nat /\ (f[x] = to <=> x = from)
  <2> SUFFICES ASSUME NEW x \in Nat PROVE f[x] \in Nat /\ (f[x] = to <=> x = from)
    OBVIOUS
  <2>1. f[x] = IF x = from THEN to
               ELSE IF x >= to /\ x < from THEN x + 1
               ELSE IF x <= to /\ x > from THEN x - 1 ELSE x
    BY <1>1
  <2> QED  BY <2>1
<1>3. ASSUME NEW x \in Nat, NEW y \in Nat, f[x] = f[y] PROVE x = y
  <2> DEFINE p == f[x]
             q == f[y]
  <2>1. p = IF x = from THEN to
            ELSE IF x >= to /\ x < from THEN x + 1
            ELSE IF x <= to /\ x > from THEN x - 1 ELSE x
    BY <1>1
  <2>2. q = IF y = from THEN to
            ELSE IF y >= to /\ y < from THEN y + 1
            ELSE IF y <= to /\ y > from THEN y - 1 ELSE y
    BY <1>1
  <2>3. p \in Nat /\ q \in Nat /\ p = q
    BY <1>2, <1>3
  <2>4. p = to <=> x = from
    BY <1>2
  <2> HIDE DEF p, q
  <2>5. CASE x = from
    BY <2>1, <2>2, <2>3, <2>4, <2>5
  <2>6. CASE x < from
    BY <2>1, <2>2, <2>3, <2>6
  <2>7. CASE x > from
    BY <2>1, <2>2, <2>3, <2>7
  <2> QED  BY <2>5, <2>6, <2>7
<1> QED  BY <1>2, <1>3 DEF f

\* It takes the indices of the rows to the indices of the rows.
LEMMA SlideBelow ==
  ASSUME NEW from \in Nat, NEW to \in Nat, from # to, NEW n \in Nat, from < n, to < n
  PROVE  /\ \A x \in Nat : Slide(from, to)[x] < n <=> x < n
         /\ \A y \in Nat : y < n => \E x \in Nat : x < n /\ Slide(from, to)[x] = y
<1> DEFINE f == Slide(from, to)
<1>1. \A x \in Nat : f[x] = IF x = from THEN to
                            ELSE IF x >= to /\ x < from THEN x + 1
                            ELSE IF x <= to /\ x > from THEN x - 1 ELSE x
  BY SlideIs
<1> HIDE DEF f
<1>2. ASSUME NEW x \in Nat
      PROVE  f[x] < n <=> x < n
  <2>1. f[x] = IF x = from THEN to
               ELSE IF x >= to /\ x < from THEN x + 1
               ELSE IF x <= to /\ x > from THEN x - 1 ELSE x
    BY <1>1
  <2> QED  BY <2>1
<1>3. ASSUME NEW y \in Nat, y < n
      PROVE  \E x \in Nat : x < n /\ f[x] = y
  <2> DEFINE x == IF y = to THEN from ELSE IF y > to /\ y <= from THEN y - 1
                  ELSE IF y < to /\ y >= from THEN y + 1 ELSE y
  <2>1. x \in Nat /\ x < n
    BY <1>3
  <2>2. f[x] = IF x = from THEN to
               ELSE IF x >= to /\ x < from THEN x + 1
               ELSE IF x <= to /\ x > from THEN x - 1 ELSE x
    BY <1>1, <2>1
  <2>3. f[x] = y
    BY <2>1, <2>2
  <2> QED  BY <2>1, <2>3
<1> QED  BY <1>2, <1>3 DEF f

\* The indices of rows after a move.
LEMMA SlideMember ==
  ASSUME NEW S \in Indices, NEW from \in Nat, NEW to \in Nat, from # to
  PROVE  /\ InsertIndices(EraseAt(S, from), to, 1) \in Indices
         /\ ShiftForInsertAt(EraseAt(S, from), to, 1) \in Indices
         /\ to \in InsertIndices(EraseAt(S, from), to, 1)
         /\ to \notin ShiftForInsertAt(EraseAt(S, from), to, 1)
         /\ \A x \in Nat \ {from} :
              /\ Slide(from, to)[x] \in InsertIndices(EraseAt(S, from), to, 1) <=> x \in S
              /\ Slide(from, to)[x] \in ShiftForInsertAt(EraseAt(S, from), to, 1) <=> x \in S
<1> DEFINE E == EraseAt(S, from)
           I == InsertIndices(E, to, 1)
           M == ShiftForInsertAt(E, to, 1)
<1>1. E \in Indices /\ \A x \in Nat : x \in E <=> (x < from /\ x \in S) \/ (x >= from /\ x + 1 \in S)
  BY EraseMember
<1> HIDE DEF E
<1>2. I \in Indices /\ M \in Indices
  BY <1>1, InsertMember
<1>3. \A x \in Nat : x \in M <=> (x < to /\ x \in E) \/ (x > to /\ x - 1 \in E)
  BY <1>1, InsertMember
<1>4. \A x \in Nat : x \in I <=> x = to \/ (x < to /\ x \in E) \/ (x > to /\ x - 1 \in E)
  BY <1>1, InsertMember
<1> HIDE DEF I, M
<1>5. ASSUME NEW x \in Nat \ {from}
      PROVE  (Slide(from, to)[x] \in I <=> x \in S) /\ (Slide(from, to)[x] \in M <=> x \in S)
  <2> DEFINE y == Slide(from, to)[x]
             z == IF x < from THEN x ELSE x - 1
  <2>1. y = IF x >= to /\ x < from THEN x + 1
            ELSE IF x <= to /\ x > from THEN x - 1 ELSE x
    BY SlideIs
  <2> HIDE DEF y
  <2>2. /\ y \in Nat /\ z \in Nat
        /\ (y < to /\ y = z) \/ (y > to /\ y - 1 = z)
    <3>1. z \in Nat
      OBVIOUS
    <3>2. CASE x < from
      BY <2>1, <3>2
    <3>3. CASE x > from
      BY <2>1, <3>3
    <3> QED  BY <3>1, <3>2, <3>3
  <2>3. z \in E <=> x \in S
    <3>1. CASE x < from
      BY <1>1, <3>1
    <3>2. CASE x > from
      <4>1. z = x - 1 /\ z \in Nat /\ z >= from /\ z + 1 = x
        BY <3>2
      <4> HIDE DEF z
      <4> QED  BY <1>1, <4>1
    <3> QED  BY <3>1, <3>2
  <2> HIDE DEF z
  <2>4. CASE y < to /\ y = z
    <3>1. y \in I <=> y \in E
      BY <1>4, <2>2, <2>4
    <3>2. y \in M <=> y \in E
      BY <1>3, <2>2, <2>4
    <3> QED  BY <2>3, <2>4, <3>1, <3>2 DEF y
  <2>5. CASE y > to /\ y - 1 = z
    <3>1. y \in I <=> y - 1 \in E
      BY <1>4, <2>2, <2>5
    <3>2. y \in M <=> y - 1 \in E
      BY <1>3, <2>2, <2>5
    <3> QED  BY <2>3, <2>5, <3>1, <3>2 DEF y
  <2> QED  BY <2>2, <2>4, <2>5
<1>6. to \in I /\ to \notin M
  BY <1>3, <1>4
<1> QED  BY <1>2, <1>5, <1>6 DEF E, I, M

\* Every row is where its index was taken.
LEMMA SlideRows ==
  ASSUME NEW R, NEW new \in Seq(R), NEW from \in Nat, NEW to \in Nat, from # to,
         from < Len(new), to < Len(new)
  PROVE  LET a == InsertAt(RemoveAt(new, from + 1), to + 1, new[from + 1])
         IN /\ a \in Seq(R) /\ Len(a) = Len(new)
            /\ \A x \in Nat : x < Len(new) => a[Slide(from, to)[x] + 1] = new[x + 1]
<1> DEFINE l == RemoveAt(new, from + 1)
           e == new[from + 1]
           a == InsertAt(l, to + 1, e)
<1>1. Len(new) \in Nat /\ DOMAIN new = 1 .. Len(new)
  BY SeqLen
<1>2. from + 1 \in DOMAIN new
  BY <1>1
<1>3. e \in R
  BY <1>1, <1>2, ElementOfSeq
<1>4. /\ l \in Seq(R) /\ Len(l) = Len(new) - 1
      /\ \A j \in 1 .. Len(new) - 1 : l[j] = IF j < from + 1 THEN new[j] ELSE new[j + 1]
  BY <1>2, RemoveAtSeq
<1> HIDE DEF l, e
<1>5. to \in 0 .. Len(l)
  BY <1>1, <1>4
<1>6. a \in Seq(R)
  BY <1>3, <1>4, <1>5, InsertAtSeq
<1>7. /\ Len(a) = Len(l) + 1
      /\ \A x \in 0 .. Len(l) : a[x + 1] = IF x < to THEN l[x + 1]
                                           ELSE IF x = to THEN e ELSE l[x]
  <2>1. l \in Seq(R) /\ e \in R /\ to \in 0 .. Len(l)
    BY <1>3, <1>4, <1>5
  <2> QED  BY <2>1, InsertAtSeq
<1> HIDE DEF a
<1>8. ASSUME NEW x \in Nat, x < Len(new) PROVE a[Slide(from, to)[x] + 1] = new[x + 1]
  <2> DEFINE y == Slide(from, to)[x]
  <2>1. y = IF x = from THEN to ELSE IF x >= to /\ x < from THEN x + 1
            ELSE IF x <= to /\ x > from THEN x - 1 ELSE x
    BY SlideIs
  <2> HIDE DEF y
  <2>2. y \in 0 .. Len(l)
    BY <1>1, <1>4, <1>8, <2>1
  <2>3. CASE x = from
    BY <1>7, <2>1, <2>2, <2>3 DEF y, e
  <2>4. CASE x < from
    <3>1. x + 1 \in 1 .. Len(new) - 1 /\ x + 1 < from + 1
      BY <1>1, <1>8, <2>4
    <3>2. l[x + 1] = new[x + 1]
      BY <1>4, <3>1
    <3>3. (y < to /\ y = x) \/ (y > to /\ y = x + 1)
      BY <2>1, <2>4
    <3>4. a[y + 1] = l[x + 1]
      BY <1>7, <2>2, <3>3
    <3> QED  BY <3>2, <3>4 DEF y
  <2>5. CASE x > from
    <3>1. x \in 1 .. Len(new) - 1 /\ ~(x < from + 1)
      BY <1>1, <1>8, <2>5
    <3>2. l[x] = new[x + 1]
      BY <1>4, <3>1
    <3>3. (y < to /\ y + 1 = x) \/ (y > to /\ y = x)
      BY <2>1, <2>5
    <3>4. a[y + 1] = l[x]
      BY <1>7, <2>2, <3>3
    <3> QED  BY <3>2, <3>4 DEF y
  <2> QED  BY <2>3, <2>4, <2>5
<1>9. Len(a) = Len(new)
  BY <1>1, <1>4, <1>7
<1> QED  BY <1>6, <1>8, <1>9 DEF a, l, e

\* A row moves.
LEMMA MovedGood ==
  ASSUME NEW R, NEW old, NEW new \in Seq(R), NEW set, NEW b, Good(b, old, new, set),
         NEW from \in Nat, NEW to \in Nat, from # to, from < Len(new), to < Len(new)
  PROVE  Good(Moved(b, from, to), old,
              InsertAt(RemoveAt(new, from + 1), to + 1, new[from + 1]), set)
<1> DEFINE l == RemoveAt(new, from + 1)
           a == InsertAt(l, to + 1, new[from + 1])
           f == Slide(from, to)
           known == \E k \in DOMAIN b.moves : b.moves[k].to = from
           more == ~known /\ from \notin b.insertions
           s == Shift(b.deletions, Unshift(b.insertions, from))
           last == [from |-> s, to |-> to]
           slid == Retargeted(b.moves, f)
           moves == IF more THEN Append(slid, last) ELSE slid
           D == IF from \in b.insertions THEN b.deletions ELSE b.deletions \cup {s}
           I == InsertIndices(EraseAt(b.insertions, from), to, 1)
           M == IF from \in b.modifications
                THEN InsertIndices(EraseAt(b.modifications, from), to, 1)
                ELSE ShiftForInsertAt(EraseAt(b.modifications, from), to, 1)
           c == Moved(b, from, to)
<1>1. /\ IsBuilder(b) /\ DOMAIN b.mapping = {}
      /\ Pairs(b.deletions, b.insertions, old, new)
      /\ Bounded(b, new) /\ TrueMoves(b, old, new) /\ DistinctMoves(b) /\ Marks(b, new, set)
  BY DEF Good, Sound
<1>2. /\ b.deletions \in Indices /\ b.insertions \in Indices /\ b.modifications \in Indices
      /\ b.moves \in Seq(Move) /\ DOMAIN b.moves = 1 .. Len(b.moves) /\ Len(b.moves) \in Nat
      /\ \A k \in DOMAIN b.moves : b.moves[k].from \in Nat /\ b.moves[k].to \in Nat
  BY <1>1, BuilderFields
<1>3. Len(new) \in Nat /\ DOMAIN new = 1 .. Len(new)
  BY SeqLen
<1>4. /\ \A x \in Nat : f[x] \in Nat /\ (f[x] = to <=> x = from)
      /\ \A x \in Nat : f[x] < Len(new) <=> x < Len(new)
      /\ \A y \in Nat : y < Len(new) => \E x \in Nat : x < Len(new) /\ f[x] = y
      /\ \A x, y \in Nat : f[x] = f[y] => x = y
  <2>1. \A x \in Nat : f[x] \in Nat /\ (f[x] = to <=> x = from)
    BY SlideFacts
  <2>2. \A x, y \in Nat : f[x] = f[y] => x = y
    BY SlideFacts
  <2>3. \A x \in Nat : f[x] < Len(new) <=> x < Len(new)
    BY <1>3, SlideBelow
  <2>4. \A y \in Nat : y < Len(new) => \E x \in Nat : x < Len(new) /\ f[x] = y
    BY <1>3, SlideBelow
  <2> HIDE DEF f
  <2> QED  BY <2>1, <2>2, <2>3, <2>4
<1>5. \A k \in DOMAIN b.moves : /\ b.moves[k].to \in b.insertions /\ b.moves[k].from \in b.deletions
                                /\ b.moves[k].to < Len(new) /\ b.moves[k].from < Len(old)
                                /\ old[b.moves[k].from + 1] = new[b.moves[k].to + 1]
  BY <1>1 DEF TrueMoves, TrueMove
<1>6. known => from \in b.insertions
  BY <1>5
<1>7. Unshift(b.insertions, from) \in 0 .. from
  BY <1>2, UnshiftType
<1>8. s \in Nat \ b.deletions /\ Unshift(b.deletions, s) = Unshift(b.insertions, from)
  <2>1. Unshift(b.insertions, from) \in Nat
    BY <1>7
  <2> QED  BY <1>2, <2>1, ShiftIs
<1>9. /\ slid \in Seq(Move) /\ DOMAIN slid = DOMAIN b.moves /\ Len(slid) = Len(b.moves)
      /\ \A k \in DOMAIN b.moves : slid[k].from = b.moves[k].from /\ slid[k].to = f[b.moves[k].to]
  <2>1. \A k \in DOMAIN b.moves : f[b.moves[k].to] \in Nat
    BY <1>2, <1>4
  <2> HIDE DEF f
  <2> QED  BY <1>2, <2>1, MapMoves
<1>10. /\ c.deletions = D /\ c.insertions = I /\ c.modifications = M
       /\ c.moves = moves /\ c.mapping = b.mapping
       /\ c = [deletions |-> D, insertions |-> I, modifications |-> M, moves |-> moves,
               mapping |-> b.mapping]
  <2> DEFINE shifted(k) == CASE k = from -> to
                             [] k >= to /\ k < from -> k + 1
                             [] k <= to /\ k > from -> k - 1
                             [] OTHER -> k
  <2>1. \A k \in DOMAIN b.moves :
          [b.moves[k] EXCEPT !.to = shifted(@)] = [b.moves[k] EXCEPT !.to = f[@]]
    <3>1. \A x \in Nat : f[x] = shifted(x)
      BY DEF Slide
    <3> HIDE DEF f, shifted
    <3> QED  BY <1>2, <3>1
  <2>2. slid = [k \in DOMAIN b.moves |-> [b.moves[k] EXCEPT !.to = shifted(@)]]
    <3> HIDE DEF f, shifted
    <3> QED  BY <2>1 DEF Retargeted
  <2> DEFINE o == ErasedOrUnshifted(b.insertions, from)
  <2>3. /\ (o # npos) <=> from \notin b.insertions
        /\ from \notin b.insertions => o = Unshift(b.insertions, from)
    <3>1. \A n \in 0 .. from : n # npos
      BY DEF npos
    <3> QED  BY <1>7, <3>1 DEF ErasedOrUnshifted
  <2>4. D = IF ~known /\ o # npos THEN AddShifted(b.deletions, o) ELSE b.deletions
    <3> HIDE DEF known, o
    <3> QED  BY <1>6, <2>3 DEF AddShifted
  <2>5. moves = IF ~known /\ o # npos
                THEN Append([k \in DOMAIN b.moves |-> [b.moves[k] EXCEPT !.to = shifted(@)]],
                            [from |-> Shift(b.deletions, o), to |-> to])
                ELSE [k \in DOMAIN b.moves |-> [b.moves[k] EXCEPT !.to = shifted(@)]]
    <3>1. from \notin b.insertions => last = [from |-> Shift(b.deletions, o), to |-> to]
      BY <2>3
    <3> HIDE DEF known, o, last, slid, shifted
    <3> QED  BY <2>2, <2>3, <3>1
  <2>6. c = [b EXCEPT !.insertions = I, !.deletions = D, !.moves = moves, !.modifications = M]
    <3> HIDE DEF moves, D
    <3> QED  BY <2>4, <2>5 DEF Moved, Map
  <2> HIDE DEF moves, D, I, M, c
  <2> QED  BY <1>1, <2>6 DEF IsBuilder
<1>11. /\ I \in Indices /\ M \in Indices /\ to \in I /\ (to \in M <=> from \in b.modifications)
       /\ \A x \in Nat \ {from} : /\ f[x] \in I <=> x \in b.insertions
                                  /\ f[x] \in M <=> x \in b.modifications
  <2>1. \A S \in Indices :
          /\ InsertIndices(EraseAt(S, from), to, 1) \in Indices
          /\ ShiftForInsertAt(EraseAt(S, from), to, 1) \in Indices
          /\ to \in InsertIndices(EraseAt(S, from), to, 1)
          /\ to \notin ShiftForInsertAt(EraseAt(S, from), to, 1)
          /\ \A x \in Nat \ {from} :
               /\ f[x] \in InsertIndices(EraseAt(S, from), to, 1) <=> x \in S
               /\ f[x] \in ShiftForInsertAt(EraseAt(S, from), to, 1) <=> x \in S
    BY SlideMember
  <2> HIDE DEF f
  <2>2. /\ I \in Indices /\ to \in I
        /\ \A x \in Nat \ {from} : f[x] \in I <=> x \in b.insertions
    BY <1>2, <2>1
  <2>3. /\ M \in Indices /\ (to \in M <=> from \in b.modifications)
        /\ \A x \in Nat \ {from} : f[x] \in M <=> x \in b.modifications
    <3>1. CASE from \in b.modifications
      BY <1>2, <2>1, <3>1
    <3>2. CASE from \notin b.modifications
      BY <1>2, <2>1, <3>2
    <3> QED  BY <3>1, <3>2
  <2> QED  BY <2>2, <2>3
<1>12. /\ a \in Seq(R) /\ Len(a) = Len(new)
       /\ \A x \in Nat : x < Len(new) => a[f[x] + 1] = new[x + 1]
  BY SlideRows, SMTT(30)
<1>13. D \in Indices /\ Pairs(D, I, old, a) /\ \A d \in b.deletions : d \in D
  <2>1. /\ D \in Indices /\ Pairs(D, EraseAt(b.insertions, from), old, l)
        /\ \A d \in b.deletions : d \in D
    BY <1>1, <1>2, PairsErased
  <2>2. EraseAt(b.insertions, from) \in Indices
    BY <1>2, EraseMember
  <2>3. from + 1 \in DOMAIN new
    BY <1>3
  <2>4. l \in Seq(R) /\ Len(l) = Len(new) - 1
    BY <2>3, RemoveAtSeq
  <2>5. new[from + 1] \in R
    BY <1>3, <2>3, ElementOfSeq
  <2> HIDE DEF D, l
  <2>6. to \in 0 .. Len(l)
    BY <1>3, <2>4
  <2>7. Pairs(D, I, old, a)
    BY <2>1, <2>2, <2>4, <2>5, <2>6, PairsInsert
  <2> QED  BY <2>1, <2>7
<1>14. more => /\ s < Len(old) /\ old[s + 1] = new[from + 1]
               /\ s \in D
  BY <1>1, <1>8 DEF Pairs
<1>15. last \in Move /\ last.from = s /\ last.to = to
  BY <1>8 DEF Move
<1> HIDE DEF a, D, I, M, c, f, slid, s, last, l
<1>16. /\ moves \in Seq(Move)
       /\ \A k \in DOMAIN b.moves : k \in DOMAIN moves /\ moves[k] = slid[k]
       /\ \A k \in DOMAIN moves : \/ k \in DOMAIN b.moves
                                  \/ more /\ k = Len(b.moves) + 1 /\ moves[k] = last
  <2>1. CASE ~more
    BY <1>9, <2>1
  <2>2. CASE more
    <3>1. moves = Append(slid, last)
      BY <2>2
    <3>2. /\ moves \in Seq(Move) /\ Len(moves) = Len(slid) + 1
          /\ \A k \in 1 .. Len(slid) : moves[k] = slid[k]
          /\ moves[Len(slid) + 1] = last
      <4>1. slid \in Seq(Move) /\ last \in Move
        BY <1>9, <1>15
      <4>2. /\ Append(slid, last) \in Seq(Move) /\ Len(Append(slid, last)) = Len(slid) + 1
            /\ \A k \in 1 .. Len(slid) : Append(slid, last)[k] = slid[k]
            /\ Append(slid, last)[Len(slid) + 1] = last
        BY <4>1, AppendProperties
      <4> HIDE DEF moves
      <4> QED  BY <3>1, <4>2
    <3>3. DOMAIN moves = 1 .. Len(slid) + 1
      BY <3>2, SeqLen
    <3> HIDE DEF moves, more
    <3> QED  BY <1>2, <1>9, <2>2, <3>2, <3>3
  <2> QED  BY <2>1, <2>2
<1> HIDE DEF moves
<1>17. IsBuilder(c)
  BY <1>10, <1>11, <1>13, <1>16 DEF IsBuilder
<1>18. Bounded(c, a)
  <2> SUFFICES ASSUME NEW S, S = b.insertions \/ S = b.modifications,
                      NEW T \in Indices, \A x \in Nat \ {from} : f[x] \in T <=> x \in S
               PROVE  \A y \in T : y < Len(new)
    BY <1>10, <1>11, <1>12 DEF Bounded
  <2> SUFFICES ASSUME NEW y \in T, ~(y < Len(new)) PROVE FALSE
    OBVIOUS
  <2>1. y \in Nat
    BY DEF Indices
  <2>2. f[y] \in Nat
    BY <1>4, <2>1
  <2>3. f[y] = y
    <3>1. f[y] = IF y = from THEN to
                 ELSE IF y >= to /\ y < from THEN y + 1
                 ELSE IF y <= to /\ y > from THEN y - 1 ELSE y
      BY <2>1, SlideIs DEF f
    <3> QED  BY <1>3, <2>1, <3>1
  <2>4. y # from
    BY <1>3, <2>1
  <2>5. y \in S
    BY <2>1, <2>3, <2>4
  <2> QED  BY <1>1, <2>5 DEF Bounded
<1>19. TrueMoves(c, old, a)
  <2> SUFFICES ASSUME NEW k \in DOMAIN moves PROVE TrueMove(c, old, a, moves[k])
    BY <1>1, <1>10 DEF TrueMoves
  <2>1. CASE k \in DOMAIN b.moves
    <3> DEFINE x == b.moves[k].to
               y == b.moves[k].from
    <3>1. x \in Nat /\ y \in Nat /\ moves[k].from = y /\ moves[k].to = f[x]
      BY <1>2, <1>9, <1>16, <2>1
    <3>2. y \in D /\ x \in b.insertions /\ y < Len(old) /\ x < Len(new)
          /\ old[y + 1] = new[x + 1]
      BY <1>5, <1>13, <2>1
    <3> HIDE DEF x, y
    <3>3. f[x] \in I
      BY <1>4, <1>11, <3>1, <3>2
    <3>4. f[x] < Len(a) /\ a[f[x] + 1] = new[x + 1]
      BY <1>4, <1>12, <3>1, <3>2
    <3> QED  BY <1>10, <3>1, <3>2, <3>3, <3>4 DEF TrueMove
  <2>2. CASE more /\ moves[k] = last
    <3>1. f[from] = to
      BY <1>4
    <3>2. a[to + 1] = new[from + 1]
      BY <1>12, <3>1
    <3> QED  BY <1>10, <1>11, <1>12, <1>14, <1>15, <2>2, <3>2 DEF TrueMove
  <2> QED  BY <1>16, <2>1, <2>2
<1>20. DistinctMoves(c)
  <2> SUFFICES ASSUME NEW k \in DOMAIN moves, NEW j \in DOMAIN moves,
                      moves[k].from = moves[j].from
               PROVE  k = j
    BY <1>10 DEF DistinctMoves
  <2>1. \A n \in DOMAIN b.moves : moves[n].from = b.moves[n].from /\ b.moves[n].from \in b.deletions
    BY <1>5, <1>9, <1>16
  <2>2. \A n \in DOMAIN moves : n \in DOMAIN b.moves
                                \/ (n = Len(b.moves) + 1 /\ moves[n].from \notin b.deletions)
    BY <1>8, <1>15, <1>16
  <2>3. \A m, n \in DOMAIN b.moves : b.moves[m].from = b.moves[n].from => m = n
    BY <1>1 DEF DistinctMoves
  <2> QED  BY <2>1, <2>2, <2>3
<1>21. Marks(c, a, set)
  <2> SUFFICES ASSUME NEW y \in Nat, y < Len(new), y \in I => MovedTo(c, y)
               PROVE  y \in M <=> a[y + 1] \in set
    BY <1>10, <1>12 DEF Marks
  <2>1. PICK x \in Nat : x < Len(new) /\ f[x] = y
    BY <1>4
  <2>2. a[y + 1] = new[x + 1]
    BY <1>12, <2>1
  <2>3. x \in b.insertions => MovedTo(b, x)
    <3> SUFFICES ASSUME x \in b.insertions PROVE MovedTo(b, x)
      OBVIOUS
    <3>1. y \in I
      BY <1>4, <1>11, <2>1
    <3>2. PICK k \in DOMAIN moves : moves[k].to = y
      BY <1>1, <1>10, <3>1 DEF MovedTo
    <3>3. k \in DOMAIN b.moves
      <4> SUFFICES ASSUME more, moves[k] = last PROVE FALSE
        BY <1>16
      <4>1. f[x] = to
        BY <1>15, <2>1, <3>2
      <4>2. x = from
        BY <1>4, <4>1
      <4> QED  BY <4>2
    <3>4. f[b.moves[k].to] = f[x]
      BY <1>9, <1>16, <2>1, <3>2, <3>3
    <3>5. b.moves[k].to = x
      BY <1>2, <1>4, <3>3, <3>4
    <3> QED  BY <3>3, <3>5 DEF MovedTo
  <2>4. x \in b.modifications <=> new[x + 1] \in set
    BY <1>1, <2>1, <2>3 DEF Marks
  <2>5. y \in M <=> x \in b.modifications
    <3>1. CASE x = from
      BY <1>4, <1>11, <2>1, <3>1
    <3>2. CASE x # from
      BY <1>11, <2>1, <3>2
    <3> QED  BY <3>1, <3>2
  <2> QED  BY <2>2, <2>4, <2>5
<1> QED  BY <1>1, <1>10, <1>13, <1>17, <1>18, <1>19, <1>20, <1>21 DEF Good, Sound, a, c, l

\* A row is set; each row is at one index only.
LEMMA ModifiedSound ==
  ASSUME NEW R, NEW old, NEW new \in Seq(R), NEW set, NEW b, Sound(b, old, new, set),
         NEW i \in Nat, i < Len(new),
         \A k, l \in DOMAIN new : new[k] = new[l] => k = l
  PROVE  LET c == [b EXCEPT !.modifications = Add(@, i)]
         IN /\ Sound(c, old, new, set \cup {new[i + 1]})
            /\ c.deletions = b.deletions /\ c.insertions = b.insertions
            /\ c.moves = b.moves /\ c.mapping = b.mapping
<1> DEFINE c == [b EXCEPT !.modifications = Add(@, i)]
           M == b.modifications \cup {i}
<1>1. /\ IsBuilder(b) /\ Bounded(b, new) /\ TrueMoves(b, old, new) /\ DistinctMoves(b)
      /\ Marks(b, new, set)
  BY DEF Sound
<1>2. b.modifications \in Indices
  BY <1>1, BuilderFields
<1>3. M \in Indices
  BY <1>2, AddMember
<1>4. /\ c.deletions = b.deletions /\ c.insertions = b.insertions /\ c.modifications = M
      /\ c.moves = b.moves /\ c.mapping = b.mapping
      /\ c = [deletions |-> b.deletions, insertions |-> b.insertions, modifications |-> M,
              moves |-> b.moves, mapping |-> b.mapping]
  <2>1. c = [b EXCEPT !.modifications = M]
    BY DEF Add
  <2> HIDE DEF M, c
  <2> QED  BY <1>1, <2>1 DEF IsBuilder
<1>5. Len(new) \in Nat /\ DOMAIN new = 1 .. Len(new)
  BY SeqLen
<1> HIDE DEF c
<1>6. IsBuilder(c)
  BY <1>1, <1>3, <1>4 DEF IsBuilder
<1>7. Bounded(c, new)
  BY <1>1, <1>4 DEF Bounded
<1>8. TrueMoves(c, old, new) /\ DistinctMoves(c)
  BY <1>1, <1>4 DEF TrueMoves, TrueMove, DistinctMoves
<1>9. Marks(c, new, set \cup {new[i + 1]})
  <2> SUFFICES ASSUME NEW x \in Nat, x < Len(new), x \in c.insertions => MovedTo(c, x)
               PROVE  x \in M <=> new[x + 1] \in set \cup {new[i + 1]}
    BY <1>4 DEF Marks
  <2>1. x \in b.modifications <=> new[x + 1] \in set
    BY <1>1, <1>4 DEF Marks, MovedTo
  <2>2. x = i <=> new[x + 1] = new[i + 1]
    <3>1. x + 1 \in DOMAIN new /\ i + 1 \in DOMAIN new
      BY <1>5
    <3>2. new[x + 1] = new[i + 1] => x + 1 = i + 1
      BY <3>1
    <3> QED  BY <3>2
  <2> QED  BY <2>1, <2>2
<1> QED  BY <1>4, <1>6, <1>7, <1>8, <1>9 DEF Sound, c

-----------------------------------------------------------------------------
(* Tables: rows only ever come at the end and leave their place to the last  *)
(* one, so the deletions and insertions are the same indices as far as both  *)
(* the old and the new rows go.                                              *)

Tables(D, I, old, new) ==
  /\ \A x \in Nat : x < Len(old) /\ x < Len(new) =>
        /\ x \in I <=> x \in D
        /\ x \notin I => old[x + 1] = new[x + 1]
  /\ \A x \in Nat : x < Len(new) /\ ~(x < Len(old)) => x \in I
  /\ \A x \in Nat : x < Len(old) /\ ~(x < Len(new)) => x \in D

OnTable(b, old, new, set) ==
  Sound(b, old, new, set) /\ DOMAIN b.moves = {} /\ Tables(b.deletions, b.insertions, old, new)

\* Unshifting through one set and shifting through the other leads back.
LEMMA OwnIndex ==
  ASSUME NEW S \in Indices, NEW T \in Indices, NEW i \in Nat, i \notin T,
         \A x \in Nat : x < i => (x \in S <=> x \in T)
  PROVE  Unshift(S, i) = Unshift(T, i) /\ Shift(T, Unshift(S, i)) = i
<1>1. S \subseteq Nat /\ T \subseteq Nat
  BY IndicesFinite
<1>2. \A j : j \in {k \in S : k < i} <=> j \in {k \in T : k < i}
  BY <1>1
<1>3. {k \in S : k < i} = {k \in T : k < i}
  BY <1>2
<1>4. Unshift(S, i) = Unshift(T, i)
  BY <1>3 DEF Unshift, Below
<1> QED  BY <1>4, ShiftUnique

\* What holds of a table is a pairing of its rows.
LEMMA TablesPairs ==
  ASSUME NEW D \in Indices, NEW I \in Indices, NEW R, NEW old \in Seq(R), NEW new \in Seq(R),
         Tables(D, I, old, new)
  PROVE  Pairs(D, I, old, new)
<1>1. Len(old) \in Nat /\ Len(new) \in Nat
  BY SeqLen
<1> SUFFICES ASSUME NEW x \in Nat \ I, NEW y \in Nat \ D, Unshift(I, x) = Unshift(D, y)
             PROVE  /\ x < Len(new) <=> y < Len(old)
                    /\ x < Len(new) => new[x + 1] = old[y + 1]
  BY DEF Pairs
<1>2. CASE x < Len(new)
  <2>1. x < Len(old)
    BY <1>2 DEF Tables
  <2>2. x \notin D /\ old[x + 1] = new[x + 1]
    BY <1>2, <2>1 DEF Tables
  <2>3. \A j \in Nat : j < x => (j \in I <=> j \in D)
    BY <1>1, <1>2, <2>1 DEF Tables
  <2>4. Shift(D, Unshift(I, x)) = x
    BY <2>2, <2>3, OwnIndex
  <2>5. Shift(D, Unshift(D, y)) = y
    BY ShiftUnique
  <2> QED  BY <1>2, <2>1, <2>2, <2>4, <2>5
<1>3. CASE y < Len(old)
  <2>1. y < Len(new)
    BY <1>3 DEF Tables
  <2>2. y \notin I
    BY <1>3, <2>1 DEF Tables
  <2>3. \A j \in Nat : j < y => (j \in D <=> j \in I)
    BY <1>1, <1>3, <2>1 DEF Tables
  <2>4. Shift(I, Unshift(D, y)) = y
    BY <2>2, <2>3, OwnIndex
  <2>5. Shift(I, Unshift(I, x)) = x
    BY ShiftUnique
  <2>6. x = y
    BY <2>4, <2>5
  <2> QED  BY <1>2, <1>3, <2>1, <2>6
<1> QED  BY <1>2, <1>3

\* A row is added at the end.
LEMMA InsertedOnTable ==
  ASSUME NEW R, NEW old \in Seq(R), NEW new \in Seq(R), NEW set, NEW b, OnTable(b, old, new, set),
         Track, NEW e \in R
  PROVE  OnTable(Inserted(b, Len(new), 1), old, InsertAt(new, Len(new) + 1, e), set)
<1> DEFINE i == Len(new)
           a == InsertAt(new, i + 1, e)
           up == [x \in Nat |-> IF x >= i THEN x + 1 ELSE x]
           moves == Retargeted(b.moves, up)
           I == InsertIndices(b.insertions, i, 1)
           M == ShiftForInsertAt(b.modifications, i, 1)
           c == Inserted(b, i, 1)
<1>1. /\ IsBuilder(b) /\ Bounded(b, new) /\ TrueMoves(b, old, new) /\ DistinctMoves(b)
      /\ Marks(b, new, set) /\ DOMAIN b.moves = {}
      /\ Tables(b.deletions, b.insertions, old, new)
  BY DEF OnTable, Sound
<1>2. /\ b.deletions \in Indices /\ b.insertions \in Indices /\ b.modifications \in Indices
      /\ b.moves \in Seq(Move)
  BY <1>1, BuilderFields
<1>3. i \in Nat /\ i \in 0 .. Len(new) /\ Len(old) \in Nat
  BY SeqLen
<1>4. moves \in Seq(Move) /\ DOMAIN moves = {}
  <2> HIDE DEF up
  <2>1. \A k \in DOMAIN b.moves : up[b.moves[k].to] \in Nat
    BY <1>1
  <2> QED  BY <1>1, <1>2, <2>1, MapMoves
<1>5. /\ I \in Indices /\ M \in Indices
      /\ \A x \in Nat : x \in M <=> x \in b.modifications
      /\ \A x \in Nat : x \in I <=> x = i \/ x \in b.insertions
  <2>1. \A S \in Indices :
          /\ ShiftForInsertAt(S, i, 1) \in Indices /\ InsertIndices(S, i, 1) \in Indices
          /\ \A x \in Nat : x \in ShiftForInsertAt(S, i, 1)
                              <=> (x < i /\ x \in S) \/ (x > i /\ x - 1 \in S)
          /\ \A x \in Nat : x \in InsertIndices(S, i, 1)
                              <=> x = i \/ (x < i /\ x \in S) \/ (x > i /\ x - 1 \in S)
    BY <1>3, InsertMember
  <2>2. I \in Indices /\ M \in Indices
    BY <1>2, <2>1
  <2>3. \A x \in Nat : /\ x \in b.modifications => x < i
                       /\ x \in b.insertions => x < i
    BY <1>1 DEF Bounded
  <2> HIDE DEF i
  <2>4. \A x \in Nat : x > i => x - 1 \in Nat /\ ~(x - 1 < i)
    BY <1>3
  <2>5. \A x \in Nat : x \in M <=> x \in b.modifications
    <3>1. \A x \in Nat : x \in M <=> (x < i /\ x \in b.modifications)
                                       \/ (x > i /\ x - 1 \in b.modifications)
      BY <1>2, <2>1
    <3> HIDE DEF M
    <3> QED  BY <2>3, <2>4, <3>1
  <2>6. \A x \in Nat : x \in I <=> x = i \/ x \in b.insertions
    <3>1. \A x \in Nat : x \in I <=> x = i \/ (x < i /\ x \in b.insertions)
                                       \/ (x > i /\ x - 1 \in b.insertions)
      BY <1>2, <2>1
    <3> HIDE DEF I
    <3> QED  BY <2>3, <2>4, <3>1
  <2> QED  BY <2>2, <2>5, <2>6
<1>6. \A k \in DOMAIN b.mapping : k \in Nat /\ k < i
  <2>1. \A k \in DOMAIN b.mapping : k \in b.insertions
    BY <1>1 DEF TrueMoves, TrueMove
  <2> QED  BY <1>1, <1>2, <2>1 DEF Bounded, Indices
<1>7. /\ c.deletions = b.deletions /\ c.insertions = I /\ c.modifications = M /\ c.moves = moves
      /\ DOMAIN c.mapping = DOMAIN b.mapping
      /\ \A k \in DOMAIN b.mapping : c.mapping[k] = b.mapping[k]
      /\ c = [deletions |-> b.deletions, insertions |-> I, modifications |-> M, moves |-> moves,
              mapping |-> c.mapping]
  <2> DEFINE to(k) == IF k >= i THEN k + 1 ELSE k
             map == [k \in {to(j) : j \in DOMAIN b.mapping} |->
                       b.mapping[CHOOSE j \in DOMAIN b.mapping : to(j) = k]]
  <2>1. moves = [k \in DOMAIN b.moves |-> [b.moves[k] EXCEPT !.to = to(@)]]
    <3> HIDE DEF up, to
    <3> QED  BY <1>1 DEF Retargeted
  <2>2. c = [deletions |-> b.deletions, insertions |-> I, modifications |-> M, moves |-> moves,
             mapping |-> map]
    <3> HIDE DEF moves, I, M, i
    <3> QED  BY <2>1 DEF Inserted, Map, I, M
  <2>3. \A k \in DOMAIN b.mapping : to(k) = k
    BY <1>3, <1>6
  <2> HIDE DEF to
  <2>4. \A k : k \in {to(j) : j \in DOMAIN b.mapping} <=> k \in DOMAIN b.mapping
    BY <2>3
  <2>5. DOMAIN map = DOMAIN b.mapping
    BY <2>4
  <2>6. \A k \in DOMAIN b.mapping : map[k] = b.mapping[k]
    <3> SUFFICES ASSUME NEW k \in DOMAIN b.mapping PROVE map[k] = b.mapping[k]
      OBVIOUS
    <3>1. map[k] = b.mapping[CHOOSE j \in DOMAIN b.mapping : to(j) = k]
      BY <2>4
    <3>2. (CHOOSE j \in DOMAIN b.mapping : to(j) = k) = k
      BY <2>3
    <3> QED  BY <3>1, <3>2
  <2> HIDE DEF map, c, moves, I, M
  <2> QED  BY <2>2, <2>5, <2>6
<1>8. /\ a \in Seq(R) /\ Len(a) = i + 1
      /\ \A x \in Nat : x < i => a[x + 1] = new[x + 1]
  <2>1. a \in Seq(R)
    BY <1>3, InsertAtSeq
  <2>2. \A j \in 0 .. Len(new) :
          /\ Len(InsertAt(new, j + 1, e)) = Len(new) + 1
          /\ \A x \in 0 .. Len(new) : InsertAt(new, j + 1, e)[x + 1] =
                IF x < j THEN new[x + 1] ELSE IF x = j THEN e ELSE new[x]
    BY InsertAtSeq
  <2>4. /\ Len(a) = Len(new) + 1
        /\ \A x \in 0 .. Len(new) : a[x + 1] = IF x < i THEN new[x + 1]
                                               ELSE IF x = i THEN e ELSE new[x]
    BY <1>3, <2>2
  <2> HIDE DEF a
  <2>3. \A x \in Nat : x < i => x \in 0 .. Len(new)
    BY <1>3
  <2> QED  BY <2>1, <2>3, <2>4
<1> HIDE DEF i, a, I, M, c, moves
<1>9. IsBuilder(c)
  BY <1>2, <1>4, <1>5, <1>7 DEF IsBuilder
<1>10. Bounded(c, a)
  <2>1. \A x \in Nat : x < i => x < Len(a)
    BY <1>3, <1>8
  <2>2. i < Len(a)
    BY <1>3, <1>8
  <2>3. (\A x \in I : x \in Nat) /\ (\A x \in M : x \in Nat)
    BY <1>5 DEF Indices
  <2>4. \A x \in b.insertions : x < i
    BY <1>1 DEF Bounded, i
  <2>5. \A x \in b.modifications : x < i
    BY <1>1 DEF Bounded, i
  <2> QED  BY <1>5, <1>7, <2>1, <2>2, <2>3, <2>4, <2>5 DEF Bounded
<1>11. TrueMoves(c, old, a)
  <2> SUFFICES ASSUME NEW k \in DOMAIN b.mapping
               PROVE  TrueMove(c, old, a, [from |-> b.mapping[k], to |-> k])
    BY <1>4, <1>7 DEF TrueMoves
  <2>1. /\ b.mapping[k] \in b.deletions /\ k \in b.insertions
        /\ b.mapping[k] < Len(old) /\ old[b.mapping[k] + 1] = new[k + 1]
    BY <1>1 DEF TrueMoves, TrueMove
  <2>2. k \in Nat /\ k < i
    BY <1>6
  <2>3. k < Len(a)
    BY <1>3, <1>8, <2>2
  <2> QED  BY <1>5, <1>7, <1>8, <2>1, <2>2, <2>3 DEF TrueMove
<1>12. DistinctMoves(c)
  BY <1>4, <1>7 DEF DistinctMoves
<1>13. Marks(c, a, set)
  <2> SUFFICES ASSUME NEW x \in Nat, x < Len(a), x \in I => MovedTo(c, x)
               PROVE  x \in M <=> a[x + 1] \in set
    BY <1>7 DEF Marks
  <2>1. MovedTo(c, x) <=> x \in DOMAIN b.mapping
    BY <1>4, <1>7 DEF MovedTo
  <2>2. x # i
    BY <1>3, <1>5, <1>6, <2>1
  <2>3. x < Len(new)
    BY <1>3, <1>8, <2>2 DEF i
  <2>4. x \in b.insertions => MovedTo(b, x)
    BY <1>5, <2>1 DEF MovedTo
  <2>5. x \in b.modifications <=> new[x + 1] \in set
    BY <1>1, <2>3, <2>4 DEF Marks
  <2> QED  BY <1>5, <1>8, <2>3, <2>5 DEF i
<1>14. Tables(c.deletions, c.insertions, old, a)
  <2>1. ASSUME NEW x \in Nat, x < Len(old), x < Len(a)
        PROVE  (x \in I <=> x \in b.deletions) /\ (x \notin I => old[x + 1] = a[x + 1])
    <3>1. CASE x < i
      BY <1>1, <1>5, <1>8, <2>1, <3>1 DEF Tables, i
    <3>2. CASE ~(x < i)
      <4>1. x = i
        BY <1>3, <1>8, <2>1, <3>2
      <4>2. x \in b.deletions
        BY <1>1, <2>1, <3>2 DEF Tables, i
      <4> QED  BY <1>5, <4>1, <4>2
    <3> QED  BY <3>1, <3>2
  <2>2. ASSUME NEW x \in Nat, x < Len(a), ~(x < Len(old)) PROVE x \in I
    <3>1. CASE x < i
      BY <1>1, <1>5, <2>2, <3>1 DEF Tables, i
    <3>2. CASE ~(x < i)
      BY <1>3, <1>5, <1>8, <2>2, <3>2
    <3> QED  BY <3>1, <3>2
  <2>3. ASSUME NEW x \in Nat, x < Len(old), ~(x < Len(a)) PROVE x \in b.deletions
    <3>1. ~(x < i)
      BY <1>3, <1>8, <2>3
    <3> QED  BY <1>1, <2>3, <3>1 DEF Tables, i
  <2> QED  BY <1>7, <2>1, <2>2, <2>3 DEF Tables
<1> QED  BY <1>4, <1>7, <1>9, <1>10, <1>11, <1>12, <1>13, <1>14 DEF OnTable, Sound, a, c, i

\* A table is cleared.
LEMMA ClearedOnTable ==
  ASSUME NEW R, NEW old \in Seq(R), NEW set, NEW b, Beyond \in Nat, Len(old) <= Beyond
  PROVE  LET c == Cleared(b, Beyond)
         IN /\ OnTable(c, old, <<>>, set)
            /\ c.insertions = {} /\ DOMAIN c.mapping = {}
<1> DEFINE c == Cleared(b, Beyond)
<1>1. c = [deletions |-> 0 .. Beyond - 1, insertions |-> {}, modifications |-> {},
           moves |-> <<>>, mapping |-> <<>>]
  <2>1. c = [Empty EXCEPT !.deletions = 0 .. Beyond - 1]
    <3>1. \A n : (IF Beyond = Beyond THEN Beyond ELSE n) = Beyond
      OBVIOUS
    <3> QED  BY <3>1 DEF Cleared
  <2> HIDE DEF c
  <2> QED  BY <2>1 DEF Empty
<1> HIDE DEF c
<1>2. Len(old) \in Nat
  BY SeqLen
<1>3. 0 .. Beyond - 1 \in Indices
  BY <1>2, PairsCleared
<1>4. {} \in Indices /\ <<>> \in Seq(Move) /\ Len(<<>>) = 0 /\ DOMAIN <<>> = {}
  BY DEF Indices
<1>5. IsBuilder(c)
  BY <1>1, <1>3, <1>4 DEF IsBuilder
<1>6. Bounded(c, <<>>) /\ TrueMoves(c, old, <<>>) /\ DistinctMoves(c) /\ Marks(c, <<>>, set)
  BY <1>1, <1>4 DEF Bounded, TrueMoves, DistinctMoves, Marks
<1>7. Tables(c.deletions, c.insertions, old, <<>>)
  BY <1>1, <1>2, <1>4 DEF Tables
<1> QED  BY <1>1, <1>4, <1>5, <1>6, <1>7 DEF OnTable, Sound, c

\* A mapping without an entry.
LEMMA WithoutFacts ==
  ASSUME NEW f, NEW k
  PROVE  /\ DOMAIN Without(f, k) = DOMAIN f \ {k}
         /\ \A l \in DOMAIN f \ {k} : Without(f, k)[l] = f[l]
BY DEF Without, Restrict

\* What the changes are after the last row has taken the place of row i.
TookOver(c, b, i, last) ==
  /\ IsBuilder(c) /\ c.moves = b.moves
  /\ \A x \in Nat : x \in c.insertions <=> x < last /\ (x \in b.insertions \/ x = i)
  /\ \A x \in Nat : x \in c.deletions <=> \/ x \in b.deletions
                                          \/ x \in {i, last} /\ x \notin b.insertions
  /\ \A x \in Nat : x \in c.modifications <=>
        x < last /\ IF x = i THEN last \in b.modifications ELSE x \in b.modifications
  /\ \A k : k \in DOMAIN c.mapping <=>
        \/ k \in DOMAIN b.mapping \ {i, last}
        \/ k = i /\ i < last /\ (last \in b.insertions => last \in DOMAIN b.mapping)
  /\ \A k \in DOMAIN b.mapping \ {i, last} : c.mapping[k] = b.mapping[k]
  /\ i \in DOMAIN c.mapping =>
        c.mapping[i] = IF last \in b.insertions THEN b.mapping[last] ELSE last

\* The index of a row that is not an insertion is that of its deletion.
LEMMA OnTableOwn ==
  ASSUME NEW D \in Indices, NEW I \in Indices, NEW R, NEW old \in Seq(R), NEW new \in Seq(R),
         Tables(D, I, old, new), NEW i \in Nat \ I, i < Len(new)
  PROVE  /\ i \notin D /\ i < Len(old) /\ Shift(D, Unshift(I, i)) = i
         /\ \A x \in Nat : x < i => (x \in I <=> x \in D)
<1>1. Len(old) \in Nat /\ Len(new) \in Nat
  BY SeqLen
<1>2. i < Len(old)
  BY DEF Tables
<1>3. i \notin D
  BY <1>2 DEF Tables
<1>4. \A x \in Nat : x < i => (x \in I <=> x \in D)
  BY <1>1, <1>2 DEF Tables
<1> QED  BY <1>2, <1>3, <1>4, OwnIndex

\* The fields that move_over() leaves.
LEMMA MovedOverIs ==
  ASSUME NEW R, NEW old \in Seq(R), NEW new \in Seq(R), NEW set, NEW b, OnTable(b, old, new, set),
         Track, NEW i \in Nat, i < Len(new)
  PROVE  TookOver(MovedOver(b, i, Len(new) - 1), b, i, Len(new) - 1)
<1> DEFINE last == Len(new) - 1
           c == MovedOver(b, i, last)
           D == b.deletions
           I == b.insertions
           M == b.modifications
<1>1. /\ IsBuilder(b) /\ Bounded(b, new) /\ TrueMoves(b, old, new)
      /\ Tables(D, I, old, new)
  BY DEF OnTable, Sound
<1>2. D \in Indices /\ I \in Indices /\ M \in Indices
  BY <1>1, BuilderFields
<1>3. last \in Nat /\ Len(new) = last + 1 /\ i <= last
  <2>1. Len(new) \in Nat
    BY SeqLen
  <2> QED  BY <2>1
<1>4. /\ \A x \in I : x \in Nat /\ x <= last
      /\ \A x \in M : x \in Nat /\ x <= last
      /\ \A k \in DOMAIN b.mapping : k \in I
  <2>1. \A x \in I : x \in Nat /\ x <= last
    BY <1>1, <1>2, <1>3 DEF Bounded, Indices
  <2>2. \A x \in M : x \in Nat /\ x <= last
    BY <1>1, <1>2, <1>3 DEF Bounded, Indices
  <2>3. \A k \in DOMAIN b.mapping : k \in I
    BY <1>1 DEF TrueMoves, TrueMove
  <2> QED  BY <2>1, <2>2, <2>3
<1>5. ASSUME NEW x \in Nat \ I, x < Len(new)
      PROVE  /\ x \notin D /\ x < Len(old) /\ Shift(D, Unshift(I, x)) = x
             /\ \A y \in Nat : y < x => (y \in I <=> y \in D)
  BY <1>1, <1>2, <1>5, OnTableOwn
<1> HIDE DEF last, D, I, M
<1>6. CASE i = last
  <2> DEFINE o == ErasedOrUnshifted(I, i)
             E == IF i \in I THEN D ELSE D \cup {i}
  <2>1. E = IF o = npos THEN D ELSE AddShifted(D, o)
    <3>1. CASE i \in I
      BY <3>1 DEF ErasedOrUnshifted
    <3>2. CASE i \notin I
      <4>1. Shift(D, Unshift(I, i)) = i
        BY <1>5, <3>2
      <4>2. Unshift(I, i) \in 0 .. i
        BY <1>2, UnshiftType
      <4>3. \A n \in 0 .. i : n # npos
        BY DEF npos
      <4>4. o = Unshift(I, i) /\ o # npos
        BY <3>2, <4>2, <4>3 DEF ErasedOrUnshifted
      <4> HIDE DEF o
      <4>5. AddShifted(D, o) = D \cup {i}
        BY <4>1, <4>4 DEF AddShifted
      <4> QED  BY <3>2, <4>4, <4>5
    <3> QED  BY <3>1, <3>2
  <2>2. c = [b EXCEPT !.modifications = M \ {i}, !.insertions = EraseAt(I, i), !.deletions = E,
                      !.mapping = Without(b.mapping, i)]
    <3> HIDE DEF E
    <3> QED  BY <1>6, <2>1 DEF MovedOver, D, I, M
  <2> DEFINE J == EraseAt(I, i)
             N == M \ {i}
             map == Without(b.mapping, i)
  <2>3. /\ c = [deletions |-> E, insertions |-> J, modifications |-> N, moves |-> b.moves,
                mapping |-> map]
        /\ c.deletions = E /\ c.insertions = J /\ c.modifications = N /\ c.moves = b.moves
        /\ c.mapping = map
    <3> HIDE DEF c, E, J, N, map
    <3>1. c = [b EXCEPT !.modifications = N, !.insertions = J, !.deletions = E, !.mapping = map]
      BY <2>2 DEF J, N, map
    <3> QED  BY <1>1, <3>1 DEF IsBuilder
  <2>4. J \in Indices /\ \A x \in Nat : x \in J <=> (x < i /\ x \in I) \/ (x >= i /\ x + 1 \in I)
    BY <1>2, EraseMember
  <2>5. E \in Indices /\ N \in Indices
    BY <1>2, AddMember
  <2>6. \A x \in Nat : x \in J <=> x < last /\ x \in I
    <3> HIDE DEF J
    <3> QED  BY <1>3, <1>4, <1>6, <2>4
  <2>7. \A x \in Nat : x \in N <=> x < last /\ x \in M
    BY <1>3, <1>4, <1>6
  <2>8. DOMAIN map = DOMAIN b.mapping \ {i} /\ \A l \in DOMAIN b.mapping \ {i} : map[l] = b.mapping[l]
    BY WithoutFacts
  <2>9. IsBuilder(c)
    <3> HIDE DEF E, J, N, map, c
    <3> QED  BY <1>1, <2>3, <2>4, <2>5 DEF IsBuilder
  <2>10. \A x \in Nat : x \in E <=> x \in D \/ (x \in {i, last} /\ x \notin I)
    BY <1>6
  <2> HIDE DEF E, J, N, map, c
  <2>11. \A x \in Nat : x \in c.insertions <=> x < last /\ (x \in I \/ x = i)
    BY <1>3, <1>6, <2>3, <2>6
  <2>12. \A x \in Nat : x \in c.modifications <=>
            x < last /\ IF x = i THEN last \in M ELSE x \in M
    BY <1>3, <1>6, <2>3, <2>7
  <2>13. /\ \A k : k \in DOMAIN c.mapping <=>
              \/ k \in DOMAIN b.mapping \ {i, last}
              \/ k = i /\ i < last /\ (last \in I => last \in DOMAIN b.mapping)
         /\ \A k \in DOMAIN b.mapping \ {i, last} : c.mapping[k] = b.mapping[k]
         /\ i \notin DOMAIN c.mapping
    BY <1>3, <1>6, <2>3, <2>8
  <2> QED  BY <2>3, <2>9, <2>10, <2>11, <2>12, <2>13 DEF TookOver, c, D, I, M, last
<1>7. CASE i # last
  <2> DEFINE lastIn == last \in I
             rowIn == i \in I
             again == lastIn /\ last \in DOMAIN b.mapping
             ins == I \ {last}
             dels == IF lastIn THEN D ELSE AddShifted(D, Unshift(I, last))
             E == IF rowIn THEN dels ELSE AddShifted(dels, Unshift(ins, i))
             J == ins \cup {i}
             N == (M \ {i, last}) \cup (IF last \in M THEN {i} ELSE {})
             kept == IF again \/ rowIn THEN Without(b.mapping, i) ELSE b.mapping
             map == CASE again -> With(Without(kept, last), i, b.mapping[last])
                      [] lastIn /\ ~again -> kept
                      [] OTHER -> With(kept, i, Shift(D, Unshift(I, last)))
  <2>1. c = [b EXCEPT !.modifications = N, !.deletions = E, !.insertions = J, !.mapping = map]
    BY <1>7 DEF MovedOver, D, I, M
  <2>2. /\ c = [deletions |-> E, insertions |-> J, modifications |-> N, moves |-> b.moves,
                mapping |-> map]
        /\ c.deletions = E /\ c.insertions = J /\ c.modifications = N /\ c.moves = b.moves
        /\ c.mapping = map
    <3> HIDE DEF c, E, J, N, map
    <3> QED  BY <1>1, <2>1 DEF IsBuilder
  <2>3. i < last
    BY <1>3, <1>7
  <2>4. dels = IF lastIn THEN D ELSE D \cup {last}
    <3>1. ~lastIn => Shift(D, Unshift(I, last)) = last
      BY <1>3, <1>5
    <3> QED  BY <3>1 DEF AddShifted
  <2>5. dels \in Indices /\ ins \in Indices
    <3>1. D \cup {last} \in Indices /\ ins \in Indices
      BY <1>2, <1>3, AddMember
    <3> HIDE DEF dels, ins
    <3> QED  BY <1>2, <2>4, <3>1
  <2>6. E = IF rowIn THEN dels ELSE dels \cup {i}
    <3>1. CASE rowIn
      BY <3>1
    <3>2. CASE ~rowIn
      <4>1. i \notin D /\ \A y \in Nat : y < i => (y \in I <=> y \in D)
        BY <1>5, <3>2
      <4>2. i \notin dels
        BY <2>3, <2>4, <4>1
      <4>3. \A y \in Nat : y < i => (y \in ins <=> y \in dels)
        <5> SUFFICES ASSUME NEW y \in Nat, y < i PROVE y \in ins <=> y \in dels
          OBVIOUS
        <5>1. y # last
          BY <1>3, <2>3
        <5> HIDE DEF dels
        <5> QED  BY <2>4, <4>1, <5>1
      <4> HIDE DEF dels, ins
      <4>4. Shift(dels, Unshift(ins, i)) = i
        BY <2>5, <4>2, <4>3, OwnIndex
      <4> QED  BY <3>2, <4>4 DEF AddShifted
    <3> QED  BY <3>1, <3>2
  <2>7. E \in Indices /\ J \in Indices /\ N \in Indices
    <3>1. dels \cup {i} \in Indices /\ ins \cup {i} \in Indices
      BY <2>5, AddMember
    <3>2. M \ {i} \in Indices
      BY <1>2, AddMember
    <3>3. (M \ {i}) \ {last} \in Indices
      BY <1>3, <3>2, AddMember
    <3>4. ((M \ {i}) \ {last}) \cup {i} \in Indices
      BY <3>3, AddMember
    <3>5. N = IF last \in M THEN ((M \ {i}) \ {last}) \cup {i} ELSE (M \ {i}) \ {last}
      OBVIOUS
    <3> HIDE DEF dels, ins, E, N
    <3> QED  BY <2>5, <2>6, <3>1, <3>3, <3>4, <3>5
  <2>8. /\ \A k : k \in DOMAIN map <=> \/ k \in DOMAIN b.mapping \ {i, last}
                                       \/ k = i /\ (lastIn => last \in DOMAIN b.mapping)
        /\ \A k \in DOMAIN b.mapping \ {i, last} : map[k] = b.mapping[k]
        /\ i \in DOMAIN map => map[i] = IF lastIn THEN b.mapping[last] ELSE last
    <3>1. \A k \in DOMAIN b.mapping : k \in I
      BY <1>4
    <3>3. /\ \A k : k # i => (k \in DOMAIN kept <=> k \in DOMAIN b.mapping)
          /\ i \in DOMAIN kept => i \in DOMAIN b.mapping /\ ~again /\ ~rowIn
          /\ \A k \in DOMAIN b.mapping : k # i => kept[k] = b.mapping[k]
      <4>1. CASE again \/ rowIn
        <5>1. kept = Without(b.mapping, i)
          BY <4>1
        <5>2. /\ DOMAIN kept = DOMAIN b.mapping \ {i}
              /\ \A l \in DOMAIN b.mapping \ {i} : kept[l] = b.mapping[l]
          <6> HIDE DEF kept
          <6> QED  BY <5>1, WithoutFacts
        <5> HIDE DEF kept
        <5> QED  BY <5>2
      <4>2. CASE ~(again \/ rowIn)
        BY <4>2
      <4> QED  BY <4>1, <4>2
    <3>4. i \notin DOMAIN kept
      BY <3>1, <3>3
    <3> HIDE DEF kept
    <3>5. CASE again
      <4> DEFINE g == Without(kept, last)
      <4>1. map = With(g, i, b.mapping[last])
        BY <3>5
      <4>2. DOMAIN g = DOMAIN kept \ {last} /\ \A l \in DOMAIN kept \ {last} : g[l] = kept[l]
        BY WithoutFacts
      <4> HIDE DEF map, g
      <4>3. /\ DOMAIN map = DOMAIN g \cup {i} /\ map[i] = b.mapping[last]
            /\ \A l \in DOMAIN g \ {i} : map[l] = g[l]
        <5>1. /\ DOMAIN With(g, i, b.mapping[last]) = DOMAIN g \cup {i}
              /\ With(g, i, b.mapping[last])[i] = b.mapping[last]
              /\ \A l \in DOMAIN g \ {i} : With(g, i, b.mapping[last])[l] = g[l]
          BY DEF With
        <5> QED  BY <4>1, <5>1
      <4> QED  BY <3>3, <3>4, <3>5, <4>2, <4>3
    <3>6. CASE lastIn /\ ~again
      <4>1. map = kept
        BY <3>6
      <4> HIDE DEF map
      <4> QED  BY <3>3, <3>4, <3>6, <4>1
    <3>7. CASE ~lastIn
      <4>1. Shift(D, Unshift(I, last)) = last
        BY <1>3, <1>5, <3>7
      <4>2. map = With(kept, i, last)
        BY <3>7, <4>1
      <4> HIDE DEF map
      <4>3. /\ DOMAIN map = DOMAIN kept \cup {i} /\ map[i] = last
            /\ \A l \in DOMAIN kept \ {i} : map[l] = kept[l]
        <5>1. /\ DOMAIN With(kept, i, last) = DOMAIN kept \cup {i}
              /\ With(kept, i, last)[i] = last
              /\ \A l \in DOMAIN kept \ {i} : With(kept, i, last)[l] = kept[l]
          BY DEF With
        <5> QED  BY <4>2, <5>1
      <4>4. last \notin DOMAIN b.mapping
        BY <3>1, <3>7
      <4> QED  BY <3>3, <3>4, <3>7, <4>3, <4>4
    <3> QED  BY <3>5, <3>6, <3>7
  <2>9. IsBuilder(c)
    <3> HIDE DEF E, J, N, map, c
    <3> QED  BY <1>1, <2>2, <2>7 DEF IsBuilder
  <2>10. \A x \in Nat : x \in E <=> x \in D \/ (x \in {i, last} /\ x \notin I)
    <3> HIDE DEF dels, E
    <3> QED  BY <2>4, <2>6
  <2>11. \A x \in Nat : x \in J <=> x < last /\ (x \in I \/ x = i)
    BY <1>3, <1>4, <2>3
  <2>12. \A x \in Nat : x \in N <=> x < last /\ IF x = i THEN last \in M ELSE x \in M
    BY <1>3, <1>4, <2>3
  <2> HIDE DEF E, J, N, map, c
  <2> QED  BY <2>2, <2>3, <2>8, <2>9, <2>10, <2>11, <2>12 DEF TookOver, c, D, I, M, last
<1> QED  BY <1>6, <1>7 DEF c, last

\* The rows after the last one took the place of row i.
LEMMA LastOverRows ==
  ASSUME NEW R, NEW new \in Seq(R), NEW i \in Nat, i < Len(new)
  PROVE  LET a == Front([new EXCEPT ![i + 1] = Last(new)])
         IN /\ a \in Seq(R) /\ Len(a) = Len(new) - 1
            /\ \A x \in Nat : x < Len(new) - 1 =>
                  a[x + 1] = IF x = i THEN new[Len(new)] ELSE new[x + 1]
<1> DEFINE n == Len(new)
           s == [new EXCEPT ![i + 1] = Last(new)]
           a == Front(s)
<1>1. n \in Nat /\ DOMAIN new = 1 .. n /\ n > 0
  BY SeqLen
<1>2. Last(new) = new[n] /\ new[n] \in R
  <2>1. n \in 1 .. n
    BY <1>1
  <2> QED  BY <1>1, <2>1, ElementOfSeq DEF Last
<1>3. \A k \in 1 .. n : new[k] \in R
  BY <1>1, ElementOfSeq
<1> HIDE DEF n
<1>4. s = [k \in 1 .. n |-> IF k = i + 1 THEN new[n] ELSE new[k]]
  <2>1. new = [k \in 1 .. n |-> new[k]]
    BY <1>1
  <2> QED  BY <1>1, <1>2, <2>1
<1>5. s \in [1 .. n -> R]
  BY <1>2, <1>3, <1>4
<1>6. s \in Seq(R) /\ Len(s) = n
  BY <1>1, <1>5, FunctionIsSeq
<1>7. \A k \in 1 .. n : s[k] = IF k = i + 1 THEN new[n] ELSE new[k]
  BY <1>4
<1> HIDE DEF s
<1>8. a = SubSeq(s, 1, n - 1)
  BY <1>6 DEF Front
<1>9. a = [k \in 1 .. n - 1 |-> s[k]]
  BY <1>1, <1>6, <1>8
<1>10. a \in [1 .. n - 1 -> R]
  <2>1. \A k \in 1 .. n - 1 : k \in 1 .. n
    BY <1>1
  <2>2. \A k \in 1 .. n - 1 : s[k] \in R
    BY <1>5, <2>1
  <2> QED  BY <1>9, <2>2
<1>11. a \in Seq(R) /\ Len(a) = n - 1
  <2>1. n - 1 \in Nat
    BY <1>1
  <2> QED  BY <1>10, <2>1, FunctionIsSeq
<1>12. ASSUME NEW x \in Nat, x < n - 1
       PROVE  a[x + 1] = IF x = i THEN new[n] ELSE new[x + 1]
  <2>1. x + 1 \in 1 .. n - 1 /\ x + 1 \in 1 .. n /\ (x + 1 = i + 1 <=> x = i)
    BY <1>1, <1>12
  <2>2. a[x + 1] = s[x + 1]
    BY <1>9, <2>1
  <2> QED  BY <1>7, <2>1, <2>2
<1> QED  BY <1>11, <1>12 DEF n, a, s

\* The last row takes the place of row i.
LEMMA MovedOverOnTable ==
  ASSUME NEW R, NEW old \in Seq(R), NEW new \in Seq(R), NEW set, NEW b, OnTable(b, old, new, set),
         Track, NEW i \in Nat, i < Len(new)
  PROVE  OnTable(MovedOver(b, i, Len(new) - 1), old,
                 Front([new EXCEPT ![i + 1] = Last(new)]), set)
<1> DEFINE last == Len(new) - 1
           c == MovedOver(b, i, last)
           a == Front([new EXCEPT ![i + 1] = Last(new)])
<1>1. /\ IsBuilder(b) /\ Bounded(b, new) /\ TrueMoves(b, old, new) /\ DistinctMoves(b)
      /\ Marks(b, new, set) /\ DOMAIN b.moves = {}
      /\ Tables(b.deletions, b.insertions, old, new)
  BY DEF OnTable, Sound
<1>2. Len(new) \in Nat /\ last \in Nat /\ Len(new) = last + 1 /\ i <= last /\ Len(old) \in Nat
  <2>1. Len(new) \in Nat /\ Len(old) \in Nat
    BY SeqLen
  <2> QED  BY <2>1
<1>3. TookOver(c, b, i, last)
  BY MovedOverIs
<1>4. /\ a \in Seq(R) /\ Len(a) = last
      /\ \A x \in Nat : x < last => a[x + 1] = IF x = i THEN new[last + 1] ELSE new[x + 1]
  <2>1. /\ a \in Seq(R) /\ Len(a) = Len(new) - 1
        /\ \A x \in Nat : x < Len(new) - 1 =>
              a[x + 1] = IF x = i THEN new[Len(new)] ELSE new[x + 1]
    BY LastOverRows
  <2>2. Len(new) - 1 = last /\ Len(new) = last + 1
    BY <1>2
  <2> HIDE DEF last, a
  <2>3. /\ a \in Seq(R) /\ Len(a) = last
        /\ \A x \in Nat : x < last => a[x + 1] = IF x = i THEN new[Len(new)] ELSE new[x + 1]
    BY <2>1, <2>2
  <2> QED  BY <2>2, <2>3
<1> HIDE DEF last, c, a
<1>5. IsBuilder(c) /\ DOMAIN c.moves = {}
  BY <1>1, <1>3 DEF TookOver
<1>6. c.insertions \in Indices /\ c.modifications \in Indices
      /\ b.insertions \in Indices /\ b.deletions \in Indices
  BY <1>1, <1>5, BuilderFields
<1>7. Bounded(c, a)
  <2>1. (\A x \in c.insertions : x \in Nat) /\ (\A x \in c.modifications : x \in Nat)
    BY <1>6 DEF Indices
  <2>2. \A x \in c.insertions : x < last
    BY <1>3, <2>1 DEF TookOver
  <2>3. \A x \in c.modifications : x < last
    BY <1>3, <2>1 DEF TookOver
  <2> QED  BY <1>4, <2>2, <2>3 DEF Bounded
<1>8. Tables(c.deletions, c.insertions, old, a)
  <2>1. ASSUME NEW x \in Nat, x < Len(old), x < last
        PROVE  (x \in c.insertions <=> x \in c.deletions)
               /\ (x \notin c.insertions => old[x + 1] = a[x + 1])
    <3>1. x < Len(new) /\ x # last
      BY <1>2, <2>1
    <3>2. /\ x \in b.insertions <=> x \in b.deletions
          /\ x \notin b.insertions => old[x + 1] = new[x + 1]
      BY <1>1, <2>1, <3>1 DEF Tables
    <3>3. x \in c.insertions <=> (x \in b.insertions \/ x = i)
      BY <1>3, <2>1 DEF TookOver
    <3>4. x \in c.deletions <=> x \in b.deletions \/ (x = i /\ x \notin b.insertions)
      BY <1>3, <3>1 DEF TookOver
    <3>5. x # i => a[x + 1] = new[x + 1]
      BY <1>4, <2>1
    <3> QED  BY <3>2, <3>3, <3>4, <3>5
  <2>2. ASSUME NEW x \in Nat, x < last, ~(x < Len(old)) PROVE x \in c.insertions
    <3>1. x < Len(new)
      BY <1>2, <2>2
    <3>2. x \in b.insertions
      BY <1>1, <2>2, <3>1 DEF Tables
    <3> QED  BY <1>3, <2>2, <3>2 DEF TookOver
  <2>3. ASSUME NEW x \in Nat, x < Len(old), ~(x < last) PROVE x \in c.deletions
    <3>1. CASE x = last
      <4>1. x < Len(new)
        BY <1>2, <3>1
      <4>2. x \in b.insertions => x \in b.deletions
        BY <1>1, <2>3, <4>1 DEF Tables
      <4> QED  BY <1>3, <3>1, <4>2 DEF TookOver
    <3>2. CASE x # last
      <4>1. ~(x < Len(new))
        BY <1>2, <2>3, <3>2
      <4>2. x \in b.deletions
        BY <1>1, <2>3, <4>1 DEF Tables
      <4> QED  BY <1>3, <4>2 DEF TookOver
    <3> QED  BY <3>1, <3>2
  <2> QED  BY <1>4, <2>1, <2>2, <2>3 DEF Tables
<1>9. TrueMoves(c, old, a)
  <2> SUFFICES ASSUME NEW k \in DOMAIN c.mapping
               PROVE  TrueMove(c, old, a, [from |-> c.mapping[k], to |-> k])
    BY <1>5 DEF TrueMoves
  <2>1. \A l \in DOMAIN b.mapping :
          /\ b.mapping[l] \in b.deletions /\ l \in b.insertions
          /\ b.mapping[l] < Len(old) /\ l < Len(new) /\ old[b.mapping[l] + 1] = new[l + 1]
    BY <1>1 DEF TrueMoves, TrueMove
  <2>2. \A x \in b.deletions : x \in c.deletions
    BY <1>3, <1>6 DEF TookOver, Indices
  <2>3. CASE k \in DOMAIN b.mapping \ {i, last}
    <3>1. c.mapping[k] = b.mapping[k]
      BY <1>3, <2>3 DEF TookOver
    <3>2. k \in Nat /\ k < last
      BY <1>2, <1>6, <2>1, <2>3 DEF Indices
    <3>3. k \in c.insertions
      BY <1>3, <2>1, <2>3, <3>2 DEF TookOver
    <3>4. a[k + 1] = new[k + 1]
      BY <1>4, <2>3, <3>2
    <3> QED  BY <1>4, <2>1, <2>2, <2>3, <3>1, <3>2, <3>3, <3>4 DEF TrueMove
  <2>4. CASE k = i
    <3>1. /\ i < last /\ (last \in b.insertions => last \in DOMAIN b.mapping)
          /\ c.mapping[i] = IF last \in b.insertions THEN b.mapping[last] ELSE last
      BY <1>3, <2>4 DEF TookOver
    <3>2. i \in c.insertions
      BY <1>3, <3>1 DEF TookOver
    <3>3. a[i + 1] = new[last + 1]
      BY <1>4, <3>1
    <3>4. CASE last \in b.insertions
      <4>1. last \in DOMAIN b.mapping /\ c.mapping[i] = b.mapping[last]
        BY <3>1, <3>4
      <4> QED  BY <1>4, <2>1, <2>2, <2>4, <3>1, <3>2, <3>3, <4>1 DEF TrueMove
    <3>5. CASE last \notin b.insertions
      <4>1. last < Len(new)
        BY <1>2
      <4>2. last < Len(old) /\ old[last + 1] = new[last + 1]
        BY <1>1, <1>2, <3>5, <4>1 DEF Tables
      <4>3. last \in c.deletions
        BY <1>2, <1>3, <3>5 DEF TookOver
      <4> QED  BY <1>4, <2>4, <3>1, <3>2, <3>3, <3>5, <4>2, <4>3 DEF TrueMove
    <3> QED  BY <3>4, <3>5
  <2> QED  BY <1>3, <2>3, <2>4 DEF TookOver
<1>10. DistinctMoves(c)
  BY <1>5 DEF DistinctMoves
<1>11. Marks(c, a, set)
  <2> SUFFICES ASSUME NEW x \in Nat, x < last, x \in c.insertions => MovedTo(c, x)
               PROVE  x \in c.modifications <=> a[x + 1] \in set
    BY <1>4 DEF Marks
  <2>1. MovedTo(c, x) <=> x \in DOMAIN c.mapping
    BY <1>5 DEF MovedTo
  <2>2. CASE x = i
    <3>1. last \in b.insertions => MovedTo(b, last)
      BY <1>3, <2>1, <2>2 DEF TookOver, MovedTo
    <3>2. last < Len(new)
      BY <1>2
    <3>3. last \in b.modifications <=> new[last + 1] \in set
      BY <1>1, <1>2, <3>1, <3>2 DEF Marks
    <3> QED  BY <1>3, <1>4, <2>2, <3>3 DEF TookOver
  <2>3. CASE x # i
    <3>1. x # last /\ x < Len(new)
      BY <1>2
    <3>2. x \in b.insertions => MovedTo(b, x)
      BY <1>3, <2>1, <2>3, <3>1 DEF TookOver, MovedTo
    <3>3. x \in b.modifications <=> new[x + 1] \in set
      BY <1>1, <3>1, <3>2 DEF Marks
    <3> QED  BY <1>3, <1>4, <2>3, <3>3 DEF TookOver
  <2> QED  BY <2>2, <2>3
<1> QED  BY <1>5, <1>7, <1>8, <1>9, <1>10, <1>11 DEF OnTable, Sound, a, c, last

\* What the changes are after row p, unless it is new, was marked as moved to q.
Marked(c, b, p, q) ==
  /\ IsBuilder(c) /\ c.moves = b.moves /\ c.modifications = b.modifications
  /\ c.insertions = b.insertions \cup {p}
  /\ c.deletions = IF p \in b.insertions THEN b.deletions ELSE b.deletions \cup {p}
  /\ c.mapping = IF p \in b.insertions THEN b.mapping ELSE With(b.mapping, q, p)

\* The fields that marking a moved row leaves.
LEMMA MarkMovedIs ==
  ASSUME NEW b, IsBuilder(b), NEW p \in Nat, NEW q,
         p \notin b.insertions => Shift(b.deletions, Unshift(b.insertions, p)) = p
  PROVE  Marked(MarkMoved(b, p, q), b, p, q)
<1> DEFINE c == MarkMoved(b, p, q)
<1>1. CASE p \in b.insertions
  <2>1. c = b
    BY <1>1 DEF MarkMoved
  <2>2. b.insertions \cup {p} = b.insertions
    BY <1>1
  <2> HIDE DEF c
  <2> QED  BY <1>1, <2>1, <2>2 DEF c, Marked
<1>2. CASE p \notin b.insertions
  <2> DEFINE D == b.deletions \cup {p}
             I == b.insertions \cup {p}
             map == With(b.mapping, q, p)
  <2>1. c = [b EXCEPT !.mapping = map, !.deletions = D, !.insertions = I]
    BY <1>2 DEF MarkMoved, AddShifted
  <2>2. D \in Indices /\ I \in Indices
    BY BuilderFields, AddMember
  <2> HIDE DEF c, D, I, map
  <2>3. /\ c = [deletions |-> D, insertions |-> I, modifications |-> b.modifications,
                moves |-> b.moves, mapping |-> map]
        /\ c.deletions = D /\ c.insertions = I /\ c.modifications = b.modifications
        /\ c.moves = b.moves /\ c.mapping = map
    BY <2>1 DEF IsBuilder
  <2>4. IsBuilder(c)
    BY <2>2, <2>3 DEF IsBuilder
  <2> QED  BY <1>2, <2>3, <2>4 DEF D, I, map, c, Marked
<1> QED  BY <1>1, <1>2

\* The other of two rows.
Other(i, j) == [x \in Nat |-> IF x = i THEN j ELSE IF x = j THEN i ELSE x]

\* What the changes are after two rows have traded places.
Traded(c, b, i, j) ==
  /\ IsBuilder(c) /\ c.moves = b.moves
  /\ \A x \in Nat : x \in c.insertions <=> x \in b.insertions \/ x \in {i, j}
  /\ \A x \in Nat : x \in c.deletions <=> x \in b.deletions \/ x \in {i, j} \ b.insertions
  /\ \A x \in Nat : x \in c.modifications <=> Other(i, j)[x] \in b.modifications
  /\ \A k : k \notin {i, j} => (k \in DOMAIN c.mapping <=> k \in DOMAIN b.mapping)
  /\ \A k \in DOMAIN b.mapping \ {i, j} : c.mapping[k] = b.mapping[k]
  /\ \A k \in {i, j} :
        LET l == Other(i, j)[k]
        IN /\ k \in DOMAIN c.mapping <=> (l \in b.insertions => l \in DOMAIN b.mapping)
           /\ k \in DOMAIN c.mapping =>
                c.mapping[k] = IF l \in b.insertions THEN b.mapping[l] ELSE l

\* One of the two was moved before: its move ends at the other's place now.
Redirected(c, b, i, j) ==
  /\ IsBuilder(c) /\ c.moves = b.moves /\ c.modifications = b.modifications
  /\ c.insertions = b.insertions \cup {j}
  /\ c.deletions = IF j \in b.insertions THEN b.deletions ELSE b.deletions \cup {j}
  /\ \A k : k \notin {i, j} => (k \in DOMAIN c.mapping <=> k \in DOMAIN b.mapping)
  /\ \A k \in DOMAIN b.mapping \ {i, j} : c.mapping[k] = b.mapping[k]
  /\ j \in DOMAIN c.mapping /\ c.mapping[j] = b.mapping[i]
  /\ i \in DOMAIN c.mapping <=> j \notin b.insertions
  /\ i \in DOMAIN c.mapping => c.mapping[i] = j

\* The fields after the move of one of two swapped rows is redirected.
LEMMA RedirectIs ==
  ASSUME NEW b, IsBuilder(b), NEW i \in Nat, NEW j \in Nat, i # j,
         i \in DOMAIN b.mapping, i \in b.insertions, j \notin DOMAIN b.mapping,
         j \notin b.insertions => Shift(b.deletions, Unshift(b.insertions, j)) = j
  PROVE  Redirected(Redirect(b, i, j), b, i, j)
<1> DEFINE less == Without(b.mapping, i)
           more == With(less, j, b.mapping[i])
           d == [b EXCEPT !.mapping = more]
           c == MarkMoved(d, j, i)
<1>1. c = Redirect(b, i, j)
  BY DEF Redirect
<1>2. /\ d = [deletions |-> b.deletions, insertions |-> b.insertions,
              modifications |-> b.modifications, moves |-> b.moves, mapping |-> more]
      /\ d.deletions = b.deletions /\ d.insertions = b.insertions
      /\ d.modifications = b.modifications /\ d.moves = b.moves /\ d.mapping = more
  <2> HIDE DEF more
  <2> QED  BY DEF IsBuilder
<1>3. DOMAIN less = DOMAIN b.mapping \ {i} /\ \A l \in DOMAIN b.mapping \ {i} : less[l] = b.mapping[l]
  BY WithoutFacts
<1> HIDE DEF less
<1>4. /\ DOMAIN more = DOMAIN less \cup {j} /\ more[j] = b.mapping[i]
      /\ \A l \in DOMAIN less \ {j} : more[l] = less[l]
  BY DEF With
<1> HIDE DEF more, d
<1>5. IsBuilder(d)
  BY <1>2 DEF IsBuilder
<1>6. /\ IsBuilder(c) /\ c.moves = d.moves /\ c.modifications = d.modifications
      /\ c.insertions = d.insertions \cup {j}
      /\ c.deletions = IF j \in d.insertions THEN d.deletions ELSE d.deletions \cup {j}
      /\ c.mapping = IF j \in d.insertions THEN d.mapping ELSE With(d.mapping, i, j)
  <2>1. Marked(c, d, j, i)
    BY <1>2, <1>5, MarkMovedIs
  <2> HIDE DEF c
  <2> QED  BY <2>1 DEF Marked
<1> HIDE DEF c
<1>7. CASE j \in b.insertions
  <2>1. c.mapping = more
    BY <1>2, <1>6, <1>7
  <2> QED  BY <1>1, <1>2, <1>3, <1>4, <1>6, <1>7, <2>1 DEF Redirected
<1>8. CASE j \notin b.insertions
  <2>1. c.mapping = With(more, i, j)
    BY <1>2, <1>6, <1>8
  <2>2. /\ DOMAIN With(more, i, j) = DOMAIN more \cup {i} /\ With(more, i, j)[i] = j
        /\ \A l \in DOMAIN more \ {i} : With(more, i, j)[l] = more[l]
    BY DEF With
  <2>3. /\ DOMAIN c.mapping = DOMAIN more \cup {i} /\ c.mapping[i] = j
        /\ \A l \in DOMAIN more \ {i} : c.mapping[l] = more[l]
    BY <2>1, <2>2
  <2>4. /\ \A k : k \notin {i, j} => (k \in DOMAIN c.mapping <=> k \in DOMAIN b.mapping)
        /\ \A k \in DOMAIN b.mapping \ {i, j} : c.mapping[k] = b.mapping[k]
    BY <1>3, <1>4, <2>3
  <2>5. /\ j \in DOMAIN c.mapping /\ c.mapping[j] = b.mapping[i]
        /\ i \in DOMAIN c.mapping /\ c.mapping[i] = j
    BY <1>3, <1>4, <2>3
  <2> QED  BY <1>1, <1>2, <1>6, <1>8, <2>4, <2>5 DEF Redirected
<1> QED  BY <1>7, <1>8

\* The indices swapped.
LEMMA OtherIs ==
  ASSUME NEW i \in Nat, NEW j \in Nat, i # j
  PROVE  /\ Other(i, j)[i] = j /\ Other(i, j)[j] = i
         /\ \A x \in Nat : /\ Other(i, j)[x] \in Nat
                           /\ x \notin {i, j} => Other(i, j)[x] = x
                           /\ Other(i, j)[Other(i, j)[x]] = x
                           /\ Other(i, j)[x] \in {i, j} <=> x \in {i, j}
                           /\ \A n \in Nat : i < n /\ j < n /\ x < n => Other(i, j)[x] < n
<1> DEFINE f == Other(i, j)
<1>1. \A x \in Nat : f[x] = IF x = i THEN j ELSE IF x = j THEN i ELSE x
  BY DEF Other
<1> HIDE DEF f
<1>2. f[i] = j /\ f[j] = i
  BY <1>1
<1>3. \A x \in Nat : x \notin {i, j} => f[x] = x
  BY <1>1
<1>4. ASSUME NEW x \in Nat
      PROVE  /\ f[x] \in Nat /\ f[f[x]] = x
             /\ f[x] \in {i, j} <=> x \in {i, j}
             /\ \A n \in Nat : i < n /\ j < n /\ x < n => f[x] < n
  <2>1. CASE x = i
    BY <1>2, <2>1
  <2>2. CASE x = j
    BY <1>2, <2>2
  <2>3. CASE x \notin {i, j}
    BY <1>3, <2>3
  <2> QED  BY <2>1, <2>2, <2>3
<1> QED  BY <1>2, <1>3, <1>4 DEF f

\* The fields that swap() leaves, whichever of the two rows moved before.
LEMMA SwappedIs ==
  ASSUME NEW R, NEW old \in Seq(R), NEW new \in Seq(R), NEW set, NEW b, OnTable(b, old, new, set),
         Track, NEW i \in Nat, NEW j \in Nat, i < j, j < Len(new)
  PROVE  Traded(Swapped(b, i, j), b, i, j)
<1> DEFINE f == Other(i, j)
           swap(k) == CASE k = i -> j [] k = j -> i [] OTHER -> k
           M == {swap(k) : k \in b.modifications}
           c == [b EXCEPT !.modifications = M]
           e == Swapped(b, i, j)
<1>1. /\ IsBuilder(b) /\ Bounded(b, new) /\ TrueMoves(b, old, new)
      /\ Tables(b.deletions, b.insertions, old, new)
  BY DEF OnTable, Sound
<1>2. b.deletions \in Indices /\ b.insertions \in Indices /\ b.modifications \in Indices
  BY <1>1, BuilderFields
<1>3. Len(new) \in Nat /\ i # j /\ i < Len(new)
  <2>1. Len(new) \in Nat
    BY SeqLen
  <2> QED  BY <2>1
<1>4. /\ f[i] = j /\ f[j] = i
      /\ \A x \in Nat : /\ f[x] \in Nat /\ f[f[x]] = x
                        /\ x \notin {i, j} => f[x] = x
                        /\ x < Len(new) => f[x] < Len(new)
  BY <1>3, OtherIs
<1>5. M \in Indices /\ \A x \in Nat : x \in M <=> f[x] \in b.modifications
  <2>1. \A x \in Nat : swap(x) = f[x]
    <3>1. \A x \in Nat : f[x] = IF x = i THEN j ELSE IF x = j THEN i ELSE x
      BY DEF Other
    <3> HIDE DEF f
    <3> QED  BY <3>1
  <2>2. \A x \in b.modifications : x \in Nat /\ x < Len(new)
    BY <1>1, <1>2 DEF Bounded, Indices
  <2> HIDE DEF f, swap
  <2>3. \A y : y \in M <=> \E x \in b.modifications : y = f[x]
    BY <2>1, <2>2
  <2>4. \A y \in M : y \in Nat /\ y <= Len(new)
    <3> SUFFICES ASSUME NEW y \in M PROVE y \in Nat /\ y <= Len(new)
      OBVIOUS
    <3>1. PICK x \in b.modifications : y = f[x]
      BY <2>3
    <3>2. f[x] \in Nat /\ f[x] < Len(new)
      BY <1>4, <2>2
    <3> QED  BY <1>3, <3>1, <3>2
  <2> HIDE DEF M
  <2>5. M \in Indices
    BY <1>3, <2>4 DEF Indices
  <2>6. \A x \in Nat : x \in M <=> f[x] \in b.modifications
    BY <1>4, <2>2, <2>3
  <2> QED  BY <2>5, <2>6
<1> HIDE DEF f, M
<1>6. /\ c = [deletions |-> b.deletions, insertions |-> b.insertions, modifications |-> M,
              moves |-> b.moves, mapping |-> b.mapping]
      /\ c.deletions = b.deletions /\ c.insertions = b.insertions /\ c.modifications = M
      /\ c.moves = b.moves /\ c.mapping = b.mapping
  BY <1>1 DEF IsBuilder
<1>7. e = CASE {i, j} \subseteq DOMAIN b.mapping ->
                 [c EXCEPT !.mapping = [@ EXCEPT ![i] = b.mapping[j], ![j] = b.mapping[i]]]
            [] {i, j} \cap DOMAIN b.mapping = {i} -> Redirect(c, i, j)
            [] {i, j} \cap DOMAIN b.mapping = {j} -> Redirect(c, j, i)
            [] OTHER -> MarkMoved(MarkMoved(c, j, i), i, j)
  BY DEF Swapped, M
<1> HIDE DEF c, e
<1>8. IsBuilder(c)
  BY <1>1, <1>5, <1>6 DEF IsBuilder
<1>9. \A k \in DOMAIN b.mapping : k \in b.insertions
  BY <1>1 DEF TrueMoves, TrueMove
<1>10. ASSUME NEW x \in Nat \ b.insertions, x < Len(new)
       PROVE  /\ x \notin b.deletions /\ Shift(b.deletions, Unshift(b.insertions, x)) = x
              /\ \A y \in Nat : y < x => (y \in b.insertions <=> y \in b.deletions)
  BY <1>1, <1>2, <1>10, OnTableOwn
<1>11. SUFFICES
         /\ IsBuilder(e) /\ e.moves = b.moves /\ e.modifications = M
         /\ \A x \in Nat : x \in e.insertions <=> x \in b.insertions \/ x \in {i, j}
         /\ \A x \in Nat : x \in e.deletions <=> x \in b.deletions \/ x \in {i, j} \ b.insertions
         /\ \A k : k \notin {i, j} => (k \in DOMAIN e.mapping <=> k \in DOMAIN b.mapping)
         /\ \A k \in DOMAIN b.mapping \ {i, j} : e.mapping[k] = b.mapping[k]
         /\ i \in DOMAIN e.mapping <=> (j \in b.insertions => j \in DOMAIN b.mapping)
         /\ i \in DOMAIN e.mapping =>
               e.mapping[i] = IF j \in b.insertions THEN b.mapping[j] ELSE j
         /\ j \in DOMAIN e.mapping <=> (i \in b.insertions => i \in DOMAIN b.mapping)
         /\ j \in DOMAIN e.mapping =>
               e.mapping[j] = IF i \in b.insertions THEN b.mapping[i] ELSE i
  BY <1>4, <1>5 DEF Traded, f, e
<1>12. CASE {i, j} \subseteq DOMAIN b.mapping
  <2> DEFINE map == [b.mapping EXCEPT ![i] = b.mapping[j], ![j] = b.mapping[i]]
  <2>1. e = [c EXCEPT !.mapping = [c.mapping EXCEPT ![i] = b.mapping[j], ![j] = b.mapping[i]]]
    BY <1>7, <1>12
  <2>2. e = [c EXCEPT !.mapping = map]
    BY <1>6, <2>1
  <2>3. /\ DOMAIN map = DOMAIN b.mapping
        /\ \A k \in DOMAIN b.mapping :
              map[k] = IF k = j THEN b.mapping[i] ELSE IF k = i THEN b.mapping[j] ELSE b.mapping[k]
    OBVIOUS
  <2> HIDE DEF map
  <2>4. /\ e = [deletions |-> b.deletions, insertions |-> b.insertions, modifications |-> M,
                moves |-> b.moves, mapping |-> map]
        /\ e.deletions = b.deletions /\ e.insertions = b.insertions /\ e.modifications = M
        /\ e.moves = b.moves /\ e.mapping = map
    BY <1>6, <2>2
  <2>5. IsBuilder(e)
    BY <1>1, <1>5, <2>4 DEF IsBuilder
  <2>6. i \in b.insertions /\ j \in b.insertions
    BY <1>9, <1>12
  <2> QED  BY <1>3, <1>12, <2>3, <2>4, <2>5, <2>6
<1>13. CASE i \in DOMAIN b.mapping /\ j \notin DOMAIN b.mapping
  <2>1. e = Redirect(c, i, j)
    <3>1. ~({i, j} \subseteq DOMAIN b.mapping) /\ {i, j} \cap DOMAIN b.mapping = {i}
      BY <1>3, <1>13
    <3>2. {i} # {j}
      BY <1>3
    <3> QED  BY <1>7, <3>1, <3>2
  <2>2. j \notin b.insertions => Shift(b.deletions, Unshift(b.insertions, j)) = j
    BY <1>10
  <2>3. i \in b.insertions
    BY <1>9, <1>13
  <2>4. /\ IsBuilder(e) /\ e.moves = b.moves /\ e.modifications = M
        /\ e.insertions = b.insertions \cup {j}
        /\ e.deletions = IF j \in b.insertions THEN b.deletions ELSE b.deletions \cup {j}
        /\ \A k : k \notin {i, j} => (k \in DOMAIN e.mapping <=> k \in DOMAIN b.mapping)
        /\ \A k \in DOMAIN b.mapping \ {i, j} : e.mapping[k] = b.mapping[k]
        /\ j \in DOMAIN e.mapping /\ e.mapping[j] = b.mapping[i]
        /\ i \in DOMAIN e.mapping <=> j \notin b.insertions
        /\ i \in DOMAIN e.mapping => e.mapping[i] = j
    <3>1. Redirected(e, c, i, j)
      BY <1>3, <1>6, <1>8, <1>13, <2>1, <2>2, <2>3, RedirectIs
    <3> QED  BY <1>6, <3>1 DEF Redirected
  <2> QED  BY <1>13, <2>3, <2>4
<1>14. CASE j \in DOMAIN b.mapping /\ i \notin DOMAIN b.mapping
  <2>1. e = Redirect(c, j, i)
    <3>1. ~({i, j} \subseteq DOMAIN b.mapping) /\ {i, j} \cap DOMAIN b.mapping = {j}
      BY <1>3, <1>14
    <3>2. {i} # {j}
      BY <1>3
    <3> QED  BY <1>7, <3>1, <3>2
  <2>2. i \notin b.insertions => Shift(b.deletions, Unshift(b.insertions, i)) = i
    BY <1>3, <1>10
  <2>3. j \in b.insertions
    BY <1>9, <1>14
  <2>4. /\ IsBuilder(e) /\ e.moves = b.moves /\ e.modifications = M
        /\ e.insertions = b.insertions \cup {i}
        /\ e.deletions = IF i \in b.insertions THEN b.deletions ELSE b.deletions \cup {i}
        /\ \A k : k \notin {j, i} => (k \in DOMAIN e.mapping <=> k \in DOMAIN b.mapping)
        /\ \A k \in DOMAIN b.mapping \ {j, i} : e.mapping[k] = b.mapping[k]
        /\ i \in DOMAIN e.mapping /\ e.mapping[i] = b.mapping[j]
        /\ j \in DOMAIN e.mapping <=> i \notin b.insertions
        /\ j \in DOMAIN e.mapping => e.mapping[j] = i
    <3>1. Redirected(e, c, j, i)
      BY <1>3, <1>6, <1>8, <1>14, <2>1, <2>2, <2>3, RedirectIs
    <3> QED  BY <1>6, <3>1 DEF Redirected
  <2> QED  BY <1>14, <2>3, <2>4
<1>15. CASE i \notin DOMAIN b.mapping /\ j \notin DOMAIN b.mapping
  <2> DEFINE d == MarkMoved(c, j, i)
  <2>1. e = MarkMoved(d, i, j)
    <3>1. /\ ~({i, j} \subseteq DOMAIN b.mapping) /\ ~({i, j} \cap DOMAIN b.mapping = {i})
          /\ ~({i, j} \cap DOMAIN b.mapping = {j})
      BY <1>15
    <3> QED  BY <1>7, <3>1
  <2>2. j \notin b.insertions => Shift(b.deletions, Unshift(b.insertions, j)) = j
    BY <1>10
  <2>3. /\ IsBuilder(d) /\ d.moves = b.moves /\ d.modifications = M
        /\ d.insertions = b.insertions \cup {j}
        /\ d.deletions = IF j \in b.insertions THEN b.deletions ELSE b.deletions \cup {j}
        /\ d.mapping = IF j \in b.insertions THEN b.mapping ELSE With(b.mapping, i, j)
    <3>1. Marked(d, c, j, i)
      BY <1>6, <1>8, <2>2, MarkMovedIs
    <3> HIDE DEF d
    <3> QED  BY <1>6, <3>1 DEF Marked
  <2> HIDE DEF d
  <2>4. i \in d.insertions <=> i \in b.insertions
    BY <1>3, <2>3
  <2>5. i \notin d.insertions => Shift(d.deletions, Unshift(d.insertions, i)) = i
    <3> SUFFICES ASSUME i \notin b.insertions
                 PROVE  Shift(d.deletions, Unshift(d.insertions, i)) = i
      BY <2>4
    <3>1. i \notin b.deletions /\ \A y \in Nat : y < i => (y \in b.insertions <=> y \in b.deletions)
      BY <1>3, <1>10
    <3>2. d.deletions \in Indices /\ d.insertions \in Indices
      BY <2>3, BuilderFields
    <3>3. i \notin d.deletions
      BY <1>3, <2>3, <3>1
    <3>4. \A y \in Nat : y < i => (y \in d.insertions <=> y \in d.deletions)
      <4> SUFFICES ASSUME NEW y \in Nat, y < i PROVE y \in d.insertions <=> y \in d.deletions
        OBVIOUS
      <4>1. y # j
        OBVIOUS
      <4> QED  BY <2>3, <3>1, <4>1
    <3> QED  BY <3>2, <3>3, <3>4, OwnIndex
  <2>6. /\ IsBuilder(e) /\ e.moves = d.moves /\ e.modifications = d.modifications
        /\ e.insertions = d.insertions \cup {i}
        /\ e.deletions = IF i \in d.insertions THEN d.deletions ELSE d.deletions \cup {i}
        /\ e.mapping = IF i \in d.insertions THEN d.mapping ELSE With(d.mapping, j, i)
    <3>1. Marked(e, d, i, j)
      BY <2>1, <2>3, <2>5, MarkMovedIs
    <3> QED  BY <3>1 DEF Marked
  <2>7. /\ \A k : k # i => (k \in DOMAIN d.mapping <=> k \in DOMAIN b.mapping)
        /\ \A k \in DOMAIN b.mapping \ {i} : d.mapping[k] = b.mapping[k]
        /\ i \in DOMAIN d.mapping <=> j \notin b.insertions
        /\ i \in DOMAIN d.mapping => d.mapping[i] = j
    <3>1. /\ DOMAIN With(b.mapping, i, j) = DOMAIN b.mapping \cup {i}
          /\ With(b.mapping, i, j)[i] = j
          /\ \A l \in DOMAIN b.mapping \ {i} : With(b.mapping, i, j)[l] = b.mapping[l]
      BY DEF With
    <3> QED  BY <1>15, <2>3, <3>1
  <2>8. /\ \A k : k # j => (k \in DOMAIN e.mapping <=> k \in DOMAIN d.mapping)
        /\ \A k \in DOMAIN d.mapping \ {j} : e.mapping[k] = d.mapping[k]
        /\ j \in DOMAIN e.mapping <=> i \notin b.insertions
        /\ j \in DOMAIN e.mapping => e.mapping[j] = i
    <3>1. /\ DOMAIN With(d.mapping, j, i) = DOMAIN d.mapping \cup {j}
          /\ With(d.mapping, j, i)[j] = i
          /\ \A l \in DOMAIN d.mapping \ {j} : With(d.mapping, j, i)[l] = d.mapping[l]
      BY DEF With
    <3>2. j \notin DOMAIN d.mapping
      BY <1>3, <1>15, <2>7
    <3> QED  BY <2>4, <2>6, <3>1, <3>2
  <2>9. /\ \A x \in Nat : x \in e.insertions <=> x \in b.insertions \/ x \in {i, j}
        /\ \A x \in Nat : x \in e.deletions <=> x \in b.deletions \/ x \in {i, j} \ b.insertions
    <3>1. \A x \in Nat : x \in e.insertions <=> x \in b.insertions \/ x \in {i, j}
      BY <2>3, <2>6
    <3>2. \A x \in Nat : x \in d.deletions <=> x \in b.deletions \/ x \in {j} \ b.insertions
      BY <2>3
    <3>3. \A x \in Nat : x \in e.deletions <=> x \in d.deletions \/ x \in {i} \ b.insertions
      BY <2>4, <2>6
    <3> QED  BY <3>1, <3>2, <3>3
  <2> QED  BY <1>3, <1>15, <2>3, <2>6, <2>7, <2>8, <2>9
<1> QED  BY <1>12, <1>13, <1>14, <1>15

\* Two rows trade places.
LEMMA SwappedOnTable ==
  ASSUME NEW R, NEW old \in Seq(R), NEW new \in Seq(R), NEW set, NEW b, OnTable(b, old, new, set),
         Track, NEW i \in Nat, NEW j \in Nat, i < j, j < Len(new)
  PROVE  OnTable(Swapped(b, i, j), old, [new EXCEPT ![i + 1] = new[j + 1], ![j + 1] = new[i + 1]],
                 set)
<1> DEFINE n == Len(new)
           f == Other(i, j)
           c == Swapped(b, i, j)
           a == [new EXCEPT ![i + 1] = new[j + 1], ![j + 1] = new[i + 1]]
<1>1. /\ IsBuilder(b) /\ Bounded(b, new) /\ TrueMoves(b, old, new) /\ DistinctMoves(b)
      /\ Marks(b, new, set) /\ DOMAIN b.moves = {}
      /\ Tables(b.deletions, b.insertions, old, new)
  BY DEF OnTable, Sound
<1>2. n \in Nat /\ DOMAIN new = 1 .. n /\ i < n /\ j < n /\ i # j
  <2>1. n \in Nat /\ DOMAIN new = 1 .. n
    BY SeqLen
  <2> QED  BY <2>1
<1>3. Traded(c, b, i, j)
  BY SwappedIs
<1>4. /\ f[i] = j /\ f[j] = i
      /\ \A x \in Nat : /\ f[x] \in Nat /\ f[f[x]] = x
                        /\ x \notin {i, j} => f[x] = x
                        /\ f[x] \in {i, j} <=> x \in {i, j}
                        /\ x < n => f[x] < n
  BY <1>2, OtherIs
<1>5. a \in Seq(R) /\ Len(a) = n
  <2>1. \A k \in 1 .. n : new[k] \in R
    BY <1>2, ElementOfSeq
  <2>2. i + 1 \in 1 .. n /\ j + 1 \in 1 .. n
    BY <1>2
  <2>3. a \in [1 .. n -> R]
    <3>1. new \in [1 .. n -> R]
      <4>1. new = [k \in 1 .. n |-> new[k]]
        BY <1>2
      <4> QED  BY <2>1, <4>1
    <3> HIDE DEF n
    <3> QED  BY <2>1, <2>2, <3>1
  <2> HIDE DEF a, n
  <2> QED  BY <1>2, <2>3, FunctionIsSeq
<1>6. \A x \in Nat : x < n => a[x + 1] = new[f[x] + 1]
  <2> SUFFICES ASSUME NEW x \in Nat, x < n PROVE a[x + 1] = new[f[x] + 1]
    OBVIOUS
  <2>1. x + 1 \in 1 .. n /\ (x + 1 = i + 1 <=> x = i) /\ (x + 1 = j + 1 <=> x = j)
    BY <1>2
  <2>2. a[x + 1] = IF x = j THEN new[i + 1] ELSE IF x = i THEN new[j + 1] ELSE new[x + 1]
    <3> HIDE DEF f, n
    <3> QED  BY <1>2, <2>1
  <2> HIDE DEF a, f
  <2> QED  BY <1>2, <1>4, <2>2
<1> HIDE DEF n, f, c, a
<1>7. IsBuilder(c) /\ DOMAIN c.moves = {}
  BY <1>1, <1>3 DEF Traded
<1>8. c.insertions \in Indices /\ c.modifications \in Indices /\ c.deletions \in Indices
      /\ b.insertions \in Indices /\ b.deletions \in Indices /\ b.modifications \in Indices
  BY <1>1, <1>7, BuilderFields
<1>9. /\ \A x \in Nat : x \in c.insertions <=> x \in b.insertions \/ x \in {i, j}
      /\ \A x \in Nat : x \in c.deletions <=> x \in b.deletions \/ x \in {i, j} \ b.insertions
      /\ \A x \in Nat : x \in c.modifications <=> f[x] \in b.modifications
      /\ \A k : k \notin {i, j} => (k \in DOMAIN c.mapping <=> k \in DOMAIN b.mapping)
      /\ \A k \in DOMAIN b.mapping \ {i, j} : c.mapping[k] = b.mapping[k]
      /\ \A k \in {i, j} :
           /\ k \in DOMAIN c.mapping <=> (f[k] \in b.insertions => f[k] \in DOMAIN b.mapping)
           /\ k \in DOMAIN c.mapping =>
                c.mapping[k] = IF f[k] \in b.insertions THEN b.mapping[f[k]] ELSE f[k]
  BY <1>3 DEF Traded, f
<1>10. Bounded(c, a)
  <2>1. \A x \in c.insertions : x < n
    BY <1>1, <1>2, <1>8, <1>9 DEF Bounded, Indices, n
  <2>2. \A x \in c.modifications : x < n
    <3> SUFFICES ASSUME NEW x \in c.modifications PROVE x < n
      OBVIOUS
    <3>1. x \in Nat
      BY <1>8 DEF Indices
    <3>2. f[x] \in Nat /\ f[x] < n
      BY <1>1, <1>4, <1>9, <3>1 DEF Bounded, n
    <3>3. f[f[x]] < n
      BY <1>4, <3>2
    <3> QED  BY <1>4, <3>1, <3>3
  <2> QED  BY <1>5, <2>1, <2>2 DEF Bounded
<1>11. ASSUME NEW x \in Nat, x < n, x \notin b.insertions
       PROVE  x < Len(old) /\ x \notin b.deletions /\ old[x + 1] = new[x + 1]
  BY <1>1, <1>11 DEF Tables, n
<1>12. Tables(c.deletions, c.insertions, old, a)
  <2>1. ASSUME NEW x \in Nat, x < Len(old), x < n
        PROVE  (x \in c.insertions <=> x \in c.deletions)
               /\ (x \notin c.insertions => old[x + 1] = a[x + 1])
    <3>1. x \in b.insertions <=> x \in b.deletions
      BY <1>1, <2>1 DEF Tables, n
    <3>2. x \in c.insertions <=> x \in c.deletions
      BY <1>9, <3>1
    <3>3. ASSUME x \notin c.insertions PROVE old[x + 1] = a[x + 1]
      <4>1. x \notin b.insertions /\ x \notin {i, j}
        BY <1>9, <3>3
      <4>2. f[x] = x
        BY <1>4, <4>1
      <4> QED  BY <1>6, <1>11, <2>1, <4>1, <4>2
    <3> QED  BY <3>2, <3>3
  <2>2. ASSUME NEW x \in Nat, x < n, ~(x < Len(old)) PROVE x \in c.insertions
    BY <1>9, <1>11, <2>2
  <2>3. ASSUME NEW x \in Nat, x < Len(old), ~(x < n) PROVE x \in c.deletions
    BY <1>1, <1>9, <2>3 DEF Tables, n
  <2> QED  BY <1>5, <2>1, <2>2, <2>3 DEF Tables
<1>13. TrueMoves(c, old, a)
  <2> SUFFICES ASSUME NEW k \in DOMAIN c.mapping
               PROVE  TrueMove(c, old, a, [from |-> c.mapping[k], to |-> k])
    BY <1>7 DEF TrueMoves
  <2>1. \A l \in DOMAIN b.mapping :
          /\ b.mapping[l] \in b.deletions /\ l \in b.insertions
          /\ b.mapping[l] < Len(old) /\ l < n /\ old[b.mapping[l] + 1] = new[l + 1]
    BY <1>1 DEF TrueMoves, TrueMove, n
  <2>2. \A x \in b.deletions : x \in c.deletions
    BY <1>8, <1>9 DEF Indices
  <2>3. CASE k \notin {i, j}
    <3>1. k \in DOMAIN b.mapping /\ c.mapping[k] = b.mapping[k]
      BY <1>9, <2>3
    <3>2. k \in Nat /\ k < n /\ k \in c.insertions
      BY <1>8, <1>9, <2>1, <3>1 DEF Indices
    <3>3. a[k + 1] = new[k + 1]
      BY <1>4, <1>6, <2>3, <3>2
    <3> QED  BY <1>5, <2>1, <2>2, <3>1, <3>2, <3>3 DEF TrueMove
  <2>4. CASE k \in {i, j}
    <3> DEFINE l == f[k]
    <3>1. k \in Nat /\ k < n /\ l \in Nat /\ l < n /\ l \in {i, j}
      BY <1>2, <1>4, <2>4
    <3>2. /\ l \in b.insertions => l \in DOMAIN b.mapping
          /\ c.mapping[k] = IF l \in b.insertions THEN b.mapping[l] ELSE l
      BY <1>9, <2>4
    <3>3. k \in c.insertions
      BY <1>9, <2>4, <3>1
    <3>4. a[k + 1] = new[l + 1]
      BY <1>6, <3>1
    <3> HIDE DEF l
    <3>5. CASE l \in b.insertions
      <4>1. l \in DOMAIN b.mapping /\ c.mapping[k] = b.mapping[l]
        BY <3>2, <3>5
      <4> QED  BY <1>5, <2>1, <2>2, <3>1, <3>3, <3>4, <4>1 DEF TrueMove
    <3>6. CASE l \notin b.insertions
      <4>1. c.mapping[k] = l
        BY <3>2, <3>6
      <4>2. l < Len(old) /\ old[l + 1] = new[l + 1]
        BY <1>11, <3>1, <3>6
      <4>3. l \in c.deletions
        BY <1>9, <3>1, <3>6
      <4> QED  BY <1>5, <3>1, <3>3, <3>4, <4>1, <4>2, <4>3 DEF TrueMove
    <3> QED  BY <3>5, <3>6
  <2> QED  BY <2>3, <2>4
<1>14. DistinctMoves(c)
  BY <1>7 DEF DistinctMoves
<1>15. Marks(c, a, set)
  <2> SUFFICES ASSUME NEW x \in Nat, x < n, x \in c.insertions => MovedTo(c, x)
               PROVE  x \in c.modifications <=> a[x + 1] \in set
    BY <1>5 DEF Marks
  <2>1. MovedTo(c, x) <=> x \in DOMAIN c.mapping
    BY <1>7 DEF MovedTo
  <2> DEFINE y == f[x]
  <2>2. y \in Nat /\ y < n
    BY <1>4
  <2>3. y \in b.insertions => MovedTo(b, y)
    <3>1. CASE x \in {i, j}
      BY <1>9, <2>1, <3>1 DEF MovedTo
    <3>2. CASE x \notin {i, j}
      BY <1>4, <1>9, <2>1, <3>2 DEF MovedTo
    <3> QED  BY <3>1, <3>2
  <2>4. y \in b.modifications <=> new[y + 1] \in set
    BY <1>1, <2>2, <2>3 DEF Marks, n
  <2> QED  BY <1>6, <1>9, <2>4
<1> QED  BY <1>7, <1>10, <1>12, <1>13, <1>14, <1>15 DEF OnTable, Sound, a, c

-----------------------------------------------------------------------------
(* A table that is only linked to: nothing but the modifications is kept.     *)

OnLinked(b, new, set) ==
  /\ Sound(b, <<>>, new, set)
  /\ DOMAIN b.moves = {} /\ DOMAIN b.mapping = {} /\ b.insertions = {}

\* Changes with other modifications only.
LEMMA LinkedSound ==
  ASSUME NEW b, NEW new, NEW set, OnLinked(b, new, set), NEW M \in Indices,
         NEW a, Len(a) \in Nat, NEW set2,
         \A x \in M : x < Len(a),
         \A x \in Nat : x < Len(a) => (x \in M <=> a[x + 1] \in set2)
  PROVE  OnLinked([b EXCEPT !.modifications = M], a, set2)
<1> DEFINE c == [b EXCEPT !.modifications = M]
<1>1. /\ IsBuilder(b) /\ DOMAIN b.moves = {} /\ DOMAIN b.mapping = {} /\ b.insertions = {}
  BY DEF OnLinked, Sound
<1>2. /\ c = [deletions |-> c.deletions, insertions |-> c.insertions,
              modifications |-> c.modifications, moves |-> c.moves, mapping |-> c.mapping]
      /\ c.deletions = b.deletions /\ c.insertions = b.insertions /\ c.modifications = M
      /\ c.moves = b.moves /\ c.mapping = b.mapping
  <2>1. /\ b = [deletions |-> b.deletions, insertions |-> b.insertions,
                modifications |-> b.modifications, moves |-> b.moves, mapping |-> b.mapping]
    BY <1>1 DEF IsBuilder
  <2>2. c = [deletions |-> b.deletions, insertions |-> b.insertions, modifications |-> M,
             moves |-> b.moves, mapping |-> b.mapping]
    BY <2>1
  <2> HIDE DEF c
  <2> QED  BY <2>2
<1> HIDE DEF c
<1>3. IsBuilder(c)
  BY <1>1, <1>2 DEF IsBuilder
<1>4. Bounded(c, a)
  BY <1>1, <1>2 DEF Bounded
<1>5. TrueMoves(c, <<>>, a) /\ DistinctMoves(c) /\ Marks(c, a, set2)
  BY <1>1, <1>2 DEF TrueMoves, DistinctMoves, Marks
<1> QED  BY <1>1, <1>2, <1>3, <1>4, <1>5 DEF OnLinked, Sound, c

\* The modifications of a linked table are the rows set.
LEMMA LinkedFacts ==
  ASSUME NEW b, NEW R, NEW new \in Seq(R), NEW set, OnLinked(b, new, set)
  PROVE  /\ b.modifications \in Indices /\ Len(new) \in Nat
         /\ \A x \in b.modifications : x \in Nat /\ x < Len(new)
         /\ \A x \in Nat : x < Len(new) => (x \in b.modifications <=> new[x + 1] \in set)
<1>1. b.modifications \in Indices
  BY BuilderFields DEF OnLinked, Sound
<1>2. \A x \in b.modifications : x \in Nat /\ x < Len(new)
  BY <1>1 DEF OnLinked, Sound, Bounded, Indices
<1>3. \A x \in Nat : x < Len(new) => (x \in b.modifications <=> new[x + 1] \in set)
  BY DEF OnLinked, Sound, Marks
<1> QED  BY <1>1, <1>2, <1>3, SeqLen

IsInserted(a, s, i, e) ==
  /\ Len(a) = Len(s) + 1
  /\ \A x \in 0 .. Len(s) : a[x + 1] = IF x < i THEN s[x + 1] ELSE IF x = i THEN e ELSE s[x]

\* InsertAtSeq as one fact.
LEMMA InsertIs ==
  ASSUME NEW R, NEW s \in Seq(R), NEW i \in 0 .. Len(s), NEW e \in R
  PROVE  IsInserted(InsertAt(s, i + 1, e), s, i, e)
<1>1. /\ Len(InsertAt(s, i + 1, e)) = Len(s) + 1
      /\ \A x \in 0 .. Len(s) : InsertAt(s, i + 1, e)[x + 1] =
            IF x < i THEN s[x + 1] ELSE IF x = i THEN e ELSE s[x]
  BY InsertAtSeq
<1> QED  BY <1>1, Zenon DEF IsInserted

\* A row added at the end.
LEMMA InsertedLast ==
  ASSUME NEW R, NEW new \in Seq(R), NEW e \in R
  PROVE  IsInserted(InsertAt(new, Len(new) + 1, e), new, Len(new), e)
<1>1. PICK i : i = Len(new)
  OBVIOUS
<1>2. i \in 0 .. Len(new)
  BY <1>1, SeqLen
<1>3. IsInserted(InsertAt(new, i + 1, e), new, i, e)
  BY <1>2, InsertIs
<1> QED  BY <1>1, <1>3, Zenon

\* A row is added to a linked table.
LEMMA InsertedOnLinked ==
  ASSUME NEW R, NEW new \in Seq(R), NEW set, NEW b, OnLinked(b, new, set), ~Track,
         NEW e \in R, e \notin set
  PROVE  OnLinked(Inserted(b, Len(new), 1), InsertAt(new, Len(new) + 1, e), set)
<1> DEFINE i == Len(new)
           M == ShiftForInsertAt(b.modifications, i, 1)
           a == InsertAt(new, i + 1, e)
<1>1. /\ b.modifications \in Indices /\ i \in Nat
      /\ \A x \in b.modifications : x \in Nat /\ x < i
      /\ \A x \in Nat : x < i => (x \in b.modifications <=> new[x + 1] \in set)
  BY LinkedFacts
<1>2. Inserted(b, i, 1) = [b EXCEPT !.modifications = M]
  BY DEF Inserted
<1>3. M \in Indices /\ \A x \in Nat : x \in M <=> x \in b.modifications
  <2>1. M \in Indices /\ \A x \in Nat : x \in M <=> (x < i /\ x \in b.modifications)
                                           \/ (x > i /\ x - 1 \in b.modifications)
    BY <1>1, InsertMember
  <2> HIDE DEF M
  <2>2. \A x \in Nat : (x < i /\ x \in b.modifications) \/ (x > i /\ x - 1 \in b.modifications)
                         <=> x \in b.modifications
    BY <1>1
  <2> QED  BY <2>1, <2>2
<1>4. /\ Len(a) = i + 1
      /\ \A x \in 0 .. i : a[x + 1] = IF x < i THEN new[x + 1] ELSE IF x = i THEN e ELSE new[x]
  <2>1. IsInserted(a, new, i, e)
    BY InsertedLast
  <2> HIDE DEF a
  <2> QED  BY <2>1 DEF IsInserted
<1> HIDE DEF a, M, i
<1>5. Len(a) \in Nat /\ \A x \in M : x < Len(a)
  <2>1. i \in Nat /\ Len(a) = i + 1
    BY <1>1, <1>4
  <2>2. \A x \in M : x \in Nat
    BY <1>3 DEF Indices
  <2>3. \A x \in M : x < i
    BY <1>1, <1>3, <2>2
  <2> QED  BY <2>1, <2>2, <2>3
<1>6. ASSUME NEW x \in Nat, x < Len(a) PROVE x \in M <=> a[x + 1] \in set
  <2>1. x \in 0 .. i
    BY <1>1, <1>4, <1>6
  <2>2. CASE x < i
    BY <1>1, <1>3, <1>4, <2>1, <2>2
  <2>3. CASE x = i
    BY <1>1, <1>3, <1>4, <2>1, <2>3
  <2> QED  BY <1>1, <2>1, <2>2, <2>3
<1>7. OnLinked([b EXCEPT !.modifications = M], a, set)
  BY <1>3, <1>5, <1>6, LinkedSound
<1> QED  BY <1>2, <1>7 DEF i, a

\* The last row of a linked table takes the place of row i.
LEMMA MovedOverOnLinked ==
  ASSUME NEW R, NEW new \in Seq(R), NEW set, NEW b, OnLinked(b, new, set), ~Track,
         NEW i \in Nat, i < Len(new)
  PROVE  OnLinked(MovedOver(b, i, Len(new) - 1), Front([new EXCEPT ![i + 1] = Last(new)]), set)
<1> DEFINE last == Len(new) - 1
           a == Front([new EXCEPT ![i + 1] = Last(new)])
           M == IF i = last THEN b.modifications \ {i}
                ELSE (b.modifications \ {i, last})
                     \cup (IF last \in b.modifications THEN {i} ELSE {})
<1>1. /\ b.modifications \in Indices /\ Len(new) \in Nat
      /\ \A x \in b.modifications : x \in Nat /\ x < Len(new)
      /\ \A x \in Nat : x < Len(new) => (x \in b.modifications <=> new[x + 1] \in set)
  BY LinkedFacts
<1>2. last \in Nat /\ Len(new) = last + 1 /\ i <= last
  BY <1>1
<1>3. MovedOver(b, i, last) = [b EXCEPT !.modifications = M]
  <2>1. CASE i = last
    BY <2>1 DEF MovedOver
  <2>2. CASE i # last
    BY <2>2 DEF MovedOver
  <2> QED  BY <2>1, <2>2
<1>4. M \in Indices
  <2>1. b.modifications \ {i} \in Indices
    BY <1>1, AddMember
  <2>2. (b.modifications \ {i}) \ {last} \in Indices
    BY <1>2, <2>1, AddMember
  <2>3. ((b.modifications \ {i}) \ {last}) \cup {i} \in Indices
    BY <2>2, AddMember
  <2>4. b.modifications \ {i, last} = (b.modifications \ {i}) \ {last}
    OBVIOUS
  <2>5. (b.modifications \ {i, last}) \cup {} = b.modifications \ {i, last}
    OBVIOUS
  <2>6. CASE i = last
    BY <2>1, <2>6
  <2>7. CASE i # last /\ last \in b.modifications
    BY <2>3, <2>4, <2>7
  <2>8. CASE i # last /\ last \notin b.modifications
    BY <2>2, <2>4, <2>5, <2>8
  <2> QED  BY <2>6, <2>7, <2>8
<1>5. \A x \in Nat : x \in M <=> x < last /\ IF x = i THEN last \in b.modifications
                                              ELSE x \in b.modifications
  <2> HIDE DEF last
  <2>0. \A x \in b.modifications : x \in Nat /\ x < last + 1
    BY <1>1, <1>2
  <2>1. CASE i = last
    BY <2>0, <1>1, <1>2, <2>1
  <2>2. CASE i # last /\ last \in b.modifications
    <3>1. M = (b.modifications \ {i, last}) \cup {i}
      BY <2>2
    <3> HIDE DEF M
    <3> QED  BY <2>0, <1>2, <2>2, <3>1
  <2>3. CASE i # last /\ last \notin b.modifications
    <3>1. M = b.modifications \ {i, last}
      BY <2>3
    <3>2. ASSUME NEW x \in Nat
          PROVE  x \in b.modifications \ {i, last} <=> x < last /\ x # i /\ x \in b.modifications
      BY <2>0, <1>2
    <3> HIDE DEF M
    <3> QED  BY <2>3, <3>1, <3>2
  <2> QED  BY <2>1, <2>2, <2>3
<1>6. /\ Len(a) = last
      /\ \A x \in Nat : x < last => a[x + 1] = IF x = i THEN new[last + 1] ELSE new[x + 1]
  <2>1. /\ Len(a) = Len(new) - 1
        /\ \A x \in Nat : x < Len(new) - 1 =>
              a[x + 1] = IF x = i THEN new[Len(new)] ELSE new[x + 1]
    BY LastOverRows
  <2>2. Len(new) - 1 = last /\ Len(new) = last + 1
    BY <1>2
  <2> HIDE DEF last, a
  <2>3. /\ Len(a) = last
        /\ \A x \in Nat : x < last => a[x + 1] = IF x = i THEN new[Len(new)] ELSE new[x + 1]
    BY <2>1, <2>2
  <2> QED  BY <2>2, <2>3
<1> HIDE DEF a, M, last
<1>7. Len(a) \in Nat /\ \A x \in M : x < Len(a)
  BY <1>2, <1>4, <1>5, <1>6 DEF Indices
<1>8. ASSUME NEW x \in Nat, x < Len(a) PROVE x \in M <=> a[x + 1] \in set
  <2>1. last < Len(new) /\ x < Len(new)
    BY <1>2, <1>6, <1>8
  <2> QED  BY <1>1, <1>2, <1>5, <1>6, <1>8, <2>1
<1>9. OnLinked([b EXCEPT !.modifications = M], a, set)
  BY <1>4, <1>7, <1>8, LinkedSound
<1> QED  BY <1>3, <1>9 DEF last, a

-----------------------------------------------------------------------------
(* A table's log ends: its mapping becomes moves, in the order of their       *)
(* sources.                                                                   *)

\* From one index to the next, count() goes on by one at a member.
LEMMA BelowMember ==
  ASSUME NEW S \in Indices, NEW x \in S
  PROVE  /\ Below(S, x) < Cardinality(S)
         /\ \A y \in S : Below(S, y) = Below(S, x) => y = x
<1>1. S \subseteq Nat /\ IsFiniteSet(S) /\ Cardinality(S) \in Nat
  BY IndicesFinite, FS_CardinalityType
<1>2. ASSUME NEW T, NEW U, IsFiniteSet(U), T \subseteq U, NEW e \in U, e \notin T
      PROVE  Cardinality(T) < Cardinality(U)
  <2>1. /\ IsFiniteSet(T) /\ Cardinality(T) <= Cardinality(U)
        /\ Cardinality(U) = Cardinality(T) => U = T
    BY <1>2, FS_Subset
  <2>2. Cardinality(T) \in Nat /\ Cardinality(U) \in Nat
    BY <1>2, <2>1, FS_CardinalityType
  <2> QED  BY <1>2, <2>1, <2>2
<1>3. ASSUME NEW y \in Nat PROVE {j \in S : j < y} \subseteq S /\ IsFiniteSet({j \in S : j < y})
  BY <1>1, FS_Subset
<1>4. Below(S, x) < Cardinality(S)
  <2>1. x \notin {j \in S : j < x}
    BY <1>1
  <2> QED  BY <1>1, <1>2, <1>3, <2>1 DEF Below
<1>5. ASSUME NEW y \in S, NEW z \in S, y < z PROVE Below(S, y) < Below(S, z)
  <2>1. y \in {j \in S : j < z} /\ y \notin {j \in S : j < y}
    BY <1>1, <1>5
  <2>2. {j \in S : j < y} \subseteq {j \in S : j < z}
    <3>1. \A j \in S : j < y => j < z
      BY <1>1, <1>5
    <3> QED  BY <3>1
  <2>3. IsFiniteSet({j \in S : j < z})
    BY <1>1, <1>3
  <2> QED  BY <1>2, <2>1, <2>2, <2>3 DEF Below
<1>6. \A y \in S : Below(S, y) \in Nat
  BY <1>1, BelowType
<1>7. ASSUME NEW y \in S, Below(S, y) = Below(S, x) PROVE y = x
  <2>1. ~(y < x) /\ ~(x < y)
    BY <1>5, <1>6, <1>7
  <2> QED  BY <1>1, <2>1
<1> QED  BY <1>4, <1>7

\* Every index below a set's size counts the elements before one of them.
LEMMA BelowReaches ==
  ASSUME NEW S \in Indices, NEW k \in Nat, k < Cardinality(S)
  PROVE  \E x \in S : Below(S, x) = k
<1>1. PICK n \in Nat : \A x \in S : x <= n
  BY DEF Indices
<1> DEFINE T == {x \in 0 .. n + 1 : Below(S, x) <= k}
<1>2. S \subseteq Nat /\ Cardinality(S) \in Nat
  BY IndicesFinite, FS_CardinalityType
<1>3. Below(S, 0) = 0 /\ \A x \in Nat : Below(S, x) \in Nat
  BY BelowType
<1>4. Below(S, n + 1) = Cardinality(S)
  <2>1. \A j \in S : j < n + 1
    BY <1>1, <1>2
  <2>2. {i \in S : i < n + 1} = S
    BY <2>1
  <2> QED  BY <2>2 DEF Below
<1>5. T \in SUBSET (0 .. n + 1) /\ 0 \in T /\ n + 1 \notin T
  BY <1>2, <1>3, <1>4
<1>6. \E x \in T : \A y \in T : y <= x
  <2> HIDE DEF T
  <2>1. n + 1 \in Nat /\ T # {}
    BY <1>5
  <2> QED  BY <1>5, <2>1, GreatestNat
<1>7. PICK x \in T : \A y \in T : y <= x
  BY <1>6
<1>8. x \in Nat /\ x + 1 \in 0 .. n + 1 /\ x + 1 \notin T
  BY <1>5, <1>7
<1>9. Below(S, x) <= k /\ k < Below(S, x + 1)
  BY <1>3, <1>7, <1>8
<1>10. Unshift(S, x + 1) = IF x \in S THEN Unshift(S, x) ELSE Unshift(S, x) + 1
  BY <1>8, UnshiftStep
<1>11. Below(S, x) \in Nat /\ Below(S, x + 1) \in Nat
  BY <1>3, <1>8
<1>12. x \in S
  BY <1>8, <1>9, <1>10, <1>11 DEF Unshift
<1>13. Below(S, x + 1) = Below(S, x) + 1
  BY <1>8, <1>10, <1>11, <1>12 DEF Unshift
<1> QED  BY <1>9, <1>11, <1>12, <1>13

\* The moves sorted by their sources are the moves, each of them once.
LEMMA ByFromFacts ==
  ASSUME NEW S \in SUBSET Move, {m.from : m \in S} \in Indices,
         \A m, n \in S : m.from = n.from => m = n
  PROVE  /\ ByFrom(S) \in Seq(Move)
         /\ \A k \in DOMAIN ByFrom(S) : ByFrom(S)[k] \in S
         /\ \A m \in S : \E k \in DOMAIN ByFrom(S) : ByFrom(S)[k] = m
         /\ \A k, l \in DOMAIN ByFrom(S) : ByFrom(S)[k].from = ByFrom(S)[l].from => k = l
<1> DEFINE F == {m.from : m \in S}
           N == Cardinality(F)
           at(n) == CHOOSE m \in S : Below(F, m.from) = n - 1
           s == [n \in 1 .. N |-> at(n)]
<1>1. ByFrom(S) = s
  BY DEF ByFrom
<1>2. F \in Indices /\ N \in Nat /\ \A m \in S : m.from \in F
  <2>1. F \in Indices /\ \A m \in S : m.from \in F
    OBVIOUS
  <2> HIDE DEF F
  <2> QED  BY <2>1, IndicesFinite, FS_CardinalityType
<1>3. \A x \in F : \E m \in S : m.from = x
  OBVIOUS
<1>4. F \subseteq Nat
  BY <1>2, IndicesFinite
<1> HIDE DEF F
<1>5. ASSUME NEW n \in 1 .. N PROVE at(n) \in S /\ Below(F, at(n).from) = n - 1
  <2>1. n - 1 \in Nat /\ n - 1 < Cardinality(F)
    BY <1>2
  <2>2. \E x \in F : Below(F, x) = n - 1
    BY <1>2, <2>1, BelowReaches
  <2>3. \E m \in S : Below(F, m.from) = n - 1
    BY <1>3, <2>2
  <2> QED  BY <2>3
<1>6. \A n \in 1 .. N : s[n] \in S /\ Below(F, s[n].from) = n - 1
  BY <1>5
<1>7. s \in [1 .. N -> Move]
  BY <1>5
<1>8. s \in Seq(Move) /\ DOMAIN s = 1 .. N
  BY <1>2, <1>7, FunctionIsSeq
<1> HIDE DEF s
<1>9. ASSUME NEW m \in S PROVE \E k \in DOMAIN s : s[k] = m
  <2> DEFINE k == Below(F, m.from) + 1
  <2>1. m.from \in F
    BY <1>2
  <2>2. Below(F, m.from) < N
    BY <1>2, <2>1, BelowMember
  <2>3. Below(F, m.from) \in Nat
    <3>1. m.from \in Nat
      BY <1>4, <2>1
    <3> QED  BY <1>2, <3>1, BelowType
  <2>4. k \in 1 .. N /\ k - 1 = Below(F, m.from)
    BY <1>2, <2>2, <2>3
  <2> HIDE DEF k
  <2>5. s[k] \in S /\ Below(F, s[k].from) = Below(F, m.from)
    BY <1>6, <2>4
  <2>6. s[k].from = m.from
    BY <1>2, <2>1, <2>5, BelowMember
  <2>7. s[k] = m
    BY <2>5, <2>6
  <2> QED  BY <1>8, <2>4, <2>7
<1>10. ASSUME NEW k \in DOMAIN s, NEW l \in DOMAIN s, s[k].from = s[l].from PROVE k = l
  <2>1. k - 1 = l - 1 /\ k \in 1 .. N /\ l \in 1 .. N
    BY <1>6, <1>8, <1>10
  <2> QED  BY <1>2, <2>1
<1>11. \A k \in DOMAIN s : s[k] \in S
  BY <1>6, <1>8
<1> QED  BY <1>1, <1>8, <1>9, <1>10, <1>11

\* parse_complete() makes good changes of a table's.
LEMMA ParsedGood ==
  ASSUME NEW R, NEW old \in Seq(R), NEW new \in Seq(R), NEW set, NEW b, OnTable(b, old, new, set),
         \A k, l \in DOMAIN new : new[k] = new[l] => k = l
  PROVE  Good(ParseComplete(b), old, new, set)
<1> DEFINE map == b.mapping
           stay == {k \in DOMAIN map : map[k] = k}
           moved == {[from |-> map[k], to |-> k] : k \in DOMAIN map \ stay}
           moves == ByFrom(moved)
           D == b.deletions \ stay
           I == b.insertions \ stay
           c == ParseComplete(b)
<1>1. /\ IsBuilder(b) /\ Bounded(b, new) /\ TrueMoves(b, old, new)
      /\ Marks(b, new, set) /\ DOMAIN b.moves = {}
      /\ Tables(b.deletions, b.insertions, old, new)
  BY DEF OnTable, Sound
<1>2. /\ b.deletions \in Indices /\ b.insertions \in Indices /\ b.modifications \in Indices
  BY <1>1, BuilderFields
<1>3. Len(new) \in Nat /\ DOMAIN new = 1 .. Len(new)
  BY SeqLen
<1>4. ASSUME NEW k \in DOMAIN map
      PROVE  /\ k \in Nat /\ k \in b.insertions /\ k < Len(new)
             /\ map[k] \in Nat /\ map[k] \in b.deletions /\ map[k] < Len(old)
             /\ old[map[k] + 1] = new[k + 1]
  <2> DEFINE m == [from |-> map[k], to |-> k]
  <2>1. TrueMove(b, old, new, m) /\ m.from = map[k] /\ m.to = k
    BY <1>1 DEF TrueMoves
  <2> HIDE DEF m, map
  <2>2. /\ k \in b.insertions /\ k < Len(new)
        /\ map[k] \in b.deletions /\ map[k] < Len(old) /\ old[map[k] + 1] = new[k + 1]
    BY <2>1 DEF TrueMove
  <2> QED  BY <1>2, <2>2 DEF Indices
<1>5. ASSUME NEW k \in DOMAIN map, NEW l \in DOMAIN map, map[k] = map[l] PROVE k = l
  <2>1. k \in Nat /\ k < Len(new) /\ l \in Nat /\ l < Len(new) /\ new[k + 1] = new[l + 1]
    BY <1>4, <1>5
  <2>2. k + 1 \in DOMAIN new /\ l + 1 \in DOMAIN new
    BY <1>3, <2>1
  <2>3. k + 1 = l + 1
    BY <2>1, <2>2
  <2> QED  BY <2>1, <2>3
<1>6. ASSUME NEW m, m \in moved
      PROVE  /\ m.to \in DOMAIN map \ stay /\ m.from = map[m.to] /\ m \in Move
  <2>1. PICK k \in DOMAIN map \ stay : m = [from |-> map[k], to |-> k]
    BY <1>6
  <2>2. k \in Nat /\ map[k] \in Nat
    BY <1>4
  <2> HIDE DEF map, stay
  <2> QED  BY <2>1, <2>2 DEF Move
<1>7. \A k \in DOMAIN map \ stay : \E m \in moved : m.to = k
  <2>1. \A k : [from |-> map[k], to |-> k].to = k
    OBVIOUS
  <2>2. \A k \in DOMAIN map \ stay : [from |-> map[k], to |-> k] \in moved
    OBVIOUS
  <2> HIDE DEF map, stay, moved
  <2> QED  BY <2>1, <2>2
<1>8. \A k : k \in stay <=> k \in DOMAIN map /\ map[k] = k
  OBVIOUS
<1>9. /\ moves \in Seq(Move)
      /\ \A k \in DOMAIN moves : moves[k] \in moved
      /\ \A m \in moved : \E k \in DOMAIN moves : moves[k] = m
      /\ \A k, l \in DOMAIN moves : moves[k].from = moves[l].from => k = l
  <2> HIDE DEF moved, map, stay
  <2>1. moved \in SUBSET Move
    BY <1>6
  <2>2. {m.from : m \in moved} \in Indices
    <3>1. PICK n \in Nat : \A x \in b.deletions : x <= n
      BY <1>2 DEF Indices
    <3>2. \A m \in moved : m.from \in Nat /\ m.from <= n
      BY <1>4, <1>6, <3>1
    <3>3. \A x \in {m.from : m \in moved} : x \in Nat /\ x <= n
      BY <3>2
    <3> QED  BY <3>1, <3>3 DEF Indices
  <2>3. \A m, n \in moved : m.from = n.from => m = n
    <3> SUFFICES ASSUME NEW m \in moved, NEW n \in moved, m.from = n.from PROVE m = n
      OBVIOUS
    <3>1. m.to = n.to
      BY <1>5, <1>6
    <3>2. m \in Move /\ n \in Move
      BY <1>6
    <3> QED  BY <3>1, <3>2 DEF Move
  <2> QED  BY <2>1, <2>2, <2>3, ByFromFacts
<1>10. /\ c.deletions = D /\ c.insertions = I /\ c.modifications = b.modifications
       /\ c.moves = moves /\ c.mapping = <<>>
       /\ c = [deletions |-> D, insertions |-> I, modifications |-> b.modifications,
               moves |-> moves, mapping |-> <<>>]
  <2>1. ToSet(b.moves) \cup moved = moved
    <3> HIDE DEF moved
    <3> QED  BY <1>1 DEF ToSet
  <2>2. c = [b EXCEPT !.deletions = @ \ stay, !.insertions = @ \ stay, !.mapping = <<>>,
                      !.moves = ByFrom(ToSet(@) \cup moved)]
    BY DEF ParseComplete
  <2>3. c = [b EXCEPT !.deletions = D, !.insertions = I, !.mapping = <<>>, !.moves = moves]
    <3> HIDE DEF c, moved, stay
    <3> QED  BY <1>1, <2>1, <2>2 DEF IsBuilder
  <2> HIDE DEF c, D, I, moves
  <2> QED  BY <1>1, <2>3 DEF IsBuilder
<1> HIDE DEF c, moves
<1>11. D \in Indices /\ I \in Indices
  BY <1>2 DEF Indices
<1>12. IsBuilder(c)
  <2> HIDE DEF D, I
  <2> QED  BY <1>2, <1>9, <1>10, <1>11 DEF IsBuilder
<1>13. Bounded(c, new)
  BY <1>1, <1>10 DEF Bounded
<1>14. DistinctMoves(c)
  <2> HIDE DEF moved
  <2> QED  BY <1>9, <1>10 DEF DistinctMoves
<1>15. TrueMoves(c, old, new)
  <2> HIDE DEF moved, map, stay
  <2>1. ASSUME NEW k \in DOMAIN moves PROVE TrueMove(c, old, new, moves[k])
    <3> DEFINE m == moves[k]
    <3>1. m.to \in DOMAIN map /\ m.to \notin stay /\ m.from = map[m.to]
      BY <1>6, <1>9
    <3>2. /\ m.to \in Nat /\ m.to \in b.insertions /\ m.to < Len(new)
          /\ m.from \in b.deletions /\ m.from < Len(old) /\ old[m.from + 1] = new[m.to + 1]
      BY <1>4, <3>1
    <3>3. m.from \notin stay
      BY <1>5, <1>8, <3>1
    <3> HIDE DEF m
    <3> QED  BY <1>10, <3>1, <3>2, <3>3 DEF TrueMove, m
  <2>2. DOMAIN c.mapping = {} /\ c.moves = moves
    BY <1>10
  <2> QED  BY <2>1, <2>2 DEF TrueMoves
<1>16. Marks(c, new, set)
  <2> SUFFICES ASSUME NEW x \in Nat, x < Len(new), x \in c.insertions => MovedTo(c, x)
               PROVE  x \in b.modifications <=> new[x + 1] \in set
    BY <1>10 DEF Marks
  <2> HIDE DEF moved, map, stay
  <2>1. x \in I => x \in DOMAIN map
    <3>1. ASSUME x \in I PROVE \E k \in DOMAIN moves : moves[k].to = x
      BY <1>10, <3>1 DEF MovedTo
    <3> QED  BY <1>6, <1>9, <3>1
  <2>2. x \in b.insertions => x \in DOMAIN map
    BY <1>8, <2>1
  <2> QED  BY <1>1, <2>2 DEF Marks, MovedTo, map
<1>17. Tables(D, I, old, new)
  <2> HIDE DEF map, stay
  <2>1. \A x : x \in stay => /\ x \in b.deletions /\ x \in b.insertions
                             /\ x < Len(old) /\ x < Len(new) /\ old[x + 1] = new[x + 1]
    BY <1>4, <1>8
  <2> QED  BY <1>1, <2>1 DEF Tables
<1>18. Pairs(D, I, old, new)
  BY <1>11, <1>17, TablesPairs
<1> QED  BY <1>10, <1>12, <1>13, <1>14, <1>15, <1>16, <1>18 DEF Good, Sound, c

-----------------------------------------------------------------------------
(* Stale moves are dropped one after the other.                               *)

CleanStep(acc, m) ==
  IF Unshift(acc.deletions, m.from) # Unshift(acc.insertions, m.to)
  THEN [acc EXCEPT !.moves = Append(@, m)]
  ELSE [acc EXCEPT !.deletions = @ \ {m.from}, !.insertions = @ \ {m.to}]
CleanBody(g, b, k) ==
  IF k = 0 THEN [b EXCEPT !.moves = <<>>] ELSE CleanStep(g[k - 1], b.moves[k])
Cleans(g, b, n) == g = [k \in 0 .. n |-> g[k]] /\ \A k \in 0 .. n : g[k] = CleanBody(g, b, k)

\* The recursive function of clean_up_stale_moves exists one index further ...
LEMMA CleanExtend ==
  ASSUME NEW b, NEW m \in Nat \ {0}, NEW g, Cleans(g, b, m - 1)
  PROVE  \E h : Cleans(h, b, m)
<1> DEFINE last == CleanBody(g, b, m)
           h == [k \in 0 .. m |-> IF k = m THEN last ELSE g[k]]
<1>1. \A k \in 0 .. m - 1 : g[k] = CleanBody(g, b, k)
  BY DEF Cleans
<1> HIDE DEF last
<1>2. h = [k \in 0 .. m |-> h[k]]
  OBVIOUS
<1>3. \A k \in 0 .. m : h[k] = IF k = m THEN last ELSE g[k]
  OBVIOUS
<1> HIDE DEF h
<1>4. ASSUME NEW k \in 0 .. m PROVE h[k] = CleanBody(h, b, k)
  <2>1. CASE k = 0
    <3>1. h[k] = g[0] /\ g[0] = CleanBody(g, b, 0)
      BY <1>1, <1>3, <2>1
    <3> QED  BY <2>1, <3>1 DEF CleanBody
  <2>2. CASE k # 0 /\ k = m
    <3>1. h[k] = last /\ h[k - 1] = g[k - 1]
      BY <1>3, <2>2
    <3> QED  BY <2>2, <3>1 DEF CleanBody, last
  <2>3. CASE k # 0 /\ k # m
    <3>1. h[k] = g[k] /\ h[k - 1] = g[k - 1] /\ g[k] = CleanBody(g, b, k)
      BY <1>1, <1>3, <2>3
    <3> QED  BY <2>3, <3>1 DEF CleanBody
  <2> QED  BY <2>1, <2>2, <2>3
<1> QED  BY <1>2, <1>4 DEF Cleans

\* ... so it exists, and the operator is its value after the last move.
LEMMA CleanSolution ==
  ASSUME NEW b, Len(b.moves) \in Nat
  PROVE  \E g : Cleans(g, b, Len(b.moves)) /\ CleanUpStaleMoves(b) = g[Len(b.moves)]
<1> DEFINE n == Len(b.moves)
           T == {m \in 0 .. n : \E g : Cleans(g, b, m)}
           Rec(g) == g = [k \in 0 .. n |-> IF k = 0 THEN [b EXCEPT !.moves = <<>>]
                                           ELSE CleanStep(g[k - 1], b.moves[k])]
           clean == CHOOSE g : Rec(g)
<1>1. 0 .. n \subseteq T
  <2>1. 0 \in T
    <3> DEFINE g == [k \in 0 .. 0 |-> [b EXCEPT !.moves = <<>>]]
    <3>1. g = [k \in 0 .. 0 |-> g[k]] /\ \A k \in 0 .. 0 : g[k] = [b EXCEPT !.moves = <<>>]
      OBVIOUS
    <3> HIDE DEF g
    <3>2. Cleans(g, b, 0)
      BY <3>1 DEF Cleans, CleanBody
    <3> QED  BY <3>2
  <2>2. ASSUME NEW m \in 1 .. n, m - 1 \in T PROVE m \in T
    <3>1. m \in Nat \ {0} /\ m \in 0 .. n
      OBVIOUS
    <3>2. PICK g : Cleans(g, b, m - 1)
      BY <2>2
    <3> QED  BY <3>1, <3>2, CleanExtend
  <2> HIDE DEF T
  <2> QED  BY <2>1, <2>2, UpTo
<1>2. PICK g : Cleans(g, b, n)
  BY <1>1
<1>3. Rec(g)
  <2>1. g = [k \in 0 .. n |-> g[k]] /\ \A k \in 0 .. n : g[k] = CleanBody(g, b, k)
    BY <1>2 DEF Cleans
  <2> QED  BY <2>1 DEF CleanBody
<1>4. Rec(clean)
  BY <1>3
<1>5. CleanUpStaleMoves(b) = clean[n]
  BY DEF CleanUpStaleMoves, CleanStep
<1> HIDE DEF clean
<1>6. Cleans(clean, b, n)
  <2>1. clean = [k \in 0 .. n |-> clean[k]]
    BY <1>4
  <2>2. \A k \in 0 .. n : clean[k] = CleanBody(clean, b, k)
    BY <1>4 DEF CleanBody
  <2> QED  BY <2>1, <2>2 DEF Cleans
<1> QED  BY <1>5, <1>6

\* After the first k moves.
Cleaned(acc, b, old, new, k) ==
  /\ IsBuilder(acc) /\ acc.modifications = b.modifications /\ acc.mapping = b.mapping
  /\ \A x \in acc.insertions : x \in b.insertions
  /\ Pairs(acc.deletions, acc.insertions, old, new)
  /\ \A x \in b.insertions : x \in acc.insertions \/ \E p \in DOMAIN b.moves : b.moves[p].to = x
  /\ \A p \in DOMAIN b.moves : p > k => /\ b.moves[p].from \in acc.deletions
                                        /\ b.moves[p].to \in acc.insertions
  /\ \A q \in DOMAIN acc.moves :
        /\ \E p \in DOMAIN b.moves : p <= k /\ acc.moves[q] = b.moves[p]
        /\ acc.moves[q].from \in acc.deletions /\ acc.moves[q].to \in acc.insertions
  /\ DistinctMoves(acc)

\* Moves are of different rows, which is seen at both of their ends.
LEMMA MovesApart ==
  ASSUME NEW R, NEW old \in Seq(R), NEW new \in Seq(R), NEW b,
         IsBuilder(b), TrueMoves(b, old, new), DistinctMoves(b),
         \A k, l \in DOMAIN old : old[k] = old[l] => k = l
  PROVE  \A p, q \in DOMAIN b.moves : b.moves[p].to = b.moves[q].to => p = q
<1> SUFFICES ASSUME NEW p \in DOMAIN b.moves, NEW q \in DOMAIN b.moves,
                    b.moves[p].to = b.moves[q].to
             PROVE  p = q
  OBVIOUS
<1> DEFINE m == b.moves[p]
           n == b.moves[q]
<1>1. /\ m.from \in Nat /\ m.from < Len(old) /\ old[m.from + 1] = new[m.to + 1]
      /\ n.from \in Nat /\ n.from < Len(old) /\ old[n.from + 1] = new[n.to + 1]
  BY BuilderFields DEF TrueMoves, TrueMove
<1>2. m.to = n.to
  OBVIOUS
<1>3. Len(old) \in Nat /\ DOMAIN old = 1 .. Len(old)
  BY SeqLen
<1>4. m.from = n.from => p = q
  BY DEF DistinctMoves
<1> HIDE DEF m, n
<1>5. m.from + 1 \in DOMAIN old /\ n.from + 1 \in DOMAIN old
  BY <1>1, <1>3
<1>6. m.from + 1 = n.from + 1
  BY <1>1, <1>2, <1>5
<1> QED  BY <1>1, <1>4, <1>6

\* One move is kept or dropped.
LEMMA CleanedStep ==
  ASSUME NEW R, NEW old \in Seq(R), NEW new \in Seq(R), NEW b,
         IsBuilder(b), TrueMoves(b, old, new), DistinctMoves(b),
         \A k, l \in DOMAIN old : old[k] = old[l] => k = l,
         NEW k \in DOMAIN b.moves, NEW acc, Cleaned(acc, b, old, new, k - 1)
  PROVE  Cleaned(CleanStep(acc, b.moves[k]), b, old, new, k)
<1> DEFINE m == b.moves[k]
           c == CleanStep(acc, m)
<1>1. /\ IsBuilder(acc) /\ acc.modifications = b.modifications /\ acc.mapping = b.mapping
      /\ \A x \in acc.insertions : x \in b.insertions
      /\ Pairs(acc.deletions, acc.insertions, old, new)
      /\ \A x \in b.insertions :
            x \in acc.insertions \/ \E p \in DOMAIN b.moves : b.moves[p].to = x
      /\ DistinctMoves(acc)
  BY DEF Cleaned
<1>2. /\ acc.deletions \in Indices /\ acc.insertions \in Indices /\ acc.modifications \in Indices
      /\ acc.moves \in Seq(Move) /\ Len(acc.moves) \in Nat
      /\ DOMAIN acc.moves = 1 .. Len(acc.moves)
  BY <1>1, BuilderFields
<1>3. /\ m \in Move /\ m.from \in Nat /\ m.to \in Nat
      /\ k \in Nat /\ DOMAIN b.moves \subseteq Nat
      /\ m.from < Len(old) /\ m.to < Len(new) /\ old[m.from + 1] = new[m.to + 1]
  BY BuilderFields DEF TrueMoves, TrueMove
<1>4. m.from \in acc.deletions /\ m.to \in acc.insertions
  BY <1>3 DEF Cleaned
<1>5. \A p \in DOMAIN b.moves : p # k => b.moves[p].from # m.from /\ b.moves[p].to # m.to
  BY MovesApart DEF DistinctMoves
<1>6. \A p \in DOMAIN b.moves : p > k => /\ b.moves[p].from \in acc.deletions
                                         /\ b.moves[p].to \in acc.insertions
  BY <1>3 DEF Cleaned
<1>7. \A q \in DOMAIN acc.moves :
        /\ \E p \in DOMAIN b.moves : p < k /\ acc.moves[q] = b.moves[p]
        /\ acc.moves[q].from \in acc.deletions /\ acc.moves[q].to \in acc.insertions
  BY <1>3 DEF Cleaned
<1>8. \A q \in DOMAIN acc.moves : acc.moves[q].from # m.from /\ acc.moves[q].to # m.to
  <2> SUFFICES ASSUME NEW q \in DOMAIN acc.moves
               PROVE  acc.moves[q].from # m.from /\ acc.moves[q].to # m.to
    OBVIOUS
  <2>1. PICK p \in DOMAIN b.moves : p < k /\ acc.moves[q] = b.moves[p]
    BY <1>7
  <2>2. p # k
    BY <1>3, <2>1
  <2> HIDE DEF m
  <2> QED  BY <1>5, <2>1, <2>2
<1>9. CASE Unshift(acc.deletions, m.from) # Unshift(acc.insertions, m.to)
  <2> DEFINE moves == Append(acc.moves, m)
  <2>1. /\ c.deletions = acc.deletions /\ c.insertions = acc.insertions
        /\ c.modifications = acc.modifications /\ c.moves = moves /\ c.mapping = acc.mapping
        /\ c = [deletions |-> acc.deletions, insertions |-> acc.insertions,
                modifications |-> acc.modifications, moves |-> moves, mapping |-> acc.mapping]
    <3>1. c = [acc EXCEPT !.moves = moves]
      BY <1>9 DEF CleanStep
    <3> HIDE DEF c, moves, m
    <3> QED  BY <1>1, <3>1 DEF IsBuilder
  <2>2. /\ moves \in Seq(Move) /\ DOMAIN moves = 1 .. Len(acc.moves) + 1
        /\ \A q \in DOMAIN acc.moves : moves[q] = acc.moves[q]
        /\ moves[Len(acc.moves) + 1] = m
    <3> HIDE DEF m
    <3> QED  BY <1>2, <1>3, AppendProperties, SeqLen
  <2> HIDE DEF c, moves, m
  <2>3. \A q \in DOMAIN moves : q \in DOMAIN acc.moves \/ moves[q] = m
    BY <1>2, <2>2
  <2>4. IsBuilder(c)
    BY <1>2, <2>1, <2>2 DEF IsBuilder
  <2>5. DistinctMoves(c)
    <3> SUFFICES ASSUME NEW p \in DOMAIN moves, NEW q \in DOMAIN moves,
                        moves[p].from = moves[q].from
                 PROVE  p = q
      BY <2>1 DEF DistinctMoves
    <3>1. CASE p \in DOMAIN acc.moves /\ q \in DOMAIN acc.moves
      BY <1>1, <2>2, <3>1 DEF DistinctMoves
    <3>2. CASE p \notin DOMAIN acc.moves /\ q \notin DOMAIN acc.moves
      BY <1>2, <2>2, <3>2
    <3>3. CASE p \in DOMAIN acc.moves /\ q \notin DOMAIN acc.moves
      BY <1>8, <2>2, <2>3, <3>3
    <3>4. CASE p \notin DOMAIN acc.moves /\ q \in DOMAIN acc.moves
      BY <1>8, <2>2, <2>3, <3>4
    <3> QED  BY <3>1, <3>2, <3>3, <3>4
  <2>6. ASSUME NEW q \in DOMAIN c.moves
        PROVE  /\ \E p \in DOMAIN b.moves : p <= k /\ c.moves[q] = b.moves[p]
               /\ c.moves[q].from \in c.deletions /\ c.moves[q].to \in c.insertions
    <3>1. CASE q \in DOMAIN acc.moves
      <4>1. \A p \in DOMAIN b.moves : p < k => p <= k
        BY <1>3
      <4> QED  BY <1>7, <2>1, <2>2, <3>1, <4>1
    <3>2. CASE moves[q] = m
      <4>1. k <= k /\ k \in DOMAIN b.moves
        BY <1>3, SMTT(30)
      <4> QED  BY <1>4, <2>1, <3>2, <4>1 DEF m
    <3> QED  BY <2>1, <2>3, <3>1, <3>2
  <2> QED  BY <1>1, <1>6, <2>1, <2>4, <2>5, <2>6 DEF Cleaned, c, m
<1>10. CASE Unshift(acc.deletions, m.from) = Unshift(acc.insertions, m.to)
  <2> DEFINE D == acc.deletions \ {m.from}
             I == acc.insertions \ {m.to}
  <2>1. /\ c.deletions = D /\ c.insertions = I
        /\ c.modifications = acc.modifications /\ c.moves = acc.moves /\ c.mapping = acc.mapping
        /\ c = [deletions |-> D, insertions |-> I, modifications |-> acc.modifications,
                moves |-> acc.moves, mapping |-> acc.mapping]
    <3>1. c = [acc EXCEPT !.deletions = D, !.insertions = I]
      BY <1>10 DEF CleanStep
    <3> HIDE DEF c, D, I
    <3> QED  BY <1>1, <3>1 DEF IsBuilder
  <2>2. D \in Indices /\ I \in Indices
    BY <1>2, <1>3, AddMember
  <2>3. Pairs(D, I, old, new)
    <3>1. new[m.to + 1] = old[m.from + 1]
      BY <1>3
    <3> HIDE DEF m
    <3> QED  BY <1>1, <1>2, <1>3, <1>4, <1>10, <3>1, PairsFewer
  <2> HIDE DEF c
  <2>4. IsBuilder(c)
    <3> HIDE DEF D, I
    <3> QED  BY <1>2, <2>1, <2>2 DEF IsBuilder
  <2>5. DistinctMoves(c)
    BY <1>1, <2>1 DEF DistinctMoves
  <2>6. \A x \in c.insertions : x \in b.insertions
    BY <1>1, <2>1
  <2>7. \A x \in b.insertions :
            x \in c.insertions \/ \E p \in DOMAIN b.moves : b.moves[p].to = x
    BY <1>1, <2>1
  <2>8. \A p \in DOMAIN b.moves : p > k => /\ b.moves[p].from \in c.deletions
                                           /\ b.moves[p].to \in c.insertions
    BY <1>3, <1>5, <1>6, <2>1, SMTT(30)
  <2>9. ASSUME NEW q \in DOMAIN c.moves
        PROVE  /\ \E p \in DOMAIN b.moves : p <= k /\ c.moves[q] = b.moves[p]
               /\ c.moves[q].from \in c.deletions /\ c.moves[q].to \in c.insertions
    <3>1. \A p \in DOMAIN b.moves : p < k => p <= k
      BY <1>3
    <3> QED  BY <1>7, <1>8, <2>1, <3>1
  <2> QED  BY <1>1, <2>1, <2>3, <2>4, <2>5, <2>6, <2>7, <2>8, <2>9 DEF Cleaned, c
<1> QED  BY <1>9, <1>10

\* clean_up_stale_moves keeps a list's changes good.
LEMMA CleanedGood ==
  ASSUME NEW R, NEW old \in Seq(R), NEW new \in Seq(R), NEW set, NEW b, Good(b, old, new, set),
         \A k, l \in DOMAIN old : old[k] = old[l] => k = l
  PROVE  Good(CleanUpStaleMoves(b), old, new, set)
<1> DEFINE n == Len(b.moves)
           T(g) == {k \in 0 .. n : Cleaned(g[k], b, old, new, k)}
<1>1. /\ IsBuilder(b) /\ Bounded(b, new) /\ TrueMoves(b, old, new) /\ DistinctMoves(b)
      /\ Marks(b, new, set) /\ DOMAIN b.mapping = {}
      /\ Pairs(b.deletions, b.insertions, old, new)
  BY DEF Good, Sound
<1>2. /\ b.deletions \in Indices /\ b.insertions \in Indices /\ b.modifications \in Indices
      /\ n \in Nat /\ DOMAIN b.moves = 1 .. n
  BY <1>1, BuilderFields
<1>3. PICK g : Cleans(g, b, n) /\ CleanUpStaleMoves(b) = g[n]
  BY <1>2, CleanSolution
<1> HIDE DEF n
<1>4. 0 \in T(g)
  <2> DEFINE c == [b EXCEPT !.moves = <<>>]
  <2>1. g[0] = c
    <3>1. \A k \in 0 .. n : g[k] = CleanBody(g, b, k)
      BY <1>3 DEF Cleans
    <3>2. g[0] = CleanBody(g, b, 0)
      BY <1>2, <3>1
    <3> QED  BY <3>2 DEF CleanBody
  <2>2. /\ c.deletions = b.deletions /\ c.insertions = b.insertions
        /\ c.modifications = b.modifications /\ c.moves = <<>> /\ c.mapping = b.mapping
        /\ c = [deletions |-> b.deletions, insertions |-> b.insertions,
                modifications |-> b.modifications, moves |-> <<>>, mapping |-> b.mapping]
    BY <1>1 DEF IsBuilder
  <2> HIDE DEF c
  <2>3. <<>> \in Seq(Move) /\ DOMAIN <<>> = {}
    OBVIOUS
  <2>4. IsBuilder(c) /\ DistinctMoves(c)
    BY <1>2, <2>2, <2>3 DEF IsBuilder, DistinctMoves
  <2>5. \A p \in DOMAIN b.moves : b.moves[p].from \in b.deletions /\ b.moves[p].to \in b.insertions
    BY <1>1 DEF TrueMoves, TrueMove
  <2>6. Cleaned(c, b, old, new, 0)
    BY <1>1, <2>2, <2>3, <2>4, <2>5 DEF Cleaned
  <2> QED  BY <1>2, <2>1, <2>6
<1>5. ASSUME NEW k \in 1 .. n, k - 1 \in T(g) PROVE k \in T(g)
  <2>1. k \in 0 .. n /\ k # 0 /\ k \in DOMAIN b.moves
    BY <1>2
  <2>2. g[k] = CleanStep(g[k - 1], b.moves[k])
    BY <1>3, <2>1 DEF Cleans, CleanBody
  <2>3. Cleaned(g[k - 1], b, old, new, k - 1)
    BY <1>5
  <2>4. Cleaned(g[k], b, old, new, k)
    BY <1>1, <2>1, <2>2, <2>3, CleanedStep
  <2> QED  BY <2>1, <2>4
<1>6. 0 .. n \subseteq T(g)
  <2> HIDE DEF T
  <2> QED  BY <1>2, <1>4, <1>5, UpTo
<1> DEFINE c == CleanUpStaleMoves(b)
<1>7. Cleaned(c, b, old, new, n)
  <2>1. n \in T(g)
    BY <1>2, <1>6
  <2> QED  BY <1>3, <2>1
<1> HIDE DEF c
<1>8. /\ IsBuilder(c) /\ c.modifications = b.modifications /\ c.mapping = b.mapping
      /\ \A x \in c.insertions : x \in b.insertions
      /\ Pairs(c.deletions, c.insertions, old, new)
      /\ \A x \in b.insertions : x \in c.insertions \/ \E p \in DOMAIN b.moves : b.moves[p].to = x
      /\ \A q \in DOMAIN c.moves :
            /\ \E p \in DOMAIN b.moves : c.moves[q] = b.moves[p]
            /\ c.moves[q].from \in c.deletions /\ c.moves[q].to \in c.insertions
      /\ DistinctMoves(c)
  BY <1>7 DEF Cleaned
<1>9. Bounded(c, new)
  BY <1>1, <1>8 DEF Bounded
<1>10. TrueMoves(c, old, new)
  <2>1. ASSUME NEW q \in DOMAIN c.moves PROVE TrueMove(c, old, new, c.moves[q])
    <3>1. PICK p \in DOMAIN b.moves : c.moves[q] = b.moves[p]
      BY <1>8
    <3>2. TrueMove(b, old, new, b.moves[p])
      BY <1>1 DEF TrueMoves
    <3> QED  BY <1>8, <3>1, <3>2 DEF TrueMove
  <2> QED  BY <1>1, <1>8, <2>1 DEF TrueMoves
<1>11. Marks(c, new, set)
  <2> SUFFICES ASSUME NEW x \in Nat, x < Len(new), x \in c.insertions => MovedTo(c, x)
               PROVE  x \in b.modifications <=> new[x + 1] \in set
    BY <1>8 DEF Marks
  <2>1. MovedTo(c, x) => MovedTo(b, x)
    BY <1>8 DEF MovedTo
  <2>2. x \in b.insertions => MovedTo(b, x)
    BY <1>8, <2>1 DEF MovedTo
  <2> QED  BY <1>1, <2>2 DEF Marks
<1> QED  BY <1>1, <1>8, <1>9, <1>10, <1>11 DEF Good, Sound, c

-----------------------------------------------------------------------------
(* Later changes on top of earlier ones: the earlier moves are followed       *)
(* through the later ones.                                                    *)

FollowStep(b, c, acc, m) ==
  IF \E k \in DOMAIN acc.left : acc.left[k].from = m.to
  THEN LET k == CHOOSE n \in DOMAIN acc.left : acc.left[n].from = m.to
           l == acc.left[k]
       IN [moves |-> Append(acc.moves, [m EXCEPT !.to = l.to]),
           left |-> Front([acc.left EXCEPT ![k] = Last(acc.left)]),
           mods |-> acc.mods \cup StillModified(b, l)]
  ELSE IF m.to \in c.deletions THEN acc
  ELSE [acc EXCEPT !.moves =
          Append(@, [m EXCEPT !.to = Shift(c.insertions, Unshift(c.deletions, @))])]
FollowBody(g, b, c, k) ==
  IF k = 0 THEN [moves |-> <<>>, left |-> c.moves, mods |-> c.modifications]
  ELSE FollowStep(b, c, g[k - 1], b.moves[k])
Follows(g, b, c, n) ==
  g = [k \in 0 .. n |-> g[k]] /\ \A k \in 0 .. n : g[k] = FollowBody(g, b, c, k)

\* The recursive function of merge exists one index further ...
LEMMA FollowExtend ==
  ASSUME NEW b, NEW c, NEW m \in Nat \ {0}, NEW g, Follows(g, b, c, m - 1)
  PROVE  \E h : Follows(h, b, c, m)
<1> DEFINE last == FollowBody(g, b, c, m)
           h == [k \in 0 .. m |-> IF k = m THEN last ELSE g[k]]
<1>1. \A k \in 0 .. m - 1 : g[k] = FollowBody(g, b, c, k)
  BY DEF Follows
<1> HIDE DEF last
<1>2. h = [k \in 0 .. m |-> h[k]]
  OBVIOUS
<1>3. \A k \in 0 .. m : h[k] = IF k = m THEN last ELSE g[k]
  OBVIOUS
<1> HIDE DEF h
<1>4. ASSUME NEW k \in 0 .. m PROVE h[k] = FollowBody(h, b, c, k)
  <2>1. CASE k = 0
    <3>1. h[k] = g[0] /\ g[0] = FollowBody(g, b, c, 0)
      BY <1>1, <1>3, <2>1
    <3> QED  BY <2>1, <3>1 DEF FollowBody
  <2>2. CASE k # 0 /\ k = m
    <3>1. h[k] = last /\ h[k - 1] = g[k - 1]
      BY <1>3, <2>2
    <3> QED  BY <2>2, <3>1 DEF FollowBody, last
  <2>3. CASE k # 0 /\ k # m
    <3>1. h[k] = g[k] /\ h[k - 1] = g[k - 1] /\ g[k] = FollowBody(g, b, c, k)
      BY <1>1, <1>3, <2>3
    <3> QED  BY <2>3, <3>1 DEF FollowBody
  <2> QED  BY <2>1, <2>2, <2>3
<1> QED  BY <1>2, <1>4 DEF Follows

\* What both sets of changes are together, with these moves followed.
Joined(b, c, followed) ==
  LET new == Rest(followed.left, Where(followed.left, LAMBDA m : m.from \in b.insertions))
      mods == followed.mods \cup UNION {StillModified(b, m) : m \in ToSet(new)}
      from(m) == [m EXCEPT !.from = Shift(b.deletions, Unshift(b.insertions, @))]
  IN [deletions |-> AddShiftedBy(b.deletions, b.insertions, c.deletions),
      insertions |-> InsertAtAll(EraseAtAll(b.insertions, c.deletions), c.insertions),
      modifications |-> ShiftForInsertAtAll(EraseAtAll(b.modifications, c.deletions),
                                            c.insertions) \cup mods,
      moves |-> followed.moves \o Map(new, from), mapping |-> <<>>]

\* ... so it exists, and merge works on its value after the last move.
LEMMA FollowSolution ==
  ASSUME NEW b, NEW c, Len(b.moves) \in Nat
  PROVE  \E g : /\ Follows(g, b, c, Len(b.moves))
                /\ ~IsEmpty(b) /\ ~IsEmpty(c) =>
                     Merge(b, c) = CleanUpStaleMoves(Joined(b, c, g[Len(b.moves)]))
<1> DEFINE n == Len(b.moves)
           T == {m \in 0 .. n : \E g : Follows(g, b, c, m)}
           Rec(g) == g = [k \in 0 .. n |->
                            IF k = 0 THEN [moves |-> <<>>, left |-> c.moves,
                                           mods |-> c.modifications]
                            ELSE FollowStep(b, c, g[k - 1], b.moves[k])]
           follow == CHOOSE g : Rec(g)
<1>1. 0 .. n \subseteq T
  <2>1. 0 \in T
    <3> DEFINE r == [moves |-> <<>>, left |-> c.moves, mods |-> c.modifications]
               g == [k \in 0 .. 0 |-> r]
    <3>1. g = [k \in 0 .. 0 |-> g[k]] /\ \A k \in 0 .. 0 : g[k] = r
      OBVIOUS
    <3> HIDE DEF g
    <3>2. Follows(g, b, c, 0)
      BY <3>1 DEF Follows, FollowBody
    <3> QED  BY <3>2
  <2>2. ASSUME NEW m \in 1 .. n, m - 1 \in T PROVE m \in T
    <3>1. m \in Nat \ {0} /\ m \in 0 .. n
      OBVIOUS
    <3>2. PICK g : Follows(g, b, c, m - 1)
      BY <2>2
    <3> QED  BY <3>1, <3>2, FollowExtend
  <2> HIDE DEF T
  <2> QED  BY <2>1, <2>2, UpTo
<1>2. PICK g : Follows(g, b, c, n)
  BY <1>1
<1>3. Rec(g)
  <2>1. g = [k \in 0 .. n |-> g[k]] /\ \A k \in 0 .. n : g[k] = FollowBody(g, b, c, k)
    BY <1>2 DEF Follows
  <2> QED  BY <2>1 DEF FollowBody
<1>4. Rec(follow)
  BY <1>3
<1>5. ~IsEmpty(b) /\ ~IsEmpty(c) => Merge(b, c) = CleanUpStaleMoves(Joined(b, c, follow[n]))
  BY DEF Merge, FollowStep, Joined
<1> HIDE DEF follow
<1>6. Follows(follow, b, c, n)
  <2>1. follow = [k \in 0 .. n |-> follow[k]]
    BY <1>4
  <2>2. \A k \in 0 .. n : follow[k] = FollowBody(follow, b, c, k)
    BY <1>4 DEF FollowBody
  <2> QED  BY <2>1, <2>2 DEF Follows
<1> QED  BY <1>5, <1>6

\* The index y between the changes leads to x after them.
Leads(b, c, mods, y, x) ==
  \/ \E j \in DOMAIN c.moves : /\ c.moves[j].from = y /\ c.moves[j].to = x
                               /\ y \in b.modifications => x \in mods
  \/ y \notin c.deletions /\ x = Shift(c.insertions, Unshift(c.deletions, y))

\* After the first k moves.
Followed(acc, b, c, k) ==
  /\ acc \in [moves : Seq(Move), left : Seq(Move), mods : Indices]
  /\ \A i \in DOMAIN acc.left : \E j \in DOMAIN c.moves : acc.left[i] = c.moves[j]
  /\ \A i, j \in DOMAIN acc.left : acc.left[i].from = acc.left[j].from => i = j
  /\ \A x \in c.modifications : x \in acc.mods
  /\ \A x \in acc.mods :
        \/ x \in c.modifications
        \/ \E j \in DOMAIN c.moves : c.moves[j].to = x /\ c.moves[j].from \in b.modifications
  /\ \A q \in DOMAIN acc.moves : \E p \in DOMAIN b.moves :
        /\ p <= k /\ acc.moves[q].from = b.moves[p].from
        /\ Leads(b, c, acc.mods, b.moves[p].to, acc.moves[q].to)
  /\ DistinctMoves(acc)

\* The last move takes the place of the one that was followed.
LEMMA LeftMoves ==
  ASSUME NEW s \in Seq(Move), NEW k \in DOMAIN s,
         \A i, j \in DOMAIN s : s[i].from = s[j].from => i = j
  PROVE  LET r == Front([s EXCEPT ![k] = Last(s)])
         IN /\ r \in Seq(Move)
            /\ \A i \in DOMAIN r : \E p \in DOMAIN s : r[i] = s[p]
            /\ \A i, j \in DOMAIN r : r[i].from = r[j].from => i = j
<1> DEFINE r == Front([s EXCEPT ![k] = Last(s)])
<1>1. Len(s) \in Nat /\ DOMAIN s = 1 .. Len(s)
  BY SeqLen
<1>2. k - 1 \in Nat /\ k - 1 < Len(s) /\ (k - 1) + 1 = k
  BY <1>1
<1>3. /\ r \in Seq(Move) /\ Len(r) = Len(s) - 1
      /\ \A x \in Nat : x < Len(s) - 1 => r[x + 1] = IF x = k - 1 THEN s[Len(s)] ELSE s[x + 1]
  <2> DEFINE q(i) == Front([s EXCEPT ![i + 1] = Last(s)])
  <2>1. \A i \in Nat : i < Len(s) =>
          /\ q(i) \in Seq(Move) /\ Len(q(i)) = Len(s) - 1
          /\ \A x \in Nat : x < Len(s) - 1 =>
                q(i)[x + 1] = IF x = i THEN s[Len(s)] ELSE s[x + 1]
    BY LastOverRows
  <2>2. q(k - 1) = r
    BY <1>2
  <2> HIDE DEF q, r
  <2> QED  BY <1>2, <2>1, <2>2
<1> HIDE DEF r
<1>4. DOMAIN r = 1 .. Len(s) - 1
  BY <1>3, SeqLen
<1>5. ASSUME NEW i \in DOMAIN r PROVE r[i] = IF i = k THEN s[Len(s)] ELSE s[i]
  <2>1. i - 1 \in Nat /\ i - 1 < Len(s) - 1 /\ (i - 1) + 1 = i /\ (i - 1 = k - 1 <=> i = k)
    BY <1>1, <1>4
  <2> QED  BY <1>3, <2>1
<1>6. Len(s) \in DOMAIN s /\ \A i \in DOMAIN r : i \in DOMAIN s /\ i # Len(s)
  BY <1>1, <1>4
<1>7. \A i \in DOMAIN r : \E p \in DOMAIN s : r[i] = s[p]
  BY <1>5, <1>6
<1>8. \A i, j \in DOMAIN r : r[i].from = r[j].from => i = j
  BY <1>5, <1>6
<1> QED  BY <1>3, <1>7, <1>8 DEF r

\* More modified rows lead to a new index if more rows are modified.
LEMMA LeadsMore ==
  ASSUME NEW b, NEW c, NEW M, NEW N, M \subseteq N, NEW y, NEW x, Leads(b, c, M, y, x)
  PROVE  Leads(b, c, N, y, x)
BY DEF Leads

AllLead(r, b, c, k) ==
  /\ r.moves \in Seq(Move) /\ DistinctMoves(r)
  /\ \A q \in DOMAIN r.moves : \E p \in DOMAIN b.moves :
        /\ p <= k /\ r.moves[q].from = b.moves[p].from
        /\ Leads(b, c, r.mods, b.moves[p].to, r.moves[q].to)

\* One more move is known where it leads.
LEMMA MoveAppended ==
  ASSUME NEW b, NEW c, IsBuilder(b), DistinctMoves(b), NEW k \in DOMAIN b.moves,
         NEW acc, Followed(acc, b, c, k - 1), NEW M \in Indices, acc.mods \subseteq M,
         NEW x \in Nat, Leads(b, c, M, b.moves[k].to, x), NEW r,
         r.moves = Append(acc.moves, [b.moves[k] EXCEPT !.to = x]), r.mods = M
  PROVE  AllLead(r, b, c, k)
<1> DEFINE m == [b.moves[k] EXCEPT !.to = x]
           s == acc.moves
           t == Append(s, m)
<1>1. b.moves[k] \in Move /\ DOMAIN b.moves \subseteq Nat
  BY BuilderFields
<1>2. m \in Move /\ m.from = b.moves[k].from /\ m.to = x
  BY <1>1 DEF Move
<1> HIDE DEF m
<1>3. s \in Seq(Move) /\ Len(s) \in Nat /\ DOMAIN s = 1 .. Len(s)
  BY SeqLen DEF Followed
<1>4. /\ t \in Seq(Move) /\ DOMAIN t = 1 .. Len(s) + 1
      /\ \A q \in DOMAIN s : t[q] = s[q]
      /\ t[Len(s) + 1] = m
  <2> HIDE DEF s
  <2> QED  BY <1>2, <1>3, AppendProperties, SeqLen
<1>5. k \in Nat
  BY <1>1
<1>6. \A q \in DOMAIN s : \E p \in DOMAIN b.moves :
        /\ p <= k - 1 /\ s[q].from = b.moves[p].from
        /\ Leads(b, c, acc.mods, b.moves[p].to, s[q].to)
  BY DEF Followed
<1>7. \A q \in DOMAIN s : s[q].from # m.from
  <2> SUFFICES ASSUME NEW q \in DOMAIN s, s[q].from = m.from PROVE FALSE
    OBVIOUS
  <2> HIDE DEF s
  <2>1. PICK p \in DOMAIN b.moves : p <= k - 1 /\ s[q].from = b.moves[p].from
    BY <1>6
  <2>2. p # k
    BY <1>1, <1>5, <2>1
  <2> QED  BY <1>2, <2>1, <2>2 DEF DistinctMoves
<1>8. \A i, j \in DOMAIN s : s[i].from = s[j].from => i = j
  BY DEF Followed, DistinctMoves
<1> HIDE DEF s, t
<1>9. \A q \in DOMAIN t : q \in DOMAIN s \/ q = Len(s) + 1
  BY <1>3, <1>4
<1>10. \A i, j \in DOMAIN t : t[i].from = t[j].from => i = j
  BY <1>4, <1>7, <1>8, <1>9
<1>11. ASSUME NEW q \in DOMAIN t
       PROVE  \E p \in DOMAIN b.moves : /\ p <= k /\ t[q].from = b.moves[p].from
                                        /\ Leads(b, c, M, b.moves[p].to, t[q].to)
  <2>1. CASE q \in DOMAIN s
    <3>1. PICK p \in DOMAIN b.moves : /\ p <= k - 1 /\ s[q].from = b.moves[p].from
                                      /\ Leads(b, c, acc.mods, b.moves[p].to, s[q].to)
      BY <1>6, <2>1
    <3>2. Leads(b, c, M, b.moves[p].to, s[q].to)
      BY <3>1, LeadsMore
    <3>3. p <= k
      BY <1>1, <1>5, <3>1
    <3> QED  BY <1>4, <2>1, <3>1, <3>2, <3>3
  <2>2. CASE q = Len(s) + 1
    <3>1. k <= k
      BY <1>5
    <3> QED  BY <1>2, <1>4, <2>2, <3>1
  <2> QED  BY <1>9, <2>1, <2>2
<1>12. r.moves = t /\ r.mods = M
  BY DEF t, m, s
<1>13. DistinctMoves(r)
  BY <1>10, <1>12 DEF DistinctMoves
<1> QED  BY <1>4, <1>11, <1>12, <1>13 DEF AllLead

\* One old move is followed through the later changes.
LEMMA FollowedStep ==
  ASSUME NEW b, NEW c, IsBuilder(b), IsBuilder(c), DistinctMoves(b),
         NEW k \in DOMAIN b.moves, NEW acc, Followed(acc, b, c, k - 1)
  PROVE  Followed(FollowStep(b, c, acc, b.moves[k]), b, c, k)
<1> DEFINE m == b.moves[k]
           r == FollowStep(b, c, acc, m)
<1>1. /\ acc \in [moves : Seq(Move), left : Seq(Move), mods : Indices]
      /\ \A i \in DOMAIN acc.left : \E j \in DOMAIN c.moves : acc.left[i] = c.moves[j]
      /\ \A i, j \in DOMAIN acc.left : acc.left[i].from = acc.left[j].from => i = j
      /\ \A x \in c.modifications : x \in acc.mods
      /\ \A x \in acc.mods :
            \/ x \in c.modifications
            \/ \E j \in DOMAIN c.moves : c.moves[j].to = x /\ c.moves[j].from \in b.modifications
      /\ \A q \in DOMAIN acc.moves : \E p \in DOMAIN b.moves :
            /\ p <= k - 1 /\ acc.moves[q].from = b.moves[p].from
            /\ Leads(b, c, acc.mods, b.moves[p].to, acc.moves[q].to)
      /\ DistinctMoves(acc)
  BY DEF Followed
<1>2. /\ m \in Move /\ m.from \in Nat /\ m.to \in Nat /\ k \in Nat /\ DOMAIN b.moves \subseteq Nat
      /\ c.deletions \in Indices /\ c.insertions \in Indices
      /\ \A j \in DOMAIN c.moves : c.moves[j].from \in Nat /\ c.moves[j].to \in Nat
  BY BuilderFields
<1>3. CASE \E i \in DOMAIN acc.left : acc.left[i].from = m.to
  <2> DEFINE i == CHOOSE n \in DOMAIN acc.left : acc.left[n].from = m.to
             l == acc.left[i]
             M == acc.mods \cup StillModified(b, l)
             L == Front([acc.left EXCEPT ![i] = Last(acc.left)])
  <2>1. i \in DOMAIN acc.left /\ l.from = m.to
    BY <1>3
  <2>2. r = [moves |-> Append(acc.moves, [m EXCEPT !.to = l.to]), left |-> L, mods |-> M]
    BY <1>3 DEF FollowStep
  <2> HIDE DEF i, r, m
  <2>3. PICK j \in DOMAIN c.moves : l = c.moves[j]
    BY <1>1, <2>1
  <2>4. /\ L \in Seq(Move)
        /\ \A n \in DOMAIN L : \E p \in DOMAIN acc.left : L[n] = acc.left[p]
        /\ \A n, p \in DOMAIN L : L[n].from = L[p].from => n = p
    <3>1. acc.left \in Seq(Move)
      BY <1>1
    <3> QED  BY <1>1, <2>1, <3>1, LeftMoves
  <2> HIDE DEF l, L
  <2>5. l.to \in Nat
    BY <1>2, <2>3
  <2>6. \A x : x \in StillModified(b, l) <=> x = l.to /\ l.from \in b.modifications
    BY DEF StillModified
  <2>7. M \in Indices /\ acc.mods \subseteq M
    <3>1. acc.mods \in Indices
      BY <1>1
    <3>2. M = acc.mods \/ M = acc.mods \cup {l.to}
      BY <2>6
    <3>3. acc.mods \cup {l.to} \in Indices
      BY <2>5, <3>1, AddMember
    <3> QED  BY <3>1, <3>2, <3>3
  <2>8. Leads(b, c, M, m.to, l.to)
    <3>1. l.from \in b.modifications => l.to \in M
      BY <2>6
    <3> QED  BY <2>1, <2>3, <3>1 DEF Leads
  <2>9. \A x \in M : \/ x \in c.modifications
                     \/ \E n \in DOMAIN c.moves :
                           c.moves[n].to = x /\ c.moves[n].from \in b.modifications
    BY <1>1, <2>3, <2>6
  <2> HIDE DEF M
  <2>10. r.moves = Append(acc.moves, [m EXCEPT !.to = l.to]) /\ r.left = L /\ r.mods = M
    BY <2>2
  <2>11. /\ r.moves \in Seq(Move) /\ DistinctMoves(r)
         /\ \A q \in DOMAIN r.moves : \E p \in DOMAIN b.moves :
               /\ p <= k /\ r.moves[q].from = b.moves[p].from
               /\ Leads(b, c, r.mods, b.moves[p].to, r.moves[q].to)
    <3>1. AllLead(r, b, c, k)
      BY <2>5, <2>7, <2>8, <2>10, MoveAppended DEF m
    <3> QED  BY <3>1 DEF AllLead
  <2>12. r \in [moves : Seq(Move), left : Seq(Move), mods : Indices]
    BY <2>2, <2>4, <2>7, <2>10, <2>11
  <2>13. \A n \in DOMAIN r.left : \E p \in DOMAIN c.moves : r.left[n] = c.moves[p]
    <3>1. \A n \in DOMAIN L : \E p \in DOMAIN c.moves : L[n] = c.moves[p]
      BY <1>1, <2>4
    <3> QED  BY <2>10, <3>1
  <2>14. \A x \in c.modifications : x \in r.mods
    BY <1>1, <2>7, <2>10
  <2> QED  BY <2>4, <2>9, <2>10, <2>11, <2>12, <2>13, <2>14 DEF Followed, r, m
<1>4. CASE (~\E i \in DOMAIN acc.left : acc.left[i].from = m.to) /\ m.to \in c.deletions
  <2>1. r = acc
    BY <1>4 DEF FollowStep
  <2> HIDE DEF r, m
  <2>2. \A p \in DOMAIN b.moves : p <= k - 1 => p <= k
    BY <1>2
  <2>3. \A q \in DOMAIN acc.moves : \E p \in DOMAIN b.moves :
            /\ p <= k /\ acc.moves[q].from = b.moves[p].from
            /\ Leads(b, c, acc.mods, b.moves[p].to, acc.moves[q].to)
    BY <1>1, <2>2
  <2>4. Followed(acc, b, c, k)
    BY <1>1, <2>3 DEF Followed
  <2> QED  BY <2>1, <2>4 DEF r, m
<1>5. CASE (~\E i \in DOMAIN acc.left : acc.left[i].from = m.to) /\ m.to \notin c.deletions
  <2> DEFINE x == Shift(c.insertions, Unshift(c.deletions, m.to))
             moves == Append(acc.moves, [m EXCEPT !.to = x])
  <2>1. r = [acc EXCEPT !.moves = moves]
    BY <1>5 DEF FollowStep
  <2> HIDE DEF r, m
  <2>2. x \in Nat
    <3>1. Unshift(c.deletions, m.to) \in Nat
      BY <1>2, UnshiftType
    <3> QED  BY <1>2, <3>1, ShiftIs
  <2>3. Leads(b, c, acc.mods, m.to, x)
    BY <1>5 DEF Leads
  <2> HIDE DEF x, moves
  <2>4. r.moves = moves /\ r.left = acc.left /\ r.mods = acc.mods
    BY <1>1, <2>1
  <2>5. r.moves = Append(acc.moves, [m EXCEPT !.to = x])
    BY <2>4 DEF moves
  <2>6. acc.mods \in Indices /\ acc.mods \subseteq acc.mods /\ acc.left \in Seq(Move)
    BY <1>1
  <2>7. /\ r.moves \in Seq(Move) /\ DistinctMoves(r)
        /\ \A q \in DOMAIN r.moves : \E p \in DOMAIN b.moves :
              /\ p <= k /\ r.moves[q].from = b.moves[p].from
              /\ Leads(b, c, r.mods, b.moves[p].to, r.moves[q].to)
    <3>1. AllLead(r, b, c, k)
      BY <2>2, <2>3, <2>4, <2>5, <2>6, MoveAppended DEF m
    <3> QED  BY <3>1 DEF AllLead
  <2>8. r \in [moves : Seq(Move), left : Seq(Move), mods : Indices]
    BY <1>1, <2>1, <2>4, <2>7
  <2> QED  BY <1>1, <2>4, <2>7, <2>8 DEF Followed, r, m
<1> QED  BY <1>3, <1>4, <1>5

\* All of them are.
LEMMA FollowedAll ==
  ASSUME NEW b, NEW c, IsBuilder(b), IsBuilder(c), DistinctMoves(b), DistinctMoves(c)
  PROVE  \E acc : /\ Followed(acc, b, c, Len(b.moves))
                  /\ ~IsEmpty(b) /\ ~IsEmpty(c) =>
                       Merge(b, c) = CleanUpStaleMoves(Joined(b, c, acc))
<1> DEFINE n == Len(b.moves)
           T(g) == {k \in 0 .. n : Followed(g[k], b, c, k)}
<1>1. /\ n \in Nat /\ DOMAIN b.moves = 1 .. n
      /\ c.moves \in Seq(Move) /\ c.modifications \in Indices
  BY BuilderFields
<1>2. PICK g : /\ Follows(g, b, c, n)
               /\ ~IsEmpty(b) /\ ~IsEmpty(c) =>
                    Merge(b, c) = CleanUpStaleMoves(Joined(b, c, g[n]))
  BY <1>1, FollowSolution
<1> HIDE DEF n
<1>3. 0 \in T(g)
  <2> DEFINE r == [moves |-> <<>>, left |-> c.moves, mods |-> c.modifications]
  <2>1. g[0] = r
    <3>1. \A k \in 0 .. n : g[k] = FollowBody(g, b, c, k)
      BY <1>2 DEF Follows
    <3>2. g[0] = FollowBody(g, b, c, 0)
      BY <1>1, <3>1
    <3> QED  BY <3>2 DEF FollowBody
  <2>2. r.moves = <<>> /\ r.left = c.moves /\ r.mods = c.modifications
    OBVIOUS
  <2>3. <<>> \in Seq(Move) /\ DOMAIN <<>> = {}
    OBVIOUS
  <2>4. r \in [moves : Seq(Move), left : Seq(Move), mods : Indices]
    BY <1>1, <2>3
  <2> HIDE DEF r
  <2>5. DistinctMoves(r)
    BY <2>2, <2>3 DEF DistinctMoves
  <2>6. \A i, j \in DOMAIN c.moves : c.moves[i].from = c.moves[j].from => i = j
    BY DEF DistinctMoves
  <2>7. Followed(r, b, c, 0)
    BY <2>2, <2>3, <2>4, <2>5, <2>6 DEF Followed
  <2> QED  BY <1>1, <2>1, <2>7
<1>4. ASSUME NEW k \in 1 .. n, k - 1 \in T(g) PROVE k \in T(g)
  <2>1. k \in 0 .. n /\ k # 0 /\ k \in DOMAIN b.moves
    BY <1>1
  <2>2. g[k] = FollowStep(b, c, g[k - 1], b.moves[k])
    BY <1>2, <2>1 DEF Follows, FollowBody
  <2>3. Followed(g[k - 1], b, c, k - 1)
    BY <1>4
  <2>4. Followed(g[k], b, c, k)
    BY <2>1, <2>2, <2>3, FollowedStep
  <2> QED  BY <2>1, <2>4
<1>5. 0 .. n \subseteq T(g)
  <2> HIDE DEF T
  <2> QED  BY <1>1, <1>3, <1>4, UpTo
<1>6. Followed(g[n], b, c, n)
  <2>1. n \in T(g)
    BY <1>1, <1>5
  <2> QED  BY <2>1
<1> QED  BY <1>2, <1>6 DEF n

\* The moves that start outside S.
Keeping(s, S) == Rest(s, Where(s, LAMBDA m : m.from \in S))

\* The moves that do not start in S.
LEMMA KeptFacts ==
  ASSUME NEW s \in Seq(Move), NEW S
  PROVE  /\ Keeping(s, S) \in Seq(Move)
         /\ \A k \in DOMAIN Keeping(s, S) : \E p \in DOMAIN s :
               s[p].from \notin S /\ Keeping(s, S)[k] = s[p]
         /\ \A p \in DOMAIN s : s[p].from \notin S =>
               \E k \in DOMAIN Keeping(s, S) : Keeping(s, S)[k] = s[p]
         /\ (\A p, q \in DOMAIN s : s[p].from = s[q].from => p = q) =>
               \A k, l \in DOMAIN Keeping(s, S) :
                 Keeping(s, S)[k].from = Keeping(s, S)[l].from => k = l
<1> DEFINE W == {k - 1 : k \in {l \in DOMAIN s : s[l].from \in S}}
           r == Rest(s, W)
<1>1. Keeping(s, S) = r
  BY DEF Keeping, Where
<1>2. Len(s) \in Nat /\ DOMAIN s = 1 .. Len(s)
  BY SeqLen
<1>3. \A p \in DOMAIN s : p - 1 \in W <=> s[p].from \in S
  <2> SUFFICES ASSUME NEW p \in DOMAIN s PROVE p - 1 \in W <=> s[p].from \in S
    OBVIOUS
  <2>1. p - 1 \in W => s[p].from \in S
    <3> SUFFICES ASSUME p - 1 \in W PROVE s[p].from \in S
      OBVIOUS
    <3>1. PICK l \in DOMAIN s : s[l].from \in S /\ l - 1 = p - 1
      OBVIOUS
    <3>2. l = p
      BY <1>2, <3>1
    <3> QED  BY <3>1, <3>2
  <2>2. s[p].from \in S => p - 1 \in W
    OBVIOUS
  <2> QED  BY <2>1, <2>2
<1>4. W \in Indices
  <2>1. \A x \in W : x \in Nat /\ x <= Len(s)
    BY <1>2
  <2> HIDE DEF W
  <2> QED  BY <1>2, <2>1 DEF Indices
<1> HIDE DEF W, r
<1>5. /\ r \in Seq(Move)
      /\ \A k \in DOMAIN r : \E p \in DOMAIN s :
            p - 1 \notin W /\ r[k] = s[p] /\ Unshift(W, p - 1) = k - 1
      /\ \A p \in DOMAIN s : p - 1 \notin W => \E k \in DOMAIN r : r[k] = s[p]
  BY <1>4, RestFacts DEF r
<1>6. ASSUME \A p, q \in DOMAIN s : s[p].from = s[q].from => p = q,
             NEW k \in DOMAIN r, NEW l \in DOMAIN r, r[k].from = r[l].from
      PROVE  k = l
  <2>1. PICK p \in DOMAIN s : r[k] = s[p] /\ Unshift(W, p - 1) = k - 1
    BY <1>5
  <2>2. PICK q \in DOMAIN s : r[l] = s[q] /\ Unshift(W, q - 1) = l - 1
    BY <1>5
  <2>3. p = q
    BY <1>6, <2>1, <2>2
  <2>4. k - 1 = l - 1
    BY <2>1, <2>2, <2>3
  <2>5. k \in Nat /\ l \in Nat
    <3>1. r \in Seq(Move)
      BY <1>5
    <3>2. DOMAIN r = 1 .. Len(r) /\ Len(r) \in Nat
      BY <3>1, SeqLen
    <3> QED  BY <3>2
  <2> QED  BY <2>4, <2>5
<1>7. \A k \in DOMAIN r : \E p \in DOMAIN s : s[p].from \notin S /\ r[k] = s[p]
  BY <1>3, <1>5
<1>8. \A p \in DOMAIN s : s[p].from \notin S => \E k \in DOMAIN r : r[k] = s[p]
  BY <1>3, <1>5
<1> QED  BY <1>1, <1>5, <1>6, <1>7, <1>8

\* The sources of moves are taken back before earlier insertions and deletions.
Sourced(s, b) ==
  [k \in DOMAIN s |-> [s[k] EXCEPT !.from = Shift(b.deletions, Unshift(b.insertions, @))]]

\* The later moves, with the index their row had before the earlier changes.
LEMMA SourcedFacts ==
  ASSUME NEW s \in Seq(Move), NEW b, IsBuilder(b)
  PROVE  /\ Sourced(s, b) \in Seq(Move)
         /\ DOMAIN Sourced(s, b) = DOMAIN s /\ Len(Sourced(s, b)) = Len(s)
         /\ \A k \in DOMAIN s :
               /\ Sourced(s, b)[k].from = Shift(b.deletions, Unshift(b.insertions, s[k].from))
               /\ Sourced(s, b)[k].to = s[k].to
<1> DEFINE t == Sourced(s, b)
           at(x) == Shift(b.deletions, Unshift(b.insertions, x))
<1>1. Len(s) \in Nat /\ DOMAIN s = 1 .. Len(s)
  BY SeqLen
<1>2. \A k \in DOMAIN s : s[k] \in Move
  BY <1>1, ElementOfSeq
<1>3. \A x \in Nat : at(x) \in Nat
  <2>1. b.deletions \in Indices /\ b.insertions \in Indices
    BY BuilderFields
  <2>2. \A x \in Nat : Unshift(b.insertions, x) \in Nat
    BY <2>1, UnshiftType
  <2>3. \A x \in Nat : Shift(b.deletions, x) \in Nat
    BY <2>1, ShiftIs
  <2> QED  BY <2>2, <2>3
<1>4. \A k \in DOMAIN s : t[k] = [s[k] EXCEPT !.from = at(@)]
  BY DEF Sourced
<1> HIDE DEF at
<1>5. \A k \in DOMAIN s : t[k] \in Move /\ t[k].from = at(s[k].from) /\ t[k].to = s[k].to
  <2> SUFFICES ASSUME NEW k \in DOMAIN s
               PROVE  t[k] \in Move /\ t[k].from = at(s[k].from) /\ t[k].to = s[k].to
    OBVIOUS
  <2>1. /\ s[k] = [from |-> s[k].from, to |-> s[k].to]
        /\ s[k].from \in Nat /\ s[k].to \in Nat
    BY <1>2 DEF Move
  <2>2. t[k] = [from |-> at(s[k].from), to |-> s[k].to]
    BY <1>4, <2>1
  <2> HIDE DEF t
  <2> QED  BY <1>3, <2>1, <2>2 DEF Move
<1>6. t \in [1 .. Len(s) -> Move]
  BY <1>1, <1>5 DEF Sourced
<1>7. t \in Seq(Move) /\ Len(t) = Len(s)
  BY <1>1, <1>6, FunctionIsSeq
<1> QED  BY <1>5, <1>7 DEF at

\* All the indices that a later set of changes takes earlier modifications to.
LEMMA TakenMember ==
  ASSUME NEW M \in Indices, NEW D \in Indices, NEW I \in Indices
  PROVE  /\ ShiftForInsertAtAll(EraseAtAll(M, D), I) \in Indices
         /\ \A x \in ShiftForInsertAtAll(EraseAtAll(M, D), I) :
               \E y \in M \ D : x = Shift(I, Unshift(D, y))
         /\ \A y \in M \ D :
               Shift(I, Unshift(D, y)) \in ShiftForInsertAtAll(EraseAtAll(M, D), I)
<1> DEFINE A == ShiftForInsertAtAll(EraseAtAll(M, D), I)
           E == EraseAtAll(M, D)
<1>1. A = {Shift(I, e) : e \in E} /\ E = {Unshift(D, y) : y \in M \ D}
  BY DEF ShiftForInsertAtAll, EraseAtAll
<1>2. PICK n \in Nat : \A y \in M : y \in Nat /\ y <= n
  BY DEF Indices
<1> HIDE DEF A, E
<1>3. \A y \in M \ D : Shift(I, Unshift(D, y)) \in A
  BY <1>1
<1>4. \A x \in A : \E y \in M \ D : x = Shift(I, Unshift(D, y))
  BY <1>1
<1>5. Cardinality(I) \in Nat
  BY BelowType
<1>6. ASSUME NEW y \in M \ D
      PROVE  /\ Shift(I, Unshift(D, y)) \in Nat
             /\ Shift(I, Unshift(D, y)) <= n + Cardinality(I)
  <2> DEFINE u == Unshift(D, y)
             x == Shift(I, u)
  <2>1. u \in 0 .. y /\ y \in Nat /\ y <= n
    BY <1>2, UnshiftType
  <2> HIDE DEF u
  <2>2. x \in Nat /\ Unshift(I, x) = u
    BY <2>1, ShiftIs
  <2> HIDE DEF x
  <2>3. x <= Unshift(I, x) + Cardinality(I)
    BY <2>2, UnshiftType
  <2>4. x <= n + Cardinality(I)
    BY <1>5, <2>1, <2>2, <2>3
  <2> QED  BY <2>2, <2>4 DEF x, u
<1>7. A \in Indices
  <2>1. \A x \in A : x \in Nat /\ x <= n + Cardinality(I)
    BY <1>4, <1>6
  <2>2. n + Cardinality(I) \in Nat
    BY <1>2, <1>5
  <2> QED  BY <2>1, <2>2 DEF Indices
<1> QED  BY <1>3, <1>4, <1>7 DEF A

\* The moves of two lists, one after the other.
LEMMA ConcatMoves ==
  ASSUME NEW s \in Seq(Move), NEW t \in Seq(Move)
  PROVE  /\ s \o t \in Seq(Move) /\ Len(s \o t) = Len(s) + Len(t)
         /\ \A q \in 1 .. Len(s) + Len(t) :
               (s \o t)[q] = IF q <= Len(s) THEN s[q] ELSE t[q - Len(s)]
BY ConcatProperties, ZenonT(30)

\* What is known of the changes together.
JoinedFacts(r, b, c) ==
  /\ IsBuilder(r) /\ r.mapping = <<>> /\ DistinctMoves(r)
  /\ r.deletions = AddShiftedBy(b.deletions, b.insertions, c.deletions)
  /\ r.insertions = AddShiftedBy(c.insertions, c.deletions, b.insertions)
  /\ \A x \in c.modifications : x \in r.modifications
  /\ \A y \in b.modifications \ c.deletions :
        Shift(c.insertions, Unshift(c.deletions, y)) \in r.modifications
  /\ \A x \in r.modifications :
        \/ x \in c.modifications
        \/ \E y \in b.modifications \ c.deletions : x = Shift(c.insertions, Unshift(c.deletions, y))
        \/ \E j \in DOMAIN c.moves : c.moves[j].to = x /\ c.moves[j].from \in b.modifications
  /\ \A q \in DOMAIN r.moves :
        \/ \E p \in DOMAIN b.moves :
              /\ r.moves[q].from = b.moves[p].from
              /\ Leads(b, c, r.modifications, b.moves[p].to, r.moves[q].to)
        \/ \E j \in DOMAIN c.moves :
              /\ c.moves[j].from \notin b.insertions /\ c.moves[j].to = r.moves[q].to
              /\ r.moves[q].from = Shift(b.deletions, Unshift(b.insertions, c.moves[j].from))
              /\ c.moves[j].from \in b.modifications => r.moves[q].to \in r.modifications

\* The fields that merge() leaves before the stale moves are dropped.
LEMMA JoinedIs ==
  ASSUME NEW b, NEW c, IsBuilder(b), IsBuilder(c), DistinctMoves(b),
         \A p \in DOMAIN b.moves : b.moves[p].from \in b.deletions,
         \A j \in DOMAIN c.moves : c.moves[j].to \in c.insertions,
         NEW acc, Followed(acc, b, c, Len(b.moves))
  PROVE  JoinedFacts(Joined(b, c, acc), b, c)
<1> DEFINE kept == Keeping(acc.left, b.insertions)
           moved == Sourced(kept, b)
           moves == acc.moves \o moved
           D == AddShiftedBy(b.deletions, b.insertions, c.deletions)
           I == AddShiftedBy(c.insertions, c.deletions, b.insertions)
           A == ShiftForInsertAtAll(EraseAtAll(b.modifications, c.deletions), c.insertions)
           N == UNION {StillModified(b, m) : m \in ToSet(kept)}
           M == A \cup (acc.mods \cup N)
           r == Joined(b, c, acc)
           at(x) == Shift(b.deletions, Unshift(b.insertions, x))
<1>1. /\ acc.moves \in Seq(Move) /\ acc.left \in Seq(Move) /\ acc.mods \in Indices
      /\ \A i \in DOMAIN acc.left : \E j \in DOMAIN c.moves : acc.left[i] = c.moves[j]
      /\ \A i, j \in DOMAIN acc.left : acc.left[i].from = acc.left[j].from => i = j
      /\ \A x \in c.modifications : x \in acc.mods
      /\ \A x \in acc.mods :
            \/ x \in c.modifications
            \/ \E j \in DOMAIN c.moves : c.moves[j].to = x /\ c.moves[j].from \in b.modifications
      /\ \A q \in DOMAIN acc.moves : \E p \in DOMAIN b.moves :
            /\ acc.moves[q].from = b.moves[p].from
            /\ Leads(b, c, acc.mods, b.moves[p].to, acc.moves[q].to)
      /\ \A i, j \in DOMAIN acc.moves : acc.moves[i].from = acc.moves[j].from => i = j
  BY DEF Followed, DistinctMoves
<1>2. /\ b.deletions \in Indices /\ b.insertions \in Indices /\ b.modifications \in Indices
      /\ c.deletions \in Indices /\ c.insertions \in Indices /\ c.modifications \in Indices
      /\ \A j \in DOMAIN c.moves : c.moves[j].from \in Nat /\ c.moves[j].to \in Nat
  BY BuilderFields
<1>3. D \in Indices /\ I \in Indices
  BY <1>2, AddShiftedByMember
<1>4. /\ kept \in Seq(Move) /\ Len(kept) \in Nat /\ DOMAIN kept = 1 .. Len(kept)
      /\ \A q \in DOMAIN kept : \E i \in DOMAIN acc.left :
            acc.left[i].from \notin b.insertions /\ kept[q] = acc.left[i]
      /\ \A k, l \in DOMAIN kept : kept[k].from = kept[l].from => k = l
  <2>1. kept \in Seq(Move)
    BY <1>1, KeptFacts
  <2>2. \A q \in DOMAIN kept : \E i \in DOMAIN acc.left :
            acc.left[i].from \notin b.insertions /\ kept[q] = acc.left[i]
    BY <1>1, KeptFacts
  <2>3. \A k, l \in DOMAIN kept : kept[k].from = kept[l].from => k = l
    BY <1>1, KeptFacts
  <2> HIDE DEF kept
  <2> QED  BY <2>1, <2>2, <2>3, SeqLen
<1>5. r = [deletions |-> D, insertions |-> I, modifications |-> M, moves |-> moves,
           mapping |-> <<>>]
  <2>1. I = InsertAtAll(EraseAtAll(b.insertions, c.deletions), c.insertions)
    BY InsertionsBoth
  <2>2. kept = Rest(acc.left, Where(acc.left, LAMBDA m : m.from \in b.insertions))
    BY DEF Keeping
  <2> HIDE DEF kept
  <2>3. moved = Map(kept, LAMBDA m : [m EXCEPT !.from = at(@)])
    BY DEF Map, Sourced
  <2> HIDE DEF I, moved, D, A, r
  <2>4. r = [deletions |-> D, insertions |-> I,
             modifications |-> A \cup (acc.mods \cup UNION {StillModified(b, m) : m \in ToSet(kept)}),
             moves |-> acc.moves \o moved, mapping |-> <<>>]
    BY <2>1, <2>2, <2>3 DEF Joined, r, D, A
  <2> QED  BY <2>4
<1> HIDE DEF kept, r
<1>6. \A q \in DOMAIN kept : \E j \in DOMAIN c.moves :
         kept[q] = c.moves[j] /\ c.moves[j].from \notin b.insertions
  BY <1>1, <1>4
<1>7. /\ moved \in Seq(Move) /\ Len(moved) = Len(kept) /\ DOMAIN moved = DOMAIN kept
      /\ \A q \in DOMAIN kept : moved[q].from = at(kept[q].from) /\ moved[q].to = kept[q].to
  <2> HIDE DEF at
  <2>1. \A q \in DOMAIN kept : moved[q].from = at(kept[q].from) /\ moved[q].to = kept[q].to
    BY <1>4, SourcedFacts DEF at
  <2>2. moved \in Seq(Move) /\ Len(moved) = Len(kept) /\ DOMAIN moved = DOMAIN kept
    BY <1>4, SourcedFacts
  <2> QED  BY <2>1, <2>2
<1> HIDE DEF moved, at
<1>8. Len(acc.moves) \in Nat /\ DOMAIN acc.moves = 1 .. Len(acc.moves)
  BY <1>1, SeqLen
<1>9. /\ moves \in Seq(Move) /\ DOMAIN moves = 1 .. Len(acc.moves) + Len(kept)
      /\ \A q \in 1 .. Len(acc.moves) + Len(kept) :
            moves[q] = IF q <= Len(acc.moves) THEN acc.moves[q] ELSE moved[q - Len(acc.moves)]
  <2>1. /\ moves \in Seq(Move) /\ Len(moves) = Len(acc.moves) + Len(moved)
        /\ \A q \in 1 .. Len(acc.moves) + Len(moved) :
              moves[q] = IF q <= Len(acc.moves) THEN acc.moves[q] ELSE moved[q - Len(acc.moves)]
    <3>1. acc.moves \in Seq(Move) /\ moved \in Seq(Move)
      BY <1>1, <1>7
    <3> QED  BY <3>1, ConcatMoves
  <2> HIDE DEF moves
  <2> QED  BY <1>7, <2>1, SeqLen
<1> DEFINE n == Len(acc.moves)
<1>10. \A q \in DOMAIN moves : \/ q \in DOMAIN acc.moves /\ moves[q] = acc.moves[q]
                               \/ q > n /\ q - n \in DOMAIN kept /\ moves[q] = moved[q - n]
  BY <1>4, <1>8, <1>9
<1> HIDE DEF moves
<1>11. \A x : x \in N <=> \E q \in DOMAIN kept : kept[q].to = x /\ kept[q].from \in b.modifications
  <2>1. \A m : m \in ToSet(kept) <=> \E q \in DOMAIN kept : m = kept[q]
    BY DEF ToSet
  <2>2. \A m, x : x \in StillModified(b, m) <=> m.from \in b.modifications /\ x = m.to
    BY DEF StillModified
  <2>3. \A x : x \in N <=> \E m \in ToSet(kept) : x \in StillModified(b, m)
    OBVIOUS
  <2> HIDE DEF N
  <2> QED  BY <2>1, <2>2, <2>3
<1>12. /\ A \in Indices
       /\ \A x \in A : \E y \in b.modifications \ c.deletions :
             x = Shift(c.insertions, Unshift(c.deletions, y))
       /\ \A y \in b.modifications \ c.deletions :
             Shift(c.insertions, Unshift(c.deletions, y)) \in A
  BY <1>2, TakenMember
<1> HIDE DEF A, N
<1>13. \A x \in N : \E j \in DOMAIN c.moves : c.moves[j].to = x /\ c.moves[j].from \in b.modifications
  BY <1>6, <1>11
<1>14. M \in Indices
  <2>1. PICK n1 \in Nat : \A x \in A : x <= n1
    BY <1>12 DEF Indices
  <2>2. PICK n2 \in Nat : \A x \in acc.mods : x <= n2
    BY <1>1 DEF Indices
  <2>3. N \in Indices
    <3>1. PICK n3 \in Nat : \A x \in c.insertions : x <= n3
      BY <1>2 DEF Indices
    <3>2. \A x \in N : x \in Nat /\ x <= n3
      BY <1>2, <1>13, <3>1
    <3> QED  BY <3>2 DEF Indices
  <2>4. PICK n3 \in Nat : \A x \in N : x <= n3
    BY <2>3 DEF Indices
  <2>5. \A x \in M : x \in Nat /\ x <= n1 + n2 + n3
    BY <1>1, <1>12, <2>1, <2>2, <2>3, <2>4 DEF Indices
  <2>6. n1 + n2 + n3 \in Nat
    OBVIOUS
  <2> HIDE DEF M
  <2> QED  BY <2>5, <2>6 DEF Indices
<1>15. /\ r.deletions = D /\ r.insertions = I /\ r.modifications = M /\ r.moves = moves
       /\ r.mapping = <<>>
  BY <1>5
<1>16. acc.mods \subseteq M /\ A \subseteq M /\ N \subseteq M
  OBVIOUS
<1>17. \A x \in M : \/ x \in c.modifications
                    \/ \E y \in b.modifications \ c.deletions :
                          x = Shift(c.insertions, Unshift(c.deletions, y))
                    \/ \E j \in DOMAIN c.moves :
                          c.moves[j].to = x /\ c.moves[j].from \in b.modifications
  <2>1. \A x \in M : x \in A \/ x \in acc.mods \/ x \in N
    OBVIOUS
  <2> HIDE DEF M
  <2> QED  BY <1>1, <1>12, <1>13, <2>1
<1> HIDE DEF M, D, I
<1>18. IsBuilder(r)
  BY <1>3, <1>5, <1>9, <1>14, <1>15 DEF IsBuilder
<1>19. \A x \in Nat \ b.insertions : at(x) \in Nat \ b.deletions
                                     /\ Unshift(b.deletions, at(x)) = Unshift(b.insertions, x)
  <2>1. \A x \in Nat : Unshift(b.insertions, x) \in Nat
    <3>1. b.insertions \in Indices
      BY <1>2
    <3> QED  BY <3>1, UnshiftType
  <2> QED  BY <1>2, <2>1, ShiftIs DEF at
<1>20. \A q \in DOMAIN kept : kept[q].from \in Nat \ b.insertions
  BY <1>2, <1>6
<1>21. DistinctMoves(r)
  <2> SUFFICES ASSUME NEW p \in DOMAIN moves, NEW q \in DOMAIN moves, moves[p].from = moves[q].from
               PROVE  p = q
    BY <1>15 DEF DistinctMoves
  <2>1. \A i \in DOMAIN acc.moves : acc.moves[i].from \in b.deletions
    BY <1>1
  <2>2. \A i \in DOMAIN kept : moved[i].from \notin b.deletions
    BY <1>7, <1>19, <1>20
  <2>3. CASE p \in DOMAIN acc.moves /\ moves[p] = acc.moves[p]
    <3>1. q \in DOMAIN acc.moves /\ moves[q] = acc.moves[q]
      BY <1>10, <2>1, <2>2, <2>3
    <3> QED  BY <1>1, <2>3, <3>1
  <2>4. CASE p > n /\ p - n \in DOMAIN kept /\ moves[p] = moved[p - n]
    <3>1. q > n /\ q - n \in DOMAIN kept /\ moves[q] = moved[q - n]
      BY <1>10, <2>1, <2>2, <2>4
    <3>2. at(kept[p - n].from) = at(kept[q - n].from)
      BY <1>7, <2>4, <3>1
    <3>3. Unshift(b.insertions, kept[p - n].from) = Unshift(b.insertions, kept[q - n].from)
      BY <1>19, <1>20, <2>4, <3>1, <3>2
    <3>4. kept[p - n].from = kept[q - n].from
      BY <1>2, <1>20, <2>4, <3>1, <3>3, UnshiftInjective
    <3>5. p - n = q - n
      BY <1>4, <2>4, <3>1, <3>4
    <3>6. p \in Nat /\ q \in Nat /\ n \in Nat
      BY <1>4, <1>8, <1>9
    <3> HIDE DEF n
    <3> QED  BY <3>5, <3>6
  <2> QED  BY <1>10, <2>3, <2>4
<1>22. ASSUME NEW q \in DOMAIN r.moves
       PROVE  \/ \E p \in DOMAIN b.moves :
                    /\ r.moves[q].from = b.moves[p].from
                    /\ Leads(b, c, r.modifications, b.moves[p].to, r.moves[q].to)
              \/ \E j \in DOMAIN c.moves :
                    /\ c.moves[j].from \notin b.insertions /\ c.moves[j].to = r.moves[q].to
                    /\ r.moves[q].from = at(c.moves[j].from)
                    /\ c.moves[j].from \in b.modifications => r.moves[q].to \in r.modifications
  <2>1. CASE q \in DOMAIN acc.moves /\ moves[q] = acc.moves[q]
    <3>1. PICK p \in DOMAIN b.moves :
             /\ acc.moves[q].from = b.moves[p].from
             /\ Leads(b, c, acc.mods, b.moves[p].to, acc.moves[q].to)
      BY <1>1, <2>1
    <3>2. Leads(b, c, M, b.moves[p].to, acc.moves[q].to)
      BY <1>16, <3>1, LeadsMore
    <3> QED  BY <1>15, <2>1, <3>1, <3>2
  <2>2. CASE q - n \in DOMAIN kept /\ moves[q] = moved[q - n]
    <3>1. PICK j \in DOMAIN c.moves : kept[q - n] = c.moves[j] /\ c.moves[j].from \notin b.insertions
      BY <1>6, <2>2
    <3>2. moves[q].from = at(c.moves[j].from) /\ moves[q].to = c.moves[j].to
      BY <1>7, <2>2, <3>1
    <3>3. c.moves[j].from \in b.modifications => c.moves[j].to \in N
      BY <1>11, <2>2, <3>1
    <3>4. c.moves[j].from \in b.modifications => moves[q].to \in M
      BY <1>16, <3>2, <3>3
    <3> QED  BY <1>15, <3>1, <3>2, <3>4
  <2> QED  BY <1>10, <1>15, <2>1, <2>2
<1>23. /\ \A x \in c.modifications : x \in M
       /\ \A y \in b.modifications \ c.deletions :
             Shift(c.insertions, Unshift(c.deletions, y)) \in M
  BY <1>1, <1>12, <1>16
<1> QED  BY <1>15, <1>17, <1>18, <1>21, <1>22, <1>23 DEF JoinedFacts, r, D, I, at

\* An index that later changes leave alone, before and after them.
LEMMA Stays ==
  ASSUME NEW D \in Indices, NEW I \in Indices, NEW old, NEW new, Pairs(D, I, old, new)
  PROVE  /\ \A x \in Nat \ I : \E y \in Nat \ D : /\ Unshift(D, y) = Unshift(I, x)
                                                  /\ x = Shift(I, Unshift(D, y))
                                                  /\ x < Len(new) <=> y < Len(old)
                                                  /\ x < Len(new) => new[x + 1] = old[y + 1]
         /\ \A y \in Nat \ D : LET x == Shift(I, Unshift(D, y))
                               IN /\ x \in Nat \ I /\ Unshift(I, x) = Unshift(D, y)
                                  /\ x < Len(new) <=> y < Len(old)
                                  /\ x < Len(new) => new[x + 1] = old[y + 1]
<1>1. ASSUME NEW x \in Nat \ I
      PROVE  \E y \in Nat \ D : /\ Unshift(D, y) = Unshift(I, x)
                                /\ x = Shift(I, Unshift(D, y))
                                /\ x < Len(new) <=> y < Len(old)
                                /\ x < Len(new) => new[x + 1] = old[y + 1]
  <2> DEFINE y == Shift(D, Unshift(I, x))
  <2>1. Unshift(I, x) \in Nat
    BY UnshiftType
  <2>2. y \in Nat \ D /\ Unshift(D, y) = Unshift(I, x)
    BY <2>1, ShiftIs
  <2> HIDE DEF y
  <2>3. x = Shift(I, Unshift(D, y))
    BY <2>2, ShiftUnique
  <2> QED  BY <2>2, <2>3 DEF Pairs
<1>2. ASSUME NEW y \in Nat \ D
      PROVE  LET x == Shift(I, Unshift(D, y))
             IN /\ x \in Nat \ I /\ Unshift(I, x) = Unshift(D, y)
                /\ x < Len(new) <=> y < Len(old)
                /\ x < Len(new) => new[x + 1] = old[y + 1]
  <2> DEFINE x == Shift(I, Unshift(D, y))
  <2>1. Unshift(D, y) \in Nat
    BY UnshiftType
  <2>2. x \in Nat \ I /\ Unshift(I, x) = Unshift(D, y)
    BY <2>1, ShiftIs
  <2> HIDE DEF x
  <2>3. /\ x < Len(new) <=> y < Len(old)
        /\ x < Len(new) => new[x + 1] = old[y + 1]
    BY <2>2 DEF Pairs
  <2> QED  BY <2>2, <2>3 DEF x
<1> QED  BY <1>1, <1>2

\* The changes together are those from the first rows to the last.
LEMMA JoinedGood ==
  ASSUME NEW R, NEW old \in Seq(R), NEW middle \in Seq(R), NEW new \in Seq(R), NEW s, NEW t,
         NEW b, NEW c, Good(b, old, middle, s), Good(c, middle, new, t),
         \A k, l \in DOMAIN middle : middle[k] = middle[l] => k = l,
         NEW r, JoinedFacts(r, b, c)
  PROVE  Good(r, old, new, s \cup t)
<1> DEFINE D == AddShiftedBy(b.deletions, b.insertions, c.deletions)
           I == AddShiftedBy(c.insertions, c.deletions, b.insertions)
           to(y) == Shift(c.insertions, Unshift(c.deletions, y))
           back(y) == Shift(b.deletions, Unshift(b.insertions, y))
<1>1. /\ IsBuilder(b) /\ Bounded(b, middle) /\ TrueMoves(b, old, middle)
      /\ Marks(b, middle, s) /\ DOMAIN b.mapping = {} /\ DistinctMoves(b)
      /\ Pairs(b.deletions, b.insertions, old, middle)
  BY DEF Good, Sound
<1>2. /\ IsBuilder(c) /\ Bounded(c, new) /\ TrueMoves(c, middle, new)
      /\ Marks(c, new, t) /\ DOMAIN c.mapping = {} /\ DistinctMoves(c)
      /\ Pairs(c.deletions, c.insertions, middle, new)
  BY DEF Good, Sound
<1>3. /\ b.deletions \in Indices /\ b.insertions \in Indices /\ b.modifications \in Indices
      /\ c.deletions \in Indices /\ c.insertions \in Indices /\ c.modifications \in Indices
      /\ \A p \in DOMAIN b.moves : b.moves[p].from \in Nat /\ b.moves[p].to \in Nat
      /\ \A j \in DOMAIN c.moves : c.moves[j].from \in Nat /\ c.moves[j].to \in Nat
  BY <1>1, <1>2, BuilderFields
<1>4. /\ IsBuilder(r) /\ r.mapping = <<>> /\ DistinctMoves(r)
      /\ r.deletions = D /\ r.insertions = I
      /\ \A x \in c.modifications : x \in r.modifications
      /\ \A y \in b.modifications \ c.deletions : to(y) \in r.modifications
      /\ \A x \in r.modifications :
            \/ x \in c.modifications
            \/ \E y \in b.modifications \ c.deletions : x = to(y)
            \/ \E j \in DOMAIN c.moves : c.moves[j].to = x /\ c.moves[j].from \in b.modifications
      /\ \A q \in DOMAIN r.moves :
            \/ \E p \in DOMAIN b.moves :
                  /\ r.moves[q].from = b.moves[p].from
                  /\ Leads(b, c, r.modifications, b.moves[p].to, r.moves[q].to)
            \/ \E j \in DOMAIN c.moves :
                  /\ c.moves[j].from \notin b.insertions /\ c.moves[j].to = r.moves[q].to
                  /\ r.moves[q].from = back(c.moves[j].from)
                  /\ c.moves[j].from \in b.modifications => r.moves[q].to \in r.modifications
  BY DEF JoinedFacts
<1>5. /\ \A x \in Nat \ c.insertions : \E y \in Nat \ c.deletions :
            /\ x = to(y)
            /\ x < Len(new) <=> y < Len(middle)
            /\ x < Len(new) => new[x + 1] = middle[y + 1]
      /\ \A y \in Nat \ c.deletions :
            /\ to(y) \in Nat \ c.insertions
            /\ Unshift(c.insertions, to(y)) = Unshift(c.deletions, y)
            /\ to(y) < Len(new) <=> y < Len(middle)
            /\ to(y) < Len(new) => new[to(y) + 1] = middle[y + 1]
  <2>1. \A x \in Nat \ c.insertions : \E y \in Nat \ c.deletions :
            /\ Unshift(c.deletions, y) = Unshift(c.insertions, x)
            /\ x = to(y)
            /\ x < Len(new) <=> y < Len(middle)
            /\ x < Len(new) => new[x + 1] = middle[y + 1]
    BY <1>2, <1>3, Stays
  <2>2. \A y \in Nat \ c.deletions :
            /\ to(y) \in Nat \ c.insertions
            /\ Unshift(c.insertions, to(y)) = Unshift(c.deletions, y)
            /\ to(y) < Len(new) <=> y < Len(middle)
            /\ to(y) < Len(new) => new[to(y) + 1] = middle[y + 1]
    BY <1>2, <1>3, Stays
  <2> HIDE DEF to
  <2> QED  BY <2>1, <2>2
<1>6. \A y \in Nat \ b.insertions :
        /\ back(y) \in Nat \ b.deletions
        /\ Unshift(b.deletions, back(y)) = Unshift(b.insertions, y)
        /\ y < Len(middle) <=> back(y) < Len(old)
        /\ y < Len(middle) => middle[y + 1] = old[back(y) + 1]
  <2> SUFFICES ASSUME NEW y \in Nat \ b.insertions
               PROVE  /\ back(y) \in Nat \ b.deletions
                      /\ Unshift(b.deletions, back(y)) = Unshift(b.insertions, y)
                      /\ y < Len(middle) <=> back(y) < Len(old)
                      /\ y < Len(middle) => middle[y + 1] = old[back(y) + 1]
    OBVIOUS
  <2>1. Unshift(b.insertions, y) \in Nat
    <3>1. b.insertions \in Indices /\ y \in Nat
      BY <1>3
    <3> HIDE DEF back
    <3>2. Unshift(b.insertions, y) \in 0 .. y
      BY <3>1, UnshiftType
    <3> QED  BY <3>1, <3>2
  <2>2. back(y) \in Nat \ b.deletions /\ Unshift(b.deletions, back(y)) = Unshift(b.insertions, y)
    BY <1>3, <2>1, ShiftIs
  <2> HIDE DEF back
  <2> QED  BY <1>1, <2>2 DEF Pairs
<1> HIDE DEF to, back
<1>7. \A y, z \in Nat \ c.deletions : to(y) = to(z) => y = z
  <2> SUFFICES ASSUME NEW y \in Nat \ c.deletions, NEW z \in Nat \ c.deletions, to(y) = to(z)
               PROVE  y = z
    OBVIOUS
  <2>1. Unshift(c.deletions, y) = Unshift(c.deletions, z)
    BY <1>5
  <2> QED  BY <1>3, <2>1, UnshiftInjective
<1>8. /\ D \in Indices /\ I \in Indices
      /\ \A x \in b.deletions : x \in D
      /\ \A x \in c.insertions : x \in I
  BY <1>3, AddShiftedByMember
<1>9. \A y \in Nat \ c.deletions : to(y) \in I <=> y \in b.insertions
  <2> SUFFICES ASSUME NEW y \in Nat \ c.deletions PROVE to(y) \in I <=> y \in b.insertions
    OBVIOUS
  <2>1. to(y) \in Nat \ c.insertions /\ Unshift(c.insertions, to(y)) = Unshift(c.deletions, y)
    BY <1>5
  <2> QED  BY <1>3, <2>1, AddShiftedByMember
<1>10. \A y \in Nat \ b.insertions : back(y) \in D <=> y \in c.deletions
  <2> SUFFICES ASSUME NEW y \in Nat \ b.insertions PROVE back(y) \in D <=> y \in c.deletions
    OBVIOUS
  <2>1. back(y) \in Nat \ b.deletions /\ Unshift(b.deletions, back(y)) = Unshift(b.insertions, y)
    BY <1>6
  <2> QED  BY <1>3, <2>1, AddShiftedByMember
<1>11. Pairs(D, I, old, new)
  BY <1>1, <1>2, <1>3, PairsBoth
<1> HIDE DEF D, I
<1>12. \A p \in DOMAIN b.moves : TrueMove(b, old, middle, b.moves[p])
  BY <1>1 DEF TrueMoves
<1>13. \A j \in DOMAIN c.moves : TrueMove(c, middle, new, c.moves[j])
  BY <1>2 DEF TrueMoves
<1>14. Bounded(r, new)
  <2>1. ASSUME NEW x \in I PROVE x < Len(new)
    <3>1. x \in Nat
      BY <1>8 DEF Indices
    <3>2. CASE x \in c.insertions
      BY <1>2, <3>2 DEF Bounded
    <3>3. CASE x \notin c.insertions
      <4>1. PICK y \in Nat \ c.deletions : x = to(y) /\ (x < Len(new) <=> y < Len(middle))
        BY <1>5, <3>1, <3>3
      <4>2. y \in b.insertions
        BY <1>9, <4>1
      <4> QED  BY <1>1, <4>1, <4>2 DEF Bounded
    <3> QED  BY <3>2, <3>3
  <2>2. ASSUME NEW x \in r.modifications PROVE x < Len(new)
    <3>1. CASE x \in c.modifications
      BY <1>2, <3>1 DEF Bounded
    <3>2. ASSUME NEW y \in b.modifications \ c.deletions, x = to(y) PROVE x < Len(new)
      <4>1. y \in Nat /\ y < Len(middle)
        BY <1>1, <1>3 DEF Bounded, Indices
      <4> QED  BY <1>5, <3>2, <4>1
    <3>3. ASSUME NEW j \in DOMAIN c.moves, c.moves[j].to = x PROVE x < Len(new)
      BY <1>13, <3>3 DEF TrueMove
    <3> QED  BY <1>4, <3>1, <3>2, <3>3
  <2> QED  BY <1>4, <2>1, <2>2 DEF Bounded
<1>15. TrueMoves(r, old, new)
  <2>1. ASSUME NEW q \in DOMAIN r.moves,
               NEW p \in DOMAIN b.moves, r.moves[q].from = b.moves[p].from,
               Leads(b, c, r.modifications, b.moves[p].to, r.moves[q].to)
        PROVE  TrueMove(r, old, new, r.moves[q])
    <3> DEFINE m == r.moves[q]
               y == b.moves[p].to
    <3>1. /\ m.from \in b.deletions /\ y \in b.insertions /\ m.from < Len(old) /\ y < Len(middle)
          /\ old[m.from + 1] = middle[y + 1] /\ y \in Nat
      BY <1>3, <1>12, <2>1 DEF TrueMove
    <3>2. Leads(b, c, r.modifications, y, m.to)
      BY <2>1
    <3>3. r.moves[q] = m
      OBVIOUS
    <3> HIDE DEF m, y
    <3>4. CASE \E j \in DOMAIN c.moves : c.moves[j].from = y /\ c.moves[j].to = m.to
      <4>1. PICK j \in DOMAIN c.moves : c.moves[j].from = y /\ c.moves[j].to = m.to
        BY <3>4
      <4>2. m.to \in c.insertions /\ m.to < Len(new) /\ middle[y + 1] = new[m.to + 1]
        BY <1>13, <4>1 DEF TrueMove
      <4> QED  BY <1>4, <1>8, <3>1, <3>3, <4>2 DEF TrueMove
    <3>5. CASE y \notin c.deletions /\ m.to = to(y)
      <4>1. to(y) \in I /\ to(y) < Len(new) /\ new[to(y) + 1] = middle[y + 1]
        BY <1>5, <1>9, <3>1, <3>5
      <4> QED  BY <1>4, <1>8, <3>1, <3>3, <3>5, <4>1 DEF TrueMove
    <3> QED  BY <3>2, <3>4, <3>5 DEF Leads, to
  <2>2. ASSUME NEW q \in DOMAIN r.moves,
               NEW j \in DOMAIN c.moves, c.moves[j].from \notin b.insertions,
               c.moves[j].to = r.moves[q].to, r.moves[q].from = back(c.moves[j].from)
        PROVE  TrueMove(r, old, new, r.moves[q])
    <3> DEFINE m == r.moves[q]
               y == c.moves[j].from
    <3>1. /\ y \in c.deletions /\ m.to \in c.insertions /\ y < Len(middle) /\ m.to < Len(new)
          /\ middle[y + 1] = new[m.to + 1] /\ y \in Nat
      BY <1>3, <1>13, <2>2 DEF TrueMove
    <3>2. y \notin b.insertions /\ m.from = back(y) /\ r.moves[q] = m
      BY <2>2
    <3> HIDE DEF m, y
    <3>3. back(y) \in D /\ back(y) < Len(old) /\ middle[y + 1] = old[back(y) + 1]
      BY <1>6, <1>10, <3>1, <3>2
    <3> QED  BY <1>4, <1>8, <3>1, <3>2, <3>3 DEF TrueMove
  <2>3. \A q \in DOMAIN r.moves : TrueMove(r, old, new, r.moves[q])
    BY <1>4, <2>1, <2>2
  <2>4. DOMAIN r.mapping = {}
    BY <1>4
  <2> QED  BY <2>3, <2>4 DEF TrueMoves
<1>16. Marks(r, new, s \cup t)
  <2> SUFFICES ASSUME NEW x \in Nat, x < Len(new), x \in I => MovedTo(r, x)
               PROVE  x \in r.modifications <=> new[x + 1] \in s \cup t
    BY <1>4 DEF Marks
  <2>1. x \in I => \E q \in DOMAIN r.moves : r.moves[q].to = x
    BY <1>4 DEF MovedTo
  <2>2. \A j \in DOMAIN c.moves : c.moves[j].to \in c.insertions
    BY <1>13 DEF TrueMove
  <2>3. CASE x \notin c.insertions
    <3>1. PICK y \in Nat \ c.deletions : /\ x = to(y) /\ y < Len(middle)
                                         /\ new[x + 1] = middle[y + 1]
      BY <1>5, <2>3
    <3>2. y \in b.insertions => MovedTo(b, y)
      <4> SUFFICES ASSUME y \in b.insertions PROVE MovedTo(b, y)
        OBVIOUS
      <4>1. PICK q \in DOMAIN r.moves : r.moves[q].to = x
        BY <1>9, <2>1, <3>1
      <4>2. PICK p \in DOMAIN b.moves : Leads(b, c, r.modifications, b.moves[p].to, x)
        BY <1>4, <2>2, <2>3, <4>1
      <4>3. b.moves[p].to \notin c.deletions /\ x = to(b.moves[p].to)
        BY <2>2, <2>3, <4>2 DEF Leads, to
      <4>4. b.moves[p].to = y
        BY <1>3, <1>7, <3>1, <4>3
      <4> QED  BY <4>4 DEF MovedTo
    <3>3. y \in b.modifications <=> middle[y + 1] \in s
      BY <1>1, <3>1, <3>2 DEF Marks
    <3>4. x \in c.modifications <=> new[x + 1] \in t
      BY <1>2, <2>3 DEF Marks
    <3>5. x \in r.modifications <=> x \in c.modifications \/ y \in b.modifications
      <4>1. ASSUME x \in r.modifications PROVE x \in c.modifications \/ y \in b.modifications
        <5>1. ASSUME NEW z \in b.modifications \ c.deletions, x = to(z) PROVE z = y
          <6>1. z \in Nat \ c.deletions
            BY <1>3 DEF Indices
          <6> QED  BY <1>7, <3>1, <5>1, <6>1
        <5> QED  BY <1>4, <2>2, <2>3, <4>1, <5>1
      <4>2. y \in b.modifications => x \in r.modifications
        BY <1>4, <3>1
      <4> QED  BY <1>4, <4>1, <4>2
    <3> QED  BY <3>1, <3>3, <3>4, <3>5
  <2>4. CASE x \in c.insertions
    <3>1. PICK q \in DOMAIN r.moves : r.moves[q].to = x
      BY <1>8, <2>1, <2>4
    <3>2. \A y \in Nat \ c.deletions : x # to(y)
      BY <1>5, <2>4
    <3>3. \E j \in DOMAIN c.moves :
             /\ c.moves[j].to = x
             /\ c.moves[j].from \in b.insertions => MovedTo(b, c.moves[j].from)
             /\ c.moves[j].from \in b.modifications => x \in r.modifications
      <4>1. ASSUME NEW p \in DOMAIN b.moves, Leads(b, c, r.modifications, b.moves[p].to, x)
            PROVE  \E j \in DOMAIN c.moves :
                      /\ c.moves[j].to = x
                      /\ c.moves[j].from \in b.insertions => MovedTo(b, c.moves[j].from)
                      /\ c.moves[j].from \in b.modifications => x \in r.modifications
        <5>1. MovedTo(b, b.moves[p].to)
          BY DEF MovedTo
        <5>2. PICK j \in DOMAIN c.moves :
                 /\ c.moves[j].from = b.moves[p].to /\ c.moves[j].to = x
                 /\ b.moves[p].to \in b.modifications => x \in r.modifications
          BY <1>3, <3>2, <4>1 DEF Leads, to
        <5> QED  BY <5>1, <5>2
      <4> QED  BY <1>4, <3>1, <4>1
    <3>4. PICK j \in DOMAIN c.moves :
             /\ c.moves[j].to = x
             /\ c.moves[j].from \in b.insertions => MovedTo(b, c.moves[j].from)
             /\ c.moves[j].from \in b.modifications => x \in r.modifications
      BY <3>3
    <3> DEFINE y == c.moves[j].from
    <3>5. y \in Nat /\ y < Len(middle) /\ middle[y + 1] = new[x + 1]
      BY <1>3, <1>13, <3>4 DEF TrueMove
    <3>6. y \in b.modifications <=> middle[y + 1] \in s
      BY <1>1, <3>4, <3>5 DEF Marks
    <3>7. x \in c.modifications <=> new[x + 1] \in t
      <4>1. MovedTo(c, x)
        BY <3>4 DEF MovedTo
      <4> QED  BY <1>2, <4>1 DEF Marks
    <3>8. \A i \in DOMAIN c.moves : c.moves[i].to = x => i = j
      BY <1>2, <3>4, MovesApart
    <3>9. x \in r.modifications <=> x \in c.modifications \/ y \in b.modifications
      <4>1. \A z \in b.modifications \ c.deletions : x # to(z)
        BY <1>3, <3>2 DEF Indices
      <4>2. x \in r.modifications => x \in c.modifications \/ y \in b.modifications
        BY <1>4, <3>8, <4>1
      <4> QED  BY <1>4, <3>4, <4>2
    <3> QED  BY <3>5, <3>6, <3>7, <3>9
  <2> QED  BY <2>3, <2>4
<1>17. DOMAIN r.mapping = {}
  BY <1>4
<1> QED  BY <1>4, <1>11, <1>14, <1>15, <1>16, <1>17 DEF Good, Sound

\* merge() of the changes of two stretches are the changes of both.
LEMMA MergedGood ==
  ASSUME NEW R, NEW old \in Seq(R), NEW middle \in Seq(R), NEW new \in Seq(R), NEW s, NEW t,
         NEW b, NEW c, Good(b, old, middle, s), Good(c, middle, new, t),
         \A k, l \in DOMAIN old : old[k] = old[l] => k = l,
         \A k, l \in DOMAIN middle : middle[k] = middle[l] => k = l
  PROVE  Good(Merge(b, c), old, new, s \cup t)
<1>1. /\ IsBuilder(b) /\ Bounded(b, middle) /\ TrueMoves(b, old, middle)
      /\ Marks(b, middle, s) /\ DOMAIN b.mapping = {} /\ DistinctMoves(b)
      /\ Pairs(b.deletions, b.insertions, old, middle)
  BY DEF Good, Sound
<1>2. /\ IsBuilder(c) /\ Bounded(c, new) /\ TrueMoves(c, middle, new)
      /\ Marks(c, new, t) /\ DOMAIN c.mapping = {} /\ DistinctMoves(c)
      /\ Pairs(c.deletions, c.insertions, middle, new)
  BY DEF Good, Sound
<1>3. CASE IsEmpty(c)
  <2>1. Merge(b, c) = b
    BY <1>3 DEF Merge
  <2>2. c.deletions = {} /\ c.insertions = {} /\ c.modifications = {}
    BY <1>3 DEF IsEmpty
  <2>3. middle = new
    BY <1>2, <2>2, PairsSame
  <2>4. Marks(b, new, s \cup t)
    <3> SUFFICES ASSUME NEW x \in Nat, x < Len(new), x \in b.insertions => MovedTo(b, x)
                 PROVE  x \in b.modifications <=> new[x + 1] \in s \cup t
      BY DEF Marks
    <3>1. x \in b.modifications <=> new[x + 1] \in s
      BY <1>1, <2>3 DEF Marks
    <3>2. new[x + 1] \notin t
      BY <1>2, <2>2 DEF Marks
    <3> QED  BY <3>1, <3>2
  <2> QED  BY <1>1, <2>1, <2>3, <2>4, SMTT(30) DEF Good, Sound
<1>4. CASE IsEmpty(b) /\ ~IsEmpty(c)
  <2>1. Merge(b, c) = c
    BY <1>4 DEF Merge
  <2>2. b.deletions = {} /\ b.insertions = {} /\ b.modifications = {}
    BY <1>4 DEF IsEmpty
  <2>3. old = middle
    BY <1>1, <2>2, PairsSame
  <2>4. Marks(c, new, s \cup t)
    <3> SUFFICES ASSUME NEW x \in Nat, x < Len(new), x \in c.insertions => MovedTo(c, x)
                 PROVE  x \in c.modifications <=> new[x + 1] \in s \cup t
      BY DEF Marks
    <3>1. x \in c.modifications <=> new[x + 1] \in t
      BY <1>2 DEF Marks
    <3>2. \A y \in Nat : y < Len(middle) => middle[y + 1] \notin s
      BY <1>1, <2>2 DEF Marks
    <3>3. \E y \in Nat : y < Len(middle) /\ middle[y + 1] = new[x + 1]
      <4>1. CASE x \notin c.insertions
        <5>1. c.deletions \in Indices /\ c.insertions \in Indices
          BY <1>2, BuilderFields
        <5>2. \E y \in Nat \ c.deletions : /\ x < Len(new) <=> y < Len(middle)
                                           /\ x < Len(new) => new[x + 1] = middle[y + 1]
          BY <1>2, <4>1, <5>1, Stays
        <5> QED  BY <5>2
      <4>2. CASE x \in c.insertions
        <5>1. PICK j \in DOMAIN c.moves : c.moves[j].to = x
          BY <1>2, <4>2 DEF MovedTo
        <5>2. TrueMove(c, middle, new, c.moves[j]) /\ c.moves[j].from \in Nat
          BY <1>2, BuilderFields DEF TrueMoves
        <5> QED  BY <5>1, <5>2 DEF TrueMove
      <4> QED  BY <4>1, <4>2
    <3> QED  BY <3>1, <3>2, <3>3
  <2> QED  BY <1>2, <2>1, <2>3, <2>4, SMTT(30) DEF Good, Sound
<1>5. CASE ~IsEmpty(b) /\ ~IsEmpty(c)
  <2>1. /\ \A p \in DOMAIN b.moves : b.moves[p].from \in b.deletions
        /\ \A j \in DOMAIN c.moves : c.moves[j].to \in c.insertions
    BY <1>1, <1>2 DEF TrueMoves, TrueMove
  <2>2. PICK acc : /\ Followed(acc, b, c, Len(b.moves))
                   /\ Merge(b, c) = CleanUpStaleMoves(Joined(b, c, acc))
    BY <1>1, <1>2, <1>5, FollowedAll
  <2>3. JoinedFacts(Joined(b, c, acc), b, c)
    BY <1>1, <1>2, <2>1, <2>2, JoinedIs
  <2>4. Good(Joined(b, c, acc), old, new, s \cup t)
    BY <2>3, JoinedGood
  <2> QED  BY <2>2, <2>4, CleanedGood
<1> QED  BY <1>3, <1>4, <1>5

\* Without moves in either, there are none in what merge() makes of them.
LEMMA MergedUnmoved ==
  ASSUME NEW b, NEW c, b.moves = <<>>, c.moves = <<>>
  PROVE  Merge(b, c).moves = <<>>
<1>1. Len(b.moves) = 0 /\ Len(b.moves) \in Nat
  BY SMTT(30)
<1>2. CASE IsEmpty(b) \/ IsEmpty(c)
  BY <1>2 DEF Merge
<1>3. CASE ~IsEmpty(b) /\ ~IsEmpty(c)
  <2>1. PICK g : /\ Follows(g, b, c, Len(b.moves))
                 /\ Merge(b, c) = CleanUpStaleMoves(Joined(b, c, g[Len(b.moves)]))
    BY <1>1, <1>3, FollowSolution
  <2> DEFINE f == [moves |-> <<>>, left |-> <<>>, mods |-> c.modifications]
             r == Joined(b, c, f)
  <2>2. g[0] = f
    <3>1. \A k \in 0 .. 0 : g[k] = FollowBody(g, b, c, k)
      BY <1>1, <2>1 DEF Follows
    <3>2. g[0] = FollowBody(g, b, c, 0)
      BY <3>1
    <3> QED  BY <3>2 DEF FollowBody
  <2>3. Merge(b, c) = CleanUpStaleMoves(r)
    BY <1>1, <2>1, <2>2
  <2> HIDE DEF f
  <2>4. r.moves = <<>>
    <3> DEFINE kept == Keeping(<<>>, b.insertions)
               at(x) == Shift(b.deletions, Unshift(b.insertions, x))
    <3>1. f.moves = <<>> /\ f.left = <<>>
      BY DEF f
    <3>2. kept = Rest(<<>>, Where(<<>>, LAMBDA m : m.from \in b.insertions))
      BY DEF Keeping
    <3>3. kept = <<>>
      <4>1. <<>> \in Seq(Move) /\ DOMAIN <<>> = {}
        OBVIOUS
      <4>2. \A k, l \in DOMAIN <<>> : <<>>[k].from = <<>>[l].from => k = l
        BY <4>1
      <4>3. kept \in Seq(Move) /\ \A q \in DOMAIN kept : \E p \in DOMAIN <<>> : TRUE
        BY <4>1, <4>2, KeptFacts
      <4> HIDE DEF kept
      <4>4. DOMAIN kept = {}
        BY <4>1, <4>3
      <4>5. Len(kept) = 0
        BY <4>3, <4>4, SeqLen
      <4> QED  BY <4>3, <4>5, SeqLen
    <3> HIDE DEF kept
    <3>4. r.moves = <<>> \o Map(<<>>, LAMBDA m : [m EXCEPT !.from = at(@)])
      BY <3>1, <3>2, <3>3 DEF Joined
    <3>5. Map(<<>>, LAMBDA m : [m EXCEPT !.from = at(@)]) = <<>>
      BY DEF Map
    <3> QED  BY <3>4, <3>5
  <2> HIDE DEF r
  <2>5. Len(r.moves) = 0 /\ Len(r.moves) \in Nat
    BY <2>4
  <2>6. PICK h : Cleans(h, r, Len(r.moves)) /\ CleanUpStaleMoves(r) = h[Len(r.moves)]
    BY <2>5, CleanSolution
  <2>7. h[0] = [r EXCEPT !.moves = <<>>]
    <3>1. \A k \in 0 .. 0 : h[k] = CleanBody(h, r, k)
      BY <2>5, <2>6 DEF Cleans
    <3>2. h[0] = CleanBody(h, r, 0)
      BY <3>1
    <3> QED  BY <3>2 DEF CleanBody
  <2>8. \E d, i, m, p : r = [deletions |-> d, insertions |-> i, modifications |-> m, moves |-> p,
                             mapping |-> <<>>]
    BY DEF r, Joined
  <2>9. h[0].moves = <<>>
    BY <2>7, <2>8
  <2> QED  BY <2>3, <2>5, <2>6, <2>9
<1> QED  BY <1>2, <1>3

-----------------------------------------------------------------------------
(* The rows of a collection                                                   *)

Distinct(s) == \A k, l \in DOMAIN s : s[k] = s[l] => k = l
Listed(s, n) ==
  /\ s \in Seq(Nat) /\ Len(s) <= MaxRows
  /\ Distinct(s)
  /\ \A k \in DOMAIN s : s[k] < n

\* Rows older than one row are older than a later one.
LEMMA ListedMore ==
  ASSUME NEW s, NEW n \in Nat, Listed(s, n), NEW m \in Nat, n <= m
  PROVE  Listed(s, m)
<1>1. \A k \in DOMAIN s : s[k] \in Nat
  BY SeqLen, ElementOfSeq DEF Listed
<1> QED  BY <1>1 DEF Listed

\* Rows taken from other places of the same list.
Picks(a, s, f) ==
  /\ \A k \in DOMAIN a : f[k] \in DOMAIN s /\ a[k] = s[f[k]]
  /\ \A k, l \in DOMAIN a : f[k] = f[l] => k = l

\* Such a choice of rows is a list of rows.
LEMMA ListedFrom ==
  ASSUME NEW s, NEW n, Listed(s, n), NEW a \in Seq(Nat), Len(a) <= MaxRows, NEW f, Picks(a, s, f)
  PROVE  Listed(a, n)
<1>1. Distinct(a)
  <2> SUFFICES ASSUME NEW k \in DOMAIN a, NEW l \in DOMAIN a, a[k] = a[l] PROVE k = l
    BY DEF Distinct
  <2>1. f[k] \in DOMAIN s /\ f[l] \in DOMAIN s /\ s[f[k]] = s[f[l]]
    BY DEF Picks
  <2>2. f[k] = f[l]
    BY <2>1 DEF Listed, Distinct
  <2> QED  BY <2>2 DEF Picks
<1>2. \A k \in DOMAIN a : a[k] < n
  BY DEF Listed, Picks
<1> QED  BY <1>1, <1>2 DEF Listed

\* InsertIs for natural numbers.
LEMMA InsertedNat ==
  ASSUME NEW s \in Seq(Nat), NEW i \in 0 .. Len(s), NEW e \in Nat
  PROVE  /\ InsertAt(s, i + 1, e) \in Seq(Nat)
         /\ IsInserted(InsertAt(s, i + 1, e), s, i, e)
<1>1. PICK R : R = Nat
  OBVIOUS
<1>2. s \in Seq(R) /\ e \in R
  BY <1>1
<1>3. InsertAt(s, i + 1, e) \in Seq(R)
  BY <1>2, InsertAtSeq
<1>4. /\ Len(InsertAt(s, i + 1, e)) = Len(s) + 1
      /\ \A x \in 0 .. Len(s) : InsertAt(s, i + 1, e)[x + 1] =
            IF x < i THEN s[x + 1] ELSE IF x = i THEN e ELSE s[x]
  BY <1>2, InsertAtSeq
<1>5. IsInserted(InsertAt(s, i + 1, e), s, i, e)
  BY <1>4, Zenon DEF IsInserted
<1> QED  BY <1>1, <1>3, <1>5, Zenon

\* A new row is inserted.
LEMMA ListedInsert ==
  ASSUME NEW s \in Seq(Nat), Distinct(s), NEW i \in 0 .. Len(s), NEW e \in Nat,
         \A k \in DOMAIN s : s[k] # e,
         NEW n \in Nat, e < n, \A k \in DOMAIN s : s[k] < n,
         Len(InsertAt(s, i + 1, e)) <= MaxRows
  PROVE  Listed(InsertAt(s, i + 1, e), n)
<1> DEFINE a == InsertAt(s, i + 1, e)
           f == [k \in 1 .. Len(s) + 1 |-> IF k < i + 1 THEN k ELSE k - 1]
<1>1. Len(s) \in Nat /\ DOMAIN s = 1 .. Len(s) /\ i \in Nat /\ i <= Len(s)
  BY SeqLen
<1>2. a \in Seq(Nat)
  BY InsertedNat, Zenon
<1>3. IsInserted(a, s, i, e)
  BY InsertedNat, Zenon
<1>4. DOMAIN a = 1 .. Len(s) + 1 /\ Len(a) <= MaxRows
  BY <1>2, <1>3, SeqLen DEF IsInserted
<1> HIDE DEF a
<1>5. \A k \in DOMAIN a : a[k] = IF k < i + 1 THEN s[k] ELSE IF k = i + 1 THEN e ELSE s[k - 1]
  <2> SUFFICES ASSUME NEW k \in DOMAIN a
               PROVE  a[k] = IF k < i + 1 THEN s[k] ELSE IF k = i + 1 THEN e ELSE s[k - 1]
    OBVIOUS
  <2>1. k - 1 \in 0 .. Len(s) /\ (k - 1) + 1 = k /\ k \in Nat
    BY <1>1, <1>4
  <2>2. a[k] = IF k - 1 < i THEN s[k] ELSE IF k - 1 = i THEN e ELSE s[k - 1]
    BY <1>3, <2>1 DEF IsInserted
  <2> QED  BY <1>1, <2>1, <2>2
<1>6. \A k \in DOMAIN a : k # i + 1 => f[k] \in DOMAIN s /\ a[k] = s[f[k]]
  BY <1>1, <1>4, <1>5, SMTT(30)
<1>7. a[i + 1] = e /\ i + 1 \in DOMAIN a
  BY <1>1, <1>4, <1>5
<1>8. \A k, l \in DOMAIN a : k # i + 1 /\ l # i + 1 /\ f[k] = f[l] => k = l
  BY <1>1, <1>4
<1> HIDE DEF f
<1>9. Distinct(a)
  <2> SUFFICES ASSUME NEW k \in DOMAIN a, NEW l \in DOMAIN a, a[k] = a[l] PROVE k = l
    BY DEF Distinct
  <2>1. CASE k # i + 1 /\ l # i + 1
    <3>1. f[k] = f[l]
      BY <1>6, <2>1 DEF Distinct
    <3> QED  BY <1>8, <2>1, <3>1
  <2>2. CASE k = i + 1 \/ l = i + 1
    BY <1>6, <1>7, <2>2
  <2> QED  BY <2>1, <2>2
<1>10. \A k \in DOMAIN a : a[k] < n
  BY <1>6, <1>7
<1> QED  BY <1>2, <1>4, <1>9, <1>10 DEF Listed, a

\* A row is erased, and is not among the others.
LEMMA ListedRemove ==
  ASSUME NEW s, NEW n, Listed(s, n), NEW i \in Nat, i < Len(s)
  PROVE  /\ Listed(RemoveAt(s, i + 1), n) /\ Len(RemoveAt(s, i + 1)) = Len(s) - 1
         /\ \A k \in DOMAIN RemoveAt(s, i + 1) : RemoveAt(s, i + 1)[k] # s[i + 1]
<1> DEFINE a == RemoveAt(s, i + 1)
           f == [k \in 1 .. Len(s) - 1 |-> IF k < i + 1 THEN k ELSE k + 1]
<1>1. /\ s \in Seq(Nat) /\ Len(s) \in Nat /\ DOMAIN s = 1 .. Len(s) /\ i + 1 \in DOMAIN s
      /\ Len(s) <= MaxRows
  BY SeqLen DEF Listed
<1>2. /\ a \in Seq(Nat) /\ Len(a) = Len(s) - 1
      /\ \A k \in 1 .. Len(s) - 1 : a[k] = IF k < i + 1 THEN s[k] ELSE s[k + 1]
  BY <1>1, RemoveAtSeq
<1>3. DOMAIN a = 1 .. Len(s) - 1 /\ Len(a) <= MaxRows
  BY <1>1, <1>2, SeqLen, BoundAssumption
<1> HIDE DEF a
<1>4. \A k \in DOMAIN a : f[k] \in DOMAIN s /\ a[k] = s[f[k]] /\ f[k] # i + 1
  <2> SUFFICES ASSUME NEW k \in DOMAIN a
               PROVE  f[k] \in DOMAIN s /\ a[k] = s[f[k]] /\ f[k] # i + 1
    OBVIOUS
  <2>1. k \in 1 .. Len(s) - 1 /\ f[k] = IF k < i + 1 THEN k ELSE k + 1
    BY <1>3
  <2>2. a[k] = IF k < i + 1 THEN s[k] ELSE s[k + 1]
    BY <1>2, <2>1
  <2> HIDE DEF f
  <2> QED  BY <1>1, <2>1, <2>2
<1>5. \A k, l \in DOMAIN a : f[k] = f[l] => k = l
  BY <1>1, <1>3, SMTT(30)
<1> HIDE DEF f
<1>6. Listed(a, n)
  <2>1. Picks(a, s, f)
    BY <1>4, <1>5 DEF Picks
  <2>2. a \in Seq(Nat) /\ Len(a) <= MaxRows
    BY <1>2, <1>3
  <2> QED  BY <2>1, <2>2, ListedFrom
<1>7. \A k \in DOMAIN a : a[k] # s[i + 1]
  BY <1>1, <1>4 DEF Listed, Distinct
<1> QED  BY <1>2, <1>6, <1>7 DEF a

\* A row is moved.
LEMMA ListedMove ==
  ASSUME NEW s, NEW n \in Nat, Listed(s, n), NEW from \in Nat, from < Len(s), NEW to \in Nat, to < Len(s)
  PROVE  Listed(InsertAt(RemoveAt(s, from + 1), to + 1, s[from + 1]), n)
<1> DEFINE l == RemoveAt(s, from + 1)
           e == s[from + 1]
<1>1. Len(s) \in Nat /\ from + 1 \in DOMAIN s /\ s \in Seq(Nat) /\ Len(s) <= MaxRows
  BY SeqLen DEF Listed
<1>2. e \in Nat /\ e < n
  BY <1>1, ElementOfSeq, SeqLen DEF Listed
<1>3. Listed(l, n) /\ Len(l) = Len(s) - 1 /\ \A k \in DOMAIN l : l[k] # e
  BY ListedRemove
<1> HIDE DEF l, e
<1>4. to \in 0 .. Len(l) /\ l \in Seq(Nat) /\ Distinct(l) /\ \A k \in DOMAIN l : l[k] < n
  BY <1>1, <1>3 DEF Listed
<1>5. Len(InsertAt(l, to + 1, e)) = Len(l) + 1
  BY <1>2, <1>4, InsertedNat, Zenon DEF IsInserted
<1>6. Len(InsertAt(l, to + 1, e)) <= MaxRows
  BY <1>1, <1>3, <1>5
<1> QED  BY <1>2, <1>3, <1>4, <1>6, ListedInsert DEF l, e

\* The last row takes the place of row i.
LEMMA ListedLastOver ==
  ASSUME NEW s, NEW n, Listed(s, n), NEW i \in Nat, i < Len(s)
  PROVE  Listed(Front([s EXCEPT ![i + 1] = Last(s)]), n)
<1> DEFINE a == Front([s EXCEPT ![i + 1] = Last(s)])
           f == [k \in 1 .. Len(s) - 1 |-> IF k = i + 1 THEN Len(s) ELSE k]
<1>1. s \in Seq(Nat) /\ Len(s) \in Nat /\ DOMAIN s = 1 .. Len(s) /\ Len(s) <= MaxRows
  <2> HIDE DEF a, f
  <2> QED  BY SeqLen DEF Listed
<1>2. /\ a \in Seq(Nat) /\ Len(a) = Len(s) - 1
      /\ \A x \in Nat : x < Len(s) - 1 => a[x + 1] = IF x = i THEN s[Len(s)] ELSE s[x + 1]
  <2> HIDE DEF f
  <2> QED  BY <1>1, LastOverRows, ZenonT(30)
<1>3. DOMAIN a = 1 .. Len(s) - 1 /\ Len(a) <= MaxRows
  BY <1>1, <1>2, SeqLen, BoundAssumption
<1> HIDE DEF a
<1>4. \A k \in DOMAIN a : f[k] \in DOMAIN s /\ a[k] = s[f[k]]
  <2> SUFFICES ASSUME NEW k \in DOMAIN a PROVE f[k] \in DOMAIN s /\ a[k] = s[f[k]]
    OBVIOUS
  <2>1. k - 1 \in Nat /\ k - 1 < Len(s) - 1 /\ (k - 1) + 1 = k
    BY <1>1, <1>3
  <2>2. a[k] = IF k - 1 = i THEN s[Len(s)] ELSE s[k]
    BY <1>2, <2>1
  <2> QED  BY <1>1, <1>3, <2>1, <2>2
<1>5. \A k, l \in DOMAIN a : f[k] = f[l] => k = l
  BY <1>1, <1>3
<1> HIDE DEF f
<1>6. Picks(a, s, f)
  BY <1>4, <1>5 DEF Picks
<1>7. a \in Seq(Nat) /\ Len(a) <= MaxRows
  BY <1>2, <1>3
<1>8. Listed(a, n)
  BY <1>6, <1>7, ListedFrom
<1> QED  BY <1>8 DEF a

\* Two rows are swapped.
LEMMA ListedSwap ==
  ASSUME NEW s, NEW n, Listed(s, n), NEW i \in Nat, NEW j \in Nat, i < j, j < Len(s)
  PROVE  Listed([s EXCEPT ![i + 1] = s[j + 1], ![j + 1] = s[i + 1]], n)
<1> DEFINE a == [s EXCEPT ![i + 1] = s[j + 1], ![j + 1] = s[i + 1]]
           f == [k \in DOMAIN s |-> IF k = i + 1 THEN j + 1 ELSE IF k = j + 1 THEN i + 1 ELSE k]
<1>1. s \in Seq(Nat) /\ Len(s) \in Nat /\ DOMAIN s = 1 .. Len(s) /\ Len(s) <= MaxRows
  BY SeqLen DEF Listed
<1>2. i + 1 \in DOMAIN s /\ j + 1 \in DOMAIN s /\ i + 1 # j + 1
  BY <1>1
<1>3. DOMAIN a = DOMAIN s /\ \A k \in DOMAIN s : a[k] = s[f[k]] /\ f[k] \in DOMAIN s
  BY <1>1, <1>2
<1>4. a \in Seq(Nat) /\ Len(a) = Len(s)
  <2>1. \A k \in DOMAIN s : s[k] \in Nat
    BY <1>1, ElementOfSeq
  <2>2. a \in [1 .. Len(s) -> Nat]
    BY <1>1, <1>2, <2>1
  <2> QED  BY <1>1, <2>2, FunctionIsSeq
<1>5. \A k, l \in DOMAIN a : f[k] = f[l] => k = l
  BY <1>2, <1>3
<1> HIDE DEF f, a
<1>6. Picks(a, s, f)
  BY <1>3, <1>5 DEF Picks
<1>7. a \in Seq(Nat) /\ Len(a) <= MaxRows
  BY <1>1, <1>4
<1>8. Listed(a, n)
  BY <1>6, <1>7, ListedFrom
<1> QED  BY <1>8 DEF a

-----------------------------------------------------------------------------
(* The invariant: the changes of a list and of sorted results are good at any *)
(* time, a table's once the log is parsed, and the merged changes always.     *)

Held(k, b, old, new, set) ==
  /\ k \in {"list", "sorted"} => Good(b, old, new, set)
  /\ k \in {"table", "swapped"} => OnTable(b, old, new, set)
  /\ k = "linked" => OnLinked(b, new, set)

Summed(k, t, old, new, set) ==
  /\ k \in {"list", "table", "swapped", "sorted"} => Good(t, old, new, set)
  /\ k = "linked" => t.moves = <<>>

Older(n, set) == \A r \in set : r \in Nat /\ r < n

IInv ==
  /\ kind \in Kinds
  /\ next \in Nat
  /\ Listed(base, next) /\ Listed(mid, next) /\ Listed(rows, next)
  /\ Older(next, dirty)
  /\ Held(kind, builder, mid, rows, dirty)
  /\ Summed(kind, total, base, mid, dirtyTotal)

\* The kinds of collection there are.
LEMMA AnyKind ==
  ASSUME kind \in Kinds
  PROVE  kind \in {"list", "table", "swapped", "linked", "sorted"}
BY BoundAssumption

\* An operation keeps the invariant if it keeps what holds of its builder.
LEMMA CalledIInv ==
  ASSUME IInv, NEW b, NEW new, Call(b, new), NEW set, dirty' = set,
         NEW n \in Nat, next' = n, next <= n,
         Listed(new, n), Older(n, set),
         Held(kind, b, mid, new, set)
  PROVE  IInv'
<1>1. /\ kind' = kind /\ base' = base /\ mid' = mid /\ total' = total /\ dirtyTotal' = dirtyTotal
      /\ builder' = b /\ rows' = new
  BY DEF Call
<1>2. Listed(base, n) /\ Listed(mid, n)
  BY ListedMore DEF IInv
<1> QED  BY <1>1, <1>2 DEF IInv

\* Nothing changed: the same rows before and after.
LEMMA EmptyGood ==
  ASSUME NEW R, NEW s \in Seq(R)
  PROVE  Good(Empty, s, s, {})
<1>1. {} \in Indices
  BY DEF Indices
<1>2. IsBuilder(Empty)
  <2>1. <<>> \in Seq(Move)
    BY EmptySeq
  <2> QED  BY <1>1, <2>1 DEF IsBuilder, Empty
<1>3. /\ Empty.deletions = {} /\ Empty.insertions = {} /\ Empty.modifications = {}
      /\ Empty.moves = <<>> /\ Empty.mapping = <<>>
  BY DEF Empty
<1>4. DOMAIN Empty.moves = {} /\ DOMAIN Empty.mapping = {}
  BY <1>3
<1>5. Sound(Empty, s, s, {})
  BY <1>2, <1>3, <1>4 DEF Sound, Bounded, TrueMoves, DistinctMoves, Marks
<1>6. Pairs(Empty.deletions, Empty.insertions, s, s)
  BY <1>3, PairsNone
<1> QED  BY <1>4, <1>5, <1>6 DEF Good

\* So at the beginning of a log every kind's condition holds.
LEMMA EmptyHeld ==
  ASSUME NEW s \in Seq(Nat), NEW k
  PROVE  Held(k, Empty, s, s, {})
<1>1. Good(Empty, s, s, {}) /\ Good(Empty, <<>>, <<>>, {})
  BY EmptyGood, EmptySeq
<1>2. /\ Empty.deletions = {} /\ Empty.insertions = {} /\ Empty.modifications = {}
      /\ Empty.moves = <<>> /\ Empty.mapping = <<>>
  BY DEF Empty
<1>3. DOMAIN Empty.moves = {} /\ DOMAIN Empty.mapping = {}
  BY <1>2
<1>4. OnTable(Empty, s, s, {})
  BY <1>1, <1>2, <1>3 DEF OnTable, Good, Tables
<1>5. OnLinked(Empty, s, {})
  <2>1. IsBuilder(Empty)
    BY <1>1 DEF Good, Sound
  <2>2. Sound(Empty, <<>>, s, {})
    BY <1>2, <1>3, <2>1 DEF Sound, Bounded, TrueMoves, DistinctMoves, Marks
  <2> QED  BY <1>2, <1>3, <2>2 DEF OnLinked
<1> QED  BY <1>1, <1>2, <1>3, <1>4, <1>5 DEF Held

\* The invariant holds at first.
LEMMA InitIInv ==
  ASSUME Init
  PROVE  IInv
<1>1. Rows[kind] \in Nat /\ Rows[kind] <= MaxRows /\ MaxRows \in Nat
  BY BoundAssumption DEF Init
<1> DEFINE s == [k \in 1 .. Rows[kind] |-> k]
<1>2. s \in Seq(Nat) /\ Len(s) = Rows[kind]
  <2>1. s \in [1 .. Rows[kind] -> Nat]
    BY <1>1
  <2> QED  BY <1>1, <2>1, FunctionIsSeq
<1>3. base = s /\ mid = s /\ rows = s /\ next = Rows[kind] + 1
  BY DEF Init
<1>4. Listed(s, next)
  <2>1. DOMAIN s = 1 .. Rows[kind] /\ \A k \in DOMAIN s : s[k] = k
    OBVIOUS
  <2> HIDE DEF s
  <2>2. Distinct(s)
    BY <2>1 DEF Distinct
  <2>3. \A k \in DOMAIN s : s[k] < next
    BY <1>1, <1>3, <2>1
  <2> QED  BY <1>1, <1>2, <2>2, <2>3 DEF Listed
<1> HIDE DEF s
<1>5. Held(kind, builder, mid, rows, dirty)
  <2>1. builder = Empty /\ dirty = {}
    BY DEF Init
  <2> QED  BY <1>2, <1>3, <2>1, EmptyHeld
<1>6. Summed(kind, total, base, mid, dirtyTotal)
  <2>1. total = Empty /\ dirtyTotal = {} /\ Empty.moves = <<>>
    BY DEF Init, Empty
  <2>2. Good(Empty, s, s, {})
    BY <1>2, EmptyGood
  <2> QED  BY <1>3, <2>1, <2>2 DEF Summed
<1>7. next \in Nat /\ kind \in Kinds /\ Older(next, dirty)
  BY <1>1, <1>3 DEF Init, Older
<1> QED  BY <1>3, <1>4, <1>5, <1>6, <1>7 DEF IInv

-----------------------------------------------------------------------------
(* Every action keeps it.                                                     *)

\* What the invariant says of the rows.
LEMMA RowsFacts ==
  ASSUME IInv
  PROVE  /\ base \in Seq(Nat) /\ mid \in Seq(Nat) /\ rows \in Seq(Nat)
         /\ Len(rows) \in Nat /\ DOMAIN rows = 1 .. Len(rows)
         /\ Len(mid) \in Nat /\ Len(mid) <= MaxRows /\ Len(rows) <= MaxRows
         /\ Distinct(base) /\ Distinct(mid) /\ Distinct(rows)
         /\ \A k \in DOMAIN rows : rows[k] \in Nat /\ rows[k] < next
         /\ next \in Nat /\ Older(next, dirty)
<1>1. Listed(base, next) /\ Listed(mid, next) /\ Listed(rows, next)
  BY DEF IInv
<1>2. base \in Seq(Nat) /\ mid \in Seq(Nat) /\ rows \in Seq(Nat)
  BY <1>1 DEF Listed
<1>3. \A k \in DOMAIN rows : rows[k] \in Nat
  BY <1>2, ElementOfSeq, SeqLen
<1>4. Len(rows) \in Nat /\ DOMAIN rows = 1 .. Len(rows) /\ Len(mid) \in Nat
  BY <1>2, SeqLen
<1> QED  BY <1>1, <1>2, <1>3, <1>4 DEF Listed, IInv

\* clear() keeps the invariant.
LEMMA ClearKeeps ==
  ASSUME IInv, ClearRows
  PROVE  IInv'
<1> DEFINE size == IF kind = "list" THEN Len(rows) ELSE Beyond
           b == Cleared(builder, size)
<1>1. kind # "sorted" /\ Call(b, <<>>) /\ dirty' = dirty /\ next' = next
  BY DEF ClearRows
<1>2. next \in Nat /\ Older(next, dirty) /\ kind \in Kinds
  BY <1>1, RowsFacts DEF IInv
<1>3. Listed(<<>>, next)
  BY BoundAssumption, EmptySeq DEF Listed, Distinct
<1>4. Held(kind, b, mid, <<>>, dirty)
  <2>1. CASE kind = "list"
    <3>1. Good(builder, mid, rows, dirty)
      BY <2>1 DEF IInv, Held
    <3>2. Len(rows) # Beyond
      <4>1. Len(rows) \in Nat /\ Len(rows) <= MaxRows
        BY <1>1, RowsFacts
      <4>2. MaxRows \in Nat /\ Beyond \in Nat /\ MaxRows < Beyond
        BY BoundAssumption
      <4> HIDE DEF b
      <4> QED  BY <4>1, <4>2
    <3>3. Good(Cleared(builder, Len(rows)), mid, <<>>, dirty)
      <4>1. PICK R : R = Nat
        OBVIOUS
      <4>2. rows \in Seq(R) /\ mid \in Seq(R)
        BY <1>1, <4>1, RowsFacts
      <4> QED  BY <3>1, <3>2, <4>2, ClearedGood, Zenon
    <3> QED  BY <2>1, <3>3 DEF Held
  <2>2. CASE kind # "list"
    <3>1. b = Cleared(builder, Beyond)
      BY <2>2
    <3> HIDE DEF b
    <3>2. Beyond \in Nat /\ Len(mid) <= Beyond /\ Len(<<>>) <= Beyond
      BY <1>1, RowsFacts, BoundAssumption
    <3>3. OnTable(b, mid, <<>>, dirty) /\ b.insertions = {} /\ DOMAIN b.mapping = {}
      BY <1>1, <3>1, <3>2, RowsFacts, ClearedOnTable
    <3>4. OnLinked(b, <<>>, dirty)
      <4>1. <<>> \in Seq(Nat)
        BY EmptySeq
      <4>2. OnTable(b, <<>>, <<>>, dirty)
        BY <3>1, <3>2, <4>1, ClearedOnTable
      <4> QED  BY <3>3, <4>2 DEF OnLinked, OnTable
    <3> QED  BY <1>1, <2>2, <3>3, <3>4 DEF Held
  <2> QED  BY <2>1, <2>2
<1> HIDE DEF b
<1> QED  BY <1>1, <1>2, <1>3, <1>4, CalledIInv

\* insert() keeps the invariant.
LEMMA InsertKeeps ==
  ASSUME IInv, NEW i \in 0 .. Len(rows), InsertRow(i)
  PROVE  IInv'
<1> DEFINE b == Inserted(builder, i, 1)
           new == InsertAt(rows, i + 1, next)
<1>1. /\ kind = "list" \/ (kind # "sorted" /\ i = Len(rows))
      /\ Call(b, new) /\ dirty' = dirty /\ next' = next + 1
  BY DEF InsertRow
<1>2. Len(new) <= MaxRows
  BY <1>1 DEF Call
<1>3. kind # "sorted"
  BY <1>1
<1>4. next \in Nat /\ next + 1 \in Nat /\ next <= next + 1 /\ Older(next + 1, dirty)
  <2>1. next \in Nat /\ Older(next, dirty)
    BY <1>3, RowsFacts
  <2> QED  BY <2>1 DEF Older
<1>5. Listed(new, next + 1)
  <2>1. rows \in Seq(Nat) /\ Distinct(rows)
    BY <1>3, RowsFacts
  <2>2. \A k \in DOMAIN rows : rows[k] # next /\ rows[k] < next + 1
    BY <1>3, <1>4, RowsFacts
  <2>3. next < next + 1
    BY <1>4
  <2> QED  BY <1>2, <1>4, <2>1, <2>2, <2>3, ListedInsert
<1>6. Held(kind, b, mid, new, dirty)
  <2>1. rows \in Seq(Nat) /\ mid \in Seq(Nat)
    BY <1>3, RowsFacts
  <2>2. PICK R : R = Nat
    OBVIOUS
  <2>3. rows \in Seq(R) /\ mid \in Seq(R) /\ next \in R
    BY <1>4, <2>1, <2>2
  <2>4. CASE kind = "list"
    <3>1. Good(builder, mid, rows, dirty) /\ Track
      BY <2>4 DEF IInv, Held, Track
    <3>2. Good(b, mid, new, dirty)
      BY <2>3, <3>1, InsertedGood, Zenon
    <3> QED  BY <2>4, <3>2 DEF Held
  <2>5. CASE kind \in {"table", "swapped"}
    <3>1. OnTable(builder, mid, rows, dirty) /\ Track
      BY <2>5 DEF IInv, Held, Track
    <3>2. i = Len(rows)
      BY <1>1, <2>5
    <3>3. OnTable(b, mid, new, dirty)
      BY <2>3, <3>1, <3>2, InsertedOnTable, Zenon
    <3> QED  BY <2>5, <3>3 DEF Held
  <2>6. CASE kind = "linked"
    <3>1. OnLinked(builder, rows, dirty) /\ ~Track
      BY <2>6 DEF IInv, Held, Track
    <3>2. i = Len(rows)
      BY <1>1, <2>6
    <3>3. next \notin dirty
      <4>1. next \in Nat /\ Older(next, dirty)
        BY <1>3, RowsFacts
      <4> QED  BY <4>1 DEF Older
    <3>4. OnLinked(b, new, dirty)
      BY <2>3, <3>1, <3>2, <3>3, InsertedOnLinked, Zenon
    <3> QED  BY <2>6, <3>4 DEF Held
  <2> QED  BY <1>3, <2>4, <2>5, <2>6, AnyKind DEF IInv
<1> HIDE DEF b, new
<1> QED  BY <1>1, <1>4, <1>5, <1>6, CalledIInv

\* erase() keeps the invariant.
LEMMA EraseKeeps ==
  ASSUME IInv, NEW i \in 0 .. Len(rows) - 1, EraseRow(i)
  PROVE  IInv'
<1> DEFINE b == Erased(builder, i)
           new == RemoveAt(rows, i + 1)
<1>1. kind = "list" /\ Call(b, new) /\ dirty' = dirty /\ next' = next
  BY DEF EraseRow
<1>2. /\ rows \in Seq(Nat) /\ mid \in Seq(Nat) /\ i \in Nat /\ i < Len(rows)
      /\ next \in Nat /\ Older(next, dirty)
  BY <1>1, RowsFacts
<1>3. Listed(new, next)
  BY <1>1, <1>2, ListedRemove DEF IInv
<1>4. Good(builder, mid, rows, dirty)
  BY <1>1 DEF IInv, Held
<1>5. Good(b, mid, new, dirty)
  BY <1>2, <1>4, ErasedGood
<1> HIDE DEF b, new
<1>6. Held(kind, b, mid, new, dirty)
  BY <1>1, <1>5 DEF Held
<1> QED  BY <1>1, <1>2, <1>3, <1>6, CalledIInv

\* move() keeps the invariant.
LEMMA MoveKeeps ==
  ASSUME IInv, NEW from \in 0 .. Len(rows) - 1, NEW to \in 0 .. Len(rows) - 1, MoveRow(from, to)
  PROVE  IInv'
<1> DEFINE b == Moved(builder, from, to)
           new == InsertAt(RemoveAt(rows, from + 1), to + 1, rows[from + 1])
<1>1. kind = "list" /\ from # to /\ Call(b, new) /\ dirty' = dirty /\ next' = next
  BY DEF MoveRow
<1>2. /\ rows \in Seq(Nat) /\ mid \in Seq(Nat) /\ from \in Nat /\ from < Len(rows)
      /\ to \in Nat /\ to < Len(rows) /\ next \in Nat /\ Older(next, dirty)
  BY <1>1, RowsFacts
<1>3. Listed(new, next)
  <2>1. Listed(rows, next)
    BY <1>1 DEF IInv
  <2> QED  BY <1>2, <2>1, ListedMove
<1>4. Good(builder, mid, rows, dirty)
  BY <1>1 DEF IInv, Held
<1>5. Good(b, mid, new, dirty)
  BY <1>1, <1>2, <1>4, MovedGood
<1> HIDE DEF b, new
<1>6. Held(kind, b, mid, new, dirty)
  BY <1>1, <1>5 DEF Held
<1> QED  BY <1>1, <1>2, <1>3, <1>6, CalledIInv

\* move_over() keeps the invariant.
LEMMA MoveLastOverKeeps ==
  ASSUME IInv, NEW i \in 0 .. Len(rows) - 1, MoveLastOver(i)
  PROVE  IInv'
<1> DEFINE b == MovedOver(builder, i, Len(rows) - 1)
           new == Front([rows EXCEPT ![i + 1] = Last(rows)])
<1>1. kind \in {"table", "swapped", "linked"} /\ Call(b, new) /\ dirty' = dirty /\ next' = next
  BY DEF MoveLastOver
<1>2. /\ rows \in Seq(Nat) /\ mid \in Seq(Nat) /\ i \in Nat /\ i < Len(rows)
      /\ next \in Nat /\ Older(next, dirty)
  BY <1>1, RowsFacts
<1>3. Listed(new, next)
  BY <1>1, <1>2, ListedLastOver DEF IInv
<1>4. CASE kind \in {"table", "swapped"}
  <2>1. OnTable(builder, mid, rows, dirty) /\ Track
    BY <1>4 DEF IInv, Held, Track
  <2>2. OnTable(b, mid, new, dirty)
    BY <1>2, <2>1, MovedOverOnTable
  <2> HIDE DEF b, new
  <2>3. Held(kind, b, mid, new, dirty)
    BY <1>4, <2>2 DEF Held
  <2> QED  BY <1>1, <1>2, <1>3, <2>3, CalledIInv
<1>5. CASE kind = "linked"
  <2>1. OnLinked(builder, rows, dirty) /\ ~Track
    BY <1>5 DEF IInv, Held, Track
  <2>2. OnLinked(b, new, dirty)
    BY <1>2, <2>1, MovedOverOnLinked
  <2> HIDE DEF b, new
  <2>3. Held(kind, b, mid, new, dirty)
    BY <1>5, <2>2 DEF Held
  <2> QED  BY <1>1, <1>2, <1>3, <2>3, CalledIInv
<1> QED  BY <1>1, <1>4, <1>5

\* swap() keeps the invariant.
LEMMA SwapKeeps ==
  ASSUME IInv, NEW i \in 0 .. Len(rows) - 1, NEW j \in 0 .. Len(rows) - 1, SwapRows(i, j)
  PROVE  IInv'
<1> DEFINE b == Swapped(builder, i, j)
           new == [rows EXCEPT ![i + 1] = rows[j + 1], ![j + 1] = rows[i + 1]]
<1>1. kind = "swapped" /\ i < j /\ Call(b, new) /\ dirty' = dirty /\ next' = next
  BY DEF SwapRows
<1>2. /\ rows \in Seq(Nat) /\ mid \in Seq(Nat) /\ i \in Nat /\ j \in Nat /\ j < Len(rows)
      /\ next \in Nat /\ Older(next, dirty)
  BY <1>1, RowsFacts
<1>3. Listed(new, next)
  BY <1>1, <1>2, ListedSwap DEF IInv
<1>4. OnTable(builder, mid, rows, dirty) /\ Track
  BY <1>1 DEF IInv, Held, Track
<1>5. OnTable(b, mid, new, dirty)
  BY <1>1, <1>2, <1>4, SwappedOnTable
<1> HIDE DEF b, new
<1>6. Held(kind, b, mid, new, dirty)
  BY <1>1, <1>5 DEF Held
<1> QED  BY <1>1, <1>2, <1>3, <1>6, CalledIInv

\* modify() keeps the invariant.
LEMMA ModifyKeeps ==
  ASSUME IInv, NEW i \in 0 .. Len(rows) - 1, ModifyRow(i)
  PROVE  IInv'
<1> DEFINE b == [builder EXCEPT !.modifications = Add(@, i)]
           set == dirty \cup {rows[i + 1]}
<1>1. kind # "sorted" /\ Call(b, rows) /\ dirty' = set /\ next' = next
  BY DEF ModifyRow
<1>2. /\ rows \in Seq(Nat) /\ mid \in Seq(Nat) /\ i \in Nat /\ i < Len(rows) /\ next \in Nat
      /\ \A k, l \in DOMAIN rows : rows[k] = rows[l] => k = l
  BY <1>1, RowsFacts DEF Distinct
<1>3. Older(next, set)
  <2>1. rows[i + 1] \in Nat /\ rows[i + 1] < next /\ Older(next, dirty)
    <3>1. i + 1 \in DOMAIN rows
      BY <1>1, <1>2, RowsFacts
    <3> QED  BY <1>1, <3>1, RowsFacts
  <2> QED  BY <2>1 DEF Older
<1>4. Listed(rows, next)
  BY <1>1 DEF IInv
<1>5. ASSUME NEW old, Sound(builder, old, rows, dirty)
      PROVE  /\ Sound(b, old, rows, set)
             /\ b.deletions = builder.deletions /\ b.insertions = builder.insertions
             /\ b.moves = builder.moves /\ b.mapping = builder.mapping
  BY <1>2, <1>5, ModifiedSound
<1> HIDE DEF b, set
<1>6. Held(kind, b, mid, rows, set)
  <2>1. CASE kind = "list"
    <3>1. Good(builder, mid, rows, dirty)
      BY <2>1 DEF IInv, Held
    <3>2. Good(b, mid, rows, set)
      BY <1>5, <3>1 DEF Good
    <3> QED  BY <2>1, <3>2 DEF Held
  <2>2. CASE kind \in {"table", "swapped"}
    <3>1. OnTable(builder, mid, rows, dirty)
      BY <2>2 DEF IInv, Held
    <3>2. OnTable(b, mid, rows, set)
      BY <1>5, <3>1 DEF OnTable
    <3> QED  BY <2>2, <3>2 DEF Held
  <2>3. CASE kind = "linked"
    <3>1. OnLinked(builder, rows, dirty)
      BY <2>3 DEF IInv, Held
    <3>2. OnLinked(b, rows, set)
      BY <1>5, <3>1 DEF OnLinked
    <3> QED  BY <2>3, <3>2 DEF Held
  <2> QED  BY <1>1, <2>1, <2>2, <2>3, AnyKind DEF IInv
<1> QED  BY <1>1, <1>2, <1>3, <1>4, <1>6, CalledIInv

-----------------------------------------------------------------------------
(* The comparison of two sorted lists: the rows in both are paired by their   *)
(* longest matches, and what is outside the matches is deleted and inserted.  *)

\* unshift() of an index is the number of indices below it that are not in the set.
LEMMA UnshiftCounts ==
  ASSUME NEW S \in Indices, NEW x \in Nat
  PROVE  /\ IsFiniteSet((0 .. x - 1) \ S)
         /\ Unshift(S, x) = Cardinality((0 .. x - 1) \ S)
<1>1. IsFiniteSet(0 .. x - 1) /\ Cardinality(0 .. x - 1) = x
  <2>1. 0 \in Int /\ x - 1 \in Int
    OBVIOUS
  <2>2. /\ IsFiniteSet(0 .. x - 1)
        /\ Cardinality(0 .. x - 1) = IF 0 > x - 1 THEN 0 ELSE x - 1 - 0 + 1
    BY <2>1, FS_Interval
  <2> QED  BY <2>2
<1>2. (0 .. x - 1) \cap S = {j \in S : j < x}
  <2>1. S \subseteq Nat
    BY IndicesFinite
  <2>2. \A j \in S : j \in 0 .. x - 1 <=> j < x
    BY <2>1
  <2> QED  BY <2>2
<1> DEFINE T == 0 .. x - 1
<1> HIDE DEF T
<1>3. IsFiniteSet(T \ S) /\ Cardinality(T \ S) = Cardinality(T) - Cardinality(T \cap S)
  BY <1>1, FS_Difference DEF T
<1>4. Cardinality(T) = x /\ T \cap S = {j \in S : j < x}
  BY <1>1, <1>2 DEF T
<1>5. IsFiniteSet(T \ S) /\ Cardinality(T \ S) = x - Cardinality({j \in S : j < x})
  BY <1>3, <1>4
<1> QED  BY <1>5 DEF T, Unshift, Below

\* f maps the indices below n outside I onto those below m outside D, in their order.
InOrder(D, I, n, m, f) ==
  /\ f \in [(0 .. n - 1) \ I -> (0 .. m - 1) \ D]
  /\ \A p, q \in (0 .. n - 1) \ I : p < q => f[p] < f[q]
  /\ \A y \in (0 .. m - 1) \ D : \E x \in (0 .. n - 1) \ I : f[x] = y

\* Such a map keeps the number of indices before each of them.
LEMMA OrderUnshift ==
  ASSUME NEW D \in Indices, NEW I \in Indices, NEW n \in Nat, NEW m \in Nat,
         NEW f, InOrder(D, I, n, m, f), NEW x \in (0 .. n - 1) \ I
  PROVE  Unshift(I, x) = Unshift(D, f[x])
<1> DEFINE A == (0 .. x - 1) \ I
           B == (0 .. f[x] - 1) \ D
           g == [a \in A |-> f[a]]
<1>0. /\ f \in [(0 .. n - 1) \ I -> (0 .. m - 1) \ D]
      /\ \A p, q \in (0 .. n - 1) \ I : p < q => f[p] < f[q]
      /\ \A y \in (0 .. m - 1) \ D : \E z \in (0 .. n - 1) \ I : f[z] = y
  BY DEF InOrder
<1>1. x \in Nat /\ f[x] \in (0 .. m - 1) \ D /\ f[x] \in Nat
  BY <1>0
<1>2. IsFiniteSet(A) /\ Unshift(I, x) = Cardinality(A)
  BY <1>1, UnshiftCounts
<1>3. Unshift(D, f[x]) = Cardinality(B)
  BY <1>1, UnshiftCounts
<1>4. \A a \in A : a \in (0 .. n - 1) \ I /\ a < x
  OBVIOUS
<1>5. \A a \in A : f[a] \in B
  <2> SUFFICES ASSUME NEW a \in A PROVE f[a] \in B
    OBVIOUS
  <2>1. a \in (0 .. n - 1) \ I /\ f[a] < f[x]
    BY <1>0, <1>4
  <2> QED  BY <1>0, <1>1, <2>1
<1>6. \A y \in B : \E a \in A : f[a] = y
  <2> SUFFICES ASSUME NEW y \in B PROVE \E a \in A : f[a] = y
    OBVIOUS
  <2>1. y \in (0 .. m - 1) \ D /\ y < f[x]
    BY <1>1
  <2>2. PICK a \in (0 .. n - 1) \ I : f[a] = y
    BY <1>0, <2>1
  <2>3. ~(x < a) /\ a # x
    BY <1>0, <2>1, <2>2
  <2>4. a \in A
    BY <2>2, <2>3
  <2> QED  BY <2>2, <2>4
<1>7. \A a, c \in A : f[a] = f[c] => a = c
  <2> SUFFICES ASSUME NEW a \in A, NEW c \in A, f[a] = f[c] PROVE a = c
    OBVIOUS
  <2>1. a \in (0 .. n - 1) \ I /\ c \in (0 .. n - 1) \ I
    BY <1>4
  <2>2. ~(a < c) /\ ~(c < a)
    BY <1>0, <1>5, <2>1
  <2> QED  BY <2>1, <2>2
<1> HIDE DEF A, B
<1>8. g \in Bijection(A, B)
  <2>1. g \in [A -> B] /\ \A a \in A : g[a] = f[a]
    BY <1>5
  <2> HIDE DEF g
  <2>2. g \in Injection(A, B)
    BY <1>7, <2>1 DEF Injection, IsInjective
  <2>3. g \in Surjection(A, B)
    BY <1>6, <2>1 DEF Surjection
  <2> QED  BY <2>2, <2>3 DEF Bijection
<1>9. Cardinality(A) = Cardinality(B)
  BY <1>2, <1>8, FS_Bijection DEF ExistsBijection
<1> QED  BY <1>2, <1>3, <1>9

\* Two lists that hold the same rows, in the same order, outside two sets.
Aligned(D, I, old, new, f) ==
  /\ InOrder(D, I, Len(new), Len(old), f)
  /\ \A x \in (0 .. Len(new) - 1) \ I : new[x + 1] = old[f[x] + 1]

\* Such lists are paired.
LEMMA AlignedPairs ==
  ASSUME NEW D \in Indices, NEW I \in Indices, NEW R, NEW old \in Seq(R), NEW new \in Seq(R),
         NEW f, Aligned(D, I, old, new, f)
  PROVE  Pairs(D, I, old, new)
<1> DEFINE n == Len(new)
           m == Len(old)
           X == (0 .. n - 1) \ I
           Y == (0 .. m - 1) \ D
<1>1. n \in Nat /\ m \in Nat
  OBVIOUS
<1>2. InOrder(D, I, n, m, f) /\ \A x \in X : new[x + 1] = old[f[x] + 1]
  BY DEF Aligned
<1> HIDE DEF n, m
<1>3. \A x \in X : Unshift(I, x) = Unshift(D, f[x])
  BY <1>1, <1>2, OrderUnshift
<1>6. f \in [X -> Y] /\ \A y \in Y : \E x \in X : f[x] = y
  BY <1>2 DEF InOrder
<1> SUFFICES ASSUME NEW x \in Nat \ I, NEW y \in Nat \ D, Unshift(I, x) = Unshift(D, y)
             PROVE  /\ x < n <=> y < m
                    /\ x < n => new[x + 1] = old[y + 1]
  BY DEF Pairs, n, m
<1>4. ASSUME x < n PROVE y < m /\ new[x + 1] = old[y + 1]
  <2>1. x \in X /\ f[x] \in Y
    BY <1>1, <1>4, <1>6
  <2>2. f[x] \in Nat \ D /\ Unshift(D, f[x]) = Unshift(D, y)
    BY <1>1, <1>3, <2>1
  <2>3. f[x] = y
    BY <2>2, UnshiftInjective
  <2> QED  BY <1>1, <1>2, <2>1, <2>3
<1>5. ASSUME y < m PROVE x < n
  <2>1. y \in Y
    BY <1>1, <1>5
  <2>2. PICK p \in X : f[p] = y
    BY <1>6, <2>1
  <2>3. p \in Nat \ I /\ Unshift(I, p) = Unshift(I, x)
    BY <1>1, <1>3, <2>2
  <2>4. p = x
    BY <2>3, UnshiftInjective
  <2> QED  BY <1>1, <2>2, <2>4
<1> QED  BY <1>4, <1>5

\* The index of an element that occurs once.
LEMMA IndexOfIs ==
  ASSUME NEW s, NEW k \in DOMAIN s, \A l \in DOMAIN s : s[l] = s[k] => l = k
  PROVE  IndexOf(s, s[k]) = k - 1
BY DEF IndexOf

\* What the rows found in both lists tell: where they are and were, in the
\* order in which they are now.
InBoth(kept, prev, new) ==
  /\ Len(kept) \in Nat /\ DOMAIN kept = 1 .. Len(kept)
  /\ \A k \in DOMAIN kept :
       /\ kept[k].tv \in Nat /\ kept[k].tv < Len(new) /\ new[kept[k].tv + 1] = kept[k].row
       /\ kept[k].prev \in Nat /\ kept[k].prev < Len(prev)
       /\ prev[kept[k].prev + 1] = kept[k].row
  /\ \A k, l \in DOMAIN kept : k < l => kept[k].tv < kept[l].tv
  /\ \A p \in DOMAIN new : new[p] \in ToSet(prev) => \E k \in DOMAIN kept : kept[k].tv = p - 1

\* The indices of the rows that were not in the list before.
Newcomers(prev, new) == Where(new, LAMBDA r : r \notin ToSet(prev))

\* Which they are.
LEMMA NewcomersIs ==
  ASSUME NEW R, NEW new \in Seq(R), NEW prev
  PROVE  /\ Newcomers(prev, new) \in Indices
         /\ \A x \in Newcomers(prev, new) : x < Len(new)
         /\ \A x \in Nat : x < Len(new) => (x \in Newcomers(prev, new) <=> new[x + 1] \notin ToSet(prev))
<1> DEFINE T == {k - 1 : k \in {l \in DOMAIN new : new[l] \notin ToSet(prev)}}
<1>1. Newcomers(prev, new) = T
  BY DEF Newcomers, Where
<1>2. Len(new) \in Nat /\ DOMAIN new = 1 .. Len(new)
  BY SeqLen
<1>3. \A x \in T : x \in Nat /\ x < Len(new) /\ new[x + 1] \notin ToSet(prev)
  BY <1>2
<1>4. \A x \in Nat : x < Len(new) /\ new[x + 1] \notin ToSet(prev) => x \in T
  <2> SUFFICES ASSUME NEW x \in Nat, x < Len(new), new[x + 1] \notin ToSet(prev) PROVE x \in T
    OBVIOUS
  <2>1. x + 1 \in {l \in DOMAIN new : new[l] \notin ToSet(prev)} /\ x = (x + 1) - 1
    BY <1>2
  <2> QED  BY <2>1
<1> HIDE DEF T
<1>5. T \in Indices
  <2>1. T \in SUBSET Nat /\ \A x \in T : x <= Len(new)
    BY <1>2, <1>3
  <2> QED  BY <1>2, <2>1 DEF Indices
<1> QED  BY <1>1, <1>3, <1>4, <1>5

\* The rows kept are those in both lists.
LEMMA KeptIs ==
  ASSUME NEW R, NEW prev \in Seq(R), NEW new \in Seq(R), Distinct(new)
  PROVE  InBoth(Kept(prev, new), prev, new)
<1> DEFINE T == Newcomers(prev, new)
           rest == Rest(new, T)
           info(r) == [row |-> r, prev |-> IndexOf(prev, r), tv |-> IndexOf(new, r),
                       shifted |-> Unshift(Gone(prev), IndexOf(prev, r))]
           kept == [k \in DOMAIN rest |-> info(rest[k])]
<1>1. Kept(prev, new) = kept
  BY DEF Kept, Map, Newcomers
<1>2. /\ T \in Indices
      /\ \A x \in Nat : x < Len(new) => (x \in T <=> new[x + 1] \notin ToSet(prev))
  BY NewcomersIs
<1> HIDE DEF T
<1>3. /\ rest \in Seq(R)
      /\ \A k \in DOMAIN rest : \E p \in DOMAIN new :
            /\ p - 1 \notin T /\ rest[k] = new[p] /\ Unshift(T, p - 1) = k - 1
      /\ \A p \in DOMAIN new : p - 1 \notin T => \E k \in DOMAIN rest : rest[k] = new[p]
  BY <1>2, RestFacts
<1>4. /\ Len(new) \in Nat /\ DOMAIN new = 1 .. Len(new)
      /\ Len(prev) \in Nat /\ DOMAIN prev = 1 .. Len(prev)
      /\ \A p \in DOMAIN new : p - 1 \in Nat /\ p - 1 < Len(new) /\ (p - 1) + 1 = p
  BY SeqLen
<1> HIDE DEF rest
<1>5. Len(rest) \in Nat /\ DOMAIN rest = 1 .. Len(rest)
  BY <1>3, SeqLen
<1>6. DOMAIN kept = 1 .. Len(rest) /\ Len(kept) = Len(rest)
  BY <1>5
<1>7. \A k \in DOMAIN kept : /\ kept[k].row = rest[k] /\ kept[k].prev = IndexOf(prev, rest[k])
                             /\ kept[k].tv = IndexOf(new, rest[k])
  BY <1>5, <1>6
<1> HIDE DEF kept
<1>8. \A p \in DOMAIN new : IndexOf(new, new[p]) = p - 1
  BY IndexOfIs DEF Distinct
<1>9. ASSUME NEW k \in DOMAIN kept
      PROVE  \E p \in DOMAIN new : /\ p - 1 \notin T /\ Unshift(T, p - 1) = k - 1
                                   /\ kept[k].tv = p - 1 /\ kept[k].row = new[p]
  <2>1. PICK p \in DOMAIN new : p - 1 \notin T /\ rest[k] = new[p] /\ Unshift(T, p - 1) = k - 1
    BY <1>3, <1>5, <1>6
  <2> QED  BY <1>7, <1>8, <2>1
<1>10. ASSUME NEW k \in DOMAIN kept
       PROVE  /\ kept[k].tv \in Nat /\ kept[k].tv < Len(new) /\ new[kept[k].tv + 1] = kept[k].row
              /\ kept[k].prev \in Nat /\ kept[k].prev < Len(prev)
              /\ prev[kept[k].prev + 1] = kept[k].row
  <2>1. PICK p \in DOMAIN new : p - 1 \notin T /\ kept[k].tv = p - 1 /\ kept[k].row = new[p]
    BY <1>9
  <2>2. kept[k].row \in ToSet(prev)
    BY <1>2, <1>4, <2>1
  <2>3. PICK q \in DOMAIN prev : prev[q] = kept[k].row /\ IndexOf(prev, kept[k].row) = q - 1
    <3>1. \E q \in DOMAIN prev : prev[q] = kept[k].row
      BY <2>2 DEF ToSet
    <3> QED  BY <3>1 DEF IndexOf
  <2>4. q \in 1 .. Len(prev) /\ kept[k].prev = q - 1
    BY <1>4, <1>7, <2>3
  <2>5. kept[k].prev \in Nat /\ kept[k].prev < Len(prev) /\ kept[k].prev + 1 = q
    BY <1>4, <2>4
  <2>6. kept[k].tv \in Nat /\ kept[k].tv < Len(new) /\ kept[k].tv + 1 = p
    BY <1>4, <2>1
  <2> QED  BY <2>1, <2>3, <2>5, <2>6
<1>11. ASSUME NEW k \in DOMAIN kept, NEW l \in DOMAIN kept, k < l
       PROVE  kept[k].tv < kept[l].tv
  <2>1. PICK p \in DOMAIN new : Unshift(T, p - 1) = k - 1 /\ kept[k].tv = p - 1
    BY <1>9
  <2>2. PICK q \in DOMAIN new : Unshift(T, q - 1) = l - 1 /\ kept[l].tv = q - 1
    BY <1>9
  <2>3. p - 1 \in Nat /\ q - 1 \in Nat /\ k \in Nat /\ l \in Nat
    BY <1>4, <1>5, <1>6
  <2>4. ~(q - 1 <= p - 1)
    <3> SUFFICES ASSUME q - 1 <= p - 1 PROVE FALSE
      OBVIOUS
    <3>1. Unshift(T, q - 1) <= Unshift(T, p - 1)
      BY <1>2, <2>3, UnshiftGrows
    <3> QED  BY <1>11, <2>1, <2>2, <2>3, <3>1
  <2> QED  BY <2>1, <2>2, <2>3, <2>4
<1>12. ASSUME NEW p \in DOMAIN new, new[p] \in ToSet(prev)
       PROVE  \E k \in DOMAIN kept : kept[k].tv = p - 1
  <2>1. p - 1 \notin T
    BY <1>2, <1>4, <1>12
  <2>2. PICK k \in DOMAIN rest : rest[k] = new[p]
    BY <1>3, <2>1
  <2> QED  BY <1>5, <1>6, <1>7, <1>8, <2>2
<1> QED  BY <1>1, <1>5, <1>6, <1>10, <1>11, <1>12 DEF InBoth

\* Each row is kept once.
LEMMA KeptOnce ==
  ASSUME NEW kept, NEW prev, NEW R, NEW new \in Seq(R), Distinct(new), InBoth(kept, prev, new),
         NEW k \in DOMAIN kept, NEW l \in DOMAIN kept,
         kept[k].row = kept[l].row \/ kept[k].prev = kept[l].prev
  PROVE  k = l
<1>1. kept[k].row = kept[l].row
  BY DEF InBoth
<1>2. /\ kept[k].tv \in Nat /\ kept[k].tv < Len(new) /\ new[kept[k].tv + 1] = kept[k].row
      /\ kept[l].tv \in Nat /\ kept[l].tv < Len(new) /\ new[kept[l].tv + 1] = kept[l].row
  BY DEF InBoth
<1>3. kept[k].tv + 1 \in DOMAIN new /\ kept[l].tv + 1 \in DOMAIN new
  BY <1>2, SeqLen
<1>4. kept[k].tv + 1 = kept[l].tv + 1
  BY <1>1, <1>2, <1>3 DEF Distinct
<1>5. ~(k < l) /\ ~(l < k)
  BY <1>2, <1>4 DEF InBoth
<1>6. k \in Nat /\ l \in Nat
  BY DEF InBoth
<1> QED  BY <1>5, <1>6

\* The rows kept, in the order of where they were.
Reordered(a, kept) ==
  /\ DOMAIN a = DOMAIN kept
  /\ \A i \in DOMAIN a : \E k \in DOMAIN kept : a[i] = kept[k]
  /\ \A k \in DOMAIN kept : \E i \in DOMAIN a : a[i] = kept[k]
  /\ \A i, l \in DOMAIN a : i < l => a[i].prev < a[l].prev

\* Sorting by the old index gives that order.
LEMMA ByPrevIs ==
  ASSUME NEW kept, NEW prev, NEW R, NEW new \in Seq(R), Distinct(new), InBoth(kept, prev, new),
         Len(prev) \in Nat
  PROVE  Reordered(ByPrev(kept), kept)
<1> DEFINE F == {r.prev : r \in ToSet(kept)}
           n == Len(kept)
           at(i) == CHOOSE r \in ToSet(kept) : Below(F, r.prev) = i - 1
           a == [i \in DOMAIN kept |-> at(i)]
           g == [k \in 1 .. n |-> kept[k].prev]
<1>1. ByPrev(kept) = a
  BY DEF ByPrev
<1>2. /\ n \in Nat /\ DOMAIN kept = 1 .. n
      /\ \A k \in DOMAIN kept : kept[k].prev \in Nat /\ kept[k].prev < Len(prev)
  BY DEF InBoth
<1>3. /\ \A r \in ToSet(kept) : \E k \in DOMAIN kept : r = kept[k]
      /\ \A k \in DOMAIN kept : kept[k] \in ToSet(kept)
  BY DEF ToSet
<1>4. /\ \A k \in DOMAIN kept : kept[k].prev \in F
      /\ \A x \in F : \E k \in DOMAIN kept : kept[k].prev = x
  BY <1>3
<1> HIDE DEF F, n
<1>5. F \in Indices
  <2>1. F \in SUBSET Nat /\ \A x \in F : x <= Len(prev)
    BY <1>2, <1>4
  <2> QED  BY <2>1 DEF Indices
<1>6. \A k, l \in DOMAIN kept : kept[k].prev = kept[l].prev => k = l
  BY KeptOnce
<1>7. Cardinality(F) = n
  <2>1. g \in [1 .. n -> F] /\ \A k \in 1 .. n : g[k] = kept[k].prev
    BY <1>2, <1>4
  <2> HIDE DEF g
  <2>2. g \in Injection(1 .. n, F)
    BY <1>2, <1>6, <2>1 DEF Injection, IsInjective
  <2>3. g \in Surjection(1 .. n, F)
    BY <1>2, <1>4, <2>1 DEF Surjection
  <2>4. ExistsBijection(1 .. n, F)
    BY <2>2, <2>3 DEF Bijection, ExistsBijection
  <2>5. IsFiniteSet(1 .. n) /\ Cardinality(1 .. n) = n
    <3>1. 1 \in Int /\ n \in Int
      BY <1>2
    <3>2. IsFiniteSet(1 .. n) /\ Cardinality(1 .. n) = IF 1 > n THEN 0 ELSE n - 1 + 1
      BY <3>1, FS_Interval
    <3> QED  BY <1>2, <3>2
  <2> QED  BY <2>4, <2>5, FS_Bijection
<1>8. ASSUME NEW i \in DOMAIN kept PROVE at(i) \in ToSet(kept) /\ Below(F, at(i).prev) = i - 1
  <2>1. i - 1 \in Nat /\ i - 1 < Cardinality(F)
    BY <1>2, <1>7
  <2>2. PICK x \in F : Below(F, x) = i - 1
    BY <1>5, <2>1, BelowReaches
  <2>3. PICK k \in DOMAIN kept : kept[k].prev = x
    BY <1>4
  <2> QED  BY <1>3, <2>2, <2>3
<1>9. \A i \in DOMAIN kept : a[i] \in ToSet(kept) /\ Below(F, a[i].prev) = i - 1
  BY <1>8
<1>10. DOMAIN a = DOMAIN kept
  OBVIOUS
<1> HIDE DEF a
<1>11. \A i \in DOMAIN a : \E k \in DOMAIN kept : a[i] = kept[k]
  BY <1>3, <1>9, <1>10
<1>12. ASSUME NEW k \in DOMAIN kept PROVE \E i \in DOMAIN a : a[i] = kept[k]
  <2>1. kept[k].prev \in F /\ kept[k].prev \in Nat
    BY <1>2, <1>4
  <2>2. Below(F, kept[k].prev) \in Nat /\ Below(F, kept[k].prev) < n
    <3>1. Below(F, kept[k].prev) \in 0 .. kept[k].prev
      BY <1>5, <2>1, BelowType
    <3>2. Below(F, kept[k].prev) < Cardinality(F)
      BY <1>5, <2>1, BelowMember
    <3> QED  BY <1>7, <2>1, <3>1, <3>2
  <2>3. PICK i \in DOMAIN kept : i - 1 = Below(F, kept[k].prev)
    <3>1. Below(F, kept[k].prev) + 1 \in DOMAIN kept
      BY <1>2, <2>2
    <3> QED  BY <2>2, <3>1
  <2>4. Below(F, a[i].prev) = Below(F, kept[k].prev)
    BY <1>9, <2>3
  <2>5. PICK l \in DOMAIN kept : a[i] = kept[l]
    BY <1>10, <1>11
  <2>6. kept[l].prev = kept[k].prev
    BY <1>4, <1>5, <2>1, <2>4, <2>5, BelowMember
  <2> QED  BY <1>6, <1>10, <2>5, <2>6
<1>13. ASSUME NEW i \in DOMAIN a, NEW l \in DOMAIN a, i < l PROVE a[i].prev < a[l].prev
  <2>1. a[i].prev \in Nat /\ a[l].prev \in Nat
    BY <1>2, <1>11
  <2>2. i \in Nat /\ l \in Nat /\ Below(F, a[i].prev) = i - 1 /\ Below(F, a[l].prev) = l - 1
    BY <1>2, <1>9, <1>10
  <2>3. ~(a[l].prev <= a[i].prev)
    <3> SUFFICES ASSUME a[l].prev <= a[i].prev PROVE FALSE
      OBVIOUS
    <3> DEFINE P == {j \in F : j < a[l].prev}
               Q == {j \in F : j < a[i].prev}
    <3>1. F \subseteq Nat /\ IsFiniteSet(F)
      BY <1>5, IndicesFinite
    <3>2. P \in SUBSET Q
      <4>1. \A j \in F : j < a[l].prev => j < a[i].prev
        BY <2>1, <3>1
      <4> QED  BY <4>1
    <3>3. IsFiniteSet(Q)
      BY <3>1, FS_Subset
    <3>4. Cardinality(P) <= Cardinality(Q)
      BY <3>2, <3>3, FS_Subset
    <3>5. Cardinality(P) = l - 1 /\ Cardinality(Q) = i - 1
      BY <2>2 DEF Below
    <3> QED  BY <1>13, <2>2, <3>4, <3>5
  <2> QED  BY <2>1, <2>3
<1> QED  BY <1>1, <1>10, <1>11, <1>12, <1>13 DEF Reordered

\* Where the rows of a, which are those kept, are among them.
Places(kept, a) ==
  [i \in 0 .. Len(kept) - 1 |-> (CHOOSE k \in 1 .. Len(kept) : kept[k].row = a[i + 1].row) - 1]

\* Each of them has a place.
LEMMA PlacesAre ==
  ASSUME NEW kept, NEW prev, NEW R, NEW new \in Seq(R), Distinct(new), InBoth(kept, prev, new),
         NEW a, Reordered(a, kept)
  PROVE  /\ DOMAIN Places(kept, a) = 0 .. Len(kept) - 1
         /\ \A i \in 0 .. Len(kept) - 1 : /\ Places(kept, a)[i] \in 0 .. Len(kept) - 1
                                          /\ kept[Places(kept, a)[i] + 1] = a[i + 1]
<1>1. Len(kept) \in Nat /\ DOMAIN kept = 1 .. Len(kept)
  BY DEF InBoth
<1>2. \A k, l \in DOMAIN kept : kept[k].row = kept[l].row => k = l
  BY KeptOnce
<1> SUFFICES ASSUME NEW i \in 0 .. Len(kept) - 1
             PROVE  /\ Places(kept, a)[i] \in 0 .. Len(kept) - 1
                    /\ kept[Places(kept, a)[i] + 1] = a[i + 1]
  BY DEF Places
<1>3. PICK k \in DOMAIN kept : a[i + 1] = kept[k]
  <2>1. i + 1 \in DOMAIN a
    BY <1>1 DEF Reordered
  <2> QED  BY <2>1 DEF Reordered
<1>4. (CHOOSE l \in 1 .. Len(kept) : kept[l].row = a[i + 1].row) = k
  BY <1>1, <1>2, <1>3
<1>5. Places(kept, a)[i] = k - 1
  BY <1>4 DEF Places
<1> QED  BY <1>1, <1>3, <1>5

-----------------------------------------------------------------------------
(* The longest match of two orders of the rows, in a window of both.          *)

Within(j, w, i) == i \in w.b1 .. w.e1 - 1 /\ j[i] \in w.b2 .. w.e2 - 1
Run(j, w, i) ==
  Max({l \in 1 .. i - w.b1 + 1 : \A k \in 0 .. l - 1 : Within(j, w, i - k) /\ j[i - k] = j[i] - k})
CountIn(mods, from, to) == IF from < 0 THEN 0 ELSE Cardinality(mods \cap from .. to - 1)
EndingAt(j, w, i, modified) ==
  [i |-> i - Run(j, w, i) + 1, j |-> j[i] - Run(j, w, i) + 1,
   size |-> Run(j, w, i), modified |-> modified]
BestStep(j, mods, w, best, i) ==
  LET m == IF best.modified = -1 THEN CountIn(mods, best.j - Run(j, w, i) + 1, best.j + 1)
           ELSE best.modified
      c == CountIn(mods, j[i] - Run(j, w, i) + 1, j[i] + 1)
  IN CASE Run(j, w, i) > best.size -> EndingAt(j, w, i, -1)
       [] Run(j, w, i) = best.size /\ c < m -> EndingAt(j, w, i, c)
       [] Run(j, w, i) = best.size /\ c >= m -> [best EXCEPT !.modified = m]
       [] OTHER -> best
BestBody(g, j, mods, w, e) ==
  IF e = w.b1 THEN [i |-> w.b1, j |-> w.b2, size |-> 0, modified |-> 0]
  ELSE IF Within(j, w, e - 1) THEN BestStep(j, mods, w, g[e - 1], e - 1) ELSE g[e - 1]
Bests(g, j, mods, w, n) ==
  g = [e \in w.b1 .. n |-> g[e]] /\ \A e \in w.b1 .. n : g[e] = BestBody(g, j, mods, w, e)

\* A window: rows b1 .. e1 - 1 of one order, b2 .. e2 - 1 of the other.
Window(w, j) ==
  /\ w.b1 \in Nat /\ w.e1 \in Nat /\ w.b2 \in Nat /\ w.e2 \in Nat /\ w.b1 <= w.e1
  /\ \A i \in w.b1 .. w.e1 - 1 : j[i] \in Nat

\* m is a match inside the window, if it is not empty.
IsMatch(m, w, j) ==
  /\ m \in [i : Nat, j : Nat, size : Nat, modified : {m.modified}]
  /\ m.size # 0 => /\ w.b1 <= m.i /\ m.i + m.size <= w.e1
                   /\ w.b2 <= m.j /\ m.j + m.size <= w.e2
                   /\ \A k \in 0 .. m.size - 1 : j[m.i + k] = m.j + k

\* The run that ends at a row: as many rows before it as follow one another.
LEMMA RunIs ==
  ASSUME NEW w, NEW j, Window(w, j), NEW i, Within(j, w, i)
  PROVE  /\ Run(j, w, i) \in 1 .. i - w.b1 + 1
         /\ \A k \in 0 .. Run(j, w, i) - 1 : Within(j, w, i - k) /\ j[i - k] = j[i] - k
<1> DEFINE L == {l \in 1 .. i - w.b1 + 1 :
                   \A k \in 0 .. l - 1 : Within(j, w, i - k) /\ j[i - k] = j[i] - k}
<1>1. i \in w.b1 .. w.e1 - 1 /\ w.b1 \in Nat /\ w.e1 \in Nat /\ j[i] \in Nat
  BY DEF Window, Within
<1>2. 1 \in L
  <2>1. \A k \in 0 .. 1 - 1 : k = 0 /\ i - k = i /\ j[i] - k = j[i]
    BY <1>1
  <2> QED  BY <1>1, <2>1
<1>3. L \in SUBSET (0 .. i - w.b1 + 1) /\ i - w.b1 + 1 \in Nat
  BY <1>1
<1>4. PICK x \in L : \A y \in L : y <= x
  <2> HIDE DEF L
  <2> QED  BY <1>2, <1>3, GreatestNat
<1>5. \A y \in L : x >= y
  BY <1>1, <1>4
<1>6. Max(L) \in L
  <2> HIDE DEF L
  <2> QED  BY <1>4, <1>5 DEF Max
<1>7. Run(j, w, i) = Max(L)
  BY DEF Run
<1> DEFINE r == Max(L)
<1> HIDE DEF r
<1>8. r \in 1 .. i - w.b1 + 1 /\ \A k \in 0 .. r - 1 : Within(j, w, i - k) /\ j[i - k] = j[i] - k
  BY <1>6 DEF r
<1> QED  BY <1>7, <1>8 DEF r

\* It is a match.
LEMMA EndingAtIs ==
  ASSUME NEW w, NEW j, Window(w, j), NEW i, Within(j, w, i), NEW modified
  PROVE  IsMatch(EndingAt(j, w, i, modified), w, j)
<1> DEFINE r == Run(j, w, i)
           m == EndingAt(j, w, i, modified)
<1>1. r \in 1 .. i - w.b1 + 1 /\ \A k \in 0 .. r - 1 : Within(j, w, i - k) /\ j[i - k] = j[i] - k
  BY RunIs
<1>2. m = [i |-> i - r + 1, j |-> j[i] - r + 1, size |-> r, modified |-> modified]
  BY DEF EndingAt
<1> HIDE DEF r, m
<1>3. /\ w.b1 \in Nat /\ w.e1 \in Nat /\ w.b2 \in Nat /\ w.e2 \in Nat
      /\ i \in w.b1 .. w.e1 - 1 /\ j[i] \in w.b2 .. w.e2 - 1
  BY DEF Window, Within
<1>4. r - 1 \in 0 .. r - 1 /\ j[i - (r - 1)] = j[i] - (r - 1)
      /\ i - (r - 1) \in w.b1 .. w.e1 - 1 /\ j[i - (r - 1)] \in w.b2 .. w.e2 - 1
  <2>1. r - 1 \in 0 .. r - 1
    BY <1>1, <1>3
  <2> QED  BY <1>1, <2>1 DEF Within
<1>5. /\ m.i = i - r + 1 /\ m.j = j[i] - r + 1 /\ m.size = r
      /\ m \in [i : {m.i}, j : {m.j}, size : {m.size}, modified : {m.modified}]
  BY <1>2
<1>6. /\ m.i \in Nat /\ m.j \in Nat /\ m.size \in Nat
      /\ w.b1 <= m.i /\ m.i + m.size <= w.e1 /\ w.b2 <= m.j /\ m.j + m.size <= w.e2
  BY <1>1, <1>3, <1>4, <1>5
<1>7. ASSUME NEW k \in 0 .. m.size - 1 PROVE j[m.i + k] = m.j + k
  <2>1. (r - 1) - k \in 0 .. r - 1 /\ i - ((r - 1) - k) = m.i + k /\ j[i] - ((r - 1) - k) = m.j + k
    BY <1>1, <1>3, <1>5
  <2>2. j[i - ((r - 1) - k)] = j[i] - ((r - 1) - k)
    BY <1>1, <2>1
  <2> QED  BY <2>1, <2>2
<1>8. m \in [i : Nat, j : Nat, size : Nat, modified : {m.modified}]
  BY <1>5, <1>6
<1> QED  BY <1>6, <1>7, <1>8 DEF IsMatch, m

\* The best match so far is one.
LEMMA BestStepIs ==
  ASSUME NEW w, NEW j, Window(w, j), NEW i, Within(j, w, i), NEW mods,
         NEW best, IsMatch(best, w, j)
  PROVE  IsMatch(BestStep(j, mods, w, best, i), w, j)
<1> DEFINE b == BestStep(j, mods, w, best, i)
<1>1. \/ \E x : b = EndingAt(j, w, i, x)
      \/ \E x : b = [best EXCEPT !.modified = x]
      \/ b = best
  <2> DEFINE m == IF best.modified = -1 THEN CountIn(mods, best.j - Run(j, w, i) + 1, best.j + 1)
                  ELSE best.modified
             c == CountIn(mods, j[i] - Run(j, w, i) + 1, j[i] + 1)
             P == Run(j, w, i) > best.size
             Q == Run(j, w, i) = best.size /\ c < m
             S == Run(j, w, i) = best.size /\ c >= m
  <2>1. b = CASE P -> EndingAt(j, w, i, -1) [] Q -> EndingAt(j, w, i, c)
              [] S -> [best EXCEPT !.modified = m] [] OTHER -> best
    BY DEF BestStep
  <2> HIDE DEF b, m, c, P, Q, S
  <2>2. \/ b = EndingAt(j, w, i, -1) \/ b = EndingAt(j, w, i, c)
        \/ b = [best EXCEPT !.modified = m] \/ b = best
    BY <2>1
  <2> QED  BY <2>2
<1> HIDE DEF b
<1>2. ASSUME NEW x, b = [best EXCEPT !.modified = x] PROVE IsMatch(b, w, j)
  <2>1. best \in [i : Nat, j : Nat, size : Nat, modified : {best.modified}]
    BY DEF IsMatch
  <2>2. /\ b \in [i : Nat, j : Nat, size : Nat, modified : {b.modified}]
        /\ b.i = best.i /\ b.j = best.j /\ b.size = best.size
    BY <1>2, <2>1
  <2> QED  BY <2>2 DEF IsMatch
<1>3. IsMatch(b, w, j)
  BY <1>1, <1>2, EndingAtIs
<1> QED  BY <1>3 DEF b

\* The recursive function of the best match exists one row further ...
LEMMA BestExtend ==
  ASSUME NEW w, NEW j, Window(w, j), NEW mods, NEW n \in Nat, w.b1 < n,
         NEW g, Bests(g, j, mods, w, n - 1)
  PROVE  \E h : Bests(h, j, mods, w, n)
<1> DEFINE last == BestBody(g, j, mods, w, n)
           h == [e \in w.b1 .. n |-> IF e = n THEN last ELSE g[e]]
<1>0. w.b1 \in Nat
  BY DEF Window
<1>1. \A e \in w.b1 .. n - 1 : g[e] = BestBody(g, j, mods, w, e)
  BY DEF Bests
<1> HIDE DEF last
<1>2. h = [e \in w.b1 .. n |-> h[e]]
  OBVIOUS
<1>3. \A e \in w.b1 .. n : h[e] = IF e = n THEN last ELSE g[e]
  OBVIOUS
<1> HIDE DEF h
<1>4. ASSUME NEW e \in w.b1 .. n PROVE h[e] = BestBody(h, j, mods, w, e)
  <2>1. CASE e = w.b1
    <3>1. h[e] = g[e] /\ g[e] = BestBody(g, j, mods, w, e)
      BY <1>0, <1>1, <1>3, <2>1
    <3> QED  BY <2>1, <3>1 DEF BestBody
  <2>2. CASE e # w.b1 /\ e = n
    <3>1. h[e] = last /\ h[e - 1] = g[e - 1]
      BY <1>0, <1>3, <2>2
    <3> QED  BY <2>2, <3>1 DEF BestBody, last
  <2>3. CASE e # w.b1 /\ e # n
    <3>1. h[e] = g[e] /\ h[e - 1] = g[e - 1] /\ g[e] = BestBody(g, j, mods, w, e)
      BY <1>0, <1>1, <1>3, <2>3
    <3> QED  BY <2>3, <3>1 DEF BestBody
  <2> QED  BY <2>1, <2>2, <2>3
<1> QED  BY <1>2, <1>4 DEF Bests

\* ... so it exists, and what it finds is a match.
LEMMA LongestMatchIs ==
  ASSUME NEW w, NEW j, Window(w, j), NEW mods
  PROVE  IsMatch(LongestMatch(j, mods, w), w, j)
<1> DEFINE d == w.e1 - w.b1
           T == {m \in 0 .. d : \E g : Bests(g, j, mods, w, w.b1 + m)}
           start == [i |-> w.b1, j |-> w.b2, size |-> 0, modified |-> 0]
           Rec(g) == g = [e \in w.b1 .. w.e1 |->
                            IF e = w.b1 THEN start
                            ELSE IF Within(j, w, e - 1)
                                 THEN BestStep(j, mods, w, g[e - 1], e - 1) ELSE g[e - 1]]
           best == CHOOSE g : Rec(g)
<1>0. w.b1 \in Nat /\ w.e1 \in Nat /\ w.b2 \in Nat /\ d \in Nat /\ w.b1 + d = w.e1
  BY DEF Window
<1>1. 0 .. d \subseteq T
  <2>1. 0 \in T
    <3> DEFINE g == [e \in w.b1 .. w.b1 + 0 |-> start]
    <3>1. /\ g = [e \in w.b1 .. w.b1 + 0 |-> g[e]]
          /\ \A e \in w.b1 .. w.b1 + 0 : g[e] = start /\ e = w.b1
      BY <1>0
    <3> HIDE DEF g
    <3>2. Bests(g, j, mods, w, w.b1 + 0)
      BY <3>1 DEF Bests, BestBody
    <3> QED  BY <1>0, <3>2
  <2>2. ASSUME NEW m \in 1 .. d, m - 1 \in T PROVE m \in T
    <3>1. w.b1 + m \in Nat /\ w.b1 < w.b1 + m /\ m \in 0 .. d /\ w.b1 + (m - 1) = (w.b1 + m) - 1
      BY <1>0
    <3>2. PICK g : Bests(g, j, mods, w, w.b1 + (m - 1))
      BY <2>2
    <3>3. \E h : Bests(h, j, mods, w, w.b1 + m)
      BY <3>1, <3>2, BestExtend
    <3> QED  BY <3>1, <3>3
  <2> HIDE DEF T, d
  <2> QED  BY <1>0, <2>1, <2>2, UpTo
<1>2. PICK g : Bests(g, j, mods, w, w.e1)
  <2>1. d \in T
    BY <1>0, <1>1
  <2> QED  BY <1>0, <2>1
<1>3. Rec(g)
  <2>1. g = [e \in w.b1 .. w.e1 |-> g[e]] /\ \A e \in w.b1 .. w.e1 : g[e] = BestBody(g, j, mods, w, e)
    BY <1>2 DEF Bests
  <2> QED  BY <2>1 DEF BestBody
<1>4. Rec(best)
  BY <1>3
<1>5. LongestMatch(j, mods, w) = best[w.e1]
  BY DEF LongestMatch, BestStep, EndingAt, CountIn, Run, Within
<1> HIDE DEF best
<1>6. /\ best[w.b1] = start
      /\ \A e \in w.b1 + 1 .. w.e1 :
            best[e] = IF Within(j, w, e - 1)
                      THEN BestStep(j, mods, w, best[e - 1], e - 1) ELSE best[e - 1]
  <2>1. \A e \in w.b1 .. w.e1 :
            best[e] = IF e = w.b1 THEN start
                      ELSE IF Within(j, w, e - 1)
                           THEN BestStep(j, mods, w, best[e - 1], e - 1) ELSE best[e - 1]
    BY <1>4
  <2>2. w.b1 \in w.b1 .. w.e1
    BY <1>0
  <2>3. \A e \in w.b1 + 1 .. w.e1 : e \in w.b1 .. w.e1 /\ e # w.b1
    BY <1>0
  <2> QED  BY <2>1, <2>2, <2>3
<1> DEFINE U == {m \in 0 .. d : IsMatch(best[w.b1 + m], w, j)}
<1>7. 0 \in U
  <2>1. start \in [i : Nat, j : Nat, size : Nat, modified : {start.modified}] /\ start.size = 0
    BY <1>0
  <2>2. IsMatch(start, w, j)
    <3> HIDE DEF start
    <3> QED  BY <2>1 DEF IsMatch
  <2> QED  BY <1>0, <1>6, <2>2
<1>8. ASSUME NEW m \in 1 .. d, m - 1 \in U PROVE m \in U
  <2>1. /\ w.b1 + m \in w.b1 + 1 .. w.e1 /\ w.b1 + (m - 1) = (w.b1 + m) - 1 /\ m \in 0 .. d
    BY <1>0
  <2>2. IsMatch(best[(w.b1 + m) - 1], w, j)
    BY <1>8, <2>1
  <2>3. IsMatch(best[w.b1 + m], w, j)
    BY <1>6, <2>1, <2>2, BestStepIs
  <2> QED  BY <2>1, <2>3
<1>9. d \in U
  <2> HIDE DEF U, d
  <2>1. 0 .. d \subseteq U
    BY <1>0, <1>7, <1>8, UpTo
  <2> QED  BY <1>0, <2>1
<1> QED  BY <1>0, <1>5, <1>9

-----------------------------------------------------------------------------
(* All the longest matches: they follow one another in both orders.           *)

Windows(first, n) ==
  {w \in [b1 : first .. n, e1 : first .. n, b2 : first .. n, e2 : first .. n] : w.b1 <= w.e1}
BeforeMatch(w, m) == [w EXCEPT !.e1 = m.i, !.e2 = m.j]
AfterMatch(w, m) == [w EXCEPT !.b1 = m.i + m.size, !.b2 = m.j + m.size]
MatchesBody(g, j, mods, w) ==
  LET m == LongestMatch(j, mods, w)
  IN IF m.size = 0 THEN {}
     ELSE {m} \cup (IF m.i > w.b1 /\ m.j > w.b2 THEN g[BeforeMatch(w, m)] ELSE {})
              \cup (IF AfterMatch(w, m).b1 < w.e2 /\ AfterMatch(w, m).b2 < w.e2
                    THEN g[AfterMatch(w, m)] ELSE {})
\* g is the recursive function on the windows narrower than d.
MatchedTo(g, j, mods, W, d) ==
  /\ g = [w \in W |-> g[w]]
  /\ \A w \in W : w.e1 - w.b1 < d => g[w] = MatchesBody(g, j, mods, w)

\* A window inside the lists is one of their rows.
LEMMA WindowsAre ==
  ASSUME NEW first \in Nat, NEW n \in Nat, NEW j, \A i \in first .. n - 1 : j[i] \in Nat,
         NEW w \in Windows(first, n)
  PROVE  Window(w, j)
<1>1. /\ w.b1 <= w.e1
      /\ w.b1 \in first .. n /\ w.e1 \in first .. n /\ w.b2 \in first .. n /\ w.e2 \in first .. n
  BY DEF Windows
<1>2. \A i \in w.b1 .. w.e1 - 1 : i \in first .. n - 1
  BY <1>1
<1> QED  BY <1>1, <1>2 DEF Window

\* What is before and after a match is a narrower window.
LEMMA InnerWindows ==
  ASSUME NEW first \in Nat, NEW n \in Nat, NEW w \in Windows(first, n),
         NEW j, NEW m, IsMatch(m, w, j), m.size # 0
  PROVE  /\ BeforeMatch(w, m) \in Windows(first, n) /\ AfterMatch(w, m) \in Windows(first, n)
         /\ BeforeMatch(w, m).e1 - BeforeMatch(w, m).b1 < w.e1 - w.b1
         /\ AfterMatch(w, m).e1 - AfterMatch(w, m).b1 < w.e1 - w.b1
         /\ BeforeMatch(w, m).b1 = w.b1 /\ BeforeMatch(w, m).b2 = w.b2
         /\ BeforeMatch(w, m).e1 = m.i /\ BeforeMatch(w, m).e2 = m.j
         /\ AfterMatch(w, m).e1 = w.e1 /\ AfterMatch(w, m).e2 = w.e2
         /\ AfterMatch(w, m).b1 = m.i + m.size /\ AfterMatch(w, m).b2 = m.j + m.size
<1>0. /\ w \in [b1 : first .. n, e1 : first .. n, b2 : first .. n, e2 : first .. n]
      /\ w.b1 <= w.e1
      /\ w.b1 \in first .. n /\ w.e1 \in first .. n /\ w.b2 \in first .. n /\ w.e2 \in first .. n
  BY DEF Windows
<1>1. /\ m.i \in Nat /\ m.j \in Nat /\ m.size \in Nat /\ m.size # 0
      /\ w.b1 <= m.i /\ m.i + m.size <= w.e1 /\ w.b2 <= m.j /\ m.j + m.size <= w.e2
  BY DEF IsMatch
<1>2. /\ m.i \in first .. n /\ m.j \in first .. n
      /\ m.i + m.size \in first .. n /\ m.j + m.size \in first .. n
  BY <1>0, <1>1
<1> DEFINE b == BeforeMatch(w, m)
           a == AfterMatch(w, m)
<1>3. /\ b.b1 = w.b1 /\ b.b2 = w.b2 /\ b.e1 = m.i /\ b.e2 = m.j
      /\ b \in [b1 : first .. n, e1 : first .. n, b2 : first .. n, e2 : first .. n]
  BY <1>0, <1>2 DEF BeforeMatch
<1>4. /\ a.e1 = w.e1 /\ a.e2 = w.e2 /\ a.b1 = m.i + m.size /\ a.b2 = m.j + m.size
      /\ a \in [b1 : first .. n, e1 : first .. n, b2 : first .. n, e2 : first .. n]
  BY <1>0, <1>2 DEF AfterMatch
<1> HIDE DEF a, b
<1>5. b.b1 <= b.e1 /\ a.b1 <= a.e1 /\ b.e1 - b.b1 < w.e1 - w.b1 /\ a.e1 - a.b1 < w.e1 - w.b1
  BY <1>0, <1>1, <1>3, <1>4
<1>6. b \in Windows(first, n) /\ a \in Windows(first, n)
  BY <1>3, <1>4, <1>5 DEF Windows
<1> QED  BY <1>3, <1>4, <1>5, <1>6 DEF a, b

\* The recursive function of the matches exists on wider windows ...
LEMMA MatchedExtend ==
  ASSUME NEW first \in Nat, NEW n \in Nat, NEW j, \A i \in first .. n - 1 : j[i] \in Nat,
         NEW mods, NEW d \in Nat, NEW g, MatchedTo(g, j, mods, Windows(first, n), d)
  PROVE  \E h : MatchedTo(h, j, mods, Windows(first, n), d + 1)
<1> DEFINE W == Windows(first, n)
           h == [w \in W |-> MatchesBody(g, j, mods, w)]
<1>1. \A w \in W : w.e1 - w.b1 < d => g[w] = MatchesBody(g, j, mods, w)
  BY DEF MatchedTo
<1>2. h = [w \in W |-> h[w]] /\ \A w \in W : h[w] = MatchesBody(g, j, mods, w)
  OBVIOUS
<1> HIDE DEF h
<1>3. ASSUME NEW w \in W, w.e1 - w.b1 < d + 1 PROVE h[w] = MatchesBody(h, j, mods, w)
  <2> DEFINE m == LongestMatch(j, mods, w)
  <2>1. Window(w, j)
    BY WindowsAre
  <2>2. IsMatch(m, w, j)
    BY <2>1, LongestMatchIs
  <2>3. ASSUME m.size # 0
        PROVE  /\ h[BeforeMatch(w, m)] = g[BeforeMatch(w, m)]
               /\ h[AfterMatch(w, m)] = g[AfterMatch(w, m)]
    <3> HIDE DEF m
    <3> DEFINE b == BeforeMatch(w, m)
               a == AfterMatch(w, m)
    <3>1. /\ b \in W /\ a \in W
          /\ b.e1 - b.b1 < w.e1 - w.b1 /\ a.e1 - a.b1 < w.e1 - w.b1
      BY <2>2, <2>3, InnerWindows
    <3>2. \A v \in W : v.e1 - v.b1 \in Int
      <4>1. \A v \in W : v.e1 \in first .. n /\ v.b1 \in first .. n
        BY DEF Windows
      <4> QED  BY <4>1
    <3> HIDE DEF b, a
    <3>3. b.e1 - b.b1 < d /\ a.e1 - a.b1 < d
      <4> HIDE DEF W
      <4>1. b.e1 - b.b1 \in Int /\ a.e1 - a.b1 \in Int /\ w.e1 - w.b1 \in Int
        BY <3>1, <3>2
      <4> QED  BY <1>3, <3>1, <4>1
    <3>4. h[b] = g[b] /\ h[a] = g[a]
      BY <1>1, <1>2, <3>1, <3>3
    <3> QED  BY <3>4 DEF a, b
  <2>4. h[w] = MatchesBody(g, j, mods, w)
    BY <1>2
  <2>5. MatchesBody(h, j, mods, w) = MatchesBody(g, j, mods, w)
    <3>1. CASE m.size = 0
      BY <3>1 DEF MatchesBody
    <3>2. CASE m.size # 0
      BY <2>3, <3>2, Zenon DEF MatchesBody
    <3> QED  BY <3>1, <3>2
  <2> QED  BY <2>4, <2>5
<1>4. MatchedTo(h, j, mods, W, d + 1)
  BY <1>2, <1>3 DEF MatchedTo
<1> QED  BY <1>4

\* One match ends before the other begins, in both orders.
Precedes(m, o) == m.i + m.size <= o.i /\ m.j + m.size <= o.j
InSequence(M, w, j) ==
  /\ \A m \in M : IsMatch(m, w, j) /\ m.size # 0
  /\ \A m, o \in M : m = o \/ Precedes(m, o) \/ Precedes(o, m)

\* A match inside a part of a window is one of the window.
LEMMA WiderMatch ==
  ASSUME NEW w, NEW v, NEW j, NEW m, IsMatch(m, v, j),
         w.b1 \in Nat, w.e1 \in Nat, w.b2 \in Nat, w.e2 \in Nat,
         v.b1 \in Nat, v.e1 \in Nat, v.b2 \in Nat, v.e2 \in Nat,
         w.b1 <= v.b1, v.e1 <= w.e1, w.b2 <= v.b2, v.e2 <= w.e2
  PROVE  IsMatch(m, w, j)
<1>1. m.i \in Nat /\ m.j \in Nat /\ m.size \in Nat
  BY DEF IsMatch
<1> QED  BY <1>1 DEF IsMatch

\* The matches before the longest, the longest and those after it are in sequence.
LEMMA JoinSequence ==
  ASSUME NEW first \in Nat, NEW n \in Nat, NEW j, \A i \in first .. n - 1 : j[i] \in Nat,
         NEW w \in Windows(first, n), NEW m, IsMatch(m, w, j), m.size # 0,
         NEW B, InSequence(B, BeforeMatch(w, m), j), NEW A, InSequence(A, AfterMatch(w, m), j)
  PROVE  InSequence({m} \cup B \cup A, w, j)
<1> DEFINE b == BeforeMatch(w, m)
           a == AfterMatch(w, m)
<1>1. /\ w.b1 \in Nat /\ w.e1 \in Nat /\ w.b2 \in Nat /\ w.e2 \in Nat
  BY WindowsAre DEF Window
<1>2. /\ b.b1 = w.b1 /\ b.b2 = w.b2 /\ b.e1 = m.i /\ b.e2 = m.j
      /\ a.e1 = w.e1 /\ a.e2 = w.e2 /\ a.b1 = m.i + m.size /\ a.b2 = m.j + m.size
  BY InnerWindows
<1>3. /\ m.i \in Nat /\ m.j \in Nat /\ m.size \in Nat
      /\ w.b1 <= m.i /\ m.i + m.size <= w.e1 /\ w.b2 <= m.j /\ m.j + m.size <= w.e2
  BY DEF IsMatch
<1>4. InSequence(B, b, j) /\ InSequence(A, a, j)
  OBVIOUS
<1> HIDE DEF a, b
<1>5. ASSUME NEW o \in B PROVE IsMatch(o, w, j) /\ o.size # 0 /\ Precedes(o, m) /\ o.i + o.size \in Nat
                               /\ o.j + o.size \in Nat
  <2>1. IsMatch(o, b, j) /\ o.size # 0
    BY <1>4 DEF InSequence
  <2>2. IsMatch(o, w, j)
    BY <1>1, <1>2, <1>3, <2>1, WiderMatch
  <2>3. o.i \in Nat /\ o.j \in Nat /\ o.size \in Nat
    BY <2>1 DEF IsMatch
  <2>4. o.i + o.size <= b.e1 /\ o.j + o.size <= b.e2
    BY <2>1 DEF IsMatch
  <2> QED  BY <1>2, <2>1, <2>2, <2>3, <2>4 DEF Precedes
<1>6. ASSUME NEW o \in A PROVE IsMatch(o, w, j) /\ o.size # 0 /\ Precedes(m, o) /\ o.i \in Nat /\ o.j \in Nat
  <2>1. IsMatch(o, a, j) /\ o.size # 0
    BY <1>4 DEF InSequence
  <2>2. IsMatch(o, w, j)
    BY <1>1, <1>2, <1>3, <2>1, WiderMatch
  <2>3. o.i \in Nat /\ o.j \in Nat /\ a.b1 <= o.i /\ a.b2 <= o.j
    BY <2>1 DEF IsMatch
  <2> QED  BY <1>2, <2>1, <2>2, <2>3 DEF Precedes
<1>7. ASSUME NEW o \in B, NEW q \in A PROVE Precedes(o, q)
  BY <1>3, <1>5, <1>6 DEF Precedes
<1>8. \A o, q \in B : o = q \/ Precedes(o, q) \/ Precedes(q, o)
  BY <1>4 DEF InSequence
<1>9. \A o, q \in A : o = q \/ Precedes(o, q) \/ Precedes(q, o)
  BY <1>4 DEF InSequence
<1>10. \A o \in {m} \cup B \cup A : IsMatch(o, w, j) /\ o.size # 0
  BY <1>5, <1>6
<1>11. \A o, q \in {m} \cup B \cup A : o = q \/ Precedes(o, q) \/ Precedes(q, o)
  BY <1>5, <1>6, <1>7, <1>8, <1>9, Zenon
<1> QED  BY <1>10, <1>11 DEF InSequence

\* ... so it exists, and its matches are in sequence.
LEMMA LongestMatchesAre ==
  ASSUME NEW first \in Nat, NEW n \in Nat, first <= n, NEW j, \A i \in first .. n - 1 : j[i] \in Nat,
         NEW mods
  PROVE  LET w == [b1 |-> first, e1 |-> n, b2 |-> first, e2 |-> n]
         IN InSequence(LongestMatches(j, mods, first, n), w, j)
<1> DEFINE W == Windows(first, n)
           N == n - first + 1
           all == [b1 |-> first, e1 |-> n, b2 |-> first, e2 |-> n]
           T == {d \in 0 .. N : \E g : MatchedTo(g, j, mods, W, d)}
           Rec(g) == g = [w \in W |-> MatchesBody(g, j, mods, w)]
           matches == CHOOSE g : Rec(g)
<1>0. N \in Nat /\ all \in W /\ all.e1 - all.b1 < N
  BY DEF Windows
<1>1. \A w \in W : w.e1 - w.b1 < N /\ w.e1 - w.b1 \in Nat
  <2>1. \A w \in W : w.e1 \in first .. n /\ w.b1 \in first .. n /\ w.b1 <= w.e1
    BY DEF Windows
  <2> QED  BY <2>1
<1>2. 0 .. N \subseteq T
  <2>1. 0 \in T
    <3> DEFINE g == [w \in W |-> {}]
    <3>1. g = [w \in W |-> g[w]]
      OBVIOUS
    <3>2. \A w \in W : ~(w.e1 - w.b1 < 0)
      BY <1>1
    <3> HIDE DEF g, W
    <3>3. MatchedTo(g, j, mods, W, 0)
      BY <3>1, <3>2 DEF MatchedTo
    <3> QED  BY <1>0, <3>3
  <2>2. ASSUME NEW d \in 1 .. N, d - 1 \in T PROVE d \in T
    <3>1. d - 1 \in Nat /\ (d - 1) + 1 = d /\ d \in 0 .. N
      BY <1>0
    <3>2. PICK g : MatchedTo(g, j, mods, W, d - 1)
      BY <2>2
    <3>3. \E h : MatchedTo(h, j, mods, W, (d - 1) + 1)
      BY <3>1, <3>2, MatchedExtend
    <3> QED  BY <3>1, <3>3
  <2> HIDE DEF T, N
  <2> QED  BY <1>0, <2>1, <2>2, UpTo
<1>3. PICK g : MatchedTo(g, j, mods, W, N)
  BY <1>0, <1>2
<1>4. Rec(g)
  <2>1. g = [w \in W |-> g[w]] /\ \A w \in W : g[w] = MatchesBody(g, j, mods, w)
    BY <1>1, <1>3 DEF MatchedTo
  <2> HIDE DEF W
  <2> QED  BY <2>1
<1>5. Rec(matches)
  <2> HIDE DEF Rec
  <2> QED  BY <1>4
<1>6. LongestMatches(j, mods, first, n) = matches[all]
  BY Zenon DEF LongestMatches, MatchesBody, BeforeMatch, AfterMatch, Windows
<1> HIDE DEF matches
<1>7. \A w \in W : matches[w] = MatchesBody(matches, j, mods, w)
  <2> HIDE DEF W
  <2> QED  BY <1>5
<1> DEFINE U == {d \in 0 .. N : \A w \in W : w.e1 - w.b1 < d => InSequence(matches[w], w, j)}
<1>8. 0 \in U
  <2>1. \A w \in W : ~(w.e1 - w.b1 < 0)
    BY <1>1
  <2> HIDE DEF W, N
  <2> QED  BY <1>0, <2>1
<1>9. ASSUME NEW d \in 1 .. N, d - 1 \in U PROVE d \in U
  <2> SUFFICES ASSUME NEW w \in W, w.e1 - w.b1 < d PROVE InSequence(matches[w], w, j)
    BY <1>0
  <2> DEFINE m == LongestMatch(j, mods, w)
             b == BeforeMatch(w, m)
             a == AfterMatch(w, m)
             B == IF m.i > w.b1 /\ m.j > w.b2 THEN matches[b] ELSE {}
             A == IF a.b1 < w.e2 /\ a.b2 < w.e2 THEN matches[a] ELSE {}
  <2>1. matches[w] = IF m.size = 0 THEN {} ELSE {m} \cup B \cup A
    BY <1>7 DEF MatchesBody
  <2>2. IsMatch(m, w, j)
    BY WindowsAre, LongestMatchIs
  <2>3. CASE m.size = 0
    BY <2>1, <2>3 DEF InSequence
  <2>4. CASE m.size # 0
    <3> HIDE DEF m
    <3>1. b \in W /\ a \in W /\ b.e1 - b.b1 < w.e1 - w.b1 /\ a.e1 - a.b1 < w.e1 - w.b1
      BY <2>2, <2>4, InnerWindows
    <3> HIDE DEF b, a, W
    <3>2. b.e1 - b.b1 < d - 1 /\ a.e1 - a.b1 < d - 1
      BY <1>0, <1>1, <3>1
    <3>3. InSequence(matches[b], b, j) /\ InSequence(matches[a], a, j)
      BY <1>9, <3>1, <3>2
    <3>4. InSequence(B, b, j) /\ InSequence(A, a, j)
      BY <3>3 DEF InSequence
    <3> HIDE DEF A, B
    <3>5. InSequence({m} \cup B \cup A, w, j)
      BY <2>2, <2>4, <3>4, JoinSequence DEF b, a, W
    <3> QED  BY <2>1, <2>4, <3>5
  <2> QED  BY <2>3, <2>4
<1>10. N \in U
  <2> HIDE DEF U, N
  <2>1. 0 .. N \subseteq U
    BY <1>0, <1>8, <1>9, UpTo
  <2> QED  BY <1>0, <2>1
<1>11. InSequence(matches[all], all, j)
  BY <1>0, <1>10
<1> QED  BY <1>6, <1>11

-----------------------------------------------------------------------------
(* Outside the matches, sorted rows are deleted and inserted: what is left is *)
(* in one order.                                                              *)

\* j maps the rows G of one order onto the rows H of the other, in their order.
Matching(j, G, H, n) ==
  /\ G \subseteq 0 .. n - 1 /\ H \subseteq 0 .. n - 1
  /\ \A i \in G : j[i] \in H
  /\ \A h \in H : \E i \in G : j[i] = h
  /\ \A i, k \in G : i < k => j[i] < j[k]

InA(M) == UNION {m.i .. m.i + m.size - 1 : m \in M}
InB(M) == UNION {m.j .. m.j + m.size - 1 : m \in M}

\* Matches in sequence are such a map.
LEMMA SequenceMatches ==
  ASSUME NEW M, NEW j, NEW n \in Nat, NEW first \in Nat, NEW w,
         w.b1 = first, w.b2 = first, w.e1 = n, w.e2 = n, InSequence(M, w, j)
  PROVE  Matching(j, InA(M), InB(M), n) /\ \A i \in InA(M) \cup InB(M) : first <= i
<1>1. \A m \in M : /\ m.i \in Nat /\ m.j \in Nat /\ m.size \in Nat
                   /\ first <= m.i /\ m.i + m.size <= n /\ first <= m.j /\ m.j + m.size <= n
                   /\ \A k \in 0 .. m.size - 1 : j[m.i + k] = m.j + k
  BY DEF InSequence, IsMatch
<1>2. ASSUME NEW i \in InA(M)
      PROVE  \E m \in M : i \in m.i .. m.i + m.size - 1 /\ j[i] = m.j + (i - m.i)
                          /\ i \in first .. n - 1 /\ j[i] \in m.j .. m.j + m.size - 1
  <2>1. PICK m \in M : i \in m.i .. m.i + m.size - 1
    BY DEF InA
  <2>2. i - m.i \in 0 .. m.size - 1 /\ m.i + (i - m.i) = i
    BY <1>1, <2>1
  <2>3. j[i] = m.j + (i - m.i)
    <3>1. j[m.i + (i - m.i)] = m.j + (i - m.i)
      BY <1>1, <2>2
    <3> QED  BY <2>2, <3>1
  <2> QED  BY <1>1, <2>1, <2>3
<1>3. ASSUME NEW h \in InB(M)
      PROVE  h \in first .. n - 1 /\ \E i \in InA(M) : j[i] = h
  <2>1. PICK m \in M : h \in m.j .. m.j + m.size - 1
    BY DEF InB
  <2> DEFINE i == m.i + (h - m.j)
  <2>2. h - m.j \in 0 .. m.size - 1 /\ i \in m.i .. m.i + m.size - 1 /\ m.j + (h - m.j) = h
    BY <1>1, <2>1
  <2>3. j[i] = m.j + (h - m.j)
    BY <1>1, <2>2
  <2>4. i \in InA(M)
    BY <2>2 DEF InA
  <2> QED  BY <1>1, <2>1, <2>2, <2>3, <2>4
<1>4. \A i \in InA(M) : j[i] \in InB(M)
  BY <1>2 DEF InB
<1>5. ASSUME NEW i \in InA(M), NEW k \in InA(M), i < k PROVE j[i] < j[k]
  <2>1. PICK m \in M : /\ i \in m.i .. m.i + m.size - 1 /\ j[i] = m.j + (i - m.i)
                       /\ j[i] \in m.j .. m.j + m.size - 1
    BY <1>2
  <2>2. PICK o \in M : /\ k \in o.i .. o.i + o.size - 1 /\ j[k] = o.j + (k - o.i)
                       /\ j[k] \in o.j .. o.j + o.size - 1
    BY <1>2
  <2>3. m = o \/ Precedes(m, o) \/ Precedes(o, m)
    BY DEF InSequence
  <2>4. /\ m.i \in Nat /\ m.j \in Nat /\ m.size \in Nat /\ o.i \in Nat /\ o.j \in Nat /\ o.size \in Nat
    BY <1>1
  <2>5. CASE m = o
    BY <1>5, <2>1, <2>2, <2>4, <2>5
  <2>6. CASE Precedes(m, o)
    BY <2>1, <2>2, <2>4, <2>6 DEF Precedes
  <2>7. CASE Precedes(o, m)
    BY <1>5, <2>1, <2>2, <2>4, <2>7 DEF Precedes
  <2> QED  BY <2>3, <2>5, <2>6, <2>7
<1>6. \A i \in InA(M) \cup InB(M) : i \in first .. n - 1
  BY <1>2, <1>3
<1>7. \A i \in first .. n - 1 : i \in 0 .. n - 1 /\ first <= i
  OBVIOUS
<1> QED  BY <1>3, <1>4, <1>5, <1>6, <1>7 DEF Matching

\* So are, with them, the rows before the first that is elsewhere.
LEMMA MatchingMore ==
  ASSUME NEW j, NEW G, NEW H, NEW n \in Nat, NEW first \in 0 .. n, Matching(j, G, H, n),
         \A i \in G \cup H : first <= i, \A i \in 0 .. first - 1 : j[i] = i
  PROVE  Matching(j, 0 .. first - 1 \cup G, 0 .. first - 1 \cup H, n)
<1> DEFINE P == 0 .. first - 1
<1>1. /\ G \subseteq 0 .. n - 1 /\ H \subseteq 0 .. n - 1
      /\ \A i \in G : j[i] \in H
      /\ \A h \in H : \E i \in G : j[i] = h
      /\ \A i, k \in G : i < k => j[i] < j[k]
  BY DEF Matching
<1>2. P \subseteq 0 .. n - 1 /\ (\A i \in P : i < first /\ i \in Nat /\ j[i] = i)
  OBVIOUS
<1>3. ASSUME NEW i \in G PROVE first <= i /\ first <= j[i] /\ i \in Nat /\ j[i] \in Nat
  <2>1. i \in 0 .. n - 1 /\ j[i] \in H /\ j[i] \in 0 .. n - 1
    BY <1>1
  <2>2. i \in G \cup H /\ j[i] \in G \cup H
    BY <2>1
  <2> QED  BY <2>1, <2>2
<1> HIDE DEF P
<1>4. \A i, k \in P \cup G : i < k => j[i] < j[k]
  <2> SUFFICES ASSUME NEW i \in P \cup G, NEW k \in P \cup G, i < k PROVE j[i] < j[k]
    OBVIOUS
  <2>1. CASE i \in P /\ k \in P
    BY <1>2, <2>1
  <2>2. CASE i \in P /\ k \in G
    BY <1>2, <1>3, <2>2
  <2>3. CASE i \in G /\ k \in P
    BY <1>2, <1>3, <2>3
  <2>4. CASE i \in G /\ k \in G
    BY <1>1, <2>4
  <2> QED  BY <2>1, <2>2, <2>3, <2>4
<1>5. Matching(j, P \cup G, P \cup H, n)
  <2>1. P \cup G \subseteq 0 .. n - 1 /\ P \cup H \subseteq 0 .. n - 1
    BY <1>1, <1>2
  <2>2. \A i \in P \cup G : j[i] \in P \cup H
    BY <1>1, <1>2
  <2>3. \A h \in P \cup H : \E i \in P \cup G : j[i] = h
    BY <1>1, <1>2
  <2> QED  BY <1>4, <2>1, <2>2, <2>3 DEF Matching
<1> QED  BY <1>5 DEF P

\* prev is the old list, with npos in the place of the rows that are gone.
StillThere(prev, old) ==
  /\ DOMAIN prev = DOMAIN old
  /\ \A k \in DOMAIN old : prev[k] = npos \/ prev[k] = old[k]

\* What is deleted: the rows that are not in the new list, and the kept ones
\* outside the matches.
TakenOut(D, old, prev, new, kept, a, G) ==
  \A y \in 0 .. Len(old) - 1 :
    y \in D <=> \/ prev[y + 1] \notin ToSet(new)
              \/ \E i \in (0 .. Len(kept) - 1) \ G : y = a[i + 1].prev

\* What is inserted: the rows that are new, and the kept ones outside the matches.
PutIn(I, prev, new, kept, H) ==
  \A x \in 0 .. Len(new) - 1 :
    x \in I <=> \/ new[x + 1] \notin ToSet(prev)
              \/ \E h \in (0 .. Len(kept) - 1) \ H : x = kept[h + 1].tv

\* The rows that are neither in one list only nor outside the matches are aligned.
LEMMA SortedAligned ==
  ASSUME NEW old \in Seq(Nat), NEW new \in Seq(Nat), Distinct(old), Distinct(new),
         NEW prev, StillThere(prev, old), NEW kept, InBoth(kept, prev, new),
         NEW a, Reordered(a, kept), Len(prev) = Len(old),
         NEW G, NEW H, Matching(Places(kept, a), G, H, Len(kept)), NEW D, NEW I,
         TakenOut(D, old, prev, new, kept, a, G), PutIn(I, prev, new, kept, H)
  PROVE  \E f : Aligned(D, I, old, new, f)
<1> DEFINE n == Len(kept)
           j == Places(kept, a)
           X == (0 .. Len(new) - 1) \ I
           Y == (0 .. Len(old) - 1) \ D
           at(x) == CHOOSE k \in DOMAIN kept : kept[k].tv = x
           f == [x \in X |-> kept[at(x)].prev]
<1>1. /\ Len(new) \in Nat /\ DOMAIN new = 1 .. Len(new)
      /\ Len(old) \in Nat /\ DOMAIN old = 1 .. Len(old) /\ DOMAIN prev = 1 .. Len(old)
      /\ n \in Nat /\ DOMAIN kept = 1 .. n /\ DOMAIN a = 1 .. n
  BY SeqLen DEF StillThere, InBoth, Reordered
<1>2. /\ \A k \in DOMAIN kept :
           /\ kept[k].tv \in Nat /\ kept[k].tv < Len(new) /\ new[kept[k].tv + 1] = kept[k].row
           /\ kept[k].prev \in Nat /\ kept[k].prev < Len(old)
           /\ prev[kept[k].prev + 1] = kept[k].row
      /\ \A k, l \in DOMAIN kept : k < l => kept[k].tv < kept[l].tv
      /\ \A p \in DOMAIN new : new[p] \in ToSet(prev) => \E k \in DOMAIN kept : kept[k].tv = p - 1
  BY DEF InBoth
<1>3. \A k, l \in DOMAIN kept : kept[k].row = kept[l].row \/ kept[k].prev = kept[l].prev => k = l
  BY KeptOnce
<1>4. \A i \in 0 .. n - 1 : j[i] \in 0 .. n - 1 /\ kept[j[i] + 1] = a[i + 1]
  BY PlacesAre
<1>5. \A i, l \in DOMAIN a : i < l => a[i].prev < a[l].prev
  BY DEF Reordered
<1>6. /\ G \subseteq 0 .. n - 1 /\ H \subseteq 0 .. n - 1
      /\ \A i \in G : j[i] \in H
      /\ \A h \in H : \E i \in G : j[i] = h
      /\ \A i, k \in G : i < k => j[i] < j[k]
  BY DEF Matching
<1>7. \A k, l \in DOMAIN kept : kept[k].tv = kept[l].tv => k = l
  BY <1>2, <1>3
<1>8. \A p \in DOMAIN new : new[p] \in Nat /\ new[p] # npos
  BY DEF npos
<1>9. \A y \in 0 .. Len(old) - 1 : prev[y + 1] \in ToSet(new) => prev[y + 1] = old[y + 1]
  <2> SUFFICES ASSUME NEW y \in 0 .. Len(old) - 1, prev[y + 1] \in ToSet(new)
               PROVE  prev[y + 1] = old[y + 1]
    OBVIOUS
  <2>1. prev[y + 1] # npos
    BY <1>8 DEF ToSet
  <2>2. y + 1 \in DOMAIN old
    BY <1>1
  <2> QED  BY <2>1, <2>2 DEF StillThere
<1> HIDE DEF n, j
\* The row at x, and the place of its match.
<1>10. ASSUME NEW x \in X
       PROVE  /\ at(x) \in DOMAIN kept /\ kept[at(x)].tv = x
              /\ \E i \in G : j[i] = at(x) - 1 /\ a[i + 1] = kept[at(x)]
  <2>1. x \in 0 .. Len(new) - 1 /\ x + 1 \in DOMAIN new /\ x \notin I
    BY <1>1
  <2>2. new[x + 1] \in ToSet(prev) /\ ~\E h \in (0 .. n - 1) \ H : x = kept[h + 1].tv
    BY <2>1 DEF n, PutIn
  <2>3. \E k \in DOMAIN kept : kept[k].tv = x
    <3>1. (x + 1) - 1 = x
      BY <2>1
    <3> QED  BY <1>2, <2>1, <2>2, <3>1
  <2>4. at(x) \in DOMAIN kept /\ kept[at(x)].tv = x
    BY <2>3
  <2> HIDE DEF at
  <2>5. at(x) - 1 \in 0 .. n - 1 /\ (at(x) - 1) + 1 = at(x)
    BY <1>1, <2>4
  <2>6. at(x) - 1 \in H
    BY <2>2, <2>4, <2>5
  <2>7. PICK i \in G : j[i] = at(x) - 1
    BY <1>6, <2>6
  <2>8. a[i + 1] = kept[at(x)]
    BY <1>4, <1>6, <2>5, <2>7
  <2> QED  BY <2>4, <2>7, <2>8
<1> HIDE DEF at
\* Two places of one row are one.
<1>11. \A i, l \in 0 .. n - 1 : a[i + 1].prev = a[l + 1].prev => i = l
  <2> SUFFICES ASSUME NEW i \in 0 .. n - 1, NEW l \in 0 .. n - 1, a[i + 1].prev = a[l + 1].prev
               PROVE  i = l
    OBVIOUS
  <2>1. i + 1 \in DOMAIN a /\ l + 1 \in DOMAIN a
    BY <1>1
  <2>2. a[i + 1].prev \in Nat /\ a[l + 1].prev \in Nat
    <3>1. \A k \in DOMAIN a : a[k].prev \in Nat
      BY <1>2 DEF Reordered
    <3> QED  BY <2>1, <3>1
  <2>3. ~(i + 1 < l + 1) /\ ~(l + 1 < i + 1)
    <3>1. i + 1 < l + 1 => a[i + 1].prev < a[l + 1].prev
      BY <1>5, <2>1
    <3>2. l + 1 < i + 1 => a[l + 1].prev < a[i + 1].prev
      BY <1>5, <2>1
    <3> QED  BY <2>2, <3>1, <3>2
  <2>4. i \in Int /\ l \in Int
    BY <1>1
  <2> QED  BY <2>3, <2>4
<1>12. \A x \in X : f[x] = kept[at(x)].prev
  OBVIOUS
<1>13. DOMAIN f = X
  OBVIOUS
<1>14. ASSUME NEW x \in X PROVE f[x] \in Y /\ new[x + 1] = old[f[x] + 1]
  <2>1. /\ at(x) \in DOMAIN kept /\ kept[at(x)].tv = x
    BY <1>10
  <2>2. PICK i \in G : j[i] = at(x) - 1 /\ a[i + 1] = kept[at(x)]
    BY <1>10
  <2>3. /\ f[x] \in Nat /\ f[x] < Len(old) /\ f[x] = a[i + 1].prev
        /\ prev[f[x] + 1] = kept[at(x)].row /\ new[x + 1] = kept[at(x)].row
    BY <1>2, <1>12, <2>1, <2>2
  <2>4. prev[f[x] + 1] \in ToSet(new)
    <3>1. x + 1 \in DOMAIN new
      BY <1>1
    <3> QED  BY <2>3, <3>1 DEF ToSet
  <2>5. f[x] \in 0 .. Len(old) - 1
    BY <1>1, <2>3
  <2>6. ~\E l \in (0 .. n - 1) \ G : f[x] = a[l + 1].prev
    BY <1>6, <1>11, <2>2, <2>3
  <2>7. f[x] \notin D
    BY <2>4, <2>5, <2>6 DEF n, TakenOut
  <2> QED  BY <1>9, <2>3, <2>4, <2>5, <2>7
<1>15. ASSUME NEW x \in X, NEW z \in X, x < z PROVE f[x] < f[z]
  <2>1. /\ at(x) \in DOMAIN kept /\ kept[at(x)].tv = x
        /\ at(z) \in DOMAIN kept /\ kept[at(z)].tv = z
    BY <1>10
  <2>2. PICK i \in G : j[i] = at(x) - 1 /\ a[i + 1] = kept[at(x)]
    BY <1>10
  <2>3. PICK l \in G : j[l] = at(z) - 1 /\ a[l + 1] = kept[at(z)]
    BY <1>10
  <2>4. at(x) < at(z)
    <3>1. x \in Nat /\ z \in Nat /\ at(x) \in Nat /\ at(z) \in Nat
      BY <1>1, <2>1
    <3>2. at(z) < at(x) => z < x
      BY <1>2, <2>1
    <3>3. at(z) = at(x) => z = x
      BY <2>1
    <3> HIDE DEF X
    <3> QED  BY <1>15, <3>1, <3>2, <3>3
  <2>5. j[i] < j[l]
    BY <1>1, <2>1, <2>2, <2>3, <2>4
  <2>6. i < l
    <3>1. i \in Nat /\ l \in Nat /\ j[i] \in Nat /\ j[l] \in Nat
      BY <1>1, <1>4, <1>6
    <3>2. ~(l < i) /\ l # i
      BY <1>6, <2>5, <3>1, SMTT(30)
    <3> QED  BY <3>1, <3>2
  <2>7. i + 1 \in DOMAIN a /\ l + 1 \in DOMAIN a /\ i + 1 < l + 1
    BY <1>1, <1>6, <2>6
  <2>8. a[i + 1].prev < a[l + 1].prev
    BY <1>5, <2>7
  <2> QED  BY <1>12, <2>2, <2>3, <2>8
<1>16. ASSUME NEW y \in Y PROVE \E x \in X : f[x] = y
  <2>1. y \in 0 .. Len(old) - 1 /\ y \notin D /\ y + 1 \in DOMAIN old /\ y + 1 \in DOMAIN prev
    BY <1>1
  <2>2. prev[y + 1] \in ToSet(new) /\ ~\E i \in (0 .. n - 1) \ G : y = a[i + 1].prev
    BY <2>1 DEF n, TakenOut
  <2>3. PICK p \in DOMAIN new : new[p] = prev[y + 1]
    BY <2>2 DEF ToSet
  <2>4. PICK k \in DOMAIN kept : kept[k].tv = p - 1
    <3>1. new[p] \in ToSet(prev)
      BY <2>1, <2>3 DEF ToSet
    <3> QED  BY <1>2, <3>1
  <2>5. (p - 1) + 1 = p /\ p - 1 \in 0 .. Len(new) - 1
    <3>1. Len(new) \in Nat /\ p \in 1 .. Len(new)
      BY <1>1
    <3>2. \A m \in Nat : \A q \in 1 .. m : (q - 1) + 1 = q /\ q - 1 \in 0 .. m - 1
      OBVIOUS
    <3> QED  BY <3>1, <3>2
  <2>6. kept[k].row = prev[y + 1] /\ prev[kept[k].prev + 1] = prev[y + 1]
    BY <1>2, <2>3, <2>4, <2>5
  <2>7. kept[k].prev = y
    <3>0. kept[k].prev \in Nat /\ kept[k].prev < Len(old)
      BY <1>2
    <3>1. kept[k].prev \in 0 .. Len(old) - 1 /\ kept[k].prev + 1 \in DOMAIN old
      <4>1. \A z \in Nat : z < Len(old) => z \in 0 .. Len(old) - 1 /\ z + 1 \in DOMAIN old
        BY <1>1
      <4> QED  BY <3>0, <4>1
    <3>2. prev[y + 1] = old[y + 1] /\ prev[kept[k].prev + 1] = old[kept[k].prev + 1]
      BY <1>9, <2>1, <2>2, <2>6, <3>1
    <3>3. kept[k].prev + 1 = y + 1
      BY <2>1, <2>6, <3>1, <3>2 DEF Distinct
    <3> QED  BY <1>1, <2>1, <3>0, <3>3, SMTT(30)
  <2>8. PICK i \in 0 .. n - 1 : a[i + 1] = kept[k]
    <3>1. PICK q \in DOMAIN a : a[q] = kept[k]
      BY DEF Reordered
    <3>2. q - 1 \in 0 .. n - 1 /\ (q - 1) + 1 = q
      BY <1>1, SMTT(30)
    <3> QED  BY <3>1, <3>2
  <2>9. i \in G
    BY <2>2, <2>7, <2>8
  <2>10. j[i] + 1 = k /\ j[i] \in H
    <3>0. j[i] \in 0 .. n - 1 /\ kept[j[i] + 1] = kept[k]
      BY <1>4, <2>8
    <3>1. j[i] + 1 \in DOMAIN kept
      <4>1. \A q \in 0 .. n - 1 : q + 1 \in 1 .. n
        BY <1>1
      <4> QED  BY <1>1, <3>0, <4>1
    <3> QED  BY <1>3, <1>6, <2>9, <3>0, <3>1
  <2>11. ~\E h \in (0 .. n - 1) \ H : p - 1 = kept[h + 1].tv
    <3> SUFFICES ASSUME NEW h \in (0 .. n - 1) \ H, p - 1 = kept[h + 1].tv PROVE FALSE
      OBVIOUS
    <3>1. h + 1 \in DOMAIN kept
      BY <1>1
    <3>2. h + 1 = k
      BY <1>7, <2>4, <3>1
    <3>3. h = j[i]
      <4>1. j[i] \in 0 .. n - 1
        BY <1>4
      <4>2. h \in 0 .. n - 1 /\ h + 1 = j[i] + 1
        BY <2>10, <3>2
      <4>3. \A y1, y2 \in 0 .. n - 1 : y1 + 1 = y2 + 1 => y1 = y2
        BY <1>1
      <4> QED  BY <4>1, <4>2, <4>3
    <3> QED  BY <2>10, <3>3
  <2>12. new[p] \in ToSet(prev)
    BY <2>1, <2>3 DEF ToSet
  <2>13. p - 1 \notin I
    BY <2>5, <2>11, <2>12 DEF n, PutIn
  <2>14. p - 1 \in X
    BY <2>5, <2>13
  <2>15. at(p - 1) = k
    <3>1. at(p - 1) \in DOMAIN kept /\ kept[at(p - 1)].tv = p - 1
      BY <1>10, <2>14
    <3> QED  BY <1>7, <2>4, <3>1
  <2> QED  BY <1>12, <2>7, <2>14, <2>15
<1>17. f \in [X -> Y]
  BY <1>13, <1>14
<1> HIDE DEF f
<1>18. Aligned(D, I, old, new, f)
  BY <1>14, <1>15, <1>16, <1>17 DEF Aligned, InOrder
<1> QED  BY <1>18

\* What the calculation for sorted results adds to the changes b.
Outside(b, removed, kept, a, G, H) ==
  [b EXCEPT !.deletions = @ \cup removed \cup {a[i + 1].prev : i \in (0 .. Len(kept) - 1) \ G},
            !.insertions = @ \cup {kept[i + 1].tv : i \in (0 .. Len(kept) - 1) \ H}]

\* It is what is outside a matching of the two orders.
LEMMA SortedIs ==
  ASSUME NEW kept, NEW prev, NEW R, NEW new \in Seq(R), Distinct(new), InBoth(kept, prev, new),
         Len(prev) \in Nat, NEW removed, NEW b, IsBuilder(b)
  PROVE  LET a == ByPrev(kept)
         IN \E G, H : /\ Matching(Places(kept, a), G, H, Len(kept))
                      /\ MovesSorted(kept, b, removed) = Outside(b, removed, kept, a, G, H)
<1> DEFINE n == Len(kept)
           a == ByPrev(kept)
           j == Places(kept, a)
           differ == {i \in 1 .. n : a[i].row # kept[i].row}
           first == (CHOOSE i \in differ : \A k \in differ : i <= k) - 1
           M == LongestMatches(j, b.modifications, first, n)
           added == {kept[i + 1].tv : i \in (first .. n - 1) \ InB(M)}
           taken == {a[i + 1].prev : i \in (first .. n - 1) \ InA(M)}
<1>1. n \in Nat /\ DOMAIN kept = 1 .. n
  BY DEF InBoth
<1>2. Reordered(a, kept)
  BY ByPrevIs
<1>3. MovesSorted(kept, b, removed) =
        IF differ = {} THEN [b EXCEPT !.deletions = @ \cup removed]
        ELSE [b EXCEPT !.deletions = @ \cup removed \cup taken, !.insertions = @ \cup added]
  BY Zenon DEF MovesSorted, Places, InA, InB
<1> HIDE DEF a
<1>4. \A i \in 0 .. n - 1 : j[i] \in 0 .. n - 1 /\ kept[j[i] + 1] = a[i + 1]
  BY <1>2, PlacesAre
<1> HIDE DEF j
<1>5. ASSUME NEW i \in 0 .. n - 1, i + 1 \notin differ PROVE j[i] = i
  <2>1. i + 1 \in DOMAIN kept /\ j[i] + 1 \in DOMAIN kept /\ j[i] \in Nat
    <3>1. \A k \in 0 .. n - 1 : k + 1 \in DOMAIN kept /\ k \in Nat
      BY <1>1
    <3> QED  BY <1>4, <3>1
  <2>2. kept[j[i] + 1].row = kept[i + 1].row
    BY <1>1, <1>4, <1>5, <2>1
  <2>3. j[i] + 1 = i + 1
    BY <2>1, <2>2, KeptOnce
  <2> QED  BY <2>1, <2>3
<1>6. b \in [deletions : {b.deletions}, insertions : {b.insertions}, modifications : {b.modifications},
             moves : {b.moves}, mapping : {b.mapping}]
  BY DEF IsBuilder
<1>7. CASE differ = {}
  <2> DEFINE G == 0 .. n - 1
  <2>1. \A i \in G : j[i] = i
    BY <1>5, <1>7
  <2>2. Matching(j, G, G, n)
    BY <2>1 DEF Matching
  <2>3. /\ {a[i + 1].prev : i \in (0 .. n - 1) \ G} = {}
        /\ {kept[i + 1].tv : i \in (0 .. n - 1) \ G} = {}
    OBVIOUS
  <2>4. Outside(b, removed, kept, a, G, G) = [b EXCEPT !.deletions = @ \cup removed \cup {},
                                                      !.insertions = @ \cup {}]
    BY <2>3, Zenon DEF Outside, n
  <2>5. [b EXCEPT !.deletions = @ \cup removed \cup {}, !.insertions = @ \cup {}]
          = [b EXCEPT !.deletions = @ \cup removed]
    BY <1>6
  <2>6. MovesSorted(kept, b, removed) = Outside(b, removed, kept, a, G, G)
    BY <1>3, <1>7, <2>4, <2>5
  <2> QED  BY <2>2, <2>6 DEF a, j, n
<1>8. CASE differ # {}
  <2>1. \E i \in differ : \A k \in differ : i <= k
    <3>1. differ \in SUBSET Nat
      BY <1>1
    <3> HIDE DEF differ
    <3> QED  BY <1>8, <3>1, LeastNat
  <2>2. first + 1 \in differ /\ \A k \in differ : first + 1 <= k
    <3> DEFINE f == CHOOSE i \in differ : \A k \in differ : i <= k
    <3>1. f \in differ /\ \A k \in differ : f <= k
      BY <2>1
    <3>2. f \in 1 .. n
      BY <3>1
    <3> HIDE DEF differ, f
    <3>3. first = f - 1
      BY DEF f
    <3>4. first + 1 = f
      BY <1>1, <3>2, <3>3
    <3> QED  BY <3>1, <3>4
  <2> HIDE DEF first
  <2>3. first \in 0 .. n /\ first \in Nat /\ first <= n
    <3>1. first + 1 \in 1 .. n
      BY <2>2
    <3>2. first \in Int
      BY <2>1, SMTT(30) DEF first
    <3> QED  BY <1>1, <3>1, <3>2
  <2>4. \A i \in 0 .. first - 1 : j[i] = i
    <3> SUFFICES ASSUME NEW i \in 0 .. first - 1 PROVE j[i] = i
      OBVIOUS
    <3>1. i \in 0 .. n - 1 /\ ~(first + 1 <= i + 1)
      BY <1>1, <2>3
    <3> QED  BY <1>5, <2>2, <3>1
  <2>5. \A i \in first .. n - 1 : j[i] \in Nat
    BY <1>1, <1>4, <2>3
  <2> DEFINE w == [b1 |-> first, e1 |-> n, b2 |-> first, e2 |-> n]
             P == 0 .. first - 1
             G == P \cup InA(M)
             H == P \cup InB(M)
  <2>6. InSequence(M, w, j)
    BY <1>1, <2>3, <2>5, LongestMatchesAre
  <2> HIDE DEF M, n
  <2>7. Matching(j, InA(M), InB(M), n) /\ \A i \in InA(M) \cup InB(M) : first <= i
    <3>1. w.b1 = first /\ w.b2 = first /\ w.e1 = n /\ w.e2 = n
      OBVIOUS
    <3> HIDE DEF w
    <3> QED  BY <1>1, <2>3, <2>6, <3>1, SequenceMatches
  <2>8. Matching(j, G, H, n)
    BY <1>1, <2>3, <2>4, <2>7, MatchingMore
  <2>9. (first .. n - 1) \ InA(M) = (0 .. n - 1) \ G /\ (first .. n - 1) \ InB(M) = (0 .. n - 1) \ H
    <3>1. \A i : i \in 0 .. n - 1 /\ i \notin P <=> i \in first .. n - 1
      BY <1>1, <2>3
    <3> HIDE DEF P
    <3> QED  BY <3>1
  <2>10. Outside(b, removed, kept, a, G, H) =
           [b EXCEPT !.deletions = @ \cup removed \cup taken, !.insertions = @ \cup added]
    <3>1. /\ {a[i + 1].prev : i \in (0 .. n - 1) \ G} = taken
          /\ {kept[i + 1].tv : i \in (0 .. n - 1) \ H} = added
      BY <2>9
    <3> HIDE DEF G, H, taken, added
    <3> QED  BY <3>1 DEF Outside, n
  <2>11. MovesSorted(kept, b, removed) = Outside(b, removed, kept, a, G, H)
    BY <1>3, <1>8, <2>10, Zenon
  <2> HIDE DEF G, H
  <2> QED  BY <2>8, <2>11 DEF a, j, n
<1> QED  BY <1>7, <1>8

\* The indices of chosen positions of a list.
LEMMA PickedIs ==
  ASSUME NEW s, Len(s) \in Nat, DOMAIN s = 1 .. Len(s), NEW Q \in SUBSET DOMAIN s
  PROVE  /\ {k - 1 : k \in Q} \in SUBSET Nat
         /\ \A x \in {k - 1 : k \in Q} : x < Len(s)
         /\ \A x \in 0 .. Len(s) - 1 : x \in {k - 1 : k \in Q} <=> x + 1 \in Q
<1> DEFINE T == {k - 1 : k \in Q}
<1>1. ASSUME NEW x \in T PROVE x \in Nat /\ x < Len(s) /\ x + 1 \in Q
  <2>1. PICK k \in Q : x = k - 1
    OBVIOUS
  <2>2. k \in 1 .. Len(s)
    OBVIOUS
  <2> QED  BY <2>1, <2>2
<1>2. ASSUME NEW x \in 0 .. Len(s) - 1, x + 1 \in Q PROVE x \in T
  <2>1. x = (x + 1) - 1
    OBVIOUS
  <2> QED  BY <1>2, <2>1
<1> QED  BY <1>1, <1>2

\* Sets of indices below a length.
LEMMA BoundedIndices ==
  ASSUME NEW n \in Nat, NEW S \in SUBSET Nat, \A x \in S : x < n
  PROVE  S \in Indices
<1>1. \A x \in S : x <= n
  OBVIOUS
<1> QED  BY <1>1 DEF Indices

\* The indices of the rows that the new list does not have.
Absent(E, old, prev, new) ==
  /\ E \in SUBSET Nat
  /\ \A y \in E : y < Len(old)
  /\ \A y \in 0 .. Len(old) - 1 : y \in E <=> prev[y + 1] \notin ToSet(new)

\* What is outside a matching, and in one list only, is deleted and inserted.
LeftOut(r, E, N, kept, a, G, H, changed) ==
  /\ r.moves = <<>>
  /\ r.mapping = <<>>
  /\ r \in [deletions : {r.deletions}, insertions : {r.insertions},
            modifications : {r.modifications}, moves : {r.moves}, mapping : {r.mapping}]
  /\ r.deletions = E \cup {a[i + 1].prev : i \in (0 .. Len(kept) - 1) \ G}
  /\ r.insertions = N \cup {kept[i + 1].tv : i \in (0 .. Len(kept) - 1) \ H}
  /\ r.modifications = {e.tv : e \in {s \in ToSet(kept) : s.row \in changed}}

\* These changes are good.
LEMMA OutsideGood ==
  ASSUME NEW old \in Seq(Nat), NEW new \in Seq(Nat), Distinct(old), Distinct(new),
         NEW prev, StillThere(prev, old), Len(prev) = Len(old),
         NEW kept, InBoth(kept, prev, new), NEW a, Reordered(a, kept),
         NEW G, NEW H, Matching(Places(kept, a), G, H, Len(kept)),
         NEW E, Absent(E, old, prev, new), NEW changed, NEW r,
         LeftOut(r, E, Newcomers(prev, new), kept, a, G, H, changed)
  PROVE  Good(r, old, new, changed)
<1> DEFINE n == Len(kept)
           A == {a[i + 1].prev : i \in (0 .. n - 1) \ G}
           K == {kept[i + 1].tv : i \in (0 .. n - 1) \ H}
           M == {e.tv : e \in {s \in ToSet(kept) : s.row \in changed}}
           N == Newcomers(prev, new)
<1>1. /\ Len(new) \in Nat /\ DOMAIN new = 1 .. Len(new)
      /\ Len(old) \in Nat /\ DOMAIN old = 1 .. Len(old) /\ DOMAIN prev = 1 .. Len(old)
      /\ n \in Nat /\ DOMAIN kept = 1 .. n /\ DOMAIN a = 1 .. n
  BY SeqLen DEF StillThere, InBoth, Reordered
<1>2. \A k \in DOMAIN kept :
        /\ kept[k].tv \in Nat /\ kept[k].tv < Len(new) /\ new[kept[k].tv + 1] = kept[k].row
        /\ kept[k].prev \in Nat /\ kept[k].prev < Len(old)
        /\ prev[kept[k].prev + 1] = kept[k].row
  BY DEF InBoth
<1>3. \A i \in 0 .. n - 1 : i + 1 \in DOMAIN kept /\ i + 1 \in DOMAIN a
  BY <1>1
<1>4. A \in SUBSET Nat /\ \A y \in A : y < Len(old)
  <2>1. \A k \in DOMAIN a : a[k].prev \in Nat /\ a[k].prev < Len(old)
    BY <1>2 DEF Reordered
  <2> HIDE DEF n
  <2>2. \A i \in (0 .. n - 1) \ G : a[i + 1].prev \in Nat /\ a[i + 1].prev < Len(old)
    BY <1>3, <2>1
  <2> QED  BY <2>2
<1>5. K \in SUBSET Nat /\ \A x \in K : x < Len(new)
  <2> HIDE DEF n
  <2>1. \A i \in (0 .. n - 1) \ H : kept[i + 1].tv \in Nat /\ kept[i + 1].tv < Len(new)
    BY <1>2, <1>3
  <2> QED  BY <2>1
<1>6. M \in SUBSET Nat /\ \A x \in M : x < Len(new)
  <2>1. \A e \in ToSet(kept) : e.tv \in Nat /\ e.tv < Len(new)
    BY <1>2 DEF ToSet
  <2> QED  BY <2>1
<1>7. /\ N \in Indices /\ N \subseteq Nat /\ \A x \in N : x < Len(new)
      /\ \A x \in Nat : x < Len(new) => (x \in N <=> new[x + 1] \notin ToSet(prev))
  BY NewcomersIs, IndicesFinite
<1>8. /\ r.deletions = E \cup A /\ r.insertions = N \cup K /\ r.modifications = M
      /\ r.moves = <<>> /\ r.mapping = <<>>
      /\ r \in [deletions : {r.deletions}, insertions : {r.insertions},
                modifications : {r.modifications}, moves : {r.moves}, mapping : {r.mapping}]
  BY DEF LeftOut
<1> HIDE DEF N
<1>9. /\ r.deletions \in Indices /\ r.insertions \in Indices /\ r.modifications \in Indices
      /\ \A x \in r.insertions : x < Len(new)
      /\ \A x \in r.modifications : x < Len(new)
  <2> HIDE DEF A, K, M
  <2>0. E \in SUBSET Nat /\ \A y \in E : y < Len(old)
    BY DEF Absent
  <2>1. /\ r.deletions \in SUBSET Nat /\ \A y \in r.deletions : y < Len(old)
        /\ r.insertions \in SUBSET Nat /\ \A x \in r.insertions : x < Len(new)
        /\ r.modifications \in SUBSET Nat /\ \A x \in r.modifications : x < Len(new)
    BY <1>4, <1>5, <1>6, <1>7, <1>8, <2>0
  <2> QED  BY <1>1, <2>1, BoundedIndices
<1>10. \E f : Aligned(r.deletions, r.insertions, old, new, f)
  <2>1. TakenOut(r.deletions, old, prev, new, kept, a, G)
    <3>1. \A y : y \in A <=> \E i \in (0 .. n - 1) \ G : y = a[i + 1].prev
      OBVIOUS
    <3>2. \A y \in 0 .. Len(old) - 1 : y \in E <=> prev[y + 1] \notin ToSet(new)
      BY DEF Absent
    <3> HIDE DEF A
    <3> QED  BY <1>8, <3>1, <3>2 DEF TakenOut
  <2>2. PutIn(r.insertions, prev, new, kept, H)
    <3>1. \A x : x \in K <=> \E i \in (0 .. n - 1) \ H : x = kept[i + 1].tv
      OBVIOUS
    <3>2. \A x \in 0 .. Len(new) - 1 : x \in Nat /\ x < Len(new)
      BY <1>1
    <3> HIDE DEF K
    <3> QED  BY <1>7, <1>8, <3>1, <3>2 DEF PutIn
  <2> QED  BY <2>1, <2>2, SortedAligned, Zenon
<1>11. Pairs(r.deletions, r.insertions, old, new)
  BY <1>9, <1>10, AlignedPairs
<1>12. IsBuilder(r) /\ DOMAIN r.mapping = {} /\ DOMAIN r.moves = {}
  <2>1. <<>> \in Seq(Move) /\ DOMAIN <<>> = {}
    OBVIOUS
  <2> QED  BY <1>8, <1>9, <2>1 DEF IsBuilder
<1>13. Bounded(r, new) /\ TrueMoves(r, old, new) /\ DistinctMoves(r)
  BY <1>9, <1>12 DEF Bounded, TrueMoves, DistinctMoves
<1>14. Marks(r, new, changed)
  <2> SUFFICES ASSUME NEW x \in Nat, x < Len(new), x \in r.insertions => MovedTo(r, x)
               PROVE  x \in r.modifications <=> new[x + 1] \in changed
    BY DEF Marks
  <2>1. x \notin r.insertions
    BY <1>12 DEF MovedTo
  <2>2. x + 1 \in DOMAIN new /\ new[x + 1] \in ToSet(prev)
    BY <1>1, <1>7, <1>8, <2>1
  <2>3. PICK k \in DOMAIN kept : kept[k].tv = x
    <3>1. \E k \in DOMAIN kept : kept[k].tv = (x + 1) - 1
      BY <2>2 DEF InBoth
    <3> QED  BY <3>1
  <2>4. kept[k].row = new[x + 1]
    BY <1>2, <2>3
  <2>5. ASSUME new[x + 1] \in changed PROVE x \in M
    <3>1. kept[k] \in {s \in ToSet(kept) : s.row \in changed}
      BY <2>4, <2>5 DEF ToSet
    <3> QED  BY <2>3, <3>1
  <2>6. ASSUME x \in M PROVE new[x + 1] \in changed
    <3>1. PICK e \in ToSet(kept) : e.row \in changed /\ e.tv = x
      BY <2>6
    <3>2. PICK l \in DOMAIN kept : e = kept[l]
      BY <3>1 DEF ToSet
    <3> QED  BY <1>2, <3>1, <3>2
  <2> QED  BY <1>8, <2>5, <2>6
<1> QED  BY <1>11, <1>12, <1>13, <1>14 DEF Good, Sound

\* So what is calculated for sorted results is good.
LEMMA CalculatedGood ==
  ASSUME NEW old \in Seq(Nat), NEW new \in Seq(Nat), Distinct(old), Distinct(new),
         NEW prev \in Seq(Int), StillThere(prev, old), NEW changed, NEW candidates
  PROVE  Good(Calculate(prev, new, changed, TRUE, candidates), old, new, changed)
<1> DEFINE kept == Kept(prev, new)
           a == ByPrev(kept)
           D == {k - 1 : k \in {l \in DOMAIN prev : prev[l] = npos}}
           N == Newcomers(prev, new)
           M == {e.tv : e \in {s \in ToSet(kept) : s.row \in changed}}
           removed == {k - 1 : k \in {l \in DOMAIN prev : prev[l] \notin ToSet(new) \cup {npos}}}
           b == [Empty EXCEPT !.deletions = D, !.insertions = N, !.modifications = M]
           c == Calculate(prev, new, changed, TRUE, candidates)
<1>1. /\ Len(prev) \in Nat /\ DOMAIN prev = 1 .. Len(prev)
      /\ Len(old) \in Nat /\ DOMAIN old = 1 .. Len(old) /\ DOMAIN new = 1 .. Len(new)
  <2> HIDE DEF kept, a, D, N, M, removed, b, c
  <2> QED  BY SeqLen
<1>2. Len(prev) = Len(old)
  <2>1. 1 .. Len(prev) = 1 .. Len(old)
    BY <1>1 DEF StillThere
  <2> HIDE DEF kept, a, D, N, M, removed, b, c
  <2>2. ASSUME NEW m \in Nat, NEW n \in Nat, 1 .. m = 1 .. n PROVE m = n
    <3>1. m >= 1 => m \in 1 .. n
      BY <2>2
    <3>2. n >= 1 => n \in 1 .. m
      BY <2>2
    <3> QED  BY <3>1, <3>2
  <2>3. Len(prev) \in Nat /\ Len(old) \in Nat
    BY <1>1
  <2> QED  BY <2>1, <2>2, <2>3, Zenon
<1>3. c = MovesSorted(kept, b, removed)
  BY Zenon DEF Calculate, Gone, Where, Newcomers
<1>4. InBoth(kept, prev, new)
  <2>1. new \in Seq(Int)
    <3>1. Nat \subseteq Int
      OBVIOUS
    <3>2. \A k \in 1 .. Len(new) : new[k] \in Int
      BY <1>1
    <3> QED  BY <1>1, <3>2
  <2> QED  BY <2>1, KeptIs
<1>5. Reordered(a, kept)
  BY <1>1, <1>4, ByPrevIs
<1> HIDE DEF kept
<1>6. /\ D \in SUBSET Nat /\ \A y \in D : y < Len(old)
      /\ \A y \in 0 .. Len(old) - 1 : y \in D <=> y + 1 \in {l \in DOMAIN prev : prev[l] = npos}
  <2> DEFINE Q == {l \in DOMAIN prev : prev[l] = npos}
  <2>1. Q \in SUBSET DOMAIN prev
    OBVIOUS
  <2> HIDE DEF Q
  <2>2. /\ {k - 1 : k \in Q} \in SUBSET Nat /\ \A y \in {k - 1 : k \in Q} : y < Len(prev)
        /\ \A y \in 0 .. Len(prev) - 1 : y \in {k - 1 : k \in Q} <=> y + 1 \in Q
    BY <1>1, <2>1, PickedIs
  <2> QED  BY <1>2, <2>2 DEF Q
<1>7. /\ removed \in SUBSET Nat /\ \A y \in removed : y < Len(old)
      /\ \A y \in 0 .. Len(old) - 1 :
           y \in removed <=> y + 1 \in {l \in DOMAIN prev : prev[l] \notin ToSet(new) \cup {npos}}
  <2> DEFINE Q == {l \in DOMAIN prev : prev[l] \notin ToSet(new) \cup {npos}}
  <2>1. Q \in SUBSET DOMAIN prev
    OBVIOUS
  <2> HIDE DEF Q
  <2>2. /\ {k - 1 : k \in Q} \in SUBSET Nat /\ \A y \in {k - 1 : k \in Q} : y < Len(prev)
        /\ \A y \in 0 .. Len(prev) - 1 : y \in {k - 1 : k \in Q} <=> y + 1 \in Q
    BY <1>1, <2>1, PickedIs
  <2> QED  BY <1>2, <2>2 DEF Q
<1>8. npos \notin ToSet(new)
  <2>1. \A p \in DOMAIN new : new[p] \in Nat
    OBVIOUS
  <2> QED  BY <2>1 DEF ToSet, npos
<1>9. \A y \in 0 .. Len(old) - 1 : y \in D \cup removed <=> prev[y + 1] \notin ToSet(new)
  <2> SUFFICES ASSUME NEW y \in 0 .. Len(old) - 1
               PROVE  y \in D \cup removed <=> prev[y + 1] \notin ToSet(new)
    OBVIOUS
  <2>1. y + 1 \in DOMAIN prev
    BY <1>1, <1>2
  <2>2. y \in D <=> prev[y + 1] = npos
    BY <1>6, <2>1
  <2>3. y \in removed <=> prev[y + 1] \notin ToSet(new) \cup {npos}
    BY <1>7, <2>1
  <2> QED  BY <1>8, <2>2, <2>3
<1>10. /\ b.deletions = D /\ b.insertions = N /\ b.modifications = M
       /\ b.moves = <<>> /\ b.mapping = <<>>
       /\ b \in [deletions : {D}, insertions : {N}, modifications : {M},
                 moves : {<<>>}, mapping : {<<>>}]
  <2> HIDE DEF D, N, M
  <2> QED  BY DEF Empty
<1>11. IsBuilder(b)
  <2>1. N \in Indices
    BY NewcomersIs
  <2>2. D \in Indices
    BY <1>1, <1>6, BoundedIndices
  <2>3. M \in Indices
    <3>1. \A e \in ToSet(kept) : e.tv \in Nat /\ e.tv < Len(new)
      BY <1>4 DEF ToSet, InBoth
    <3>2. M \in SUBSET Nat /\ (\A x \in M : x < Len(new)) /\ Len(new) \in Nat
      BY <3>1
    <3> HIDE DEF M
    <3> QED  BY <3>2, BoundedIndices
  <2>4. <<>> \in Seq(Move)
    OBVIOUS
  <2> HIDE DEF b, D, N, M
  <2> QED  BY <1>10, <2>1, <2>2, <2>3, <2>4 DEF IsBuilder
<1> HIDE DEF D, N, M, removed, b
<1>12. PICK G, H : /\ Matching(Places(kept, a), G, H, Len(kept))
                   /\ MovesSorted(kept, b, removed) = Outside(b, removed, kept, a, G, H)
  BY <1>1, <1>4, <1>11, SortedIs
<1> HIDE DEF a
<1> DEFINE A == {a[i + 1].prev : i \in (0 .. Len(kept) - 1) \ G}
           K == {kept[i + 1].tv : i \in (0 .. Len(kept) - 1) \ H}
<1>13. c = [b EXCEPT !.deletions = @ \cup removed \cup A, !.insertions = @ \cup K]
  BY <1>3, <1>12 DEF Outside
<1> HIDE DEF c
<1>14. Reordered(a, kept)
  BY <1>5 DEF a
<1> DEFINE E == D \cup removed
<1>15. LeftOut(c, E, Newcomers(prev, new), kept, a, G, H, changed)
  <2>1. /\ c.deletions = E \cup A /\ c.insertions = N \cup K /\ c.modifications = M
        /\ c.moves = <<>> /\ c.mapping = <<>>
        /\ c \in [deletions : {c.deletions}, insertions : {c.insertions},
                  modifications : {c.modifications}, moves : {c.moves}, mapping : {c.mapping}]
    <3> HIDE DEF A, K
    <3> QED  BY <1>10, <1>13
  <2> HIDE DEF E
  <2> QED  BY <2>1 DEF LeftOut, M, N
<1>16. Absent(E, old, prev, new)
  BY <1>6, <1>7, <1>9 DEF Absent
<1> HIDE DEF E
<1>17. Good(c, old, new, changed)
  BY <1>2, <1>4, <1>12, <1>14, <1>15, <1>16, OutsideGood, Zenon
<1> QED  BY <1>17, ZenonT(30) DEF c

-----------------------------------------------------------------------------
(* The steps of sorted results, and the end of a log.                         *)

\* The rows that a sorted query may have are a list of rows.
LEMMA ListedArranged ==
  ASSUME NEW s \in Seq(Nat), NEW e \in Nat, \A k \in DOMAIN s : s[k] < e,
         NEW new \in Arrangements(ToSet(s) \cup {e}), Len(new) <= MaxRows
  PROVE  Listed(new, IF e \in ToSet(new) THEN e + 1 ELSE e)
<1> DEFINE S == ToSet(s) \cup {e}
           n == IF e \in ToSet(new) THEN e + 1 ELSE e
<1>1. PICK m \in 0 .. MaxRows : new \in [1 .. m -> S] /\ IsInjective(new)
  BY DEF Arrangements
<1>2. \A r \in ToSet(s) : r \in Nat /\ r < e
  <2>1. \A k \in DOMAIN s : s[k] \in Nat
    OBVIOUS
  <2> QED  BY <2>1 DEF ToSet
<1>3. S \subseteq Nat
  BY <1>2
<1>4. \A k \in DOMAIN new : new[k] \in S
  BY <1>1
<1> HIDE DEF S
<1>5. new \in Seq(Nat)
  <2>1. m \in Nat
    BY BoundAssumption
  <2>2. new \in [1 .. m -> Nat]
    BY <1>1, <1>3
  <2> QED  BY <2>1, <2>2, FunctionIsSeq
<1>6. Distinct(new)
  BY <1>1 DEF Distinct, IsInjective
<1>7. \A k \in DOMAIN new : new[k] < n
  <2> SUFFICES ASSUME NEW k \in DOMAIN new PROVE new[k] < n
    OBVIOUS
  <2>1. new[k] \in ToSet(new)
    BY DEF ToSet
  <2>2. CASE new[k] = e
    BY <2>1, <2>2
  <2>3. CASE new[k] # e
    <3>1. new[k] \in ToSet(s)
      BY <1>4, <2>3 DEF S
    <3> QED  BY <1>2, <3>1
  <2> QED  BY <2>2, <2>3
<1> QED  BY <1>5, <1>6, <1>7 DEF Listed

\* Running a sorted query again keeps the invariant.
LEMMA RerunKeeps ==
  ASSUME IInv, NEW new \in Arrangements(ToSet(rows) \cup {next}), NEW gone,
         NEW changed \in SUBSET ToSet(new), Rerun(new, gone, changed)
  PROVE  IInv'
<1> DEFINE prev == Map(rows, LAMBDA r : IF r \in gone THEN npos ELSE r)
           b == Calculate(prev, new, changed, TRUE, {})
           n == IF next \in ToSet(new) THEN next + 1 ELSE next
<1>1. kind = "sorted" /\ builder = Empty /\ Call(b, new) /\ dirty' = changed /\ next' = n
  BY DEF Rerun
<1>2. Len(new) <= MaxRows
  BY <1>1 DEF Call
<1>3. /\ rows \in Seq(Nat) /\ mid \in Seq(Nat) /\ Distinct(rows) /\ next \in Nat
      /\ DOMAIN rows = 1 .. Len(rows) /\ Len(rows) \in Nat
      /\ \A k \in DOMAIN rows : rows[k] \in Nat /\ rows[k] < next
  BY RowsFacts
<1>4. Listed(new, n)
  BY <1>2, <1>3, ListedArranged
<1>5. n \in Nat /\ next <= n
  BY <1>3
<1>6. new \in Seq(Nat) /\ Distinct(new)
  BY <1>4 DEF Listed
<1>7. Older(n, changed)
  <2>1. \A k \in DOMAIN new : new[k] \in Nat /\ new[k] < n
    BY <1>4, <1>6, ElementOfSeq, SeqLen DEF Listed
  <2> HIDE DEF n
  <2> QED  BY <2>1 DEF Older, ToSet
<1>8. mid = rows
  <2>1. Good(Empty, mid, rows, dirty)
    BY <1>1 DEF IInv, Held
  <2>2. Pairs({}, {}, mid, rows)
    BY <2>1 DEF Good, Empty
  <2> QED  BY <1>3, <2>2, PairsSame
<1>9. prev \in Seq(Int) /\ StillThere(prev, rows)
  <2>1. DOMAIN prev = DOMAIN rows /\ \A k \in DOMAIN rows : prev[k] = IF rows[k] \in gone THEN npos ELSE rows[k]
    BY DEF Map
  <2> HIDE DEF prev
  <2>2. StillThere(prev, rows)
    BY <2>1 DEF StillThere
  <2>3. prev \in [1 .. Len(rows) -> Int]
    <3>1. \A k \in DOMAIN rows : prev[k] \in Int
      BY <1>3, <2>1 DEF npos
    <3>2. prev = [k \in DOMAIN rows |-> prev[k]]
      <4>1. prev = [k \in DOMAIN rows |-> IF rows[k] \in gone THEN npos ELSE rows[k]]
        BY DEF prev, Map
      <4> QED  BY <4>1
    <3> QED  BY <1>3, <3>1, <3>2
  <2> QED  BY <1>3, <2>2, <2>3, FunctionIsSeq
<1> HIDE DEF prev, n
<1>10. Good(b, mid, new, changed)
  BY <1>3, <1>6, <1>8, <1>9, CalculatedGood
<1> HIDE DEF b
<1>11. Held(kind, b, mid, new, changed)
  BY <1>1, <1>10 DEF Held
<1> QED  BY <1>1, <1>4, <1>5, <1>7, <1>11, CalledIInv

\* parse_complete() makes no moves for a linked table.
LEMMA ParsedLinked ==
  ASSUME NEW b, DOMAIN b.moves = {}, DOMAIN b.mapping = {}, IsBuilder(b)
  PROVE  ParseComplete(b).moves = <<>>
<1> DEFINE stay == {k \in DOMAIN b.mapping : b.mapping[k] = k}
           moved == {[from |-> b.mapping[k], to |-> k] : k \in DOMAIN b.mapping \ stay}
<1>1. ToSet(b.moves) \cup moved = {}
  BY DEF ToSet
<1>2. b = [deletions |-> b.deletions, insertions |-> b.insertions,
           modifications |-> b.modifications, moves |-> b.moves, mapping |-> b.mapping]
  BY DEF IsBuilder
<1>3. ParseComplete(b) = [b EXCEPT !.deletions = @ \ stay, !.insertions = @ \ stay,
                                   !.mapping = <<>>, !.moves = ByFrom({})]
  BY <1>1, Zenon DEF ParseComplete
<1>4. ParseComplete(b).moves = ByFrom({})
  BY <1>2, <1>3
<1>5. ByFrom({}) = <<>>
  <2>1. Cardinality({}) = 0 /\ {m.from : m \in {}} = {} /\ 1 .. 0 = {}
    BY FS_EmptySet
  <2>2. DOMAIN ByFrom({}) = {}
    BY <2>1 DEF ByFrom
  <2>3. ByFrom({}) = [n \in {} |-> ByFrom({})[n]]
    BY <2>1 DEF ByFrom
  <2> QED  BY <2>3
<1> QED  BY <1>4, <1>5

\* The end of a log and the merge into the earlier changes keep it.
LEMMA CompleteKeeps ==
  ASSUME IInv, Complete
  PROVE  IInv'
<1> DEFINE c == CASE kind = "list" -> CleanUpStaleMoves(builder)
                  [] kind = "sorted" -> builder
                  [] OTHER -> ParseComplete(builder)
<1>1. /\ total' = Merge(total, c) /\ mid' = rows /\ dirtyTotal' = dirtyTotal \cup dirty
      /\ builder' = Empty /\ dirty' = {}
      /\ kind' = kind /\ base' = base /\ rows' = rows /\ next' = next
  BY DEF Complete
<1>2. kind \in Kinds /\ next \in Nat
  BY DEF IInv
<1>3. Held(kind, Empty, rows, rows, {})
  BY RowsFacts, EmptyHeld
<1>4. Summed(kind, Merge(total, c), base, rows, dirtyTotal \cup dirty)
  <2>1. /\ base \in Seq(Nat) /\ mid \in Seq(Nat) /\ rows \in Seq(Nat)
        /\ \A k, l \in DOMAIN base : base[k] = base[l] => k = l
        /\ \A k, l \in DOMAIN mid : mid[k] = mid[l] => k = l
        /\ \A k, l \in DOMAIN rows : rows[k] = rows[l] => k = l
    BY RowsFacts DEF Distinct
  <2>2. ASSUME kind \in {"list", "table", "swapped", "sorted"}, Good(c, mid, rows, dirty)
        PROVE  Summed(kind, Merge(total, c), base, rows, dirtyTotal \cup dirty)
    <3> HIDE DEF c
    <3>1. Good(total, base, mid, dirtyTotal)
      BY <2>2 DEF IInv, Summed
    <3>2. Good(Merge(total, c), base, rows, dirtyTotal \cup dirty)
      BY <2>1, <2>2, <3>1, MergedGood
    <3> QED  BY <2>2, <3>2 DEF Summed
  <2>3. ASSUME kind = "linked", c.moves = <<>>
        PROVE  Summed(kind, Merge(total, c), base, rows, dirtyTotal \cup dirty)
    <3> HIDE DEF c
    <3>1. total.moves = <<>>
      BY <2>3 DEF IInv, Summed
    <3>2. Merge(total, c).moves = <<>>
      BY <2>3, <3>1, MergedUnmoved
    <3> QED  BY <2>3, <3>2 DEF Summed
  <2>4. CASE kind = "list"
    <3>1. Good(builder, mid, rows, dirty) /\ c = CleanUpStaleMoves(builder)
      BY <2>4 DEF IInv, Held
    <3>2. Good(CleanUpStaleMoves(builder), mid, rows, dirty)
      BY <2>1, <2>4, <3>1, CleanedGood
    <3> QED  BY <2>2, <2>4, <3>1, <3>2
  <2>5. CASE kind \in {"table", "swapped"}
    <3>1. OnTable(builder, mid, rows, dirty) /\ c = ParseComplete(builder)
      BY <2>5 DEF IInv, Held
    <3>2. Good(ParseComplete(builder), mid, rows, dirty)
      BY <2>1, <2>5, <3>1, ParsedGood
    <3> QED  BY <2>2, <2>5, <3>1, <3>2
  <2>6. CASE kind = "linked"
    <3>1. OnLinked(builder, rows, dirty) /\ c = ParseComplete(builder)
      BY <2>6 DEF IInv, Held
    <3>2. c.moves = <<>>
      BY <3>1, ParsedLinked DEF OnLinked, Sound
    <3> QED  BY <2>3, <2>6, <3>2
  <2>7. CASE kind = "sorted"
    <3>1. Good(builder, mid, rows, dirty) /\ c = builder
      BY <2>7 DEF IInv, Held
    <3> QED  BY <2>2, <2>7, <3>1
  <2> QED  BY <1>2, <2>4, <2>5, <2>6, <2>7, AnyKind
<1> HIDE DEF c
<1>5. Listed(base, next) /\ Listed(rows, next)
  BY DEF IInv
<1>6. Older(next, {})
  BY DEF Older
<1> QED  BY <1>1, <1>2, <1>3, <1>4, <1>5, <1>6 DEF IInv

\* Every step does.
LEMMA NextIInv ==
  ASSUME IInv, [Next]_vars
  PROVE  IInv'
<1>1. CASE ClearRows
  BY <1>1, ClearKeeps
<1>2. CASE Complete
  BY <1>2, CompleteKeeps
<1>3. CASE \E i \in 0 .. Len(rows) : InsertRow(i)
  BY <1>3, InsertKeeps
<1>4. ASSUME NEW i \in 0 .. Len(rows) - 1,
             \/ EraseRow(i) \/ MoveLastOver(i) \/ ModifyRow(i)
             \/ \E j \in 0 .. Len(rows) - 1 : MoveRow(i, j) \/ SwapRows(i, j)
      PROVE  IInv'
  BY <1>4, EraseKeeps, MoveLastOverKeeps, ModifyKeeps, MoveKeeps, SwapKeeps
<1>5. ASSUME NEW new \in IF kind = "sorted" /\ builder = Empty /\ calls < MaxCalls[kind]
                          THEN Arrangements(ToSet(rows) \cup {next}) ELSE {},
             NEW gone \in {{}, ToSet(rows) \ ToSet(new)},
             NEW changed \in {{}} \cup {{r} : r \in ToSet(new)},
             Rerun(new, gone, changed)
      PROVE  IInv'
  <2>1. new \in Arrangements(ToSet(rows) \cup {next})
    OBVIOUS
  <2>2. changed \in SUBSET ToSet(new)
    OBVIOUS
  <2> QED  BY <1>5, <2>1, <2>2, RerunKeeps
<1>6. CASE UNCHANGED vars
  BY <1>6 DEF vars, IInv, Older
<1> QED  BY <1>1, <1>2, <1>3, <1>4, <1>5, <1>6 DEF Next

\* The invariant holds in every reachable state.
LEMMA BuilderInvariant == Spec => []IInv
<1>1. Init => IInv
  BY InitIInv
<1>2. IInv /\ [Next]_vars => IInv'
  BY NextIInv
<1> QED  BY <1>1, <1>2, PTL DEF Spec

-----------------------------------------------------------------------------
(* What the invariant says of the properties.                                 *)

\* Moves and mapping entries that are true make BuilderMoves true.
LEMMA TrueMovesAre ==
  ASSUME NEW b, NEW old, NEW new, TrueMoves(b, old, new)
  PROVE  /\ \A m \in BuilderMoves(b) : TrueMove(b, old, new, m)
         /\ \A m \in ToSet(b.moves) : TrueMove(b, old, new, m)
BY DEF TrueMoves, BuilderMoves, ToSet

\* Without moves there is nothing to show.
LEMMA NoMoves ==
  ASSUME NEW b, DOMAIN b.moves = {}
  PROVE  ToSet(b.moves) = {} /\ (DOMAIN b.mapping = {} => BuilderMoves(b) = {})
BY DEF BuilderMoves, ToSet

\* Moves.
LEMMA InvariantMoves ==
  ASSUME IInv
  PROVE  MovesAreTrue
<1>1. kind \in {"list", "table", "swapped", "linked", "sorted"}
  BY AnyKind DEF IInv
<1>2. \A m \in BuilderMoves(builder) : TrueMove(builder, mid, rows, m)
  <2>1. CASE kind \in {"list", "table", "swapped", "sorted"}
    <3>1. TrueMoves(builder, mid, rows)
      BY <2>1 DEF IInv, Held, Good, OnTable, Sound
    <3> QED  BY <3>1, TrueMovesAre
  <2>2. CASE kind = "linked"
    <3>1. DOMAIN builder.moves = {} /\ DOMAIN builder.mapping = {}
      BY <2>2 DEF IInv, Held, OnLinked
    <3> QED  BY <3>1, NoMoves
  <2> QED  BY <1>1, <2>1, <2>2
<1>3. \A m \in ToSet(total.moves) : TrueMove(total, base, mid, m)
  <2>1. CASE kind \in {"list", "table", "swapped", "sorted"}
    <3>1. TrueMoves(total, base, mid)
      BY <2>1 DEF IInv, Summed, Good, Sound
    <3> QED  BY <3>1, TrueMovesAre
  <2>2. CASE kind = "linked"
    <3>1. total.moves = <<>>
      BY <2>2 DEF IInv, Summed
    <3>2. DOMAIN total.moves = {}
      BY <3>1
    <3> QED  BY <3>2, NoMoves
  <2> QED  BY <1>1, <2>1, <2>2
<1> QED  BY <1>2, <1>3 DEF MovesAreTrue

\* Paired rows are what the deletions and the insertions leave.
LEMMA GoodApplies ==
  ASSUME NEW R, NEW old \in Seq(R), NEW new \in Seq(R), NEW b, NEW set,
         Good(b, old, new, set) \/ OnTable(b, old, new, set)
  PROVE  Applies(b, old, new)
<1>1. IsBuilder(b)
  BY DEF Good, OnTable, Sound
<1>2. b.deletions \in Indices /\ b.insertions \in Indices
  BY <1>1, BuilderFields
<1>3. Pairs(b.deletions, b.insertions, old, new)
  BY <1>2, TablesPairs DEF Good, OnTable
<1> QED  BY <1>2, <1>3, PairsRest DEF Applies

\* Deletions and insertions.
LEMMA InvariantApplies ==
  ASSUME IInv
  PROVE  ChangesApply
<1>1. base \in Seq(Nat) /\ mid \in Seq(Nat) /\ rows \in Seq(Nat)
  BY RowsFacts
<1> SUFFICES ASSUME Track PROVE Applies(builder, mid, rows) /\ Applies(total, base, mid)
  BY DEF ChangesApply
<1>2. kind \in {"list", "table", "swapped", "sorted"}
  BY AnyKind DEF IInv, Track
<1>3. Good(builder, mid, rows, dirty) \/ OnTable(builder, mid, rows, dirty)
  BY <1>2 DEF IInv, Held
<1>4. Good(total, base, mid, dirtyTotal)
  BY <1>2 DEF IInv, Summed
<1> QED  BY <1>1, <1>3, <1>4, GoodApplies

\* Modifications.
LEMMA InvariantModifies ==
  ASSUME IInv
  PROVE  ModificationsAreExact
<1>1. base \in Seq(Nat) /\ mid \in Seq(Nat) /\ rows \in Seq(Nat)
  BY RowsFacts
<1>2. kind \in {"list", "table", "swapped", "linked", "sorted"}
  BY AnyKind DEF IInv
<1>3. Modifies(builder, rows, dirty)
  <2>1. Marks(builder, rows, dirty)
    BY <1>2 DEF IInv, Held, Good, OnTable, OnLinked, Sound
  <2> QED  BY <1>1, <2>1, MarksAreModifies
<1>4. ASSUME kind # "linked" PROVE Modifies(total, mid, dirtyTotal)
  <2>1. Marks(total, mid, dirtyTotal)
    BY <1>2, <1>4 DEF IInv, Summed, Good, Sound
  <2> QED  BY <1>1, <2>1, MarksAreModifies
<1> QED  BY <1>3, <1>4 DEF ModificationsAreExact

\* The rows at the old indices are those at the new ones.
SameRows(f, old, new) ==
  /\ \A k \in f.old : k < Len(old)
  /\ {old[k + 1] : k \in f.old} = {new[k + 1] : k \in f.new}

\* finalize() keeps them apart from plain insertions.
LEMMA GoodFinalized ==
  ASSUME NEW old, NEW new, NEW b, NEW set, Good(b, old, new, set)
  PROVE  SameRows(Finalized(b), old, new)
<1> DEFINE D == b.deletions
           I == b.insertions
           M == b.modifications
           of(x) == Shift(D, Unshift(I, x))
           N == M \ I
           O == {of(x) : x \in N}
<1>1. D \in Indices /\ I \in Indices /\ M \in Indices /\ Pairs(D, I, old, new)
  BY BuilderFields DEF Good, Sound
<1>2. \A x \in M : x \in Nat /\ x < Len(new)
  <2>1. \A x \in M : x \in Nat
    BY <1>1 DEF Indices
  <2> QED  BY <2>1 DEF Good, Sound, Bounded
<1>3. ASSUME NEW x \in N
      PROVE  of(x) < Len(old) /\ old[of(x) + 1] = new[x + 1]
  <2>1. x \in Nat \ I /\ x < Len(new)
    BY <1>2
  <2> HIDE DEF D, I, M
  <2>2. Unshift(I, x) \in Nat
    <3>1. x \in Nat
      BY <2>1
    <3>2. Unshift(I, x) \in 0 .. x
      BY <1>1, <3>1, UnshiftType
    <3> QED  BY <3>2
  <2>3. of(x) \in Nat \ D /\ Unshift(D, of(x)) = Unshift(I, x)
    BY <1>1, <2>2, ShiftIs
  <2> QED  BY <1>1, <2>1, <2>3 DEF Pairs
<1>4. Finalized(b) = [old |-> O, new |-> N]
  <2>1. EraseAtAll(M, I) = {Unshift(I, x) : x \in N}
    BY DEF EraseAtAll
  <2>2. ShiftForInsertAtAll(EraseAtAll(M, I), D) = O
    BY <2>1 DEF ShiftForInsertAtAll
  <2> QED  BY <2>2 DEF Finalized
<1>5. \A k \in O : k < Len(old)
  BY <1>3
<1>6. {old[k + 1] : k \in O} = {new[k + 1] : k \in N}
  <2> HIDE DEF N, of
  <2>1. {old[k + 1] : k \in O} = {old[of(x) + 1] : x \in N}
    OBVIOUS
  <2>2. {old[of(x) + 1] : x \in N} = {new[x + 1] : x \in N}
    BY <1>3
  <2> QED  BY <2>1, <2>2
<1> HIDE DEF O, N
<1>7. Finalized(b).old = O /\ Finalized(b).new = N
  BY <1>4
<1> QED  BY <1>5, <1>6, <1>7 DEF SameRows

\* Finalized modifications.
LEMMA InvariantFinalized ==
  ASSUME IInv
  PROVE  FinalizedAgree
<1> SUFFICES ASSUME Track PROVE SameRows(Finalized(total), base, mid)
  BY DEF FinalizedAgree, SameRows
<1>1. Good(total, base, mid, dirtyTotal)
  BY AnyKind DEF IInv, Summed, Track
<1> QED  BY <1>1, GoodFinalized

-----------------------------------------------------------------------------
(* The comparison of rows in table order: what is not reported as moved is in *)
(* the order in which it was.                                                 *)

\* Counting the indices below p outside S by something else.
LEMMA CountsBy ==
  ASSUME NEW S \in Indices, NEW p \in Nat, NEW X, NEW h,
         \A x \in X : h[x] \in (0 .. p - 1) \ S,
         \A x, y \in X : h[x] = h[y] => x = y,
         \A z \in (0 .. p - 1) \ S : \E x \in X : h[x] = z
  PROVE  /\ IsFiniteSet(X)
         /\ Cardinality(X) = Unshift(S, p)
<1> DEFINE B == (0 .. p - 1) \ S
           g == [z \in B |-> CHOOSE x \in X : h[x] = z]
<1>1. IsFiniteSet(B) /\ Unshift(S, p) = Cardinality(B)
  BY UnshiftCounts
<1>2. \A z \in B : g[z] \in X /\ h[g[z]] = z
  OBVIOUS
<1>3. g \in [B -> X]
  BY <1>2
<1>4. \A x \in X : h[x] \in B /\ g[h[x]] = x
  BY <1>2
<1> HIDE DEF B, g
<1>5. g \in Injection(B, X)
  BY <1>2, <1>3 DEF Injection, IsInjective
<1>6. g \in Surjection(B, X)
  BY <1>3, <1>4 DEF Surjection
<1>7. ExistsBijection(B, X)
  BY <1>5, <1>6 DEF Bijection, ExistsBijection
<1> QED  BY <1>1, <1>7, FS_Bijection

\* One row after the other, as the recursive function of the comparison.
Calc(acc, r) == r.tv - Below(acc.insertions, r.tv) + Below(acc.removed, r.prev)
MoveStep(candidates, acc, r) ==
  CASE r.shifted = acc.expected -> [acc EXCEPT !.expected = @ + 1]
    [] r.shifted # acc.expected /\ (r.row \notin candidates \/ r.shifted = Calc(acc, r)) ->
         [acc EXCEPT !.expected = r.shifted + 1]
    [] OTHER -> [acc EXCEPT !.moves = Append(@, [from |-> r.prev, to |-> r.tv]),
                            !.insertions = @ \cup {r.tv},
                            !.removed = @ \cup {r.prev}]
MoveBody(g, kept, N, R, candidates, k) ==
  IF k = 0 THEN [expected |-> 0, moves |-> <<>>, insertions |-> N, removed |-> R]
  ELSE MoveStep(candidates, g[k - 1], kept[k])
MovesIn(g, kept, N, R, candidates, n) ==
  /\ g = [k \in 0 .. n |-> g[k]]
  /\ \A k \in 0 .. n : g[k] = MoveBody(g, kept, N, R, candidates, k)

\* The function exists one row further ...
LEMMA MoveExtend ==
  ASSUME NEW kept, NEW N, NEW R, NEW candidates, NEW m \in Nat \ {0},
         NEW g, MovesIn(g, kept, N, R, candidates, m - 1)
  PROVE  \E h : MovesIn(h, kept, N, R, candidates, m)
<1> DEFINE last == MoveBody(g, kept, N, R, candidates, m)
           h == [k \in 0 .. m |-> IF k = m THEN last ELSE g[k]]
<1>1. \A k \in 0 .. m - 1 : g[k] = MoveBody(g, kept, N, R, candidates, k)
  BY DEF MovesIn
<1> HIDE DEF last
<1>2. h = [k \in 0 .. m |-> h[k]]
  OBVIOUS
<1>3. \A k \in 0 .. m : h[k] = IF k = m THEN last ELSE g[k]
  OBVIOUS
<1> HIDE DEF h
<1>4. ASSUME NEW k \in 0 .. m PROVE h[k] = MoveBody(h, kept, N, R, candidates, k)
  <2>1. CASE k = 0
    <3>1. h[k] = g[0] /\ g[0] = MoveBody(g, kept, N, R, candidates, 0)
      BY <1>1, <1>3, <2>1
    <3> QED  BY <2>1, <3>1 DEF MoveBody
  <2>2. CASE k # 0 /\ k = m
    <3>1. h[k] = last /\ h[k - 1] = g[k - 1]
      BY <1>3, <2>2
    <3> QED  BY <2>2, <3>1 DEF MoveBody, last
  <2>3. CASE k # 0 /\ k # m
    <3>1. h[k] = g[k] /\ h[k - 1] = g[k - 1] /\ g[k] = MoveBody(g, kept, N, R, candidates, k)
      BY <1>1, <1>3, <2>3
    <3> QED  BY <2>3, <3>1 DEF MoveBody
  <2> QED  BY <2>1, <2>2, <2>3
<1> QED  BY <1>2, <1>4 DEF MovesIn

\* What is reported of the rows compared.
Reported(b, acc) == [b EXCEPT !.moves = acc.moves, !.insertions = acc.insertions,
                              !.deletions = @ \cup acc.removed]

\* ... so it exists, and its value after the last row is what is reported.
LEMMA MoveSolution ==
  ASSUME NEW kept, Len(kept) \in Nat, NEW b, NEW R, NEW candidates
  PROVE  \E g : /\ MovesIn(g, kept, b.insertions, R, candidates, Len(kept))
                /\ MovesUnsorted(kept, b, R, candidates) = Reported(b, g[Len(kept)])
<1> DEFINE n == Len(kept)
           N == b.insertions
           T == {m \in 0 .. n : \E g : MovesIn(g, kept, N, R, candidates, m)}
           Rec(g) == g = [k \in 0 .. n |->
                            IF k = 0 THEN [expected |-> 0, moves |-> <<>>, insertions |-> b.insertions,
                                           removed |-> R]
                            ELSE MoveStep(candidates, g[k - 1], kept[k])]
           done == CHOOSE g : Rec(g)
<1>1. 0 .. n \subseteq T
  <2>1. 0 \in T
    <3> DEFINE v == [expected |-> 0, moves |-> <<>>, insertions |-> N, removed |-> R]
               g == [k \in 0 .. 0 |-> v]
    <3>1. g = [k \in 0 .. 0 |-> g[k]] /\ \A k \in 0 .. 0 : g[k] = v
      OBVIOUS
    <3> HIDE DEF g
    <3>2. MovesIn(g, kept, N, R, candidates, 0)
      BY <3>1 DEF MovesIn, MoveBody
    <3> QED  BY <3>2
  <2>2. ASSUME NEW m \in 1 .. n, m - 1 \in T PROVE m \in T
    <3>1. m \in Nat \ {0} /\ m \in 0 .. n
      OBVIOUS
    <3>2. PICK g : MovesIn(g, kept, N, R, candidates, m - 1)
      BY <2>2
    <3>3. \E h : MovesIn(h, kept, N, R, candidates, m)
      BY <3>1, <3>2, MoveExtend
    <3> QED  BY <3>1, <3>3
  <2> HIDE DEF T
  <2> QED  BY <2>1, <2>2, UpTo
<1>2. PICK g : MovesIn(g, kept, N, R, candidates, n)
  BY <1>1
<1>3. Rec(g)
  <2>1. /\ g = [k \in 0 .. n |-> g[k]]
        /\ \A k \in 0 .. n : g[k] = MoveBody(g, kept, N, R, candidates, k)
    BY <1>2 DEF MovesIn
  <2> QED  BY <2>1 DEF MoveBody
<1>4. Rec(done)
  BY <1>3
<1>5. MovesUnsorted(kept, b, R, candidates) = Reported(b, done[n])
  BY DEF MovesUnsorted, MoveStep, Calc, Reported
<1> HIDE DEF done
<1>6. MovesIn(done, kept, N, R, candidates, n)
  <2>1. done = [k \in 0 .. n |-> done[k]]
    BY <1>4
  <2>2. \A k \in 0 .. n : done[k] = MoveBody(done, kept, N, R, candidates, k)
    BY <1>4 DEF MoveBody
  <2> QED  BY <2>1, <2>2 DEF MovesIn
<1> QED  BY <1>5, <1>6

\* Two sets of indices apart from each other count together.
LEMMA BelowUnion ==
  ASSUME NEW S \in Indices, NEW T \in Indices, S \cap T = {}, NEW p \in Nat
  PROVE  /\ S \cup T \in Indices
         /\ Below(S \cup T, p) = Below(S, p) + Below(T, p)
<1> DEFINE A == {j \in S : j < p}
           B == {j \in T : j < p}
<1>1. S \cup T \in Indices
  <2>1. PICK m \in Nat : \A x \in S : x <= m
    BY DEF Indices
  <2>2. PICK n \in Nat : \A x \in T : x <= n
    BY DEF Indices
  <2>3. S \cup T \in SUBSET Nat
    BY DEF Indices
  <2>4. \A x \in S \cup T : x <= m + n
    BY <2>1, <2>2, <2>3
  <2>5. m + n \in Nat
    OBVIOUS
  <2> QED  BY <2>3, <2>4, <2>5 DEF Indices
<1>2. IsFiniteSet(A) /\ IsFiniteSet(B)
  <2>1. IsFiniteSet(S) /\ IsFiniteSet(T)
    BY IndicesFinite
  <2> QED  BY <2>1, FS_Subset
<1>3. {j \in S \cup T : j < p} = A \cup B /\ A \cap B = {}
  OBVIOUS
<1> HIDE DEF A, B
<1>4. Cardinality(A \cup B) = Cardinality(A) + Cardinality(B) - Cardinality({})
  BY <1>2, <1>3, FS_Union
<1>5. Cardinality({}) = 0 /\ Cardinality(A) \in Nat /\ Cardinality(B) \in Nat
  BY <1>2, FS_EmptySet, FS_CardinalityType
<1>6. Below(S, p) = Cardinality(A) /\ Below(T, p) = Cardinality(B)
  BY DEF Below, A, B
<1>7. Below(S \cup T, p) = Cardinality(A \cup B)
  BY <1>3 DEF Below
<1> QED  BY <1>1, <1>4, <1>5, <1>6, <1>7

\* The rows kept between a list of m rows, where those at G are gone and those at
\* R are not in the other, and one of n rows, where those at N are new.
Lined(kept, m, n, G, R, N) ==
  /\ m \in Nat /\ n \in Nat /\ Len(kept) \in Nat /\ DOMAIN kept = 1 .. Len(kept)
  /\ G \in Indices /\ R \in SUBSET Nat /\ N \in SUBSET Nat /\ G \cap R = {}
  /\ (\A y \in G \cup R : y < m) /\ (\A x \in N : x < n)
  /\ \A k \in DOMAIN kept : /\ kept[k].tv \in (0 .. n - 1) \ N
                            /\ kept[k].prev \in (0 .. m - 1) \ (G \cup R)
                            /\ kept[k].shifted = Unshift(G, kept[k].prev)
  /\ \A k, l \in DOMAIN kept : k < l <=> kept[k].tv < kept[l].tv
  /\ \A k, l \in DOMAIN kept : kept[k].prev = kept[l].prev => k = l
  /\ \A x \in (0 .. n - 1) \ N : \E k \in DOMAIN kept : kept[k].tv = x
  /\ \A y \in (0 .. m - 1) \ (G \cup R) : \E k \in DOMAIN kept : kept[k].prev = y

\* After the first k of them, of which those in M are reported as moved: a row that
\* is not comes after all those that were before it.
MovedSo(acc, kept, R, N, M, k) ==
  /\ acc = [expected |-> acc.expected, moves |-> acc.moves, insertions |-> acc.insertions,
            removed |-> acc.removed]
  /\ M \in SUBSET (1 .. k)
  /\ acc.moves \in Seq(Move)
  /\ \A q \in DOMAIN acc.moves : \E i \in M : acc.moves[q] = [from |-> kept[i].prev, to |-> kept[i].tv]
  /\ acc.insertions = N \cup {kept[i].tv : i \in M}
  /\ acc.removed = R \cup {kept[i].prev : i \in M}
  /\ \A u \in (1 .. k) \ M, y \in DOMAIN kept \ M : kept[y].prev < kept[u].prev => y < u
  /\ \/ acc.expected = 0 /\ (1 .. k) \ M = {}
     \/ \E u \in (1 .. k) \ M : /\ acc.expected = kept[u].shifted + 1
                                /\ \A v \in (1 .. k) \ M : v <= u

\* The row expected next is such a row.
LEMMA NextInLine ==
  ASSUME NEW kept, NEW m, NEW n, NEW G, NEW R, NEW N, Lined(kept, m, n, G, R, N),
         NEW k \in DOMAIN kept, NEW acc, NEW M, MovedSo(acc, kept, R, N, M, k - 1),
         kept[k].shifted = acc.expected, NEW y \in DOMAIN kept \ M, kept[y].prev < kept[k].prev
  PROVE  y < k
<1>1. /\ kept[k].prev \in Nat /\ kept[k].shifted = Unshift(G, kept[k].prev)
      /\ kept[y].prev \in Nat /\ kept[y].prev \notin G /\ G \in Indices
      /\ k \in Nat /\ y \in Nat
  BY DEF Lined
<1>2. Unshift(G, kept[y].prev) < kept[k].shifted /\ Unshift(G, kept[y].prev) \in Nat
  <2>1. Unshift(G, kept[y].prev) \in 0 .. kept[y].prev
    BY <1>1, UnshiftType
  <2> QED  BY <1>1, <2>1, UnshiftStrict
<1>3. acc.expected # 0
  <2>1. kept[k].shifted # 0
    <3>1. Unshift(G, kept[k].prev) \in 0 .. kept[k].prev
      BY <1>1, UnshiftType
    <3> QED  BY <1>1, <1>2, <3>1
  <2> QED  BY <2>1
<1>4. PICK u \in (1 .. k - 1) \ M : acc.expected = kept[u].shifted + 1
  BY <1>3 DEF MovedSo
<1>5. u \in DOMAIN kept /\ u < k /\ u \in Nat
  BY <1>1 DEF Lined
<1>6. kept[u].prev \in Nat /\ kept[u].prev \notin G /\ kept[u].shifted = Unshift(G, kept[u].prev)
  BY <1>5 DEF Lined
<1>7. CASE kept[y].prev < kept[u].prev
  <2>1. y < u
    BY <1>7 DEF MovedSo
  <2> QED  BY <1>1, <1>5, <2>1
<1>8. CASE kept[y].prev = kept[u].prev
  <2>1. y = u
    BY <1>5, <1>8 DEF Lined
  <2> QED  BY <1>5, <2>1
<1>9. CASE kept[u].prev < kept[y].prev
  <2>1. Unshift(G, kept[u].prev) < Unshift(G, kept[y].prev)
    BY <1>1, <1>6, <1>9, UnshiftStrict
  <2>2. Unshift(G, kept[u].prev) \in 0 .. kept[u].prev
    BY <1>1, <1>6, UnshiftType
  <2> QED  BY <1>2, <1>4, <1>6, <2>1, <2>2
<1> QED  BY <1>1, <1>6, <1>7, <1>8, <1>9

\* So is one that is where the insertions and removals before it have taken it:
\* as many rows were before it as are now.
LEMMA CountsRight ==
  ASSUME NEW kept, NEW m, NEW n, NEW G, NEW R, NEW N, Lined(kept, m, n, G, R, N),
         NEW k \in DOMAIN kept, NEW acc, NEW M, MovedSo(acc, kept, R, N, M, k - 1),
         kept[k].shifted = Calc(acc, kept[k]), NEW y \in DOMAIN kept \ M, kept[y].prev < kept[k].prev
  PROVE  y < k
<1> DEFINE p == kept[k].prev
           t == kept[k].tv
           D == acc.removed
           I == acc.insertions
           X == {z \in DOMAIN kept \ M : kept[z].prev < p}
           U == (1 .. k - 1) \ M
<1>1. /\ m \in Nat /\ n \in Nat /\ DOMAIN kept = 1 .. Len(kept) /\ Len(kept) \in Nat
      /\ G \in Indices /\ R \in SUBSET Nat /\ N \in SUBSET Nat /\ G \cap R = {}
      /\ (\A z \in G \cup R : z < m) /\ (\A x \in N : x < n)
      /\ \A z \in DOMAIN kept : /\ kept[z].tv \in (0 .. n - 1) \ N
                                /\ kept[z].prev \in (0 .. m - 1) \ (G \cup R)
                                /\ kept[z].shifted = Unshift(G, kept[z].prev)
      /\ \A z, l \in DOMAIN kept : z < l <=> kept[z].tv < kept[l].tv
      /\ \A z, l \in DOMAIN kept : kept[z].prev = kept[l].prev => z = l
      /\ \A x \in (0 .. n - 1) \ N : \E z \in DOMAIN kept : kept[z].tv = x
      /\ \A x \in (0 .. m - 1) \ (G \cup R) : \E z \in DOMAIN kept : kept[z].prev = x
  BY DEF Lined
<1>2. /\ M \in SUBSET (1 .. k - 1)
      /\ I = N \cup {kept[i].tv : i \in M}
      /\ D = R \cup {kept[i].prev : i \in M}
      /\ \A u \in U, z \in DOMAIN kept \ M : kept[z].prev < kept[u].prev => z < u
  BY DEF MovedSo
<1>3. /\ p \in Nat /\ p < m /\ t \in Nat /\ t < n /\ k \in Nat /\ k \in 1 .. Len(kept)
      /\ \A i \in M : i \in DOMAIN kept /\ i < k
      /\ \A u \in U : u \in DOMAIN kept /\ u < k /\ u \notin M
  <2>1. k \in Nat /\ k \in 1 .. Len(kept)
    BY <1>1
  <2>2. p \in 0 .. m - 1 /\ t \in 0 .. n - 1
    BY <1>1
  <2> HIDE DEF p, t, D, I
  <2>3. p \in Nat /\ p < m /\ t \in Nat /\ t < n
    BY <1>1, <2>2
  <2>4. \A i \in 1 .. k - 1 : i \in DOMAIN kept /\ i < k
    BY <1>1, <2>1
  <2> QED  BY <1>2, <2>1, <2>3, <2>4
<1>4. kept[k].shifted = t - Below(I, t) + Below(D, p) /\ kept[k].shifted = Unshift(G, p)
  BY <1>1 DEF Calc
<1> HIDE DEF p, t, D, I, U
<1>5. I \in Indices /\ D \in Indices /\ G \in Indices /\ G \cap D = {}
  <2>0. \A i \in M : /\ kept[i].tv \in Nat /\ kept[i].tv < n
                     /\ kept[i].prev \in Nat /\ kept[i].prev < m
    <3>1. \A z \in 0 .. n - 1 : z \in Nat /\ z < n
      BY <1>1
    <3>2. \A z \in 0 .. m - 1 : z \in Nat /\ z < m
      BY <1>1
    <3>3. \A i \in M : kept[i].tv \in 0 .. n - 1 /\ kept[i].prev \in 0 .. m - 1
      BY <1>1, <1>3
    <3> QED  BY <3>1, <3>2, <3>3
  <2>1. I \in SUBSET Nat /\ \A x \in I : x < n
    <3>1. \A x \in I : x \in N \/ \E i \in M : x = kept[i].tv
      BY <1>2
    <3>2. N \subseteq Nat /\ \A x \in N : x < n
      BY <1>1
    <3>3. \A x \in I : x \in Nat /\ x < n
      BY <2>0, <3>1, <3>2
    <3> QED  BY <3>3
  <2>2. D \in SUBSET Nat /\ \A x \in D : x < m
    <3>1. \A x \in D : x \in R \/ \E i \in M : x = kept[i].prev
      BY <1>2
    <3>2. R \subseteq Nat /\ \A x \in R : x < m
      BY <1>1
    <3>3. \A x \in D : x \in Nat /\ x < m
      BY <2>0, <3>1, <3>2
    <3> QED  BY <3>3
  <2>3. \A i \in M : kept[i].prev \notin G
    BY <1>1, <1>3
  <2>4. G \cap D = {}
    BY <1>1, <1>2, <2>3
  <2> QED  BY <1>1, <2>1, <2>2, <2>4, BoundedIndices
<1>6. IsFiniteSet(X) /\ Cardinality(X) = Unshift(G \cup D, p)
  <2> DEFINE h == [z \in X |-> kept[z].prev]
  <2>1. G \cup D \in Indices
    BY <1>3, <1>5, BelowUnion
  <2>2. \A x \in X : h[x] \in (0 .. p - 1) \ (G \cup D)
    <3> SUFFICES ASSUME NEW x \in X PROVE kept[x].prev \in (0 .. p - 1) \ (G \cup D)
      OBVIOUS
    <3>1. x \in DOMAIN kept /\ x \notin M /\ kept[x].prev < p
      OBVIOUS
    <3>2. kept[x].prev \in Nat /\ kept[x].prev \notin G /\ kept[x].prev \notin R
      BY <1>1, <3>1
    <3>3. \A i \in M : kept[i].prev # kept[x].prev
      BY <1>1, <1>3, <3>1
    <3> QED  BY <1>2, <1>3, <3>1, <3>2, <3>3
  <2>3. \A x, z \in X : h[x] = h[z] => x = z
    BY <1>1
  <2>4. \A z \in (0 .. p - 1) \ (G \cup D) : \E x \in X : h[x] = z
    <3> SUFFICES ASSUME NEW z \in (0 .. p - 1) \ (G \cup D) PROVE \E x \in X : kept[x].prev = z
      OBVIOUS
    <3>1. z \in (0 .. m - 1) \ (G \cup R) /\ z < p
      BY <1>1, <1>2, <1>3
    <3>2. PICK x \in DOMAIN kept : kept[x].prev = z
      BY <1>1, <3>1
    <3>3. x \notin M
      BY <1>2, <3>2
    <3> QED  BY <3>1, <3>2, <3>3
  <2> HIDE DEF h, X
  <2> QED  BY <1>3, <2>1, <2>2, <2>3, <2>4, CountsBy
<1> HIDE DEF X
<1>7. Cardinality(U) = Unshift(I, t)
  <2> DEFINE h == [z \in U |-> kept[z].tv]
  <2>1. \A x \in U : h[x] \in (0 .. t - 1) \ I
    <3> SUFFICES ASSUME NEW x \in U PROVE kept[x].tv \in (0 .. t - 1) \ I
      OBVIOUS
    <3>1. x \in DOMAIN kept /\ x < k /\ x \notin M
      BY <1>3
    <3>2. kept[x].tv \in Nat /\ kept[x].tv \notin N /\ kept[x].tv < t
      BY <1>1, <3>1 DEF t
    <3>3. \A i \in M : kept[i].tv # kept[x].tv
      <4> SUFFICES ASSUME NEW i \in M, kept[i].tv = kept[x].tv PROVE FALSE
        OBVIOUS
      <4>1. i \in DOMAIN kept /\ i # x
        BY <1>3, <3>1
      <4>2. ~(kept[i].tv < kept[x].tv) /\ ~(kept[x].tv < kept[i].tv)
        BY <3>2
      <4>3. ~(i < x) /\ ~(x < i)
        BY <1>1, <3>1, <4>1, <4>2
      <4>4. i \in Nat /\ x \in Nat
        BY <1>1, <3>1, <4>1
      <4> QED  BY <4>1, <4>3, <4>4
    <3> QED  BY <1>2, <1>3, <3>2, <3>3
  <2>2. \A x, z \in U : h[x] = h[z] => x = z
    <3> SUFFICES ASSUME NEW x \in U, NEW z \in U, kept[x].tv = kept[z].tv PROVE x = z
      OBVIOUS
    <3>1. x \in DOMAIN kept /\ z \in DOMAIN kept /\ x \in Nat /\ z \in Nat /\ kept[x].tv \in Nat
      BY <1>1, <1>3
    <3>2. ~(x < z) /\ ~(z < x)
      BY <1>1, <3>1
    <3> QED  BY <3>1, <3>2
  <2>3. \A z \in (0 .. t - 1) \ I : \E x \in U : h[x] = z
    <3> SUFFICES ASSUME NEW z \in (0 .. t - 1) \ I PROVE \E x \in U : kept[x].tv = z
      OBVIOUS
    <3>1. z \in (0 .. n - 1) \ N /\ z < t
      BY <1>1, <1>2, <1>3
    <3>2. PICK x \in DOMAIN kept : kept[x].tv = z
      BY <1>1, <3>1
    <3>3. x \notin M
      BY <1>2, <3>2
    <3>4. x < k
      BY <1>1, <3>1, <3>2 DEF t
    <3>5. x \in U
      BY <1>1, <1>3, <3>2, <3>3, <3>4 DEF U
    <3> QED  BY <3>2, <3>5
  <2> HIDE DEF h
  <2> QED  BY <1>3, <1>5, <2>1, <2>2, <2>3, CountsBy
<1>8. Cardinality(X) = Cardinality(U)
  <2>1. Below(G \cup D, p) = Below(G, p) + Below(D, p)
    BY <1>3, <1>5, BelowUnion
  <2>2. Below(G, p) \in Nat /\ Below(D, p) \in Nat /\ Below(I, t) \in Nat
    <3>1. Below(G, p) \in 0 .. p /\ Below(D, p) \in 0 .. p /\ Below(I, t) \in 0 .. t
      BY <1>1, <1>3, <1>5, BelowType
    <3> QED  BY <3>1
  <2>3. Cardinality(X) = p - (Below(G, p) + Below(D, p)) /\ Cardinality(U) = t - Below(I, t)
    BY <1>6, <1>7, <2>1 DEF Unshift
  <2>4. t - Below(I, t) + Below(D, p) = p - Below(G, p)
    BY <1>4 DEF Unshift
  <2>5. p \in Nat /\ t \in Nat
    BY <1>3
  <2> QED  BY <2>2, <2>3, <2>4, <2>5
<1>9. U \in SUBSET X
  <2> SUFFICES ASSUME NEW u \in U PROVE u \in X
    OBVIOUS
  <2>1. u \in DOMAIN kept /\ u < k /\ u \notin M
    BY <1>3
  <2>2. k \in DOMAIN kept \ M
    BY <1>3
  <2>3. ~(p < kept[u].prev)
    <3>1. p < kept[u].prev => k < u
      BY <1>2, <2>2 DEF p
    <3> QED  BY <1>1, <1>3, <2>1, <3>1
  <2>4. p # kept[u].prev
    BY <1>1, <1>3, <2>1 DEF p
  <2> QED  BY <1>1, <1>3, <2>1, <2>3, <2>4 DEF X
<1>10. y \in X
  BY DEF p, X
<1>11. X = U
  BY <1>6, <1>8, <1>9, FS_Subset
<1> QED  BY <1>3, <1>10, <1>11

\* A row that is no candidate comes after those that were before it.
NoneOvertakes(kept, candidates) ==
  \A r, y \in DOMAIN kept :
    kept[r].row \notin candidates /\ kept[y].prev < kept[r].prev => y < r

\* One more row that is not reported as moved.
LEMMA StaysInLine ==
  ASSUME NEW kept, NEW R, NEW N, DOMAIN kept \subseteq Nat, NEW k \in DOMAIN kept, k # 0,
         NEW acc, NEW M, MovedSo(acc, kept, R, N, M, k - 1),
         \A y \in DOMAIN kept \ M : kept[y].prev < kept[k].prev => y < k,
         NEW r, r = [acc EXCEPT !.expected = kept[k].shifted + 1]
  PROVE  MovedSo(r, kept, R, N, M, k)
<1>1. /\ acc = [expected |-> acc.expected, moves |-> acc.moves, insertions |-> acc.insertions,
                removed |-> acc.removed]
      /\ M \in SUBSET (1 .. k - 1)
      /\ \A u \in (1 .. k - 1) \ M, y \in DOMAIN kept \ M : kept[y].prev < kept[u].prev => y < u
  BY DEF MovedSo
<1>2. /\ r.expected = kept[k].shifted + 1 /\ r.moves = acc.moves
      /\ r.insertions = acc.insertions /\ r.removed = acc.removed
      /\ r = [expected |-> r.expected, moves |-> r.moves, insertions |-> r.insertions,
              removed |-> r.removed]
  BY <1>1
<1>3. k \in Nat \ {0} /\ k \notin M /\ k \in (1 .. k) \ M /\ M \in SUBSET (1 .. k)
  BY <1>1
<1>4. \A u \in (1 .. k) \ M : u = k \/ u \in (1 .. k - 1) \ M
  BY <1>3
<1>5. \A u \in (1 .. k) \ M, y \in DOMAIN kept \ M : kept[y].prev < kept[u].prev => y < u
  BY <1>1, <1>4
<1>6. \A v \in (1 .. k) \ M : v <= k
  BY <1>3
<1>7. \E u \in (1 .. k) \ M : /\ r.expected = kept[u].shifted + 1
                              /\ \A v \in (1 .. k) \ M : v <= u
  BY <1>2, <1>3, <1>6
<1> QED  BY <1>2, <1>3, <1>5, <1>7 DEF MovedSo

\* One more that is.
LEMMA MovesAway ==
  ASSUME NEW kept, NEW R, NEW N, DOMAIN kept \subseteq Nat, NEW k \in DOMAIN kept, k # 0,
         kept[k].prev \in Nat, kept[k].tv \in Nat,
         NEW acc, NEW M, MovedSo(acc, kept, R, N, M, k - 1),
         NEW r, r = [acc EXCEPT !.moves = Append(@, [from |-> kept[k].prev, to |-> kept[k].tv]),
                                !.insertions = @ \cup {kept[k].tv},
                                !.removed = @ \cup {kept[k].prev}]
  PROVE  MovedSo(r, kept, R, N, M \cup {k}, k)
<1> DEFINE e == [from |-> kept[k].prev, to |-> kept[k].tv]
           M2 == M \cup {k}
<1>1. /\ acc = [expected |-> acc.expected, moves |-> acc.moves, insertions |-> acc.insertions,
                removed |-> acc.removed]
      /\ M \in SUBSET (1 .. k - 1)
      /\ acc.moves \in Seq(Move)
      /\ \A q \in DOMAIN acc.moves : \E i \in M : acc.moves[q] = [from |-> kept[i].prev, to |-> kept[i].tv]
      /\ acc.insertions = N \cup {kept[i].tv : i \in M}
      /\ acc.removed = R \cup {kept[i].prev : i \in M}
      /\ \A u \in (1 .. k - 1) \ M, y \in DOMAIN kept \ M : kept[y].prev < kept[u].prev => y < u
      /\ \/ acc.expected = 0 /\ (1 .. k - 1) \ M = {}
         \/ \E u \in (1 .. k - 1) \ M : /\ acc.expected = kept[u].shifted + 1
                                        /\ \A v \in (1 .. k - 1) \ M : v <= u
  BY DEF MovedSo
<1>2. /\ r.expected = acc.expected /\ r.moves = Append(acc.moves, e)
      /\ r.insertions = acc.insertions \cup {kept[k].tv} /\ r.removed = acc.removed \cup {kept[k].prev}
      /\ r = [expected |-> r.expected, moves |-> r.moves, insertions |-> r.insertions,
              removed |-> r.removed]
  BY <1>1
<1>3. k \in Nat \ {0} /\ M2 \in SUBSET (1 .. k) /\ (1 .. k) \ M2 = (1 .. k - 1) \ M
  BY <1>1
<1>4. /\ r.moves \in Seq(Move)
      /\ \A q \in DOMAIN r.moves : \E i \in M2 : r.moves[q] = [from |-> kept[i].prev, to |-> kept[i].tv]
  <2>1. e \in Move
    BY DEF Move
  <2>2. Append(acc.moves, e) \in Seq(Move)
    BY <1>1, <2>1
  <2> HIDE DEF e
  <2>3. \A q \in DOMAIN Append(acc.moves, e) :
          Append(acc.moves, e)[q] = e \/ (q \in DOMAIN acc.moves /\ Append(acc.moves, e)[q] = acc.moves[q])
    BY <1>1
  <2>4. \A q \in DOMAIN Append(acc.moves, e) :
          \E i \in M2 : Append(acc.moves, e)[q] = [from |-> kept[i].prev, to |-> kept[i].tv]
    <3> SUFFICES ASSUME NEW q \in DOMAIN Append(acc.moves, e)
                 PROVE  \E i \in M2 : Append(acc.moves, e)[q] = [from |-> kept[i].prev, to |-> kept[i].tv]
      OBVIOUS
    <3>1. CASE Append(acc.moves, e)[q] = e
      <4>1. k \in M2
        OBVIOUS
      <4> QED  BY <3>1, <4>1 DEF e
    <3>2. CASE q \in DOMAIN acc.moves /\ Append(acc.moves, e)[q] = acc.moves[q]
      <4>1. PICK i \in M : acc.moves[q] = [from |-> kept[i].prev, to |-> kept[i].tv]
        BY <1>1, <3>2
      <4>2. i \in M2
        OBVIOUS
      <4> HIDE DEF M2
      <4> QED  BY <3>2, <4>1, <4>2
    <3> QED  BY <2>3, <3>1, <3>2
  <2> QED  BY <1>2, <2>2, <2>4
<1>5. /\ r.insertions = N \cup {kept[i].tv : i \in M2}
      /\ r.removed = R \cup {kept[i].prev : i \in M2}
  <2>1. {kept[i].tv : i \in M2} = {kept[i].tv : i \in M} \cup {kept[k].tv}
    OBVIOUS
  <2>2. {kept[i].prev : i \in M2} = {kept[i].prev : i \in M} \cup {kept[k].prev}
    OBVIOUS
  <2> HIDE DEF M2
  <2> QED  BY <1>1, <1>2, <2>1, <2>2
<1>6. \A u \in (1 .. k) \ M2, y \in DOMAIN kept \ M2 : kept[y].prev < kept[u].prev => y < u
  <2>1. \A y \in DOMAIN kept \ M2 : y \in DOMAIN kept \ M
    OBVIOUS
  <2> HIDE DEF M2
  <2> QED  BY <1>1, <1>3, <2>1
<1>7. \/ r.expected = 0 /\ (1 .. k) \ M2 = {}
      \/ \E u \in (1 .. k) \ M2 : /\ r.expected = kept[u].shifted + 1
                                  /\ \A v \in (1 .. k) \ M2 : v <= u
  BY <1>1, <1>2, <1>3, Zenon
<1> HIDE DEF M2
<1>8. MovedSo(r, kept, R, N, M2, k)
  BY <1>2, <1>3, <1>4, <1>5, <1>6, <1>7 DEF MovedSo
<1> QED  BY <1>8 DEF M2

\* Either way the comparison goes on as it should.
LEMMA MoveStepIs ==
  ASSUME NEW kept, NEW m, NEW n, NEW G, NEW R, NEW N, Lined(kept, m, n, G, R, N),
         NEW candidates, NoneOvertakes(kept, candidates),
         NEW k \in DOMAIN kept, NEW acc, NEW M, MovedSo(acc, kept, R, N, M, k - 1)
  PROVE  \E L : MovedSo(MoveStep(candidates, acc, kept[k]), kept, R, N, L, k)
<1> DEFINE r == kept[k]
           s == MoveStep(candidates, acc, r)
<1>1. /\ DOMAIN kept \subseteq Nat /\ k # 0
      /\ r.prev \in Nat /\ r.tv \in Nat
  BY DEF Lined
<1>2. CASE r.shifted = acc.expected
  <2>1. s = [acc EXCEPT !.expected = r.shifted + 1]
    BY <1>2 DEF MoveStep
  <2>2. \A y \in DOMAIN kept \ M : kept[y].prev < r.prev => y < k
    BY <1>2, NextInLine
  <2> HIDE DEF s
  <2>3. MovedSo(s, kept, R, N, M, k)
    BY <1>1, <2>1, <2>2, StaysInLine
  <2> QED  BY <2>3 DEF s
<1>3. CASE r.shifted # acc.expected /\ (r.row \notin candidates \/ r.shifted = Calc(acc, r))
  <2>1. s = [acc EXCEPT !.expected = r.shifted + 1]
    BY <1>3 DEF MoveStep
  <2>2. \A y \in DOMAIN kept \ M : kept[y].prev < r.prev => y < k
    <3>1. CASE r.row \notin candidates
      BY <3>1 DEF NoneOvertakes
    <3>2. CASE r.shifted = Calc(acc, r)
      BY <3>2, CountsRight
    <3> QED  BY <1>3, <3>1, <3>2
  <2> HIDE DEF s
  <2>3. MovedSo(s, kept, R, N, M, k)
    BY <1>1, <2>1, <2>2, StaysInLine
  <2> QED  BY <2>3 DEF s
<1>4. CASE r.shifted # acc.expected /\ ~(r.row \notin candidates \/ r.shifted = Calc(acc, r))
  <2>1. s = [acc EXCEPT !.moves = Append(@, [from |-> r.prev, to |-> r.tv]),
                        !.insertions = @ \cup {r.tv}, !.removed = @ \cup {r.prev}]
    BY <1>4 DEF MoveStep
  <2> HIDE DEF s
  <2>2. MovedSo(s, kept, R, N, M \cup {k}, k)
    BY <1>1, <2>1, MovesAway
  <2> QED  BY <2>2 DEF s
<1> QED  BY <1>2, <1>3, <1>4

\* And so it ends.
Done(kept, R, b, candidates) ==
  \E acc, M : /\ MovedSo(acc, kept, R, b.insertions, M, Len(kept))
              /\ MovesUnsorted(kept, b, R, candidates) = Reported(b, acc)

\* By induction on the rows kept it does.
LEMMA MovesEnd ==
  ASSUME NEW kept, NEW m, NEW n, NEW G, NEW R, NEW b, Lined(kept, m, n, G, R, b.insertions),
         NEW candidates, NoneOvertakes(kept, candidates)
  PROVE  Done(kept, R, b, candidates)
<1>0. Len(kept) \in Nat /\ DOMAIN kept = 1 .. Len(kept)
  BY DEF Lined
<1>2. PICK g : /\ MovesIn(g, kept, b.insertions, R, candidates, Len(kept))
               /\ MovesUnsorted(kept, b, R, candidates) = Reported(b, g[Len(kept)])
  BY <1>0, MoveSolution
<1> DEFINE l == Len(kept)
           N == b.insertions
<1>1. l \in Nat /\ DOMAIN kept = 1 .. l
  BY <1>0
<1>3. \A k \in 0 .. l : g[k] = MoveBody(g, kept, N, R, candidates, k)
  BY <1>2 DEF MovesIn
<1> HIDE DEF l, N
<1> DEFINE T == {k \in 0 .. l : \E M : MovedSo(g[k], kept, R, N, M, k)}
<1>4. 0 \in T
  <2>1. g[0] = [expected |-> 0, moves |-> <<>>, insertions |-> N, removed |-> R]
    BY <1>1, <1>3 DEF MoveBody
  <2>2. MovedSo(g[0], kept, R, N, {}, 0)
    <3>1. {kept[i].tv : i \in {}} = {} /\ {kept[i].prev : i \in {}} = {}
      OBVIOUS
    <3>2. <<>> \in Seq(Move) /\ DOMAIN <<>> = {}
      OBVIOUS
    <3>3. 1 .. 0 = {}
      OBVIOUS
    <3> QED  BY <2>1, <3>1, <3>2, <3>3 DEF MovedSo
  <2> QED  BY <1>1, <2>2
<1>5. ASSUME NEW k \in 1 .. l, k - 1 \in T PROVE k \in T
  <2>1. PICK M : MovedSo(g[k - 1], kept, R, N, M, k - 1)
    BY <1>5
  <2>2. k # 0 /\ k \in 0 .. l /\ k \in DOMAIN kept
    BY <1>1
  <2>3. g[k] = MoveStep(candidates, g[k - 1], kept[k])
    BY <1>3, <2>2 DEF MoveBody
  <2>4. \E L : MovedSo(MoveStep(candidates, g[k - 1], kept[k]), kept, R, N, L, k)
    BY <2>1, <2>2, MoveStepIs DEF N
  <2> QED  BY <2>2, <2>3, <2>4
<1> HIDE DEF T
<1>6. 0 .. l \subseteq T
  BY <1>1, <1>4, <1>5, UpTo
<1>7. l \in T
  BY <1>1, <1>6
<1>8. PICK M : MovedSo(g[l], kept, R, N, M, l)
  BY <1>7 DEF T
<1> QED  BY <1>2, <1>8 DEF l, N, Done

\* What a kept row tells of how many rows deleted were before it.
LEMMA KeptShifted ==
  ASSUME NEW prev, NEW new, NEW k \in DOMAIN Kept(prev, new)
  PROVE  Kept(prev, new)[k].shifted = Unshift(Gone(prev), Kept(prev, new)[k].prev)
<1> DEFINE rest == Rest(new, Where(new, LAMBDA r : r \notin ToSet(prev)))
           info(r) == [row |-> r, prev |-> IndexOf(prev, r), tv |-> IndexOf(new, r),
                       shifted |-> Unshift(Gone(prev), IndexOf(prev, r))]
<1>1. Kept(prev, new) = [l \in DOMAIN rest |-> info(rest[l])]
  BY DEF Kept, Map
<1> HIDE DEF rest
<1>2. k \in DOMAIN rest /\ Kept(prev, new)[k] = info(rest[k])
  BY <1>1
<1> QED  BY <1>2

\* No row that is still there is in the list twice.
Singles(prev) == \A k, l \in DOMAIN prev : prev[k] = prev[l] /\ prev[k] # npos => k = l

\* The indices of the rows that were in the list and are not any more.
Leavers(prev, new) == Where(prev, LAMBDA r : r \notin ToSet(new) \cup {npos})

\* The rows kept are lined up.
LEMMA KeptLined ==
  ASSUME NEW prev \in Seq(Int), Singles(prev), NEW new \in Seq(Nat), Distinct(new)
  PROVE  Lined(Kept(prev, new), Len(prev), Len(new), Gone(prev), Leavers(prev, new),
               Newcomers(prev, new))
<1> DEFINE kept == Kept(prev, new)
           m == Len(prev)
           n == Len(new)
           G == Gone(prev)
           R == Leavers(prev, new)
           N == Newcomers(prev, new)
<1>1. m \in Nat /\ DOMAIN prev = 1 .. m /\ n \in Nat /\ DOMAIN new = 1 .. n
  BY SeqLen
<1>2. InBoth(kept, prev, new)
  <2>1. \A p \in 1 .. n : new[p] \in Int
    BY <1>1
  <2>2. new \in Seq(Int)
    BY <1>1, <2>1
  <2> QED  BY <2>2, KeptIs
<1>3. \A k \in DOMAIN kept : kept[k].shifted = Unshift(G, kept[k].prev)
  BY KeptShifted
<1>4. /\ G \in SUBSET Nat /\ \A y \in G : y < m
      /\ \A y \in 0 .. m - 1 : y \in G <=> prev[y + 1] = npos
  <2> DEFINE Q == {l \in DOMAIN prev : prev[l] = npos}
  <2>1. G = {k - 1 : k \in Q}
    BY DEF Gone, Where
  <2>2. Q \in SUBSET DOMAIN prev
    OBVIOUS
  <2>3. \A y \in 0 .. m - 1 : y + 1 \in Q <=> prev[y + 1] = npos
    BY <1>1
  <2> HIDE DEF Q, G
  <2> QED  BY <1>1, <2>1, <2>2, <2>3, PickedIs
<1>5. /\ R \in SUBSET Nat /\ \A y \in R : y < m
      /\ \A y \in 0 .. m - 1 : y \in R <=> prev[y + 1] \notin ToSet(new) \cup {npos}
  <2> DEFINE Q == {l \in DOMAIN prev : prev[l] \notin ToSet(new) \cup {npos}}
  <2>1. R = {k - 1 : k \in Q}
    BY DEF Leavers, Where
  <2>2. Q \in SUBSET DOMAIN prev
    OBVIOUS
  <2>3. \A y \in 0 .. m - 1 : y + 1 \in Q <=> prev[y + 1] \notin ToSet(new) \cup {npos}
    BY <1>1
  <2> HIDE DEF Q, R
  <2> QED  BY <1>1, <2>1, <2>2, <2>3, PickedIs
<1>6. /\ N \subseteq Nat /\ \A x \in N : x < n
      /\ \A x \in Nat : x < n => (x \in N <=> new[x + 1] \notin ToSet(prev))
  BY NewcomersIs, IndicesFinite
<1>7. \A p \in DOMAIN new : new[p] # npos
  <2>1. \A p \in DOMAIN new : new[p] \in Nat
    OBVIOUS
  <2> QED  BY <2>1 DEF npos
<1> HIDE DEF kept, G, R, N
<1>8. /\ Len(kept) \in Nat /\ DOMAIN kept = 1 .. Len(kept)
      /\ \A k \in DOMAIN kept :
           /\ kept[k].tv \in Nat /\ kept[k].tv < n /\ new[kept[k].tv + 1] = kept[k].row
           /\ kept[k].prev \in Nat /\ kept[k].prev < m
           /\ prev[kept[k].prev + 1] = kept[k].row
      /\ \A k, l \in DOMAIN kept : k < l => kept[k].tv < kept[l].tv
      /\ \A p \in DOMAIN new : new[p] \in ToSet(prev) => \E k \in DOMAIN kept : kept[k].tv = p - 1
  BY <1>2 DEF InBoth
<1> HIDE DEF m, n
<1>9. G \in Indices
  BY <1>1, <1>4, BoundedIndices
<1>10. G \cap R = {}
  <2> SUFFICES ASSUME NEW y \in G, y \in R PROVE FALSE
    OBVIOUS
  <2>1. y \in 0 .. m - 1
    BY <1>1, <1>4
  <2> QED  BY <1>4, <1>5, <2>1
<1>11. \A k \in DOMAIN kept : /\ kept[k].tv \in (0 .. n - 1) \ N
                              /\ kept[k].prev \in (0 .. m - 1) \ (G \cup R)
  <2> SUFFICES ASSUME NEW k \in DOMAIN kept
               PROVE  /\ kept[k].tv \in (0 .. n - 1) \ N
                      /\ kept[k].prev \in (0 .. m - 1) \ (G \cup R)
    OBVIOUS
  <2>1. /\ kept[k].tv \in 0 .. n - 1 /\ kept[k].tv + 1 \in DOMAIN new
        /\ kept[k].prev \in 0 .. m - 1 /\ kept[k].prev + 1 \in DOMAIN prev
    <3>1. \A z \in Nat : z < n => z \in 0 .. n - 1 /\ z + 1 \in DOMAIN new
      BY <1>1
    <3>2. \A z \in Nat : z < m => z \in 0 .. m - 1 /\ z + 1 \in DOMAIN prev
      BY <1>1
    <3> QED  BY <1>8, <3>1, <3>2
  <2>2. kept[k].row \in ToSet(new) /\ kept[k].row \in ToSet(prev) /\ kept[k].row # npos
    BY <1>7, <1>8, <2>1 DEF ToSet
  <2> QED  BY <1>4, <1>5, <1>6, <1>8, <2>1, <2>2
<1>12. \A k, l \in DOMAIN kept : k < l <=> kept[k].tv < kept[l].tv
  <2> SUFFICES ASSUME NEW k \in DOMAIN kept, NEW l \in DOMAIN kept, kept[k].tv < kept[l].tv
               PROVE  k < l
    BY <1>8
  <2>1. k \in Nat /\ l \in Nat /\ kept[k].tv \in Nat /\ kept[l].tv \in Nat
    BY <1>8
  <2>2. ~(l < k) /\ k # l
    BY <1>8, <2>1
  <2> QED  BY <2>1, <2>2
<1>13. \A k, l \in DOMAIN kept : kept[k].prev = kept[l].prev => k = l
  BY <1>2, KeptOnce
<1>14. ASSUME NEW x \in (0 .. n - 1) \ N PROVE \E k \in DOMAIN kept : kept[k].tv = x
  <2>1. x \in Nat /\ x < n /\ x + 1 \in DOMAIN new /\ (x + 1) - 1 = x
    BY <1>1
  <2>2. new[x + 1] \in ToSet(prev)
    BY <1>6, <2>1
  <2> QED  BY <1>8, <2>1, <2>2
<1>15. ASSUME NEW y \in (0 .. m - 1) \ (G \cup R) PROVE \E k \in DOMAIN kept : kept[k].prev = y
  <2>1. y \in 0 .. m - 1 /\ y + 1 \in DOMAIN prev /\ y \in Nat
    BY <1>1
  <2>2. prev[y + 1] \in ToSet(new) /\ prev[y + 1] # npos
    BY <1>4, <1>5, <2>1
  <2>3. PICK p \in DOMAIN new : new[p] = prev[y + 1]
    BY <2>2 DEF ToSet
  <2>4. new[p] \in ToSet(prev)
    BY <2>1, <2>3 DEF ToSet
  <2>5. PICK k \in DOMAIN kept : kept[k].tv = p - 1
    BY <1>8, <2>4
  <2>6. (p - 1) + 1 = p
    BY <1>1
  <2>7. prev[kept[k].prev + 1] = prev[y + 1]
    BY <1>8, <2>3, <2>5, <2>6
  <2>8. kept[k].prev \in Nat /\ kept[k].prev + 1 \in DOMAIN prev
    <3>1. \A z \in Nat : z < m => z + 1 \in DOMAIN prev
      BY <1>1
    <3> QED  BY <1>8, <3>1
  <2>9. kept[k].prev + 1 = y + 1
    BY <2>1, <2>2, <2>7, <2>8 DEF Singles
  <2>10. kept[k].prev = y
    BY <2>1, <2>8, <2>9
  <2> QED  BY <2>10
<1>16. Lined(kept, m, n, G, R, N)
  BY <1>1, <1>3, <1>4, <1>5, <1>6, <1>8, <1>9, <1>10, <1>11, <1>12, <1>13, <1>14, <1>15 DEF Lined
<1> QED  BY <1>16 DEF kept, m, n, G, R, N

\* What is not in D and not in I is in the same order, and kept.
FollowsKept(kept, D, I, n, m) ==
  \E f : /\ InOrder(D, I, n, m, f)
         /\ \A x \in (0 .. n - 1) \ I : \E k \in DOMAIN kept : kept[k].tv = x /\ kept[k].prev = f[x]

\* The rows that are not reported as moved are in the order in which they were.
LEMMA MovedInOrder ==
  ASSUME NEW kept, NEW m, NEW n, NEW G, NEW R, NEW N, Lined(kept, m, n, G, R, N),
         NEW acc, NEW M, MovedSo(acc, kept, R, N, M, Len(kept))
  PROVE  /\ G \cup acc.removed \in Indices /\ acc.insertions \in Indices
         /\ FollowsKept(kept, G \cup acc.removed, acc.insertions, n, m)
<1> DEFINE D == G \cup acc.removed
           I == acc.insertions
           X == (0 .. n - 1) \ I
           Y == (0 .. m - 1) \ D
           at(x) == CHOOSE k \in DOMAIN kept : kept[k].tv = x
           f == [x \in X |-> kept[at(x)].prev]
<1>1. /\ m \in Nat /\ n \in Nat /\ Len(kept) \in Nat /\ DOMAIN kept = 1 .. Len(kept)
      /\ G \in Indices /\ R \in SUBSET Nat /\ N \in SUBSET Nat
      /\ (\A y \in G \cup R : y < m) /\ (\A x \in N : x < n)
      /\ \A k \in DOMAIN kept : /\ kept[k].tv \in (0 .. n - 1) \ N
                                /\ kept[k].prev \in (0 .. m - 1) \ (G \cup R)
      /\ \A k, l \in DOMAIN kept : k < l <=> kept[k].tv < kept[l].tv
      /\ \A k, l \in DOMAIN kept : kept[k].prev = kept[l].prev => k = l
      /\ \A x \in (0 .. n - 1) \ N : \E k \in DOMAIN kept : kept[k].tv = x
      /\ \A y \in (0 .. m - 1) \ (G \cup R) : \E k \in DOMAIN kept : kept[k].prev = y
  BY DEF Lined
<1>2. /\ M \in SUBSET (1 .. Len(kept))
      /\ I = N \cup {kept[i].tv : i \in M}
      /\ acc.removed = R \cup {kept[i].prev : i \in M}
      /\ \A u \in (1 .. Len(kept)) \ M, y \in DOMAIN kept \ M : kept[y].prev < kept[u].prev => y < u
  BY DEF MovedSo
<1>3. M \subseteq DOMAIN kept
  BY <1>1, <1>2
<1>4. \A k \in DOMAIN kept : /\ k \in Nat /\ kept[k].tv \in Nat /\ kept[k].tv < n
                             /\ kept[k].prev \in Nat /\ kept[k].prev < m
  BY <1>1
<1>5. \A k, l \in DOMAIN kept : kept[k].tv = kept[l].tv => k = l
  <2> SUFFICES ASSUME NEW k \in DOMAIN kept, NEW l \in DOMAIN kept, kept[k].tv = kept[l].tv
               PROVE  k = l
    OBVIOUS
  <2>1. k \in Nat /\ l \in Nat /\ kept[k].tv \in Nat
    BY <1>4
  <2>2. ~(k < l) /\ ~(l < k)
    BY <1>1, <2>1
  <2> QED  BY <2>1, <2>2
<1> HIDE DEF I
<1>6. D \in Indices
  <2>0. G \subseteq Nat
    BY <1>1, IndicesFinite
  <2>1. \A y \in D : y \in G \cup R \/ \E i \in M : y = kept[i].prev
    BY <1>2
  <2> HIDE DEF D
  <2>2. \A y \in D : y \in Nat /\ y < m
    <3>1. \A y \in G \cup R : y \in Nat /\ y < m
      BY <1>1, <2>0
    <3>2. \A i \in M : kept[i].prev \in Nat /\ kept[i].prev < m
      BY <1>3, <1>4
    <3> QED  BY <2>1, <3>1, <3>2
  <2>3. D \in SUBSET Nat /\ \A y \in D : y < m
    BY <2>2
  <2> QED  BY <1>1, <2>3, BoundedIndices
<1>7. I \in Indices
  <2>1. \A x \in I : x \in N \/ \E i \in M : x = kept[i].tv
    BY <1>2
  <2>2. \A x \in I : x \in Nat /\ x < n
    <3>1. \A x \in N : x \in Nat /\ x < n
      BY <1>1
    <3>2. \A i \in M : kept[i].tv \in Nat /\ kept[i].tv < n
      BY <1>3, <1>4
    <3> QED  BY <2>1, <3>1, <3>2
  <2>3. I \in SUBSET Nat /\ \A x \in I : x < n
    BY <2>2
  <2> QED  BY <1>1, <2>3, BoundedIndices
<1>8. \A y \in Y : y \in (0 .. m - 1) \ (G \cup R)
  BY <1>2
<1>9. \A k \in DOMAIN kept \ M : kept[k].prev \notin D /\ kept[k].tv \notin I
  <2> SUFFICES ASSUME NEW k \in DOMAIN kept \ M PROVE kept[k].prev \notin D /\ kept[k].tv \notin I
    OBVIOUS
  <2>1. /\ \A i \in M : kept[i].prev # kept[k].prev
        /\ \A i \in M : kept[i].tv # kept[k].tv
    BY <1>1, <1>3, <1>5
  <2> QED  BY <1>1, <1>2, <2>1
<1>10. \A i \in M : kept[i].prev \in D /\ kept[i].tv \in I
  BY <1>2
<1>11. \A k \in DOMAIN kept : kept[k].tv \in 0 .. n - 1 /\ kept[k].prev \in 0 .. m - 1
  BY <1>1
<1> HIDE DEF D
<1>12. ASSUME NEW x \in X PROVE at(x) \in DOMAIN kept \ M /\ kept[at(x)].tv = x
  <2>1. x \in (0 .. n - 1) \ N
    BY <1>2
  <2>2. \E k \in DOMAIN kept : kept[k].tv = x
    BY <1>1, <2>1
  <2>3. at(x) \in DOMAIN kept /\ kept[at(x)].tv = x
    BY <2>2
  <2> HIDE DEF at
  <2> QED  BY <1>10, <2>3
<1>13. \A x \in X : f[x] = kept[at(x)].prev
  OBVIOUS
<1>14. DOMAIN f = X /\ f = [x \in X |-> f[x]]
  OBVIOUS
<1> HIDE DEF f, at
<1>15. \A x \in X : f[x] \in Y
  BY <1>9, <1>11, <1>12, <1>13
<1>16. f \in [X -> Y]
  BY <1>14, <1>15
<1>17. ASSUME NEW x \in X, NEW z \in X, x < z PROVE f[x] < f[z]
  <2>1. at(x) \in DOMAIN kept \ M /\ at(z) \in DOMAIN kept \ M /\ kept[at(x)].tv < kept[at(z)].tv
    BY <1>12, <1>17
  <2>2. at(x) < at(z) /\ at(x) \in Nat /\ at(z) \in Nat
    BY <1>1, <1>4, <2>1
  <2>3. ~(kept[at(z)].prev < kept[at(x)].prev)
    <3>1. at(x) \in (1 .. Len(kept)) \ M
      BY <1>1, <2>1
    <3>2. kept[at(z)].prev < kept[at(x)].prev => at(z) < at(x)
      BY <1>2, <2>1, <3>1, Zenon
    <3> QED  BY <2>2, <3>2
  <2>4. kept[at(z)].prev # kept[at(x)].prev
    <3>1. kept[at(z)].prev = kept[at(x)].prev => at(z) = at(x)
      BY <1>1, <2>1, Zenon
    <3> QED  BY <2>2, <3>1
  <2>5. kept[at(z)].prev \in Nat /\ kept[at(x)].prev \in Nat
    BY <1>4, <2>1
  <2> QED  BY <1>13, <2>3, <2>4, <2>5
<1>18. ASSUME NEW y \in Y PROVE \E x \in X : f[x] = y
  <2>1. PICK k \in DOMAIN kept : kept[k].prev = y
    BY <1>1, <1>8
  <2>2. k \notin M
    BY <1>10, <2>1
  <2>3. kept[k].tv \in X
    BY <1>9, <1>11, <2>1, <2>2
  <2>4. at(kept[k].tv) = k
    BY <1>5, <1>12, <2>3
  <2> QED  BY <1>13, <2>1, <2>3, <2>4
<1>19. InOrder(D, I, n, m, f)
  BY <1>16, <1>17, <1>18 DEF InOrder
<1>20. \A x \in X : \E k \in DOMAIN kept : kept[k].tv = x /\ kept[k].prev = f[x]
  BY <1>12, <1>13
<1> QED  BY <1>6, <1>7, <1>19, <1>20 DEF D, I, FollowsKept

\* The same row is the same in two other lists.
Carried(prev, new, old, now) ==
  \A y \in 0 .. Len(prev) - 1, x \in 0 .. Len(new) - 1 :
    prev[y + 1] = new[x + 1] => old[y + 1] = now[x + 1]

\* So what is reported of rows lined up applies.
LEMMA ReportedApplies ==
  ASSUME NEW kept, NEW m, NEW n, NEW G, NEW R, NEW b, Lined(kept, m, n, G, R, b.insertions),
         b.deletions = G,
         DOMAIN b = {"deletions", "insertions", "modifications", "moves", "mapping"},
         NEW candidates, NoneOvertakes(kept, candidates),
         NEW old \in Seq(Nat), NEW now \in Seq(Nat), Len(old) = m, Len(now) = n,
         \A k \in DOMAIN kept : old[kept[k].prev + 1] = now[kept[k].tv + 1],
         NEW c, c = MovesUnsorted(kept, b, R, candidates)
  PROVE  /\ Applies(c, old, now)
         /\ \A e \in ToSet(c.moves) : TrueMove(c, old, now, e)
<1>1. PICK acc, M : /\ MovedSo(acc, kept, R, b.insertions, M, Len(kept))
                    /\ MovesUnsorted(kept, b, R, candidates) = Reported(b, acc)
  <2>1. Done(kept, R, b, candidates)
    BY MovesEnd
  <2> QED  BY <2>1 DEF Done
<1>2. c.deletions = G \cup acc.removed /\ c.insertions = acc.insertions /\ c.moves = acc.moves
  <2>1. c = Reported(b, acc)
    BY <1>1
  <2> QED  BY <2>1 DEF Reported
<1>3. PICK f : /\ InOrder(G \cup acc.removed, acc.insertions, n, m, f)
               /\ \A x \in (0 .. n - 1) \ acc.insertions :
                    \E k \in DOMAIN kept : kept[k].tv = x /\ kept[k].prev = f[x]
  <2>1. FollowsKept(kept, G \cup acc.removed, acc.insertions, n, m)
    BY <1>1, MovedInOrder
  <2> QED  BY <2>1 DEF FollowsKept
<1>4. c.deletions \in Indices /\ c.insertions \in Indices
  <2>1. G \cup acc.removed \in Indices /\ acc.insertions \in Indices
    BY <1>1, MovedInOrder
  <2> QED  BY <1>2, <2>1
<1>5. Aligned(c.deletions, c.insertions, old, now, f)
  <2>1. InOrder(c.deletions, c.insertions, Len(now), Len(old), f)
    BY <1>2, <1>3
  <2>2. \A x \in (0 .. Len(now) - 1) \ c.insertions : now[x + 1] = old[f[x] + 1]
    <3> SUFFICES ASSUME NEW x \in (0 .. n - 1) \ c.insertions PROVE now[x + 1] = old[f[x] + 1]
      OBVIOUS
    <3>1. PICK k \in DOMAIN kept : kept[k].tv = x /\ kept[k].prev = f[x]
      BY <1>2, <1>3
    <3> QED  BY <3>1
  <2> QED  BY <2>1, <2>2 DEF Aligned
<1>6. Pairs(c.deletions, c.insertions, old, now)
  BY <1>4, <1>5, AlignedPairs
<1>7. Applies(c, old, now)
  BY <1>4, <1>6, PairsRest DEF Applies
<1>8. ASSUME NEW e \in ToSet(c.moves) PROVE TrueMove(c, old, now, e)
  <2>1. PICK q \in DOMAIN acc.moves : e = acc.moves[q]
    BY <1>2, <1>8 DEF ToSet
  <2>2. PICK i \in M : e = [from |-> kept[i].prev, to |-> kept[i].tv]
    BY <1>1, <2>1 DEF MovedSo
  <2>3. i \in DOMAIN kept
    BY <1>1 DEF Lined, MovedSo
  <2>4. /\ acc.insertions = b.insertions \cup {kept[l].tv : l \in M}
        /\ acc.removed = R \cup {kept[l].prev : l \in M}
    BY <1>1 DEF MovedSo
  <2>5. e.from = kept[i].prev /\ e.to = kept[i].tv
    BY <2>2
  <2>6. e.from \in c.deletions /\ e.to \in c.insertions
    BY <1>2, <2>4, <2>5
  <2>7. e.from < m /\ e.to < n
    BY <2>3, <2>5 DEF Lined
  <2> QED  BY <2>3, <2>5, <2>6, <2>7 DEF TrueMove
<1> QED  BY <1>7, <1>8

\* So what is calculated for rows in table order applies, wherever the rows that
\* are no candidates come after those that were before them.
LEMMA UnsortedApplies ==
  ASSUME NEW prev \in Seq(Int), Singles(prev), NEW new \in Seq(Nat), Distinct(new),
         NEW changed, NEW candidates, NoneOvertakes(Kept(prev, new), candidates),
         NEW old \in Seq(Nat), NEW now \in Seq(Nat), Len(old) = Len(prev), Len(now) = Len(new),
         Carried(prev, new, old, now)
  PROVE  LET c == Calculate(prev, new, changed, FALSE, candidates)
         IN /\ Applies(c, old, now)
            /\ \A e \in ToSet(c.moves) : TrueMove(c, old, now, e)
<1> DEFINE kept == Kept(prev, new)
           G == Gone(prev)
           R == Leavers(prev, new)
           N == Newcomers(prev, new)
           mods == {r.tv : r \in {s \in ToSet(kept) : s.row \in changed}}
           b == [Empty EXCEPT !.deletions = G, !.insertions = N, !.modifications = mods]
<1>1. Calculate(prev, new, changed, FALSE, candidates) = MovesUnsorted(kept, b, R, candidates)
  BY Zenon DEF Calculate, Newcomers, Leavers
<1>2. Lined(kept, Len(prev), Len(new), G, R, N)
  BY KeptLined
<1>3. /\ b.insertions = N /\ b.deletions = G
      /\ DOMAIN b = {"deletions", "insertions", "modifications", "moves", "mapping"}
  <2> HIDE DEF kept, G, N, mods
  <2> QED  BY DEF Empty
<1>4. \A k \in DOMAIN kept : old[kept[k].prev + 1] = now[kept[k].tv + 1]
  <2> HIDE DEF kept
  <2>1. \A k \in DOMAIN kept : /\ kept[k].tv \in 0 .. Len(new) - 1
                               /\ kept[k].prev \in 0 .. Len(prev) - 1
    BY <1>2 DEF Lined
  <2>2. InBoth(kept, prev, new)
    <3>0. Len(new) \in Nat /\ DOMAIN new = 1 .. Len(new)
      BY SeqLen
    <3>1. \A p \in 1 .. Len(new) : new[p] \in Int
      BY <3>0
    <3>2. new \in Seq(Int)
      BY <3>0, <3>1
    <3> QED  BY <3>2, KeptIs DEF kept
  <2>3. \A k \in DOMAIN kept : prev[kept[k].prev + 1] = new[kept[k].tv + 1]
    BY <2>2 DEF InBoth
  <2> QED  BY <2>1, <2>3, Zenon DEF Carried
<1> HIDE DEF b, kept, G, R, N
<1>5. NoneOvertakes(kept, candidates)
  BY DEF kept
<1>6. Lined(kept, Len(prev), Len(new), G, R, b.insertions)
  BY <1>2, <1>3
<1> QED  BY <1>1, <1>3, <1>4, <1>5, <1>6, ReportedApplies

-----------------------------------------------------------------------------
(* A query's rows before and after a table's changes.                         *)

\* Indices of a list of n rows, one after the other.
Increasing(s, n) ==
  /\ s \in Seq(Nat)
  /\ \A k \in DOMAIN s : s[k] < n
  /\ \A k, l \in DOMAIN s : k < l => s[k] < s[l]

\* What such indices are.
LEMMA IncreasingIs ==
  ASSUME NEW s, NEW n, Increasing(s, n)
  PROVE  /\ s \in Seq(Nat) /\ Len(s) \in Nat /\ DOMAIN s = 1 .. Len(s)
         /\ \A k \in DOMAIN s : k \in Nat /\ s[k] \in Nat /\ s[k] < n
         /\ \A k, l \in DOMAIN s : k < l => s[k] < s[l]
<1>1. /\ s \in Seq(Nat)
      /\ \A k \in DOMAIN s : s[k] < n
      /\ \A k, l \in DOMAIN s : k < l => s[k] < s[l]
  BY DEF Increasing
<1>2. Len(s) \in Nat /\ DOMAIN s = 1 .. Len(s)
  BY <1>1, SeqLen
<1>3. \A k \in DOMAIN s : k \in Nat /\ s[k] \in Nat
  BY <1>1, <1>2
<1> QED  BY <1>1, <1>2, <1>3

\* The indices of the rows a query picks.
Indexed(s, S) == Rest([k \in DOMAIN s |-> k - 1], {k - 1 : k \in DOMAIN s \ S})

\* They are in the order of the list.
LEMMA IndexedIs ==
  ASSUME NEW R, NEW s \in Seq(R), NEW S
  PROVE  Increasing(Indexed(s, S), Len(s))
<1> DEFINE n == Len(s)
           t == [k \in DOMAIN s |-> k - 1]
           Q == DOMAIN s \ S
           T == {k - 1 : k \in Q}
           r == Rest(t, T)
<1>1. n \in Nat /\ DOMAIN s = 1 .. n
  BY SeqLen
<1>2. t \in Seq(Nat) /\ Len(t) = n /\ DOMAIN t = 1 .. n /\ \A p \in DOMAIN t : t[p] = p - 1 /\ p \in 1 .. n
  <2>1. t \in [1 .. n -> Nat]
    BY <1>1
  <2>2. t \in Seq(Nat) /\ Len(t) = n
    BY <1>1, <2>1
  <2> QED  BY <1>1, <2>2
<1>3. T \in Indices
  <2>1. Q \in SUBSET DOMAIN s
    OBVIOUS
  <2> HIDE DEF Q, n
  <2>2. T \in SUBSET Nat /\ \A x \in T : x < Len(s)
    BY <1>1, <2>1, PickedIs DEF n
  <2> HIDE DEF T
  <2> QED  BY <1>1, <2>2, BoundedIndices DEF n
<1> HIDE DEF T, t
<1>4. /\ r \in Seq(Nat)
      /\ \A k \in DOMAIN r : \E p \in DOMAIN t :
            p - 1 \notin T /\ r[k] = t[p] /\ Unshift(T, p - 1) = k - 1
  <2>1. PICK K : K = Nat
    OBVIOUS
  <2>2. t \in Seq(K)
    BY <1>2, <2>1
  <2>3. /\ Rest(t, T) \in Seq(K)
        /\ \A k \in DOMAIN Rest(t, T) : \E p \in DOMAIN t :
              p - 1 \notin T /\ Rest(t, T)[k] = t[p] /\ Unshift(T, p - 1) = k - 1
    BY <1>3, <2>2, RestFacts
  <2> QED  BY <2>1, <2>3
<1> HIDE DEF r, n
<1>5. \A k \in DOMAIN r : k \in Nat
  <2>1. DOMAIN r = 1 .. Len(r) /\ Len(r) \in Nat
    BY <1>4, SeqLen
  <2> QED  BY <2>1
<1>6. ASSUME NEW k \in DOMAIN r
      PROVE  r[k] \in Nat /\ r[k] < n /\ Unshift(T, r[k]) = k - 1
  <2>1. PICK p \in DOMAIN t : r[k] = t[p] /\ Unshift(T, p - 1) = k - 1
    BY <1>4
  <2>2. t[p] = p - 1 /\ p \in 1 .. n
    BY <1>2
  <2> QED  BY <1>1, <2>1, <2>2
<1>7. ASSUME NEW k \in DOMAIN r, NEW l \in DOMAIN r, k < l PROVE r[k] < r[l]
  <2>1. /\ r[k] \in Nat /\ r[l] \in Nat /\ k \in Nat /\ l \in Nat
        /\ Unshift(T, r[k]) = k - 1 /\ Unshift(T, r[l]) = l - 1
    BY <1>5, <1>6
  <2>2. ~(r[l] <= r[k])
    <3> SUFFICES ASSUME r[l] <= r[k] PROVE FALSE
      OBVIOUS
    <3>1. Unshift(T, r[l]) <= Unshift(T, r[k])
      BY <1>3, <2>1, UnshiftGrows
    <3> QED  BY <1>7, <2>1, <3>1
  <2> QED  BY <2>1, <2>2
<1>8. r = Indexed(s, S)
  BY DEF r, t, T, Indexed
<1> QED  BY <1>4, <1>6, <1>7, <1>8 DEF Increasing, n

\* A row's new index is that of the same row.
LEMMA ThroughIs ==
  ASSUME NEW old \in Seq(Nat), NEW new \in Seq(Nat), NEW set, NEW b, Good(b, old, new, set),
         NEW i \in Nat, i < Len(old)
  PROVE  \/ Through(b, i) = npos
         \/ /\ Through(b, i) \in Nat /\ Through(b, i) < Len(new)
            /\ new[Through(b, i) + 1] = old[i + 1]
<1> DEFINE D == b.deletions
           I == b.insertions
           k == LowerBound(b.moves, i)
<1>1. IsBuilder(b) /\ TrueMoves(b, old, new) /\ Pairs(D, I, old, new)
  BY DEF Good, Sound
<1>2. D \in Indices /\ I \in Indices /\ \A q \in DOMAIN b.moves : b.moves[q].to \in Nat
  BY <1>1, BuilderFields
<1>3. CASE i \notin D
  <2> HIDE DEF D, I
  <2> DEFINE x == Shift(I, Unshift(D, i))
  <2>1. Unshift(D, i) \in Nat
    BY <1>2, UnshiftType
  <2>2. x \in Nat \ I /\ Unshift(I, x) = Unshift(D, i)
    BY <1>2, <2>1, ShiftIs
  <2>3. Through(b, i) = x
    BY <1>3 DEF Through, D, I
  <2> HIDE DEF x
  <2>4. x < Len(new) /\ new[x + 1] = old[i + 1]
    BY <1>1, <1>3, <2>2 DEF Pairs
  <2> QED  BY <2>2, <2>3, <2>4
<1>4. CASE i \in D /\ k \in DOMAIN b.moves /\ b.moves[k].from = i
  <2>1. Through(b, i) = b.moves[k].to
    BY <1>4 DEF Through
  <2> HIDE DEF k
  <2>2. TrueMove(b, old, new, b.moves[k])
    BY <1>1, <1>4 DEF TrueMoves
  <2> QED  BY <1>2, <1>4, <2>1, <2>2 DEF TrueMove
<1>5. CASE i \in D /\ ~(k \in DOMAIN b.moves /\ b.moves[k].from = i)
  BY <1>5 DEF Through
<1> QED  BY <1>3, <1>4, <1>5

\* A row that is not reported as inserted is where it was.
InPlace(b, old, new) ==
  \A x \in Nat : x < Len(new) /\ x \notin b.insertions => x < Len(old) /\ old[x + 1] = new[x + 1]

\* Rows are never moved to the right.
OnlyLeft(old, new) == \A k \in DOMAIN old, l \in DOMAIN new : old[k] = new[l] => l <= k

\* Rows of the old list, each with its index in the new one.
Taken(prev, oi, old, new) ==
  /\ prev \in Seq(Int) /\ Len(prev) = Len(oi) /\ DOMAIN prev = DOMAIN oi
  /\ \A k \in DOMAIN prev : \/ prev[k] = npos
                            \/ /\ prev[k] \in Nat /\ prev[k] < Len(new)
                               /\ new[prev[k] + 1] = old[oi[k] + 1]

\* No row comes to two indices.
LEMMA TakenSingles ==
  ASSUME NEW old \in Seq(Nat), NEW new \in Seq(Nat), Distinct(old),
         NEW oi, Increasing(oi, Len(old)), NEW prev, Taken(prev, oi, old, new)
  PROVE  Singles(prev)
<1> SUFFICES ASSUME NEW k \in DOMAIN prev, NEW l \in DOMAIN prev, prev[k] = prev[l], prev[k] # npos
             PROVE  k = l
  BY DEF Singles
<1>1. k \in DOMAIN oi /\ l \in DOMAIN oi /\ old[oi[k] + 1] = old[oi[l] + 1]
  BY DEF Taken
<1>2. /\ k \in Nat /\ l \in Nat /\ oi[k] \in Nat /\ oi[l] \in Nat
      /\ oi[k] < Len(old) /\ oi[l] < Len(old)
  BY <1>1, IncreasingIs
<1>3. oi[k] + 1 \in DOMAIN old /\ oi[l] + 1 \in DOMAIN old
  BY <1>2, SeqLen
<1>4. oi[k] + 1 = oi[l] + 1
  BY <1>1, <1>3 DEF Distinct
<1>5. ~(k < l) /\ ~(l < k)
  BY <1>1, <1>2, <1>4 DEF Increasing
<1> QED  BY <1>2, <1>5

\* So no row in place is overtaken.
LEMMA TakenInLine ==
  ASSUME NEW old \in Seq(Nat), NEW new \in Seq(Nat), Distinct(old), NEW b,
         InPlace(b, old, new), OnlyLeft(old, new),
         NEW oi, Increasing(oi, Len(old)), NEW ni, Increasing(ni, Len(new)),
         NEW prev, Taken(prev, oi, old, new), NEW kept, InBoth(kept, prev, ni)
  PROVE  NoneOvertakes(kept, b.insertions)
<1>1. Len(old) \in Nat /\ DOMAIN old = 1 .. Len(old) /\ Len(new) \in Nat /\ DOMAIN new = 1 .. Len(new)
  BY SeqLen
<1>2. /\ DOMAIN oi = 1 .. Len(oi) /\ Len(oi) \in Nat
      /\ DOMAIN ni = 1 .. Len(ni) /\ Len(ni) \in Nat
      /\ \A k \in DOMAIN oi : oi[k] \in Nat /\ oi[k] < Len(old) /\ oi[k] + 1 \in DOMAIN old
      /\ \A k \in DOMAIN ni : ni[k] \in Nat /\ ni[k] < Len(new) /\ ni[k] + 1 \in DOMAIN new
  <2>1. /\ DOMAIN oi = 1 .. Len(oi) /\ Len(oi) \in Nat
        /\ DOMAIN ni = 1 .. Len(ni) /\ Len(ni) \in Nat
        /\ \A k \in DOMAIN oi : oi[k] \in Nat /\ oi[k] < Len(old)
        /\ \A k \in DOMAIN ni : ni[k] \in Nat /\ ni[k] < Len(new)
    BY IncreasingIs
  <2>2. /\ \A z \in Nat : z < Len(old) => z + 1 \in DOMAIN old
        /\ \A z \in Nat : z < Len(new) => z + 1 \in DOMAIN new
    BY <1>1
  <2> QED  BY <2>1, <2>2
<1>3. ASSUME NEW k \in DOMAIN kept
      PROVE  /\ kept[k].tv + 1 \in DOMAIN ni /\ kept[k].tv \in Nat /\ ni[kept[k].tv + 1] = kept[k].row
             /\ kept[k].prev + 1 \in DOMAIN oi /\ kept[k].prev \in Nat
             /\ kept[k].row \in Nat /\ kept[k].row < Len(new) /\ kept[k].row + 1 \in DOMAIN new
             /\ new[kept[k].row + 1] = old[oi[kept[k].prev + 1] + 1]
  <2>1. /\ kept[k].tv \in Nat /\ kept[k].tv < Len(ni) /\ ni[kept[k].tv + 1] = kept[k].row
        /\ kept[k].prev \in Nat /\ kept[k].prev < Len(prev)
        /\ prev[kept[k].prev + 1] = kept[k].row
    BY DEF InBoth
  <2>2. kept[k].tv + 1 \in DOMAIN ni
    <3>1. \A z \in Nat : z < Len(ni) => z + 1 \in 1 .. Len(ni)
      BY <1>2
    <3> QED  BY <1>2, <2>1, <3>1
  <2>3. kept[k].prev + 1 \in DOMAIN oi /\ kept[k].prev + 1 \in DOMAIN prev
    <3>1. Len(prev) = Len(oi) /\ DOMAIN prev = DOMAIN oi
      BY DEF Taken
    <3>2. \A z \in Nat : z < Len(oi) => z + 1 \in 1 .. Len(oi)
      BY <1>2
    <3> QED  BY <1>2, <2>1, <3>1, <3>2
  <2>4. kept[k].row \in Nat /\ kept[k].row < Len(new) /\ kept[k].row + 1 \in DOMAIN new
    BY <1>2, <2>1, <2>2
  <2>5. prev[kept[k].prev + 1] # npos
    BY <2>1, <2>4 DEF npos
  <2>6. new[prev[kept[k].prev + 1] + 1] = old[oi[kept[k].prev + 1] + 1]
    BY <2>3, <2>5 DEF Taken
  <2> QED  BY <2>1, <2>2, <2>3, <2>4, <2>6
<1>4. \A k \in DOMAIN kept : k \in Nat
  BY DEF InBoth
<1> SUFFICES ASSUME NEW r \in DOMAIN kept, NEW y \in DOMAIN kept,
                    kept[r].row \notin b.insertions, kept[y].prev < kept[r].prev
             PROVE  y < r
  BY DEF NoneOvertakes
<1> DEFINE xr == kept[r].row
           xy == kept[y].row
           pr == oi[kept[r].prev + 1]
           py == oi[kept[y].prev + 1]
<1>5. /\ xr \in Nat /\ xr < Len(new) /\ new[xr + 1] = old[pr + 1]
      /\ xy \in Nat /\ xy + 1 \in DOMAIN new /\ new[xy + 1] = old[py + 1]
      /\ pr \in Nat /\ pr + 1 \in DOMAIN old /\ py \in Nat /\ py + 1 \in DOMAIN old
  BY <1>2, <1>3
<1>6. py < pr
  <2>1. kept[y].prev + 1 < kept[r].prev + 1
    BY <1>3
  <2> QED  BY <1>3, <2>1 DEF Increasing
<1>7. xr = pr
  <2>1. xr < Len(old) /\ old[xr + 1] = new[xr + 1]
    BY <1>5 DEF InPlace
  <2>2. xr + 1 \in DOMAIN old
    BY <1>1, <1>5, <2>1
  <2>3. xr + 1 = pr + 1
    BY <1>5, <2>1, <2>2 DEF Distinct
  <2> HIDE DEF xr, pr
  <2> QED  BY <1>5, <2>3
<1>8. xy + 1 <= py + 1
  <2>1. \A k \in DOMAIN old, l \in DOMAIN new : old[k] = new[l] => l <= k
    BY DEF OnlyLeft
  <2> HIDE DEF xy, py
  <2> QED  BY <1>5, <2>1
<1>9. xy < xr
  <2> HIDE DEF xr, xy, pr, py
  <2> QED  BY <1>5, <1>6, <1>7, <1>8
<1>10. kept[y].tv < kept[r].tv
  <2>1. /\ kept[r].tv \in Nat /\ kept[r].tv + 1 \in DOMAIN ni /\ ni[kept[r].tv + 1] = xr
        /\ kept[y].tv \in Nat /\ kept[y].tv + 1 \in DOMAIN ni /\ ni[kept[y].tv + 1] = xy
    BY <1>3
  <2>2. xr \in Nat /\ xy \in Nat
    BY <1>5
  <2> HIDE DEF xr, xy
  <2>3. kept[r].tv # kept[y].tv
    BY <1>9, <2>1, <2>2
  <2>4. ~(kept[r].tv < kept[y].tv)
    <3> SUFFICES ASSUME kept[r].tv < kept[y].tv PROVE FALSE
      OBVIOUS
    <3>1. kept[r].tv + 1 < kept[y].tv + 1
      BY <2>1
    <3>2. xr < xy
      BY <2>1, <3>1 DEF Increasing
    <3> QED  BY <1>9, <2>2, <3>2
  <2> QED  BY <2>1, <2>3, <2>4
<1>11. ~(r < y) /\ r # y
  <2>1. r < y => kept[r].tv < kept[y].tv
    BY DEF InBoth
  <2> QED  BY <1>3, <1>10, <2>1
<1> QED  BY <1>4, <1>11

\* So the changes of a query over a list's good changes apply.
LEMMA QueryGood ==
  ASSUME NEW old \in Seq(Nat), NEW new \in Seq(Nat), Distinct(old), NEW set, NEW b,
         Good(b, old, new, set), InPlace(b, old, new), OnlyLeft(old, new)
  PROVE  QueryApplies(b, old, new)
<1> SUFFICES ASSUME NEW P, NEW N
             PROVE  LET oi == Indexed(old, P)
                        ni == Indexed(new, N)
                        fo == Map(oi, LAMBDA i : old[i + 1])
                        fn == Map(ni, LAMBDA i : new[i + 1])
                        c == QueryChanges(b, oi, ni)
                    IN Applies(c, fo, fn) /\ \A m \in ToSet(c.moves) : TrueMove(c, fo, fn, m)
  BY Zenon DEF QueryApplies, Indexed
<1> DEFINE oi == Indexed(old, P)
           ni == Indexed(new, N)
           prev == [k \in DOMAIN oi |-> Through(b, oi[k])]
           fo == [k \in DOMAIN oi |-> old[oi[k] + 1]]
           fn == [k \in DOMAIN ni |-> new[ni[k] + 1]]
           c == Calculate(prev, ni, b.modifications, FALSE, b.insertions)
<1>1. /\ QueryChanges(b, oi, ni) = c
      /\ Map(oi, LAMBDA i : old[i + 1]) = fo /\ Map(ni, LAMBDA i : new[i + 1]) = fn
  BY Zenon DEF QueryChanges, Map
<1>2. Increasing(oi, Len(old)) /\ Increasing(ni, Len(new))
  BY IndexedIs
<1> HIDE DEF oi, ni, c
<1>3. /\ Len(oi) \in Nat /\ DOMAIN oi = 1 .. Len(oi)
      /\ ni \in Seq(Nat) /\ Len(ni) \in Nat /\ DOMAIN ni = 1 .. Len(ni)
      /\ \A k \in DOMAIN oi : oi[k] \in Nat /\ oi[k] < Len(old)
      /\ \A k \in DOMAIN ni : k \in Nat /\ ni[k] \in Nat /\ ni[k] < Len(new)
      /\ \A k, l \in DOMAIN ni : k < l => ni[k] < ni[l]
  BY <1>2, IncreasingIs
<1>4. /\ Len(old) \in Nat /\ DOMAIN old = 1 .. Len(old) /\ \A k \in DOMAIN old : old[k] \in Nat
      /\ Len(new) \in Nat /\ DOMAIN new = 1 .. Len(new) /\ \A k \in DOMAIN new : new[k] \in Nat
  <2>1. /\ Len(old) \in Nat /\ DOMAIN old = 1 .. Len(old)
        /\ Len(new) \in Nat /\ DOMAIN new = 1 .. Len(new)
    BY SeqLen
  <2> QED  BY <2>1
<1>5. Distinct(ni)
  <2> SUFFICES ASSUME NEW k \in DOMAIN ni, NEW l \in DOMAIN ni, ni[k] = ni[l] PROVE k = l
    BY DEF Distinct
  <2>1. k \in Nat /\ l \in Nat /\ ni[k] \in Nat /\ ni[l] \in Nat
    BY <1>3
  <2>2. ~(k < l) /\ ~(l < k)
    BY <1>3, <2>1
  <2> QED  BY <2>1, <2>2
<1>6. \A k \in DOMAIN oi : \/ prev[k] = npos
                           \/ /\ prev[k] \in Nat /\ prev[k] < Len(new)
                              /\ new[prev[k] + 1] = old[oi[k] + 1]
  <2> SUFFICES ASSUME NEW k \in DOMAIN oi
               PROVE  \/ prev[k] = npos
                      \/ /\ prev[k] \in Nat /\ prev[k] < Len(new)
                         /\ new[prev[k] + 1] = old[oi[k] + 1]
    OBVIOUS
  <2>1. PICK i \in Nat : i = oi[k] /\ i < Len(old)
    BY <1>3
  <2>2. \/ Through(b, i) = npos
        \/ /\ Through(b, i) \in Nat /\ Through(b, i) < Len(new)
           /\ new[Through(b, i) + 1] = old[i + 1]
    BY <2>1, ThroughIs
  <2>3. prev[k] = Through(b, i)
    BY <2>1
  <2> HIDE DEF prev
  <2> QED  BY <2>1, <2>2, <2>3
<1>7. Taken(prev, oi, old, new)
  <2>1. \A k \in DOMAIN oi : prev[k] \in Int
    <3> HIDE DEF prev
    <3> QED  BY <1>6 DEF npos
  <2>2. prev = [k \in 1 .. Len(oi) |-> prev[k]]
    BY <1>3
  <2> HIDE DEF prev
  <2>3. prev \in [1 .. Len(oi) -> Int]
    BY <1>3, <2>1, <2>2
  <2>4. prev \in Seq(Int) /\ Len(prev) = Len(oi)
    BY <1>3, <2>3, FunctionIsSeq
  <2>5. DOMAIN prev = DOMAIN oi
    BY <1>3, <2>3
  <2> QED  BY <1>6, <2>4, <2>5 DEF Taken
<1>8. fo \in Seq(Nat) /\ Len(fo) = Len(oi) /\ \A k \in DOMAIN oi : fo[k] = old[oi[k] + 1]
  <2>1. \A k \in DOMAIN oi : old[oi[k] + 1] \in Nat
    <3>1. \A z \in Nat : z < Len(old) => z + 1 \in DOMAIN old
      BY <1>4
    <3> QED  BY <1>3, <1>4, <3>1
  <2>2. fo \in [1 .. Len(oi) -> Nat]
    BY <1>3, <2>1
  <2> QED  BY <1>3, <2>2, FunctionIsSeq
<1>9. fn \in Seq(Nat) /\ Len(fn) = Len(ni) /\ \A k \in DOMAIN ni : fn[k] = new[ni[k] + 1]
  <2>1. \A k \in DOMAIN ni : new[ni[k] + 1] \in Nat
    <3>1. \A z \in Nat : z < Len(new) => z + 1 \in DOMAIN new
      BY <1>4
    <3> QED  BY <1>3, <1>4, <3>1
  <2>2. fn \in [1 .. Len(ni) -> Nat]
    BY <1>3, <2>1
  <2> QED  BY <1>3, <2>2, FunctionIsSeq
<1> HIDE DEF prev, fo, fn
<1>10. prev \in Seq(Int) /\ Len(prev) = Len(oi) /\ Singles(prev)
  <2>1. Singles(prev)
    BY <1>2, <1>7, TakenSingles
  <2> QED  BY <1>7, <2>1 DEF Taken
<1>11. NoneOvertakes(Kept(prev, ni), b.insertions)
  <2>1. InBoth(Kept(prev, ni), prev, ni)
    <3>1. ni \in Seq(Int)
      <4>1. ni \in [1 .. Len(ni) -> Int]
        BY <1>3
      <4> QED  BY <1>3, <4>1, FunctionIsSeq
    <3> QED  BY <1>5, <1>10, <3>1, KeptIs
  <2> QED  BY <1>2, <1>7, <2>1, TakenInLine
<1>12. Carried(prev, ni, fo, fn)
  <2> SUFFICES ASSUME NEW y \in 0 .. Len(prev) - 1, NEW x \in 0 .. Len(ni) - 1,
                      prev[y + 1] = ni[x + 1]
               PROVE  fo[y + 1] = fn[x + 1]
    BY DEF Carried
  <2>1. y + 1 \in DOMAIN oi
    BY <1>3, <1>10
  <2>2. x + 1 \in DOMAIN ni
    BY <1>3
  <2>3. prev[y + 1] # npos
    BY <1>3, <2>2 DEF npos
  <2>4. new[prev[y + 1] + 1] = old[oi[y + 1] + 1]
    BY <1>6, <2>1, <2>3
  <2> QED  BY <1>8, <1>9, <2>1, <2>2, <2>4
<1>13. Applies(c, fo, fn) /\ \A m \in ToSet(c.moves) : TrueMove(c, fo, fn, m)
  <2>1. Len(fo) = Len(prev) /\ Len(fn) = Len(ni) /\ fo \in Seq(Nat) /\ fn \in Seq(Nat)
    BY <1>8, <1>9, <1>10
  <2> QED  BY <1>3, <1>5, <1>10, <1>11, <1>12, <2>1, UnsortedApplies, Zenon DEF c
<1> QED  BY <1>1, <1>13, Zenon DEF oi, ni

\* What a table's log ends with leaves the rows in place that it does not insert.
LEMMA ParsedInPlace ==
  ASSUME NEW old, NEW new \in Seq(Nat), NEW set, NEW b, OnTable(b, old, new, set)
  PROVE  InPlace(ParseComplete(b), old, new)
<1> DEFINE stay == {k \in DOMAIN b.mapping : b.mapping[k] = k}
           p == ParseComplete(b)
<1>1. p.insertions = b.insertions \ stay
  <2>1. b = [deletions |-> b.deletions, insertions |-> b.insertions,
             modifications |-> b.modifications, moves |-> b.moves, mapping |-> b.mapping]
    BY DEF OnTable, Sound, IsBuilder
  <2> HIDE DEF stay
  <2> QED  BY <2>1 DEF ParseComplete, stay
<1> HIDE DEF p
<1> SUFFICES ASSUME NEW x \in Nat, x < Len(new), x \notin p.insertions
             PROVE  x < Len(old) /\ old[x + 1] = new[x + 1]
  BY DEF InPlace, p
<1>2. Tables(b.deletions, b.insertions, old, new) /\ TrueMoves(b, old, new)
  BY DEF OnTable, Sound
<1>3. CASE x \notin b.insertions
  <2>1. x < Len(old)
    BY <1>2, <1>3 DEF Tables
  <2> QED  BY <1>2, <1>3, <2>1 DEF Tables
<1>4. CASE x \in stay
  <2>1. x \in DOMAIN b.mapping /\ b.mapping[x] = x
    BY <1>4
  <2>2. TrueMove(b, old, new, [from |-> x, to |-> x])
    BY <1>2, <2>1 DEF TrueMoves
  <2> QED  BY <2>2 DEF TrueMove
<1> QED  BY <1>1, <1>3, <1>4

-----------------------------------------------------------------------------
(* Without swaps a table's rows only ever move to the left.                   *)

LInv == kind = "table" => OnlyLeft(mid, rows)

\* Rows that stay are not moved.
LEMMA SameOnlyLeft ==
  ASSUME NEW s \in Seq(Nat), Distinct(s)
  PROVE  OnlyLeft(s, s)
<1> SUFFICES ASSUME NEW k \in DOMAIN s, NEW l \in DOMAIN s, s[k] = s[l] PROVE l <= k
  BY DEF OnlyLeft
<1>1. k = l /\ k \in Nat
  BY SeqLen DEF Distinct
<1> QED  BY <1>1

\* A new row at the end.
LEMMA InsertOnlyLeft ==
  ASSUME IInv, OnlyLeft(mid, rows), NEW a, IsInserted(a, rows, Len(rows), next), a \in Seq(Nat)
  PROVE  OnlyLeft(mid, a)
<1> SUFFICES ASSUME NEW k \in DOMAIN mid, NEW l \in DOMAIN a, mid[k] = a[l] PROVE l <= k
  BY DEF OnlyLeft
<1>1. /\ Len(rows) \in Nat /\ DOMAIN rows = 1 .. Len(rows)
      /\ \A q \in DOMAIN mid : mid[q] < next
      /\ next \in Nat
  BY RowsFacts DEF IInv, Listed
<1>2. /\ Len(a) = Len(rows) + 1
      /\ \A x \in 0 .. Len(rows) :
           a[x + 1] = IF x < Len(rows) THEN rows[x + 1] ELSE IF x = Len(rows) THEN next ELSE rows[x]
  BY DEF IsInserted
<1>3. DOMAIN a = 1 .. Len(rows) + 1
  BY <1>2, SeqLen
<1>4. l - 1 \in 0 .. Len(rows) /\ (l - 1) + 1 = l
  BY <1>1, <1>3
<1>5. a[l] = IF l - 1 < Len(rows) THEN rows[l] ELSE IF l - 1 = Len(rows) THEN next ELSE rows[l - 1]
  BY <1>2, <1>4
<1>6. l - 1 < Len(rows)
  <2>1. a[l] # next
    BY <1>1
  <2>2. ~(l - 1 = Len(rows))
    <3> SUFFICES ASSUME l - 1 = Len(rows) PROVE FALSE
      OBVIOUS
    <3>1. ~(l - 1 < Len(rows))
      BY <1>1
    <3> QED  BY <1>5, <2>1, <3>1
  <2>3. \A n \in Nat : \A x \in 0 .. n : x # n => x < n
    OBVIOUS
  <2> QED  BY <1>1, <1>4, <2>2, <2>3
<1>7. a[l] = rows[l] /\ l \in DOMAIN rows
  <2>1. \A n \in Nat : \A x \in 0 .. n : x < n => x + 1 \in 1 .. n
    OBVIOUS
  <2> QED  BY <1>1, <1>4, <1>5, <1>6, <2>1
<1> QED  BY <1>7 DEF OnlyLeft

\* The last row over another one.
LEMMA OverOnlyLeft ==
  ASSUME IInv, OnlyLeft(mid, rows), NEW i \in 0 .. Len(rows) - 1
  PROVE  OnlyLeft(mid, Front([rows EXCEPT ![i + 1] = Last(rows)]))
<1> DEFINE a == Front([rows EXCEPT ![i + 1] = Last(rows)])
           n == Len(rows)
<1>1. n \in Nat /\ DOMAIN rows = 1 .. n /\ rows \in Seq(Nat) /\ DOMAIN mid \subseteq Nat
  <2>1. mid \in Seq(Nat) /\ Len(rows) \in Nat /\ DOMAIN rows = 1 .. Len(rows) /\ rows \in Seq(Nat)
    BY RowsFacts
  <2>2. DOMAIN mid = 1 .. Len(mid)
    BY <2>1, SeqLen
  <2> QED  BY <2>1, <2>2
<1>2. i \in Nat /\ i < n /\ n \in DOMAIN rows
  <2>1. \A l \in Nat : \A x \in 0 .. l - 1 : x \in Nat /\ x < l /\ l \in 1 .. l
    OBVIOUS
  <2>2. i \in 0 .. n - 1
    OBVIOUS
  <2> HIDE DEF a, n
  <2> QED  BY <1>1, <2>1, <2>2
<1>3. /\ a \in Seq(Nat) /\ Len(a) = n - 1
      /\ \A x \in Nat : x < n - 1 => a[x + 1] = IF x = i THEN rows[n] ELSE rows[x + 1]
  BY <1>1, <1>2, LastOverRows, ZenonT(30)
<1> HIDE DEF a, n
<1>4. DOMAIN a = 1 .. n - 1
  BY <1>3, SeqLen
<1> SUFFICES ASSUME NEW k \in DOMAIN mid, NEW l \in DOMAIN a, mid[k] = a[l] PROVE l <= k
  BY DEF OnlyLeft, a
<1>5. l \in Nat /\ l < n /\ l - 1 \in Nat /\ l - 1 < n - 1 /\ (l - 1) + 1 = l /\ l \in DOMAIN rows
  BY <1>1, <1>4
<1>6. a[l] = IF l - 1 = i THEN rows[n] ELSE rows[l]
  BY <1>3, <1>5
<1>7. CASE l - 1 = i
  <2>1. n <= k
    BY <1>2, <1>6, <1>7 DEF OnlyLeft
  <2> QED  BY <1>1, <1>5, <2>1
<1>8. CASE l - 1 # i
  BY <1>5, <1>6, <1>8 DEF OnlyLeft
<1> QED  BY <1>7, <1>8

\* No other step moves a row to the right either.
LEMMA NextLInv ==
  ASSUME IInv, LInv, [Next]_vars
  PROVE  LInv'
<1> SUFFICES ASSUME kind' = "table" PROVE OnlyLeft(mid', rows')
  BY DEF LInv
<1>0. /\ mid \in Seq(Nat) /\ rows \in Seq(Nat) /\ Distinct(rows) /\ next \in Nat
      /\ Len(rows) \in Nat /\ DOMAIN rows = 1 .. Len(rows)
  BY RowsFacts
<1>1. CASE ClearRows
  <2>1. mid' = mid /\ rows' = <<>>
    BY <1>1 DEF ClearRows, Call
  <2>2. DOMAIN <<>> = {}
    OBVIOUS
  <2> QED  BY <2>1, <2>2 DEF OnlyLeft
<1>2. CASE Complete
  <2>1. mid' = rows /\ rows' = rows
    BY <1>2 DEF Complete
  <2> QED  BY <1>0, <2>1, SameOnlyLeft
<1>3. ASSUME NEW i \in 0 .. Len(rows), InsertRow(i) PROVE OnlyLeft(mid', rows')
  <2>1. kind' = kind /\ mid' = mid /\ rows' = InsertAt(rows, i + 1, next)
    BY <1>3 DEF InsertRow, Call
  <2>2. i = Len(rows) /\ OnlyLeft(mid, rows)
    BY <1>3, <2>1 DEF InsertRow, LInv
  <2>3. /\ InsertAt(rows, i + 1, next) \in Seq(Nat)
        /\ IsInserted(InsertAt(rows, i + 1, next), rows, i, next)
    BY <1>0, InsertedNat
  <2> QED  BY <2>1, <2>2, <2>3, InsertOnlyLeft
<1>4. ASSUME NEW i \in 0 .. Len(rows) - 1,
             \/ EraseRow(i) \/ MoveLastOver(i) \/ ModifyRow(i)
             \/ \E j \in 0 .. Len(rows) - 1 : MoveRow(i, j) \/ SwapRows(i, j)
      PROVE  OnlyLeft(mid', rows')
  <2>1. CASE MoveLastOver(i)
    <3>1. kind' = kind /\ mid' = mid /\ rows' = Front([rows EXCEPT ![i + 1] = Last(rows)])
      BY <2>1 DEF MoveLastOver, Call
    <3> QED  BY <3>1, OverOnlyLeft DEF LInv
  <2>2. CASE ModifyRow(i)
    <3>1. kind' = kind /\ mid' = mid /\ rows' = rows
      BY <2>2 DEF ModifyRow, Call
    <3> QED  BY <3>1 DEF LInv
  <2>3. ~EraseRow(i) /\ \A j : ~MoveRow(i, j) /\ ~SwapRows(i, j)
    BY DEF EraseRow, MoveRow, SwapRows, Call
  <2> QED  BY <1>4, <2>1, <2>2, <2>3
<1>5. \A new, gone, changed : ~Rerun(new, gone, changed)
  BY DEF Rerun, Call
<1>6. CASE UNCHANGED vars
  BY <1>6 DEF vars, LInv
<1> QED  BY <1>1, <1>2, <1>3, <1>4, <1>5, <1>6 DEF Next

\* So it holds in every reachable state.
LEMMA BuilderOnlyLeft == Spec => []LInv
<1>1. Init => LInv
  <2> SUFFICES ASSUME Init PROVE OnlyLeft(mid, rows)
    BY DEF LInv
  <2>1. mid = rows
    BY DEF Init
  <2>2. IInv
    BY InitIInv
  <2> QED  BY <2>1, <2>2, RowsFacts, SameOnlyLeft
<1>2. IInv /\ LInv /\ [Next]_vars => LInv'
  BY NextLInv
<1> QED  BY <1>1, <1>2, BuilderInvariant, PTL DEF Spec

\* And with it the changes of every query apply.
LEMMA InvariantQueries ==
  ASSUME IInv, LInv
  PROVE  QueryChangesApply
<1> SUFFICES ASSUME kind = "table" PROVE QueryApplies(ParseComplete(builder), mid, rows)
  BY DEF QueryChangesApply
<1>1. mid \in Seq(Nat) /\ rows \in Seq(Nat) /\ Distinct(mid) /\ Distinct(rows)
  BY RowsFacts
<1>2. OnTable(builder, mid, rows, dirty) /\ OnlyLeft(mid, rows)
  BY DEF IInv, Held, LInv
<1>3. Good(ParseComplete(builder), mid, rows, dirty)
  <2>1. PICK R : R = Nat
    OBVIOUS
  <2>2. mid \in Seq(R) /\ rows \in Seq(R)
    BY <1>1, <2>1
  <2> QED  BY <1>1, <1>2, <2>2, ParsedGood DEF Distinct
<1>4. InPlace(ParseComplete(builder), mid, rows)
  BY <1>1, <1>2, ParsedInPlace
<1> QED  BY <1>1, <1>2, <1>3, <1>4, QueryGood

-----------------------------------------------------------------------------
(* The theorems.                                                              *)

(* Every move in the changes of a log, or in those merged over several logs,  *)
(* joins the old and the new index of one row, which are a deletion and an    *)
(* insertion (verify() in collection_change_builder.cpp, its comment on       *)
(* moves): for every kind of collection, every number of rows and every       *)
(* sequence of calls.                                                         *)
THEOREM BuilderMovesAreTrue == Spec => []MovesAreTrue
BY BuilderInvariant, InvariantMoves, PTL

(* Taking the deletions out of the old rows leaves what taking the insertions *)
(* out of the new ones leaves, for a list, for a table whose moves are        *)
(* tracked and for sorted results that are compared with their last run, at   *)
(* any point of a log and over any number of merged ones (the check at the    *)
(* end of calculate()).                                                       *)
THEOREM BuilderChangesApply == Spec => []ChangesApply
BY BuilderInvariant, InvariantApplies, PTL

(* The modifications follow the rows that were set through every insertion,   *)
(* deletion, move, swap and merge, and through every comparison of sorted     *)
(* results: modify(), insert(), erase(), move(), move_over(), swap(), merge() *)
(* and calculate().                                                           *)
THEOREM BuilderModificationsAreExact == Spec => []ModificationsAreExact
BY BuilderInvariant, InvariantModifies, PTL

(* The old and the new indices of the modified rows, which finalize() makes   *)
(* of the merged changes, name the same rows.                                 *)
THEOREM BuilderFinalizedAgree == Spec => []FinalizedAgree
BY BuilderInvariant, InvariantFinalized, PTL

(* Whatever rows of a table a query found before and finds after a log, the   *)
(* changes it reports turn the old results into the new ones, and every move  *)
(* in them is one: ResultsNotifier::calculate_changes() and the comparison in *)
(* table order of calculate(), for every number of rows, every sequence of    *)
(* calls and every set of rows found.                                         *)
THEOREM BuilderQueryChangesApply == Spec => []QueryChangesApply
BY BuilderInvariant, BuilderOnlyLeft, InvariantQueries, PTL

=============================================================================
