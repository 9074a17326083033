-------------------------- MODULE AbstractIndexSet --------------------------
(***************************************************************************)
(* The promise of IndexSet: a set of indices and the last call made on it. *)
(* Every step is one call; `op' names it, with its arguments and result.   *)
(***************************************************************************)
EXTENDS IndexSets

VARIABLES set, op

Promised(S, o) ==
  CASE o.name = "add"              -> Add(S, o.i)
    [] o.name = "addAll"           -> S \cup o.set
    [] o.name = "addShifted"       -> AddShifted(S, o.i)
    [] o.name = "addShiftedBy"     -> AddShiftedBy(S, o.by, o.set)
    [] o.name = "set"              -> 0 .. o.i - 1
    [] o.name = "insertAt"         -> InsertIndices(S, o.i, o.n)
    [] o.name = "insertAtAll"      -> InsertAtAll(S, o.set)
    [] o.name = "shiftForInsertAt" -> ShiftForInsertAt(S, o.i, o.n)
    [] o.name = "shiftForInsertAtAll" -> ShiftForInsertAtAll(S, o.set)
    [] o.name = "eraseAt"          -> EraseAt(S, o.i)
    [] o.name = "eraseAtAll"       -> EraseAtAll(S, o.set)
    [] o.name = "eraseOrUnshift"   -> EraseAt(S, o.i)
    [] o.name = "remove"           -> S \ (o.i .. o.i + o.n - 1)
    [] o.name = "removeAll"        -> S \ o.set

Returned(S, o) ==
  CASE o.name = "addShifted"     -> Shift(S, o.i)
    [] o.name = "eraseOrUnshift" -> ErasedOrUnshifted(S, o.i)
    [] OTHER                     -> npos

Init == set = {} /\ op = [name |-> "none", result |-> npos]

Next == /\ set' = Promised(set, op')
        /\ op'.result = Returned(set, op')

Spec == Init /\ [][Next]_<<set, op>>

=============================================================================
