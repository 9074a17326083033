----------------------------- MODULE MCIndexSet -----------------------------
(* The bounds of IndexSet's runs: the sets given as arguments, and a view   *)
(* that leaves out the last call, which no operation reads.                 *)
EXTENDS IndexSet

Evens == {i \in Index : i % 2 = 0}
MCArgs == {Evens, Index \ Evens} \cup {a .. b : a, b \in Index}
            \cup {{a, b} : a, b \in Index}
MCByArgs == {Evens, Index \ Evens, {}, 0 .. 2, {0, 3}, {1, 2}, {6}}
Set == <<chunks, outgrown>>
=============================================================================
