-------------------------- MODULE MCChangeBuilder --------------------------
(* The bounds of ChangeBuilder's runs, for each kind of collection.         *)
EXTENDS ChangeBuilder

MCRows == [k \in Kinds |-> CASE k = "linked" -> 2 [] k = "table" -> 4 [] OTHER -> 3]
MCMaxCalls == [k \in Kinds |-> CASE k = "sorted" -> 2 [] k \in {"linked", "swapped"} -> 3 [] OTHER -> 4]
=============================================================================
