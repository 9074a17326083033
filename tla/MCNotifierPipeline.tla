------------------------- MODULE MCNotifierPipeline -------------------------
EXTENDS NotifierPipeline

CONSTANTS n1, n2, A, B

(* The Results belong to one Realm.                                        *)
OneOwner == [n \in Notifiers |-> A]

(* Each Realm has a Results.                                               *)
TwoOwners == [n \in Notifiers |-> IF n = n1 THEN A ELSE B]
=============================================================================
