--------------------------- MODULE MCSyncSession ---------------------------
(* Two threads and the event loop, for TLC. *)
EXTENDS SyncSession, TLC

CONSTANTS t1, t2, loop, w1

Symmetry == Permutations({t1, t2})
=============================================================================
