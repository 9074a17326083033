----------------------------- MODULE MCNewsParse -----------------------------
(* NewsParse over a two-word alphabet: pieces that are solid, blank,       *)
(* end or begin with a blank, or have one inside.                          *)
EXTENDS NewsParse

CONSTANTS a, b

MCWords  == {a, b}
MCPieces == {<<a>>, <<Blank>>, <<Blank, b, Blank>>, <<a, Blank, b>>}
=============================================================================
