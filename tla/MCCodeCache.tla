----------------------------- MODULE MCCodeCache ----------------------------
(* A module with an import: a function of two units, an empty one, and one  *)
(* of one unit; and a file it is linked to, with a table of one entry.  Of  *)
(* two such files, the second has no table entries and longer code.         *)
EXTENDS CodeCache

Sizes2 == <<2, 0, 1>>
WithTable == [l \in LinkSets |-> <<1, 1>>]
Unlike == [l \in LinkSets |-> IF l = (CHOOSE m \in LinkSets : TRUE) THEN <<1, 1>> ELSE <<2>>]
=============================================================================
