--------------------------- MODULE CodeStructure ----------------------------
(* The static structure of a function body, a sequence of instructions with *)
(* a field op (computeBranchTable in src/src/vm.zig): the end of the        *)
(* construct opened at position i, and the else of an if.                   *)
EXTENDS Integers, FiniteSets, Sequences

Openers == {"block", "loop", "if", "try_table"}
Opened(c, i, j) ==
    Cardinality({k \in i .. j : c[k].op \in Openers}) - Cardinality({k \in i .. j : c[k].op = "end"})
EndOf(c, i) == CHOOSE j \in i .. Len(c) : Opened(c, i, j) = 0 /\ \A k \in i .. j - 1 : Opened(c, i, k) > 0
ElseOf(c, i) == {j \in i .. EndOf(c, i) : c[j].op = "else" /\ Opened(c, i, j) = 1}
=============================================================================
