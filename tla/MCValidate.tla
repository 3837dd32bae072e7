----------------------------- MODULE MCValidate -----------------------------
(* Instructions for the model checker: numbers and references, constructs   *)
(* of several types, branches to the two innermost labels.                  *)
EXTENDS Validate

Plain(o) == [op |-> o]
Typed(o, from, to) == [op |-> o, from |-> from, to |-> to]
Labels(o, ls) == [op |-> o, labels |-> ls]
N == <<"i32">>
R == <<"ref">>

OneReference == R
AllInstrs ==
    {Plain(o) : o \in {"unreachable", "drop", "select", "else", "end", "return", "local.get", "local.set"}}
    \cup {Typed("call", <<>>, N), Typed("call", <<>>, R)}
    \cup {Typed("block", <<>>, N), Typed("loop", N, <<>>),
          Typed("if", N, <<>>), Typed("if", <<>>, N), Typed("if", <<>>, <<>>)}
    \cup {Labels("br", <<0>>), Labels("br", <<1>>), Labels("br_if", <<0>>), Labels("br_table", <<0, 1>>)}
=============================================================================
