----------------------------- MODULE MCTiering -----------------------------
(* Functions that take Tiering through each of its decisions. *)
EXTENDS Tiering

I(op) == [op |-> op, to |-> 0, n |-> 0]
B(op, to, n) == [op |-> op, to |-> to, n |-> n]

Fun(code) == [code |-> code, v128 |-> FALSE, converts |-> TRUE, params |-> 1,
              reg_count |-> 2]

LoopThenStore == Fun(<<I("nop"), B("br", 1, 3), I("store")>>)
CallThenLoop == Fun(<<I("call"), I("store"), B("br", 2, 3)>>)
Recursive == Fun(<<I("self"), I("global.set"), B("br", 3, 2), I("self"),
                   B("br", 4, 1)>>)
Dispatch == Fun(<<B("br_table", 1, 1), I("store"), B("br", 1, 2)>>)
Guarded == Fun(<<I("guard"), I("store"), B("br", 2, 3), I("unguard")>>)
GuardedSelf == Fun(<<I("nop"), I("guard"), B("br", 1, 0), B("br", 4, 3), I("self"),
                     I("unguard")>>)
Large == Fun(<<I("nop"), I("nop"), I("store"), B("br", 3, 3), I("self"), I("nop"),
               I("store")>>)
Vector == [Recursive EXCEPT !.v128 = TRUE]
ManyParams == [Recursive EXCEPT !.v128 = TRUE, !.params = 3]
StackOnly == [Recursive EXCEPT !.converts = FALSE]

AllPrograms == {LoopThenStore, CallThenLoop, Recursive, Dispatch, Guarded,
                GuardedSelf, Large, Vector, ManyParams, StackOnly}

\* A loop that stores, with nothing before it.
StoringLoop == {Fun(<<I("store"), B("br", 1, 3)>>)}
=============================================================================
