----------------------------- MODULE MCLinking ------------------------------
(* Three modules for the model checker: one that exports a function and a  *)
(* table; one that imports both, fills the table, once beyond its end, and *)
(* re-exports the function; and one that imports through the second and    *)
(* has a table of its own that is initialised with its function.           *)
EXTENDS Linking

Imp(m, n, k) == [mod |-> m, name |-> n, kind |-> k, min |-> 2]
Exp(n, k, i) == [name |-> n, kind |-> k, index |-> i]

Base == [imports |-> <<>>, functions |-> 1, tables |-> <<[min |-> 2, init |-> 0]>>,
         segments |-> <<[table |-> 1, offset |-> 0, funcs |-> <<1>>]>>,
         exports |-> <<Exp("f", "func", 1), Exp("t", "table", 1)>>]
Filler == [imports |-> <<Imp("A", "t", "table"), Imp("A", "f", "func")>>, functions |-> 1,
           tables |-> <<>>,
           segments |-> <<[table |-> 1, offset |-> 0, funcs |-> <<2, 1>>],
                          [table |-> 1, offset |-> 1, funcs |-> <<2, 1>>]>>,
           exports |-> <<Exp("f", "func", 1), Exp("g", "func", 2), Exp("t", "table", 1)>>]
Chained == [imports |-> <<Imp("B", "f", "func"), Imp("B", "g", "func"), Imp("A", "t", "table")>>,
            functions |-> 1,
            tables |-> <<[min |-> 1, init |-> 3]>>,
            segments |-> <<[table |-> 1, offset |-> 1, funcs |-> <<3>>]>>,
            exports |-> <<Exp("f", "func", 2)>>]

MCPrograms == {Base, Filler, Chained}
=============================================================================
