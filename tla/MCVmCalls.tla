------------------------------ MODULE MCVmCalls ------------------------------
(* A module of functions in every form: register IR or compiled (reg),     *)
(* predecoded (ir), and bytecode only, for what the other two reject.      *)
EXTENDS VmCalls

O(o) == [op |-> o]
C(v) == [op |-> "const", val |-> v]
L(n) == [op |-> "local.get", n |-> n]
D(vs) == [op |-> "drop", vals |-> vs]
B(o, ps, rs) == [op |-> o, params |-> ps, results |-> rs]
Try(rs, cs) == [op |-> "try_table", params |-> 0, results |-> rs, catches |-> cs]
Catch(k, t, d) == [kind |-> k, tag |-> t, depth |-> d]
J(o, d) == [op |-> o, depth |-> d]
F(o, fn) == [op |-> o, fn |-> fn]
T(t, n) == [op |-> "throw", tag |-> t, n |-> n]

Def(ps, ls, rs, form, ys, c) ==
    [params |-> ps, locals |-> ls, results |-> rs, reg |-> form = "reg",
     ir |-> form # "byte", yields |-> ys, code |-> c]

\* 1: throws its argument or returns it.
Thrower == Def(1, 1, 1, "byte", {<<1>>, <<2>>, <<7>>},
    <<B("if", 0, 0), L(1), T("x", 1), O("end"), L(1), O("end")>>)
\* 2: catches what function 1 throws, with operands below.
Catcher == Def(0, 0, 1, "byte", {<<7>>},
    <<C(5), B("block", 0, 1), Try(1, <<Catch("catch", "y", 0), Catch("catch", "x", 0)>>),
      C(6), C(7), F("call", 1), D({7}), D({6}), C(7), O("end"), O("end"),
      D({7}), D({5}), C(7), O("end")>>)
\* 3: catches by reference in a loop and throws again, to be caught outside.
Rethrower == Def(0, 0, 1, "byte", {<<7>>},
    <<B("block", 0, 1), Try(0, <<Catch("catch", "x", 0)>>),
      B("block", 0, 1), Try(0, <<Catch("catch_all_ref", "", 0)>>), C(7), T("x", 1), O("end"),
      O("unreachable"), O("end"),
      O("throw_ref"), O("end"), O("unreachable"), O("end"), O("end")>>)
\* 4: a loop with a parameter, a branch out of it, a branch out of the function.
Looper == Def(1, 1, 1, "ir", {<<1>>, <<2>>, <<8>>},
    <<C(9), C(2), B("loop", 1, 1), C(8), J("br_if", 1), D({8}), J("br_if", 0), O("end"),
      D({2}), D({9}), L(2), D({0}), L(1), J("br", 0), O("end")>>)
\* 5: a tail call in one branch, an ordinary one in the other.
TailCaller == Def(1, 0, 1, "ir", {<<1>>, <<2>>, <<8>>},
    <<C(3), B("if", 0, 0), L(1), F("return_call", 1), O("else"), C(4), D({4}), O("end"),
      D({3}), L(1), F("call", 4), O("return"), O("end")>>)
\* 6: in registers, calls functions that are not.
Register == Def(0, 1, 1, "reg", {<<2>>},
    <<C(2), F("call", 5), D({2, 8}), L(1), D({0}), C(2), F("call", 13), O("end")>>)
\* 7: predecoded, calls itself, 6, 8 and 11.
Recursive == Def(1, 0, 1, "ir", {<<1>>},
    <<B("if", 0, 0), L(1), F("call", 7), D({1}), O("else"),
      B("if", 0, 1), F("call", 6), O("else"),
      B("if", 0, 1), L(1), F("call", 11), O("else"), L(1), F("call", 8), O("end"), O("end"),
      D({1, 2, 3, 7, 8}), O("end"), L(1), O("end")>>)
\* 8: branches out of the function, by itself and by a catch clause.
Leaver == Def(1, 0, 1, "byte", {<<1>>, <<3>>, <<7>>},
    <<C(4), Try(0, <<Catch("catch", "x", 0)>>), C(7), F("call", 1), J("br_if", 1), D({7}),
      C(3), J("br_if", 1), D({3}), O("end"), D({4}), L(1), O("end")>>)
\* 9: catches at a loop, which starts again with the payload.
Retrier == Def(0, 0, 1, "byte", {<<2>>},
    <<C(1), B("loop", 1, 1), D({1, 7}), Try(0, <<Catch("catch_ref", "y", 0), Catch("catch", "x", 0)>>),
      C(7), F("call", 1), D({7}), O("end"), C(5), O("end"), F("call", 10), O("end")>>)
\* 10: catches twice by reference; the second reference takes the slot of the
\* first when there is room for one.
Twice == Def(1, 0, 1, "byte", {<<2>>},
    <<F("call", 3), D({7}), F("call", 3), D({7}), C(2), O("end")>>)
\* 11: tail calls to registers and to predecoded code, and traps.
Relay == Def(1, 0, 1, "ir", {},
    <<B("if", 0, 0), F("return_call", 6), O("else"), B("block", 0, 0), J("br_if", 0), O("unreachable"),
      O("end"), O("end"), L(1), F("return_call", 5), O("end")>>)
\* 12: throws a null reference, or again what it has caught.
RefThrower == Def(0, 1, 0, "byte", {},
    <<B("block", 0, 1), Try(0, <<Catch("catch_all_ref", "", 0)>>), B("if", 0, 0), C(7), T("x", 1),
      O("end"), O("end"), L(1), O("end"), O("throw_ref"), O("end")>>)
\* 13: in registers.
Leaf == Def(1, 0, 1, "reg", {<<1>>, <<2>>}, <<L(1), O("end")>>)
\* 14: catches by reference where the payload and the reference just fit, and
\* where they do not.
Constants(n) == [k \in 1 .. n |-> C(1)]
CatchesRef == <<B("block", 0, 2), Try(0, <<Catch("catch_ref", "x", 0)>>), C(7), T("x", 1), O("end"),
                O("unreachable"), O("end")>>
FullCatcher == Def(0, 0, 0, "byte", {},
    Constants(6) \o CatchesRef \o <<D({1}), D({7})>> \o Constants(1) \o CatchesRef
                 \o <<O("return"), O("end")>>)

Module == <<Thrower, Catcher, Rethrower, Looper, TailCaller, Register, Recursive, Leaver,
            Retrier, Twice, Relay, RefThrower, Leaf, FullCatcher>>

\* A function in registers that calls a function without register IR, each
\* time after the previous call has returned.
Calling == [Leaf EXCEPT !.code = <<L(1), F("call", 2), F("call", 2), F("call", 2), O("end")>>]
Called == [Leaf EXCEPT !.reg = FALSE]
OneAfterTheOther == <<Calling, Called>>
=============================================================================
