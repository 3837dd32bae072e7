------------------------------ MODULE Validate -------------------------------
(***************************************************************************)
(* The type checker of function bodies (src/src/validate.zig), fed with    *)
(* every body of a bounded length, and what a body it accepts does when it *)
(* is executed by the rules of WebAssembly.                                *)
(*                                                                         *)
(* The checker keeps a stack of operand types, a stack of control frames   *)
(* and, for locals whose type has no default value, whether they are set.  *)
(* An instruction either passes or the body is rejected and the checker's  *)
(* state freed.  Instructions that only pop and push are calls of          *)
(* functions with such a type; locals are one parameter-less local of a    *)
(* type without default.  validateBodyEnd (src/src/module.zig) has seen to *)
(* it that the end of the function is the end of the body.                 *)
(*                                                                         *)
(* Execution follows the types of values only; conditions are              *)
(* nondeterministic.  It stands still ("stuck") where an instruction does  *)
(* not find the operands it needs above those of the enclosing construct,  *)
(* or reads a local that is not set.                                       *)
(***************************************************************************)
EXTENDS Integers, Sequences, FiniteSets, CodeStructure

CONSTANTS
    Instrs,     \* the instructions: op, and type, [from, to], labels
    Results,    \* the results of the function
    LocalType,  \* the type of its local, which has no default
    MaxBody,    \* bound on the length of a body
    MaxDead     \* bound on the instructions it has after unreachable points

ASSUME ValidateAssumption == MaxBody \in Nat /\ MaxDead \in Nat /\ Results \in Seq(STRING)

VARIABLES
    body,         \* what has been read
    op_stack,     \* types of operands; "unknown" after an unreachable point
    ctrl_stack,   \* kind, start, end, height, dead (unreachable_flag), snapshot
    local_init,   \* local_inits of the local
    dead_read,    \* instructions read after unreachable points
    verdict,      \* "reading", "rejected", "running", "done", "stuck"
    exec          \* pc, stack, labels, init: the execution of an accepted body

validateVars == <<body, op_stack, ctrl_stack, local_init, dead_read, verdict, exec>>

AtRest == [pc |-> 0, stack |-> <<>>, labels |-> <<>>, init |-> FALSE]

Control(kind, from, to, height) ==
    [kind |-> kind, start |-> from, end |-> to, height |-> height, dead |-> FALSE,
     snapshot |-> local_init]

\* validateFunction: the frame of the body.
ValidateInit ==
    /\ body = <<>> /\ op_stack = <<>> /\ local_init = FALSE /\ dead_read = 0
    /\ ctrl_stack = <<[kind |-> "block", start |-> <<>>, end |-> Results, height |-> 0,
                       dead |-> FALSE, snapshot |-> FALSE]>>
    /\ verdict = "reading" /\ exec = AtRest

-----------------------------------------------------------------------------
\* The two stacks.
First(s, n) == SubSeq(s, 1, n)
innermost == ctrl_stack[Len(ctrl_stack)]
Frame(label) == ctrl_stack[Len(ctrl_stack) - label]
Above == Len(op_stack) - innermost.height

labelTypes(f) == IF f.kind = "loop" THEN f.start ELSE f.end

\* popExpectingTypes: the operands of the innermost frame match ts from the
\* top; after an unreachable point those that are missing match anything.
Pops(ts) ==
    /\ \A k \in 1 .. Len(ts) : k <= Above =>
          op_stack[Len(op_stack) - k + 1] \in {"unknown", ts[Len(ts) - k + 1]}
    /\ Len(ts) > Above => innermost.dead
After(n) == First(op_stack, IF n > Above THEN innermost.height ELSE Len(op_stack) - n)

\* setUnreachable, on the frames cs.
Dead(cs) == [cs EXCEPT ![Len(cs)].dead = TRUE]
Cut == First(op_stack, innermost.height)

\* popCtrl: exactly the results are left.
PopsCtrl == Pops(innermost.end) /\ Above <= Len(innermost.end)
Outer == First(ctrl_stack, Len(ctrl_stack) - 1)

\* The next instruction, and what becomes of it.
DeadCode(i) == innermost.dead /\ i.op \notin {"end", "else"}
Reads(i, ops) ==
    /\ verdict = "reading" /\ ctrl_stack # <<>>
    /\ Len(body) + Len(ctrl_stack) <= MaxBody
    /\ i.op \in ops
    /\ DeadCode(i) => dead_read < MaxDead

Accepts(i, ops, cs, init) ==
    /\ body' = Append(body, i)
    /\ op_stack' = ops /\ ctrl_stack' = cs /\ local_init' = init
    /\ dead_read' = IF DeadCode(i) THEN dead_read + 1 ELSE dead_read
    /\ UNCHANGED <<verdict, exec>>

Rejects ==
    /\ verdict' = "rejected"
    /\ body' = <<>> /\ op_stack' = <<>> /\ ctrl_stack' = <<>> /\ local_init' = FALSE
    /\ dead_read' = 0 /\ UNCHANGED exec

Unless(ok, i, ops, cs, init) == IF ok THEN Accepts(i, ops, cs, init) ELSE Rejects

-----------------------------------------------------------------------------
\* validateOpcode.  The frame of a construct starts below its parameters.
validateBlock(i) ==
    /\ Reads(i, {"block", "loop"})
    /\ LET below == After(Len(i.from))
       IN  Unless(Pops(i.from), i, below \o i.from,
                  Append(ctrl_stack, Control(i.op, i.from, i.to, Len(below))), local_init)

validateIf(i) ==
    /\ Reads(i, {"if"})
    /\ LET below == After(Len(i.from) + 1)
       IN  Unless(Pops(Append(i.from, "i32")), i, below \o i.from,
                  Append(ctrl_stack, Control("if", i.from, i.to, Len(below))), local_init)

validateElse(i) ==
    /\ Reads(i, {"else"})
    /\ LET f == innermost
       IN  Unless(PopsCtrl /\ f.kind = "if", i, Cut \o f.start,
                  Append(Outer, [f EXCEPT !.kind = "else", !.dead = FALSE]), f.snapshot)

\* Mutant: what a construct has set counts as set after it.
validateEndKeepsInits(i) ==
    /\ Reads(i, {"end"})
    /\ LET f == innermost
       IN  Unless(PopsCtrl /\ ~(f.kind = "if" /\ f.end # <<>>), i, Cut \o f.end, Outer, local_init)

\* An if without else must have no results; its parameters are not looked at.
validateEnd(i) ==
    /\ Reads(i, {"end"})
    /\ LET f == innermost
       IN  Unless(PopsCtrl /\ ~(f.kind = "if" /\ f.end # <<>>), i, Cut \o f.end, Outer, f.snapshot)

Known(labels) == \A k \in DOMAIN labels : labels[k] < Len(ctrl_stack)

validateBr(i) ==
    /\ Reads(i, {"br"})
    /\ Unless(Known(i.labels) /\ Pops(labelTypes(Frame(i.labels[1]))), i, Cut,
              Dead(ctrl_stack), local_init)

validateBrIf(i) ==
    /\ Reads(i, {"br_if"})
    /\ IF ~Known(i.labels) THEN Rejects
       ELSE LET ts == labelTypes(Frame(i.labels[1]))
            IN  Unless(Pops(Append(ts, "i32")), i, After(Len(ts) + 1) \o ts, ctrl_stack, local_init)

\* All labels have the arity of the default, the last; its types are checked.
validateBrTable(i) ==
    /\ Reads(i, {"br_table"})
    /\ IF ~Known(i.labels) THEN Rejects
       ELSE LET ts == labelTypes(Frame(i.labels[Len(i.labels)]))
            IN  Unless(/\ \A k \in DOMAIN i.labels : Len(labelTypes(Frame(i.labels[k]))) = Len(ts)
                       /\ Pops(Append(ts, "i32")),
                       i, Cut, Dead(ctrl_stack), local_init)

validateReturn(i) ==
    /\ Reads(i, {"return"})
    /\ Unless(Pops(ctrl_stack[1].end), i, Cut, Dead(ctrl_stack), local_init)

validateUnreachable(i) ==
    /\ Reads(i, {"unreachable"})
    /\ Accepts(i, Cut, Dead(ctrl_stack), local_init)

\* call, and every instruction that pops and pushes fixed types.
validateCall(i) ==
    /\ Reads(i, {"call"})
    /\ Unless(Pops(i.from), i, After(Len(i.from)) \o i.to, ctrl_stack, local_init)

validateDrop(i) ==
    /\ Reads(i, {"drop"})
    /\ Unless(Above > 0 \/ innermost.dead, i, After(1), ctrl_stack, local_init)

\* The type of the k-th operand from the top, for select, which takes two of
\* one numeric type; an unknown one takes the type of the other.
TypeAt(k) == IF k <= Above THEN op_stack[Len(op_stack) - k + 1] ELSE "unknown"
validateSelect(i) ==
    /\ Reads(i, {"select"})
    /\ LET t1 == TypeAt(2)
           t2 == TypeAt(3)
           t == IF t1 = "unknown" THEN t2 ELSE t1
       IN  Unless(/\ Pops(<<"i32">>) /\ (Above >= 3 \/ innermost.dead)
                  /\ "unknown" \in {t1, t2} \/ (t1 = t2 /\ t1 # LocalType),
                  i, Append(After(3), t), ctrl_stack, local_init)

validateLocal(i) ==
    \/ /\ Reads(i, {"local.get"})
       /\ Unless(local_init, i, Append(op_stack, LocalType), ctrl_stack, local_init)
    \/ /\ Reads(i, {"local.set"})
       /\ Unless(Pops(<<LocalType>>), i, After(1), ctrl_stack, TRUE)

-----------------------------------------------------------------------------
\* The body is accepted; a caller executes it.
Accepted ==
    /\ verdict = "reading" /\ ctrl_stack = <<>>
    /\ verdict' = "running"
    /\ op_stack' = <<>> /\ local_init' = FALSE /\ dead_read' = 0
    /\ exec' = [AtRest EXCEPT !.pc = 1]
    /\ UNCHANGED <<body, ctrl_stack>>

\* Execution by the rules of WebAssembly, on types.  A label knows where its
\* construct's operands start, the types a branch to it carries, and where it
\* leads.
now == body[exec.pc]
Floor == IF exec.labels = <<>> THEN 0 ELSE exec.labels[Len(exec.labels)].height
Has(ts) ==
    /\ Len(exec.stack) >= Floor + Len(ts)
    /\ \A k \in DOMAIN ts : exec.stack[Len(exec.stack) - Len(ts) + k] = ts[k]
Without(n) == First(exec.stack, Len(exec.stack) - n)
Does(ops) == verdict = "running" /\ now.op \in ops

Goes(ok, e) ==
    /\ IF ok THEN exec' = e /\ UNCHANGED verdict
       ELSE verdict' = "stuck" /\ exec' = AtRest
    /\ UNCHANGED <<body, op_stack, ctrl_stack, local_init, dead_read>>
Finishes(ok) ==
    /\ verdict' = IF ok THEN "done" ELSE "stuck"
    /\ body' = IF ok THEN <<>> ELSE body
    /\ exec' = AtRest
    /\ UNCHANGED <<op_stack, ctrl_stack, local_init, dead_read>>

LabelAt(p, stack) ==
    LET i == body[p]
    IN  [height |-> Len(stack) - Len(i.from), at |-> p, results |-> i.to,
         carries |-> IF i.op = "loop" THEN i.from ELSE i.to,
         leads |-> IF i.op = "loop" THEN p ELSE EndOf(body, p) + 1]
Opening(stack, pc) ==
    [exec EXCEPT !.pc = pc, !.stack = stack, !.labels = Append(@, LabelAt(exec.pc, stack))]

RunBlock == Does({"block", "loop"}) /\ Goes(Has(now.from), Opening(exec.stack, exec.pc + 1))

RunIf ==
    /\ Does({"if"})
    /\ \E pc \in {exec.pc + 1} \cup (IF ElseOf(body, exec.pc) = {} THEN {EndOf(body, exec.pc)}
                                     ELSE {p + 1 : p \in ElseOf(body, exec.pc)}) :
          Goes(Has(Append(now.from, "i32")), Opening(Without(1), pc))

\* The end of the first alternative is the end of the construct.
RunElse ==
    /\ Does({"else"})
    /\ Goes(TRUE, [exec EXCEPT !.pc = EndOf(body, exec.labels[Len(exec.labels)].at)])

RunEnd ==
    /\ Does({"end"})
    /\ IF exec.labels = <<>> THEN Finishes(exec.stack = Results)
       ELSE LET l == exec.labels[Len(exec.labels)]
            IN  Goes(Has(l.results) /\ Len(exec.stack) = l.height + Len(l.results),
                     [exec EXCEPT !.pc = @ + 1, !.labels = First(@, Len(@) - 1)])

Branch(n, stack) ==
    LET at == Len(exec.labels) - n
        l == exec.labels[at]
        m == Len(stack)
        Carried(ts) == /\ m >= Floor + Len(ts)
                       /\ \A k \in DOMAIN ts : stack[m - Len(ts) + k] = ts[k]
    IN  IF at = 0 THEN Finishes(Carried(Results))
        ELSE Goes(Carried(l.carries),
                  [exec EXCEPT !.pc = l.leads, !.labels = First(@, at - 1),
                               !.stack = First(stack, l.height) \o l.carries])

RunBr == Does({"br"}) /\ Branch(now.labels[1], exec.stack)

RunBrIf ==
    /\ Does({"br_if"})
    /\ \/ ~Has(<<"i32">>) /\ Finishes(FALSE)
       \/ Has(<<"i32">>) /\ Branch(now.labels[1], Without(1))
       \/ Has(<<"i32">>) /\ Goes(TRUE, [exec EXCEPT !.pc = @ + 1, !.stack = Without(1)])

RunBrTable ==
    /\ Does({"br_table"})
    /\ \/ ~Has(<<"i32">>) /\ Finishes(FALSE)
       \/ \E k \in DOMAIN now.labels : Has(<<"i32">>) /\ Branch(now.labels[k], Without(1))

RunReturn == Does({"return"}) /\ Finishes(Has(Results))
RunUnreachable == Does({"unreachable"}) /\ Finishes(TRUE)

RunCall ==
    /\ Does({"call"})
    /\ Goes(Has(now.from), [exec EXCEPT !.pc = @ + 1, !.stack = Without(Len(now.from)) \o now.to])

RunDrop ==
    /\ Does({"drop"})
    /\ Goes(Len(exec.stack) > Floor, [exec EXCEPT !.pc = @ + 1, !.stack = Without(1)])

RunSelect ==
    /\ Does({"select"})
    /\ Goes(Has(<<"i32", "i32", "i32">>), [exec EXCEPT !.pc = @ + 1, !.stack = Without(2)])

RunLocal ==
    \/ Does({"local.get"}) /\ Goes(exec.init, [exec EXCEPT !.pc = @ + 1, !.stack = Append(@, LocalType)])
    \/ /\ Does({"local.set"})
       /\ Goes(Has(<<LocalType>>), [exec EXCEPT !.pc = @ + 1, !.stack = Without(1), !.init = TRUE])

ValidateNext ==
    \/ \E i \in Instrs :
          \/ validateBlock(i) \/ validateIf(i) \/ validateElse(i) \/ validateEnd(i)
          \/ validateBr(i) \/ validateBrIf(i) \/ validateBrTable(i) \/ validateReturn(i)
          \/ validateUnreachable(i) \/ validateCall(i) \/ validateDrop(i) \/ validateSelect(i)
          \/ validateLocal(i)
    \/ Accepted
    \/ RunBlock \/ RunIf \/ RunElse \/ RunEnd \/ RunBr \/ RunBrIf \/ RunBrTable \/ RunReturn
    \/ RunUnreachable \/ RunCall \/ RunDrop \/ RunSelect \/ RunLocal

ValidateSpec == ValidateInit /\ [][ValidateNext]_validateVars

-----------------------------------------------------------------------------
\* Heights never exceed the stack, and every position executed is one of the
\* body.
ValidateTypeOK ==
    /\ Len(body) <= MaxBody
    /\ \A k \in DOMAIN ctrl_stack : ctrl_stack[k].height <= Len(op_stack)
    /\ verdict \in {"reading", "rejected", "running", "done", "stuck"}
    /\ verdict = "running" => exec.pc \in DOMAIN body

\* Two constructs that the checker lets pass and WebAssembly does not: an if
\* with parameters and no else, and a br_table to labels of different types.
LabelTypesAt(p, n) ==
    LET around == {o \in 1 .. p - 1 : body[o].op \in Openers /\ p <= EndOf(body, o)}
        At == CHOOSE o \in around : Cardinality({q \in around : q >= o}) = n + 1
    IN  IF n = Cardinality(around) THEN Results
        ELSE IF body[At].op = "loop" THEN body[At].from ELSE body[At].to
KnownExceptions ==
    \E p \in DOMAIN body :
        \/ body[p].op = "if" /\ body[p].from # <<>> /\ ElseOf(body, p) = {}
        \/ /\ body[p].op = "br_table"
           /\ \E j, k \in DOMAIN body[p].labels :
                 LabelTypesAt(p, body[p].labels[j]) # LabelTypesAt(p, body[p].labels[k])

(* Soundness of the type checker: a body it accepts finds, on every path,   *)
(* the operands each instruction needs, of their types and above those of   *)
(* the enclosing construct, leaves exactly the results of each construct,   *)
(* and reads the local only when it is set (validateOpcode; docs/security   *)
(* relies on it for the pops of the interpreter, which check nothing).      *)
AcceptedIsSafe == verdict = "stuck" => KnownExceptions
=============================================================================
