------------------------------- MODULE VmCalls -------------------------------
(***************************************************************************)
(* Calls, branches, tail calls and exceptions in the virtual machine       *)
(* (src/src/vm.zig) and the stacks they share: operands, frames, labels.   *)
(*                                                                         *)
(* A function is entered through callFunction (by the embedder, by         *)
(* register IR and, through the trampoline, by compiled code), through     *)
(* doCallDirect (by bytecode) or through doCallDirectIR (by predecoded     *)
(* code).  The tiers "byte" and "ir" keep locals, operands and labels on   *)
(* the shared stacks; "reg" stands for register IR and compiled code,      *)
(* which keep them in registers of their own.  acts is the host's own      *)
(* stack of these calls; call_depth is its length.                         *)
(*                                                                         *)
(* Conditions are nondeterministic and take no operand; an indirect call   *)
(* is a call once its table lookup has succeeded.  Numeric instructions    *)
(* and host functions are left out.  An activation that finds another      *)
(* call's frame on top (possible once callFunction has left one behind) is *)
(* not followed further, nor is a branch beyond the labels of its own      *)
(* call (possible once a function has been restarted).                     *)
(***************************************************************************)
EXTENDS Integers, Sequences, FiniteSets, CodeStructure

CONSTANTS
    Funcs,         \* the functions: params, locals, results, code, which of
                   \* the forms reg and ir they have, and the values they
                   \* may yield by the semantics of WebAssembly
    MaxCallDepth,  \* MAX_CALL_DEPTH
    FrameSize,     \* FRAME_STACK_SIZE
    LabelSize,     \* LABEL_STACK_SIZE
    OpSize,        \* OPERAND_STACK_SIZE
    MaxExnref      \* MAX_EXNREF_STORE

ASSUME CallsAssumption ==
    /\ MaxCallDepth \in Nat \ {0} /\ FrameSize \in Nat /\ LabelSize \in Nat
    /\ OpSize \in Nat /\ MaxExnref \in Nat \ {0}

VARIABLES
    acts,      \* the calls in progress, innermost last
    op,        \* op_stack up to op_ptr
    frames,    \* frame_stack up to frame_ptr
    labels,    \* label_stack up to label_ptr
    exns,      \* exn_store
    pending,   \* pending_exception
    bt,        \* whose branch table is current_branch_table, 0 for none
    err,       \* the error that is being returned, "none" if none is
    forced,    \* force_interpreter
    wrong,     \* history: a value differed from what WebAssembly says
    leaked,    \* history: callFunction has returned to a caller and left a frame
    restarted  \* history: a branch out of a function went to its start

stackVars == <<op, frames, labels>>
ghostVars == <<wrong, leaked, restarted>>
callVars == <<acts, stackVars, exns, pending, bt, err, forced, ghostVars>>

CallsInit ==
    /\ acts = <<>> /\ op = <<>> /\ frames = <<>> /\ labels = <<>>
    /\ exns = <<>> /\ pending = <<>> /\ bt = 0 /\ err = "none" /\ forced = FALSE
    /\ wrong = FALSE /\ leaked = FALSE /\ restarted = FALSE

-----------------------------------------------------------------------------
top == acts[Len(acts)]
Callers == SubSeq(acts, 1, Len(acts) - 1)
code == Funcs[top.fn].code
instr == code[top.pc]
frame == frames[Len(frames)]
Prefix(s, n) == SubSeq(s, 1, n)
LastOf(s, n) == SubSeq(s, Len(s) - n + 1, Len(s))

OnStack(a) == a.tier # "reg"
Running == acts # <<>> /\ err = "none"
OnOwnFrame == Running /\ OnStack(top) /\ frame.act = Len(acts)
InRegisters == Running /\ ~OnStack(top)
AtEnd == top.pc > Len(code)
Executes(o) == (OnOwnFrame \/ InRegisters) /\ ~AtEnd /\ instr.op = o
Moved(pc) == [acts EXCEPT ![Len(acts)].pc = pc]
Stepped == Moved(top.pc + 1)

-----------------------------------------------------------------------------
\* The label of the function itself.  doCallDirectIR gives a bytecode callee
\* a label whose target is the reader at the start of the body.
FunctionLabel(how, tier, f, base) ==
    [arity |-> f.results, base |-> base, loop |-> FALSE, catches |-> <<>>,
     target |-> IF how = "doCallDirectIR" /\ tier = "byte" THEN 1 ELSE Len(f.code) + 1]

Activation(how, tier, fn, base, regs, saved) ==
    [how |-> how, tier |-> tier, fn |-> fn, pc |-> 1, base |-> base, regs |-> regs, saved |-> saved]

\* On top of the calls cs and the stacks o, fr and lb; the arguments are on o
\* already, b is the branch table so far.  Locals, the frame and the label of
\* the function are pushed; each may overflow, and what is pushed by then
\* stays.
EnterStack(cs, how, tier, fn, o, fr, lb, b) ==
    LET f == Funcs[fn]
        start == Len(o) - f.params
        o1 == o \o [k \in 1 .. f.locals |-> 0]
        fr1 == Append(fr, [start |-> start, label_base |-> Len(lb), arity |-> f.results,
                           act |-> Len(cs) + 1])
        why == IF Len(o1) > OpSize THEN "operands"
               ELSE IF Len(fr) >= FrameSize THEN "frames"
               ELSE IF Len(lb) >= LabelSize THEN "labels" ELSE "none"
    IN  /\ op' = IF why = "operands" THEN Prefix(o1, OpSize) ELSE o1
        /\ frames' = IF why \in {"operands", "frames"} THEN fr ELSE fr1
        /\ labels' = IF why = "none" THEN Append(lb, FunctionLabel(how, tier, f, Len(o1))) ELSE lb
        /\ acts' = IF why = "none" THEN Append(cs, Activation(how, tier, fn, start, <<>>, b)) ELSE cs
        /\ bt' = IF tier = "byte" /\ (why \in {"none", "labels"} \/ (how = "doCallDirect" /\ why = "frames"))
                 THEN fn ELSE b
        /\ err' = why

EnterReg(cs, how, fn, args, o, fr, lb, b) ==
    /\ acts' = Append(cs, Activation(how, "reg", fn, Len(o), args \o [k \in 1 .. Funcs[fn].locals |-> 0], b))
    /\ op' = o /\ frames' = fr /\ labels' = lb /\ bt' = b /\ err' = "none"

StackTier(fn) == IF Funcs[fn].ir THEN "ir" ELSE "byte"

\* callFunction: register IR or compiled code if there is any, else the stack.
callFunction(cs, fn, args, force, o, fr, lb, b) ==
    IF Funcs[fn].reg /\ ~force
    THEN EnterReg(cs, "callFunction", fn, args, o, fr, lb, b)
    ELSE EnterStack(cs, "callFunction", StackTier(fn), fn, o \o args, fr, lb, b)

\* doCallDirect always interprets the callee's bytecode.
doCallDirect(cs, fn, o, fr, lb, b) ==
    EnterStack(cs, "doCallDirect", "byte", fn, o, fr, lb, b)

\* doCallDirectIR runs compiled code if the callee is hot, else predecoded
\* code, else bytecode.
doCallDirectIR(cs, fn, o, fr, lb, b) ==
    \/ /\ Funcs[fn].reg /\ ~forced
       /\ LET n == Funcs[fn].params
          IN  EnterReg(cs, "doCallDirectIR", fn, LastOf(o, n), Prefix(o, Len(o) - n), fr, lb, b)
    \/ EnterStack(cs, "doCallDirectIR", StackTier(fn), fn, o, fr, lb, b)

\* invoke: the embedder calls; the machine is reset.
Invoke(fn, force) ==
    /\ acts = <<>>
    /\ callFunction(<<>>, fn, [k \in 1 .. Funcs[fn].params |-> k], force, <<>>, <<>>, <<>>, 0)
    /\ exns' = <<>> /\ pending' = <<>> /\ forced' = force
    /\ wrong' = FALSE /\ leaked' = FALSE /\ restarted' = FALSE

\* call, in each tier.
Call ==
    /\ Executes("call")
    /\ LET fn == instr.fn
           n == Funcs[fn].params
       IN  \/ /\ Len(acts) >= MaxCallDepth
              /\ err' = "depth" /\ UNCHANGED <<acts, stackVars, bt>>
           \/ /\ Len(acts) < MaxCallDepth /\ top.tier = "byte"
              /\ doCallDirect(Stepped, fn, op, frames, labels, bt)
           \/ /\ Len(acts) < MaxCallDepth /\ top.tier = "ir"
              /\ doCallDirectIR(Stepped, fn, op, frames, labels, bt)
           \/ /\ Len(acts) < MaxCallDepth /\ top.tier = "reg"
              /\ callFunction([Stepped EXCEPT ![Len(acts)].regs = Prefix(@, Len(@) - n)], fn,
                              LastOf(top.regs, n), forced, op, frames, labels, bt)
    /\ UNCHANGED <<exns, pending, forced, ghostVars>>

-----------------------------------------------------------------------------
\* Straight-line code.
Operands == IF OnStack(top) THEN op ELSE top.regs
SetOperands(s) ==
    IF OnStack(top) THEN op' = s /\ acts' = Stepped
    ELSE op' = op /\ acts' = [Stepped EXCEPT ![Len(acts)].regs = s]

Push(v) ==
    /\ IF OnStack(top) /\ Len(op) >= OpSize
       THEN err' = "operands" /\ UNCHANGED <<acts, op>>
       ELSE err' = "none" /\ SetOperands(Append(Operands, v))
    /\ UNCHANGED <<frames, labels, exns, pending, bt, forced, ghostVars>>

Const == Executes("const") /\ Push(instr.val)

\* local.get: locals are counted from the start of the frame.
LocalGet ==
    /\ Executes("local.get")
    /\ Push(IF OnStack(top) THEN op[frame.start + instr.n] ELSE top.regs[instr.n])

\* drop; the instruction carries the values that WebAssembly allows here.
Drop ==
    /\ Executes("drop")
    /\ LET s == Operands
       IN  SetOperands(Prefix(s, Len(s) - 1)) /\ wrong' = (wrong \/ s[Len(s)] \notin instr.vals)
    /\ UNCHANGED <<frames, labels, exns, pending, bt, err, forced, leaked, restarted>>

-----------------------------------------------------------------------------
\* Structured control on the label stack.
StackOnly == UNCHANGED <<exns, pending, bt, forced, ghostVars>>

\* Mutant: no limit.
pushLabelUnchecked(l, pc) ==
    labels' = Append(labels, l) /\ acts' = Moved(pc) /\ err' = "none"

pushLabel(l, pc) ==
    IF Len(labels) >= LabelSize
    THEN err' = "labels" /\ UNCHANGED <<acts, labels>>
    ELSE labels' = Append(labels, l) /\ acts' = Moved(pc) /\ err' = "none"

LabelOf(i) ==
    LET c == code[i]
        loop == c.op = "loop"
    IN  [arity |-> IF loop THEN c.params ELSE c.results,
         base |-> IF loop THEN Len(op) - c.params ELSE Len(op), loop |-> loop,
         catches |-> IF c.op = "try_table" THEN c.catches ELSE <<>>,
         target |-> IF loop THEN i + 1 ELSE EndOf(code, i) + 1]

Open ==
    /\ Executes("block") \/ Executes("loop") \/ Executes("try_table")
    /\ pushLabel(LabelOf(top.pc), top.pc + 1)
    /\ UNCHANGED <<op, frames>> /\ StackOnly

If ==
    /\ Executes("if")
    /\ LET others == ElseOf(code, top.pc)
       IN  \/ pushLabel(LabelOf(top.pc), top.pc + 1)
           \/ others # {} /\ \E j \in others : pushLabel(LabelOf(top.pc), j + 1)
           \/ others = {} /\ acts' = Moved(EndOf(code, top.pc) + 1) /\ UNCHANGED <<labels, err>>
    /\ UNCHANGED <<op, frames>> /\ StackOnly

Else ==
    /\ Executes("else")
    /\ acts' = Moved(labels[Len(labels)].target)
    /\ labels' = Prefix(labels, Len(labels) - 1)
    /\ UNCHANGED <<op, frames, err>> /\ StackOnly

LeavesFunction == OnStack(top) /\ ~AtEnd /\ instr.op = "end" /\ Len(labels) <= frame.label_base

End ==
    /\ Executes("end") /\ ~LeavesFunction
    /\ acts' = Stepped
    /\ labels' = IF OnStack(top) THEN Prefix(labels, Len(labels) - 1) ELSE labels
    /\ UNCHANGED <<op, frames, err>> /\ StackOnly

\* Mutant: a loop does not get its label back.
branchToForgetsLoop(depth) ==
    LET at == Len(labels) - depth
        l == labels[at]
    IN  /\ at > frame.label_base
        /\ op' = Prefix(op, l.base) \o LastOf(op, l.arity)
        /\ labels' = Prefix(labels, at - 1)
        /\ acts' = Moved(l.target)
        /\ restarted' = restarted

\* branchTo and branchToIR: the results of the label move down to its base;
\* a loop gets its label back.
branchTo(depth) ==
    LET at == Len(labels) - depth
        l == labels[at]
        o == Prefix(op, l.base) \o LastOf(op, l.arity)
    IN  /\ at > frame.label_base
        /\ op' = o
        /\ labels' = IF l.loop
                     THEN Append(Prefix(labels, at - 1), [l EXCEPT !.base = Len(o) - l.arity])
                     ELSE Prefix(labels, at - 1)
        /\ acts' = Moved(l.target)
        /\ restarted' = (restarted \/ (at = frame.label_base + 1 /\ l.target = 1))

Br ==
    /\ Executes("br") \/ Executes("br_if")
    /\ branchTo(instr.depth)
    /\ UNCHANGED <<frames, exns, pending, bt, err, forced, wrong, leaked>>

BrIfNot ==
    /\ Executes("br_if")
    /\ acts' = Stepped
    /\ UNCHANGED <<stackVars, err>> /\ StackOnly

-----------------------------------------------------------------------------
\* The results rs reach the caller, the last of cs, in registers or on o.
Deliver(cs, o, rs) ==
    LET n == Len(cs)
        pushed == IF n > 0 /\ OnStack(cs[n]) THEN o \o rs ELSE o
        full == Len(pushed) > OpSize
    IN  /\ acts' = IF n > 0 /\ ~OnStack(cs[n]) THEN [cs EXCEPT ![n].regs = @ \o rs] ELSE cs
        /\ op' = IF full THEN Prefix(pushed, OpSize) ELSE pushed
        /\ err' = IF full THEN "operands" ELSE "none"

\* popFrame, and the label stack and the branch table of the caller.
Unwound(o) ==
    /\ frames' = Prefix(frames, Len(frames) - 1)
    /\ labels' = Prefix(labels, frame.label_base)
    /\ bt' = top.saved
    /\ op' = o

\* The end of callFunction's stack path: the results are copied and the
\* operand stack is cut; the frame and its labels stay.
callFunctionReturn(rs) ==
    /\ Deliver(Callers, Prefix(op, top.base), rs)
    /\ leaked' = (leaked \/ Callers # <<>>)
    /\ UNCHANGED <<frames, labels, bt>>

\* Mutant: the results stay where they are above the locals.
doCallDirectReturnUnmoved(rs) ==
    /\ Unwound(Prefix(op, frame.start + Len(rs)))
    /\ acts' = Callers
    /\ UNCHANGED <<err, leaked>>

\* The end of doCallDirect and doCallDirectIR.
doCallDirectReturn(rs) ==
    /\ Unwound(Prefix(op, frame.start) \o rs)
    /\ acts' = Callers
    /\ UNCHANGED <<err, leaked>>

CheckResults(rs) == wrong' = (wrong \/ rs \notin Funcs[top.fn].yields)

Return ==
    /\ OnOwnFrame
    /\ ~AtEnd => instr.op = "return" \/ LeavesFunction
    /\ LET rs == LastOf(op, frame.arity)
       IN  /\ CheckResults(rs)
           /\ IF top.how = "callFunction" THEN callFunctionReturn(rs) ELSE doCallDirectReturn(rs)
    /\ UNCHANGED <<exns, pending, forced, restarted>>

ReturnFromRegisters ==
    /\ InRegisters /\ AtEnd
    /\ LET rs == LastOf(top.regs, Funcs[top.fn].results)
       IN  CheckResults(rs) /\ Deliver(Callers, op, rs)
    /\ UNCHANGED <<frames, labels, bt, exns, pending, forced, leaked, restarted>>

\* return_call, with the loop of the caller that picks it up.  callFunction
\* does not predecode the next function, so that it may run as bytecode.
ReturnCall ==
    /\ Executes("return_call")
    /\ LET fn == instr.fn
           o == Prefix(op, frame.start) \o LastOf(op, Funcs[fn].params)
           fr == Prefix(frames, Len(frames) - 1)
           lb == Prefix(labels, frame.label_base)
       IN  \/ /\ top.how = "callFunction"
              /\ \E tier \in {"byte", StackTier(fn)} :
                     EnterStack(Callers, "callFunction", tier, fn, o, fr, lb, bt)
           \/ top.how = "doCallDirect" /\ doCallDirect(Callers, fn, o, fr, lb, top.saved)
           \/ top.how = "doCallDirectIR" /\ doCallDirectIR(Callers, fn, o, fr, lb, top.saved)
    /\ UNCHANGED <<exns, pending, forced, ghostVars>>

-----------------------------------------------------------------------------
\* Exceptions, which only the bytecode interpreter knows.
\* storeExnref: the first slot is used again when the store is full.
storeExnref(x) ==
    IF Len(exns) >= MaxExnref THEN [store |-> [exns EXCEPT ![1] = x], ref |-> 1]
    ELSE [store |-> Append(exns, x), ref |-> Len(exns) + 1]

\* The clauses that match x below the call of frame fr, as pairs of the index
\* of a try_table's label and of a clause: the innermost label and its first
\* clause count.
Matches(x, fr, lb) ==
    {m \in UNION {{<<s, c>> : c \in DOMAIN lb[s].catches} : s \in fr.label_base + 1 .. Len(lb)} :
        LET clause == lb[m[1]].catches[m[2]]
        IN  /\ clause.kind \in {"catch", "catch_ref"} => clause.tag = x.tag
            /\ m[1] - 1 - clause.depth > fr.label_base}
FirstMatch(ms) ==
    CHOOSE m \in ms : \A k \in ms : m[1] > k[1] \/ (m[1] = k[1] /\ m[2] <= k[2])

\* handleException: the topmost call catches x, on the stacks o, fr and lb, or
\* x goes to the caller.  It pushes the payload and the reference without a
\* check of its own: past the end of the array the build's bounds check ends
\* the process (ReleaseSafe; a build without such checks is not modelled).
handleException(x, cs, o, fr, lb) ==
    LET n == Len(cs)
        ms == IF n > 0 /\ cs[n].tier = "byte" THEN Matches(x, fr[Len(fr)], lb) ELSE {}
        m == FirstMatch(ms)
        clause == lb[m[1]].catches[m[2]]
        at == m[1] - 1 - clause.depth
        target == lb[at]
        stored == storeExnref(x)
        payload == IF clause.kind \in {"catch", "catch_ref"} THEN x.vals ELSE <<>>
        takesRef == clause.kind \in {"catch_ref", "catch_all_ref"}
        caught == Prefix(o, target.base) \o payload \o (IF takesRef THEN <<stored.ref>> ELSE <<>>)
    IN  IF ms = {}
        THEN /\ err' = "exception" /\ pending' = <<x>>
             /\ acts' = cs /\ op' = o /\ labels' = lb /\ UNCHANGED <<exns, restarted>>
        ELSE IF Len(caught) > OpSize
        THEN /\ err' = "panic" /\ pending' = <<>>
             /\ acts' = cs /\ op' = Prefix(caught, OpSize) /\ labels' = lb
             /\ UNCHANGED <<exns, restarted>>
        ELSE /\ err' = "none" /\ pending' = <<>>
             /\ acts' = [cs EXCEPT ![n].pc = target.target]
             /\ op' = caught
             /\ exns' = IF takesRef THEN stored.store ELSE exns
             /\ labels' = Prefix(lb, IF target.loop THEN at ELSE at - 1)
             /\ restarted' = (restarted \/ (at = fr[Len(fr)].label_base + 1 /\ target.target = 1))

Throw ==
    /\ Executes("throw")
    /\ handleException([tag |-> instr.tag, vals |-> LastOf(op, instr.n)], acts,
                       Prefix(op, Len(op) - instr.n), frames, labels)
    /\ UNCHANGED <<frames, bt, forced, wrong, leaked>>

\* throw_ref of a null reference or of one that is not in the store traps.
ThrowRef ==
    /\ Executes("throw_ref")
    /\ LET ref == op[Len(op)]
           o == Prefix(op, Len(op) - 1)
       IN  \/ /\ ref \in DOMAIN exns
              /\ handleException(exns[ref], acts, o, frames, labels)
           \/ /\ ref \notin DOMAIN exns
              /\ err' = "trap" /\ op' = o /\ UNCHANGED <<acts, labels, exns, pending, restarted>>
    /\ UNCHANGED <<frames, bt, forced, wrong, leaked>>

\* unreachable, in every tier.
Trap ==
    /\ Executes("unreachable")
    /\ err' = "trap"
    /\ UNCHANGED <<acts, stackVars>> /\ StackOnly

-----------------------------------------------------------------------------
\* An error leaves the topmost call; a panic ends the process.
Failing == err \notin {"none", "panic"}

\* callFunction and the register tiers restore nothing; doCallDirect and
\* doCallDirectIR unwind, and a bytecode caller may catch an exception.
UnwindNothing ==
    /\ acts # <<>> /\ Failing
    /\ top.how = "callFunction" \/ ~OnStack(top)
    /\ acts' = Callers
    /\ UNCHANGED <<stackVars, exns, pending, bt, err, forced, ghostVars>>

\* Mutant: the branch table of the failed call stays.
UnwindCallKeepsTable ==
    /\ acts # <<>> /\ Failing
    /\ top.how # "callFunction" /\ OnStack(top)
    /\ frames' = Prefix(frames, Len(frames) - 1) /\ bt' = bt
    /\ LET o == Prefix(op, frame.start)
           lb == Prefix(labels, frame.label_base)
       IN  IF err = "exception" THEN handleException(pending[1], Callers, o, frames', lb)
           ELSE /\ acts' = Callers /\ op' = o /\ labels' = lb
                /\ UNCHANGED <<exns, pending, err, restarted>>
    /\ UNCHANGED <<forced, wrong, leaked>>

UnwindCall ==
    /\ acts # <<>> /\ Failing
    /\ top.how # "callFunction" /\ OnStack(top)
    /\ frames' = Prefix(frames, Len(frames) - 1) /\ bt' = top.saved
    /\ LET o == Prefix(op, frame.start)
           lb == Prefix(labels, frame.label_base)
       IN  IF err = "exception" THEN handleException(pending[1], Callers, o, frames', lb)
           ELSE /\ acts' = Callers /\ op' = o /\ labels' = lb
                /\ UNCHANGED <<exns, pending, err, restarted>>
    /\ UNCHANGED <<forced, wrong, leaked>>

CallsNext ==
    \/ \E fn \in DOMAIN Funcs, force \in BOOLEAN : Invoke(fn, force)
    \/ Call \/ Const \/ LocalGet \/ Drop \/ Open \/ If \/ Else \/ End \/ Br \/ BrIfNot
    \/ Return \/ ReturnFromRegisters \/ ReturnCall \/ Throw \/ ThrowRef \/ Trap
    \/ UnwindNothing \/ UnwindCall

CallsSpec == CallsInit /\ [][CallsNext]_callVars

-----------------------------------------------------------------------------
\* What validation knows of the code c of a function with results r: the
\* constructs around position i, outermost first, and the number of operands
\* the function has pushed when it is about to execute i.
Around(c, i) == {o \in 1 .. i - 1 : c[o].op \in Openers /\ i <= EndOf(c, o)}
Opener(c, i) == CHOOSE o \in Around(c, i) : \A k \in Around(c, i) : k <= o
Effect(c) ==
    CASE c.op \in {"const", "local.get"} -> 1
      [] c.op = "drop" -> -1
      [] c.op = "call" -> Funcs[c.fn].results - Funcs[c.fn].params
      [] OTHER -> 0
Height(c, r) ==
    LET h[i \in 1 .. Len(c) + 1] ==
            IF i = 1 THEN 0
            ELSE IF i = Len(c) + 1 THEN r
            ELSE CASE c[i - 1].op = "end" -> LET o == Opener(c, i - 1) IN h[o] - c[o].params + c[o].results
                   [] c[i - 1].op = "else" -> h[Opener(c, i - 1)]
                   [] OTHER -> h[i - 1] + Effect(c[i - 1])
    IN  h

\* The number of a call's cells below its operands.
Fixed(f) == f.params + f.locals

\* The positions that can be executed: what follows an instruction that never
\* goes on is not, up to the end or the else of its construct.
Stops == {"br", "return", "return_call", "throw", "throw_ref", "unreachable"}
Unreached(c, i) ==
    \E k \in 1 .. i - 1 :
        /\ c[k].op \in Stops /\ Around(c, k) \subseteq Around(c, i)
        /\ \A j \in k + 1 .. i - 1 : c[j].op = "else" => Around(c, j) # Around(c, k)
Live(c) == {i \in 1 .. Len(c) : ~Unreached(c, i)}

\* Control that gets to position i of f, inside the constructs A and with n
\* operands, finds what f was checked for.
HeightAt(f, i) == Height(f.code, f.results)[i]
Meets(f, i, A, n) == i \in Live(f.code) /\ Around(f.code, i) = A /\ HeightAt(f, i) = n

\* Of the construct at o: the operands below it, those a branch to it carries,
\* and what such a branch meets, from inside the constructs A.
Below(f, o) == HeightAt(f, o) - (IF f.code[o].op = "loop" THEN f.code[o].params ELSE 0)
Carried(f, o) == IF f.code[o].op = "loop" THEN f.code[o].params ELSE f.code[o].results
Arrives(f, A, o) ==
    LET n == Below(f, o) + Carried(f, o)
    IN  IF f.code[o].op = "loop" THEN Meets(f, o + 1, {k \in A : k <= o}, n)
        ELSE Meets(f, EndOf(f.code, o) + 1, {k \in A : k < o}, n)

\* The construct that a branch to depth d names is the one of this rank.
Rank(A, o) == Cardinality({k \in A : k <= o})

\* A branch, with n operands there, and a catch clause that receives n leave
\* the function or arrive at a construct with the operands it wants.
Branches(f, A, d, n) ==
    \/ d = Cardinality(A) /\ n >= f.results
    \/ \E o \in A : Rank(A, o) = Cardinality(A) - d /\ Arrives(f, A, o) /\ n >= Below(f, o) + Carried(f, o)
Catches(f, A, d, n) ==
    \/ d = Cardinality(A) /\ n = f.results
    \/ \E o \in A : Rank(A, o) = Cardinality(A) - d /\ Arrives(f, A, o) /\ n = Carried(f, o)

\* How many operands a clause may receive with what is thrown anywhere.
Throws ==
    {x \in UNION {{Funcs[g].code[j] : j \in 1 .. Len(Funcs[g].code)} : g \in DOMAIN Funcs} : x.op = "throw"}
Received(clause) ==
    LET ref == IF clause.kind \in {"catch_ref", "catch_all_ref"} THEN 1 ELSE 0
    IN  IF clause.kind \in {"catch", "catch_ref"} THEN {x.n + ref : x \in {y \in Throws : y.tag = clause.tag}}
        ELSE {ref}

Consumes(x) ==
    CASE x.op \in {"drop", "throw_ref"} -> 1
      [] x.op \in {"call", "return_call"} -> Funcs[x.fn].params
      [] x.op = "throw" -> x.n
      [] OTHER -> 0

\* What validation has established of the instruction at i.  It does not
\* establish it of a branch to a block, if or try_table with parameters, whose
\* label the interpreter bases above them (LabelOf).
ValidAt(f, i) ==
    LET c == f.code
        x == c[i]
        A == Around(c, i)
        n == HeightAt(f, i)
    IN  /\ n \in Nat /\ Consumes(x) \in 0 .. n
        /\ \A o \in A : o \in Live(c) /\ Around(c, o) = {k \in A : k < o} /\ Below(f, o) <= n - Consumes(x)
        /\ x.op \in {"const", "local.get", "drop", "call", "br_if"} => Meets(f, i + 1, A, n + Effect(x))
        /\ x.op \in {"call", "return_call"} => x.fn \in DOMAIN Funcs
        /\ x.op = "return_call" => Funcs[x.fn].results = f.results
        /\ x.op = "return" => n >= f.results
        /\ x.op \in {"br", "br_if"} => x.depth \in Nat /\ Branches(f, A, x.depth, n)
        /\ x.op \in Openers =>
              /\ x.params \in 0 .. n /\ x.results \in Nat /\ Meets(f, i + 1, A \cup {i}, n)
        /\ x.op = "if" =>
              /\ \A j \in ElseOf(c, i) : Meets(f, j + 1, A \cup {i}, n)
              /\ ElseOf(c, i) = {} => Meets(f, EndOf(c, i) + 1, A, n)
        /\ x.op = "try_table" =>
              \A k \in DOMAIN x.catches :
                  LET clause == x.catches[k]
                  IN  k \in Nat /\ clause.depth \in Nat /\ \A m \in Received(clause) : Catches(f, A, clause.depth, m)
        /\ x.op = "else" =>
              \E o \in A : /\ \A k \in A : k <= o
                           /\ c[o].op # "loop"
                           /\ Meets(f, EndOf(c, o) + 1, A \ {o}, n)
        /\ x.op = "end" =>
              IF i = Len(c) THEN A = {} /\ n = f.results
              ELSE \E o \in A : (\A k \in A : k <= o) /\ Meets(f, i + 1, A \ {o}, n)

\* A function that validation has accepted.  The model's code in registers is
\* without control instructions.
Valid(f) ==
    /\ f.params \in Nat /\ f.locals \in Nat /\ f.results \in Nat /\ Len(f.code) \in Nat \ {0}
    /\ Meets(f, 1, {}, 0) /\ \A i \in Live(f.code) : ValidAt(f, i)
    /\ Around(f.code, Len(f.code) + 1) = {} /\ HeightAt(f, Len(f.code) + 1) = f.results
    /\ f.reg => \A i \in 1 .. Len(f.code) :
                   f.code[i].op \in {"const", "local.get", "drop", "call", "end", "unreachable"}

ASSUME ValidAssumption == \A fn \in DOMAIN Funcs : Valid(Funcs[fn])

\* The stacks are sequences of at most the sizes of the code, and each call
\* in progress executes a position of its function.  That handleException
\* stays inside op_stack is the doing of the bounds check ("panic"), not of
\* the machine, which checks only its other pushes.
CallsTypeOK ==
    /\ Len(op) <= OpSize /\ Len(frames) <= FrameSize /\ Len(labels) <= LabelSize
    /\ Len(exns) <= MaxExnref /\ Len(acts) <= MaxCallDepth
    /\ \A k \in DOMAIN acts : /\ acts[k].fn \in DOMAIN Funcs
                              /\ acts[k].pc \in 1 .. Len(Funcs[acts[k].fn].code) + 1
    /\ err \in {"none", "operands", "frames", "labels", "depth", "exception", "trap", "panic"}
    /\ (err = "exception") = (pending # <<>>)

\* Whatever sequence of calls, tail calls, branches and caught exceptions has
\* led here, the interpreter (execute, executeIR) finds the stacks as
\* validation promised: the top frame is that of the running call, there is
\* one label for each construct around the instruction, with the target and
\* the base it had when it was opened, and the operands have the height of
\* the code.  Only a frame that callFunction has left behind and a restarted
\* function are exceptions.
StacksMatchCode ==
    Running /\ OnStack(top) /\ ~leaked /\ ~restarted =>
        LET around == Around(code, top.pc)
            f == Funcs[top.fn]
            h == Height(code, f.results)
            bottom == frame.start + Fixed(f)
            LabelFor(o) == labels[frame.label_base + 1 + Cardinality({k \in around : k <= o})]
        IN  /\ frame.act = Len(acts) /\ frame.start = top.base
            /\ Len(op) = bottom + h[top.pc]
            /\ Len(labels) = frame.label_base + Cardinality(around) + (IF AtEnd THEN 0 ELSE 1)
            /\ \A o \in around :
                   LET loop == code[o].op = "loop"
                   IN  /\ LabelFor(o).base = bottom + h[o] - (IF loop THEN code[o].params ELSE 0)
                       /\ LabelFor(o).target = IF loop THEN o + 1 ELSE EndOf(code, o) + 1

\* A function gets from the stacks exactly the values that WebAssembly gives
\* it: locals, arguments, results, the operands left of a branch, of a call
\* and of a caught exception, and the payload of the exception.
ValuesAreRight == wrong => leaked \/ restarted

\* The interpreter of bytecode looks up the ends of blocks in the table of
\* the function it executes, also after a call has returned or failed.
BranchTableIsOwn == Running /\ top.tier = "byte" => bt = top.fn

\* A call fails for want of a frame only when the calls in progress are as
\* many as the documented depth.
OverflowIsDepth == err = "frames" => Len(acts) >= MaxCallDepth
=============================================================================
