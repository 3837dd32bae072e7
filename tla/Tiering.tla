------------------------------ MODULE Tiering ------------------------------
(***************************************************************************)
(* How one WebAssembly function moves between zwasm's tiers (vm.zig): the  *)
(* stack interpreter, the register interpreter (executeRegIR) and machine  *)
(* code (executeJIT).  A function is compiled when it has been called      *)
(* HOT_THRESHOLD times, or when one activation has taken                   *)
(* BACK_EDGE_THRESHOLD back-edges.  In the second case the running         *)
(* activation is abandoned with error.JitRestart and continued in machine  *)
(* code: at the loop (executeJITOsr) if the code before the loop must not  *)
(* be repeated, otherwise from the first instruction with the original     *)
(* arguments.                                                              *)
(*                                                                         *)
(* All tiers execute the same instructions; what is modelled is which tier *)
(* an activation runs in, where it enters, and which instructions it has   *)
(* executed.  The activations of a recursive function share one            *)
(* WasmFunction record, wf, but each keeps its own copy of jit_eligible.   *)
(***************************************************************************)
EXTENDS Integers, Sequences

CONSTANTS
    Programs,            \* the functions under test, see Program
    HotThreshold,        \* jit.zig HOT_THRESHOLD
    BackEdgeThreshold,   \* jit.zig BACK_EDGE_THRESHOLD
    MaxJitInstrs,        \* jit.zig MAX_JIT_IR_INSTRS
    GuardWindow,         \* how many instructions hasReentryGuard looks at
    MaxJitParams,        \* doCallDirectIR's arg_buf
    MaxCallDepth,        \* vm.zig MAX_CALL_DEPTH
    RegStackSize,        \* vm.zig REG_STACK_SIZE
    JitSlots,            \* slots executeJIT reserves beyond the registers
    MaxCalls,            \* bound: invocations by the embedder
    MaxArg               \* bound: depth of the recursion a call asks for

ASSUME ThresholdAssumption ==
    /\ HotThreshold \in Nat \ {0}
    /\ BackEdgeThreshold \in Nat \ {0}
    /\ GuardWindow \in Nat /\ RegStackSize \in Nat /\ JitSlots \in Nat
    /\ MaxCalls \in Nat /\ MaxArg \in Nat

-----------------------------------------------------------------------------
(* Functions as the tiers see them *)

(***************************************************************************)
(* What tells instructions apart here.  "store" is any instruction whose   *)
(* repetition can be observed (stores, atomics, memory.grow), "call" a     *)
(* call of a host function, "self" a recursive call made while the         *)
(* argument is positive, "guard" the load, test and branch to unreachable  *)
(* followed by the store that sets the flag, "unguard" the store that      *)
(* clears it, "br" and "br_table" a branch to `to` that is taken n times   *)
(* before it falls through.                                                *)
(***************************************************************************)
EffectOps == {"store", "call", "global.set"}
CallOps == {"call", "self"}
BranchOps == {"br", "br_table"}
Ops == EffectOps \cup CallOps \cup BranchOps \cup {"nop", "guard", "unguard"}

Instr == [op: Ops, to: Nat, n: Nat]

\* A function: its register code, whether its signature has a v128, whether
\* regalloc.convert accepts it, its parameters and its registers.
Program == [code: Seq(Instr), v128: BOOLEAN, converts: BOOLEAN,
            params: Nat, reg_count: Nat]

\* A branch leads to an instruction, or behind the last one.
ASSUME ProgramAssumption ==
    \A p \in Programs :
        /\ p \in Program
        /\ \A i \in DOMAIN p.code :
              p.code[i].op \in BranchOps => p.code[i].to \in 1 .. Len(p.code) + 1

VARIABLES
    prog,         \* the function under test
    wf,           \* its store.zig WasmFunction
    activations,  \* its activations, the innermost last
    mode,         \* "normal", "profile" or "forced" (force_interpreter)
    entered,      \* the flag in linear memory that a reentry guard tests
    calls         \* invocations so far

tierVars == <<prog, wf, activations, mode, entered, calls>>

Modes == {"normal", "profile", "forced"}
ExecTiers == {"stack", "regir", "jit"}

\* jit: jit_code is not null; osr: the pc of its osr_entry, 0 for null.
WasmFunction == [reg_ir: {"none", "ok", "failed"}, jit: BOOLEAN, osr: Nat,
                 jit_failed: BOOLEAN, back_edge_bailed: BOOLEAN,
                 call_count: Nat]

\* left, the remaining trips of each branch, stands for the locals; effects
\* and passed record what this activation did and outlive a restart.
TierActivation == [tier: ExecTiers, pc: Nat, left: Seq(Nat), edges: Nat,
               jit_eligible: BOOLEAN, base: Nat, arg: Nat, effects: Nat,
               passed: BOOLEAN]

Locals == [i \in 1 .. Len(prog.code) |-> prog.code[i].n]

-----------------------------------------------------------------------------
(* Choosing a tier *)

TierInit ==
    /\ prog \in Programs
    /\ wf = [reg_ir |-> "none", jit |-> FALSE, osr |-> 0, jit_failed |-> FALSE,
             back_edge_bailed |-> FALSE, call_count |-> 0]
    /\ activations = << >>
    /\ mode = "normal"
    /\ entered = FALSE
    /\ calls = 0

\* Lazy predecoding and conversion to register code.
Converted(w) ==
    IF w.reg_ir # "none" THEN w
    ELSE [w EXCEPT !.reg_ir = IF prog.converts THEN "ok" ELSE "failed"]

TooBig == Len(prog.code) > MaxJitInstrs

\* Mutant: a failure is not remembered.
compileFunctionForgetful(w, osr) ==
    {[w EXCEPT !.jit = TRUE, !.osr = osr], [w EXCEPT !.jit = FALSE, !.osr = 0]}

\* compileFunction gives code, with an OSR entry at osr unless osr is 0, or
\* null: an unsupported instruction, or no memory for the code.
compileFunction(w, osr) ==
    {[w EXCEPT !.jit = TRUE, !.osr = osr],
     [w EXCEPT !.jit = FALSE, !.osr = 0, !.jit_failed = TRUE]}

\* The hot-function test at a call.
Counted(w) ==
    LET c == [w EXCEPT !.call_count = @ + 1]
    IN  IF w.jit \/ w.jit_failed THEN {w}
        ELSE IF c.call_count < HotThreshold THEN {c}
        ELSE IF TooBig THEN {[c EXCEPT !.jit_failed = TRUE]}
        ELSE compileFunction(c, 0)

\* Machine code is used when there is some, not when profiling, and not when
\* the interpreter is asked for.
Native(w, m) == w.jit /\ m = "normal"

RegsNeeded(tier) ==
    CASE tier = "stack" -> 0
      [] tier = "regir" -> prog.reg_count
      [] tier = "jit"   -> prog.reg_count + JitSlots

Innermost == activations[Len(activations)]
Callers == SubSeq(activations, 1, Len(activations) - 1)
SetTop(a) == Append(Callers, a)

RegPtr(frames) ==
    IF frames = << >> THEN 0
    ELSE LET a == frames[Len(frames)] IN a.base + RegsNeeded(a.tier)

\* An error leaves every activation.
UnwindAll == activations' = << >>

\* executeIR, executeRegIR or executeJIT from the first instruction; each of
\* the last two traps when its registers do not fit.
Execute(tier, frames, w, m, arg) ==
    /\ wf' = w
    /\ IF RegPtr(frames) + RegsNeeded(tier) > RegStackSize
       THEN UnwindAll
       ELSE activations' = Append(frames,
              [tier |-> tier, pc |-> 1, left |-> Locals, edges |-> 0,
               jit_eligible |-> /\ tier = "regir"
                                /\ m = "normal"
                                /\ ~w.jit
                                /\ ~w.jit_failed
                                /\ ~w.back_edge_bailed,
               base |-> RegPtr(frames), arg |-> arg, effects |-> 0,
               passed |-> FALSE])

TooDeep(frames) == Len(frames) >= MaxCallDepth

\* Calls by the embedder and from register code.
callFunction(frames, m, arg) ==
    \/ /\ TooDeep(frames)
       /\ UnwindAll
       /\ UNCHANGED wf
    \/ /\ ~TooDeep(frames)
       /\ LET w == IF prog.v128 THEN wf ELSE Converted(wf)
          IN  IF prog.v128 \/ m = "forced" \/ w.reg_ir # "ok"
              THEN Execute("stack", frames, w, m, arg)
              ELSE \E c \in IF m = "normal" THEN Counted(w) ELSE {w} :
                     Execute(IF Native(c, m) THEN "jit" ELSE "regir",
                             frames, c, m, arg)

\* Calls from the stack interpreter, which never enter register code.
doCallDirectIR(frames, m, arg) ==
    \/ /\ TooDeep(frames)
       /\ UnwindAll
       /\ UNCHANGED wf
    \/ /\ ~TooDeep(frames)
       /\ LET w == Converted(wf)
          IN  \E c \in IF w.reg_ir = "ok" /\ m = "normal" THEN Counted(w) ELSE {w} :
                Execute(IF /\ w.reg_ir = "ok" /\ Native(c, m)
                           /\ prog.params <= MaxJitParams
                        THEN "jit" ELSE "stack",
                        frames, c, m, arg)

\* A recursive call in machine code branches to its own entry.
jitSelfCall(frames, m, arg) ==
    \/ TooDeep(frames) /\ UnwindAll /\ UNCHANGED wf
    \/ ~TooDeep(frames) /\ Execute("jit", frames, wf, m, arg)

-----------------------------------------------------------------------------
(* Hot loops *)

Before(pc) == 1 .. IF pc <= Len(prog.code) THEN pc - 1 ELSE Len(prog.code)

\* Mutant: calls are not side effects.
hasPrologueSideEffectsGlobals(header) ==
    \E i \in Before(header) : prog.code[i].op = "global.set"

hasPrologueSideEffects(header) ==
    \E i \in Before(header) : prog.code[i].op \in CallOps \cup {"global.set"}

hasBrTableInPrologue(header) ==
    \E i \in Before(header + 1) : prog.code[i].op = "br_table"

\* Mutant: the last instruction of the window is not looked at.
hasReentryGuardShort ==
    \E i \in Before(GuardWindow) : prog.code[i].op = "guard"

hasReentryGuard ==
    \E i \in Before(GuardWindow + 1) : prog.code[i].op = "guard"

\* Mutant: the restart goes back to register code.
RestartedInterp(a) == SetTop([a EXCEPT !.pc = 1, !.left = Locals, !.edges = 0])

\* callFunction's handling of error.JitRestart: the activation goes on in
\* machine code, in the same register frame, which grows by JitSlots.
Restarted(a) ==
    IF a.base + RegsNeeded("jit") > RegStackSize THEN << >>
    ELSE IF wf'.osr # 0 THEN SetTop([a EXCEPT !.tier = "jit", !.pc = wf'.osr])
    ELSE SetTop([a EXCEPT !.tier = "jit", !.pc = 1, !.left = Locals])

\* The back-edge that reaches the threshold, with a the activation after it.
HotLoop(a) ==
    \/ /\ TooBig
       /\ wf' = [wf EXCEPT !.jit_failed = TRUE]
       /\ activations' = SetTop(a)
    \/ /\ ~TooBig
       /\ hasReentryGuard \/ hasBrTableInPrologue(a.pc)
       /\ wf' = [wf EXCEPT !.back_edge_bailed = TRUE]
       /\ activations' = SetTop(a)
    \/ /\ ~TooBig
       /\ ~(hasReentryGuard \/ hasBrTableInPrologue(a.pc))
       /\ wf' \in compileFunction(wf, IF hasPrologueSideEffects(a.pc) THEN a.pc ELSE 0)
       /\ activations' = IF wf'.jit THEN Restarted(a) ELSE SetTop(a)

checkBackEdgeJit(a) ==
    LET b == [a EXCEPT !.edges = @ + 1]
    IN  IF b.edges = BackEdgeThreshold
        THEN HotLoop(b)
        ELSE activations' = SetTop(b) /\ UNCHANGED wf

-----------------------------------------------------------------------------
(* Execution *)

InvokeFunction ==
    /\ activations = << >>
    /\ calls < MaxCalls
    /\ calls' = calls + 1
    /\ mode' \in Modes
    /\ \E arg \in 0 .. MaxArg : callFunction(<< >>, mode', arg)
    /\ UNCHANGED <<prog, entered>>

\* The innermost activation is about to execute an instruction of ops.
At(ops) ==
    /\ activations # << >>
    /\ Innermost.pc <= Len(prog.code)
    /\ prog.code[Innermost.pc].op \in ops

Stepped(a) == [a EXCEPT !.pc = @ + 1]

Plain ==
    /\ At({"nop", "unguard"} \cup EffectOps)
    /\ LET op == prog.code[Innermost.pc].op
       IN  /\ activations' = SetTop([Stepped(Innermost) EXCEPT
                          !.effects = IF op \in EffectOps THEN @ + 1 ELSE @])
           /\ entered' = (entered /\ op # "unguard")
    /\ UNCHANGED <<prog, wf, mode, calls>>

Guard ==
    /\ At({"guard"})
    /\ IF entered THEN UnwindAll
       ELSE activations' = SetTop([Stepped(Innermost) EXCEPT !.passed = TRUE])
    /\ entered' = TRUE
    /\ UNCHANGED <<prog, wf, mode, calls>>

\* a after its branch: taken while trips are left, else rearmed and passed.
Branched(a) ==
    IF a.left[a.pc] > 0
    THEN [a EXCEPT !.left[a.pc] = @ - 1, !.pc = prog.code[a.pc].to]
    ELSE [a EXCEPT !.left[a.pc] = prog.code[a.pc].n, !.pc = @ + 1]

Branch ==
    /\ At(BranchOps)
    /\ LET a == Branched(Innermost)
       IN  IF Innermost.jit_eligible /\ Innermost.tier = "regir" /\ a.pc <= Innermost.pc
           THEN checkBackEdgeJit(a)
           ELSE activations' = SetTop(a) /\ UNCHANGED wf
    /\ UNCHANGED <<prog, mode, entered, calls>>

SelfCall ==
    /\ At({"self"})
    /\ IF Innermost.arg = 0
       THEN activations' = SetTop(Stepped(Innermost)) /\ UNCHANGED wf
       ELSE LET frames == SetTop([Stepped(Innermost) EXCEPT !.effects = @ + 1])
            IN  CASE Innermost.tier = "stack" -> doCallDirectIR(frames, mode, Innermost.arg - 1)
                  [] Innermost.tier = "regir" -> callFunction(frames, mode, Innermost.arg - 1)
                  [] Innermost.tier = "jit"   -> jitSelfCall(frames, mode, Innermost.arg - 1)
    /\ UNCHANGED <<prog, mode, entered, calls>>

AtEnd == activations # << >> /\ Innermost.pc > Len(prog.code)

ReturnToCaller ==
    /\ AtEnd
    /\ activations' = Callers
    /\ UNCHANGED <<prog, wf, mode, entered, calls>>

TierNext == InvokeFunction \/ Plain \/ Guard \/ Branch \/ SelfCall \/ ReturnToCaller

\* The thread that runs the function keeps running it.
TierFairness == WF_tierVars(Plain \/ Guard \/ Branch \/ SelfCall \/ ReturnToCaller)

TierSpec == TierInit /\ [][TierNext]_tierVars /\ TierFairness

-----------------------------------------------------------------------------
(* Reference: the effects of one activation, executed without tiers *)

Machine == [pc: 1 .. Len(prog.code) + 1, left: [1 .. Len(prog.code) -> Nat]]

RefStep(s) ==
    IF prog.code[s.pc].op \in BranchOps THEN Branched(s) ELSE Stepped(s)

HasEffect(op, arg) == op \in EffectOps \/ (op = "self" /\ arg > 0)

\* The effects of an activation called with arg from a state on, and all of
\* them: what the instructions do from the first to the end, with no change
\* of tier.
EffectsFrom(arg) ==
    LET From[s \in Machine] ==
          IF s.pc > Len(prog.code) THEN 0
          ELSE From[RefStep(s)]
               + IF HasEffect(prog.code[s.pc].op, arg) THEN 1 ELSE 0
    IN  From
RefEffects(arg) == EffectsFrom(arg)[[pc |-> 1, left |-> Locals]]

BackEdges == {i \in 1 .. Len(prog.code) :
                prog.code[i].op \in BranchOps /\ prog.code[i].to <= i}
Effects == {i \in 1 .. Len(prog.code) : prog.code[i].op \in EffectOps \cup {"self"}}

GuardedEarly == \E i \in 1 .. Len(prog.code) :
                  i <= GuardWindow /\ prog.code[i].op = "guard"

\* A restart from the first instruction repeats nothing: the tests of
\* checkBackEdgeJit exclude it, or all effects come after the loops.
RestartIsHarmless ==
    \/ GuardedEarly
    \/ \A i \in BackEdges : \E j \in 1 .. prog.code[i].to :
         \/ prog.code[j].op = "br_table"
         \/ j < prog.code[i].to /\ prog.code[j].op \in CallOps \cup {"global.set"}
    \/ \A e \in Effects, i \in BackEdges : i < e

-----------------------------------------------------------------------------
(* Properties *)

\* Every variable has its type.
TierTypeOK ==
    /\ prog \in Programs
    /\ wf \in WasmFunction
    /\ activations \in Seq(TierActivation)
    /\ mode \in Modes
    /\ entered \in BOOLEAN
    /\ calls \in 0 .. MaxCalls

\* An activation that returns has executed each of its effects exactly once,
\* whatever tiers it went through (callFunction's restart after JitRestart),
\* in every function where a restart repeats no effect.
EffectsOnce ==
    AtEnd /\ RestartIsHarmless => Innermost.effects = RefEffects(Innermost.arg)

\* error.JitRestart is "not user-visible" (docs/errors.md): the effects of any
\* function are those of its instructions executed once.
RestartIsInvisible == AtEnd => Innermost.effects = RefEffects(Innermost.arg)

\* An activation never stands before a reentry guard it has already passed,
\* so a guard traps only on a call made while another call is active
\* (hasReentryGuard in checkBackEdgeJit).
GuardPassedOnce ==
    GuardedEarly /\ At({"guard"}) => ~Innermost.passed

\* A verdict is reached at each threshold and stands, although an activation
\* may decide from an old jit_eligible: a function whose calls, or whose
\* back-edges in one activation, reach the threshold has code or is not tried
\* again there, and call_count stops at the threshold.
HotIsDecided ==
    /\ wf.call_count <= HotThreshold
    /\ wf.call_count = HotThreshold => wf.jit \/ wf.jit_failed
    /\ \A i \in 1 .. Len(activations) :
         activations[i].edges >= BackEdgeThreshold =>
           wf.jit \/ wf.jit_failed \/ wf.back_edge_bailed

\* Every invocation ends: a restart happens at most once per activation.
Returns == (activations # << >>) ~> (activations = << >>)
=============================================================================
