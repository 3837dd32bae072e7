------------------------------- MODULE Budget -------------------------------
(***************************************************************************)
(* The execution budget of a module: instruction fuel, a wall-clock        *)
(* deadline and cancellation from another thread (WasmModule.invoke and    *)
(* cancel in src/src/types.zig; consumeInstructionBudget, armJitFuel,      *)
(* syncJitFuelBack, jitFuelCheckHelper and executeJIT in src/src/vm.zig).  *)
(*                                                                         *)
(* The interpreters charge vm.fuel at every instruction.  Compiled code    *)
(* counts jit_fuel down at the back-edges of br, br_if and br_if_not only: *)
(* br_table, which may close a loop as well, is compiled without a check.  *)
(* jit_fuel is armed from fuel when the VM enters compiled code and        *)
(* settled when it leaves.                                                 *)
(* Compiled code calls compiled code directly, sharing jit_fuel, and       *)
(* everything else through callFunction.                                   *)
(***************************************************************************)
EXTENDS Integers, Sequences

CONSTANTS
    StartFuel,      \* Config.fuel, if it is set
    HasDeadline,    \* Config.timeout_ms is set
    Cancellable,    \* Vm.cancellable
    CheckInterval,  \* DEADLINE_CHECK_INTERVAL, 1024 in the code
    JitInterval,    \* DEADLINE_JIT_INTERVAL, 10000 in the code
    MaxI64,         \* the value of jit_fuel that stands for no limit
    TableLoops,     \* are there functions with a loop that br_table closes?
    MaxDepth,       \* bound on the depth of calls
    MaxCompiles,    \* bound on the functions that get compiled by such a call
    MaxTicks        \* bound on the history variable ticks

ASSUME BudgetAssumption ==
    /\ HasDeadline \in BOOLEAN /\ Cancellable \in BOOLEAN /\ TableLoops \in BOOLEAN
    /\ StartFuel \in Nat
    /\ CheckInterval \in Nat \ {0} /\ JitInterval \in Nat \ {0}
    /\ MaxI64 \in Nat /\ StartFuel <= MaxI64 /\ JitInterval <= MaxI64
    /\ MaxDepth \in Nat /\ MaxCompiles \in Nat /\ MaxTicks \in Nat

VARIABLES
    fuel,             \* Vm.fuel, or NoFuel; carried over invocations by
                      \* WasmModule.fuel
    check_remaining,  \* Vm.deadline_check_remaining
    cancelled,        \* Vm.cancelled
    expired,          \* has the deadline of this invocation passed?
    jit_fuel, jit_fuel_initial,
    stack,            \* the activations, outermost first
    err,              \* the error that is unwinding the stack
    compiles,         \* functions still to be compiled by a call
    ticks,            \* history: instructions interpreted and checked
                      \* back-edges taken
    unchecked,        \* history: 0 after one of those; 1 and 2, in turn, after
                      \* a back-edge that has no check
    slow,             \* history: has compiled code called through callFunction?
    stopped           \* history: has a run been stopped from outside?

jitVars == <<jit_fuel, jit_fuel_initial>>
vars == <<fuel, check_remaining, cancelled, expired, jitVars, stack, err,
          compiles, ticks, unchecked, slow, stopped>>

NoFuel  == -1       \* the null of the optional fuel
HasFuel == fuel # NoFuel

\* "interp": any interpreter; "jit": compiled code entered by executeJIT;
\* "direct": compiled code entered from compiled code.
Tiers == {"interp", "jit", "direct"}
Errors == {"none", "trap", "fuel", "timeout", "cancel"}
\* ran: has it executed an instruction since it began, or since its last call?
\* Interpreted code cannot call or return otherwise.
Activation(tier) == [tier |-> tier, ran |-> tier # "interp"]

Running  == stack # <<>> /\ err = "none"
Top      == stack[Len(stack)]
Below    == SubSeq(stack, 1, Len(stack) - 1)
Compiled == Top.tier \in {"jit", "direct"}
Tick     == ticks' = IF ticks < MaxTicks THEN ticks + 1 ELSE ticks

Init ==
    /\ fuel \in {StartFuel, NoFuel}
    /\ check_remaining = CheckInterval
    /\ cancelled = FALSE /\ expired = FALSE
    /\ jit_fuel = MaxI64 /\ jit_fuel_initial = MaxI64
    /\ stack = <<>> /\ err = "none"
    /\ compiles = MaxCompiles
    /\ ticks = 0 /\ unchecked = 0 /\ slow = FALSE /\ stopped = FALSE

-----------------------------------------------------------------------------
Least(a, b) == IF a < b THEN a ELSE b

\* Mutant: the fuel that is left does not limit the interval.
ArmedNoFuel(f) == IF HasDeadline \/ Cancellable THEN JitInterval ELSE MaxI64

\* armJitFuel with f units of fuel left.
Armed(f) == Least(IF f # NoFuel THEN f ELSE MaxI64,
                  IF HasDeadline \/ Cancellable THEN JitInterval ELSE MaxI64)

armJitFuel(f) == jit_fuel' = Armed(f) /\ jit_fuel_initial' = Armed(f)

\* Mutant: charges what is left instead of what was used.
SettledRest(jf) ==
    IF ~HasFuel \/ jf <= 0 THEN fuel ELSE IF jf >= fuel THEN 0 ELSE fuel - jf

\* Mutant: nothing is charged.
SettledNever(jf) == fuel

\* Mutant: the counter is not kept from going below zero.
SettledNoClamp(jf) == IF HasFuel THEN fuel - (jit_fuel_initial - jf) ELSE fuel

\* syncJitFuelBack: fuel after the ticks since arming are charged; jf is
\* the value of jit_fuel.
Settled(jf) ==
    LET consumed == jit_fuel_initial - jf
    IN  IF ~HasFuel \/ consumed <= 0 THEN fuel
        ELSE IF consumed >= fuel THEN 0 ELSE fuel - consumed

-----------------------------------------------------------------------------
\* WasmModule.invoke: Vm.reset, the deadline is set anew, and the exported
\* function starts interpreted or compiled.
Invoke(tier) ==
    /\ stack = <<>> /\ err = "none"
    /\ tier \in {"interp", "jit"}
    /\ cancelled' = FALSE /\ expired' = FALSE
    /\ check_remaining' = CheckInterval
    /\ IF tier = "jit" THEN armJitFuel(fuel) ELSE UNCHANGED jitVars
    /\ stack' = <<Activation(tier)>>
    /\ UNCHANGED <<fuel, err, compiles, ticks, unchecked, slow, stopped>>

\* Mutants: one of the two periodic checks is missing.
PeriodicErrorNoCancel == IF HasDeadline /\ expired THEN "timeout" ELSE "none"
PeriodicErrorNoTime   == IF Cancellable /\ cancelled THEN "cancel" ELSE "none"

\* What the periodic check finds; cancellation comes first.
PeriodicError ==
    IF Cancellable /\ cancelled THEN "cancel"
    ELSE IF HasDeadline /\ expired THEN "timeout" ELSE "none"

\* consumeInstructionBudget, and the instruction it admits.
InterpStep ==
    /\ Running /\ Top.tier = "interp"
    /\ IF HasFuel /\ fuel = 0
       THEN err' = "fuel" /\ UNCHANGED <<fuel, check_remaining, stack, ticks, stopped>>
       ELSE /\ fuel' = IF HasFuel THEN fuel - 1 ELSE fuel
            /\ LET due == (HasDeadline \/ Cancellable) /\ check_remaining = 0
               IN  IF due /\ PeriodicError # "none"
                   THEN /\ err' = PeriodicError /\ stopped' = TRUE
                        /\ UNCHANGED <<check_remaining, stack, ticks>>
                   ELSE /\ check_remaining' =
                             IF ~(HasDeadline \/ Cancellable) THEN check_remaining
                             ELSE IF due THEN CheckInterval - 1
                             ELSE check_remaining - 1
                        /\ stack' = [stack EXCEPT ![Len(stack)].ran = TRUE]
                        /\ Tick /\ UNCHANGED <<err, stopped>>
    /\ unchecked' = 0
    /\ UNCHANGED <<cancelled, expired, jitVars, compiles, slow>>

\* emitFuelCheck at a back-edge of br, br_if or br_if_not: jit_fuel stays
\* non-negative.
JitBackEdge ==
    /\ Running /\ Compiled
    /\ jit_fuel > 0
    /\ jit_fuel' = jit_fuel - 1
    /\ Tick /\ unchecked' = 0
    /\ UNCHANGED <<fuel, check_remaining, cancelled, expired, jit_fuel_initial,
                   stack, err, compiles, slow, stopped>>

\* ... or goes negative: jitFuelCheckHelper charges it and arms it anew.
JitCheckPasses ==
    /\ Running /\ Compiled
    /\ jit_fuel <= 0
    /\ ~(HasFuel /\ Settled(jit_fuel - 1) = 0)
    /\ PeriodicError = "none"
    /\ fuel' = Settled(jit_fuel - 1)
    /\ armJitFuel(Settled(jit_fuel - 1))
    /\ Tick /\ unchecked' = 0
    /\ UNCHANGED <<check_remaining, cancelled, expired, stack, err, compiles, slow,
                   stopped>>

\* ... or returns an error; jit_fuel keeps its value.
JitCheckFails ==
    /\ Running /\ Compiled
    /\ jit_fuel <= 0
    /\ fuel' = Settled(jit_fuel - 1)
    /\ jit_fuel' = jit_fuel - 1
    /\ IF HasFuel /\ Settled(jit_fuel - 1) = 0
       THEN err' = "fuel" /\ UNCHANGED stopped
       ELSE PeriodicError # "none" /\ err' = PeriodicError /\ stopped' = TRUE
    /\ unchecked' = 0
    /\ UNCHANGED <<check_remaining, cancelled, expired, jit_fuel_initial, stack,
                   compiles, ticks, slow>>

\* emitBrTable: a back-edge of br_table is a plain branch to the loop header.
JitTableEdge ==
    /\ TableLoops
    /\ Running /\ Compiled
    /\ unchecked' = IF unchecked = 1 THEN 2 ELSE 1
    /\ UNCHANGED <<fuel, check_remaining, cancelled, expired, jitVars, stack, err,
                   compiles, ticks, slow, stopped>>

\* Interpreted code calls a function that runs interpreted or compiled.
InterpCall(tier) ==
    /\ Running /\ Top.tier = "interp" /\ Top.ran
    /\ Len(stack) < MaxDepth
    /\ tier \in {"interp", "jit"}
    /\ IF tier = "jit" THEN armJitFuel(fuel) ELSE UNCHANGED jitVars
    /\ stack' = Append([stack EXCEPT ![Len(stack)].ran = FALSE], Activation(tier))
    /\ UNCHANGED <<fuel, check_remaining, cancelled, expired, err, compiles, ticks,
                   unchecked, slow, stopped>>

\* jitCallTrampoline, fast path: the callee is compiled already.
JitCallDirect ==
    /\ Running /\ Compiled
    /\ Len(stack) < MaxDepth
    /\ stack' = Append(stack, Activation("direct"))
    /\ UNCHANGED <<fuel, check_remaining, cancelled, expired, jitVars, err,
                   compiles, ticks, unchecked, slow, stopped>>

\* ... slow path: callFunction interprets the callee, or compiles it now and
\* enters it through executeJIT, which arms jit_fuel again.
JitCallSlow(tier) ==
    /\ Running /\ Compiled
    /\ Len(stack) < MaxDepth
    /\ \/ tier = "interp" /\ UNCHANGED <<jitVars, compiles>>
       \/ /\ tier = "jit" /\ compiles > 0
          /\ compiles' = compiles - 1
          /\ armJitFuel(fuel)
    /\ stack' = Append(stack, Activation(tier))
    /\ slow' = TRUE
    /\ UNCHANGED <<fuel, check_remaining, cancelled, expired, err, ticks, unchecked,
                   stopped>>

\* The activation on top ends; executeJIT settles the fuel on its way out.
Leave ==
    /\ stack' = Below
    /\ fuel' = IF Top.tier = "jit" THEN Settled(jit_fuel) ELSE fuel
    /\ UNCHANGED <<check_remaining, cancelled, expired, jitVars, compiles, ticks,
                   unchecked, slow, stopped>>

Return == Running /\ Top.ran /\ Leave /\ UNCHANGED err

\* An instruction, a host function or a failed call traps.
Trap ==
    /\ Running /\ Top.ran
    /\ err' = "trap"
    /\ UNCHANGED <<fuel, check_remaining, cancelled, expired, jitVars, stack,
                   compiles, ticks, unchecked, slow, stopped>>

\* An error leaves the activations one by one.
Unwind ==
    /\ err # "none" /\ stack # <<>>
    /\ Leave
    /\ err' = IF Len(stack) = 1 THEN "none" ELSE err

\* WasmModule.cancel, from another thread at any time.
Cancel ==
    /\ cancelled' = TRUE
    /\ UNCHANGED <<fuel, check_remaining, expired, jitVars, stack, err, compiles,
                   ticks, unchecked, slow, stopped>>

\* The clock passes the deadline.
Expire ==
    /\ HasDeadline /\ stack # <<>>
    /\ expired' = TRUE
    /\ UNCHANGED <<fuel, check_remaining, cancelled, jitVars, stack, err, compiles,
                   ticks, unchecked, slow, stopped>>

Advance ==
    InterpStep \/ JitBackEdge \/ JitCheckPasses \/ JitCheckFails \/ JitTableEdge

Next ==
    \/ \E tier \in Tiers : Invoke(tier) \/ InterpCall(tier) \/ JitCallSlow(tier)
    \/ Advance
    \/ JitCallDirect
    \/ Return \/ Trap \/ Unwind
    \/ Cancel \/ Expire

\* Code that does not end keeps interpreting instructions or taking
\* back-edges, checked ones or not, since the call depth is bounded and code
\* is finite; and an error is propagated to the end.
BudgetFairness == SF_vars(Advance) /\ WF_vars(Unwind)

Spec == Init /\ [][Next]_vars /\ BudgetFairness

-----------------------------------------------------------------------------
\* Every variable keeps its type.
TypeOK ==
    /\ fuel \in Nat \cup {NoFuel}
    /\ check_remaining \in 0 .. CheckInterval
    /\ cancelled \in BOOLEAN /\ expired \in BOOLEAN
    /\ jit_fuel \in Int /\ jit_fuel_initial \in Nat
    /\ stack \in Seq([tier : Tiers, ran : BOOLEAN])
    /\ err \in Errors
    /\ compiles \in Nat
    /\ ticks \in Nat /\ unchecked \in 0 .. 2
    /\ slow \in BOOLEAN /\ stopped \in BOOLEAN

(* zwasm_config_set_fuel, `Set the instruction fuel limit.  Traps when     *)
(* exhausted': over all invocations, what passes a check (an instruction   *)
(* of an interpreter, a back-edge of br, br_if or br_if_not in compiled    *)
(* code) is never more than the fuel the module was given.                 *)
FuelLimit == HasFuel => ticks <= StartFuel

(* The same as long as compiled code calls only code compiled before,      *)
(* however many back-edges without a check lie in between.                 *)
FuelIsCeiling == slow \/ FuelLimit

(* syncJitFuelBack, `Sync consumed jit_fuel ticks back to interpreter fuel *)
(* counter': nothing is charged twice, as long as no run is cancelled or   *)
(* times out.  The instruction or back-edge at which the fuel runs out is  *)
(* charged without being taken.                                            *)
ChargedOnce ==
    HasFuel /\ ~slow /\ ~stopped /\ ticks < MaxTicks => StartFuel - fuel <= ticks + 1

\* From now on the only loops that run are those of compiled br_tables: no
\* instruction is interpreted any more, and no checked back-edge reached.
OutOfReach == [](unchecked # 0)

(* zwasm_module_cancel, `Execution stops at the next checkpoint': after a  *)
(* request made while the module runs either the invocation ends, whatever *)
(* mix of tiers is on the stack, or there is no next checkpoint: compiled  *)
(* code is caught in loops that br_table closes.                           *)
CancelStops ==
    (Cancellable /\ cancelled /\ stack # <<>>) ~> (stack = <<>> \/ OutOfReach)

(* jitFuelCheckHelper and consumeInstructionBudget: an invocation that     *)
(* keeps reaching checkpoints does not outlive its deadline for ever.      *)
DeadlineStops ==
    (HasDeadline /\ expired /\ stack # <<>>) ~> (stack = <<>> \/ OutOfReach)

(* With a finite amount of fuel every invocation ends that does not stay   *)
(* in loops without a check: the two settlements and the arming in between *)
(* never give back what a checkpoint has charged.                          *)
FuelStops == (HasFuel /\ stack # <<>>) ~> (stack = <<>> \/ OutOfReach)
=============================================================================
