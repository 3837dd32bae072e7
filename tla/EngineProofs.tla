----------------------------- MODULE EngineProofs -----------------------------
(***************************************************************************)
(* What the execution budget and the tiers guarantee for every value of    *)
(* the constants.                                                          *)
(***************************************************************************)
EXTENDS MCEngine, SequenceTheorems, WellFoundedInduction, TLAPS

-----------------------------------------------------------------------------
(***************************************************************************)
(* What the execution budget guarantees for every amount of fuel, every    *)
(* check interval and every depth of calls: as long as compiled code calls *)
(* compiled code only, a module never passes more checks than its fuel,    *)
(* over all of its invocations, cancelled and timed out ones included; and *)
(* without those, what it is charged it has executed.                      *)
(***************************************************************************)

\* A stack is a sequence of activations; the facts about its top.
LEMMA StackFacts ==
    ASSUME NEW S, NEW s \in Seq(S), s # <<>>
    PROVE  /\ Len(s) \in Nat \ {0} /\ s[Len(s)] \in S
           /\ SubSeq(s, 1, Len(s) - 1) \in Seq(S)
           /\ Len(SubSeq(s, 1, Len(s) - 1)) = Len(s) - 1
           /\ \A i \in 1 .. (Len(s) - 1) : SubSeq(s, 1, Len(s) - 1)[i] = s[i]
<1>1. Len(s) \in Nat /\ Len(s) # 0 /\ s \in [1 .. Len(s) -> S] BY EmptySeq
<1>2. Len(s) \in 1 .. Len(s) BY <1>1
<1>3. s[Len(s)] \in S BY <1>1, <1>2
<1>4. \A i \in 1 .. (Len(s) - 1) : s[i] \in S BY <1>1
<1>5. /\ SubSeq(s, 1, Len(s) - 1) \in Seq(S)
      /\ Len(SubSeq(s, 1, Len(s) - 1)) = Len(s) - 1
      /\ \A i \in 1 .. (Len(s) - 1) : SubSeq(s, 1, Len(s) - 1)[i] = s[i]
  BY <1>1, <1>4, SubSeqProperties
<1>6. QED BY <1>1, <1>3, <1>5

LEMMA SingletonSeq ==
    ASSUME NEW S, NEW e \in S
    PROVE  <<e>> \in Seq(S) /\ Len(<<e>>) = 1 /\ <<e>>[1] = e /\ <<e>> # <<>>
  OBVIOUS

Act == [tier : Tiers, ran : BOOLEAN]

LEMMA ActivationType == \A tier \in Tiers : Activation(tier) \in Act
  BY DEF Activation, Act, Tiers

Fuels == Nat \cup {NoFuel}

LEMMA ArmedType == \A f \in Fuels : Armed(f) \in Nat
  BY BudgetAssumption DEF Armed, Least, Fuels, NoFuel

LEMMA SettledType ==
    ASSUME TypeOK, NEW jf \in Int
    PROVE  /\ Settled(jf) \in Fuels /\ Settled(jf) <= fuel
           /\ Settled(jf) = NoFuel <=> fuel = NoFuel
  BY DEF Settled, TypeOK, HasFuel, Fuels, NoFuel

LEMMA TypeInit == Init => TypeOK
<1> SUFFICES ASSUME Init PROVE TypeOK
  OBVIOUS
<1>1. stack \in Seq([tier : Tiers, ran : BOOLEAN]) BY EmptySeq DEF Init
<1>2. /\ fuel \in Fuels /\ jit_fuel \in Int /\ jit_fuel_initial \in Nat
      /\ compiles \in Nat /\ ticks \in Nat /\ unchecked \in 0 .. 2
  BY BudgetAssumption DEF Init, Fuels
<1>3. check_remaining \in 0 .. CheckInterval BY BudgetAssumption DEF Init
<1>4. QED BY <1>1, <1>2, <1>3 DEF Init, TypeOK, Errors, Fuels

\* Marking the activation on top as having run, or not, changes no tier.
Marked(b) == [stack EXCEPT ![Len(stack)].ran = b]

LEMMA MarkedFacts ==
    ASSUME TypeOK, stack # <<>>, NEW b \in BOOLEAN
    PROVE  /\ Marked(b) \in Seq(Act) /\ Marked(b) # <<>>
           /\ Len(Marked(b)) = Len(stack)
           /\ \A i \in 1 .. Len(stack) : Marked(b)[i].tier = stack[i].tier
<1> DEFINE e == [stack[Len(stack)] EXCEPT !.ran = b]
<1>1. stack \in Seq(Act) BY DEF TypeOK, Act
<1>2. Len(stack) \in 1 .. Len(stack) BY <1>1, StackFacts
<1>3. stack[Len(stack)] \in Act BY <1>1, StackFacts
<1>4. e \in Act /\ e.tier = stack[Len(stack)].tier BY <1>3 DEF Act
<1>5. Marked(b) = [stack EXCEPT ![Len(stack)] = e] BY DEF Marked
<1> HIDE DEF e
<1>6. /\ Marked(b) \in Seq(Act) /\ Len(Marked(b)) = Len(stack)
      /\ \A i \in 1 .. Len(stack) :
            Marked(b)[i] = IF i = Len(stack) THEN e ELSE stack[i]
  BY <1>1, <1>2, <1>4, <1>5, ExceptSeq
<1>7. Marked(b) # <<>> BY <1>2, <1>6, EmptySeq
<1>8. QED BY <1>4, <1>6, <1>7

LEMMA TypeNext == TypeOK /\ [Next]_vars => TypeOK'
<1> SUFFICES ASSUME TypeOK, [Next]_vars PROVE TypeOK'
  OBVIOUS
<1> USE BudgetAssumption DEF jitVars
<1>0. /\ fuel \in Fuels /\ check_remaining \in 0 .. CheckInterval
      /\ jit_fuel \in Int /\ jit_fuel_initial \in Nat
      /\ stack \in Seq(Act) /\ ticks \in Nat /\ compiles \in Nat
  BY DEF TypeOK, Act, Fuels
<1>t. Tick => ticks' \in Nat BY <1>0 DEF Tick
<1>a. ASSUME NEW f \in Fuels, armJitFuel(f)
      PROVE  jit_fuel' \in Int /\ jit_fuel_initial' \in Nat
  BY <1>a, ArmedType DEF armJitFuel
<1>s. slow' \in BOOLEAN /\ stopped' \in BOOLEAN
  BY Zenon DEF TypeOK, Next, Invoke, InterpCall, JitCallSlow, Advance, InterpStep,
     JitBackEdge, JitCheckPasses, JitCheckFails, JitTableEdge, JitCallDirect, Return,
     Trap,
     Unwind, Leave, Cancel, Expire, vars
<1>1. ASSUME NEW tier \in Tiers, Invoke(tier) PROVE TypeOK'
  <2>1. jit_fuel' \in Int /\ jit_fuel_initial' \in Nat
    BY <1>0, <1>1, <1>a DEF Invoke
  <2>2. stack' \in Seq(Act)
    <3>1. Activation(tier) \in Act /\ stack' = <<Activation(tier)>>
      BY <1>1, ActivationType DEF Invoke
    <3>2. QED BY <3>1, SingletonSeq
  <2>3. check_remaining' \in 0 .. CheckInterval BY <1>1 DEF Invoke
  <2>4. QED BY <1>1, <2>1, <2>2, <2>3 DEF Invoke, TypeOK, Act, Fuels
<1>2. ASSUME NEW tier \in Tiers, InterpCall(tier) PROVE TypeOK'
  <2>1. jit_fuel' \in Int /\ jit_fuel_initial' \in Nat
    BY <1>0, <1>2, <1>a DEF InterpCall
  <2>2. stack' \in Seq(Act)
    <3>1. /\ Marked(FALSE) \in Seq(Act) /\ Activation(tier) \in Act
          /\ stack' = Append(Marked(FALSE), Activation(tier))
      BY <1>2, ActivationType, MarkedFacts DEF InterpCall, Running, Marked
    <3>2. QED BY <3>1, AppendProperties
  <2>3. QED BY <1>2, <2>1, <2>2 DEF InterpCall, TypeOK, Act, Fuels
<1>3. ASSUME NEW tier \in Tiers, JitCallSlow(tier) PROVE TypeOK'
  <2>1. jit_fuel' \in Int /\ jit_fuel_initial' \in Nat /\ compiles' \in Nat
    BY <1>0, <1>3, <1>a DEF JitCallSlow
  <2>2. stack' \in Seq(Act)
    BY <1>0, <1>3, ActivationType, AppendProperties DEF JitCallSlow
  <2>3. QED BY <1>3, <1>s, <2>1, <2>2 DEF JitCallSlow, TypeOK, Act, Fuels
<1>4. CASE InterpStep
  <2>1. stack' \in Seq(Act)
    <3>1. Marked(TRUE) \in Seq(Act) BY <1>4, MarkedFacts DEF InterpStep, Running
    <3>2. stack' = stack \/ stack' = Marked(TRUE) BY <1>4 DEF InterpStep, Marked
    <3>3. QED BY <1>0, <3>1, <3>2
  <2>2. fuel' \in Fuels BY <1>0, <1>4, SMTT(30) DEF InterpStep, HasFuel, Fuels, NoFuel
  <2>3. check_remaining' \in 0 .. CheckInterval BY <1>0, <1>4, SMTT(30) DEF InterpStep
  <2>4. ticks' \in Nat BY <1>0, <1>4, <1>t DEF InterpStep
  <2>5. err' \in Errors
    BY <1>4 DEF InterpStep, PeriodicError, TypeOK, Errors
  <2>6. UNCHANGED <<cancelled, expired, jitVars, compiles>> /\ unchecked' \in 0 .. 2
    BY <1>4 DEF InterpStep
  <2>7. QED BY <1>s, <2>1, <2>2, <2>3, <2>4, <2>5, <2>6 DEF TypeOK, Act, Fuels
<1>5. CASE JitBackEdge
  BY <1>0, <1>5, <1>t DEF JitBackEdge, TypeOK
<1>6. CASE JitCheckPasses
  <2>1. Settled(jit_fuel - 1) \in Fuels BY <1>0, SettledType
  <2>2. jit_fuel' \in Int /\ jit_fuel_initial' \in Nat /\ fuel' \in Fuels
    BY <1>6, <1>a, <2>1 DEF JitCheckPasses
  <2>3. QED BY <1>6, <1>t, <2>2 DEF JitCheckPasses, TypeOK, Fuels
<1>7. CASE JitCheckFails
  <2>1. Settled(jit_fuel - 1) \in Fuels BY <1>0, SettledType
  <2>2. err' \in Errors
    BY <1>7 DEF JitCheckFails, PeriodicError, Errors
  <2>3. QED BY <1>0, <1>7, <1>s, <2>1, <2>2 DEF JitCheckFails, TypeOK, Fuels
<1>e. CASE JitTableEdge BY <1>e DEF JitTableEdge, TypeOK
<1>8. CASE JitCallDirect
  <2>1. stack' \in Seq(Act)
    BY <1>0, <1>8, ActivationType, AppendProperties DEF JitCallDirect, Tiers
  <2>2. QED BY <1>8, <2>1 DEF JitCallDirect, TypeOK, Act, Fuels
<1>9. ASSUME Leave, stack # <<>>, err' \in Errors
      PROVE  TypeOK'
  <2>1. stack' \in Seq(Act) BY <1>0, <1>9, StackFacts DEF Leave, Below
  <2>2. fuel' \in Fuels BY <1>0, <1>9, SettledType DEF Leave
  <2>3. QED BY <1>9, <2>1, <2>2 DEF Leave, TypeOK, Act, Fuels
<1>10. CASE Return BY <1>9, <1>10 DEF Return, Running, TypeOK
<1>11. CASE Unwind
  <2>1. err' \in Errors BY <1>11 DEF Unwind, TypeOK, Errors
  <2>2. QED BY <1>9, <1>11, <2>1 DEF Unwind
<1>t2. CASE Trap
  <2>1. err' \in Errors BY <1>t2 DEF Trap, Errors
  <2>2. QED BY <1>t2, <2>1 DEF Trap, TypeOK
<1>12. CASE Cancel BY <1>12 DEF Cancel, TypeOK
<1>13. CASE Expire BY <1>13 DEF Expire, TypeOK
<1>14. CASE UNCHANGED vars BY <1>14 DEF vars, TypeOK
<1>15. QED
  BY <1>1, <1>2, <1>3, <1>4, <1>5, <1>6, <1>7, <1>8, <1>10, <1>11, <1>12,
     <1>13, <1>14, <1>e, <1>t2 DEF Next, Advance

(* The variables of the budget keep their types: in particular fuel, an    *)
(* optional unsigned counter that several places decrement, never           *)
(* underflows.                                                             *)
THEOREM BudgetTypes == Spec => []TypeOK
  BY TypeInit, TypeNext, PTL DEF Spec

-----------------------------------------------------------------------------
(***************************************************************************)
(* The fuel as a ceiling.  FuelIsCeiling says nothing of fuel itself, so   *)
(* it is not inductive.  While interpreted code runs, what was executed    *)
(* and what is left of the fuel add up to at most the fuel at the start;   *)
(* while compiled code runs, the ticks since jit_fuel was armed are still  *)
(* to be charged, and no more of them can happen than there is fuel left.  *)
(* That the settlement happens when compiled code is left, and only then,  *)
(* rests on the shape of the stack: activations entered from compiled code *)
(* lie on compiled ones, all others on interpreted ones.                   *)
(***************************************************************************)
Shape ==
    /\ stack # <<>> => stack[1].tier # "direct"
    /\ \A i \in 1 .. (Len(stack) - 1) :
          stack[i].tier = "interp" <=> stack[i + 1].tier # "direct"

Uncharged == jit_fuel_initial - jit_fuel

ChargeDue ==
    /\ 0 <= jit_fuel /\ jit_fuel <= jit_fuel_initial /\ jit_fuel_initial <= fuel
    /\ ticks + fuel <= StartFuel + Uncharged

\* Compiled code is on top and its ticks have not been charged: it runs, or
\* it has trapped.  The errors of the fuel check come after a settlement.
Owing == stack # <<>> /\ Compiled /\ err \in {"none", "trap"}

Charge == IF Owing THEN ChargeDue ELSE ticks + fuel <= StartFuel

CeilingInv == TypeOK /\ (~slow /\ HasFuel => Shape /\ Charge)

LEMMA ArmedBound == \A f \in Nat : Armed(f) <= f
  BY BudgetAssumption DEF Armed, Least, NoFuel

\* What a settlement leaves, when the invariant of compiled code holds and
\* at least n more ticks have been counted than were taken.
LEMMA SettledCharge ==
    ASSUME TypeOK, HasFuel, ChargeDue, NEW n \in {0, 1}
    PROVE  /\ ticks + Settled(jit_fuel - n) <= StartFuel
           /\ Settled(jit_fuel - n) # 0 => ticks + n + Settled(jit_fuel - n) <= StartFuel
<1>1. /\ fuel \in Nat /\ jit_fuel \in Int /\ jit_fuel_initial \in Nat /\ ticks \in Nat
      /\ StartFuel \in Nat
  BY BudgetAssumption DEF TypeOK, HasFuel
<1>2. CASE n = 0 BY <1>1, <1>2 DEF Settled, HasFuel, ChargeDue, Uncharged
<1>3. CASE n = 1 BY <1>1, <1>3 DEF Settled, HasFuel, ChargeDue, Uncharged
<1>4. QED BY <1>2, <1>3

\* The stack after a push of an activation: its shape and its top.
LEMMA PushFacts ==
    ASSUME NEW s \in Seq(Act), NEW a \in Act, s # <<>>, stack' = Append(s, a)
    PROVE  /\ stack' # <<>> /\ Top' = a
           /\ Len(stack') = Len(s) + 1
           /\ stack'[Len(s) + 1] = a
           /\ \A i \in 1 .. Len(s) : stack'[i] = s[i]
  BY AppendProperties DEF Top

LEMMA ShapeInit == Init => Shape
<1> SUFFICES ASSUME Init PROVE Shape
  OBVIOUS
<1>1. stack = <<>> /\ Len(stack) = 0 BY EmptySeq DEF Init
<1>2. QED BY <1>1 DEF Shape

LEMMA ShapePush ==
    ASSUME TypeOK, Shape, stack # <<>>, NEW s \in Seq(Act), NEW a \in Act,
           Len(s) = Len(stack),
           \A i \in 1 .. Len(stack) : s[i].tier = stack[i].tier,
           stack' = Append(s, a),
           Top.tier = "interp" <=> a.tier # "direct"
    PROVE  Shape'
<1>1. stack \in Seq(Act) BY DEF TypeOK, Act
<1>2. Len(stack) \in Nat \ {0} BY <1>1, StackFacts
<1>3. s # <<>> BY <1>2, EmptySeq
<1>4. /\ Len(stack') = Len(stack) + 1
      /\ stack'[Len(stack) + 1] = a
      /\ \A i \in 1 .. Len(stack) : stack'[i].tier = stack[i].tier
  BY <1>3, PushFacts
<1>5. stack'[1].tier # "direct" BY <1>2, <1>4 DEF Shape
<1>6. ASSUME NEW i \in 1 .. (Len(stack') - 1)
      PROVE  stack'[i].tier = "interp" <=> stack'[i + 1].tier # "direct"
  <2>1. CASE i = Len(stack) BY <1>2, <1>4, <2>1 DEF Top
  <2>2. CASE i \in 1 .. (Len(stack) - 1)
    <3>1. i + 1 \in 1 .. Len(stack) /\ i \in 1 .. Len(stack) BY <1>2, <2>2
    <3>2. QED BY <1>4, <2>2, <3>1 DEF Shape
  <2>3. QED BY <1>2, <1>4, <2>1, <2>2
<1>7. QED BY <1>5, <1>6 DEF Shape

LEMMA ShapeNext ==
    ASSUME ~slow', TypeOK, Shape, [Next]_vars
    PROVE  Shape'
<1> USE DEF jitVars
<1>0. stack \in Seq(Act) BY DEF TypeOK, Act
<1>1. ASSUME NEW tier \in Tiers, Invoke(tier) PROVE Shape'
  <2>1. stack' = <<Activation(tier)>> /\ tier # "direct" BY <1>1 DEF Invoke
  <2>2. Len(stack') = 1 /\ stack'[1] = Activation(tier) BY <2>1, SingletonSeq
  <2>3. QED BY <2>1, <2>2 DEF Shape, Activation
<1>2. ASSUME NEW tier \in Tiers, InterpCall(tier) PROVE Shape'
  <2>1. stack # <<>> /\ Top.tier = "interp" /\ tier # "direct"
    BY <1>2 DEF InterpCall, Running
  <2>2. stack' = Append(Marked(FALSE), Activation(tier))
    BY <1>2 DEF InterpCall, Marked
  <2>3. Activation(tier).tier = tier BY DEF Activation
  <2>4. QED BY <2>1, <2>2, <2>3, MarkedFacts, ActivationType, ShapePush
<1>3. ASSUME NEW tier \in Tiers, JitCallSlow(tier) PROVE FALSE
  BY <1>3 DEF JitCallSlow
<1>4. CASE InterpStep
  <2>1. stack # <<>> BY <1>4 DEF InterpStep, Running
  <2>2. stack' = stack \/ stack' = Marked(TRUE) BY <1>4 DEF InterpStep, Marked
  <2>3. /\ Len(stack') = Len(stack) /\ Len(stack) \in Nat \ {0}
        /\ \A i \in 1 .. Len(stack) : stack'[i].tier = stack[i].tier
    BY <1>0, <2>1, <2>2, MarkedFacts, StackFacts
  <2>4. stack'[1].tier # "direct" BY <2>1, <2>3 DEF Shape
  <2>5. ASSUME NEW i \in 1 .. (Len(stack') - 1)
        PROVE  stack'[i].tier = "interp" <=> stack'[i + 1].tier # "direct"
    <3>1. i \in 1 .. Len(stack) /\ i + 1 \in 1 .. Len(stack) BY <2>3
    <3>2. QED BY <2>3, <3>1 DEF Shape
  <2>6. QED BY <2>4, <2>5 DEF Shape
<1>5. CASE JitCallDirect
  <2>1. /\ stack # <<>> /\ Top.tier # "interp"
        /\ stack' = Append(stack, Activation("direct"))
    BY <1>5 DEF JitCallDirect, Running, Compiled
  <2>2. Activation("direct").tier = "direct" /\ "direct" \in Tiers
    BY DEF Activation, Tiers
  <2>3. QED BY <1>0, <2>1, <2>2, ActivationType, ShapePush
<1>6. ASSUME Leave, stack # <<>> PROVE Shape'
  <2>1. /\ Len(stack) \in Nat \ {0} /\ Len(stack') = Len(stack) - 1
        /\ \A i \in 1 .. (Len(stack) - 1) : stack'[i] = stack[i]
        /\ stack' \in Seq(Act)
    BY <1>0, <1>6, StackFacts DEF Leave, Below
  <2>2. ASSUME stack' # <<>> PROVE stack'[1].tier # "direct"
    <3>1. Len(stack') \in Nat \ {0} BY <2>1, <2>2, EmptySeq
    <3>2. stack'[1] = stack[1] BY <2>1, <3>1
    <3>3. QED BY <1>6, <3>2 DEF Shape
  <2>3. ASSUME NEW i \in 1 .. (Len(stack') - 1)
        PROVE  stack'[i].tier = "interp" <=> stack'[i + 1].tier # "direct"
    <3>1. i \in 1 .. (Len(stack) - 1) /\ i + 1 \in 1 .. (Len(stack) - 1) BY <2>1
    <3>2. QED BY <2>1, <3>1 DEF Shape
  <2>4. QED BY <2>2, <2>3 DEF Shape
<1>7. CASE Return BY <1>6, <1>7 DEF Return, Running
<1>8. CASE Unwind BY <1>6, <1>8 DEF Unwind
<1>9. CASE UNCHANGED stack BY <1>9 DEF Shape
<1>10. QED
  BY <1>1, <1>2, <1>3, <1>4, <1>5, <1>7, <1>8, <1>9
  DEF Next, Advance, JitBackEdge, JitCheckPasses, JitCheckFails, JitTableEdge, Trap,
      Cancel, Expire, vars

\* The arithmetic of one tick, of one back-edge and of arming jit_fuel.
LEMMA TickArith ==
    \A t, u, f, s \in Nat : f # 0 /\ t + f <= s /\ u <= t + 1 => u + (f - 1) <= s
  OBVIOUS

LEMMA BackEdgeArith ==
    \A t, u, f, s, i, j \in Nat :
       /\ j > 0 /\ j <= i /\ t + f <= s + (i - j) /\ u <= t + 1
       => u + f <= s + (i - (j - 1)) /\ 0 <= j - 1 /\ j - 1 <= i
  OBVIOUS

LEMMA ArmArith ==
    \A t, f, s, i, j \in Nat : t + f <= s /\ i = j => t + f <= s + (i - j)
  OBVIOUS

\* Where the activation on top ends, what lies below it: an activation that
\* was entered from compiled code returns to compiled code, others do not.
LEMMA LeaveTop ==
    ASSUME TypeOK, Shape, stack # <<>>, Leave, stack' # <<>>
    PROVE  Compiled' <=> Top.tier = "direct"
<1>1. stack \in Seq(Act) BY DEF TypeOK, Act
<1>2. /\ Len(stack) \in Nat \ {0} /\ Len(stack') = Len(stack) - 1
      /\ \A i \in 1 .. (Len(stack) - 1) : stack'[i] = stack[i]
      /\ stack' \in Seq(Act)
  BY <1>1, StackFacts DEF Leave, Below
<1>3. Len(stack') \in Nat \ {0} BY <1>2, EmptySeq
<1>4. Len(stack) - 1 \in 1 .. (Len(stack) - 1) /\ (Len(stack) - 1) + 1 = Len(stack)
  BY <1>2, <1>3
<1>5. Top' = stack[Len(stack) - 1] BY <1>2, <1>4 DEF Top
<1>6. stack[Len(stack) - 1].tier = "interp" <=> Top.tier # "direct"
  BY <1>4 DEF Shape, Top
<1>7. stack[Len(stack) - 1] \in Act BY <1>1, <1>2, <1>4, ElementOfSeq
<1>8. Top'.tier \in Tiers BY <1>5, <1>7 DEF Act
<1>9. Compiled' <=> Top'.tier # "interp" BY <1>8 DEF Compiled, Tiers
<1>10. QED BY <1>5, <1>6, <1>9

LEMMA ChargeNext ==
    ASSUME ~slow', HasFuel, HasFuel', TypeOK, Shape, Charge, [Next]_vars, TypeOK'
    PROVE  Charge'
<1> USE DEF jitVars
<1>0. /\ fuel \in Nat /\ jit_fuel \in Int /\ jit_fuel_initial \in Nat /\ ticks \in Nat
      /\ StartFuel \in Nat /\ stack \in Seq(Act) /\ HasFuel
      /\ fuel' \in Nat /\ ticks' \in Nat
      /\ jit_fuel' \in Int /\ jit_fuel_initial' \in Nat
      /\ TypeOK /\ Shape /\ Charge
  BY BudgetAssumption DEF TypeOK, Act, HasFuel
<1>n. /\ fuel \in Nat /\ jit_fuel \in Int /\ jit_fuel_initial \in Nat /\ ticks \in Nat
      /\ StartFuel \in Nat /\ fuel' \in Nat /\ ticks' \in Nat
      /\ jit_fuel' \in Int /\ jit_fuel_initial' \in Nat
  BY <1>0
<1>t. Tick => ticks' <= ticks + 1 BY <1>n DEF Tick
<1>i. ASSUME ticks' + fuel' <= StartFuel, ~Owing' PROVE Charge'
  BY <1>i DEF Charge
\* Entering compiled code arms jit_fuel with no more than there is.
<1>e. ASSUME ticks' + fuel' <= StartFuel, armJitFuel(fuel') PROVE Charge'
  <2>1. Armed(fuel') \in Nat /\ Armed(fuel') <= fuel'
    BY <1>0, ArmedType, ArmedBound DEF Fuels
  <2>2. jit_fuel' = Armed(fuel') /\ jit_fuel_initial' = Armed(fuel')
    BY <1>e DEF armJitFuel
  <2>5. 0 <= jit_fuel' /\ jit_fuel' <= jit_fuel_initial' /\ jit_fuel_initial' <= fuel'
    BY <1>n, <2>1, <2>2
  <2>6. ticks' + fuel' <= StartFuel + (jit_fuel_initial' - jit_fuel')
    <3>1. jit_fuel' \in Nat /\ jit_fuel_initial' = jit_fuel' BY <2>1, <2>2
    <3>2. QED BY <1>n, <1>e, <3>1, ArmArith
  <2>7. ChargeDue' BY <2>5, <2>6 DEF ChargeDue, Uncharged
  <2>8. QED BY <1>e, <2>7 DEF Charge
<1>1. ASSUME NEW tier \in Tiers, Invoke(tier) PROVE Charge'
  <2>1. ticks' + fuel' <= StartFuel /\ fuel' = fuel
    BY <1>0, <1>1 DEF Invoke, Charge, Owing
  <2>2. CASE tier = "jit"
    <3>1. armJitFuel(fuel') BY <1>1, <2>1, <2>2 DEF Invoke
    <3>2. QED BY <2>1, <3>1, <1>e
  <2>3. CASE tier = "interp"
    <3>1. stack' = <<Activation(tier)>> BY <1>1 DEF Invoke
    <3>2. Top' = Activation(tier) BY <3>1, SingletonSeq DEF Top
    <3>3. ~Compiled' BY <2>3, <3>2 DEF Compiled, Activation
    <3>4. QED BY <1>i, <2>1, <3>3 DEF Owing
  <2>4. QED BY <1>1, <2>2, <2>3 DEF Invoke
<1>2. ASSUME NEW tier \in Tiers, InterpCall(tier) PROVE Charge'
  <2>1. stack # <<>> /\ Top.tier = "interp" BY <1>2 DEF InterpCall, Running
  <2>2. ticks' + fuel' <= StartFuel /\ fuel' = fuel
    BY <1>0, <1>2, <2>1 DEF InterpCall, Charge, Owing, Compiled
  <2>3. CASE tier = "jit"
    <3>1. armJitFuel(fuel') BY <1>2, <2>2, <2>3 DEF InterpCall
    <3>2. QED BY <2>2, <3>1, <1>e
  <2>4. CASE tier = "interp"
    <3>1. stack' = Append(Marked(FALSE), Activation(tier))
      BY <1>2 DEF InterpCall, Marked
    <3>2. Top' = Activation(tier)
      BY <1>0, <2>1, <3>1, MarkedFacts, ActivationType, PushFacts
    <3>3. ~Compiled' BY <2>4, <3>2 DEF Compiled, Activation
    <3>4. QED BY <1>i, <2>2, <3>3 DEF Owing
  <2>5. QED BY <1>2, <2>3, <2>4 DEF InterpCall
<1>3. ASSUME NEW tier \in Tiers, JitCallSlow(tier) PROVE FALSE
  BY <1>3 DEF JitCallSlow
<1>4. CASE InterpStep
  <2>1. stack # <<>> /\ Top.tier = "interp" BY <1>4 DEF InterpStep, Running
  <2>2. ticks + fuel <= StartFuel BY <1>0, <2>1 DEF Charge, Owing, Compiled
  <2>3. \/ fuel' = fuel /\ ticks' = ticks
        \/ fuel # 0 /\ fuel' = fuel - 1 /\ (ticks' = ticks \/ Tick)
    BY <1>0, <1>4 DEF InterpStep
  <2>4. ticks' + fuel' <= StartFuel
    <3>1. CASE fuel' = fuel /\ ticks' = ticks BY <2>2, <3>1
    <3>2. CASE fuel # 0 /\ fuel' = fuel - 1 /\ (ticks' = ticks \/ Tick)
      <4>1. ticks' <= ticks + 1 BY <1>n, <1>t, <3>2
      <4>2. ticks' + (fuel - 1) <= StartFuel BY <1>n, <2>2, <3>2, <4>1, TickArith
      <4>3. QED BY <3>2, <4>2
    <3>3. QED BY <2>3, <3>1, <3>2
  <2>5. stack' = stack \/ stack' = Marked(TRUE) BY <1>4 DEF InterpStep, Marked
  <2>6. Top'.tier = "interp"
    <3>1. CASE stack' = stack BY <2>1, <3>1 DEF Top
    <3>2. CASE stack' = Marked(TRUE)
      <4>1. Len(stack) \in 1 .. Len(stack) BY <1>0, <2>1, StackFacts
      <4>2. Len(stack') = Len(stack) /\ stack'[Len(stack)].tier = stack[Len(stack)].tier
        BY <1>0, <2>1, <3>2, <4>1, MarkedFacts
      <4>3. QED BY <2>1, <4>2 DEF Top
    <3>3. QED BY <2>5, <3>1, <3>2
  <2>7. ~Compiled' BY <2>6 DEF Compiled
  <2>8. QED BY <1>i, <2>4, <2>7 DEF Owing
<1>5. CASE JitBackEdge
  <2>1. /\ ChargeDue /\ jit_fuel > 0 /\ jit_fuel' = jit_fuel - 1 /\ Tick
        /\ UNCHANGED <<fuel, jit_fuel_initial>>
    BY <1>0, <1>5 DEF JitBackEdge, Charge, Owing, Running
  <2>t. ticks' <= ticks + 1 BY <1>t, <2>1
  <2>j. jit_fuel \in Nat BY <1>n, <2>1 DEF ChargeDue
  <2>2. ChargeDue'
    <3>1. /\ ticks' + fuel <= StartFuel + (jit_fuel_initial - (jit_fuel - 1))
          /\ 0 <= jit_fuel - 1 /\ jit_fuel - 1 <= jit_fuel_initial
      BY <1>n, <2>1, <2>t, <2>j, BackEdgeArith DEF ChargeDue, Uncharged
    <3>2. jit_fuel_initial <= fuel BY <2>1 DEF ChargeDue
    <3>3. QED BY <2>1, <3>1, <3>2 DEF ChargeDue, Uncharged
  <2>3. Owing' BY <1>5 DEF JitBackEdge, Running, Owing, Compiled, Top
  <2>4. QED BY <2>2, <2>3 DEF Charge
<1>6. CASE JitCheckPasses
  <2>1. ChargeDue /\ fuel' = Settled(jit_fuel - 1) /\ fuel' # 0 /\ armJitFuel(fuel') /\ Tick
    BY <1>0, <1>6 DEF JitCheckPasses, Charge, Owing, Running
  <2>2. ticks + 1 + fuel' <= StartFuel BY <1>0, <2>1, SettledCharge
  <2>3. ticks' + fuel' <= StartFuel BY <1>0, <1>t, <2>1, <2>2
  <2>4. QED BY <1>e, <2>1, <2>3
<1>7. CASE JitCheckFails
  <2>1. ChargeDue /\ fuel' = Settled(jit_fuel - 1) /\ ticks' = ticks
    BY <1>0, <1>7 DEF JitCheckFails, Charge, Owing, Running
  <2>2. ticks' + fuel' <= StartFuel BY <1>0, <2>1, SettledCharge
  <2>3. err' \notin {"none", "trap"} BY <1>7 DEF JitCheckFails, PeriodicError
  <2>4. QED BY <1>i, <2>2, <2>3 DEF Owing
<1>8. CASE JitCallDirect
  <2>1. /\ ChargeDue /\ UNCHANGED <<fuel, jitVars, ticks, err>>
        /\ stack # <<>> /\ stack' = Append(stack, Activation("direct"))
        /\ err = "none"
    BY <1>0, <1>8 DEF JitCallDirect, Charge, Owing, Running
  <2>2. ChargeDue' BY <2>1 DEF ChargeDue, Uncharged
  <2>3. "direct" \in Tiers BY DEF Tiers
  <2>4. stack' # <<>> /\ Top' = Activation("direct")
    BY <1>0, <2>1, <2>3, ActivationType, PushFacts
  <2>5. Owing' BY <2>1, <2>4 DEF Compiled, Owing, Activation
  <2>6. QED BY <2>2, <2>5 DEF Charge
\* An activation is left by a return or by the unwinding of a trap.
<1>9. ASSUME Leave, stack # <<>>, err \in {"none", "trap"},
             err' = err \/ stack' = <<>>
      PROVE  Charge'
  <2>1. ticks' = ticks BY <1>9 DEF Leave
  <2>2. CASE Top.tier = "jit"
    <3>1. ChargeDue BY <1>0, <1>9, <2>2 DEF Charge, Owing, Compiled
    <3>2. fuel' = Settled(jit_fuel - 0) BY <1>0, <1>9, <2>2 DEF Leave
    <3>3. ticks' + fuel' <= StartFuel BY <1>0, <2>1, <3>1, <3>2, SettledCharge
    <3>4. ~Owing' BY <1>0, <1>9, <2>2, LeaveTop DEF Owing
    <3>5. QED BY <1>i, <3>3, <3>4
  <2>3. CASE Top.tier = "direct"
    <3>1. ChargeDue BY <1>0, <1>9, <2>3 DEF Charge, Owing, Compiled
    <3>2. UNCHANGED <<fuel, jit_fuel, jit_fuel_initial, ticks>>
      BY <1>9, <2>3 DEF Leave
    <3>3. ChargeDue' BY <3>1, <3>2 DEF ChargeDue, Uncharged
    <3>4. stack' # <<>>
      <4>1. Len(stack) \in Nat \ {0} /\ Len(stack') = Len(stack) - 1
        BY <1>0, <1>9, StackFacts DEF Leave, Below
      <4>2. Len(stack) # 1 BY <1>0, <1>9, <2>3 DEF Shape, Top
      <4>3. QED BY <4>1, <4>2, EmptySeq
    <3>5. Owing' BY <1>0, <1>9, <2>3, <3>4, LeaveTop DEF Owing
    <3>6. QED BY <3>3, <3>5 DEF Charge
  <2>4. CASE Top.tier = "interp"
    <3>1. ticks' + fuel' <= StartFuel
      BY <1>0, <1>9, <2>4 DEF Charge, Owing, Compiled, Leave
    <3>2. ~Owing' BY <1>0, <1>9, <2>4, LeaveTop DEF Owing
    <3>3. QED BY <1>i, <3>1, <3>2
  <2>5. Top.tier \in Tiers
    <3>1. Top \in Act BY <1>0, <1>9, StackFacts DEF Top
    <3>2. QED BY <3>1 DEF Act
  <2>6. QED BY <2>2, <2>3, <2>4, <2>5 DEF Tiers
<1>10. CASE Return BY <1>9, <1>10 DEF Return, Running
<1>u. CASE Unwind
  <2>1. Leave /\ err # "none" /\ stack # <<>> BY <1>u DEF Unwind
  <2>2. /\ Len(stack') = Len(stack) - 1 /\ stack' \in Seq(Act)
        /\ Len(stack) \in Nat \ {0}
    BY <1>0, <2>1, StackFacts DEF Leave, Below
  <2>3. err' = err \/ stack' = <<>>
    <3>1. CASE Len(stack) = 1 BY <2>2, <3>1, EmptySeq
    <3>2. CASE Len(stack) # 1 BY <1>u, <3>2 DEF Unwind
    <3>3. QED BY <3>1, <3>2
  <2>4. CASE err = "trap" BY <1>9, <2>1, <2>3, <2>4
  <2>5. CASE err # "trap"
    <3>1. fuel' <= fuel BY <1>0, <2>1, SettledType DEF Leave
    <3>2. ticks' = ticks /\ ticks + fuel <= StartFuel
      BY <1>0, <2>1, <2>5 DEF Charge, Owing, Leave
    <3>3. ticks' + fuel' <= StartFuel
      <4>1. \A t, f, g, m \in Nat : g <= f /\ t + f <= m => t + g <= m OBVIOUS
      <4>2. QED BY <1>n, <3>1, <3>2, <4>1
    <3>4. ~Owing' BY <2>1, <2>3, <2>5 DEF Owing
    <3>5. QED BY <1>i, <3>3, <3>4
  <2>6. QED BY <2>4, <2>5
<1>tr. CASE Trap
  <2>1. /\ UNCHANGED <<fuel, jitVars, stack, ticks>>
        /\ err = "none" /\ err' = "trap"
    BY <1>tr DEF Trap, Running
  <2>2. Owing' <=> Owing BY <2>1 DEF Owing, Compiled, Top
  <2>3. QED BY <1>0, <2>1, <2>2 DEF Charge, ChargeDue, Uncharged
\* A back-edge without a check charges nothing, and owes nothing either.
<1>11. CASE JitTableEdge \/ Cancel \/ Expire \/ UNCHANGED vars
  BY <1>0, <1>11 DEF JitTableEdge, Cancel, Expire, vars, Charge, ChargeDue, Uncharged,
     Owing, Compiled, Top
<1>12. QED
  BY <1>1, <1>2, <1>3, <1>4, <1>5, <1>6, <1>7, <1>8, <1>10, <1>u, <1>tr, <1>11
  DEF Next, Advance

\* A module is metered or not for good, and a slow call is not forgotten.
LEMMA MeteredNext ==
    ASSUME TypeOK, [Next]_vars
    PROVE  (HasFuel' => HasFuel) /\ (~slow' => ~slow)
<1>1. fuel \in Fuels /\ jit_fuel - 1 \in Int /\ jit_fuel \in Int BY DEF TypeOK, Fuels
<1>2. fuel = NoFuel => /\ Settled(jit_fuel) = NoFuel
                       /\ Settled(jit_fuel - 1) = NoFuel
  BY <1>1, SettledType
<1>3. fuel = NoFuel => fuel' = NoFuel
  BY <1>2 DEF Next, Invoke, InterpCall, JitCallSlow, Advance, InterpStep, HasFuel,
     JitBackEdge, JitCheckPasses, JitCheckFails, JitTableEdge, JitCallDirect, Return,
     Trap,
     Unwind, Leave, Cancel, Expire, vars
<1>4. slow => slow'
  BY DEF Next, Invoke, InterpCall, JitCallSlow, Advance, InterpStep,
     JitBackEdge, JitCheckPasses, JitCheckFails, JitTableEdge, JitCallDirect, Return,
     Trap,
     Unwind, Leave, Cancel, Expire, vars
<1>5. QED BY <1>3, <1>4 DEF HasFuel

LEMMA CeilingInit == Init => CeilingInv
<1> SUFFICES ASSUME Init, HasFuel PROVE CeilingInv
  BY TypeInit DEF CeilingInv
<1>1. ~Owing BY DEF Init, Owing
<1>2. ticks + fuel <= StartFuel BY BudgetAssumption DEF Init, HasFuel
<1>3. QED BY <1>1, <1>2, TypeInit, ShapeInit DEF CeilingInv, Charge

LEMMA CeilingNext == CeilingInv /\ [Next]_vars => CeilingInv'
<1> SUFFICES ASSUME CeilingInv, [Next]_vars PROVE CeilingInv'
  OBVIOUS
<1>1. TypeOK /\ TypeOK' BY TypeNext DEF CeilingInv
<1>2. ASSUME ~slow', HasFuel' PROVE Shape' /\ Charge'
  <2>1. ~slow /\ HasFuel BY <1>1, <1>2, MeteredNext
  <2>2. Shape /\ Charge BY <2>1 DEF CeilingInv
  <2>3. Shape' BY <1>1, <1>2, <2>2, ShapeNext
  <2>4. Charge' BY <1>1, <1>2, <2>1, <2>2, ChargeNext
  <2>5. QED BY <2>3, <2>4
<1>3. QED BY <1>1, <1>2 DEF CeilingInv

(* consumeInstructionBudget and jitFuelCheckHelper: as long as compiled    *)
(* code calls only code that was compiled before, a module never passes    *)
(* more checkpoints (instructions interpreted, back-edges of compiled      *)
(* code's br, br_if and br_if_not) than its fuel, for every amount of      *)
(* fuel, whatever the intervals of the checks are, over every sequence of  *)
(* invocations, and whatever back-edges without a check come in between.   *)
(* Those are not bounded by anything: emitBrTable charges nothing.         *)
THEOREM FuelCeiling == Spec => []FuelIsCeiling
<1>1. CeilingInv => FuelIsCeiling
  <2> SUFFICES ASSUME CeilingInv, ~slow, HasFuel PROVE ticks <= StartFuel
    BY DEF FuelIsCeiling, FuelLimit
  <2>1. /\ fuel \in Nat /\ jit_fuel \in Int /\ jit_fuel_initial \in Nat
        /\ ticks \in Nat /\ StartFuel \in Nat
    BY BudgetAssumption DEF CeilingInv, TypeOK, HasFuel
  <2>2. QED BY <2>1 DEF CeilingInv, Charge, ChargeDue, Uncharged
<1>2. QED BY CeilingInit, CeilingNext, <1>1, PTL DEF Spec

-----------------------------------------------------------------------------
(***************************************************************************)
(* The other direction: what is charged was executed.  While compiled code *)
(* owes its ticks, they count as charged already.  The one unit that may   *)
(* be charged without being used is the one at which the fuel runs out,    *)
(* and from then on the fuel is zero.  An error of the fuel check leaves   *)
(* jit_fuel as it was, so that the settlement on the way out charges the   *)
(* same ticks again; it does no harm because the fuel is zero already.     *)
(***************************************************************************)
Spent == (StartFuel - fuel) + (IF Owing THEN Uncharged ELSE 0)

Exact ==
    /\ ticks < MaxTicks => Spent <= ticks \/ (fuel = 0 /\ StartFuel <= ticks + 1)
    /\ err = "fuel" => fuel = 0
    /\ err \in {"none", "trap", "fuel"}

ExactInv == CeilingInv /\ (~slow /\ HasFuel /\ ~stopped => Exact)

\* What a settlement of ticks that are still owed leaves: all of them are
\* charged, and the one at which the fuel runs out.
LEMMA SettledExact ==
    ASSUME TypeOK, HasFuel, ChargeDue
    PROVE  /\ StartFuel - Settled(jit_fuel) = (StartFuel - fuel) + Uncharged
           /\ Settled(jit_fuel - 1) = 0 => fuel <= Uncharged + 1
           /\ Settled(jit_fuel - 1) # 0 =>
                 StartFuel - Settled(jit_fuel - 1) = (StartFuel - fuel) + Uncharged + 1
<1>1. /\ fuel \in Nat /\ jit_fuel \in Int /\ jit_fuel_initial \in Nat
      /\ StartFuel \in Nat
  BY BudgetAssumption DEF TypeOK, HasFuel
<1>2. QED BY <1>1 DEF Settled, HasFuel, ChargeDue, Uncharged

LEMMA StoppedNext == [Next]_vars /\ ~stopped' => ~stopped
  BY DEF Next, Invoke, InterpCall, JitCallSlow, Advance, InterpStep,
     JitBackEdge, JitCheckPasses, JitCheckFails, JitTableEdge, JitCallDirect, Return,
     Trap,
     Unwind, Leave, Cancel, Expire, vars

LEMMA ExactArith ==
    \A s, t, u, f, m \in Int :
       /\ s <= t /\ u = t + 1 => s + 1 <= u
       /\ (m - f) + s <= t /\ f <= s + 1 => m <= t + 1
  OBVIOUS

LEMMA ExactNext ==
    ASSUME ~slow', ~stopped', HasFuel, HasFuel', TypeOK, TypeOK', Shape, Charge, Exact,
           [Next]_vars
    PROVE  Exact'
<1> USE DEF jitVars
<1>0. stack \in Seq(Act) /\ HasFuel /\ TypeOK /\ Shape /\ Charge /\ Exact
  BY DEF TypeOK, Act
<1>n. /\ fuel \in Nat /\ jit_fuel \in Int /\ jit_fuel_initial \in Nat /\ ticks \in Nat
      /\ StartFuel \in Nat /\ fuel' \in Nat /\ ticks' \in Nat
      /\ jit_fuel' \in Int /\ jit_fuel_initial' \in Nat /\ MaxTicks \in Nat
  BY BudgetAssumption DEF TypeOK, HasFuel
<1>s. Spent \in Int /\ Spent' \in Int BY <1>n DEF Spent, Uncharged
<1>t. ASSUME Tick, ticks' < MaxTicks PROVE ticks' = ticks + 1 /\ ticks < MaxTicks
  BY <1>n, <1>t DEF Tick
\* Nothing is charged and nothing executed.
<1>k. ASSUME ticks' = ticks, fuel' = fuel, Spent' = Spent,
             err' = "fuel" => err = "fuel" \/ fuel = 0,
             err' \in {"none", "trap", "fuel"}
      PROVE  Exact'
  BY <1>0, <1>k DEF Exact
\* One unit is charged and executed.
<1>u. ASSUME Tick, Spent' = Spent + 1, fuel # 0, err' = "none" PROVE Exact'
  <2>1. ASSUME ticks' < MaxTicks PROVE Spent' <= ticks'
    <3>1. ticks' = ticks + 1 /\ Spent <= ticks BY <1>0, <1>t, <1>u, <2>1 DEF Exact
    <3>2. QED BY <1>n, <1>s, <1>u, <3>1, ExactArith
  <2>2. QED BY <1>u, <2>1 DEF Exact
\* Entering compiled code owes nothing yet.
<1>e. ASSUME armJitFuel(fuel') PROVE Spent' = StartFuel - fuel'
  <2>1. jit_fuel' = jit_fuel_initial' BY <1>e DEF armJitFuel
  <2>2. jit_fuel_initial' - jit_fuel' = 0
    <3>1. \A j \in Nat : j - j = 0 OBVIOUS
    <3>2. QED BY <1>n, <2>1, <3>1
  <2>3. Spent' = (StartFuel - fuel') + 0 BY <2>2 DEF Spent, Uncharged
  <2>4. QED BY <1>n, <2>3
<1>i. ASSUME ~Owing' PROVE Spent' = StartFuel - fuel' BY <1>n, <1>i DEF Spent
<1>j. ASSUME ~Owing PROVE Spent = StartFuel - fuel BY <1>n, <1>j DEF Spent
<1>o. ASSUME Owing PROVE ChargeDue /\ Spent = (StartFuel - fuel) + Uncharged
  BY <1>0, <1>o DEF Charge, Spent
<1>1. ASSUME NEW tier \in Tiers, Invoke(tier) PROVE Exact'
  <2>1. ~Owing /\ UNCHANGED <<fuel, ticks>> /\ err' = "none"
    BY <1>1 DEF Invoke, Owing
  <2>2. CASE tier = "jit"
    <3>1. armJitFuel(fuel') BY <1>1, <2>1, <2>2 DEF Invoke
    <3>2. QED BY <1>e, <1>j, <1>k, <2>1, <3>1
  <2>3. CASE tier = "interp"
    <3>1. stack' = <<Activation(tier)>> BY <1>1 DEF Invoke
    <3>2. Top' = Activation(tier) BY <3>1, SingletonSeq DEF Top
    <3>3. ~Owing' BY <2>3, <3>2 DEF Owing, Compiled, Activation
    <3>4. QED BY <1>i, <1>j, <1>k, <2>1, <3>3
  <2>4. QED BY <1>1, <2>2, <2>3 DEF Invoke
<1>2. ASSUME NEW tier \in Tiers, InterpCall(tier) PROVE Exact'
  <2>1. stack # <<>> /\ Top.tier = "interp" /\ UNCHANGED <<fuel, ticks>> /\ err' = "none"
    BY <1>2 DEF InterpCall, Running
  <2>2. ~Owing BY <2>1 DEF Owing, Compiled
  <2>3. CASE tier = "jit"
    <3>1. armJitFuel(fuel') BY <1>2, <2>1, <2>3 DEF InterpCall
    <3>2. QED BY <1>e, <1>j, <1>k, <2>1, <2>2, <3>1
  <2>4. CASE tier = "interp"
    <3>1. stack' = Append(Marked(FALSE), Activation(tier))
      BY <1>2 DEF InterpCall, Marked
    <3>2. Top' = Activation(tier)
      BY <1>0, <2>1, <3>1, MarkedFacts, ActivationType, PushFacts
    <3>3. ~Owing' BY <2>4, <3>2 DEF Owing, Compiled, Activation
    <3>4. QED BY <1>i, <1>j, <1>k, <2>1, <2>2, <3>3
  <2>5. QED BY <1>2, <2>3, <2>4 DEF InterpCall
<1>3. ASSUME NEW tier \in Tiers, JitCallSlow(tier) PROVE FALSE
  BY <1>3 DEF JitCallSlow
<1>4. CASE InterpStep
  <2>1. stack # <<>> /\ Top.tier = "interp" /\ err = "none"
    BY <1>4 DEF InterpStep, Running
  <2>2. ~Owing BY <2>1 DEF Owing, Compiled
  <2>3. stack' = stack \/ stack' = Marked(TRUE) BY <1>4 DEF InterpStep, Marked
  <2>4. Top'.tier = "interp"
    <3>1. CASE stack' = stack BY <2>1, <3>1 DEF Top
    <3>2. CASE stack' = Marked(TRUE)
      <4>1. Len(stack) \in 1 .. Len(stack) BY <1>0, <2>1, StackFacts
      <4>2. Len(stack') = Len(stack) /\ stack'[Len(stack)].tier = stack[Len(stack)].tier
        BY <1>0, <2>1, <3>2, <4>1, MarkedFacts
      <4>3. QED BY <2>1, <4>2 DEF Top
    <3>3. QED BY <2>3, <3>1, <3>2
  <2>5. ~Owing' BY <2>4 DEF Owing, Compiled
  <2>6. CASE fuel = 0
    <3>1. UNCHANGED <<fuel, ticks>> /\ err' = "fuel"
      BY <1>0, <1>4, <2>6 DEF InterpStep
    <3>2. QED BY <1>i, <1>j, <1>k, <2>2, <2>5, <2>6, <3>1
  <2>7. CASE fuel # 0
    <3>1. fuel' = fuel - 1 /\ Tick /\ err' = "none"
      BY <1>0, <1>4, <2>1, <2>7 DEF InterpStep
    <3>2. Spent' = StartFuel - (fuel - 1) /\ Spent = StartFuel - fuel
      BY <1>i, <1>j, <2>2, <2>5, <3>1
    <3>3. Spent' = Spent + 1 BY <1>n, <3>2
    <3>4. QED BY <1>u, <2>7, <3>1, <3>3
  <2>8. QED BY <2>6, <2>7
<1>5. CASE JitBackEdge
  <2>1. /\ Owing /\ jit_fuel > 0 /\ jit_fuel' = jit_fuel - 1 /\ Tick
        /\ UNCHANGED <<fuel, jit_fuel_initial>> /\ err' = "none"
    BY <1>5 DEF JitBackEdge, Owing, Running
  <2>2. Owing' BY <1>5 DEF JitBackEdge, Running, Owing, Compiled, Top
  <2>3. Spent' = Spent + 1 BY <1>n, <2>1, <2>2 DEF Spent, Uncharged
  <2>4. fuel # 0 BY <1>n, <1>o, <2>1 DEF ChargeDue
  <2>5. QED BY <1>u, <2>1, <2>3, <2>4
<1>6. CASE JitCheckPasses
  <2>1. /\ Owing /\ fuel' = Settled(jit_fuel - 1) /\ fuel' # 0 /\ armJitFuel(fuel')
        /\ Tick /\ err' = "none"
    BY <1>0, <1>6 DEF JitCheckPasses, Owing, Running
  <2>2. Spent' = (StartFuel - fuel) + Uncharged + 1
    BY <1>0, <1>e, <1>o, <2>1, SettledExact
  <2>3. fuel # 0
    <3>1. jit_fuel - 1 \in Int BY <1>n
    <3>2. fuel' <= fuel BY <1>0, <2>1, <3>1, SettledType
    <3>3. QED BY <1>n, <2>1, <3>2
  <2>4. QED BY <1>o, <1>u, <2>1, <2>2, <2>3
<1>7. CASE JitCheckFails
  <2>1. /\ Owing /\ fuel' = 0 /\ Settled(jit_fuel - 1) = 0 /\ ticks' = ticks
        /\ err' = "fuel"
    BY <1>0, <1>7 DEF JitCheckFails, Owing, Running
  <2>2. ChargeDue /\ Spent = (StartFuel - fuel) + Uncharged BY <1>o, <2>1
  <2>3. fuel <= Uncharged + 1 BY <1>0, <2>1, <2>2, SettledExact
  <2>4. ASSUME ticks < MaxTicks PROVE StartFuel <= ticks + 1
    <3>1. Spent <= ticks \/ StartFuel <= ticks + 1 BY <1>0, <2>4 DEF Exact
    <3>2. Uncharged \in Int BY <1>n DEF Uncharged
    <3>3. QED BY <1>n, <2>2, <2>3, <3>1, <3>2, ExactArith
  <2>5. QED BY <2>1, <2>4 DEF Exact
<1>8. CASE JitCallDirect
  <2>1. /\ Owing /\ UNCHANGED <<fuel, jitVars, ticks, err>>
        /\ stack # <<>> /\ stack' = Append(stack, Activation("direct"))
        /\ err = "none"
    BY <1>8 DEF JitCallDirect, Owing, Running
  <2>2. "direct" \in Tiers BY DEF Tiers
  <2>3. stack' # <<>> /\ Top' = Activation("direct")
    BY <1>0, <2>1, <2>2, ActivationType, PushFacts
  <2>4. Owing' BY <2>1, <2>3 DEF Compiled, Owing, Activation
  <2>5. Spent' = Spent BY <2>1, <2>4 DEF Spent, Uncharged
  <2>6. QED BY <1>k, <2>1, <2>5
\* An activation is left by a return or by the unwinding of a trap.
<1>9. ASSUME Leave, stack # <<>>, err \in {"none", "trap"},
             err' = err \/ stack' = <<>>, err' \in {"none", "trap"}
      PROVE  Exact'
  <2>1. ticks' = ticks BY <1>9 DEF Leave
  <2>2. CASE Top.tier = "jit"
    <3>1. Owing BY <1>9, <2>2 DEF Owing, Compiled
    <3>2. fuel' = Settled(jit_fuel) BY <1>9, <2>2 DEF Leave
    <3>3. ~Owing' BY <1>0, <1>9, <2>2, LeaveTop DEF Owing
    <3>4. Spent' = Spent BY <1>0, <1>i, <1>o, <3>1, <3>2, <3>3, SettledExact
    <3>5. fuel = 0 => fuel' = 0
      <4>1. fuel' <= fuel BY <1>0, <1>n, <3>2, SettledType
      <4>2. QED BY <1>n, <4>1
    <3>6. QED BY <1>0, <1>9, <2>1, <3>4, <3>5 DEF Exact
  <2>3. CASE Top.tier = "direct"
    <3>1. Owing BY <1>9, <2>3 DEF Owing, Compiled
    <3>2. UNCHANGED <<fuel, jit_fuel, jit_fuel_initial, ticks>>
      BY <1>9, <2>3 DEF Leave
    <3>3. stack' # <<>>
      <4>1. Len(stack) \in Nat \ {0} /\ Len(stack') = Len(stack) - 1
        BY <1>0, <1>9, StackFacts DEF Leave, Below
      <4>2. Len(stack) # 1 BY <1>0, <1>9, <2>3 DEF Shape, Top
      <4>3. QED BY <4>1, <4>2, EmptySeq
    <3>4. Owing' BY <1>0, <1>9, <2>3, <3>3, LeaveTop DEF Owing
    <3>5. Spent' = Spent BY <3>1, <3>2, <3>4 DEF Spent, Uncharged
    <3>6. QED BY <1>9, <1>k, <3>2, <3>5
  <2>4. CASE Top.tier = "interp"
    <3>1. ~Owing /\ fuel' = fuel BY <1>9, <2>4 DEF Owing, Compiled, Leave
    <3>2. ~Owing' BY <1>0, <1>9, <2>4, LeaveTop DEF Owing
    <3>3. QED BY <1>9, <1>i, <1>j, <1>k, <2>1, <3>1, <3>2
  <2>5. Top.tier \in Tiers
    <3>1. Top \in Act BY <1>0, <1>9, StackFacts DEF Top
    <3>2. QED BY <3>1 DEF Act
  <2>6. QED BY <2>2, <2>3, <2>4, <2>5 DEF Tiers
<1>10. CASE Return BY <1>9, <1>10 DEF Return, Running
<1>11. CASE Unwind
  <2>1. Leave /\ err # "none" /\ stack # <<>> /\ err' \in {err, "none"}
    BY <1>11 DEF Unwind
  <2>2. /\ Len(stack') = Len(stack) - 1 /\ stack' \in Seq(Act)
        /\ Len(stack) \in Nat \ {0}
    BY <1>0, <2>1, StackFacts DEF Leave, Below
  <2>3. err' = err \/ stack' = <<>>
    <3>1. CASE Len(stack) = 1 BY <2>2, <3>1, EmptySeq
    <3>2. CASE Len(stack) # 1 BY <1>11, <3>2 DEF Unwind
    <3>3. QED BY <3>1, <3>2
  <2>4. CASE err = "trap" BY <1>9, <2>1, <2>3, <2>4
  <2>5. CASE err = "fuel"
    <3>1. fuel = 0 /\ ~Owing BY <1>0, <2>5 DEF Exact, Owing
    <3>2. fuel' = 0 /\ ticks' = ticks
      <4>1. fuel' <= fuel BY <1>0, <1>n, <2>1, SettledType DEF Leave
      <4>2. QED BY <1>n, <2>1, <3>1, <4>1 DEF Leave
    <3>3. ~Owing' BY <2>1, <2>3, <2>5 DEF Owing
    <3>4. Spent' = Spent BY <1>i, <1>j, <3>1, <3>2, <3>3
    <3>5. QED BY <1>0, <2>1, <2>5, <3>1, <3>2, <3>4 DEF Exact
  <2>6. QED BY <1>0, <2>1, <2>4, <2>5 DEF Exact
<1>12. CASE Trap
  <2>1. /\ UNCHANGED <<fuel, jitVars, stack, ticks>>
        /\ err = "none" /\ err' = "trap"
    BY <1>12 DEF Trap, Running
  <2>2. Owing' <=> Owing BY <2>1 DEF Owing, Compiled, Top
  <2>3. Spent' = Spent BY <2>1, <2>2 DEF Spent, Uncharged
  <2>4. QED BY <1>k, <2>1, <2>3
<1>13. CASE JitTableEdge \/ Cancel \/ Expire \/ UNCHANGED vars
  <2>1. UNCHANGED <<fuel, jitVars, stack, ticks, err>>
    BY <1>13 DEF JitTableEdge, Cancel, Expire, vars
  <2>2. Owing' <=> Owing BY <2>1 DEF Owing, Compiled, Top
  <2>3. Spent' = Spent BY <2>1, <2>2 DEF Spent, Uncharged
  <2>4. QED BY <1>0, <1>k, <2>1, <2>3 DEF Exact
<1>14. QED
  BY <1>1, <1>2, <1>3, <1>4, <1>5, <1>6, <1>7, <1>8, <1>10, <1>11, <1>12, <1>13
  DEF Next, Advance

(* syncJitFuelBack charges every executed instruction and back-edge only   *)
(* once, for every amount of fuel and every depth of interpreted code that *)
(* calls compiled code: as long as no run is stopped from outside and      *)
(* compiled code calls only code that was compiled before, what is missing *)
(* from the fuel was executed, but for the unit at which it ran out.       *)
THEOREM FuelChargedOnce == Spec => []ChargedOnce
<1>1. Init => ExactInv
  <2> SUFFICES ASSUME Init, HasFuel PROVE Exact
    BY CeilingInit DEF ExactInv
  <2>1. ~Owing /\ fuel = StartFuel /\ ticks = 0 BY DEF Init, Owing, HasFuel
  <2>2. Spent = 0
    <3>1. \A n \in Nat : (n - n) + 0 = 0 OBVIOUS
    <3>2. QED BY <2>1, <3>1, BudgetAssumption DEF Spent
  <2>3. QED BY <2>1, <2>2 DEF Exact, Init
<1>2. ExactInv /\ [Next]_vars => ExactInv'
  <2> SUFFICES ASSUME ExactInv, [Next]_vars PROVE ExactInv'
    OBVIOUS
  <2>1. CeilingInv /\ CeilingInv' BY CeilingNext DEF ExactInv
  <2>2. TypeOK /\ TypeOK' BY <2>1 DEF CeilingInv
  <2>3. ASSUME ~slow', HasFuel', ~stopped' PROVE Exact'
    <3>1. ~slow /\ HasFuel /\ ~stopped BY <2>2, <2>3, MeteredNext, StoppedNext
    <3>2. Shape /\ Charge /\ Exact BY <2>1, <3>1 DEF CeilingInv, ExactInv
    <3>3. QED BY <2>2, <2>3, <3>1, <3>2, ExactNext
  <2>4. QED BY <2>1, <2>3 DEF ExactInv
<1>3. ExactInv => ChargedOnce
  <2> SUFFICES ASSUME ExactInv, HasFuel, ~slow, ~stopped, ticks < MaxTicks
               PROVE  StartFuel - fuel <= ticks + 1
    BY DEF ChargedOnce
  <2>1. /\ fuel \in Nat /\ jit_fuel \in Int /\ jit_fuel_initial \in Nat
        /\ ticks \in Nat /\ StartFuel \in Nat
    BY BudgetAssumption DEF ExactInv, CeilingInv, TypeOK, HasFuel
  <2>2. Spent <= ticks \/ (fuel = 0 /\ StartFuel <= ticks + 1)
    BY DEF ExactInv, Exact
  <2>3. Owing => Uncharged >= 0
    BY <2>1 DEF ExactInv, CeilingInv, Charge, ChargeDue, Uncharged
  <2>4. Uncharged \in Int BY <2>1 DEF Uncharged
  <2>5. CASE Spent <= ticks BY <2>1, <2>3, <2>4, <2>5 DEF Spent
  <2>6. CASE fuel = 0 /\ StartFuel <= ticks + 1 BY <2>1, <2>6
  <2>7. QED BY <2>2, <2>5, <2>6
<1>4. QED BY <1>1, <1>2, <1>3, PTL DEF Spec

-----------------------------------------------------------------------------
(***************************************************************************)
(* Tiering for every function, every pair of thresholds and every size of  *)
(* the register stack: a verdict on compiling stands, and a reentry guard  *)
(* is passed once.                                                         *)
(***************************************************************************)

Verdict(w) == w.jit \/ w.jit_failed \/ w.back_edge_bailed

\* The call counter stops at the threshold, with a verdict.
Decided(w) ==
    /\ w \in WasmFunction
    /\ w.call_count <= HotThreshold
    /\ w.call_count = HotThreshold => w.jit \/ w.jit_failed

\* A function with one reentry guard that no branch goes back over.
OneGuard(p) ==
    \A i, j \in DOMAIN p.code : p.code[i].op = "guard" =>
        /\ p.code[j].op = "guard" => j = i
        /\ p.code[j].op \in BranchOps /\ j > i /\ p.code[j].n > 0 => p.code[j].to > i

\* Every reentry guard lies before pc.
Past(pc) == \A i \in DOMAIN prog.code : prog.code[i].op = "guard" => i < pc

\* An activation that has reached the back-edge threshold has its verdict in
\* w; one that has passed its guard is behind it.
Good(a, w) ==
    /\ a \in TierActivation
    /\ a.pc >= 1
    /\ DOMAIN a.left = DOMAIN prog.code
    /\ \A i \in DOMAIN prog.code : a.left[i] <= prog.code[i].n
    /\ a.edges >= BackEdgeThreshold => Verdict(w)
    /\ a.passed /\ GuardedEarly /\ OneGuard(prog) => Past(a.pc)

Frames(fs, w) == fs \in Seq(TierActivation) /\ \A i \in DOMAIN fs : Good(fs[i], w)

TierInv ==
    /\ prog \in Programs
    /\ Decided(wf)
    /\ Frames(activations, wf)
    /\ mode \in Modes
    /\ entered \in BOOLEAN
    /\ calls \in 0 .. MaxCalls

-----------------------------------------------------------------------------
LEMMA ProgramFacts ==
    ASSUME prog \in Programs
    PROVE  /\ prog \in Program /\ prog.code \in Seq(Instr) /\ prog.reg_count \in Nat
           /\ Len(prog.code) \in Nat /\ DOMAIN prog.code = 1 .. Len(prog.code)
           /\ \A i \in DOMAIN prog.code :
                 /\ prog.code[i] \in Instr /\ prog.code[i].n \in Nat
                 /\ prog.code[i].op \in BranchOps => prog.code[i].to \in Nat /\ prog.code[i].to >= 1
  <1>1. prog \in Program
    BY ProgramAssumption
  <1>2. prog.code \in Seq(Instr) /\ prog.reg_count \in Nat
    BY <1>1 DEF Program
  <1>3. Len(prog.code) \in Nat /\ DOMAIN prog.code = 1 .. Len(prog.code)
    BY <1>2
  <1>4. ASSUME NEW i \in DOMAIN prog.code PROVE prog.code[i] \in Instr /\ prog.code[i].n \in Nat
    <2>1. prog.code[i] \in Instr
      BY <1>2, <1>3
    <2> QED BY <2>1 DEF Instr
  <1>5. ASSUME NEW i \in DOMAIN prog.code, prog.code[i].op \in BranchOps
        PROVE  prog.code[i].to \in Nat /\ prog.code[i].to >= 1
    <2>1. prog.code[i].to \in 1 .. Len(prog.code) + 1
      BY <1>5, ProgramAssumption
    <2> QED BY <1>3, <2>1
  <1> QED BY <1>1, <1>2, <1>3, <1>4, <1>5

LEMMA LocalsFacts ==
    ASSUME prog \in Programs
    PROVE  /\ Locals \in Seq(Nat) /\ DOMAIN Locals = DOMAIN prog.code
           /\ \A i \in DOMAIN prog.code : Locals[i] <= prog.code[i].n
  <1>1. /\ Len(prog.code) \in Nat /\ DOMAIN prog.code = 1 .. Len(prog.code)
        /\ \A i \in DOMAIN prog.code : prog.code[i].n \in Nat
    BY ProgramFacts
  <1>2. /\ DOMAIN Locals = DOMAIN prog.code
        /\ \A i \in DOMAIN prog.code : Locals[i] = prog.code[i].n
    BY <1>1 DEF Locals
  <1>3. Locals \in Seq(Nat)
    BY <1>1 DEF Locals
  <1> QED BY <1>1, <1>2, <1>3

\* hasReentryGuard looks at the whole window.
LEMMA EarlyIsSeen ==
    ASSUME prog \in Programs, GuardedEarly
    PROVE  hasReentryGuard
  <1>1. Len(prog.code) \in Nat /\ GuardWindow \in Nat
    BY ProgramFacts, ThresholdAssumption
  <1>2. PICK i \in 1 .. Len(prog.code) : i <= GuardWindow /\ prog.code[i].op = "guard"
    BY DEF GuardedEarly
  <1>3. i \in Before(GuardWindow + 1)
    BY <1>1, <1>2 DEF Before
  <1> QED BY <1>2, <1>3 DEF hasReentryGuard

-----------------------------------------------------------------------------
(* A verdict stands *)

LEMMA ConvertedKeeps ==
    ASSUME NEW w, Decided(w)
    PROVE  Decided(Converted(w)) /\ (Verdict(w) <=> Verdict(Converted(w)))
  BY DEF Decided, WasmFunction, Verdict, Converted

LEMMA CompileDecides ==
    ASSUME NEW w, Decided(w), NEW osr \in Nat, NEW c \in compileFunction(w, osr)
    PROVE  /\ Decided(c) /\ (c.jit \/ c.jit_failed) /\ c.call_count = w.call_count
           /\ c.osr = 0 \/ c.osr = osr
  <1>1. w \in WasmFunction /\ w.call_count <= HotThreshold
    BY DEF Decided
  <1>2. CASE c = [w EXCEPT !.jit = TRUE, !.osr = osr]
    <2>1. c \in WasmFunction /\ c.jit /\ c.call_count = w.call_count /\ c.osr = osr
      BY <1>1, <1>2 DEF WasmFunction
    <2> QED BY <1>1, <2>1 DEF Decided
  <1>3. CASE c = [w EXCEPT !.jit = FALSE, !.osr = 0, !.jit_failed = TRUE]
    <2>1. c \in WasmFunction /\ c.jit_failed /\ c.call_count = w.call_count /\ c.osr = 0
      BY <1>1, <1>3 DEF WasmFunction
    <2> QED BY <1>1, <2>1 DEF Decided
  <1> QED BY <1>2, <1>3 DEF compileFunction

LEMMA CountedDecides ==
    ASSUME NEW w, Decided(w), NEW c \in Counted(w)
    PROVE  Decided(c) /\ (Verdict(w) => Verdict(c))
  <1> DEFINE d == [w EXCEPT !.call_count = @ + 1]
  <1>1. CASE w.jit \/ w.jit_failed
    BY <1>1 DEF Counted
  <1>2. CASE ~(w.jit \/ w.jit_failed)
    <2>1. w.call_count \in Nat /\ w.call_count < HotThreshold /\ HotThreshold \in Nat
      BY <1>2, ThresholdAssumption DEF Decided, WasmFunction
    <2>2. /\ d \in WasmFunction /\ d.call_count = w.call_count + 1
          /\ d.jit = w.jit /\ d.jit_failed = w.jit_failed
          /\ d.back_edge_bailed = w.back_edge_bailed
      BY <2>1 DEF Decided, WasmFunction
    <2>3. c \in IF d.call_count < HotThreshold THEN {d}
                ELSE IF TooBig THEN {[d EXCEPT !.jit_failed = TRUE]}
                ELSE compileFunction(d, 0)
      BY <1>2 DEF Counted
    <2> HIDE DEF d
    <2>4. CASE d.call_count < HotThreshold
      BY <2>1, <2>2, <2>3, <2>4 DEF Decided, Verdict
    <2>5. CASE d.call_count >= HotThreshold
      <3>1. d.call_count = HotThreshold
        BY <2>1, <2>2, <2>5
      <3>2. c \in {[d EXCEPT !.jit_failed = TRUE], [d EXCEPT !.jit = TRUE, !.osr = 0],
                   [d EXCEPT !.jit = FALSE, !.osr = 0, !.jit_failed = TRUE]}
        BY <2>1, <2>3, <3>1 DEF compileFunction
      <3>3. c \in WasmFunction /\ c.call_count = d.call_count /\ (c.jit \/ c.jit_failed)
        <4>1. CASE c = [d EXCEPT !.jit_failed = TRUE]
          BY <2>2, <4>1 DEF WasmFunction
        <4>2. CASE c = [d EXCEPT !.jit = TRUE, !.osr = 0]
          BY <2>2, <4>2 DEF WasmFunction
        <4>3. CASE c = [d EXCEPT !.jit = FALSE, !.osr = 0, !.jit_failed = TRUE]
          BY <2>2, <4>3 DEF WasmFunction
        <4> QED BY <3>2, <4>1, <4>2, <4>3
      <3> QED BY <2>1, <3>1, <3>3 DEF Decided, Verdict
    <2> QED BY <2>1, <2>2, <2>4, <2>5
  <1> QED BY <1>1, <1>2

-----------------------------------------------------------------------------
(* Activations *)

LEMMA GoodKeeps ==
    ASSUME NEW a, NEW w, NEW v, Good(a, w), Verdict(w) => Verdict(v)
    PROVE  Good(a, v)
  BY DEF Good

LEMMA FramesKeep ==
    ASSUME NEW fs, NEW w, NEW v, Frames(fs, w), Verdict(w) => Verdict(v)
    PROVE  Frames(fs, v)
  BY GoodKeeps DEF Frames

LEMMA FramesAppend ==
    ASSUME NEW fs, NEW w, Frames(fs, w), NEW a, Good(a, w)
    PROVE  Frames(Append(fs, a), w)
  <1>1. fs \in Seq(TierActivation) /\ a \in TierActivation
    BY DEF Frames, Good
  <1>2. Append(fs, a) \in Seq(TierActivation)
    BY <1>1
  <1>3. Len(fs) \in Nat /\ DOMAIN fs = 1 .. Len(fs) /\ DOMAIN Append(fs, a) = 1 .. Len(fs) + 1
    BY <1>1
  <1>4. ASSUME NEW i \in DOMAIN Append(fs, a) PROVE Good(Append(fs, a)[i], w)
    <2>1. CASE i \in DOMAIN fs
      <3>1. Append(fs, a)[i] = fs[i]
        BY <1>1, <1>3, <2>1
      <3> QED BY <2>1, <3>1 DEF Frames
    <2>2. CASE i = Len(fs) + 1
      <3>1. Append(fs, a)[i] = a
        BY <1>1, <1>3, <2>2
      <3> QED BY <3>1
    <2> QED BY <1>3, <2>1, <2>2
  <1> QED BY <1>2, <1>4 DEF Frames

LEMMA NoFrames == \A w : Frames(<< >>, w)
  BY DEF Frames

\* The innermost activation and its callers.
LEMMA TopFacts ==
    ASSUME NEW w, Frames(activations, w), activations # << >>
    PROVE  Good(Innermost, w) /\ Frames(Callers, w)
  <1>1. activations \in Seq(TierActivation)
    BY DEF Frames
  <1>2. Len(activations) \in Nat \ {0} /\ DOMAIN activations = 1 .. Len(activations)
    BY <1>1, EmptySeq
  <1>3. Good(Innermost, w)
    BY <1>2 DEF Frames, Innermost
  <1>4. Callers \in Seq(TierActivation) /\ \A i \in DOMAIN Callers : i \in DOMAIN activations /\ Callers[i] = activations[i]
    BY <1>1, <1>2 DEF Callers
  <1> QED BY <1>3, <1>4 DEF Frames

LEMMA SetTopFrames ==
    ASSUME NEW w, NEW v, Frames(activations, w), activations # << >>, Verdict(w) => Verdict(v),
           NEW a, Good(a, v)
    PROVE  Frames(SetTop(a), v)
  <1>1. Frames(Callers, v)
    BY TopFacts, FramesKeep
  <1> QED BY <1>1, FramesAppend DEF SetTop

\* Entering a function in any tier.
LEMMA ExecuteKeeps ==
    ASSUME prog \in Programs, NEW tier \in ExecTiers, NEW fs, NEW w, NEW m \in Modes, NEW arg \in Nat,
           Decided(w), Frames(fs, w), Execute(tier, fs, w, m, arg)
    PROVE  Decided(wf') /\ Frames(activations', wf') /\ wf' = w
  <1> DEFINE new == [tier |-> tier, pc |-> 1, left |-> Locals, edges |-> 0,
               jit_eligible |-> /\ tier = "regir"
                                /\ m = "normal"
                                /\ ~w.jit
                                /\ ~w.jit_failed
                                /\ ~w.back_edge_bailed,
               base |-> RegPtr(fs), arg |-> arg, effects |-> 0,
               passed |-> FALSE]
  <1>1. wf' = w /\ (activations' = << >> \/ activations' = Append(fs, new))
    BY DEF Execute, UnwindAll
  <1>2. RegPtr(fs) \in Nat
    <2>1. CASE fs = << >>
      BY <2>1 DEF RegPtr
    <2>2. CASE fs # << >>
      <3>1. PICK a : a = fs[Len(fs)]
        OBVIOUS
      <3>2. a \in TierActivation
        <4>1. fs \in Seq(TierActivation)
          BY DEF Frames
        <4>2. Len(fs) \in DOMAIN fs
          BY <2>2, <4>1, EmptySeq
        <4> QED BY <3>1, <4>1, <4>2
      <3>3. prog.reg_count \in Nat /\ JitSlots \in Nat
        BY ProgramFacts, ThresholdAssumption
      <3>4. RegsNeeded(a.tier) \in Nat
        <4>1. a.tier \in {"stack", "regir", "jit"}
          BY <3>2 DEF TierActivation, ExecTiers
        <4> QED BY <3>3, <4>1 DEF RegsNeeded
      <3>5. a.base \in Nat
        BY <3>2 DEF TierActivation
      <3>6. RegPtr(fs) = a.base + RegsNeeded(a.tier)
        BY <2>2, <3>1 DEF RegPtr
      <3> QED BY <3>4, <3>5, <3>6
    <2> QED BY <2>1, <2>2
  <1>3. Locals \in Seq(Nat) /\ DOMAIN Locals = DOMAIN prog.code
        /\ \A i \in DOMAIN prog.code : Locals[i] <= prog.code[i].n
    BY LocalsFacts
  <1>4. new \in TierActivation
    <2>1. PICK e : e = (tier = "regir" /\ m = "normal" /\ ~w.jit /\ ~w.jit_failed /\ ~w.back_edge_bailed)
      OBVIOUS
    <2>2. e \in BOOLEAN
      BY <2>1
    <2>3. new = [tier |-> tier, pc |-> 1, left |-> Locals, edges |-> 0, jit_eligible |-> e,
                 base |-> RegPtr(fs), arg |-> arg, effects |-> 0, passed |-> FALSE]
      BY <2>1
    <2> HIDE DEF new
    <2> QED BY <1>2, <1>3, <2>2, <2>3 DEF TierActivation
  <1>5. Good(new, w)
    <2>1. new.pc = 1 /\ new.left = Locals /\ new.edges = 0 /\ ~new.passed
      OBVIOUS
    <2>2. ~(0 >= BackEdgeThreshold)
      BY ThresholdAssumption
    <2> HIDE DEF new
    <2> QED BY <1>3, <1>4, <2>1, <2>2 DEF Good
  <1> HIDE DEF new
  <1> QED BY <1>1, <1>5, FramesAppend, NoFrames

LEMMA CallFunctionKeeps ==
    ASSUME prog \in Programs, NEW fs, NEW m \in Modes, NEW arg \in Nat,
           Decided(wf), Frames(fs, wf), callFunction(fs, m, arg)
    PROVE  Decided(wf') /\ Frames(activations', wf')
  <1>1. CASE UnwindAll /\ UNCHANGED wf
    BY <1>1, NoFrames DEF UnwindAll
  <1>2. CASE LET w == IF prog.v128 THEN wf ELSE Converted(wf)
             IN  IF prog.v128 \/ m = "forced" \/ w.reg_ir # "ok"
                 THEN Execute("stack", fs, w, m, arg)
                 ELSE \E c \in IF m = "normal" THEN Counted(w) ELSE {w} :
                        Execute(IF Native(c, m) THEN "jit" ELSE "regir", fs, c, m, arg)
    <2>1. PICK w : w = IF prog.v128 THEN wf ELSE Converted(wf)
      OBVIOUS
    <2>2. Decided(w) /\ (Verdict(wf) => Verdict(w))
      BY <2>1, ConvertedKeeps
    <2>3. Frames(fs, w)
      BY <2>2, FramesKeep
    <2>4. CASE Execute("stack", fs, w, m, arg)
      <3>1. "stack" \in ExecTiers
        BY DEF ExecTiers
      <3> QED BY <2>2, <2>3, <2>4, <3>1, ExecuteKeeps
    <2>5. CASE \E c \in IF m = "normal" THEN Counted(w) ELSE {w} :
                  Execute(IF Native(c, m) THEN "jit" ELSE "regir", fs, c, m, arg)
      <3>1. PICK c \in IF m = "normal" THEN Counted(w) ELSE {w} :
               Execute(IF Native(c, m) THEN "jit" ELSE "regir", fs, c, m, arg)
        BY <2>5
      <3>2. Decided(c) /\ (Verdict(w) => Verdict(c))
        BY <2>2, CountedDecides
      <3>3. Frames(fs, c)
        BY <2>3, <3>2, FramesKeep
      <3>4. PICK tier \in ExecTiers : Execute(tier, fs, c, m, arg)
        BY <3>1 DEF ExecTiers
      <3> QED BY <3>2, <3>3, <3>4, ExecuteKeeps
    <2> QED BY <1>2, <2>1, <2>4, <2>5
  <1> QED BY <1>1, <1>2 DEF callFunction

LEMMA DoCallDirectIRKeeps ==
    ASSUME prog \in Programs, NEW fs, NEW m \in Modes, NEW arg \in Nat,
           Decided(wf), Frames(fs, wf), doCallDirectIR(fs, m, arg)
    PROVE  Decided(wf') /\ Frames(activations', wf')
  <1>1. CASE UnwindAll /\ UNCHANGED wf
    BY <1>1, NoFrames DEF UnwindAll
  <1>2. CASE LET w == Converted(wf)
             IN  \E c \in IF w.reg_ir = "ok" /\ m = "normal" THEN Counted(w) ELSE {w} :
                   Execute(IF /\ w.reg_ir = "ok" /\ Native(c, m)
                              /\ prog.params <= MaxJitParams
                           THEN "jit" ELSE "stack", fs, c, m, arg)
    <2>1. PICK w : w = Converted(wf)
      OBVIOUS
    <2>2. Decided(w) /\ (Verdict(wf) => Verdict(w))
      BY <2>1, ConvertedKeeps
    <2>3. Frames(fs, w)
      BY <2>2, FramesKeep
    <2>4. PICK c \in IF w.reg_ir = "ok" /\ m = "normal" THEN Counted(w) ELSE {w} :
             Execute(IF /\ w.reg_ir = "ok" /\ Native(c, m)
                        /\ prog.params <= MaxJitParams
                     THEN "jit" ELSE "stack", fs, c, m, arg)
      BY <1>2, <2>1
    <2>5. Decided(c) /\ (Verdict(w) => Verdict(c))
      BY <2>2, CountedDecides
    <2>6. Frames(fs, c)
      BY <2>3, <2>5, FramesKeep
    <2>7. PICK tier \in ExecTiers : Execute(tier, fs, c, m, arg)
      BY <2>4 DEF ExecTiers
    <2> QED BY <2>5, <2>6, <2>7, ExecuteKeeps
  <1> QED BY <1>1, <1>2 DEF doCallDirectIR

LEMMA JitSelfCallKeeps ==
    ASSUME prog \in Programs, NEW fs, NEW m \in Modes, NEW arg \in Nat,
           Decided(wf), Frames(fs, wf), jitSelfCall(fs, m, arg)
    PROVE  Decided(wf') /\ Frames(activations', wf')
  <1>1. CASE UnwindAll /\ UNCHANGED wf
    BY <1>1, NoFrames DEF UnwindAll
  <1>2. CASE Execute("jit", fs, wf, m, arg)
    <2>1. "jit" \in ExecTiers
      BY DEF ExecTiers
    <2>2. PICK w : w = wf
      OBVIOUS
    <2> QED BY <1>2, <2>1, <2>2, ExecuteKeeps
  <1> QED BY <1>1, <1>2 DEF jitSelfCall

-----------------------------------------------------------------------------
(* The steps of an activation *)

\* It goes forward, or stays, in its code.
LEMMA GoodMoves ==
    ASSUME NEW a, NEW w, Good(a, w), prog \in Programs, NEW b \in TierActivation,
           b.pc >= a.pc, b.left = a.left, b.edges = a.edges, b.passed = a.passed
    PROVE  Good(b, w)
  <1>1. a.pc \in Nat /\ b.pc \in Nat /\ b.pc >= 1
    BY DEF Good, TierActivation
  <1>2. Past(a.pc) => Past(b.pc)
    BY <1>1, ProgramFacts DEF Past
  <1> QED BY <1>1, <1>2 DEF Good

LEMMA SteppedFacts ==
    ASSUME NEW a \in TierActivation
    PROVE  /\ Stepped(a) \in TierActivation /\ Stepped(a).pc = a.pc + 1
           /\ Stepped(a).left = a.left /\ Stepped(a).edges = a.edges
           /\ Stepped(a).passed = a.passed /\ Stepped(a).effects = a.effects
  <1>1. PICK n : n = a.pc + 1
    OBVIOUS
  <1>2. n \in Nat
    BY <1>1 DEF TierActivation
  <1>3. Stepped(a) = [a EXCEPT !.pc = n]
    BY <1>1 DEF Stepped
  <1>4. [a EXCEPT !.pc = n] \in TierActivation
    BY <1>2 DEF TierActivation
  <1>5. /\ [a EXCEPT !.pc = n].pc = n /\ [a EXCEPT !.pc = n].left = a.left
        /\ [a EXCEPT !.pc = n].edges = a.edges /\ [a EXCEPT !.pc = n].passed = a.passed
        /\ [a EXCEPT !.pc = n].effects = a.effects
    BY DEF TierActivation
  <1> QED BY <1>1, <1>3, <1>4, <1>5

LEMMA AtFacts ==
    ASSUME TierInv, NEW ops, At(ops)
    PROVE  /\ activations # << >> /\ Good(Innermost, wf) /\ Innermost \in TierActivation
           /\ Innermost.pc \in DOMAIN prog.code /\ Innermost.pc \in Nat
           /\ prog.code[Innermost.pc].op \in ops
  <1>1. activations # << >> /\ Innermost.pc <= Len(prog.code) /\ prog.code[Innermost.pc].op \in ops
    BY DEF At
  <1>2. Good(Innermost, wf)
    BY <1>1, TopFacts DEF TierInv
  <1>3. Innermost \in TierActivation /\ Innermost.pc \in Nat /\ Innermost.pc >= 1
    BY <1>2 DEF Good, TierActivation
  <1> QED BY <1>1, <1>2, <1>3, ProgramFacts DEF TierInv

\* TierInv' from what a step does to the function and its activations.
LEMMA InvFromFrames ==
    ASSUME TierInv, UNCHANGED prog, Decided(wf'), Frames(activations', wf'),
           mode' \in Modes, entered' \in BOOLEAN, calls' \in 0 .. MaxCalls
    PROVE  TierInv'
  <1>1. Decided(wf)'
    BY DEF Decided
  <1>2. ASSUME NEW i \in DOMAIN activations' PROVE Good(activations[i], wf)'
    <2>1. PICK a, w : a = activations'[i] /\ w = wf'
      OBVIOUS
    <2>2. Good(a, w)
      BY <2>1 DEF Frames
    <2>3. Good(a, w)'
      BY <2>2 DEF Good, Past, OneGuard, GuardedEarly
    <2> QED BY <2>1, <2>3
  <1>3. Frames(activations, wf)'
    BY <1>2 DEF Frames
  <1> QED BY <1>1, <1>3 DEF TierInv

LEMMA InvokeKeeps == TierInv /\ InvokeFunction => TierInv'
  <1> SUFFICES ASSUME TierInv, InvokeFunction PROVE TierInv'
    OBVIOUS
  <1>1. PICK m, arg : m = mode' /\ arg \in 0 .. MaxArg /\ callFunction(<< >>, m, arg)
    BY DEF InvokeFunction
  <1>2. m \in Modes /\ arg \in Nat /\ calls' \in 0 .. MaxCalls
    BY <1>1, ThresholdAssumption DEF InvokeFunction, TierInv
  <1>3. Decided(wf') /\ Frames(activations', wf')
    BY <1>1, <1>2, NoFrames, CallFunctionKeeps DEF TierInv
  <1> QED BY <1>1, <1>2, <1>3, InvFromFrames DEF InvokeFunction, TierInv

LEMMA PlainKeeps == TierInv /\ Plain => TierInv'
  <1> SUFFICES ASSUME TierInv, Plain PROVE TierInv'
    OBVIOUS
  <1>1. PICK a, op : a = Innermost /\ op = prog.code[a.pc].op
    OBVIOUS
  <1>2. /\ activations # << >> /\ Good(a, wf) /\ a \in TierActivation /\ a.pc \in Nat
    BY <1>1, AtFacts DEF Plain
  <1>3. PICK b : b = [Stepped(a) EXCEPT !.effects = IF op \in EffectOps THEN @ + 1 ELSE @]
    OBVIOUS
  <1>4. /\ b \in TierActivation /\ b.pc = a.pc + 1 /\ b.left = a.left /\ b.edges = a.edges
        /\ b.passed = a.passed
    <2>1. PICK s : s = Stepped(a)
      OBVIOUS
    <2>2. /\ s \in TierActivation /\ s.pc = a.pc + 1 /\ s.left = a.left /\ s.edges = a.edges
          /\ s.passed = a.passed
      BY <1>2, <2>1, SteppedFacts
    <2>3. PICK e : e = IF op \in EffectOps THEN s.effects + 1 ELSE s.effects
      OBVIOUS
    <2>4. b = [s EXCEPT !.effects = e] /\ e \in Nat
      BY <1>3, <2>1, <2>2, <2>3 DEF TierActivation
    <2> QED BY <2>2, <2>4 DEF TierActivation
  <1>5. Good(b, wf)
    BY <1>2, <1>4, GoodMoves DEF TierInv
  <1>6. activations' = SetTop(b) /\ wf' = wf
    BY <1>1, <1>3 DEF Plain
  <1>7. Frames(activations', wf')
    BY <1>2, <1>5, <1>6, SetTopFrames DEF TierInv
  <1>8. entered' \in BOOLEAN
    BY DEF Plain
  <1> QED BY <1>6, <1>7, <1>8, InvFromFrames DEF Plain, TierInv

\* The one guard is behind an activation that has just passed it.
LEMMA GuardKeeps == TierInv /\ Guard => TierInv'
  <1> SUFFICES ASSUME TierInv, Guard PROVE TierInv'
    OBVIOUS
  <1>1. PICK a : a = Innermost
    OBVIOUS
  <1>2. /\ activations # << >> /\ Good(a, wf) /\ a \in TierActivation /\ a.pc \in Nat
        /\ a.pc \in DOMAIN prog.code /\ prog.code[a.pc].op = "guard"
    BY <1>1, AtFacts DEF Guard
  <1>3. PICK b : b = [Stepped(a) EXCEPT !.passed = TRUE]
    OBVIOUS
  <1>4. b \in TierActivation /\ b.pc = a.pc + 1 /\ b.left = a.left /\ b.edges = a.edges
    <2>1. PICK s : s = Stepped(a)
      OBVIOUS
    <2>2. /\ s \in TierActivation /\ s.pc = a.pc + 1 /\ s.left = a.left /\ s.edges = a.edges
      BY <1>2, <2>1, SteppedFacts
    <2> QED BY <1>3, <2>1, <2>2 DEF TierActivation
  <1>5. OneGuard(prog) => Past(b.pc)
    <2>1. ASSUME OneGuard(prog), NEW i \in DOMAIN prog.code, prog.code[i].op = "guard"
          PROVE  i = a.pc
      BY <1>2, <2>1 DEF OneGuard
    <2> QED BY <1>2, <1>4, <2>1 DEF Past
  <1>6. Good(b, wf)
    BY <1>2, <1>4, <1>5 DEF Good
  <1>7. wf' = wf /\ (activations' = SetTop(b) \/ activations' = << >>)
    BY <1>1, <1>3 DEF Guard, UnwindAll
  <1>8. Frames(activations', wf')
    BY <1>2, <1>6, <1>7, SetTopFrames, NoFrames DEF TierInv
  <1> QED BY <1>7, <1>8, InvFromFrames DEF Guard, TierInv

LEMMA ReturnKeeps == TierInv /\ ReturnToCaller => TierInv'
  <1> SUFFICES ASSUME TierInv, ReturnToCaller PROVE TierInv'
    OBVIOUS
  <1>1. Frames(activations', wf')
    BY TopFacts DEF ReturnToCaller, AtEnd, TierInv
  <1> QED BY <1>1, InvFromFrames DEF ReturnToCaller, TierInv

LEMMA SelfCallKeeps == TierInv /\ SelfCall => TierInv'
  <1> SUFFICES ASSUME TierInv, SelfCall PROVE TierInv'
    OBVIOUS
  <1>1. PICK a : a = Innermost
    OBVIOUS
  <1>2. /\ activations # << >> /\ Good(a, wf) /\ a \in TierActivation /\ a.pc \in Nat
    BY <1>1, AtFacts DEF SelfCall
  <1>3. CASE a.arg = 0
    <2>1. PICK b : b = Stepped(a)
      OBVIOUS
    <2>2. /\ b \in TierActivation /\ b.pc = a.pc + 1 /\ b.left = a.left /\ b.edges = a.edges
          /\ b.passed = a.passed
      BY <1>2, <2>1, SteppedFacts
    <2>3. Good(b, wf)
      BY <1>2, <2>2, GoodMoves DEF TierInv
    <2>4. activations' = SetTop(b) /\ wf' = wf
      BY <1>1, <1>3, <2>1 DEF SelfCall
    <2>5. Frames(activations', wf')
      BY <1>2, <2>3, <2>4, SetTopFrames DEF TierInv
    <2> QED BY <2>4, <2>5, InvFromFrames DEF SelfCall, TierInv
  <1>4. CASE a.arg # 0
    <2>1. PICK b : b = [Stepped(a) EXCEPT !.effects = @ + 1]
      OBVIOUS
    <2>2. /\ b \in TierActivation /\ b.pc = a.pc + 1 /\ b.left = a.left /\ b.edges = a.edges
          /\ b.passed = a.passed
      <3>1. PICK s : s = Stepped(a)
        OBVIOUS
      <3>2. /\ s \in TierActivation /\ s.pc = a.pc + 1 /\ s.left = a.left /\ s.edges = a.edges
            /\ s.passed = a.passed
        BY <1>2, <3>1, SteppedFacts
      <3>3. PICK n : n = s.effects + 1
        OBVIOUS
      <3>4. n \in Nat
        BY <3>2, <3>3 DEF TierActivation
      <3>5. b = [s EXCEPT !.effects = n]
        BY <2>1, <3>1, <3>3
      <3>6. b \in TierActivation
        BY <3>2, <3>4, <3>5 DEF TierActivation
      <3>7. b.pc = s.pc /\ b.left = s.left /\ b.edges = s.edges /\ b.passed = s.passed
        BY <3>2, <3>5 DEF TierActivation
      <3> QED BY <3>2, <3>6, <3>7
    <2>3. Good(b, wf)
      BY <1>2, <2>2, GoodMoves DEF TierInv
    <2>4. PICK fs, m, arg : fs = SetTop(b) /\ m = mode /\ arg = a.arg - 1
      OBVIOUS
    <2>5. Frames(fs, wf)
      BY <1>2, <2>3, <2>4, SetTopFrames DEF TierInv
    <2>6. m \in Modes /\ arg \in Nat /\ a.tier \in {"stack", "regir", "jit"}
      BY <1>2, <1>4, <2>4 DEF TierInv, TierActivation, ExecTiers
    <2>7. doCallDirectIR(fs, m, arg) \/ callFunction(fs, m, arg) \/ jitSelfCall(fs, m, arg)
      BY <1>1, <1>4, <2>1, <2>4, <2>6 DEF SelfCall
    <2>8. Decided(wf') /\ Frames(activations', wf')
      BY <2>5, <2>6, <2>7, DoCallDirectIRKeeps, CallFunctionKeeps, JitSelfCallKeeps DEF TierInv
    <2> QED BY <2>8, InvFromFrames DEF SelfCall, TierInv
  <1> QED BY <1>3, <1>4

\* A branch keeps an activation behind its guard, and its trips in bounds.
LEMMA BranchedGood ==
    ASSUME NEW a, NEW w, Good(a, w), prog \in Programs, a.pc \in DOMAIN prog.code,
           prog.code[a.pc].op \in BranchOps
    PROVE  Good(Branched(a), w) /\ Branched(a).edges = a.edges
  <1>1. /\ a \in TierActivation /\ a.pc \in Nat /\ a.left \in Seq(Nat)
        /\ DOMAIN a.left = DOMAIN prog.code
        /\ \A i \in DOMAIN prog.code : a.left[i] <= prog.code[i].n
    BY DEF Good, TierActivation
  <1>2. /\ prog.code[a.pc].n \in Nat /\ prog.code[a.pc].to \in Nat /\ prog.code[a.pc].to >= 1
        /\ Len(prog.code) \in Nat /\ DOMAIN prog.code = 1 .. Len(prog.code)
        /\ \A i \in DOMAIN prog.code : prog.code[i].n \in Nat
    BY ProgramFacts
  <1>3. a.left[a.pc] \in Nat
    BY <1>1
  <1>4. PICK k, pc :
          /\ Branched(a) = [a EXCEPT !.left = [a.left EXCEPT ![a.pc] = k], !.pc = pc]
          /\ \/ a.left[a.pc] > 0 /\ k = a.left[a.pc] - 1 /\ pc = prog.code[a.pc].to
             \/ k = prog.code[a.pc].n /\ pc = a.pc + 1
    <2>1. CASE a.left[a.pc] > 0
      <3>1. Branched(a) = [a EXCEPT !.left = [a.left EXCEPT ![a.pc] = a.left[a.pc] - 1],
                                    !.pc = prog.code[a.pc].to]
        BY <1>1, <2>1 DEF Branched
      <3> QED BY <2>1, <3>1
    <2>2. CASE ~(a.left[a.pc] > 0)
      <3>1. Branched(a) = [a EXCEPT !.left = [a.left EXCEPT ![a.pc] = prog.code[a.pc].n],
                                    !.pc = a.pc + 1]
        BY <1>1, <2>2 DEF Branched
      <3> QED BY <3>1
    <2> QED BY <2>1, <2>2
  <1>5. k \in Nat /\ k <= prog.code[a.pc].n /\ pc \in Nat /\ pc >= 1
    <2>1. CASE a.left[a.pc] > 0 /\ k = a.left[a.pc] - 1 /\ pc = prog.code[a.pc].to
      <3>1. a.left[a.pc] <= prog.code[a.pc].n
        BY <1>1
      <3> QED BY <1>2, <1>3, <2>1, <3>1
    <2>2. CASE k = prog.code[a.pc].n /\ pc = a.pc + 1
      BY <1>1, <1>2, <2>2
    <2> QED BY <1>4, <2>1, <2>2
  <1>6. PICK l : l = [a.left EXCEPT ![a.pc] = k]
    OBVIOUS
  <1>7. /\ l \in Seq(Nat) /\ DOMAIN l = DOMAIN prog.code
        /\ \A i \in DOMAIN prog.code : l[i] <= prog.code[i].n
    <2>1. l \in Seq(Nat) /\ DOMAIN l = DOMAIN a.left
      BY <1>1, <1>5, <1>6
    <2> QED BY <1>1, <1>5, <1>6, <2>1
  <1>8. PICK b : b = [a EXCEPT !.left = l, !.pc = pc]
    OBVIOUS
  <1>9. /\ b \in TierActivation /\ b.pc = pc /\ b.left = l /\ b.edges = a.edges
        /\ b.passed = a.passed
    BY <1>1, <1>5, <1>7, <1>8 DEF TierActivation
  <1>10. OneGuard(prog) /\ Past(a.pc) => Past(pc)
    <2>1. ASSUME OneGuard(prog), Past(a.pc), NEW i \in DOMAIN prog.code, prog.code[i].op = "guard"
          PROVE  i < pc
      <3>1. i < a.pc /\ i \in Nat
        BY <1>2, <2>1 DEF Past
      <3>2. CASE a.left[a.pc] > 0 /\ pc = prog.code[a.pc].to
        <4>1. prog.code[a.pc].n > 0
          BY <1>1, <1>2, <1>3, <3>2
        <4> QED BY <1>1, <1>2, <2>1, <3>1, <3>2, <4>1 DEF OneGuard
      <3>3. CASE pc = a.pc + 1
        BY <1>1, <3>1, <3>3
      <3> QED BY <1>4, <3>2, <3>3
    <2> QED BY <2>1 DEF Past
  <1>11. Good(b, w)
    BY <1>5, <1>7, <1>9, <1>10 DEF Good
  <1>12. Branched(a) = b
    BY <1>4, <1>6, <1>8
  <1> QED BY <1>9, <1>11, <1>12

\* The activation with one more back-edge, once there is a verdict.
LEMMA EdgeFacts ==
    ASSUME NEW a \in TierActivation, NEW b, b = [a EXCEPT !.edges = @ + 1]
    PROVE  /\ b \in TierActivation /\ b.edges = a.edges + 1 /\ b.pc = a.pc /\ b.left = a.left
           /\ b.passed = a.passed
  <1>1. PICK e : e = a.edges + 1
    OBVIOUS
  <1>2. e \in Nat /\ b = [a EXCEPT !.edges = e]
    BY <1>1 DEF TierActivation
  <1>3. b \in TierActivation
    BY <1>2 DEF TierActivation
  <1>4. b.edges = e /\ b.pc = a.pc /\ b.left = a.left /\ b.passed = a.passed
    BY <1>2 DEF TierActivation
  <1> QED BY <1>1, <1>3, <1>4

LEMMA EdgeGood ==
    ASSUME NEW a, NEW w, Good(a, w), NEW b \in TierActivation, NEW v,
           b.edges = a.edges + 1, b.pc = a.pc, b.left = a.left, b.passed = a.passed,
           Verdict(v) \/ (v = w /\ b.edges # BackEdgeThreshold)
    PROVE  Good(b, v)
  <1>1. a.edges \in Nat /\ BackEdgeThreshold \in Nat
    BY ThresholdAssumption DEF Good, TierActivation
  <1>2. b.edges >= BackEdgeThreshold => Verdict(v)
    BY <1>1 DEF Good
  <1> QED BY <1>2 DEF Good

\* The back-edge that reaches the threshold brings the verdict.  A restart
\* from the first instruction happens in a function without a guard only.
LEMMA HotLoopKeeps ==
    ASSUME TierInv, activations # << >>, NEW a \in TierActivation,
           \A v : Verdict(v) => Good(a, v), HotLoop(a)
    PROVE  Decided(wf') /\ Frames(activations', wf')
  <1>1. wf \in WasmFunction /\ Decided(wf) /\ prog \in Programs /\ Frames(activations, wf)
    BY DEF TierInv, Decided
  <1>2. CASE wf' = [wf EXCEPT !.jit_failed = TRUE] /\ activations' = SetTop(a)
    <2>1. /\ wf' \in WasmFunction /\ wf'.jit_failed /\ wf'.call_count = wf.call_count
      BY <1>1, <1>2 DEF WasmFunction
    <2>2. PICK v : v = wf'
      OBVIOUS
    <2>3. Decided(v) /\ Verdict(v)
      BY <1>1, <2>1, <2>2 DEF Decided, Verdict
    <2>4. Frames(SetTop(a), v)
      BY <1>1, <2>3, SetTopFrames
    <2> QED BY <1>2, <2>2, <2>3, <2>4
  <1>3. CASE wf' = [wf EXCEPT !.back_edge_bailed = TRUE] /\ activations' = SetTop(a)
    <2>1. /\ wf' \in WasmFunction /\ wf'.back_edge_bailed /\ wf'.call_count = wf.call_count
          /\ wf'.jit = wf.jit /\ wf'.jit_failed = wf.jit_failed
      BY <1>1, <1>3 DEF WasmFunction
    <2>2. PICK v : v = wf'
      OBVIOUS
    <2>3. Decided(v) /\ Verdict(v)
      BY <1>1, <2>1, <2>2 DEF Decided, Verdict
    <2>4. Frames(SetTop(a), v)
      BY <1>1, <2>3, SetTopFrames
    <2> QED BY <1>3, <2>2, <2>3, <2>4
  <1>4. CASE /\ ~hasReentryGuard
             /\ wf' \in compileFunction(wf, IF hasPrologueSideEffects(a.pc) THEN a.pc ELSE 0)
             /\ activations' = IF wf'.jit THEN Restarted(a) ELSE SetTop(a)
    <2>1. PICK v : v = wf'
      OBVIOUS
    <2>2. PICK osr \in Nat : v \in compileFunction(wf, osr) /\ (osr = 0 \/ osr = a.pc)
      <3>1. a.pc \in Nat
        BY DEF TierActivation
      <3> QED BY <1>4, <2>1, <3>1
    <2>3. Decided(v) /\ Verdict(v)
      BY <1>1, <2>2, CompileDecides DEF Verdict
    <2>4. Good(a, v)
      BY <2>3
    <2>5. v.osr = 0 \/ v.osr = a.pc
      BY <1>1, <2>2, CompileDecides
    <2>6. ~GuardedEarly
      BY <1>1, <1>4, EarlyIsSeen
    <2>7. CASE activations' = << >>
      BY <2>1, <2>3, <2>7, NoFrames
    <2>8. CASE activations' = SetTop(a)
      <3>1. Frames(SetTop(a), v)
        BY <1>1, <2>3, <2>4, SetTopFrames
      <3> QED BY <2>1, <2>3, <2>8, <3>1
    <2>9. CASE v.osr # 0 /\ activations' = SetTop([a EXCEPT !.tier = "jit", !.pc = v.osr])
      <3>1. PICK b : b = [a EXCEPT !.tier = "jit", !.pc = v.osr]
        OBVIOUS
      <3>2. v.osr = a.pc /\ a.pc \in Nat
        BY <2>5, <2>9 DEF TierActivation
      <3>3. /\ b \in TierActivation /\ b.pc = a.pc /\ b.left = a.left /\ b.edges = a.edges
            /\ b.passed = a.passed
        BY <3>1, <3>2 DEF TierActivation, ExecTiers
      <3>4. Good(b, v)
        BY <2>4, <3>3 DEF Good
      <3>5. Frames(SetTop(b), v)
        BY <1>1, <2>3, <3>4, SetTopFrames
      <3> QED BY <2>1, <2>3, <2>9, <3>1, <3>5
    <2>10. CASE activations' = SetTop([a EXCEPT !.tier = "jit", !.pc = 1, !.left = Locals])
      <3>1. PICK b : b = [a EXCEPT !.tier = "jit", !.pc = 1, !.left = Locals]
        OBVIOUS
      <3>2. Locals \in Seq(Nat) /\ DOMAIN Locals = DOMAIN prog.code
            /\ \A i \in DOMAIN prog.code : Locals[i] <= prog.code[i].n
        BY <1>1, LocalsFacts
      <3>3. b \in TierActivation /\ b.pc = 1 /\ b.left = Locals /\ b.edges = a.edges
        BY <3>1, <3>2 DEF TierActivation, ExecTiers
      <3>4. Good(b, v)
        BY <2>3, <2>6, <3>2, <3>3 DEF Good
      <3>5. Frames(SetTop(b), v)
        BY <1>1, <2>3, <3>4, SetTopFrames
      <3> QED BY <2>1, <2>3, <2>10, <3>1, <3>5
    <2> QED BY <1>4, <2>1, <2>7, <2>8, <2>9, <2>10 DEF Restarted
  <1> QED BY <1>2, <1>3, <1>4 DEF HotLoop

LEMMA BranchKeeps == TierInv /\ Branch => TierInv'
  <1> SUFFICES ASSUME TierInv, Branch PROVE TierInv'
    OBVIOUS
  <1>1. PICK t, a : t = Innermost /\ a = Branched(t)
    OBVIOUS
  <1>2. /\ activations # << >> /\ Good(t, wf) /\ t.pc \in DOMAIN prog.code
        /\ prog.code[t.pc].op \in BranchOps
    BY <1>1, AtFacts DEF Branch
  <1>3. Good(a, wf)
    BY <1>1, <1>2, BranchedGood DEF TierInv
  <1>4. CASE activations' = SetTop(a) /\ UNCHANGED wf
    <2>1. Frames(SetTop(a), wf)
      BY <1>2, <1>3, SetTopFrames DEF TierInv
    <2> QED BY <1>4, <2>1, InvFromFrames DEF Branch, TierInv
  <1>5. CASE checkBackEdgeJit(a)
    <2>1. PICK b : b = [a EXCEPT !.edges = @ + 1]
      OBVIOUS
    <2>2. a \in TierActivation
      BY <1>3 DEF Good
    <2>3. /\ b \in TierActivation /\ b.edges = a.edges + 1 /\ b.pc = a.pc /\ b.left = a.left
          /\ b.passed = a.passed
      BY <2>1, <2>2, EdgeFacts
    <2>4. ASSUME NEW v, Verdict(v) PROVE Good(b, v)
      <3>1. PICK w : w = wf
        OBVIOUS
      <3> QED BY <1>3, <2>3, <2>4, <3>1, EdgeGood
    <2>5. CASE b.edges = BackEdgeThreshold
      <3>1. HotLoop(b)
        BY <1>5, <2>1, <2>5 DEF checkBackEdgeJit
      <3>2. Decided(wf') /\ Frames(activations', wf')
        BY <1>2, <2>3, <2>4, <3>1, HotLoopKeeps
      <3> QED BY <3>2, InvFromFrames DEF Branch, TierInv
    <2>6. CASE b.edges # BackEdgeThreshold
      <3>1. activations' = SetTop(b) /\ UNCHANGED wf
        BY <1>5, <2>1, <2>6 DEF checkBackEdgeJit
      <3>2. Good(b, wf)
        <4>1. PICK w : w = wf
          OBVIOUS
        <4> QED BY <1>3, <2>3, <2>6, <4>1, EdgeGood
      <3>3. Frames(SetTop(b), wf)
        BY <1>2, <3>2, SetTopFrames DEF TierInv
      <3> QED BY <3>1, <3>3, InvFromFrames DEF Branch, TierInv
    <2> QED BY <2>5, <2>6
  <1> QED BY <1>1, <1>4, <1>5 DEF Branch

-----------------------------------------------------------------------------
LEMMA TierInitInv == TierInit => TierInv
  <1> SUFFICES ASSUME TierInit PROVE TierInv
    OBVIOUS
  <1>1. wf \in WasmFunction /\ wf.call_count = 0
    BY DEF TierInit, WasmFunction
  <1>2. Decided(wf)
    BY <1>1, ThresholdAssumption DEF Decided
  <1>3. Frames(activations, wf)
    BY NoFrames DEF TierInit
  <1>4. entered \in BOOLEAN /\ calls \in 0 .. MaxCalls /\ mode \in Modes
    <2>1. entered = FALSE /\ calls = 0 /\ mode = "normal"
      BY DEF TierInit
    <2>2. entered \in BOOLEAN
      BY <2>1
    <2> QED BY <2>1, <2>2, ThresholdAssumption DEF Modes
  <1> QED BY <1>2, <1>3, <1>4 DEF TierInit, TierInv

LEMMA TierInvStep == TierInv /\ [TierNext]_tierVars => TierInv'
  <1> SUFFICES ASSUME TierInv, [TierNext]_tierVars PROVE TierInv'
    OBVIOUS
  <1>1. CASE UNCHANGED tierVars
    BY <1>1, InvFromFrames DEF tierVars, TierInv
  <1> QED BY <1>1, InvokeKeeps, PlainKeeps, GuardKeeps, BranchKeeps, SelfCallKeeps, ReturnKeeps
          DEF TierNext

\* TierInv holds in every reachable state.
LEMMA TierInvAlways == TierSpec => []TierInv
  BY TierInitInv, TierInvStep, PTL DEF TierSpec

-----------------------------------------------------------------------------
(* The record of the function and those of its activations keep their types *)
(* for every function and every depth of recursion (WasmFunction and        *)
(* executeRegIR).                                                           *)
THEOREM TierTypes == TierSpec => []TierTypeOK
  <1>1. TierInv => TierTypeOK
    BY DEF TierInv, TierTypeOK, Decided, Frames
  <1> QED BY <1>1, TierInvAlways, PTL

(* The verdict on compiling stands, for every function and all thresholds:  *)
(* whichever activation decides, from however old a jit_eligible, a         *)
(* function whose calls or back-edges have reached the threshold has code   *)
(* or is not tried again there (callFunction, checkBackEdgeJit).            *)
THEOREM HotIsAlwaysDecided == TierSpec => []HotIsDecided
  <1>1. TierInv => HotIsDecided
    <2> SUFFICES ASSUME TierInv PROVE HotIsDecided
      OBVIOUS
    <2>1. activations \in Seq(TierActivation) /\ DOMAIN activations = 1 .. Len(activations)
      BY DEF TierInv, Frames
    <2>2. \A i \in 1 .. Len(activations) :
             activations[i].edges >= BackEdgeThreshold => Verdict(wf)
      BY <2>1 DEF TierInv, Frames, Good
    <2> QED BY <2>2 DEF TierInv, Decided, Verdict, HotIsDecided
  <1> QED BY <1>1, TierInvAlways, PTL

(* Functions with one reentry guard in the window hasReentryGuard looks at, *)
(* which no branch goes back over: no restart, on-stack replacement or      *)
(* recursion makes an activation meet the guard again (checkBackEdgeJit).   *)
THEOREM GuardIsPassedOnce ==
    ASSUME \A p \in Programs : OneGuard(p)
    PROVE  TierSpec => []GuardPassedOnce
  <1>1. TierInv => GuardPassedOnce
    <2> SUFFICES ASSUME TierInv, GuardedEarly, At({"guard"}), Innermost.passed PROVE FALSE
      BY DEF GuardPassedOnce
    <2>1. /\ Good(Innermost, wf) /\ Innermost.pc \in DOMAIN prog.code /\ Innermost.pc \in Nat
          /\ prog.code[Innermost.pc].op = "guard"
      BY AtFacts
    <2>2. Past(Innermost.pc)
      BY <2>1 DEF Good, TierInv
    <2> QED BY <2>1, <2>2 DEF Past
  <1> QED BY <1>1, TierInvAlways, PTL

(* Both together, as the run composes them: the budget's counters and the   *)
(* tiers' records keep their types for all constants and every program, and *)
(* fuel never underflows (syncJitFuelBack, executeRegIR).                   *)
THEOREM EngineTypes == MCSpec => []EngineTypesOK
<1>1. MCInit => TypeOK /\ TierInv BY TypeInit, TierInitInv DEF MCInit
<1>2. TypeOK /\ TierInv /\ [MCNext]_<<vars, tierVars>> => (TypeOK /\ TierInv)'
  <2>1. MCNext => [Next]_vars /\ [TierNext]_tierVars BY DEF MCNext
  <2>2. [MCNext]_<<vars, tierVars>> => [Next]_vars /\ [TierNext]_tierVars BY <2>1
  <2>3. QED BY <2>2, TypeNext, TierInvStep
<1>3. TypeOK /\ TierInv => EngineTypesOK BY DEF TierInv, TierTypeOK, Decided, Frames, EngineTypesOK
<1>4. QED BY <1>1, <1>2, <1>3, PTL DEF MCSpec

-----------------------------------------------------------------------------
(***************************************************************************)
(* Effects.  The reference, EffectsFrom, follows the instructions from a   *)
(* state to the end of the function.  It is defined for every function,    *)
(* because every execution ends: a set of states that no step leaves, and  *)
(* in which none is at the end, is empty.                                  *)
(***************************************************************************)
Gain(s, arg) == IF HasEffect(prog.code[s.pc].op, arg) THEN 1 ELSE 0
MState(a) == [pc |-> a.pc, left |-> a.left]

\* A non-empty set of numbers has a least one.
LEMMA LeastOf ==
    ASSUME NEW S, S \subseteq Nat, S # {}
    PROVE  \E x \in S : \A y \in S : x <= y
<1>1. PICK x \in S : \A y \in S : ~(<<y, x>> \in OpToRel(<, Nat))
  BY NatLessThanWellFounded, WFMin
<1>2. \A y \in S : x <= y
  <2> TAKE y \in S
  <2>1. x \in Nat /\ y \in Nat OBVIOUS
  <2>2. ~(y < x) BY <1>1, <2>1 DEF OpToRel
  <2>3. QED BY <2>1, <2>2
<1>3. QED BY <1>2

\* One instruction of the reference: on to the next, or a branch that uses up
\* one of its trips.
Onward(s, t) ==
    /\ t.pc = s.pc + 1 /\ \A i \in 1 .. Len(prog.code) : i # s.pc => t.left[i] = s.left[i]
Taken(s, t) ==
    /\ prog.code[s.pc].op \in BranchOps /\ s.left[s.pc] > 0
    /\ t.pc = prog.code[s.pc].to /\ t.left[s.pc] = s.left[s.pc] - 1
    /\ \A i \in 1 .. Len(prog.code) : i # s.pc => t.left[i] = s.left[i]

LEMMA RefStepFacts ==
    ASSUME prog \in Programs, NEW s \in Machine, s.pc <= Len(prog.code)
    PROVE  RefStep(s) \in Machine /\ (Onward(s, RefStep(s)) \/ Taken(s, RefStep(s)))
<1>. DEFINE n == Len(prog.code)
<1>1. /\ n \in Nat /\ DOMAIN prog.code = 1 .. n
      /\ \A i \in 1 .. n : prog.code[i].n \in Nat
  BY ProgramFacts
<1>2. s.pc \in 1 .. n /\ s.left \in [1 .. n -> Nat] /\ s.left[s.pc] \in Nat
  <2>1. s.pc \in 1 .. n + 1 /\ s.left \in [1 .. n -> Nat] BY DEF Machine
  <2>2. s.pc \in 1 .. n BY <1>1, <2>1
  <2>3. QED BY <2>1, <2>2
<1>3. prog.code[s.pc].op \in BranchOps => prog.code[s.pc].to \in 1 .. n + 1
  BY <1>1, <1>2, ProgramAssumption
<1>4. CASE prog.code[s.pc].op \notin BranchOps
  <2>1. RefStep(s) = [s EXCEPT !.pc = s.pc + 1] BY <1>4 DEF RefStep, Stepped
  <2>2. RefStep(s).pc = s.pc + 1 /\ RefStep(s).left = s.left /\ RefStep(s) \in Machine
    BY <1>1, <1>2, <2>1 DEF Machine
  <2>3. QED BY <2>2 DEF Onward
<1>5. CASE prog.code[s.pc].op \in BranchOps /\ s.left[s.pc] > 0
  <2>1. PICK l : l = [s.left EXCEPT ![s.pc] = s.left[s.pc] - 1] OBVIOUS
  <2>2. RefStep(s) = [s EXCEPT !.left = l, !.pc = prog.code[s.pc].to]
    BY <1>2, <1>5, <2>1 DEF RefStep, Branched, Machine
  <2>3. s.left[s.pc] - 1 \in Nat BY <1>2, <1>5
  <2>4. /\ l \in [1 .. n -> Nat] /\ l[s.pc] = s.left[s.pc] - 1
        /\ \A i \in 1 .. n : i # s.pc => l[i] = s.left[i]
    BY <1>2, <2>1, <2>3
  <2>5. RefStep(s).pc = prog.code[s.pc].to /\ RefStep(s).left = l /\ RefStep(s) \in Machine
    BY <1>3, <1>5, <2>2, <2>4 DEF Machine
  <2>6. QED BY <1>5, <2>4, <2>5 DEF Taken
<1>6. CASE prog.code[s.pc].op \in BranchOps /\ ~(s.left[s.pc] > 0)
  <2>1. PICK l : l = [s.left EXCEPT ![s.pc] = prog.code[s.pc].n] OBVIOUS
  <2>2. RefStep(s) = [s EXCEPT !.left = l, !.pc = s.pc + 1]
    BY <1>2, <1>6, <2>1 DEF RefStep, Branched, Machine
  <2>3. /\ l \in [1 .. n -> Nat] /\ \A i \in 1 .. n : i # s.pc => l[i] = s.left[i]
    BY <1>1, <1>2, <2>1
  <2>4. PICK pc : pc = s.pc + 1 OBVIOUS
  <2>5. pc \in 1 .. n + 1 BY <1>1, <1>2, <2>4
  <2>6. RefStep(s) = [s EXCEPT !.left = l, !.pc = pc] BY <2>2, <2>4
  <2>7. RefStep(s).pc = pc /\ RefStep(s).left = l /\ RefStep(s) \in Machine
    BY <2>3, <2>5, <2>6 DEF Machine
  <2>8. RefStep(s).pc = s.pc + 1 /\ RefStep(s).left = l /\ RefStep(s) \in Machine
    BY <2>4, <2>7
  <2>9. QED BY <2>3, <2>8 DEF Onward
<1>7. QED BY <1>4, <1>5, <1>6

\* A set of states that goes on for ever.
Endless(C) == C \in SUBSET Machine /\ \A s \in C : s.pc <= Len(prog.code) /\ RefStep(s) \in C

\* There is none.  Let m be the last instruction that one of them comes to,
\* for the C where it comes earliest; the trips left at m never grow within C,
\* so the states with the fewest go on for ever without coming to m.
LEMMA ExecutionEnds ==
    ASSUME prog \in Programs, NEW C, Endless(C)
    PROVE  C = {}
<1>. DEFINE n == Len(prog.code)
            EndsBy(m) == \E D : Endless(D) /\ D # {} /\ \A s \in D : s.pc <= m
            S == {m \in Nat : EndsBy(m)}
<1>0. n \in Nat BY ProgramFacts
<1>1. ASSUME C # {} PROVE n \in S
  <2>1. \A s \in C : s.pc <= n BY DEF Endless
  <2>2. QED BY <1>0, <1>1, <2>1
<1>2. ASSUME NEW m \in S, \A k \in S : m <= k PROVE FALSE
  <2>1. PICK D : Endless(D) /\ D # {} /\ \A s \in D : s.pc <= m BY <1>2
  <2>. HIDE DEF S, EndsBy
  <2>2. m \in Nat BY <1>2 DEF S
  <2>3. \A s \in D : s \in Machine /\ s.pc \in 1 .. n /\ s.left \in [1 .. n -> Nat]
    <3>. TAKE s \in D
    <3>1. s \in Machine /\ s.pc <= n BY <2>1 DEF Endless
    <3>2. s.pc \in 1 .. n + 1 /\ s.left \in [1 .. n -> Nat] BY <3>1 DEF Machine
    <3>3. QED BY <1>0, <3>1, <3>2
  <2>4. m - 1 \in Nat
    <3>1. PICK s \in D : TRUE BY <2>1
    <3>2. s.pc \in 1 .. n /\ s.pc <= m BY <2>1, <2>3
    <3>3. QED BY <1>0, <2>2, <3>2
  <2>5. ASSUME NEW E, Endless(E), E # {}, E \subseteq D, \A s \in E : s.pc # m PROVE FALSE
    <3>1. \A s \in E : s.pc <= m - 1
      <4>. TAKE s \in E
      <4>1. s.pc \in 1 .. n /\ s.pc <= m /\ s.pc # m BY <2>1, <2>3, <2>5
      <4>2. QED BY <1>0, <2>2, <4>1
    <3>2. m - 1 \in S BY <2>4, <2>5, <3>1 DEF S, EndsBy
    <3>3. m <= m - 1 BY <1>2, <3>2
    <3>4. QED BY <2>2, <3>3
  <2>6. CASE \A s \in D : s.pc # m BY <2>1, <2>5, <2>6
  <2>7. CASE \E s \in D : s.pc = m
    <3>1. m \in 1 .. n BY <2>3, <2>7
    <3>. DEFINE Trips == {s.left[m] : s \in D}
    <3>2. Trips \subseteq Nat BY <2>3, <3>1
    <3>3. Trips # {} BY <2>1
    <3>4. PICK t \in Trips : \A u \in Trips : t <= u BY <3>2, <3>3, LeastOf
    <3>. DEFINE E == {s \in D : s.left[m] = t}
    <3>5. E # {} /\ E \subseteq D BY <3>4
    <3>6. ASSUME NEW s \in E PROVE s.pc # m /\ RefStep(s) \in E
      <4>1. s \in D /\ s.left[m] = t /\ s \in Machine /\ s.pc <= n /\ s.pc \in 1 .. n /\ RefStep(s) \in D
        BY <2>1, <2>3 DEF Endless
      <4>2. PICK r : r = RefStep(s) OBVIOUS
      <4>3. r \in D /\ r.pc <= m /\ t <= r.left[m] /\ t \in Nat /\ r.left[m] \in Nat
        <5>1. r \in D /\ r.left[m] \in Trips BY <4>1, <4>2
        <5>2. QED BY <2>1, <3>2, <3>4, <5>1
      <4>4. Onward(s, r) \/ Taken(s, r) BY <4>1, <4>2, RefStepFacts
      <4>. HIDE DEF E, Trips
      <4>5. s.pc # m
        <5>1. SUFFICES ASSUME s.pc = m PROVE FALSE OBVIOUS
        <5>2. CASE Onward(s, r)
          <6>1. r.pc = m + 1 BY <5>1, <5>2 DEF Onward
          <6>2. QED BY <2>2, <4>3, <6>1
        <5>3. CASE Taken(s, r)
          <6>1. r.left[m] = t - 1 BY <4>1, <5>1, <5>3 DEF Taken
          <6>2. QED BY <4>3, <6>1
        <5>4. QED BY <4>4, <5>2, <5>3
      <4>6. r.left[m] = t BY <3>1, <4>1, <4>4, <4>5 DEF Onward, Taken
      <4>7. r \in E BY <4>3, <4>6 DEF E
      <4>8. QED BY <4>2, <4>5, <4>7
    <3>7. Endless(E)
      <4>1. ASSUME NEW s \in E PROVE s \in Machine /\ s.pc <= n BY <2>1 DEF Endless
      <4>. HIDE DEF E
      <4>2. QED BY <3>6, <4>1 DEF Endless
    <3>. HIDE DEF E
    <3>8. QED BY <2>5, <3>5, <3>6, <3>7
  <2>8. QED BY <2>6, <2>7
<1>. HIDE DEF S, EndsBy
<1>3. S \subseteq Nat BY DEF S
<1>4. S = {}
  <2>1. SUFFICES ASSUME S # {} PROVE FALSE OBVIOUS
  <2>2. PICK m \in S : \A k \in S : m <= k BY <1>3, <2>1, LeastOf
  <2>3. QED BY <1>2, <2>2
<1>5. QED BY <1>1, <1>4

\* A solution of the equation of EffectsFrom on a part of the states.
Counting(D, g, arg) ==
    /\ D \in SUBSET Machine /\ g \in [D -> Nat]
    /\ \A s \in D : IF s.pc > Len(prog.code) THEN g[s] = 0
                    ELSE RefStep(s) \in D /\ g[s] = g[RefStep(s)] + Gain(s, arg)

\* Two of them agree.
LEMMA CountingAgrees ==
    ASSUME prog \in Programs, NEW arg, NEW D, NEW g, NEW E, NEW h, Counting(D, g, arg), Counting(E, h, arg)
    PROVE  \A s \in D \cap E : g[s] = h[s]
<1>. DEFINE C == {s \in D \cap E : g[s] # h[s]}
<1>0. Len(prog.code) \in Nat BY ProgramFacts
<1>1. ASSUME NEW s \in C PROVE s \in Machine /\ s.pc <= Len(prog.code) /\ RefStep(s) \in C
  <2>1. s \in Machine /\ s \in D /\ s \in E /\ g[s] # h[s] BY DEF Counting
  <2>2. s.pc \in Nat BY <1>0, <2>1 DEF Machine
  <2>3. ~(s.pc > Len(prog.code)) BY <2>1 DEF Counting
  <2>4. /\ RefStep(s) \in D /\ g[s] = g[RefStep(s)] + Gain(s, arg)
        /\ RefStep(s) \in E /\ h[s] = h[RefStep(s)] + Gain(s, arg)
    BY <2>1, <2>3 DEF Counting
  <2>5. g[RefStep(s)] # h[RefStep(s)] BY <2>1, <2>4
  <2>6. QED BY <1>0, <2>1, <2>2, <2>3, <2>4, <2>5
<1>2. C \in SUBSET Machine BY <1>1
<1>. HIDE DEF C
<1>3. Endless(C) BY <1>1, <1>2 DEF Endless
<1>4. C = {} BY <1>3, ExecutionEnds
<1>5. QED BY <1>4 DEF C

\* Every state is in one of them.
LEMMA CountingCovers ==
    ASSUME prog \in Programs, NEW arg
    PROVE  \A s \in Machine : \E D, g : Counting(D, g, arg) /\ s \in D
<1>. DEFINE Covered(s) == \E D, g : Counting(D, g, arg) /\ s \in D
            C == {s \in Machine : ~Covered(s)}
<1>0. Len(prog.code) \in Nat BY ProgramFacts
<1>1. ASSUME NEW s \in Machine, s.pc > Len(prog.code) PROVE Covered(s)
  <2>. DEFINE g == [r \in {s} |-> 0]
  <2>1. g \in [{s} -> Nat] /\ g[s] = 0 OBVIOUS
  <2>. HIDE DEF g
  <2>2. Counting({s}, g, arg) BY <1>1, <2>1 DEF Counting
  <2>3. QED BY <2>2
<1>2. ASSUME NEW s \in Machine, s.pc <= Len(prog.code), Covered(RefStep(s)) PROVE Covered(s)
  <2>0. s.pc \in Nat BY <1>0 DEF Machine
  <2>1. PICK D, g : Counting(D, g, arg) /\ RefStep(s) \in D BY <1>2
  <2>2. CASE s \in D BY <2>1, <2>2
  <2>3. CASE s \notin D
    <3>. DEFINE E == D \cup {s}
                v == g[RefStep(s)] + Gain(s, arg)
                h == [r \in E |-> IF r = s THEN v ELSE g[r]]
    <3>1. D \in SUBSET Machine /\ g \in [D -> Nat] BY <2>1 DEF Counting
    <3>2. v \in Nat
      <4>1. g[RefStep(s)] \in Nat BY <2>1, <3>1
      <4>2. Gain(s, arg) \in {0, 1} BY DEF Gain
      <4>3. QED BY <4>1, <4>2
    <3>. HIDE DEF v
    <3>3. h \in [E -> Nat] /\ E \in SUBSET Machine BY <3>1, <3>2
    <3>4. h[s] = v /\ \A r \in D : h[r] = g[r] BY <2>3
    <3>. HIDE DEF h
    <3>5. ASSUME NEW r \in E
          PROVE  IF r.pc > Len(prog.code) THEN h[r] = 0
                 ELSE RefStep(r) \in E /\ h[r] = h[RefStep(r)] + Gain(r, arg)
      <4>1. CASE r \in D
        <5>1. IF r.pc > Len(prog.code) THEN g[r] = 0
              ELSE RefStep(r) \in D /\ g[r] = g[RefStep(r)] + Gain(r, arg)
          BY <2>1, <4>1 DEF Counting
        <5>2. QED BY <3>4, <4>1, <5>1
      <4>2. CASE r = s
        <5>1. ~(s.pc > Len(prog.code)) BY <1>0, <1>2, <2>0
        <5>2. h[s] = h[RefStep(s)] + Gain(s, arg) BY <2>1, <3>4 DEF v
        <5>3. QED BY <2>1, <4>2, <5>1, <5>2
      <4>3. QED BY <3>5, <4>1, <4>2
    <3>6. s \in E OBVIOUS
    <3>. HIDE DEF E
    <3>7. Counting(E, h, arg) BY <3>3, <3>5 DEF Counting
    <3>8. QED BY <3>6, <3>7
  <2>4. QED BY <2>2, <2>3
<1>. HIDE DEF Covered
<1>3. ASSUME NEW s \in C PROVE s \in Machine /\ s.pc <= Len(prog.code) /\ RefStep(s) \in C
  <2>1. s \in Machine /\ ~Covered(s) OBVIOUS
  <2>2. s.pc \in Nat BY <1>0, <2>1 DEF Machine
  <2>3. s.pc <= Len(prog.code) BY <1>0, <1>1, <2>1, <2>2
  <2>4. RefStep(s) \in Machine BY <2>1, <2>3, RefStepFacts
  <2>5. ~Covered(RefStep(s)) BY <1>2, <2>1, <2>3
  <2>6. QED BY <2>1, <2>3, <2>4, <2>5
<1>4. C \in SUBSET Machine OBVIOUS
<1>. HIDE DEF C
<1>5. Endless(C) BY <1>3, <1>4 DEF Endless
<1>6. C = {} BY <1>5, ExecutionEnds
<1>7. \A s \in Machine : Covered(s) BY <1>6 DEF C
<1>8. QED BY <1>7 DEF Covered

\* So EffectsFrom is what its equation says.
LEMMA EffectsFromUnfold ==
    ASSUME prog \in Programs, NEW arg
    PROVE  \A s \in Machine :
              EffectsFrom(arg)[s] = IF s.pc > Len(prog.code) THEN 0
                                    ELSE EffectsFrom(arg)[RefStep(s)] + Gain(s, arg)
<1>. DEFINE E(g, s) == IF s.pc > Len(prog.code) THEN 0 ELSE g[RefStep(s)] + Gain(s, arg)
            G == [s \in Machine |-> CHOOSE k : \E D, g : Counting(D, g, arg) /\ s \in D /\ k = g[s]]
<1>1. ASSUME NEW D, NEW g, Counting(D, g, arg), NEW s \in D PROVE G[s] = g[s]
  <2>1. s \in Machine BY <1>1 DEF Counting
  <2>2. G[s] = CHOOSE k : \E F, h : Counting(F, h, arg) /\ s \in F /\ k = h[s] BY <2>1
  <2>. HIDE DEF G
  <2>3. PICK F, h : Counting(F, h, arg) /\ s \in F /\ G[s] = h[s] BY <1>1, <2>2
  <2>4. QED BY <1>1, <2>3, CountingAgrees
<1>3. G = [s \in Machine |-> G[s]] OBVIOUS
<1>. HIDE DEF G
<1>2. ASSUME NEW s \in Machine PROVE G[s] = E(G, s)
  <2>1. PICK D, g : Counting(D, g, arg) /\ s \in D BY CountingCovers
  <2>2. G[s] = g[s] BY <1>1, <2>1
  <2>3. CASE s.pc > Len(prog.code) BY <2>1, <2>2, <2>3 DEF Counting
  <2>4. CASE ~(s.pc > Len(prog.code))
    <3>1. RefStep(s) \in D /\ g[s] = g[RefStep(s)] + Gain(s, arg) BY <2>1, <2>4 DEF Counting
    <3>2. G[RefStep(s)] = g[RefStep(s)] BY <1>1, <2>1, <3>1
    <3>3. QED BY <2>2, <2>4, <3>1, <3>2
  <2>5. QED BY <2>3, <2>4
<1>4. G = [s \in Machine |-> E(G, s)] BY <1>2, <1>3
<1>5. EffectsFrom(arg) = CHOOSE g : g = [s \in Machine |-> E(g, s)] BY DEF EffectsFrom, Gain
<1>. HIDE DEF E
<1>6. \E g : g = [s \in Machine |-> E(g, s)] BY <1>4
<1>7. EffectsFrom(arg) = [s \in Machine |-> E(EffectsFrom(arg), s)] BY <1>5, <1>6, Zenon
<1>8. \A s \in Machine : EffectsFrom(arg)[s] = E(EffectsFrom(arg), s) BY <1>7
<1>9. QED BY <1>8 DEF E

LEMMA SameReference ==
    ASSUME prog' = prog, NEW arg
    PROVE  EffectsFrom(arg)' = EffectsFrom(arg) /\ RefEffects(arg)' = RefEffects(arg)
<1>1. EffectsFrom(arg)' = EffectsFrom(arg)
  BY DEF EffectsFrom, Machine, RefStep, Branched, Stepped, HasEffect
<1>2. Locals' = Locals BY DEF Locals
<1>3. QED BY <1>1, <1>2 DEF RefEffects

\* What the reference counts is a number.
LEMMA EffectsFromType ==
    ASSUME prog \in Programs, NEW arg, NEW s \in Machine
    PROVE  EffectsFrom(arg)[s] \in Nat
<1>. DEFINE C == {t \in Machine : EffectsFrom(arg)[t] \notin Nat}
<1>0. Len(prog.code) \in Nat BY ProgramFacts
<1>1. ASSUME NEW t \in C PROVE t.pc <= Len(prog.code) /\ RefStep(t) \in C
  <2>1. t \in Machine /\ EffectsFrom(arg)[t] \notin Nat OBVIOUS
  <2>2. EffectsFrom(arg)[t] = IF t.pc > Len(prog.code) THEN 0
                              ELSE EffectsFrom(arg)[RefStep(t)] + Gain(t, arg)
    BY <2>1, EffectsFromUnfold
  <2>3. t.pc \in Nat BY <1>0, <2>1 DEF Machine
  <2>4. t.pc <= Len(prog.code) BY <1>0, <2>1, <2>2, <2>3
  <2>5. RefStep(t) \in Machine BY <2>1, <2>4, RefStepFacts
  <2>6. EffectsFrom(arg)[RefStep(t)] \notin Nat
    <3>1. Gain(t, arg) \in {0, 1} BY DEF Gain
    <3>2. EffectsFrom(arg)[t] = EffectsFrom(arg)[RefStep(t)] + Gain(t, arg) BY <1>0, <2>2, <2>3, <2>4
    <3>3. QED BY <2>1, <3>1, <3>2
  <2>7. QED BY <2>4, <2>5, <2>6
<1>2. C \in SUBSET Machine OBVIOUS
<1>. HIDE DEF C
<1>3. C = {} BY <1>1, <1>2, ExecutionEnds DEF Endless
<1>4. QED BY <1>3 DEF C

\* All effects come after all loops.
EffectsLate == \A e \in Effects, i \in BackEdges : i < e

\* What an activation has done and what is still to do are the effects of the
\* function; and once it has done something it is behind its loops, if the
\* effects come late.
EffectsKept(a) ==
    /\ MState(a) \in Machine
    /\ a.effects + EffectsFrom(a.arg)[MState(a)] = RefEffects(a.arg)
    /\ EffectsLate /\ a.effects > 0 => \A i \in BackEdges : i < a.pc

KeptBy(fs) == RestartIsHarmless => \A k \in DOMAIN fs : EffectsKept(fs[k])
EffectsInv == KeptBy(activations)

\* One instruction: b is a after it.
LEMMA KeptStep ==
    ASSUME prog \in Programs, NEW a \in TierActivation, EffectsKept(a), a.pc <= Len(prog.code),
           NEW b \in TierActivation, MState(b) = RefStep(MState(a)), b.arg = a.arg,
           b.effects = a.effects + Gain(MState(a), a.arg)
    PROVE  EffectsKept(b)
<1>. DEFINE s == MState(a)
            t == MState(b)
            n == Len(prog.code)
<1>0. n \in Nat /\ DOMAIN prog.code = 1 .. n BY ProgramFacts
<1>1. s \in Machine /\ s.pc = a.pc /\ s.left = a.left /\ t.pc = b.pc /\ t.left = b.left
  BY DEF EffectsKept, MState
<1>2. t = RefStep(s) /\ a.effects \in Nat /\ b.pc \in Nat /\ a.pc \in Nat BY DEF TierActivation
<1>. HIDE DEF s, t
<1>3. t \in Machine /\ (Onward(s, t) \/ Taken(s, t)) BY <1>1, <1>2, RefStepFacts
<1>4. b.effects + EffectsFrom(b.arg)[t] = RefEffects(b.arg)
  <2>1. EffectsFrom(a.arg)[s] = EffectsFrom(a.arg)[t] + Gain(s, a.arg)
    <3>1. ~(s.pc > n) BY <1>0, <1>1, <1>2
    <3>2. QED BY <1>1, <1>2, <3>1, EffectsFromUnfold
  <2>2. EffectsFrom(a.arg)[t] \in Nat BY <1>3, EffectsFromType
  <2>3. Gain(s, a.arg) \in {0, 1} BY DEF Gain
  <2>4. a.effects + EffectsFrom(a.arg)[s] = RefEffects(a.arg) BY DEF EffectsKept, s
  <2>5. b.effects = a.effects + Gain(s, a.arg) BY DEF s
  <2>6. b.effects + EffectsFrom(a.arg)[t] = RefEffects(a.arg) BY <1>2, <2>1, <2>2, <2>3, <2>4, <2>5
  <2>7. QED BY <2>6
<1>5. ASSUME EffectsLate, b.effects > 0 PROVE \A i \in BackEdges : i < b.pc
  <2>1. a.pc \in 1 .. n BY <1>0, <1>1, <1>2 DEF Machine
  <2>2. \A i \in BackEdges : i < a.pc
    <3>1. CASE a.effects > 0 BY <1>5, <3>1 DEF EffectsKept
    <3>2. CASE ~(a.effects > 0)
      <4>1. Gain(s, a.arg) # 0
        <5>1. Gain(s, a.arg) \in {0, 1} /\ b.effects = a.effects + Gain(s, a.arg) BY DEF Gain, s
        <5>2. QED BY <1>2, <1>5, <3>2, <5>1
      <4>2. HasEffect(prog.code[a.pc].op, a.arg) BY <1>1, <4>1 DEF Gain
      <4>3. a.pc \in Effects BY <2>1, <4>2 DEF Effects, HasEffect
      <4>4. QED BY <1>5, <4>3 DEF EffectsLate
    <3>3. QED BY <3>1, <3>2
  <2>3. a.pc < b.pc
    <3>1. CASE Onward(s, t)
      <4>1. b.pc = a.pc + 1 BY <1>1, <3>1 DEF Onward
      <4>2. QED BY <1>2, <4>1
    <3>2. CASE Taken(s, t)
      <4>1. prog.code[a.pc].op \in BranchOps /\ b.pc = prog.code[a.pc].to BY <1>1, <3>2 DEF Taken
      <4>2. ~(b.pc <= a.pc)
        <5>1. SUFFICES ASSUME b.pc <= a.pc PROVE FALSE OBVIOUS
        <5>2. a.pc \in BackEdges BY <2>1, <4>1, <5>1 DEF BackEdges
        <5>3. a.pc < a.pc BY <2>2, <5>2
        <5>4. QED BY <1>2, <5>3
      <4>3. QED BY <1>2, <4>2
    <3>3. QED BY <1>3, <3>1, <3>2
  <2>4. \A i \in BackEdges : i \in Nat BY <1>0 DEF BackEdges
  <2>5. QED BY <1>2, <2>2, <2>3, <2>4
<1>6. QED BY <1>3, <1>4, <1>5 DEF EffectsKept, t

\* Nothing but the record of the tier, the edges or the guard changes.
LEMMA KeptSame ==
    ASSUME NEW a, EffectsKept(a), NEW b, b.pc = a.pc, b.left = a.left, b.arg = a.arg, b.effects = a.effects
    PROVE  EffectsKept(b)
<1>1. MState(b) = MState(a) BY DEF MState
<1>2. QED BY <1>1 DEF EffectsKept

\* From the first instruction on, nothing done yet.
LEMMA KeptAtStart ==
    ASSUME prog \in Programs, NEW b, b.pc = 1, b.left = Locals, b.effects = 0
    PROVE  EffectsKept(b)
<1>1. /\ Len(prog.code) \in Nat /\ DOMAIN prog.code = 1 .. Len(prog.code)
      /\ \A i \in 1 .. Len(prog.code) : prog.code[i].n \in Nat
  BY ProgramFacts
<1>2. Locals \in [1 .. Len(prog.code) -> Nat] BY <1>1 DEF Locals
<1>3. 1 \in 1 .. Len(prog.code) + 1 BY <1>1
<1>4. MState(b) = [pc |-> 1, left |-> Locals] BY DEF MState
<1>5. MState(b) \in Machine BY <1>2, <1>3, <1>4 DEF Machine
<1>6. EffectsFrom(b.arg)[MState(b)] \in Nat BY <1>5, EffectsFromType
<1>7. EffectsFrom(b.arg)[MState(b)] = RefEffects(b.arg) BY <1>4 DEF RefEffects
<1>8. 0 + EffectsFrom(b.arg)[MState(b)] = RefEffects(b.arg) BY <1>6, <1>7
<1>9. QED BY <1>5, <1>8 DEF EffectsKept

\* Sequences of activations.
LEMMA KeptAppend ==
    ASSUME NEW fs \in Seq(TierActivation), KeptBy(fs), NEW a \in TierActivation, RestartIsHarmless => EffectsKept(a)
    PROVE  KeptBy(Append(fs, a))
<1>1. SUFFICES ASSUME RestartIsHarmless, NEW k \in DOMAIN Append(fs, a) PROVE EffectsKept(Append(fs, a)[k])
  BY DEF KeptBy
<1>2. Append(fs, a)[k] = a \/ (k \in DOMAIN fs /\ Append(fs, a)[k] = fs[k])
  <2>1. Len(fs) \in Nat /\ DOMAIN fs = 1 .. Len(fs) /\ DOMAIN Append(fs, a) = 1 .. Len(fs) + 1 OBVIOUS
  <2>2. CASE k = Len(fs) + 1 BY <2>2
  <2>3. CASE k # Len(fs) + 1
    <3>1. k \in DOMAIN fs BY <2>1, <2>3
    <3>2. QED BY <2>1, <3>1
  <2>4. QED BY <2>2, <2>3
<1>3. QED BY <1>1, <1>2 DEF KeptBy

LEMMA KeptTop ==
    ASSUME EffectsInv, TierInv, activations # << >>
    PROVE  /\ KeptBy(Callers) /\ Callers \in Seq(TierActivation) /\ Innermost \in TierActivation
           /\ RestartIsHarmless => EffectsKept(Innermost)
<1>1. activations \in Seq(TierActivation) BY DEF TierInv, Frames
<1>2. Len(activations) \in Nat \ {0} /\ DOMAIN activations = 1 .. Len(activations) BY <1>1, EmptySeq
<1>3. Len(activations) \in DOMAIN activations BY <1>2
<1>4. /\ Callers \in Seq(TierActivation)
      /\ \A i \in DOMAIN Callers : i \in DOMAIN activations /\ Callers[i] = activations[i]
  BY <1>1, <1>2 DEF Callers
<1>5. Innermost \in TierActivation BY <1>1, <1>3 DEF Innermost
<1>6. KeptBy(Callers) BY <1>4 DEF KeptBy, EffectsInv
<1>7. RestartIsHarmless => EffectsKept(Innermost) BY <1>3 DEF EffectsInv, KeptBy, Innermost
<1>8. QED BY <1>4, <1>5, <1>6, <1>7

LEMMA KeptSetTop ==
    ASSUME EffectsInv, TierInv, activations # << >>, NEW b \in TierActivation,
           RestartIsHarmless => EffectsKept(b)
    PROVE  KeptBy(SetTop(b)) /\ SetTop(b) \in Seq(TierActivation)
<1>1. KeptBy(Callers) /\ Callers \in Seq(TierActivation) BY KeptTop
<1>2. KeptBy(Append(Callers, b)) BY <1>1, KeptAppend
<1>3. QED BY <1>1, <1>2 DEF SetTop

LEMMA KeptNone == KeptBy(<< >>)
BY DEF KeptBy

LEMMA InSeq == ASSUME NEW S, NEW s \in Seq(S), NEW k \in DOMAIN s PROVE s[k] \in S
OBVIOUS

\* A call enters the function at its first instruction.
LEMMA KeptCalls ==
    ASSUME prog \in Programs, NEW fs \in Seq(TierActivation), NEW m, NEW arg, KeptBy(fs),
           activations' \in Seq(TierActivation),
           callFunction(fs, m, arg) \/ doCallDirectIR(fs, m, arg) \/ jitSelfCall(fs, m, arg)
    PROVE  KeptBy(activations')
<1>1. activations' = << >> \/ \E tier, w : Execute(tier, fs, w, m, arg)
  <2>1. CASE callFunction(fs, m, arg) BY <2>1 DEF callFunction, UnwindAll
  <2>2. CASE doCallDirectIR(fs, m, arg) BY <2>2 DEF doCallDirectIR, UnwindAll
  <2>3. CASE jitSelfCall(fs, m, arg) BY <2>3 DEF jitSelfCall, UnwindAll
  <2>4. QED BY <2>1, <2>2, <2>3
<1>2. CASE activations' = << >> BY <1>2, KeptNone
<1>3. ASSUME NEW tier, NEW w, Execute(tier, fs, w, m, arg), activations' # << >> PROVE KeptBy(activations')
  <2>. DEFINE new == [tier |-> tier, pc |-> 1, left |-> Locals, edges |-> 0,
               jit_eligible |-> /\ tier = "regir"
                                /\ m = "normal"
                                /\ ~w.jit
                                /\ ~w.jit_failed
                                /\ ~w.back_edge_bailed,
               base |-> RegPtr(fs), arg |-> arg, effects |-> 0,
               passed |-> FALSE]
  <2>1. activations' = Append(fs, new) BY <1>3 DEF Execute, UnwindAll
  <2>2. new.pc = 1 /\ new.left = Locals /\ new.effects = 0 OBVIOUS
  <2>3. PICK b : b = new OBVIOUS
  <2>. HIDE DEF new
  <2>4. b \in TierActivation
    <3>1. Len(fs) \in Nat /\ Len(fs) + 1 \in DOMAIN Append(fs, b) /\ Append(fs, b)[Len(fs) + 1] = b OBVIOUS
    <3>2. PICK as, k : as = activations' /\ k = Len(fs) + 1 OBVIOUS
    <3>3. as \in Seq(TierActivation) /\ k \in DOMAIN as /\ as[k] = b
      BY <2>1, <2>3, <3>1, <3>2
    <3>4. as[k] \in TierActivation BY <3>3, InSeq
    <3>5. QED BY <3>3, <3>4
  <2>5. EffectsKept(b) BY <2>2, <2>3, KeptAtStart
  <2>6. KeptBy(Append(fs, b)) BY <2>4, <2>5, KeptAppend
  <2>7. QED BY <2>1, <2>3, <2>6
<1>4. QED BY <1>1, <1>2, <1>3

\* An instruction that is not a branch goes on to the next one.
LEMMA RefStepped ==
    ASSUME NEW a \in TierActivation, prog.code[a.pc].op \notin BranchOps
    PROVE  RefStep(MState(a)) = [pc |-> a.pc + 1, left |-> a.left]
<1>1. MState(a).pc = a.pc BY DEF MState
<1>2. RefStep(MState(a)) = [MState(a) EXCEPT !.pc = a.pc + 1] BY <1>1 DEF RefStep, Stepped
<1>3. QED BY <1>2 DEF MState

\* b is a after an instruction that is not a branch.
LEMMA KeptOnward ==
    ASSUME TierInv, EffectsInv, NEW ops, At(ops), ops \cap BranchOps = {}, NEW a, a = Innermost,
           NEW b \in TierActivation, b.pc = a.pc + 1, b.left = a.left, b.arg = a.arg,
           b.effects = a.effects + (IF HasEffect(prog.code[a.pc].op, a.arg) THEN 1 ELSE 0)
    PROVE  KeptBy(SetTop(b)) /\ SetTop(b) \in Seq(TierActivation)
<1>1. /\ activations # << >> /\ a \in TierActivation /\ a.pc \in DOMAIN prog.code /\ a.pc \in Nat
      /\ prog.code[a.pc].op \in ops
  BY AtFacts
<1>2. a.pc <= Len(prog.code) BY DEF At
<1>3. MState(b) = RefStep(MState(a))
  <2>1. RefStep(MState(a)) = [pc |-> a.pc + 1, left |-> a.left] BY <1>1, RefStepped
  <2>2. QED BY <2>1 DEF MState
<1>4. b.effects = a.effects + Gain(MState(a), a.arg) BY DEF Gain, MState
<1>5. RestartIsHarmless => EffectsKept(a) BY <1>1, KeptTop
<1>6. RestartIsHarmless => EffectsKept(b) BY <1>1, <1>2, <1>3, <1>4, <1>5, KeptStep DEF TierInv
<1>7. QED BY <1>1, <1>6, KeptSetTop

LEMMA PlainKept == ASSUME TierInv, EffectsInv, Plain PROVE KeptBy(activations')
<1>1. PICK a, op, s : a = Innermost /\ op = prog.code[a.pc].op /\ s = Stepped(a) OBVIOUS
<1>2. PICK b : b = [s EXCEPT !.effects = IF op \in EffectOps THEN @ + 1 ELSE @] OBVIOUS
<1>3. /\ a \in TierActivation /\ op \in {"nop", "unguard"} \cup EffectOps
  BY <1>1, AtFacts DEF Plain
<1>4. s \in TierActivation /\ s.pc = a.pc + 1 /\ s.left = a.left /\ s.effects = a.effects /\ s.arg = a.arg
  <2>1. s.arg = a.arg BY <1>1, <1>3 DEF Stepped, TierActivation
  <2>2. QED BY <1>1, <1>3, <2>1, SteppedFacts
<1>5. PICK e : e = IF op \in EffectOps THEN s.effects + 1 ELSE s.effects OBVIOUS
<1>6. b = [s EXCEPT !.effects = e] /\ e \in Nat BY <1>2, <1>4, <1>5 DEF TierActivation
<1>7. b \in TierActivation /\ b.pc = s.pc /\ b.left = s.left /\ b.effects = e /\ b.arg = s.arg
  BY <1>4, <1>6 DEF TierActivation
<1>8. HasEffect(op, a.arg) <=> op \in EffectOps BY <1>3 DEF HasEffect, EffectOps
<1>9. a.effects \in Nat BY <1>3 DEF TierActivation
<1>10. e = a.effects + (IF HasEffect(op, a.arg) THEN 1 ELSE 0) BY <1>4, <1>5, <1>8, <1>9
<1>11. activations' = SetTop(b) BY <1>1, <1>2 DEF Plain
<1>12. PICK ops : ops = {"nop", "unguard"} \cup EffectOps OBVIOUS
<1>13. At(ops) /\ ops \cap BranchOps = {} BY <1>12 DEF Plain, EffectOps, BranchOps
<1>14. QED BY <1>1, <1>4, <1>7, <1>10, <1>11, <1>13, KeptOnward

LEMMA GuardKept == ASSUME TierInv, EffectsInv, Guard PROVE KeptBy(activations')
<1>1. PICK a, s : a = Innermost /\ s = Stepped(a) OBVIOUS
<1>2. PICK b : b = [s EXCEPT !.passed = TRUE] OBVIOUS
<1>3. a \in TierActivation /\ prog.code[a.pc].op = "guard" BY <1>1, AtFacts DEF Guard
<1>4. s \in TierActivation /\ s.pc = a.pc + 1 /\ s.left = a.left /\ s.effects = a.effects /\ s.arg = a.arg
  <2>1. s.arg = a.arg BY <1>1, <1>3 DEF Stepped, TierActivation
  <2>2. QED BY <1>1, <1>3, <2>1, SteppedFacts
<1>5. b \in TierActivation /\ b.pc = s.pc /\ b.left = s.left /\ b.effects = s.effects /\ b.arg = s.arg
  BY <1>2, <1>4 DEF TierActivation
<1>6. ~HasEffect(prog.code[a.pc].op, a.arg) BY <1>3 DEF HasEffect, EffectOps
<1>7. a.effects \in Nat BY <1>3 DEF TierActivation
<1>8. b.effects = a.effects + (IF HasEffect(prog.code[a.pc].op, a.arg) THEN 1 ELSE 0)
  BY <1>4, <1>5, <1>6, <1>7
<1>9. activations' = SetTop(b) \/ activations' = << >> BY <1>1, <1>2 DEF Guard, UnwindAll
<1>10. PICK ops : ops = {"guard"} OBVIOUS
<1>11. At(ops) /\ ops \cap BranchOps = {} BY <1>10 DEF Guard, BranchOps
<1>12. KeptBy(SetTop(b)) BY <1>1, <1>4, <1>5, <1>8, <1>11, KeptOnward
<1>13. QED BY <1>9, <1>12, KeptNone

LEMMA SelfCallKept == ASSUME TierInv, EffectsInv, SelfCall, TierInv' PROVE KeptBy(activations')
<1>1. PICK a, s : a = Innermost /\ s = Stepped(a) OBVIOUS
<1>2. a \in TierActivation /\ prog.code[a.pc].op = "self" /\ a.effects \in Nat /\ a.arg \in Nat
  BY <1>1, AtFacts DEF SelfCall, TierActivation
<1>3. s \in TierActivation /\ s.pc = a.pc + 1 /\ s.left = a.left /\ s.effects = a.effects /\ s.arg = a.arg
  <2>1. s.arg = a.arg BY <1>1, <1>2 DEF Stepped, TierActivation
  <2>2. QED BY <1>1, <1>2, <2>1, SteppedFacts
<1>4. HasEffect(prog.code[a.pc].op, a.arg) <=> a.arg > 0 BY <1>2 DEF HasEffect, EffectOps
<1>5. PICK ops : ops = {"self"} OBVIOUS
<1>6. At(ops) /\ ops \cap BranchOps = {} BY <1>5 DEF SelfCall, BranchOps
<1>7. CASE a.arg = 0
  <2>1. s.effects = a.effects + (IF HasEffect(prog.code[a.pc].op, a.arg) THEN 1 ELSE 0)
    BY <1>2, <1>3, <1>4, <1>7
  <2>2. activations' = SetTop(s) BY <1>1, <1>7 DEF SelfCall
  <2>3. QED BY <1>1, <1>3, <1>6, <2>1, <2>2, KeptOnward
<1>8. CASE a.arg # 0
  <2>1. PICK e, b : e = s.effects + 1 /\ b = [s EXCEPT !.effects = e] OBVIOUS
  <2>2. e \in Nat BY <1>2, <1>3, <2>1
  <2>3. b \in TierActivation /\ b.pc = s.pc /\ b.left = s.left /\ b.effects = e /\ b.arg = s.arg
    BY <1>3, <2>1, <2>2 DEF TierActivation
  <2>4. b.effects = a.effects + (IF HasEffect(prog.code[a.pc].op, a.arg) THEN 1 ELSE 0)
    BY <1>2, <1>3, <1>4, <1>8, <2>1, <2>3
  <2>5. PICK fs, m, arg : fs = SetTop(b) /\ m = mode /\ arg = a.arg - 1 OBVIOUS
  <2>6. KeptBy(fs) /\ fs \in Seq(TierActivation) BY <1>1, <1>3, <1>6, <2>3, <2>4, <2>5, KeptOnward
  <2>7. a.tier \in {"stack", "regir", "jit"} BY <1>2 DEF TierActivation, ExecTiers
  <2>8. doCallDirectIR(fs, m, arg) \/ callFunction(fs, m, arg) \/ jitSelfCall(fs, m, arg)
    <3>1. b = [Stepped(a) EXCEPT !.effects = @ + 1] BY <1>1, <2>1
    <3>2. QED BY <1>1, <1>8, <2>5, <2>7, <3>1 DEF SelfCall
  <2>9. activations' \in Seq(TierActivation) BY DEF TierInv, Frames
  <2>10. QED BY <2>6, <2>8, <2>9, KeptCalls DEF TierInv
<1>9. QED BY <1>7, <1>8

LEMMA InvokeKept == ASSUME TierInv, InvokeFunction, TierInv' PROVE KeptBy(activations')
<1>1. PICK m, arg : callFunction(<< >>, m, arg) BY DEF InvokeFunction
<1>2. activations' \in Seq(TierActivation) BY DEF TierInv, Frames
<1>3. << >> \in Seq(TierActivation) OBVIOUS
<1>4. QED BY <1>1, <1>2, <1>3, KeptNone, KeptCalls DEF TierInv

LEMMA ReturnKept == ASSUME TierInv, EffectsInv, ReturnToCaller PROVE KeptBy(activations')
BY KeptTop DEF ReturnToCaller, AtEnd

\* A branch of an activation is a branch of the reference; if it goes back, it
\* is one of the function's back-edges.
LEMMA RefBranched ==
    ASSUME NEW a, NEW w, Good(a, w), prog \in Programs, a.pc \in DOMAIN prog.code,
           prog.code[a.pc].op \in BranchOps, NEW b, b = Branched(a)
    PROVE  /\ b \in TierActivation /\ MState(b) = RefStep(MState(a))
           /\ b.arg = a.arg /\ b.effects = a.effects /\ b.base = a.base
           /\ b.pc <= a.pc => a.pc \in BackEdges /\ b.pc = prog.code[a.pc].to
<1>0. a \in TierActivation /\ a.pc \in Nat BY DEF Good, TierActivation
<1>1. b \in TierActivation BY BranchedGood DEF Good
<1>2. MState(a).pc = a.pc /\ MState(a).left = a.left BY DEF MState
<1>3. RefStep(MState(a)) = Branched(MState(a)) BY <1>2 DEF RefStep
<1>4. CASE a.left[a.pc] > 0
  <2>1. PICK l, pc : l = [a.left EXCEPT ![a.pc] = a.left[a.pc] - 1] /\ pc = prog.code[a.pc].to OBVIOUS
  <2>2. b = [a EXCEPT !.left = l, !.pc = pc] BY <1>0, <1>4, <2>1 DEF Branched, TierActivation
  <2>3. Branched(MState(a)) = [MState(a) EXCEPT !.left = l, !.pc = pc]
    BY <1>2, <1>4, <2>1 DEF Branched, MState
  <2>4. b.pc = pc /\ b.left = l /\ b.arg = a.arg /\ b.effects = a.effects /\ b.base = a.base
    BY <1>0, <2>2 DEF TierActivation
  <2>5. MState(b) = Branched(MState(a)) BY <2>3, <2>4 DEF MState
  <2>6. pc <= a.pc => a.pc \in BackEdges BY <2>1, ProgramFacts DEF BackEdges
  <2>7. QED BY <1>1, <1>3, <2>1, <2>4, <2>5, <2>6
<1>5. CASE ~(a.left[a.pc] > 0)
  <2>1. PICK l, pc : l = [a.left EXCEPT ![a.pc] = prog.code[a.pc].n] /\ pc = a.pc + 1 OBVIOUS
  <2>2. b = [a EXCEPT !.left = l, !.pc = pc] BY <1>0, <1>5, <2>1 DEF Branched, TierActivation
  <2>3. Branched(MState(a)) = [MState(a) EXCEPT !.left = l, !.pc = pc]
    BY <1>2, <1>5, <2>1 DEF Branched, MState
  <2>4. b.pc = pc /\ b.left = l /\ b.arg = a.arg /\ b.effects = a.effects /\ b.base = a.base
    BY <1>0, <2>2 DEF TierActivation
  <2>5. MState(b) = Branched(MState(a)) BY <2>3, <2>4 DEF MState
  <2>6. ~(pc <= a.pc) BY <1>0, <2>1
  <2>7. QED BY <1>1, <1>3, <2>4, <2>5, <2>6
<1>6. QED BY <1>4, <1>5

\* The tests of checkBackEdgeJit: where a restart from the first instruction
\* is harmless, a loop that passes them is reached before any effect.
LEMMA NothingDoneYet ==
    ASSUME prog \in Programs, RestartIsHarmless, ~hasReentryGuard,
           NEW i \in BackEdges, NEW h, h = prog.code[i].to,
           ~hasBrTableInPrologue(h), ~hasPrologueSideEffects(h)
    PROVE  EffectsLate
<1>1. Len(prog.code) \in Nat /\ i \in 1 .. Len(prog.code) /\ h <= i /\ h \in Nat /\ h >= 1
  BY ProgramFacts DEF BackEdges
<1>2. ~GuardedEarly BY EarlyIsSeen
<1>3. ASSUME NEW j \in 1 .. h, prog.code[j].op = "br_table" PROVE FALSE
  <2>1. j \in Before(h + 1) BY <1>1 DEF Before
  <2>2. QED BY <1>3, <2>1 DEF hasBrTableInPrologue
<1>4. ASSUME NEW j \in 1 .. h, j < h, prog.code[j].op \in CallOps \cup {"global.set"} PROVE FALSE
  <2>1. j \in Before(h) BY <1>1, <1>4 DEF Before
  <2>2. QED BY <1>4, <2>1 DEF hasPrologueSideEffects
<1>5. QED BY <1>2, <1>3, <1>4 DEF RestartIsHarmless, EffectsLate

LEMMA HotLoopKept ==
    ASSUME TierInv, EffectsInv, activations # << >>, NEW a \in TierActivation, HotLoop(a),
           RestartIsHarmless => EffectsKept(a),
           NEW i \in BackEdges, a.pc = prog.code[i].to,
           RestartIsHarmless /\ EffectsLate => a.effects = 0
    PROVE  KeptBy(activations')
<1>1. KeptBy(SetTop(a)) BY KeptSetTop
<1>2. CASE activations' = SetTop(a) BY <1>1, <1>2
<1>3. CASE /\ ~(hasReentryGuard \/ hasBrTableInPrologue(a.pc))
           /\ wf' \in compileFunction(wf, IF hasPrologueSideEffects(a.pc) THEN a.pc ELSE 0)
           /\ activations' = IF wf'.jit THEN Restarted(a) ELSE SetTop(a)
           /\ activations' # SetTop(a) /\ activations' # << >>
  <2>1. PICK v, osr : v = wf' /\ osr = IF hasPrologueSideEffects(a.pc) THEN a.pc ELSE 0 OBVIOUS
  <2>2. v.jit /\ v \in compileFunction(wf, osr) BY <1>3, <2>1
  <2>3. v.osr = osr
    <3>1. wf \in WasmFunction BY DEF TierInv, Decided
    <3>2. CASE v = [wf EXCEPT !.jit = TRUE, !.osr = osr] BY <3>1, <3>2 DEF WasmFunction
    <3>3. CASE v = [wf EXCEPT !.jit = FALSE, !.osr = 0, !.jit_failed = TRUE]
      BY <2>2, <3>1, <3>3 DEF WasmFunction
    <3>4. QED BY <2>2, <3>2, <3>3 DEF compileFunction
  <2>4. activations' = IF v.osr # 0 THEN SetTop([a EXCEPT !.tier = "jit", !.pc = v.osr])
                       ELSE SetTop([a EXCEPT !.tier = "jit", !.pc = 1, !.left = Locals])
    BY <1>3, <2>1, <2>2 DEF Restarted
  <2>5. CASE osr # 0
    <3>1. PICK b : b = [a EXCEPT !.tier = "jit", !.pc = osr] OBVIOUS
    <3>2. osr = a.pc /\ a.pc \in Nat BY <2>1, <2>5 DEF TierActivation
    <3>3. /\ b \in TierActivation /\ b.pc = a.pc /\ b.left = a.left /\ b.arg = a.arg
          /\ b.effects = a.effects
      BY <3>1, <3>2 DEF TierActivation, ExecTiers
    <3>4. RestartIsHarmless => EffectsKept(b) BY <3>3, KeptSame
    <3>5. activations' = SetTop(b) BY <2>3, <2>4, <2>5, <3>1
    <3>6. QED BY <3>3, <3>4, <3>5, KeptSetTop
  <2>6. CASE osr = 0
    <3>1. PICK b : b = [a EXCEPT !.tier = "jit", !.pc = 1, !.left = Locals] OBVIOUS
    <3>2. Locals \in Seq(Nat) BY LocalsFacts DEF TierInv
    <3>3. /\ b \in TierActivation /\ b.pc = 1 /\ b.left = Locals /\ b.effects = a.effects
      BY <3>1, <3>2 DEF TierActivation, ExecTiers
    <3>4. ~hasPrologueSideEffects(a.pc)
      <4>1. a.pc # 0 BY ProgramFacts DEF TierInv, BackEdges
      <4>2. QED BY <2>1, <2>6, <4>1
    <3>5. RestartIsHarmless => EffectsLate BY <1>3, <3>4, NothingDoneYet DEF TierInv
    <3>6. RestartIsHarmless => EffectsKept(b) BY <3>3, <3>5, KeptAtStart DEF TierInv
    <3>7. activations' = SetTop(b) BY <2>3, <2>4, <2>6, <3>1
    <3>8. QED BY <3>3, <3>6, <3>7, KeptSetTop
  <2>7. QED BY <2>5, <2>6
<1>4. CASE activations' = << >> BY <1>4, KeptNone
<1>5. QED BY <1>2, <1>3, <1>4 DEF HotLoop

LEMMA BranchKept == ASSUME TierInv, EffectsInv, Branch PROVE KeptBy(activations')
<1>1. PICK t, a : t = Innermost /\ a = Branched(t) OBVIOUS
<1>2. /\ activations # << >> /\ Good(t, wf) /\ t.pc \in DOMAIN prog.code /\ t.pc \in Nat
      /\ prog.code[t.pc].op \in BranchOps /\ t \in TierActivation
  BY <1>1, AtFacts DEF Branch
<1>3. PICK w : w = wf OBVIOUS
<1>4. /\ a \in TierActivation /\ MState(a) = RefStep(MState(t))
      /\ a.arg = t.arg /\ a.effects = t.effects
      /\ a.pc <= t.pc => t.pc \in BackEdges /\ a.pc = prog.code[t.pc].to
  BY <1>1, <1>2, <1>3, RefBranched DEF TierInv
<1>5. RestartIsHarmless => EffectsKept(t) BY <1>1, <1>2, KeptTop
<1>6. t.effects \in Nat /\ t.pc <= Len(prog.code) BY <1>1, <1>2 DEF TierActivation, Branch, At
<1>7. Gain(MState(t), t.arg) = 0
  <2>1. ~HasEffect(prog.code[t.pc].op, t.arg) BY <1>2 DEF HasEffect, EffectOps, BranchOps
  <2>2. QED BY <2>1 DEF Gain, MState
<1>8. RestartIsHarmless => EffectsKept(a)
  <2>1. a.effects = t.effects + Gain(MState(t), t.arg) BY <1>4, <1>6, <1>7
  <2>2. QED BY <1>2, <1>4, <1>5, <1>6, <2>1, KeptStep DEF TierInv
<1>9. CASE activations' = SetTop(a) BY <1>2, <1>4, <1>8, <1>9, KeptSetTop
<1>10. CASE checkBackEdgeJit(a) /\ a.pc <= t.pc
  <2>1. PICK e, b : e = a.edges + 1 /\ b = [a EXCEPT !.edges = e] OBVIOUS
  <2>2. e \in Nat BY <1>4, <2>1 DEF TierActivation
  <2>3. /\ b \in TierActivation /\ b.pc = a.pc /\ b.left = a.left /\ b.arg = a.arg
        /\ b.effects = a.effects
    BY <1>4, <2>1, <2>2 DEF TierActivation
  <2>4. RestartIsHarmless => EffectsKept(b) BY <1>8, <2>3, KeptSame
  <2>5. HotLoop(b) \/ activations' = SetTop(b) BY <1>10, <2>1 DEF checkBackEdgeJit
  <2>6. t.pc \in BackEdges /\ b.pc = prog.code[t.pc].to BY <1>4, <1>10, <2>3
  <2>7. RestartIsHarmless /\ EffectsLate => b.effects = 0
    <3>1. SUFFICES ASSUME RestartIsHarmless, EffectsLate, b.effects # 0 PROVE FALSE OBVIOUS
    <3>2. t.effects > 0 BY <1>4, <1>6, <2>3, <3>1
    <3>3. t.pc < t.pc BY <1>5, <2>6, <3>1, <3>2 DEF EffectsKept
    <3>4. QED BY <1>2, <3>3
  <2>8. CASE activations' = SetTop(b) BY <1>2, <2>3, <2>4, <2>8, KeptSetTop
  <2>9. CASE HotLoop(b) BY <1>2, <2>3, <2>4, <2>6, <2>7, <2>9, HotLoopKept
  <2>10. QED BY <2>5, <2>8, <2>9
<1>11. QED BY <1>1, <1>9, <1>10 DEF Branch

\* The reference does not change with the state.
LEMMA KeptPrime ==
    ASSUME UNCHANGED prog, KeptBy(activations')
    PROVE  EffectsInv'
<1>1. /\ Machine' = Machine /\ BackEdges' = BackEdges /\ (EffectsLate' <=> EffectsLate)
      /\ (RestartIsHarmless' <=> RestartIsHarmless)
  <2>1. Machine' = Machine BY DEF Machine
  <2>2. BackEdges' = BackEdges BY DEF BackEdges
  <2>3. Effects' = Effects BY DEF Effects
  <2>4. GuardedEarly' <=> GuardedEarly BY DEF GuardedEarly
  <2>5. EffectsLate' <=> EffectsLate BY <2>2, <2>3 DEF EffectsLate
  <2>6. RestartIsHarmless' <=> RestartIsHarmless BY <2>2, <2>3, <2>4 DEF RestartIsHarmless
  <2>7. QED BY <2>1, <2>2, <2>5, <2>6
<1>2. ASSUME NEW a, EffectsKept(a) PROVE EffectsKept(a)'
  <2>1. PICK arg, s : arg = a.arg /\ s = MState(a) OBVIOUS
  <2>2. EffectsFrom(arg)' = EffectsFrom(arg) /\ RefEffects(arg)' = RefEffects(arg) BY SameReference
  <2>3. MState(a)' = s BY <2>1 DEF MState
  <2>4. QED BY <1>1, <1>2, <2>1, <2>2, <2>3 DEF EffectsKept
<1>3. ASSUME RestartIsHarmless', NEW k \in DOMAIN activations' PROVE EffectsKept(activations[k])'
  <2>1. PICK a : a = activations'[k] OBVIOUS
  <2>2. EffectsKept(a) BY <1>1, <1>3, <2>1 DEF KeptBy
  <2>3. EffectsKept(a)' BY <1>2, <2>2
  <2>4. QED BY <2>1, <2>3
<1>4. QED BY <1>3 DEF EffectsInv, KeptBy

LEMMA EffectsStep == TierInv /\ EffectsInv /\ [TierNext]_tierVars => (TierInv /\ EffectsInv)'
<1>1. SUFFICES ASSUME TierInv, EffectsInv, [TierNext]_tierVars PROVE TierInv' /\ EffectsInv' OBVIOUS
<1>2. TierInv' BY <1>1, TierInvStep
<1>3. KeptBy(activations')
  <2>1. CASE InvokeFunction BY <1>1, <1>2, <2>1, InvokeKept
  <2>2. CASE Plain BY <1>1, <2>2, PlainKept
  <2>3. CASE Guard BY <1>1, <2>3, GuardKept
  <2>4. CASE Branch BY <1>1, <2>4, BranchKept
  <2>5. CASE SelfCall BY <1>1, <1>2, <2>5, SelfCallKept
  <2>6. CASE ReturnToCaller BY <1>1, <2>6, ReturnKept
  <2>7. CASE UNCHANGED tierVars BY <1>1, <2>7 DEF tierVars, EffectsInv
  <2>8. QED BY <1>1, <2>1, <2>2, <2>3, <2>4, <2>5, <2>6, <2>7 DEF TierNext
<1>4. prog' = prog
  BY <1>1 DEF TierNext, InvokeFunction, Plain, Guard, Branch, SelfCall, ReturnToCaller, tierVars
<1>5. QED BY <1>2, <1>3, <1>4, KeptPrime

LEMMA EffectsInit == TierInit => EffectsInv
BY KeptNone DEF TierInit, EffectsInv

LEMMA EffectsAtEnd == ASSUME TierInv, EffectsInv PROVE EffectsOnce
<1>1. SUFFICES ASSUME AtEnd, RestartIsHarmless PROVE Innermost.effects = RefEffects(Innermost.arg)
  BY DEF EffectsOnce
<1>2. PICK a : a = Innermost OBVIOUS
<1>3. a \in TierActivation /\ EffectsKept(a) /\ a.effects \in Nat BY <1>1, <1>2, KeptTop DEF AtEnd, TierActivation
<1>4. EffectsFrom(a.arg)[MState(a)] = 0
  <2>1. MState(a) \in Machine /\ MState(a).pc > Len(prog.code) BY <1>1, <1>2, <1>3 DEF EffectsKept, MState, AtEnd
  <2>2. QED BY <2>1, EffectsFromUnfold DEF TierInv
<1>5. QED BY <1>2, <1>3, <1>4 DEF EffectsKept

(* However often and from whichever tier an activation was moved, when it   *)
(* returns it has executed each of its effects once, for every function in  *)
(* which the tests of checkBackEdgeJit leave a harmless restart, every      *)
(* depth of recursion and all thresholds (callFunction's handling of        *)
(* error.JitRestart, executeJITOsr).                                        *)
THEOREM EffectsHappenOnce == TierSpec => []EffectsOnce
<1>1. TierInit => TierInv /\ EffectsInv BY TierInitInv, EffectsInit
<1>2. TierInv /\ EffectsInv => EffectsOnce BY EffectsAtEnd
<1>3. QED BY <1>1, <1>2, EffectsStep, PTL DEF TierSpec
=============================================================================
