---------------------------- MODULE VmCallsProofs ----------------------------
(***************************************************************************)
(* Proofs about module VmCalls.                                            *)
(*                                                                         *)
(* The branch table is restored by the call that has replaced it, and only *)
(* by doCallDirect and doCallDirectIR.  That it is nevertheless the        *)
(* running function's own rests on which ways of calling can follow which: *)
(* a bytecode function calls through doCallDirect only, which runs its     *)
(* callee as bytecode and saves the table of the caller, and a tail call   *)
(* hands on both.  CallsInv says so for every call in progress, also       *)
(* while an error unwinds the stack and the table is not right.            *)
(*                                                                         *)
(* The stacks are as validated in the running call because of what every   *)
(* suspended call has left on them: StacksInv adds to CallsInv that the    *)
(* calls lie in layers, one above the other, each with the frame, labels   *)
(* and operands that its code has at the call it waits for (Waiting), and  *)
(* that the running one meets what its code was checked for (OnTheStack,   *)
(* InRegs), or is about to be searched for a handler.  What validation     *)
(* establishes of the functions is the assumption Valid.                   *)
(***************************************************************************)
EXTENDS VmCalls, SequenceTheorems, FiniteSetTheorems, WellFoundedInduction, TLAPS

-----------------------------------------------------------------------------
\* A call in progress is a record with the fields of Activation.
CallFields == {"how", "tier", "fn", "pc", "base", "regs", "saved"}
IsCall(a) == /\ a = [f \in CallFields |-> a[f]]

\* A sequence of calls, whatever their functions and values are.
IsCalls(cs) ==
    /\ \E S : cs \in Seq(S)
    /\ \A k \in 1 .. Len(cs) : IsCall(cs[k])

\* What a call made by caller has to be when caller is bytecode.
Follows(caller, callee) ==
    caller.tier = "byte" =>
        callee.how = "doCallDirect" /\ callee.tier = "byte" /\ callee.saved = caller.fn

Chained(cs) == \A k \in 1 .. Len(cs) - 1 : Follows(cs[k], cs[k + 1])

\* The two sequences differ in no more than the positions, the registers and
\* the bases of their calls.
Alike(cs, ds) ==
    /\ Len(cs) = Len(ds)
    /\ \A k \in 1 .. Len(cs) : /\ cs[k].how = ds[k].how /\ cs[k].tier = ds[k].tier
                               /\ cs[k].fn = ds[k].fn /\ cs[k].saved = ds[k].saved

\* The strengthening of BranchTableIsOwn that every step preserves.
CallsInv == IsCalls(acts) /\ Chained(acts) /\ BranchTableIsOwn

\* Sequences of calls.
LEMMA CallsLen == ASSUME NEW cs, IsCalls(cs) PROVE Len(cs) \in Nat /\ (cs # <<>> => Len(cs) >= 1)
<1>1. PICK S : cs \in Seq(S) BY DEF IsCalls
<1>2. QED BY <1>1, EmptySeq

LEMMA NoCalls == IsCalls(<<>>) /\ Len(<<>>) = 0
<1>1. <<>> \in Seq({}) OBVIOUS
<1>2. QED BY <1>1 DEF IsCalls

LEMMA Push1 ==
    ASSUME NEW cs, IsCalls(cs), NEW a, IsCall(a)
    PROVE  /\ IsCalls(Append(cs, a)) /\ Len(Append(cs, a)) = Len(cs) + 1
           /\ \A k \in 1 .. Len(cs) : Append(cs, a)[k] = cs[k]
           /\ Append(cs, a)[Len(cs) + 1] = a
<1>1. PICK S : cs \in Seq(S) BY DEF IsCalls
<1>. DEFINE T == S \cup {a}
<1>2. cs \in Seq(T) BY <1>1
<1>3. Append(cs, a) \in Seq(T) BY <1>2
<1>4. Len(Append(cs, a)) = Len(cs) + 1 /\ Len(cs) \in Nat BY <1>2
<1>5. \A k \in 1 .. Len(cs) : Append(cs, a)[k] = cs[k] BY <1>2
<1>6. Append(cs, a)[Len(cs) + 1] = a BY <1>2
<1>7. \A k \in 1 .. Len(Append(cs, a)) : IsCall(Append(cs, a)[k])
    <2>1. TAKE k \in 1 .. Len(Append(cs, a))
    <2>2. CASE k \in 1 .. Len(cs) BY <2>2, <1>5 DEF IsCalls
    <2>3. CASE k = Len(cs) + 1 BY <2>3, <1>6
    <2>4. QED BY <2>2, <2>3, <1>4
<1>8. QED BY <1>3, <1>4, <1>5, <1>6, <1>7 DEF IsCalls

LEMMA Pop1 ==
    ASSUME NEW cs, IsCalls(cs), Len(cs) >= 1
    PROVE  LET ds == SubSeq(cs, 1, Len(cs) - 1)
           IN  IsCalls(ds) /\ Len(ds) = Len(cs) - 1 /\ \A k \in 1 .. Len(ds) : ds[k] = cs[k]
<1>1. PICK S : cs \in Seq(S) BY DEF IsCalls
<1>. DEFINE ds == SubSeq(cs, 1, Len(cs) - 1)
<1>2. Len(cs) \in Nat BY <1>1
<1>3. ds \in Seq(S) BY <1>1, <1>2
<1>4. Len(ds) = Len(cs) - 1
    <2>1. \A i \in 1 .. Len(cs) - 1 : cs[i] \in S BY <1>1, <1>2
    <2>2. Len(ds) = IF 1 <= Len(cs) - 1 THEN (Len(cs) - 1) - 1 + 1 ELSE 0 BY <2>1, <1>2, SubSeqProperties
    <2>3. QED BY <2>2, <1>2
<1>5. \A k \in 1 .. Len(ds) : ds[k] = cs[k] BY <1>1, <1>2, <1>4
<1>6. \A k \in 1 .. Len(ds) : IsCall(ds[k]) BY <1>2, <1>4, <1>5 DEF IsCalls
<1>7. QED BY <1>3, <1>4, <1>5, <1>6 DEF IsCalls

LEMMA Change1 ==
    ASSUME NEW cs, IsCalls(cs), NEW n \in 1 .. Len(cs), NEW a, IsCall(a)
    PROVE  LET ds == [cs EXCEPT ![n] = a]
           IN  IsCalls(ds) /\ Len(ds) = Len(cs) /\ ds[n] = a
               /\ \A k \in 1 .. Len(cs) : k # n => ds[k] = cs[k]
<1>1. PICK S : cs \in Seq(S) BY DEF IsCalls
<1>. DEFINE T == S \cup {a}
            ds == [cs EXCEPT ![n] = a]
<1>2. cs \in Seq(T) BY <1>1
<1>3. ds \in Seq(T) /\ Len(ds) = Len(cs) /\ ds[n] = a /\ \A k \in 1 .. Len(cs) : k # n => ds[k] = cs[k]
    BY <1>2
<1>4. \A k \in 1 .. Len(ds) : IsCall(ds[k]) BY <1>3 DEF IsCalls
<1>5. QED BY <1>3, <1>4 DEF IsCalls

\* Changing the position or the registers of the topmost call leaves the rest.
LEMMA PcAlike ==
    ASSUME NEW cs, IsCalls(cs), Len(cs) >= 1, NEW v
    PROVE  LET ds == [cs EXCEPT ![Len(cs)].pc = v] IN IsCalls(ds) /\ Alike(ds, cs)
<1>. DEFINE n == Len(cs)
            b == [cs[n] EXCEPT !["pc"] = v]
            ds == [cs EXCEPT ![n] = b]
<1>1. n \in Nat /\ n \in 1 .. n BY CallsLen
<1>2. IsCall(cs[n]) BY <1>1 DEF IsCalls
<1>3. IsCall(b) /\ \A g \in CallFields : g # "pc" => b[g] = cs[n][g]  BY <1>2 DEF IsCall, CallFields
<1>4. IsCalls(ds) /\ Len(ds) = Len(cs) /\ ds[n] = b /\ \A k \in 1 .. Len(cs) : k # n => ds[k] = cs[k]
    BY <1>1, <1>3, Change1
<1>5. b.how = cs[n].how /\ b.tier = cs[n].tier /\ b.fn = cs[n].fn /\ b.saved = cs[n].saved
    BY <1>3 DEF CallFields
<1>6. Alike(ds, cs) BY <1>1, <1>4, <1>5 DEF Alike
<1>7. QED BY <1>4, <1>6

LEMMA RegsAlike ==
    ASSUME NEW cs, IsCalls(cs), Len(cs) >= 1, NEW v
    PROVE  LET ds == [cs EXCEPT ![Len(cs)].regs = v] IN IsCalls(ds) /\ Alike(ds, cs)
<1>. DEFINE n == Len(cs)
            b == [cs[n] EXCEPT !["regs"] = v]
            ds == [cs EXCEPT ![n] = b]
<1>1. n \in Nat /\ n \in 1 .. n BY CallsLen
<1>2. IsCall(cs[n]) BY <1>1 DEF IsCalls
<1>3. IsCall(b) /\ \A g \in CallFields : g # "regs" => b[g] = cs[n][g]  BY <1>2 DEF IsCall, CallFields
<1>4. IsCalls(ds) /\ Len(ds) = Len(cs) /\ ds[n] = b /\ \A k \in 1 .. Len(cs) : k # n => ds[k] = cs[k]
    BY <1>1, <1>3, Change1
<1>5. b.how = cs[n].how /\ b.tier = cs[n].tier /\ b.fn = cs[n].fn /\ b.saved = cs[n].saved
    BY <1>3 DEF CallFields
<1>6. Alike(ds, cs) BY <1>1, <1>4, <1>5 DEF Alike
<1>7. QED BY <1>4, <1>6

LEMMA AlikeChained ==
    ASSUME NEW cs, NEW ds, IsCalls(cs), Alike(ds, cs), Chained(cs)
    PROVE  Chained(ds)
<1>1. Len(cs) \in Nat BY CallsLen
<1>2. QED BY <1>1 DEF Alike, Chained, Follows

LEMMA PushChained ==
    ASSUME NEW cs, IsCalls(cs), Chained(cs), NEW a, IsCall(a), Len(cs) >= 1 => Follows(cs[Len(cs)], a)
    PROVE  Chained(Append(cs, a))
<1>. DEFINE ds == Append(cs, a)
<1>1. Len(cs) \in Nat BY CallsLen
<1>2. Len(ds) = Len(cs) + 1 /\ (\A k \in 1 .. Len(cs) : ds[k] = cs[k]) /\ ds[Len(cs) + 1] = a BY Push1
<1>. HIDE DEF ds
<1>3. \A k \in 1 .. Len(ds) - 1 : Follows(ds[k], ds[k + 1])
    <2>1. TAKE k \in 1 .. Len(ds) - 1
    <2>2. CASE k = Len(cs)
        <3>1. ds[k] = cs[Len(cs)] /\ ds[k + 1] = a BY <1>1, <1>2, <2>1, <2>2
        <3>2. QED BY <3>1, <2>1, <2>2, <1>1, <1>2
    <2>3. CASE k # Len(cs)
        <3>1. k \in 1 .. Len(cs) - 1 /\ ds[k] = cs[k] /\ ds[k + 1] = cs[k + 1] BY <1>1, <1>2, <2>1, <2>3
        <3>2. QED BY <3>1 DEF Chained
    <2>4. QED BY <2>2, <2>3
<1>4. QED BY <1>3 DEF Chained, ds

LEMMA PopChained ==
    ASSUME NEW cs, IsCalls(cs), Len(cs) >= 1, Chained(cs)
    PROVE  /\ Chained(SubSeq(cs, 1, Len(cs) - 1))
           /\ Len(cs) >= 2 => Follows(SubSeq(cs, 1, Len(cs) - 1)[Len(cs) - 1], cs[Len(cs)])
<1>1. Len(cs) \in Nat BY CallsLen
<1>2. LET ds == SubSeq(cs, 1, Len(cs) - 1)
      IN  Len(ds) = Len(cs) - 1 /\ \A k \in 1 .. Len(ds) : ds[k] = cs[k]
    BY Pop1
<1>. DEFINE ds == SubSeq(cs, 1, Len(cs) - 1)
<1>3. Len(ds) = Len(cs) - 1 /\ \A k \in 1 .. Len(ds) : ds[k] = cs[k] BY <1>2
<1>. HIDE DEF ds
<1>4. Chained(ds) BY <1>1, <1>3 DEF Chained
<1>5. Len(cs) >= 2 => Follows(ds[Len(cs) - 1], cs[Len(cs)])
    <2>1. SUFFICES ASSUME Len(cs) >= 2 PROVE Follows(ds[Len(cs) - 1], cs[Len(cs)]) OBVIOUS
    <2>2. ds[Len(cs) - 1] = cs[Len(cs) - 1] BY <1>1, <1>3, <2>1
    <2>3. Follows(cs[Len(cs) - 1], cs[(Len(cs) - 1) + 1]) BY <1>1, <2>1 DEF Chained
    <2>4. (Len(cs) - 1) + 1 = Len(cs) BY <1>1
    <2>5. QED BY <2>2, <2>3, <2>4
<1>6. QED BY <1>4, <1>5 DEF ds

-----------------------------------------------------------------------------
\* Entering a function on top of the calls cs.
LEMMA ActivationIs ==
    ASSUME NEW how, NEW tier, NEW fn, NEW base, NEW regs, NEW saved
    PROVE  LET a == Activation(how, tier, fn, base, regs, saved)
           IN  IsCall(a) /\ a.how = how /\ a.tier = tier /\ a.fn = fn /\ a.saved = saved
BY DEF Activation, IsCall, CallFields

\* What a step that enters fn establishes, if its caller allows the call.
LEMMA EnterStackInv ==
    ASSUME NEW cs, IsCalls(cs), Chained(cs), NEW how, NEW tier, NEW fn, NEW o, NEW fr, NEW lb, NEW b,
           EnterStack(cs, how, tier, fn, o, fr, lb, b),
           Len(cs) >= 1 /\ cs[Len(cs)].tier = "byte" => how = "doCallDirect" /\ tier = "byte" /\ b = cs[Len(cs)].fn
    PROVE  CallsInv'
<1>1. err' = "none" \/ err' # "none" OBVIOUS
<1>2. CASE err' # "none"
    <2>1. acts' = cs BY <1>2 DEF EnterStack
    <2>2. QED BY <2>1, <1>2 DEF CallsInv, BranchTableIsOwn, Running
<1>3. CASE err' = "none"
    <2>1. PICK base : acts' = Append(cs, Activation(how, tier, fn, base, <<>>, b)) BY <1>3 DEF EnterStack
    <2>2. tier = "byte" => bt' = fn BY <1>3 DEF EnterStack
    <2>. DEFINE a == Activation(how, tier, fn, base, <<>>, b)
    <2>3. IsCall(a) /\ a.how = how /\ a.tier = tier /\ a.fn = fn /\ a.saved = b BY ActivationIs
    <2>. HIDE DEF a
    <2>4. Len(cs) >= 1 => Follows(cs[Len(cs)], a) BY <2>3 DEF Follows
    <2>5. Chained(Append(cs, a)) BY <2>3, <2>4, PushChained
    <2>6. IsCalls(Append(cs, a)) /\ Append(cs, a)[Len(cs) + 1] = a /\ Len(Append(cs, a)) = Len(cs) + 1
        BY <2>3, Push1
    <2>7. acts' = Append(cs, a) BY <2>1 DEF a
    <2>8. acts'[Len(acts')] = a BY <2>6, <2>7
    <2>9. BranchTableIsOwn' BY <2>2, <2>3, <2>8 DEF BranchTableIsOwn, top
    <2>10. QED BY <2>5, <2>6, <2>7, <2>9 DEF CallsInv
<1>4. QED BY <1>1, <1>2, <1>3

LEMMA EnterRegInv ==
    ASSUME NEW cs, IsCalls(cs), Chained(cs), NEW how, NEW fn, NEW args, NEW o, NEW fr, NEW lb, NEW b,
           EnterReg(cs, how, fn, args, o, fr, lb, b),
           Len(cs) >= 1 => cs[Len(cs)].tier # "byte"
    PROVE  CallsInv'
<1>1. PICK base, regs : acts' = Append(cs, Activation(how, "reg", fn, base, regs, b)) BY DEF EnterReg
<1>. DEFINE a == Activation(how, "reg", fn, base, regs, b)
<1>2. IsCall(a) /\ a.tier = "reg" BY ActivationIs
<1>. HIDE DEF a
<1>3. Len(cs) >= 1 => Follows(cs[Len(cs)], a) BY DEF Follows
<1>4. Chained(Append(cs, a)) BY <1>2, <1>3, PushChained
<1>5. IsCalls(Append(cs, a)) /\ Append(cs, a)[Len(cs) + 1] = a /\ Len(Append(cs, a)) = Len(cs) + 1
    BY <1>2, Push1
<1>6. acts' = Append(cs, a) BY <1>1 DEF a
<1>7. acts'[Len(acts')] = a BY <1>5, <1>6
<1>8. BranchTableIsOwn' BY <1>2, <1>7 DEF BranchTableIsOwn, top
<1>9. QED BY <1>4, <1>5, <1>6, <1>8 DEF CallsInv

LEMMA callFunctionInv ==
    ASSUME NEW cs, IsCalls(cs), Chained(cs), NEW fn, NEW args, NEW force, NEW o, NEW fr, NEW lb, NEW b,
           callFunction(cs, fn, args, force, o, fr, lb, b),
           Len(cs) >= 1 => cs[Len(cs)].tier # "byte"
    PROVE  CallsInv'
<1>1. CASE Funcs[fn].reg /\ ~force
    <2>1. EnterReg(cs, "callFunction", fn, args, o, fr, lb, b) BY <1>1 DEF callFunction
    <2>2. QED BY <2>1, EnterRegInv
<1>2. CASE ~(Funcs[fn].reg /\ ~force)
    <2>1. EnterStack(cs, "callFunction", StackTier(fn), fn, o \o args, fr, lb, b) BY <1>2 DEF callFunction
    <2>2. QED BY <2>1, EnterStackInv
<1>3. QED BY <1>1, <1>2

LEMMA doCallDirectInv ==
    ASSUME NEW cs, IsCalls(cs), Chained(cs), NEW fn, NEW o, NEW fr, NEW lb, NEW b,
           doCallDirect(cs, fn, o, fr, lb, b),
           Len(cs) >= 1 /\ cs[Len(cs)].tier = "byte" => b = cs[Len(cs)].fn
    PROVE  CallsInv'
<1>1. EnterStack(cs, "doCallDirect", "byte", fn, o, fr, lb, b) BY DEF doCallDirect
<1>2. QED BY <1>1, EnterStackInv

LEMMA doCallDirectIRInv ==
    ASSUME NEW cs, IsCalls(cs), Chained(cs), NEW fn, NEW o, NEW fr, NEW lb, NEW b,
           doCallDirectIR(cs, fn, o, fr, lb, b),
           Len(cs) >= 1 => cs[Len(cs)].tier # "byte"
    PROVE  CallsInv'
<1>1. CASE EnterStack(cs, "doCallDirectIR", StackTier(fn), fn, o, fr, lb, b)
    BY <1>1, EnterStackInv
<1>2. CASE ~EnterStack(cs, "doCallDirectIR", StackTier(fn), fn, o, fr, lb, b)
    <2>1. PICK args, o2 : EnterReg(cs, "doCallDirectIR", fn, args, o2, fr, lb, b) BY <1>2 DEF doCallDirectIR
    <2>2. QED BY <2>1, EnterRegInv
<1>3. QED BY <1>1, <1>2

\* The topmost call of the calls that a change of position leaves alike.
LEMMA AlikeTop ==
    ASSUME NEW cs, NEW ds, IsCalls(cs), Len(cs) >= 1, Alike(ds, cs)
    PROVE  /\ Len(ds) = Len(cs) /\ ds[Len(ds)].tier = cs[Len(cs)].tier
           /\ ds[Len(ds)].fn = cs[Len(cs)].fn
<1>1. Len(cs) \in Nat BY CallsLen
<1>2. QED BY <1>1 DEF Alike

\* A step that keeps the calls, or changes the topmost one's position or
\* registers, and keeps the branch table.
LEMMA KeepsInv ==
    ASSUME CallsInv, acts # <<>>, err = "none", IsCalls(acts'), Alike(acts', acts), bt' = bt
    PROVE  CallsInv'
<1>1. Len(acts) >= 1 BY CallsLen DEF CallsInv
<1>2. Chained(acts') BY AlikeChained DEF CallsInv
<1>3. acts'[Len(acts')].tier = acts[Len(acts)].tier /\ acts'[Len(acts')].fn = acts[Len(acts)].fn
    BY <1>1, AlikeTop DEF CallsInv
<1>4. BranchTableIsOwn' BY <1>3 DEF CallsInv, BranchTableIsOwn, Running, top
<1>5. QED BY <1>2, <1>4 DEF CallsInv

LEMMA AlikeSelf == ASSUME NEW cs PROVE Alike(cs, cs)
BY DEF Alike

LEMMA MovedIs ==
    ASSUME CallsInv, acts # <<>>, NEW pc
    PROVE  IsCalls(Moved(pc)) /\ Alike(Moved(pc), acts)
<1>1. IsCalls(acts) /\ Len(acts) >= 1 BY CallsLen DEF CallsInv
<1>2. QED BY <1>1, PcAlike DEF Moved

LEMMA AlikeTrans ==
    ASSUME NEW cs, NEW ds, NEW es, Alike(es, ds), Alike(ds, cs)
    PROVE  Alike(es, cs)
BY DEF Alike

LEMMA SteppedRegs ==
    ASSUME CallsInv, acts # <<>>, NEW v
    PROVE  LET es == [Stepped EXCEPT ![Len(acts)].regs = v] IN IsCalls(es) /\ Alike(es, acts)
<1>. DEFINE ds == Stepped
            es == [ds EXCEPT ![Len(ds)].regs = v]
<1>1. IsCalls(ds) /\ Alike(ds, acts) BY MovedIs DEF Stepped
<1>2. IsCalls(acts) /\ Len(acts) >= 1 BY CallsLen DEF CallsInv
<1>3. Len(ds) = Len(acts) BY <1>1, <1>2, AlikeTop
<1>. HIDE DEF ds
<1>4. IsCalls(es) /\ Alike(es, ds) BY <1>1, <1>2, <1>3, RegsAlike
<1>5. Alike(es, acts) BY <1>1, <1>4, AlikeTrans
<1>6. QED BY <1>3, <1>4, <1>5 DEF ds

\* Giving the results to a caller that is not bytecode.
LEMMA DeliverInv ==
    ASSUME NEW cs, IsCalls(cs), Chained(cs), NEW o, NEW rs, Deliver(cs, o, rs),
           Len(cs) >= 1 => cs[Len(cs)].tier # "byte"
    PROVE  CallsInv'
<1>1. Len(cs) \in Nat BY CallsLen
<1>2. CASE Len(cs) >= 1 /\ ~OnStack(cs[Len(cs)])
    <2>. DEFINE v == cs[Len(cs)].regs \o rs
                ds == [cs EXCEPT ![Len(cs)].regs = v]
    <2>1. acts' = ds BY <1>1, <1>2 DEF Deliver
    <2>2. IsCalls(ds) /\ Alike(ds, cs) BY <1>2, RegsAlike
    <2>. HIDE DEF ds
    <2>3. Chained(ds) BY <2>2, AlikeChained
    <2>4. ds[Len(ds)].tier # "byte" BY <1>2, <2>2, AlikeTop
    <2>5. QED BY <2>1, <2>2, <2>3, <2>4 DEF CallsInv, BranchTableIsOwn, top
<1>3. CASE ~(Len(cs) >= 1 /\ ~OnStack(cs[Len(cs)]))
    <2>1. acts' = cs BY <1>1, <1>3 DEF Deliver
    <2>2. Len(cs) >= 1 \/ cs = <<>>
        <3>1. cs # <<>> => Len(cs) >= 1 BY CallsLen
        <3>2. QED BY <3>1
    <2>3. QED BY <2>1, <2>2 DEF CallsInv, BranchTableIsOwn, Running, top
<1>4. QED BY <1>2, <1>3

\* What handleException makes of the calls.
LEMMA HandlerEnds ==
    ASSUME NEW x, NEW cs, NEW o, NEW fr, NEW lb, handleException(x, cs, o, fr, lb)
    PROVE  \/ err' \in {"exception", "panic"} /\ acts' = cs
           \/ err' = "none" /\ \E v : acts' = [cs EXCEPT ![Len(cs)].pc = v]
BY Zenon DEF handleException

\* An exception that the topmost call of cs, with its table, may catch.
LEMMA handleExceptionInv ==
    ASSUME NEW x, NEW cs, IsCalls(cs), Chained(cs), NEW o, NEW fr, NEW lb,
           handleException(x, cs, o, fr, lb),
           Len(cs) >= 1 /\ cs[Len(cs)].tier = "byte" => bt' = cs[Len(cs)].fn
    PROVE  CallsInv'
<1>1. Len(cs) \in Nat BY CallsLen
<1>2. CASE err' = "exception"
    <2>1. acts' = cs BY <1>2 DEF handleException
    <2>2. QED BY <1>2, <2>1 DEF CallsInv, BranchTableIsOwn, Running
<1>3. CASE err' \notin {"exception", "panic"}
    <2>1. Len(cs) >= 1
        <3>1. (IF Len(cs) > 0 /\ cs[Len(cs)].tier = "byte" THEN Matches(x, fr[Len(fr)], lb) ELSE {}) # {}
            BY <1>3, Zenon DEF handleException
        <3>2. Len(cs) > 0 BY <3>1
        <3>3. QED BY <1>1, <3>2
    <2>2. \E v : acts' = [cs EXCEPT ![Len(cs)].pc = v] BY <1>3, HandlerEnds, Zenon
    <2>3. PICK v : acts' = [cs EXCEPT ![Len(cs)].pc = v] BY <2>2
    <2>. DEFINE ds == [cs EXCEPT ![Len(cs)].pc = v]
    <2>4. IsCalls(ds) /\ Alike(ds, cs) BY <2>1, PcAlike
    <2>5. acts' = ds BY <2>3
    <2>. HIDE DEF ds
    <2>6. Chained(ds) BY <2>4, AlikeChained
    <2>7. ds[Len(ds)].tier = cs[Len(cs)].tier /\ ds[Len(ds)].fn = cs[Len(cs)].fn BY <2>1, <2>4, AlikeTop
    <2>8. QED BY <2>1, <2>4, <2>5, <2>6, <2>7 DEF CallsInv, BranchTableIsOwn, top
<1>4. CASE err' = "panic"
    <2>1. acts' = cs BY <1>4, HandlerEnds, Zenon
    <2>2. QED BY <1>4, <2>1 DEF CallsInv, BranchTableIsOwn, Running
<1>5. QED BY <1>2, <1>3, <1>4

-----------------------------------------------------------------------------
\* The operations, one lemma each.
LEMMA ExecutesIs == ASSUME NEW o, Executes(o) PROVE acts # <<>> /\ err = "none"
BY DEF Executes, OnOwnFrame, InRegisters, Running

LEMMA InvokeInv == ASSUME NEW fn, NEW force, Invoke(fn, force) PROVE CallsInv'
<1>1. IsCalls(<<>>) /\ Len(<<>>) = 0 BY NoCalls
<1>2. Chained(<<>>) BY <1>1 DEF Chained
<1>3. PICK args : callFunction(<<>>, fn, args, force, <<>>, <<>>, <<>>, 0) BY DEF Invoke
<1>4. QED BY <1>1, <1>2, <1>3, callFunctionInv

LEMMA CallInv == ASSUME CallsInv, Call PROVE CallsInv'
<1>1. acts # <<>> /\ err = "none" BY ExecutesIs DEF Call
<1>2. Len(acts) \in Nat /\ Len(acts) >= 1 /\ IsCalls(acts) /\ Chained(acts) BY <1>1, CallsLen DEF CallsInv
<1>. DEFINE cs == Stepped
<1>3. IsCalls(cs) /\ Alike(cs, acts) BY <1>1, MovedIs DEF Stepped
<1>4. Chained(cs) BY <1>2, <1>3, AlikeChained
<1>5. cs[Len(cs)].tier = top.tier /\ cs[Len(cs)].fn = top.fn BY <1>2, <1>3, AlikeTop DEF top
<1>6. CASE err' = "depth" /\ UNCHANGED <<acts, stackVars, bt>>
    BY <1>1, <1>2, <1>6, AlikeSelf, KeepsInv
<1>7. ASSUME NEW fn, top.tier = "byte", doCallDirect(Stepped, fn, op, frames, labels, bt)
      PROVE  CallsInv'
    <2>1. bt = top.fn BY <1>1, <1>7 DEF CallsInv, BranchTableIsOwn, Running
    <2>2. doCallDirect(cs, fn, op, frames, labels, bt) BY <1>7
    <2>. HIDE DEF cs
    <2>3. QED BY <1>3, <1>4, <1>5, <2>1, <2>2, doCallDirectInv
<1>8. ASSUME NEW fn, top.tier = "ir", doCallDirectIR(Stepped, fn, op, frames, labels, bt)
      PROVE  CallsInv'
    <2>1. doCallDirectIR(cs, fn, op, frames, labels, bt) BY <1>8
    <2>. HIDE DEF cs
    <2>2. QED BY <1>3, <1>4, <1>5, <1>8, <2>1, doCallDirectIRInv
<1>9. ASSUME NEW fn, NEW regs, NEW args, top.tier = "reg",
             callFunction([Stepped EXCEPT ![Len(acts)].regs = regs], fn, args, forced, op, frames, labels, bt)
      PROVE  CallsInv'
    <2>. DEFINE es == [Stepped EXCEPT ![Len(acts)].regs = regs]
    <2>1. IsCalls(es) /\ Alike(es, acts) BY <1>1, SteppedRegs
    <2>2. callFunction(es, fn, args, forced, op, frames, labels, bt) BY <1>9
    <2>. HIDE DEF es
    <2>3. Chained(es) BY <1>2, <2>1, AlikeChained
    <2>4. es[Len(es)].tier # "byte" BY <1>2, <1>9, <2>1, AlikeTop DEF top
    <2>5. QED BY <2>1, <2>2, <2>3, <2>4, callFunctionInv
<1>10. QED BY <1>6, <1>7, <1>8, <1>9, Zenon DEF Call

\* Steps within a call.
LEMMA SetOperandsInv ==
    ASSUME CallsInv, acts # <<>>, err = "none", NEW s, SetOperands(s), bt' = bt
    PROVE  CallsInv'
<1>1. CASE OnStack(top)
    <2>1. acts' = Stepped BY <1>1 DEF SetOperands
    <2>2. QED BY <2>1, MovedIs, KeepsInv DEF Stepped
<1>2. CASE ~OnStack(top)
    <2>1. acts' = [Stepped EXCEPT ![Len(acts)].regs = s] BY <1>2 DEF SetOperands
    <2>2. QED BY <2>1, SteppedRegs, KeepsInv
<1>3. QED BY <1>1, <1>2

LEMMA SameCalls == ASSUME CallsInv, acts # <<>>, err = "none", UNCHANGED <<acts, bt>> PROVE CallsInv'
<1>1. IsCalls(acts') /\ Alike(acts', acts) BY AlikeSelf DEF CallsInv
<1>2. QED BY <1>1, KeepsInv

LEMMA MovesInv ==
    ASSUME CallsInv, acts # <<>>, err = "none", NEW pc, acts' = Moved(pc), bt' = bt
    PROVE  CallsInv'
<1>1. IsCalls(acts') /\ Alike(acts', acts) BY MovedIs
<1>2. QED BY <1>1, KeepsInv

LEMMA PushInv == ASSUME CallsInv, acts # <<>>, err = "none", NEW v, Push(v) PROVE CallsInv'
<1>1. CASE UNCHANGED <<acts, op>> BY <1>1, SameCalls DEF Push
<1>2. CASE ~UNCHANGED <<acts, op>>
    <2>1. PICK s : SetOperands(s) BY <1>2, Zenon DEF Push
    <2>2. QED BY <2>1, SetOperandsInv DEF Push
<1>3. QED BY <1>1, <1>2

LEMMA pushLabelInv ==
    ASSUME CallsInv, acts # <<>>, err = "none", NEW l, NEW pc, pushLabel(l, pc), bt' = bt
    PROVE  CallsInv'
<1>1. acts' = acts \/ acts' = Moved(pc) BY DEF pushLabel
<1>2. QED BY <1>1, SameCalls, MovesInv

LEMMA DropInv == ASSUME CallsInv, Drop PROVE CallsInv'
<1>1. acts # <<>> /\ err = "none" BY ExecutesIs DEF Drop
<1>2. PICK s : SetOperands(s) BY DEF Drop
<1>3. QED BY <1>1, <1>2, SetOperandsInv DEF Drop

LEMMA OpenInv == ASSUME CallsInv, Open PROVE CallsInv'
<1>1. acts # <<>> /\ err = "none" BY ExecutesIs DEF Open
<1>2. QED BY <1>1, pushLabelInv DEF Open, StackOnly

LEMMA IfInv == ASSUME CallsInv, If PROVE CallsInv'
<1>1. acts # <<>> /\ err = "none" BY ExecutesIs DEF If
<1>2. bt' = bt BY DEF If, StackOnly
<1>3. (\E l, pc : pushLabel(l, pc)) \/ (\E pc : acts' = Moved(pc)) BY Zenon DEF If
<1>4. QED BY <1>1, <1>2, <1>3, pushLabelInv, MovesInv

LEMMA WithinInv ==
    ASSUME CallsInv, Const \/ LocalGet \/ Else \/ End \/ Br \/ BrIfNot \/ Trap
    PROVE  CallsInv'
<1>1. acts # <<>> /\ err = "none"
    BY ExecutesIs DEF Const, LocalGet, Else, End, Br, BrIfNot, Trap
<1>2. CASE Const BY <1>1, <1>2, PushInv DEF Const
<1>3. CASE LocalGet BY <1>1, <1>3, PushInv, Zenon DEF LocalGet
<1>4. CASE Else BY <1>1, <1>4, MovesInv DEF Else, StackOnly
<1>5. CASE End BY <1>1, <1>5, MovesInv DEF End, StackOnly, Stepped
<1>6. CASE Br BY <1>1, <1>6, MovesInv DEF Br, branchTo
<1>7. CASE BrIfNot BY <1>1, <1>7, MovesInv DEF BrIfNot, StackOnly, Stepped
<1>8. CASE Trap BY <1>1, <1>8, SameCalls DEF Trap, StackOnly
<1>9. QED BY <1>2, <1>3, <1>4, <1>5, <1>6, <1>7, <1>8

-----------------------------------------------------------------------------
\* Steps that end a call.  The calls below the topmost one, and the one that
\* has made it.
LEMMA CallersIs ==
    ASSUME CallsInv, acts # <<>>
    PROVE  /\ IsCalls(Callers) /\ Chained(Callers) /\ Len(Callers) \in Nat
           /\ Len(Callers) >= 1 => Follows(Callers[Len(Callers)], top)
<1>1. IsCalls(acts) /\ Chained(acts) /\ Len(acts) >= 1 /\ Len(acts) \in Nat BY CallsLen DEF CallsInv
<1>2. IsCalls(Callers) /\ Len(Callers) = Len(acts) - 1 BY <1>1, Pop1 DEF Callers
<1>3. Chained(Callers) /\ (Len(acts) >= 2 => Follows(Callers[Len(acts) - 1], acts[Len(acts)]))
    BY <1>1, PopChained DEF Callers
<1>4. QED BY <1>1, <1>2, <1>3 DEF top

LEMMA ReturnInv == ASSUME CallsInv, Return PROVE CallsInv'
<1>1. acts # <<>> /\ err = "none" BY DEF Return, OnOwnFrame, Running
<1>. DEFINE cs == Callers
<1>2. IsCalls(cs) /\ Chained(cs) /\ (Len(cs) >= 1 => Follows(cs[Len(cs)], top)) /\ Len(cs) \in Nat
    BY <1>1, CallersIs
<1>3. CASE top.how = "callFunction"
    <2>1. PICK o, rs : Deliver(cs, o, rs) BY <1>3, Zenon DEF Return, callFunctionReturn
    <2>. HIDE DEF cs
    <2>2. Len(cs) >= 1 => cs[Len(cs)].tier # "byte" BY <1>2, <1>3 DEF Follows
    <2>3. QED BY <1>2, <2>1, <2>2, DeliverInv
<1>4. CASE top.how # "callFunction"
    <2>1. acts' = cs /\ bt' = top.saved BY <1>4 DEF Return, doCallDirectReturn, Unwound
    <2>. HIDE DEF cs
    <2>2. cs # <<>> => Len(cs) >= 1 BY <1>2, CallsLen
    <2>3. BranchTableIsOwn' BY <1>2, <2>1, <2>2 DEF BranchTableIsOwn, Running, top, Follows
    <2>4. QED BY <1>2, <2>1, <2>3 DEF CallsInv
<1>5. QED BY <1>3, <1>4

LEMMA ReturnFromRegistersInv == ASSUME CallsInv, ReturnFromRegisters PROVE CallsInv'
<1>1. acts # <<>> /\ top.tier # "byte" BY DEF ReturnFromRegisters, InRegisters, Running, OnStack
<1>2. PICK rs : Deliver(Callers, op, rs) BY DEF ReturnFromRegisters
<1>. DEFINE cs == Callers
<1>3. IsCalls(cs) /\ Chained(cs) /\ (Len(cs) >= 1 => Follows(cs[Len(cs)], top)) BY <1>1, CallersIs
<1>. HIDE DEF cs
<1>4. Len(cs) >= 1 => cs[Len(cs)].tier # "byte" BY <1>1, <1>3 DEF Follows
<1>5. QED BY <1>2, <1>3, <1>4, DeliverInv DEF cs

LEMMA ReturnCallInv == ASSUME CallsInv, ReturnCall PROVE CallsInv'
<1>1. acts # <<>> /\ err = "none" BY ExecutesIs DEF ReturnCall
<1>. DEFINE cs == Callers
<1>2. IsCalls(cs) /\ Chained(cs) /\ (Len(cs) >= 1 => Follows(cs[Len(cs)], top)) BY <1>1, CallersIs
<1>3. \/ /\ top.how = "callFunction"
         /\ \E tier, fn, o, fr, lb : EnterStack(cs, "callFunction", tier, fn, o, fr, lb, bt)
      \/ top.how = "doCallDirect" /\ \E fn, o, fr, lb : doCallDirect(cs, fn, o, fr, lb, top.saved)
      \/ top.how = "doCallDirectIR" /\ \E fn, o, fr, lb : doCallDirectIR(cs, fn, o, fr, lb, top.saved)
    BY Zenon DEF ReturnCall
<1>. HIDE DEF cs
<1>4. top.how # "doCallDirect" => (Len(cs) >= 1 => cs[Len(cs)].tier # "byte") BY <1>2 DEF Follows
<1>5. Len(cs) >= 1 /\ cs[Len(cs)].tier = "byte" => top.saved = cs[Len(cs)].fn BY <1>2 DEF Follows
<1>6. CASE top.how = "callFunction"
    <2>1. PICK tier, fn, o, fr, lb : EnterStack(cs, "callFunction", tier, fn, o, fr, lb, bt) BY <1>3, <1>6
    <2>2. Len(cs) >= 1 => cs[Len(cs)].tier # "byte" BY <1>4, <1>6
    <2>3. QED BY <1>2, <2>1, <2>2, EnterStackInv
<1>7. CASE top.how = "doCallDirect"
    <2>1. PICK fn, o, fr, lb : doCallDirect(cs, fn, o, fr, lb, top.saved) BY <1>3, <1>7
    <2>2. QED BY <1>2, <1>5, <2>1, doCallDirectInv
<1>8. CASE top.how = "doCallDirectIR"
    <2>1. PICK fn, o, fr, lb : doCallDirectIR(cs, fn, o, fr, lb, top.saved) BY <1>3, <1>8
    <2>2. Len(cs) >= 1 => cs[Len(cs)].tier # "byte" BY <1>4, <1>8
    <2>3. QED BY <1>2, <2>1, <2>2, doCallDirectIRInv
<1>9. QED BY <1>3, <1>6, <1>7, <1>8

LEMMA ThrowInv == ASSUME CallsInv, Throw \/ ThrowRef PROVE CallsInv'
<1>1. acts # <<>> /\ err = "none" /\ bt' = bt BY ExecutesIs DEF Throw, ThrowRef
<1>2. (\E x, o : handleException(x, acts, o, frames, labels)) \/ acts' = acts
    BY Zenon DEF Throw, ThrowRef
<1>3. CASE acts' = acts BY <1>1, <1>3, SameCalls
<1>4. ASSUME NEW x, NEW o, handleException(x, acts, o, frames, labels) PROVE CallsInv'
    <2>1. acts[Len(acts)].tier = "byte" => bt' = acts[Len(acts)].fn
        BY <1>1 DEF CallsInv, BranchTableIsOwn, Running, top
    <2>2. QED BY <1>4, <2>1, handleExceptionInv DEF CallsInv
<1>5. QED BY <1>2, <1>3, <1>4

LEMMA UnwindNothingInv == ASSUME CallsInv, UnwindNothing PROVE CallsInv'
<1>1. IsCalls(Callers) /\ Chained(Callers) BY CallersIs DEF UnwindNothing
<1>2. acts' = Callers /\ err' # "none" BY DEF UnwindNothing, Failing
<1>3. QED BY <1>1, <1>2 DEF CallsInv, BranchTableIsOwn, Running

LEMMA UnwindCallInv == ASSUME CallsInv, UnwindCall PROVE CallsInv'
<1>1. acts # <<>> /\ err # "none" /\ bt' = top.saved BY DEF UnwindCall, Failing
<1>. DEFINE cs == Callers
<1>2. IsCalls(cs) /\ Chained(cs) /\ (Len(cs) >= 1 => Follows(cs[Len(cs)], top)) BY <1>1, CallersIs
<1>3. (\E x, o, fr, lb : handleException(x, cs, o, fr, lb)) \/ (acts' = cs /\ err' = err)
    BY Zenon DEF UnwindCall
<1>. HIDE DEF cs
<1>4. CASE acts' = cs /\ err' = err
    BY <1>1, <1>2, <1>4 DEF CallsInv, BranchTableIsOwn, Running
<1>5. ASSUME NEW x, NEW o, NEW fr, NEW lb, handleException(x, cs, o, fr, lb) PROVE CallsInv'
    <2>1. Len(cs) >= 1 /\ cs[Len(cs)].tier = "byte" => bt' = cs[Len(cs)].fn BY <1>1, <1>2 DEF Follows
    <2>2. QED BY <1>2, <1>5, <2>1, handleExceptionInv
<1>6. QED BY <1>3, <1>4, <1>5

LEMMA CallsInvNext == ASSUME CallsInv, [CallsNext]_callVars PROVE CallsInv'
<1>1. CASE UNCHANGED callVars
    BY <1>1 DEF CallsInv, callVars, BranchTableIsOwn, Running, top
<1>2. CASE \E fn \in DOMAIN Funcs, force \in BOOLEAN : Invoke(fn, force) BY <1>2, InvokeInv
<1>3. CASE Call BY <1>3, CallInv
<1>4. CASE Const \/ LocalGet \/ Else \/ End \/ Br \/ BrIfNot \/ Trap BY <1>4, WithinInv
<1>5. CASE Drop BY <1>5, DropInv
<1>6. CASE Open BY <1>6, OpenInv
<1>7. CASE If BY <1>7, IfInv
<1>8. CASE Return BY <1>8, ReturnInv
<1>9. CASE ReturnFromRegisters BY <1>9, ReturnFromRegistersInv
<1>10. CASE ReturnCall BY <1>10, ReturnCallInv
<1>11. CASE Throw \/ ThrowRef BY <1>11, ThrowInv
<1>12. CASE UnwindNothing BY <1>12, UnwindNothingInv
<1>13. CASE UnwindCall BY <1>13, UnwindCallInv
<1>14. QED BY <1>1, <1>2, <1>3, <1>4, <1>5, <1>6, <1>7, <1>8, <1>9, <1>10, <1>11, <1>12, <1>13 DEF CallsNext

\* Whenever the bytecode interpreter executes an instruction of a function,
\* current_branch_table is that function's own: through any nesting of calls
\* and tail calls between the tiers, after returns, traps and exceptions, and
\* for any functions.
THEOREM BranchTableOfRunning == CallsSpec => []BranchTableIsOwn
<1>1. CallsInit => CallsInv
    <2>1. SUFFICES ASSUME CallsInit PROVE CallsInv OBVIOUS
    <2>2. acts = <<>> BY <2>1 DEF CallsInit
    <2>3. IsCalls(acts) /\ Chained(acts) BY <2>2, NoCalls DEF Chained
    <2>4. QED BY <2>2, <2>3 DEF CallsInv, BranchTableIsOwn, Running
<1>2. CallsInv /\ [CallsNext]_callVars => CallsInv' BY CallsInvNext
<1>3. CallsInv => BranchTableIsOwn BY DEF CallsInv
<1>4. QED BY <1>1, <1>2, <1>3, PTL DEF CallsSpec

-----------------------------------------------------------------------------
\* The stacks.  Their elements may be anything.
Any(s) == \E S : s \in Seq(S)

LEMMA AnyLen == ASSUME NEW s, Any(s) PROVE Len(s) \in Nat
BY DEF Any

LEMMA AnyEmpty == Any(<<>>) /\ Len(<<>>) = 0
<1>1. <<>> \in Seq({}) OBVIOUS
<1>2. QED BY <1>1 DEF Any

LEMMA AnyAppend ==
    ASSUME NEW s, Any(s), NEW e
    PROVE  /\ Any(Append(s, e)) /\ Len(Append(s, e)) = Len(s) + 1 /\ Append(s, e)[Len(s) + 1] = e
           /\ \A k \in 1 .. Len(s) : Append(s, e)[k] = s[k]
<1>1. PICK S : s \in Seq(S) BY DEF Any
<1>2. s \in Seq(S \cup {e}) BY <1>1
<1>3. Append(s, e) \in Seq(S \cup {e}) BY <1>2
<1>4. QED BY <1>2, <1>3 DEF Any

LEMMA AnyPrefix ==
    ASSUME NEW s, Any(s), NEW n \in 0 .. Len(s)
    PROVE  /\ Any(Prefix(s, n)) /\ Len(Prefix(s, n)) = n
           /\ \A k \in 1 .. n : Prefix(s, n)[k] = s[k]
<1>1. PICK S : s \in Seq(S) BY DEF Any
<1>2. Len(s) \in Nat BY <1>1
<1>3. \A i \in 1 .. n : s[i] \in S BY <1>1, <1>2
<1>4. Len(SubSeq(s, 1, n)) = IF 1 <= n THEN n - 1 + 1 ELSE 0 BY <1>2, <1>3, SubSeqProperties
<1>5. SubSeq(s, 1, n) \in Seq(S) BY <1>1, <1>2
<1>6. Len(SubSeq(s, 1, n)) = n BY <1>4, <1>2
<1>7. \A k \in 1 .. n : SubSeq(s, 1, n)[k] = s[k] BY <1>1, <1>2, <1>6
<1>8. QED BY <1>5, <1>6, <1>7 DEF Any, Prefix

LEMMA AnyLast ==
    ASSUME NEW s, Any(s), NEW n \in 0 .. Len(s)
    PROVE  Any(LastOf(s, n)) /\ Len(LastOf(s, n)) = n
<1>1. PICK S : s \in Seq(S) BY DEF Any
<1>2. Len(s) \in Nat BY <1>1
<1>. DEFINE m == Len(s) - n + 1
<1>3. m \in 1 .. Len(s) + 1 BY <1>2
<1>4. \A i \in m .. Len(s) : s[i] \in S BY <1>1, <1>2, <1>3
<1>5. Len(SubSeq(s, m, Len(s))) = IF m <= Len(s) THEN Len(s) - m + 1 ELSE 0
    BY <1>2, <1>3, <1>4, SubSeqProperties
<1>6. SubSeq(s, m, Len(s)) \in Seq(S) BY <1>1, <1>2, <1>3, <1>4, SubSeqProperties
<1>7. Len(SubSeq(s, m, Len(s))) = n BY <1>2, <1>5
<1>8. QED BY <1>6, <1>7 DEF Any, LastOf

LEMMA AnyCat ==
    ASSUME NEW s, Any(s), NEW t, Any(t)
    PROVE  Any(s \o t) /\ Len(s \o t) = Len(s) + Len(t)
<1>1. PICK S : s \in Seq(S) BY DEF Any
<1>2. PICK T : t \in Seq(T) BY DEF Any
<1>3. s \in Seq(S \cup T) /\ t \in Seq(S \cup T) BY <1>1, <1>2
<1>4. s \o t \in Seq(S \cup T) BY <1>3
<1>5. QED BY <1>3, <1>4 DEF Any

LEMMA AnyZeros ==
    ASSUME NEW n \in Nat
    PROVE  Any([k \in 1 .. n |-> 0]) /\ Len([k \in 1 .. n |-> 0]) = n
<1>. DEFINE s == [k \in 1 .. n |-> 0]
<1>1. s \in Seq({0}) BY SMT
<1>2. DOMAIN s = 1 .. n OBVIOUS
<1>. HIDE DEF s
<1>3. Len(s) = n
    <2>1. Len(s) \in Nat /\ DOMAIN s = 1 .. Len(s) BY <1>1
    <2>2. Len(s) \in 1 .. Len(s) \/ Len(s) = 0 BY <2>1
    <2>3. n \in 1 .. n \/ n = 0 OBVIOUS
    <2>4. QED BY <1>2, <2>1, <2>2, <2>3
<1>4. QED BY <1>1, <1>3 DEF Any, s

LEMMA AnyNumbers ==
    ASSUME NEW n \in Nat
    PROVE  Any([k \in 1 .. n |-> k]) /\ Len([k \in 1 .. n |-> k]) = n
<1>. DEFINE s == [k \in 1 .. n |-> k]
<1>1. s \in Seq(Nat) BY SMT
<1>2. DOMAIN s = 1 .. n OBVIOUS
<1>. HIDE DEF s
<1>3. Len(s) = n
    <2>1. Len(s) \in Nat /\ DOMAIN s = 1 .. Len(s) BY <1>1
    <2>2. Len(s) \in 1 .. Len(s) \/ Len(s) = 0 BY <2>1
    <2>3. n \in 1 .. n \/ n = 0 OBVIOUS
    <2>4. QED BY <1>2, <2>1, <2>2, <2>3
<1>4. QED BY <1>1, <1>3 DEF Any, s

LEMMA AnyOne == ASSUME NEW e PROVE Any(<<e>>) /\ Len(<<e>>) = 1
<1>1. <<e>> \in Seq({e}) OBVIOUS
<1>2. QED BY <1>1 DEF Any

LEMMA AnyExcept ==
    ASSUME NEW s, Any(s), NEW n \in 1 .. Len(s), NEW e
    PROVE  LET t == [s EXCEPT ![n] = e]
           IN  Any(t) /\ Len(t) = Len(s) /\ t[n] = e /\ \A k \in 1 .. Len(s) : k # n => t[k] = s[k]
<1>1. PICK S : s \in Seq(S) BY DEF Any
<1>2. s \in Seq(S \cup {e}) BY <1>1
<1>3. [s EXCEPT ![n] = e] \in Seq(S \cup {e}) BY <1>2
<1>4. QED BY <1>2, <1>3 DEF Any

-----------------------------------------------------------------------------
\* The constructs around an instruction, and their ranks.
LEMMA RankIs ==
    ASSUME NEW A, IsFiniteSet(A), A \subseteq Nat, NEW o \in A
    PROVE  /\ Rank(A, o) \in 1 .. Cardinality(A) /\ Cardinality(A) \in Nat
           /\ Cardinality({k \in A : k < o}) = Rank(A, o) - 1
           /\ Cardinality({k \in A : k <= o}) = Rank(A, o)
<1>. DEFINE B == {k \in A : k <= o}
            D == {k \in A : k < o}
<1>1. IsFiniteSet(B) /\ Cardinality(B) <= Cardinality(A) BY FS_Subset
<1>2. IsFiniteSet(D) BY FS_Subset
<1>3. B = D \cup {o} /\ o \notin D
    <2>1. o \in Nat /\ \A k \in A : k \in Nat /\ (k <= o <=> k < o \/ k = o) OBVIOUS
    <2>2. \A k : k \in B <=> k \in D \cup {o} BY <2>1, Zenon
    <2>3. QED BY <2>2
<1>4. Cardinality(B) = Cardinality(D) + 1 BY <1>2, <1>3, FS_AddElement
<1>5. Cardinality(A) \in Nat /\ Cardinality(B) \in Nat /\ Cardinality(D) \in Nat
    BY <1>1, <1>2, FS_CardinalityType
<1>6. Rank(A, o) = Cardinality(B) BY DEF Rank
<1>. HIDE DEF B, D
<1>7. Rank(A, o) \in 1 .. Cardinality(A) /\ Cardinality(D) = Rank(A, o) - 1
    BY <1>1, <1>4, <1>5, <1>6
<1>8. QED BY <1>5, <1>6, <1>7 DEF B, D

LEMMA RankBelow ==
    ASSUME NEW A, A \subseteq Nat, NEW t \in Nat, NEW B, B = {k \in A : k <= t} \/ B = {k \in A : k < t}, NEW o \in B
    PROVE  Rank(B, o) = Rank(A, o) /\ o \in A
<1>0. o \in Nat /\ \A k \in A : k \in Nat OBVIOUS
<1>1. \A k \in A : k <= o => k \in B
    <2>1. TAKE k \in A
    <2>2. CASE B = {j \in A : j <= t} BY <1>0, <2>2
    <2>3. CASE B = {j \in A : j < t} BY <1>0, <2>3
    <2>4. QED BY <2>2, <2>3
<1>2. B \subseteq A OBVIOUS
<1>3. {k \in B : k <= o} = {k \in A : k <= o} BY <1>1, <1>2
<1>4. QED BY <1>3 DEF Rank

LEMMA RankAbove ==
    ASSUME NEW i \in Nat, NEW A, A \subseteq 1 .. i - 1
    PROVE  /\ IsFiniteSet(A) /\ Cardinality(A \cup {i}) = Cardinality(A) + 1
           /\ Rank(A \cup {i}, i) = Cardinality(A) + 1
           /\ \A o \in A : Rank(A \cup {i}, o) = Rank(A, o)
<1>1. IsFiniteSet(A)
    <2>1. IsFiniteSet(1 .. i - 1) BY FS_Interval
    <2>2. QED BY <2>1, FS_Subset
<1>2. Cardinality(A \cup {i}) = Cardinality(A) + 1
    <2>1. i \notin A OBVIOUS
    <2>2. QED BY <1>1, <2>1, FS_AddElement
<1>3. {k \in A \cup {i} : k <= i} = A \cup {i}
    <2>1. \A k \in A \cup {i} : k <= i OBVIOUS
    <2>2. QED BY <2>1
<1>4. ASSUME NEW o \in A PROVE Rank(A \cup {i}, o) = Rank(A, o)
    <2>1. {k \in A \cup {i} : k <= o} = {k \in A : k <= o} OBVIOUS
    <2>2. QED BY <2>1 DEF Rank
<1>5. QED BY <1>1, <1>2, <1>3, <1>4 DEF Rank

LEMMA AroundIs ==
    ASSUME NEW c, NEW i \in Nat
    PROVE  /\ Around(c, i) \subseteq 1 .. i - 1 /\ Around(c, i) \subseteq Nat /\ IsFiniteSet(Around(c, i))
           /\ Cardinality(Around(c, i)) \in Nat /\ \A o \in Around(c, i) : c[o].op \in Openers
<1>1. Around(c, i) \subseteq 1 .. i - 1 BY DEF Around
<1>2. IsFiniteSet(Around(c, i))
    <2>1. IsFiniteSet(1 .. i - 1) BY FS_Interval
    <2>2. QED BY <1>1, <2>1, FS_Subset
<1>3. Cardinality(Around(c, i)) \in Nat BY <1>2, FS_CardinalityType
<1>4. QED BY <1>1, <1>2, <1>3 DEF Around

-----------------------------------------------------------------------------
\* What the calls have on the stacks.  The label of the construct at o, for a
\* function whose operands start at bottom.
LabelFor(f, o, bottom) ==
    [arity |-> Carried(f, o), base |-> bottom + Below(f, o), loop |-> f.code[o].op = "loop",
     catches |-> IF f.code[o].op = "try_table" THEN f.code[o].catches ELSE <<>>,
     target |-> IF f.code[o].op = "loop" THEN o + 1 ELSE EndOf(f.code, o) + 1]

\* The labels lb of the call a, inside the constructs A, above those of others.
Labelled(a, A, below, bottom, lb) ==
    LET f == Funcs[a.fn]
    IN  /\ lb[below + 1] = FunctionLabel(a.how, a.tier, f, bottom)
        /\ \A o \in A : lb[below + 1 + Rank(A, o)] = LabelFor(f, o, bottom)

\* The frame g of the k-th call, a.
Framed(a, k, g, start, below) ==
    /\ g.start = start /\ g.label_base = below /\ g.arity = Funcs[a.fn].results /\ g.act = k
    /\ a.base = start

\* A call that waits for another one: where it has called, the operands it has
\* left, and the number it waits for.
Site(a) == a.pc - 1
Left(a) == HeightAt(Funcs[a.fn], Site(a)) - Consumes(Funcs[a.fn].code[Site(a)])
Expected(a) == Funcs[Funcs[a.fn].code[Site(a)].fn].results
Waits(a) ==
    /\ a.fn \in DOMAIN Funcs /\ a.pc \in Nat
    /\ Site(a) \in Live(Funcs[a.fn].code) /\ Funcs[a.fn].code[Site(a)].op = "call"

\* What the waiting call a, the k-th, has on the stacks between f0 and f1
\* frames, l0 and l1 labels, and o0 and o1 operands.
Layer(a, k, f0, f1, l0, l1, o0, o1, fr, lb) ==
    LET f == Funcs[a.fn]
        A == Around(f.code, Site(a))
    IN  /\ Waits(a)
        /\ OnStack(a) => /\ f1 = f0 + 1 /\ l1 = l0 + 1 + Cardinality(A) /\ o1 = o0 + Fixed(f) + Left(a)
                         /\ Framed(a, k, fr[f1], o0, l0) /\ Labelled(a, A, l0, o0 + Fixed(f), lb)
        /\ ~OnStack(a) => /\ f1 = f0 /\ l1 = l0 /\ o1 = o0 /\ f.reg
                          /\ Any(a.regs) /\ Len(a.regs) = Fixed(f) + Left(a)

\* The first n calls of cs wait, each for the next.  Together they have the
\* first nf frames, the first nl labels and the lowest no of the operands.
Layers(cs, n, F, L, O, fr, lb) ==
    /\ F \in [0 .. n -> Nat] /\ L \in [0 .. n -> Nat] /\ O \in [0 .. n -> Nat]
    /\ \A j, k \in 0 .. n : j <= k => F[j] <= F[k] /\ L[j] <= L[k]
    /\ \A k \in 1 .. n : Layer(cs[k], k, F[k - 1], F[k], L[k - 1], L[k], O[k - 1], O[k], fr, lb)
Waiting(cs, n, nf, nl, no, fr, lb) ==
    \E F, L, O : Layers(cs, n, F, L, O, fr, lb) /\ F[n] = nf /\ L[n] = nl /\ O[n] = no

LEMMA WaitsIs ==
    ASSUME NEW a, Waits(a)
    PROVE  LET f == Funcs[a.fn]
               p == Site(a)
           IN  /\ Valid(f) /\ p \in Nat \ {0} /\ a.pc = p + 1 /\ ValidAt(f, p) /\ f.code[p].fn \in DOMAIN Funcs
               /\ HeightAt(f, p) \in Nat /\ Left(a) \in Nat /\ Expected(a) \in Nat
               /\ f.params \in Nat /\ f.locals \in Nat /\ Fixed(f) \in Nat
               /\ Meets(f, a.pc, Around(f.code, p), Left(a) + Expected(a))
<1>. DEFINE f == Funcs[a.fn]
            p == Site(a)
            c == f.code
<1>1. Valid(f) BY ValidAssumption DEF Waits
<1>2. p \in Live(c) /\ c[p].op = "call" /\ a.pc \in Nat BY DEF Waits
<1>3. p \in Nat \ {0} /\ a.pc = p + 1
    <2>1. p \in 1 .. Len(c) BY <1>2 DEF Live
    <2>2. Len(c) \in Nat BY <1>1 DEF Valid
    <2>3. QED BY <1>2, <2>1, <2>2 DEF Site
<1>4. ValidAt(f, p) BY <1>1, <1>2 DEF Valid
<1>5. c[p].fn \in DOMAIN Funcs BY <1>2, <1>4 DEF ValidAt
<1>6. Funcs[c[p].fn].params \in Nat /\ Funcs[c[p].fn].results \in Nat BY <1>5, ValidAssumption DEF Valid
<1>7. HeightAt(f, p) \in Nat /\ Consumes(c[p]) \in 0 .. HeightAt(f, p) BY <1>4 DEF ValidAt
<1>8. Consumes(c[p]) = Funcs[c[p].fn].params BY <1>2 DEF Consumes
<1>9. Effect(c[p]) = Funcs[c[p].fn].results - Funcs[c[p].fn].params BY <1>2 DEF Effect
<1>10. Meets(f, p + 1, Around(c, p), HeightAt(f, p) + Effect(c[p])) BY <1>2, <1>4 DEF ValidAt
<1>11. f.params \in Nat /\ f.locals \in Nat /\ Fixed(f) \in Nat BY <1>1 DEF Valid, Fixed
<1>12. Left(a) = HeightAt(f, p) - Consumes(c[p]) /\ Expected(a) = Funcs[c[p].fn].results BY DEF Left, Expected
<1>. HIDE DEF f, p, c
<1>13. Left(a) \in Nat /\ Left(a) + Expected(a) = HeightAt(f, p) + Effect(c[p])
    BY <1>6, <1>7, <1>8, <1>9, <1>12
<1>14. QED BY <1>1, <1>3, <1>4, <1>5, <1>6, <1>7, <1>10, <1>11, <1>12, <1>13 DEF f, p, c

\* A layer does not look at the stacks outside of it.
LEMMA LabelledSame ==
    ASSUME NEW a, NEW A, IsFiniteSet(A), A \subseteq Nat, NEW below \in Nat, NEW bottom, NEW lb, NEW lb2,
           Labelled(a, A, below, bottom, lb),
           \A j \in below + 1 .. below + 1 + Cardinality(A) : lb2[j] = lb[j]
    PROVE  Labelled(a, A, below, bottom, lb2)
<1>1. Cardinality(A) \in Nat BY FS_CardinalityType
<1>2. lb2[below + 1] = lb[below + 1] BY <1>1
<1>3. ASSUME NEW o \in A PROVE lb2[below + 1 + Rank(A, o)] = lb[below + 1 + Rank(A, o)]
    <2>1. Rank(A, o) \in 1 .. Cardinality(A) BY RankIs
    <2>2. below + 1 + Rank(A, o) \in below + 1 .. below + 1 + Cardinality(A) BY <1>1, <2>1
    <2>3. QED BY <2>2
<1>4. QED BY <1>2, <1>3 DEF Labelled

LEMMA LayerSame ==
    ASSUME NEW a, NEW k, NEW f0 \in Nat, NEW f1 \in Nat, NEW l0 \in Nat, NEW l1 \in Nat, NEW o0, NEW o1,
           NEW fr, NEW lb, NEW fr2, NEW lb2, Layer(a, k, f0, f1, l0, l1, o0, o1, fr, lb),
           \A j \in f0 + 1 .. f1 : fr2[j] = fr[j], \A j \in l0 + 1 .. l1 : lb2[j] = lb[j]
    PROVE  Layer(a, k, f0, f1, l0, l1, o0, o1, fr2, lb2)
<1>1. CASE ~OnStack(a) BY <1>1 DEF Layer
<1>2. CASE OnStack(a)
    <2>. DEFINE f == Funcs[a.fn]
                A == Around(f.code, Site(a))
    <2>1. Waits(a) /\ f1 = f0 + 1 /\ l1 = l0 + 1 + Cardinality(A) /\ o1 = o0 + Fixed(f) + Left(a)
          /\ Framed(a, k, fr[f1], o0, l0) /\ Labelled(a, A, l0, o0 + Fixed(f), lb)
        BY <1>2 DEF Layer
    <2>2. fr2[f1] = fr[f1] BY <2>1
    <2>3. Site(a) \in Nat BY <2>1, WaitsIs
    <2>4. IsFiniteSet(A) /\ A \subseteq Nat BY <2>3, AroundIs
    <2>5. \A j \in l0 + 1 .. l0 + 1 + Cardinality(A) : lb2[j] = lb[j] BY <2>1
    <2>6. Labelled(a, A, l0, o0 + Fixed(f), lb2)
        <3>. HIDE DEF A, f
        <3>1. QED BY <2>1, <2>4, <2>5, LabelledSame
    <2>7. QED BY <1>2, <2>1, <2>2, <2>6 DEF Layer
<1>3. QED BY <1>1, <1>2

LEMMA WaitingSame ==
    ASSUME NEW cs, NEW n \in Nat, NEW nf, NEW nl, NEW no, NEW fr, NEW lb, Waiting(cs, n, nf, nl, no, fr, lb),
           NEW ds, NEW fr2, NEW lb2, \A k \in 1 .. n : ds[k] = cs[k],
           \A j \in 1 .. nf : fr2[j] = fr[j], \A j \in 1 .. nl : lb2[j] = lb[j]
    PROVE  Waiting(ds, n, nf, nl, no, fr2, lb2)
<1>1. PICK F, L, O : Layers(cs, n, F, L, O, fr, lb) /\ F[n] = nf /\ L[n] = nl /\ O[n] = no BY DEF Waiting
<1>2. ASSUME NEW k \in 1 .. n
      PROVE  Layer(ds[k], k, F[k - 1], F[k], L[k - 1], L[k], O[k - 1], O[k], fr2, lb2)
    <2>1. k - 1 \in 0 .. n /\ k \in 0 .. n /\ n \in 0 .. n /\ k - 1 <= k /\ k <= n OBVIOUS
    <2>2. F[k - 1] \in Nat /\ F[k] \in Nat /\ L[k - 1] \in Nat /\ L[k] \in Nat BY <1>1, <2>1 DEF Layers
    <2>3. F[k] <= nf /\ L[k] <= nl /\ nf \in Nat /\ nl \in Nat BY <1>1, <2>1 DEF Layers
    <2>4. Layer(ds[k], k, F[k - 1], F[k], L[k - 1], L[k], O[k - 1], O[k], fr, lb) BY <1>1 DEF Layers
    <2>5. \A j \in F[k - 1] + 1 .. F[k] : fr2[j] = fr[j] BY <2>2, <2>3
    <2>6. \A j \in L[k - 1] + 1 .. L[k] : lb2[j] = lb[j] BY <2>2, <2>3
    <2>7. QED BY <2>2, <2>4, <2>5, <2>6, LayerSame
<1>3. Layers(ds, n, F, L, O, fr2, lb2) BY <1>1, <1>2 DEF Layers
<1>4. QED BY <1>1, <1>3 DEF Waiting

LEMMA WaitingNone ==
    ASSUME NEW cs, NEW nf \in Nat, NEW nl \in Nat, NEW no \in Nat, NEW fr, NEW lb
    PROVE  Waiting(cs, 0, nf, nl, no, fr, lb)
<1>. DEFINE F == [k \in 0 .. 0 |-> nf]
            L == [k \in 0 .. 0 |-> nl]
            O == [k \in 0 .. 0 |-> no]
<1>1. 0 .. 0 = {0} /\ 1 .. 0 = {} OBVIOUS
<1>2. F \in [0 .. 0 -> Nat] /\ L \in [0 .. 0 -> Nat] /\ O \in [0 .. 0 -> Nat] OBVIOUS
<1>3. F[0] = nf /\ L[0] = nl /\ O[0] = no BY <1>1
<1>. HIDE DEF F, L, O
<1>4. Layers(cs, 0, F, L, O, fr, lb) BY <1>1, <1>2, <1>3 DEF Layers
<1>5. QED BY <1>3, <1>4 DEF Waiting

\* Another call waits.
LEMMA WaitingPush ==
    ASSUME NEW cs, NEW n \in Nat, NEW nf \in Nat, NEW nl \in Nat, NEW no \in Nat, NEW fr, NEW lb,
           Waiting(cs, n, nf, nl, no, fr, lb),
           NEW f1 \in Nat, NEW l1 \in Nat, NEW o1 \in Nat, nf <= f1, nl <= l1,
           Layer(cs[n + 1], n + 1, nf, f1, nl, l1, no, o1, fr, lb)
    PROVE  Waiting(cs, n + 1, f1, l1, o1, fr, lb)
<1>1. PICK F, L, O : Layers(cs, n, F, L, O, fr, lb) /\ F[n] = nf /\ L[n] = nl /\ O[n] = no BY DEF Waiting
<1>. DEFINE G == [k \in 0 .. n + 1 |-> IF k = n + 1 THEN f1 ELSE F[k]]
            M == [k \in 0 .. n + 1 |-> IF k = n + 1 THEN l1 ELSE L[k]]
            P == [k \in 0 .. n + 1 |-> IF k = n + 1 THEN o1 ELSE O[k]]
<1>2. G[n + 1] = f1 /\ M[n + 1] = l1 /\ P[n + 1] = o1 OBVIOUS
<1>3. \A k \in 0 .. n : G[k] = F[k] /\ M[k] = L[k] /\ P[k] = O[k] OBVIOUS
<1>4. \A k \in 0 .. n : F[k] \in Nat /\ L[k] \in Nat /\ O[k] \in Nat /\ F[k] <= nf /\ L[k] <= nl
    BY <1>1 DEF Layers
<1>5. G \in [0 .. n + 1 -> Nat] /\ M \in [0 .. n + 1 -> Nat] /\ P \in [0 .. n + 1 -> Nat]
    BY <1>4
<1>. HIDE DEF G, M, P
<1>6. ASSUME NEW j \in 0 .. n + 1, NEW k \in 0 .. n + 1, j <= k PROVE G[j] <= G[k] /\ M[j] <= M[k]
    <2>1. CASE k \in 0 .. n
        <3>1. j \in 0 .. n BY <1>6, <2>1
        <3>2. F[j] <= F[k] /\ L[j] <= L[k] BY <1>1, <1>6, <2>1, <3>1 DEF Layers
        <3>3. QED BY <1>3, <2>1, <3>1, <3>2
    <2>2. CASE k = n + 1 /\ j \in 0 .. n BY <1>2, <1>3, <1>4, <2>2
    <2>3. CASE k = n + 1 /\ j = n + 1 BY <1>2, <2>3
    <2>4. QED BY <2>1, <2>2, <2>3
<1>7. ASSUME NEW k \in 1 .. n + 1
      PROVE  Layer(cs[k], k, G[k - 1], G[k], M[k - 1], M[k], P[k - 1], P[k], fr, lb)
    <2>1. CASE k \in 1 .. n
        <3>1. k \in 0 .. n /\ k - 1 \in 0 .. n BY <2>1
        <3>2. Layer(cs[k], k, F[k - 1], F[k], L[k - 1], L[k], O[k - 1], O[k], fr, lb) BY <1>1, <2>1 DEF Layers
        <3>3. QED BY <1>3, <3>1, <3>2
    <2>2. CASE k = n + 1
        <3>1. k - 1 = n /\ n \in 0 .. n BY <2>2
        <3>2. G[k - 1] = nf /\ M[k - 1] = nl /\ P[k - 1] = no BY <1>1, <1>3, <3>1
        <3>3. QED BY <1>2, <2>2, <3>2
    <2>3. QED BY <2>1, <2>2
<1>8. Layers(cs, n + 1, G, M, P, fr, lb) BY <1>5, <1>6, <1>7 DEF Layers
<1>9. QED BY <1>2, <1>8 DEF Waiting

\* The last of the calls that wait, and those below it.
LEMMA WaitingPop ==
    ASSUME NEW cs, NEW n \in Nat \ {0}, NEW nf, NEW nl, NEW no, NEW fr, NEW lb,
           Waiting(cs, n, nf, nl, no, fr, lb)
    PROVE  /\ nf \in Nat /\ nl \in Nat /\ no \in Nat
           /\ \E f0, l0, o0 \in Nat :
                 /\ f0 <= nf /\ l0 <= nl
                 /\ Waiting(cs, n - 1, f0, l0, o0, fr, lb)
                 /\ Layer(cs[n], n, f0, nf, l0, nl, o0, no, fr, lb)
<1>1. PICK F, L, O : Layers(cs, n, F, L, O, fr, lb) /\ F[n] = nf /\ L[n] = nl /\ O[n] = no BY DEF Waiting
<1>2. \A k \in 0 .. n : F[k] \in Nat /\ L[k] \in Nat /\ O[k] \in Nat BY <1>1 DEF Layers
<1>3. n \in 0 .. n /\ n - 1 \in 0 .. n /\ n - 1 <= n /\ n \in 1 .. n OBVIOUS
<1>. DEFINE G == [k \in 0 .. n - 1 |-> F[k]]
            M == [k \in 0 .. n - 1 |-> L[k]]
            P == [k \in 0 .. n - 1 |-> O[k]]
<1>4. \A k \in 0 .. n - 1 : G[k] = F[k] /\ M[k] = L[k] /\ P[k] = O[k] /\ k \in 0 .. n OBVIOUS
<1>5. G \in [0 .. n - 1 -> Nat] /\ M \in [0 .. n - 1 -> Nat] /\ P \in [0 .. n - 1 -> Nat] BY <1>2
<1>. HIDE DEF G, M, P
<1>6. \A j, k \in 0 .. n - 1 : j <= k => G[j] <= G[k] /\ M[j] <= M[k] BY <1>1, <1>4 DEF Layers
<1>7. ASSUME NEW k \in 1 .. n - 1
      PROVE  Layer(cs[k], k, G[k - 1], G[k], M[k - 1], M[k], P[k - 1], P[k], fr, lb)
    <2>1. k \in 0 .. n - 1 /\ k - 1 \in 0 .. n - 1 /\ k \in 1 .. n OBVIOUS
    <2>2. Layer(cs[k], k, F[k - 1], F[k], L[k - 1], L[k], O[k - 1], O[k], fr, lb) BY <1>1, <2>1 DEF Layers
    <2>3. QED BY <1>4, <2>1, <2>2
<1>8. Layers(cs, n - 1, G, M, P, fr, lb) BY <1>5, <1>6, <1>7 DEF Layers
<1>9. n - 1 \in 0 .. n - 1 OBVIOUS
<1>10. Waiting(cs, n - 1, F[n - 1], L[n - 1], O[n - 1], fr, lb) BY <1>4, <1>8, <1>9 DEF Waiting
<1>11. Layer(cs[n], n, F[n - 1], nf, L[n - 1], nl, O[n - 1], no, fr, lb) BY <1>1, <1>3 DEF Layers
<1>12. F[n - 1] <= nf /\ L[n - 1] <= nl BY <1>1, <1>3 DEF Layers
<1>13. QED BY <1>1, <1>2, <1>3, <1>10, <1>11, <1>12

-----------------------------------------------------------------------------
\* The running call, on top of those that wait.
Pair(a, b) == Expected(a) = Funcs[b.fn].results /\ (a.tier = "reg" => b.how = "callFunction")
Answers(cs) == \A k \in 1 .. Len(cs) - 1 : Pair(cs[k], cs[k + 1])

\* The call a at position i, with n operands and the labels lb above below.
At(a, i, n, below, bottom, lb) ==
    LET f == Funcs[a.fn]
        A == Around(f.code, i)
    IN  \/ /\ i \in Live(f.code) /\ n = HeightAt(f, i)
           /\ Len(lb) = below + 1 + Cardinality(A) /\ Labelled(a, A, below, bottom, lb)
        \/ i = Len(f.code) + 1 /\ n = f.results /\ Len(lb) = below

\* Of the calls cs the topmost owns the topmost frame, and the others wait.
Owns(cs, fr, lb) ==
    LET n == Len(cs)
        m == Len(fr)
        g == fr[m]
    IN  /\ n >= 1 /\ m >= 1 /\ cs[n].fn \in DOMAIN Funcs /\ OnStack(cs[n])
        /\ g.start \in Nat /\ g.label_base \in Nat /\ g.label_base <= Len(lb)
        /\ Framed(cs[n], n, g, g.start, g.label_base)
        /\ Waiting(cs, n - 1, m - 1, g.label_base, g.start, fr, lb)

OnTheStack(cs, o, fr, lb) ==
    LET a == cs[Len(cs)]
        g == fr[Len(fr)]
        bottom == g.start + Fixed(Funcs[a.fn])
    IN  /\ Owns(cs, fr, lb)
        /\ \E n \in Nat : Len(o) = bottom + n /\ At(a, a.pc, n, g.label_base, bottom, lb)

InRegs(cs, o, fr, lb) ==
    LET n == Len(cs)
        f == Funcs[cs[n].fn]
    IN  /\ n >= 1 /\ cs[n].fn \in DOMAIN Funcs /\ ~OnStack(cs[n]) /\ f.reg
        /\ cs[n].pc \in Live(f.code) \cup {Len(f.code) + 1}
        /\ Any(cs[n].regs) /\ Len(cs[n].regs) = Fixed(f) + HeightAt(f, cs[n].pc)
        /\ Waiting(cs, n - 1, Len(fr), Len(lb), Len(o), fr, lb)

\* What is being thrown, or has been stored, was thrown by an instruction.
Thrown(x) == \E y \in Throws : x.tag = y.tag /\ Any(x.vals) /\ Len(x.vals) = y.n

Stacks == Any(op) /\ Any(frames) /\ Any(labels) /\ Any(exns)
Good ==
    /\ Stacks /\ (\A j \in 1 .. Len(exns) : Thrown(exns[j])) /\ Answers(acts)
    /\ \/ err = "none" /\ OnTheStack(acts, op, frames, labels)
       \/ err = "none" /\ InRegs(acts, op, frames, labels)
       \/ /\ err = "exception" /\ top.tier = "byte" /\ Thrown(pending[1])
          /\ Owns(acts, frames, labels) /\ frames[Len(frames)].start <= Len(op)

\* An error that no function can catch any more, a frame left behind, and a
\* restarted function.
Lost == acts = <<>> \/ leaked \/ restarted \/ (err # "none" /\ (err = "exception" => top.tier # "byte"))

StacksInv == CallsInv /\ (Lost \/ Good)

\* Entering a function.
LEMMA FuncIs ==
    ASSUME NEW fn \in DOMAIN Funcs
    PROVE  LET f == Funcs[fn]
           IN  /\ Valid(f) /\ f.params \in Nat /\ f.locals \in Nat /\ f.results \in Nat
               /\ Fixed(f) \in Nat /\ Len(f.code) \in Nat \ {0} /\ 1 \in Live(f.code)
               /\ HeightAt(f, 1) = 0 /\ Around(f.code, 1) = {}
               /\ Around(f.code, Len(f.code) + 1) = {} /\ HeightAt(f, Len(f.code) + 1) = f.results
               /\ \A i \in Live(f.code) : ValidAt(f, i) /\ i \in 1 .. Len(f.code) /\ HeightAt(f, i) \in Nat
<1>. DEFINE f == Funcs[fn]
<1>1. Valid(f) BY ValidAssumption
<1>. HIDE DEF f
<1>2. Len(f.code) \in Nat \ {0} /\ f.params \in Nat /\ f.locals \in Nat /\ f.results \in Nat BY <1>1 DEF Valid
<1>3. Fixed(f) \in Nat BY <1>2 DEF Fixed
<1>4. Meets(f, 1, {}, 0) BY <1>1 DEF Valid
<1>5. \A i \in Live(f.code) : ValidAt(f, i) BY <1>1 DEF Valid
<1>6. \A i \in Live(f.code) : HeightAt(f, i) \in Nat BY <1>5 DEF ValidAt
<1>7. QED BY <1>1, <1>2, <1>3, <1>4, <1>5, <1>6 DEF Valid, Meets, Live, f

LEMMA PushAnswers ==
    ASSUME NEW cs, IsCalls(cs), Answers(cs), NEW a, IsCall(a), Len(cs) >= 1 => Pair(cs[Len(cs)], a)
    PROVE  Answers(Append(cs, a))
<1>. DEFINE ds == Append(cs, a)
<1>1. Len(cs) \in Nat BY CallsLen
<1>2. Len(ds) = Len(cs) + 1 /\ (\A k \in 1 .. Len(cs) : ds[k] = cs[k]) /\ ds[Len(cs) + 1] = a BY Push1
<1>. HIDE DEF ds
<1>3. ASSUME NEW k \in 1 .. Len(ds) - 1 PROVE Pair(ds[k], ds[k + 1])
    <2>1. CASE k = Len(cs)
        <3>1. ds[k] = cs[Len(cs)] /\ ds[k + 1] = a /\ Len(cs) >= 1 BY <1>1, <1>2, <2>1
        <3>2. QED BY <3>1
    <2>2. CASE k # Len(cs)
        <3>1. k \in 1 .. Len(cs) - 1 /\ ds[k] = cs[k] /\ ds[k + 1] = cs[k + 1] BY <1>1, <1>2, <2>2
        <3>2. QED BY <3>1 DEF Answers
    <2>3. QED BY <2>1, <2>2
<1>4. QED BY <1>3 DEF Answers, ds

LEMMA ActivationFields ==
    ASSUME NEW how, NEW tier, NEW fn, NEW base, NEW regs, NEW saved
    PROVE  LET a == Activation(how, tier, fn, base, regs, saved)
           IN  IsCall(a) /\ a.how = how /\ a.tier = tier /\ a.fn = fn /\ a.pc = 1 /\ a.base = base /\ a.regs = regs
BY DEF Activation, IsCall, CallFields

\* On the stack: the new call owns the frame that it pushes.
LEMMA EnterStackGood ==
    ASSUME NEW cs, IsCalls(cs), Answers(cs), NEW how, NEW tier, tier # "reg", NEW fn \in DOMAIN Funcs,
           NEW o, Any(o), NEW fr, Any(fr), NEW lb, Any(lb), NEW b,
           Len(o) >= Funcs[fn].params,
           Waiting(cs, Len(cs), Len(fr), Len(lb), Len(o) - Funcs[fn].params, fr, lb),
           Len(cs) >= 1 => /\ Expected(cs[Len(cs)]) = Funcs[fn].results
                           /\ cs[Len(cs)].tier = "reg" => how = "callFunction",
           EnterStack(cs, how, tier, fn, o, fr, lb, b), err' = "none"
    PROVE  /\ Any(op') /\ Any(frames') /\ Any(labels') /\ Answers(acts')
           /\ OnTheStack(acts', op', frames', labels')
<1>. DEFINE f == Funcs[fn]
            start == Len(o) - f.params
            zeros == [k \in 1 .. f.locals |-> 0]
            o1 == o \o zeros
            g == [start |-> start, label_base |-> Len(lb), arity |-> f.results, act |-> Len(cs) + 1]
            l == FunctionLabel(how, tier, f, Len(o1))
            a == Activation(how, tier, fn, start, <<>>, b)
<1>1. op' = o1 /\ frames' = Append(fr, g) /\ labels' = Append(lb, l) /\ acts' = Append(cs, a)
    BY DEF EnterStack
<1>2. Valid(f) /\ f.params \in Nat /\ f.locals \in Nat /\ f.results \in Nat
      /\ Len(f.code) \in Nat \ {0} /\ 1 \in Live(f.code) /\ HeightAt(f, 1) = 0 /\ Around(f.code, 1) = {}
    BY FuncIs
<1>3. Fixed(f) = f.params + f.locals BY DEF Fixed
<1>4. IsCall(a) /\ a.how = how /\ a.tier = tier /\ a.fn = fn /\ a.pc = 1 /\ a.base = start
    BY ActivationFields
<1>5. g.start = start /\ g.label_base = Len(lb) /\ g.arity = f.results /\ g.act = Len(cs) + 1 OBVIOUS
<1>6. Len(o) \in Nat /\ Len(fr) \in Nat /\ Len(lb) \in Nat /\ Len(cs) \in Nat BY AnyLen, CallsLen
<1>7. Any(zeros) /\ Len(zeros) = f.locals BY <1>2, AnyZeros
<1>8. Any(o1) /\ Len(o1) = Len(o) + f.locals
    <2>. HIDE DEF zeros
    <2>1. QED BY <1>7, AnyCat
<1>9. start \in Nat BY <1>2, <1>6
<1>10. Len(o1) = start + Fixed(f) + 0 BY <1>2, <1>3, <1>6, <1>8
<1>. HIDE DEF g, l, a, o1
<1>11. Any(frames') /\ Len(frames') = Len(fr) + 1 /\ frames'[Len(fr) + 1] = g
       /\ \A k \in 1 .. Len(fr) : frames'[k] = fr[k]
    BY <1>1, AnyAppend
<1>12. Any(labels') /\ Len(labels') = Len(lb) + 1 /\ labels'[Len(lb) + 1] = l
       /\ \A k \in 1 .. Len(lb) : labels'[k] = lb[k]
    BY <1>1, AnyAppend
<1>13. Len(acts') = Len(cs) + 1 /\ acts'[Len(cs) + 1] = a /\ \A k \in 1 .. Len(cs) : acts'[k] = cs[k]
    BY <1>1, <1>4, Push1
<1>14. Answers(acts')
    <2>1. Len(cs) >= 1 => Pair(cs[Len(cs)], a) BY <1>4 DEF Pair
    <2>2. QED BY <1>1, <1>4, <2>1, PushAnswers
<1>15. Waiting(acts', Len(cs), Len(fr), Len(lb), start, frames', labels')
    <2>. HIDE DEF start
    <2>1. Waiting(cs, Len(cs), Len(fr), Len(lb), start, fr, lb) BY DEF start
    <2>2. QED BY <1>6, <1>11, <1>12, <1>13, <2>1, WaitingSame
<1>16. Len(acts') - 1 = Len(cs) /\ Len(frames') - 1 = Len(fr) BY <1>6, <1>11, <1>13
<1>17. Owns(acts', frames', labels')
    <2>1. Framed(a, Len(acts'), g, g.start, g.label_base) BY <1>4, <1>5, <1>13 DEF Framed
    <2>2. OnStack(a) BY <1>4 DEF OnStack
    <2>3. acts'[Len(acts')] = a /\ frames'[Len(frames')] = g BY <1>11, <1>13
    <2>. HIDE DEF start
    <2>4. QED BY <1>4, <1>5, <1>6, <1>9, <1>11, <1>12, <1>13, <1>15, <1>16, <2>1, <2>2, <2>3 DEF Owns
<1>18. At(a, 1, 0, Len(lb), Len(o1), labels')
    <2>1. l = FunctionLabel(a.how, a.tier, Funcs[a.fn], Len(o1)) BY <1>4 DEF l
    <2>2. Labelled(a, {}, Len(lb), Len(o1), labels') BY <1>12, <2>1 DEF Labelled
    <2>3. Cardinality({}) = 0 BY FS_EmptySet
    <2>4. Len(labels') = Len(lb) + 1 + 0 BY <1>6, <1>12
    <2>5. QED BY <1>2, <1>4, <2>2, <2>3, <2>4 DEF At
<1>19. OnTheStack(acts', op', frames', labels')
    <2>1. acts'[Len(acts')] = a /\ frames'[Len(frames')] = g BY <1>11, <1>13
    <2>. DEFINE bottom == g.start + Fixed(Funcs[a.fn])
    <2>2. Len(o1) = bottom /\ bottom + 0 = bottom BY <1>4, <1>5, <1>10, <1>9, <1>2, <1>3
    <2>. HIDE DEF bottom, start
    <2>3. Len(op') = bottom + 0 /\ At(a, a.pc, 0, g.label_base, bottom, labels') BY <1>1, <1>4, <1>5, <1>18, <2>2
    <2>4. QED BY <1>17, <2>1, <2>3 DEF OnTheStack, bottom
<1>20. Any(op') BY <1>1, <1>8
<1>21. QED BY <1>11, <1>12, <1>14, <1>19, <1>20

\* In registers.
LEMMA EnterRegGood ==
    ASSUME NEW cs, IsCalls(cs), Answers(cs), NEW how, NEW fn \in DOMAIN Funcs, Funcs[fn].reg,
           NEW args, Any(args), Len(args) = Funcs[fn].params,
           NEW o, Any(o), NEW fr, Any(fr), NEW lb, Any(lb), NEW b,
           Waiting(cs, Len(cs), Len(fr), Len(lb), Len(o), fr, lb),
           Len(cs) >= 1 => /\ Expected(cs[Len(cs)]) = Funcs[fn].results
                           /\ cs[Len(cs)].tier = "reg" => how = "callFunction",
           EnterReg(cs, how, fn, args, o, fr, lb, b)
    PROVE  /\ Any(op') /\ Any(frames') /\ Any(labels') /\ Answers(acts')
           /\ InRegs(acts', op', frames', labels')
<1>. DEFINE f == Funcs[fn]
            zeros == [k \in 1 .. f.locals |-> 0]
            regs == args \o zeros
            a == Activation(how, "reg", fn, Len(o), regs, b)
<1>1. op' = o /\ frames' = fr /\ labels' = lb /\ acts' = Append(cs, a) BY DEF EnterReg
<1>2. Valid(f) /\ f.params \in Nat /\ f.locals \in Nat /\ Len(f.code) \in Nat \ {0} /\ 1 \in Live(f.code)
      /\ HeightAt(f, 1) = 0
    BY FuncIs
<1>. HIDE DEF regs
<1>3. IsCall(a) /\ a.how = how /\ a.tier = "reg" /\ a.fn = fn /\ a.pc = 1 /\ a.regs = regs
    BY ActivationFields
<1>4. Len(cs) \in Nat BY CallsLen
<1>5. Any(zeros) /\ Len(zeros) = f.locals BY <1>2, AnyZeros
<1>6. Any(regs) /\ Len(regs) = Fixed(f) + 0
    <2>. HIDE DEF zeros
    <2>1. Any(regs) /\ Len(regs) = f.params + f.locals BY <1>5, AnyCat DEF regs
    <2>2. QED BY <1>2, <2>1 DEF Fixed
<1>. HIDE DEF a
<1>7. Len(acts') = Len(cs) + 1 /\ acts'[Len(cs) + 1] = a /\ \A k \in 1 .. Len(cs) : acts'[k] = cs[k]
    BY <1>1, <1>3, Push1
<1>8. Answers(acts')
    <2>1. Len(cs) >= 1 => Pair(cs[Len(cs)], a) BY <1>3 DEF Pair
    <2>2. QED BY <1>1, <1>3, <2>1, PushAnswers
<1>9. Waiting(acts', Len(cs), Len(fr), Len(lb), Len(o), fr, lb) BY <1>4, <1>7, WaitingSame
<1>10. Len(acts') - 1 = Len(cs) /\ Len(acts') >= 1 BY <1>4, <1>7
<1>11. InRegs(acts', o, fr, lb)
    <2>1. acts'[Len(acts')] = a BY <1>7
    <2>2. QED BY <1>2, <1>3, <1>6, <1>9, <1>10, <2>1 DEF InRegs, OnStack
<1>12. QED BY <1>1, <1>8, <1>11

-----------------------------------------------------------------------------
\* A change of the topmost call's position or registers.
PcSet(cs, v) == [cs EXCEPT ![Len(cs)].pc = v]
RegsSet(cs, v) == [cs EXCEPT ![Len(cs)].regs = v]

LEMMA PcFields ==
    ASSUME NEW cs, IsCalls(cs), Len(cs) >= 1, NEW v
    PROVE  LET n == Len(cs)
               es == PcSet(cs, v)
           IN  /\ IsCalls(es) /\ n \in Nat /\ Len(es) = n /\ (\A k \in 1 .. n - 1 : es[k] = cs[k])
               /\ es[n].pc = v /\ es[n].how = cs[n].how /\ es[n].tier = cs[n].tier /\ es[n].fn = cs[n].fn
               /\ es[n].base = cs[n].base /\ es[n].regs = cs[n].regs
<1>. DEFINE n == Len(cs)
            b == [cs[n] EXCEPT !["pc"] = v]
            ds == [cs EXCEPT ![n] = b]
<1>1. n \in Nat /\ n \in 1 .. n BY CallsLen
<1>2. IsCall(cs[n]) BY <1>1 DEF IsCalls
<1>3. IsCall(b) /\ b["pc"] = v /\ \A g \in CallFields : g # "pc" => b[g] = cs[n][g]
    BY <1>2 DEF IsCall, CallFields
<1>4. IsCalls(ds) /\ Len(ds) = Len(cs) /\ ds[n] = b /\ \A k \in 1 .. Len(cs) : k # n => ds[k] = cs[k]
    BY <1>1, <1>3, Change1
<1>5. b.pc = v /\ b.how = cs[n].how /\ b.tier = cs[n].tier /\ b.fn = cs[n].fn /\ b.base = cs[n].base
      /\ b.regs = cs[n].regs
    BY <1>3 DEF CallFields
<1>. HIDE DEF b
<1>6. \A k \in 1 .. n - 1 : ds[k] = cs[k] BY <1>1, <1>4
<1>. HIDE DEF ds
<1>7. PcSet(cs, v) = ds BY DEF PcSet, ds, b
<1>8. QED BY <1>1, <1>4, <1>5, <1>6, <1>7

LEMMA RegsFields ==
    ASSUME NEW cs, IsCalls(cs), Len(cs) >= 1, NEW v
    PROVE  LET n == Len(cs)
               es == RegsSet(cs, v)
           IN  /\ IsCalls(es) /\ n \in Nat /\ Len(es) = n /\ (\A k \in 1 .. n - 1 : es[k] = cs[k])
               /\ es[n].regs = v /\ es[n].how = cs[n].how /\ es[n].tier = cs[n].tier /\ es[n].fn = cs[n].fn
               /\ es[n].base = cs[n].base /\ es[n].pc = cs[n].pc
<1>. DEFINE n == Len(cs)
            b == [cs[n] EXCEPT !["regs"] = v]
            ds == [cs EXCEPT ![n] = b]
<1>1. n \in Nat /\ n \in 1 .. n BY CallsLen
<1>2. IsCall(cs[n]) BY <1>1 DEF IsCalls
<1>3. IsCall(b) /\ b["regs"] = v /\ \A g \in CallFields : g # "regs" => b[g] = cs[n][g]
    BY <1>2 DEF IsCall, CallFields
<1>4. IsCalls(ds) /\ Len(ds) = Len(cs) /\ ds[n] = b /\ \A k \in 1 .. Len(cs) : k # n => ds[k] = cs[k]
    BY <1>1, <1>3, Change1
<1>5. b.regs = v /\ b.how = cs[n].how /\ b.tier = cs[n].tier /\ b.fn = cs[n].fn /\ b.base = cs[n].base
      /\ b.pc = cs[n].pc
    BY <1>3 DEF CallFields
<1>. HIDE DEF b
<1>6. \A k \in 1 .. n - 1 : ds[k] = cs[k] BY <1>1, <1>4
<1>. HIDE DEF ds
<1>7. RegsSet(cs, v) = ds BY DEF RegsSet, ds, b
<1>8. QED BY <1>1, <1>4, <1>5, <1>6, <1>7

LEMMA AnswersSame ==
    ASSUME NEW cs, NEW ds, Answers(cs), Len(cs) \in Nat, Len(ds) = Len(cs),
           \A k \in 1 .. Len(cs) - 1 : ds[k] = cs[k],
           ds[Len(cs)].fn = cs[Len(cs)].fn, ds[Len(cs)].how = cs[Len(cs)].how
    PROVE  Answers(ds)
<1>1. ASSUME NEW k \in 1 .. Len(cs) - 1 PROVE Pair(ds[k], ds[k + 1])
    <2>1. Pair(cs[k], cs[k + 1]) /\ ds[k] = cs[k] BY DEF Answers
    <2>2. k + 1 \in 1 .. Len(cs) - 1 \/ k + 1 = Len(cs) OBVIOUS
    <2>3. ds[k + 1].fn = cs[k + 1].fn /\ ds[k + 1].how = cs[k + 1].how BY <2>2
    <2>4. QED BY <2>1, <2>3 DEF Pair
<1>2. QED BY <1>1 DEF Answers

\* The same calls but the last.
LEMMA AnswersPop ==
    ASSUME NEW cs, IsCalls(cs), Answers(cs), Len(cs) >= 1
    PROVE  LET ds == SubSeq(cs, 1, Len(cs) - 1)
           IN  /\ IsCalls(ds) /\ Answers(ds) /\ Len(ds) = Len(cs) - 1 /\ Len(ds) \in Nat
               /\ (\A k \in 1 .. Len(ds) : ds[k] = cs[k])
               /\ Len(ds) >= 1 => Pair(ds[Len(ds)], cs[Len(cs)])
<1>. DEFINE ds == SubSeq(cs, 1, Len(cs) - 1)
<1>1. Len(cs) \in Nat BY CallsLen
<1>2. IsCalls(ds) /\ Len(ds) = Len(cs) - 1 /\ \A k \in 1 .. Len(ds) : ds[k] = cs[k] BY Pop1
<1>. HIDE DEF ds
<1>3. Answers(ds) BY <1>1, <1>2 DEF Answers
<1>4. ASSUME Len(ds) >= 1 PROVE Pair(ds[Len(ds)], cs[Len(cs)])
    <2>1. Len(ds) \in 1 .. Len(cs) - 1 /\ Len(ds) + 1 = Len(cs) /\ ds[Len(ds)] = cs[Len(ds)]
        BY <1>1, <1>2, <1>4
    <2>2. Pair(cs[Len(ds)], cs[Len(ds) + 1]) BY <2>1 DEF Answers
    <2>3. QED BY <2>1, <2>2
<1>5. QED BY <1>1, <1>2, <1>3, <1>4 DEF ds

-----------------------------------------------------------------------------
\* The running call on the stack, and what it executes.
Bottom == frame.start + Fixed(Funcs[top.fn])
OnStackGood == CallsInv /\ Good /\ err = "none" /\ OnStack(top)
InRegsGood == CallsInv /\ Good /\ err = "none" /\ ~OnStack(top)

LEMMA OnStackIs ==
    ASSUME OnStackGood
    PROVE  /\ Stacks /\ (\A j \in 1 .. Len(exns) : Thrown(exns[j])) /\ Answers(acts) /\ IsCalls(acts)
           /\ Owns(acts, frames, labels)
           /\ Len(acts) \in Nat /\ Len(acts) >= 1 /\ acts # <<>> /\ top.fn \in DOMAIN Funcs
           /\ Len(frames) \in Nat /\ Len(frames) >= 1 /\ Len(op) \in Nat /\ Len(labels) \in Nat
           /\ frame.start \in Nat /\ frame.label_base \in Nat /\ frame.label_base <= Len(labels)
           /\ Bottom \in Nat
           /\ Framed(top, Len(acts), frame, frame.start, frame.label_base)
           /\ Waiting(acts, Len(acts) - 1, Len(frames) - 1, frame.label_base, frame.start, frames, labels)
           /\ \E n \in Nat : Len(op) = Bottom + n /\ At(top, top.pc, n, frame.label_base, Bottom, labels)
<1>1. OnTheStack(acts, op, frames, labels) BY DEF OnStackGood, Good, InRegs, top
<1>2. Stacks /\ (\A j \in 1 .. Len(exns) : Thrown(exns[j])) /\ Answers(acts) /\ IsCalls(acts)
    BY DEF OnStackGood, Good, CallsInv
<1>3. Len(acts) \in Nat /\ Len(frames) \in Nat /\ Len(op) \in Nat /\ Len(labels) \in Nat
    BY <1>2, AnyLen, CallsLen DEF Stacks
<1>4. Owns(acts, frames, labels) BY <1>1 DEF OnTheStack
<1>5. Len(acts) >= 1 /\ top.fn \in DOMAIN Funcs /\ Len(frames) >= 1
      /\ frame.start \in Nat /\ frame.label_base \in Nat /\ frame.label_base <= Len(labels)
      /\ Framed(top, Len(acts), frame, frame.start, frame.label_base)
      /\ Waiting(acts, Len(acts) - 1, Len(frames) - 1, frame.label_base, frame.start, frames, labels)
    BY <1>4 DEF Owns, top, frame
<1>6. Bottom \in Nat BY <1>5, FuncIs DEF Bottom
<1>7. \E n \in Nat : Len(op) = Bottom + n /\ At(top, top.pc, n, frame.label_base, Bottom, labels)
    BY <1>1 DEF OnTheStack, Bottom, top, frame
<1>8. acts # <<>> BY <1>5, NoCalls
<1>9. QED BY <1>2, <1>3, <1>4, <1>5, <1>6, <1>7, <1>8

LEMMA Executing ==
    ASSUME OnStackGood, ~AtEnd
    PROVE  LET f == Funcs[top.fn]
               i == top.pc
               A == Around(code, i)
           IN  /\ i \in Live(code) /\ i \in 1 .. Len(code) /\ Len(code) \in Nat /\ Valid(f) /\ ValidAt(f, i)
               /\ HeightAt(f, i) \in Nat /\ Len(op) = Bottom + HeightAt(f, i)
               /\ Len(labels) = frame.label_base + 1 + Cardinality(A)
               /\ Labelled(top, A, frame.label_base, Bottom, labels)
               /\ A \subseteq 1 .. i - 1 /\ IsFiniteSet(A) /\ Cardinality(A) \in Nat
               /\ \A o \in A : o \in Nat /\ o < i /\ code[o].op \in Openers
<1>. DEFINE f == Funcs[top.fn]
            i == top.pc
<1>1. PICK n \in Nat : Len(op) = Bottom + n /\ At(top, i, n, frame.label_base, Bottom, labels) BY OnStackIs
<1>2. top.fn \in DOMAIN Funcs BY OnStackIs
<1>3. code = f.code BY DEF code
<1>4. Len(code) \in Nat /\ Valid(f) BY <1>2, <1>3, FuncIs
<1>5. i # Len(code) + 1 BY <1>4 DEF AtEnd
<1>6. i \in Live(code) /\ n = HeightAt(f, i) /\ Len(labels) = frame.label_base + 1 + Cardinality(Around(code, i))
      /\ Labelled(top, Around(code, i), frame.label_base, Bottom, labels)
    BY <1>1, <1>3, <1>5 DEF At
<1>7. ValidAt(f, i) /\ i \in 1 .. Len(code) BY <1>2, <1>3, <1>6, FuncIs
<1>8. i \in Nat BY <1>4, <1>7
<1>9. Around(code, i) \subseteq 1 .. i - 1 /\ IsFiniteSet(Around(code, i)) /\ Cardinality(Around(code, i)) \in Nat
      /\ \A o \in Around(code, i) : code[o].op \in Openers
    BY <1>8, AroundIs
<1>10. \A o \in Around(code, i) : o \in Nat /\ o < i BY <1>8, <1>9
<1>11. QED BY <1>1, <1>4, <1>6, <1>7, <1>9, <1>10

\* A step within the running call.
LEMMA StackStep ==
    ASSUME OnStackGood, NEW pc, acts' = Moved(pc), frames' = frames, exns' = exns, err' = "none",
           Any(op'), Any(labels'), \A j \in 1 .. frame.label_base : labels'[j] = labels[j],
           NEW n \in Nat, Len(op') = Bottom + n, At(top, pc, n, frame.label_base, Bottom, labels')
    PROVE  Good'
<1>. DEFINE a == acts'[Len(acts')]
<1>1. /\ Stacks /\ (\A j \in 1 .. Len(exns) : Thrown(exns[j])) /\ Answers(acts) /\ IsCalls(acts)
      /\ Owns(acts, frames, labels)
      /\ Len(acts) \in Nat /\ Len(acts) >= 1 /\ acts # <<>> /\ top.fn \in DOMAIN Funcs
      /\ Len(frames) \in Nat /\ Len(frames) >= 1 /\ Len(op) \in Nat /\ Len(labels) \in Nat
      /\ frame.start \in Nat /\ frame.label_base \in Nat /\ frame.label_base <= Len(labels)
      /\ Bottom \in Nat
      /\ Framed(top, Len(acts), frame, frame.start, frame.label_base)
      /\ Waiting(acts, Len(acts) - 1, Len(frames) - 1, frame.label_base, frame.start, frames, labels)
    BY OnStackIs
<1>2. /\ IsCalls(acts') /\ Len(acts') = Len(acts) /\ (\A k \in 1 .. Len(acts) - 1 : acts'[k] = acts[k])
      /\ a.pc = pc /\ a.how = top.how /\ a.tier = top.tier /\ a.fn = top.fn /\ a.base = top.base
    <2>1. acts' = PcSet(acts, pc) BY DEF Moved, PcSet
    <2>2. QED BY <1>1, <2>1, PcFields DEF top
<1>3. Answers(acts') BY <1>1, <1>2, AnswersSame DEF top
<1>4. Waiting(acts', Len(acts) - 1, Len(frames) - 1, frame.label_base, frame.start, frames, labels')
    <2>1. Len(acts) - 1 \in Nat BY <1>1
    <2>2. \A k \in 1 .. Len(acts) - 1 : acts'[k] = acts[k] BY <1>2
    <2>3. Waiting(acts, Len(acts) - 1, Len(frames) - 1, frame.label_base, frame.start, frames, labels) BY <1>1
    <2>4. \A j \in 1 .. Len(frames) - 1 : frames[j] = frames[j] OBVIOUS
    <2>5. QED BY <2>1, <2>2, <2>3, <2>4, WaitingSame
<1>5. frame.label_base <= Len(labels')
    <2>1. CASE Len(labels') = frame.label_base BY <1>1, <2>1
    <2>2. CASE pc \in Live(Funcs[top.fn].code)
              /\ Len(labels') = frame.label_base + 1 + Cardinality(Around(Funcs[top.fn].code, pc))
        <3>1. pc \in 1 .. Len(Funcs[top.fn].code) /\ Len(Funcs[top.fn].code) \in Nat BY <1>1, <2>2, FuncIs
        <3>2. Cardinality(Around(Funcs[top.fn].code, pc)) \in Nat BY <3>1, AroundIs
        <3>3. frame.label_base \in Nat BY <1>1
        <3>4. Len(labels') = frame.label_base + 1 + Cardinality(Around(Funcs[top.fn].code, pc)) BY <2>2
        <3>5. QED BY <3>2, <3>3, <3>4
    <2>3. QED BY <2>1, <2>2 DEF At
<1>6. OnStack(a) BY <1>2 DEF OnStackGood, OnStack
<1>7. Framed(a, Len(acts'), frame, frame.start, frame.label_base) BY <1>1, <1>2 DEF Framed
<1>8. Owns(acts', frames', labels')
    BY <1>1, <1>2, <1>4, <1>5, <1>6, <1>7 DEF Owns, frame
<1>9. At(a, pc, n, frame.label_base, Bottom, labels') BY <1>2 DEF At, Labelled
<1>10. OnTheStack(acts', op', frames', labels')
    BY <1>2, <1>8, <1>9 DEF OnTheStack, frame, Bottom
<1>11. Stacks' BY <1>1 DEF Stacks
<1>12. QED BY <1>1, <1>3, <1>10, <1>11 DEF Good

-----------------------------------------------------------------------------
\* Labels that are pushed, and labels that stay when others are cut off.
LEMMA CutLabels ==
    ASSUME NEW a, NEW A, IsFiniteSet(A), A \subseteq Nat, NEW below \in Nat, NEW bottom, NEW lb,
           Labelled(a, A, below, bottom, lb),
           NEW t \in Nat, NEW B, B = {k \in A : k <= t} \/ B = {k \in A : k < t},
           NEW lb2, \A j \in below + 1 .. below + 1 + Cardinality(B) : lb2[j] = lb[j]
    PROVE  Labelled(a, B, below, bottom, lb2)
<1>1. B \subseteq A BY Zenon
<1>2. IsFiniteSet(B) /\ B \subseteq Nat BY <1>1, FS_Subset
<1>3. Cardinality(B) \in Nat BY <1>2, FS_CardinalityType
<1>4. Labelled(a, B, below, bottom, lb)
    <2>1. ASSUME NEW o \in B PROVE Rank(B, o) = Rank(A, o) /\ o \in A BY RankBelow, ZenonT(20)
    <2>2. QED BY <2>1 DEF Labelled
<1>5. QED BY <1>2, <1>4, LabelledSame

LEMMA OpenLabels ==
    ASSUME NEW a, NEW i \in Nat, NEW A, A \subseteq 1 .. i - 1, NEW below \in Nat, NEW bottom,
           NEW lb, Any(lb), Len(lb) = below + 1 + Cardinality(A), Labelled(a, A, below, bottom, lb),
           NEW lb2, lb2 = Append(lb, LabelFor(Funcs[a.fn], i, bottom))
    PROVE  \A B : B = A \cup {i} => Len(lb2) = below + 1 + Cardinality(B) /\ Labelled(a, B, below, bottom, lb2)
<1>. DEFINE l == LabelFor(Funcs[a.fn], i, bottom)
<1>1. IsFiniteSet(A) /\ Cardinality(A \cup {i}) = Cardinality(A) + 1 /\ Rank(A \cup {i}, i) = Cardinality(A) + 1
      /\ \A o \in A : Rank(A \cup {i}, o) = Rank(A, o)
    BY RankAbove
<1>2. Cardinality(A) \in Nat /\ A \subseteq Nat BY <1>1, FS_CardinalityType
<1>3. Any(lb2) /\ Len(lb2) = Len(lb) + 1 /\ lb2[Len(lb) + 1] = l /\ \A j \in 1 .. Len(lb) : lb2[j] = lb[j]
    BY AnyAppend
<1>4. Labelled(a, A, below, bottom, lb2)
    <2>1. \A j \in below + 1 .. below + 1 + Cardinality(A) : lb2[j] = lb[j] BY <1>2, <1>3
    <2>2. QED BY <1>1, <1>2, <2>1, LabelledSame, ZenonT(30)
<1>5. lb2[below + 1 + Rank(A \cup {i}, i)] = l BY <1>1, <1>2, <1>3
<1>6. ASSUME NEW o \in A \cup {i}
      PROVE  lb2[below + 1 + Rank(A \cup {i}, o)] = LabelFor(Funcs[a.fn], o, bottom)
    <2>1. CASE o \in A BY <1>1, <1>4, <2>1 DEF Labelled
    <2>2. CASE o = i BY <1>5, <2>2
    <2>3. QED BY <2>1, <2>2
<1>7. Labelled(a, A \cup {i}, below, bottom, lb2) BY <1>4, <1>6 DEF Labelled
<1>8. Len(lb2) = below + 1 + Cardinality(A \cup {i}) BY <1>1, <1>2, <1>3
<1>9. QED BY <1>7, <1>8

LEMMA MeetsAt ==
    ASSUME NEW a, a.fn \in DOMAIN Funcs, NEW i, NEW A, NEW n, Meets(Funcs[a.fn], i, A, n), NEW below, NEW bottom,
           NEW lb, Len(lb) = below + 1 + Cardinality(A), Labelled(a, A, below, bottom, lb)
    PROVE  n \in Nat /\ At(a, i, n, below, bottom, lb)
<1>1. HeightAt(Funcs[a.fn], i) \in Nat BY FuncIs DEF Meets
<1>2. QED BY <1>1 DEF Meets, At

-----------------------------------------------------------------------------
\* Instructions on the stack that go on with the next one.
LEMMA NextGood ==
    ASSUME OnStackGood, ~AtEnd, acts' = Stepped, frames' = frames, labels' = labels, exns' = exns, err' = "none",
           Any(op'), NEW e \in Int, Len(op') = Len(op) + e,
           Meets(Funcs[top.fn], top.pc + 1, Around(code, top.pc), HeightAt(Funcs[top.fn], top.pc) + e)
    PROVE  Good'
<1>. DEFINE n == HeightAt(Funcs[top.fn], top.pc)
<1>1. top.fn \in DOMAIN Funcs /\ Any(labels) /\ Bottom \in Nat /\ Len(op) \in Nat BY OnStackIs DEF Stacks
<1>2. Len(op) = Bottom + n /\ n \in Nat /\ Len(labels) = frame.label_base + 1 + Cardinality(Around(code, top.pc))
      /\ Labelled(top, Around(code, top.pc), frame.label_base, Bottom, labels)
    BY Executing
<1>3. n + e \in Nat /\ At(top, top.pc + 1, n + e, frame.label_base, Bottom, labels) BY <1>1, <1>2, MeetsAt
<1>4. Len(op') = Bottom + (n + e) BY <1>1, <1>2
<1>. HIDE DEF n
<1>5. QED BY <1>1, <1>3, <1>4, StackStep DEF Stepped

LEMMA ExecutesOnStack ==
    ASSUME CallsInv, Good, NEW o, Executes(o), OnStack(top)
    PROVE  OnStackGood /\ ~AtEnd /\ instr = code[top.pc] /\ instr.op = o /\ code = Funcs[top.fn].code
BY DEF Executes, OnOwnFrame, InRegisters, Running, OnStackGood, instr, code

LEMMA PushGood ==
    ASSUME CallsInv, Good, OnStack(top), Const \/ LocalGet
    PROVE  Lost' \/ Good'
<1>1. PICK v : Push(v) /\ (Executes("const") \/ Executes("local.get")) BY DEF Const, LocalGet
<1>2. OnStackGood /\ ~AtEnd /\ instr = code[top.pc] /\ instr.op \in {"const", "local.get"} /\ code = Funcs[top.fn].code
    BY <1>1, ExecutesOnStack
<1>3. CASE Len(op) >= OpSize
    <2>1. err' = "operands" BY <1>1, <1>2, <1>3 DEF Push, OnStackGood
    <2>2. QED BY <2>1 DEF Lost
<1>4. CASE ~(Len(op) >= OpSize)
    <2>1. err' = "none" /\ op' = Append(op, v) /\ acts' = Stepped BY <1>4 , <1>1 DEF Push, SetOperands, Operands
    <2>2. frames' = frames /\ labels' = labels /\ exns' = exns BY <1>1 DEF Push
    <2>3. Any(op) BY <1>2, OnStackIs DEF Stacks
    <2>4. Any(op') /\ Len(op') = Len(op) + 1 BY <2>1, <2>3, AnyAppend
    <2>5. ValidAt(Funcs[top.fn], top.pc) BY <1>2, Executing
    <2>6. Effect(instr) = 1 BY <1>2 DEF Effect
    <2>7. Meets(Funcs[top.fn], top.pc + 1, Around(code, top.pc), HeightAt(Funcs[top.fn], top.pc) + 1)
        BY <1>2, <2>5, <2>6, Zenon DEF ValidAt
    <2>8. Good' BY <1>2, <2>1, <2>2, <2>4, <2>7, NextGood
    <2>9. QED BY <2>8
<1>5. QED BY <1>3, <1>4

LEMMA DropGood ==
    ASSUME CallsInv, Good, OnStack(top), Drop
    PROVE  Good'
<1>1. Executes("drop") BY DEF Drop
<1>2. OnStackGood /\ ~AtEnd /\ instr = code[top.pc] /\ instr.op = "drop" /\ code = Funcs[top.fn].code
    BY <1>1, ExecutesOnStack
<1>3. acts' = Stepped /\ op' = Prefix(op, Len(op) - 1) /\ frames' = frames /\ labels' = labels /\ exns' = exns
      /\ err' = "none"
    BY <1>2 DEF Drop, SetOperands, Operands, OnStackGood
<1>4. ValidAt(Funcs[top.fn], top.pc) /\ Len(op) = Bottom + HeightAt(Funcs[top.fn], top.pc)
      /\ HeightAt(Funcs[top.fn], top.pc) \in Nat
    BY <1>2, Executing
<1>5. Any(op) /\ Len(op) \in Nat /\ Bottom \in Nat BY <1>2, OnStackIs DEF Stacks
<1>6. Effect(instr) = -1 /\ Consumes(instr) = 1 BY <1>2 DEF Effect, Consumes
<1>7. Meets(Funcs[top.fn], top.pc + 1, Around(code, top.pc), HeightAt(Funcs[top.fn], top.pc) + (-1))
      /\ 1 <= HeightAt(Funcs[top.fn], top.pc)
    <2>1. Meets(Funcs[top.fn], top.pc + 1, Around(code, top.pc), HeightAt(Funcs[top.fn], top.pc) + Effect(instr))
        BY <1>2, <1>4, Zenon DEF ValidAt
    <2>2. Consumes(instr) \in 0 .. HeightAt(Funcs[top.fn], top.pc) BY <1>2, <1>4, Zenon DEF ValidAt
    <2>3. QED BY <1>4, <1>6, <2>1, <2>2
<1>8. Len(op) - 1 \in 0 .. Len(op) BY <1>4, <1>5, <1>7
<1>9. Any(op') /\ Len(op') = Len(op) - 1 BY <1>3, <1>5, <1>8, AnyPrefix
<1>10. Len(op') = Len(op) + (-1) /\ -1 \in Int BY <1>5, <1>9
<1>11. QED BY <1>2, <1>3, <1>7, <1>9, <1>10, NextGood

LEMMA BrIfNotGood ==
    ASSUME CallsInv, Good, OnStack(top), BrIfNot
    PROVE  Good'
<1>1. Executes("br_if") BY DEF BrIfNot
<1>2. OnStackGood /\ ~AtEnd /\ instr = code[top.pc] /\ instr.op = "br_if" /\ code = Funcs[top.fn].code
    BY <1>1, ExecutesOnStack
<1>3. acts' = Stepped /\ op' = op /\ frames' = frames /\ labels' = labels /\ exns' = exns /\ err' = "none"
    BY <1>2 DEF BrIfNot, StackOnly, stackVars, OnStackGood
<1>4. ValidAt(Funcs[top.fn], top.pc) BY <1>2, Executing
<1>5. Any(op) /\ Len(op) = Len(op) + 0 /\ 0 \in Int BY <1>2, OnStackIs DEF Stacks
<1>6. Effect(instr) = 0 BY <1>2 DEF Effect
<1>7. Meets(Funcs[top.fn], top.pc + 1, Around(code, top.pc), HeightAt(Funcs[top.fn], top.pc) + 0)
    BY <1>2, <1>4, <1>6, Zenon DEF ValidAt
<1>8. Any(op') /\ Len(op') = Len(op) + 0 BY <1>3, <1>5
<1>9. QED BY <1>2, <1>3, <1>5, <1>7, <1>8, NextGood, Zenon

-----------------------------------------------------------------------------
\* Instructions that push or pop labels.
LEMMA OpenerIs ==
    ASSUME NEW fn \in DOMAIN Funcs, NEW i \in Live(Funcs[fn].code), NEW o \in Around(Funcs[fn].code, i)
    PROVE  LET f == Funcs[fn]
           IN  /\ o \in Live(f.code) /\ o \in Nat /\ f.code[o].op \in Openers /\ ValidAt(f, o)
               /\ Below(f, o) \in Nat /\ Carried(f, o) \in Nat
               /\ Around(f.code, o) = {k \in Around(f.code, i) : k < o}
               /\ Below(f, o) <= HeightAt(f, i) - Consumes(f.code[i])
<1>. DEFINE f == Funcs[fn]
<1>0. \A k \in Live(f.code) : ValidAt(f, k) /\ k \in Nat /\ HeightAt(f, k) \in Nat
    <2>1. Len(f.code) \in Nat /\ \A k \in Live(f.code) : ValidAt(f, k) /\ k \in 1 .. Len(f.code) /\ HeightAt(f, k) \in Nat
        BY FuncIs
    <2>2. QED BY <2>1
<1>1. ValidAt(f, i) /\ i \in Nat BY <1>0
<1>2. o \in Live(f.code) /\ Around(f.code, o) = {k \in Around(f.code, i) : k < o}
      /\ Below(f, o) <= HeightAt(f, i) - Consumes(f.code[i])
    BY <1>1 DEF ValidAt
<1>3. ValidAt(f, o) /\ HeightAt(f, o) \in Nat /\ o \in Nat BY <1>0, <1>2
<1>4. f.code[o].op \in Openers BY <1>1, AroundIs
<1>5. f.code[o].params \in 0 .. HeightAt(f, o) /\ f.code[o].results \in Nat BY <1>3, <1>4 DEF ValidAt
<1>6. Below(f, o) \in Nat /\ Carried(f, o) \in Nat BY <1>3, <1>5 DEF Below, Carried
<1>7. QED BY <1>2, <1>3, <1>4, <1>6

LEMMA LabelOfIs ==
    ASSUME OnStackGood, ~AtEnd, instr.op \in Openers
    PROVE  LabelOf(top.pc) = LabelFor(Funcs[top.fn], top.pc, Bottom)
<1>. DEFINE f == Funcs[top.fn]
            i == top.pc
            x == code[i]
<1>1. ValidAt(f, i) /\ HeightAt(f, i) \in Nat /\ Len(op) = Bottom + HeightAt(f, i) /\ Bottom \in Nat
    BY Executing, OnStackIs
<1>2. x = instr /\ x = f.code[i] BY DEF instr, code
<1>3. x.params \in 0 .. HeightAt(f, i) BY <1>1, <1>2, Zenon DEF ValidAt
<1>4. (IF x.op = "loop" THEN Len(op) - x.params ELSE Len(op)) = Bottom + Below(f, i)
    <2>1. Below(f, i) = HeightAt(f, i) - (IF x.op = "loop" THEN x.params ELSE 0) BY <1>2 DEF Below
    <2>. HIDE DEF f, i, x
    <2>2. QED BY <1>1, <1>3, <2>1
<1>5. QED BY <1>2, <1>4 DEF LabelOf, LabelFor, Carried, code

LEMMA OpensGood ==
    ASSUME OnStackGood, ~AtEnd, instr.op \in Openers, NEW j, pushLabel(LabelOf(top.pc), j),
           op' = op, frames' = frames, exns' = exns,
           Meets(Funcs[top.fn], j, Around(code, top.pc) \cup {top.pc}, HeightAt(Funcs[top.fn], top.pc))
    PROVE  Lost' \/ Good'
<1>. DEFINE f == Funcs[top.fn]
            i == top.pc
            A == Around(code, i)
<1>1. CASE err' = "labels" BY <1>1 DEF Lost
<1>2. CASE err' # "labels"
    <2>1. labels' = Append(labels, LabelFor(f, i, Bottom)) /\ acts' = Moved(j) /\ err' = "none"
        BY <1>2, LabelOfIs DEF pushLabel
    <2>2. Any(labels) /\ Any(op) /\ Bottom \in Nat /\ frame.label_base \in Nat /\ top.fn \in DOMAIN Funcs
          /\ frame.label_base <= Len(labels) /\ Len(labels) \in Nat
        BY OnStackIs DEF Stacks
    <2>3. Len(code) \in Nat /\ i \in 1 .. Len(code) /\ HeightAt(f, i) \in Nat /\ Len(op) = Bottom + HeightAt(f, i)
          /\ Len(labels) = frame.label_base + 1 + Cardinality(A)
          /\ Labelled(top, A, frame.label_base, Bottom, labels) /\ A \subseteq 1 .. i - 1
        BY Executing
    <2>4. i \in Nat BY <2>3
    <2>. HIDE DEF A, i
    <2>5. /\ Any(labels') /\ Len(labels') = frame.label_base + 1 + Cardinality(A \cup {i})
          /\ Labelled(top, A \cup {i}, frame.label_base, Bottom, labels')
          /\ \A k \in 1 .. Len(labels) : labels'[k] = labels[k]
        <3>. DEFINE lb == labels'
        <3>1. lb = Append(labels, LabelFor(Funcs[top.fn], i, Bottom)) BY <2>1
        <3>2. Any(labels) /\ frame.label_base \in Nat /\ i \in Nat /\ A \subseteq 1 .. i - 1
              /\ Len(labels) = frame.label_base + 1 + Cardinality(A)
            BY <2>2, <2>3, <2>4
        <3>3. Labelled(top, A, frame.label_base, Bottom, labels) BY <2>3
        <3>. HIDE DEF lb
        <3>4. Any(lb) BY <3>1, <3>2, AnyAppend
        <3>. DEFINE B == A \cup {i}
        <3>0. B = A \cup {i} OBVIOUS
        <3>. HIDE DEF B
        <3>5. Labelled(top, B, frame.label_base, Bottom, lb) BY <3>0, <3>1, <3>2, <3>3, OpenLabels
        <3>6. \A k \in 1 .. Len(labels) : lb[k] = labels[k] BY <3>1, <3>2, AnyAppend
        <3>7. Len(lb) = frame.label_base + 1 + Cardinality(B)
            <4>1. Cardinality(B) = Cardinality(A) + 1 BY <2>4, <3>0, <3>2, RankAbove
            <4>2. Cardinality(A) \in Nat BY <2>4, <3>2, RankAbove, FS_CardinalityType
            <4>3. Len(lb) = Len(labels) + 1 BY <3>1, <3>2, AnyAppend
            <4>4. Len(labels) = frame.label_base + 1 + Cardinality(A) /\ frame.label_base \in Nat BY <3>2
            <4>5. Len(lb) = frame.label_base + 1 + Cardinality(A) + 1 BY <4>3, <4>4, Zenon
            <4>6. QED BY <4>1, <4>2, <4>4, <4>5
        <3>8. QED BY <3>4, <3>5, <3>6, <3>7 DEF lb, B
    <2>6. Meets(f, j, A \cup {i}, HeightAt(f, i)) BY DEF A, i
    <2>7. At(top, j, HeightAt(f, i), frame.label_base, Bottom, labels') BY <2>2, <2>5, <2>6, MeetsAt
    <2>8. \A k \in 1 .. frame.label_base : labels'[k] = labels[k]
        <3>1. \A k \in 1 .. frame.label_base : k \in 1 .. Len(labels) BY <2>2
        <3>2. QED BY <2>5, <3>1
    <2>9. Len(op') = Bottom + HeightAt(f, i) /\ Any(op') BY <2>2, <2>3
    <2>10. Good' BY <2>1, <2>3, <2>5, <2>7, <2>8, <2>9, StackStep
    <2>11. QED BY <2>10
<1>3. QED BY <1>1, <1>2

LEMMA OpenGood ==
    ASSUME CallsInv, Good, OnStack(top), Open
    PROVE  Lost' \/ Good'
<1>1. Executes("block") \/ Executes("loop") \/ Executes("try_table") BY DEF Open
<1>2. OnStackGood /\ ~AtEnd /\ instr = code[top.pc] /\ instr.op \in Openers /\ code = Funcs[top.fn].code
    BY <1>1, ExecutesOnStack DEF Openers
<1>3. ValidAt(Funcs[top.fn], top.pc) BY <1>2, Executing
<1>4. Meets(Funcs[top.fn], top.pc + 1, Around(code, top.pc) \cup {top.pc}, HeightAt(Funcs[top.fn], top.pc))
    BY <1>2, <1>3, Zenon DEF ValidAt
<1>5. QED BY <1>2, <1>4, OpensGood DEF Open, StackOnly

\* A step that cuts the labels down to those of the constructs B.
LEMMA CutGood ==
    ASSUME OnStackGood, ~AtEnd, NEW o \in Nat, NEW B,
           B = {k \in Around(code, top.pc) : k <= o} \/ B = {k \in Around(code, top.pc) : k < o},
           NEW j, acts' = Moved(j), frames' = frames, exns' = exns, err' = "none",
           Any(labels'), Len(labels') = frame.label_base + 1 + Cardinality(B),
           \A k \in 1 .. Len(labels') : labels'[k] = labels[k],
           NEW n, Meets(Funcs[top.fn], j, B, n), Any(op'), Len(op') = Bottom + n
    PROVE  Good'
<1>. DEFINE A == Around(code, top.pc)
<1>1. frame.label_base \in Nat /\ top.fn \in DOMAIN Funcs BY OnStackIs
<1>2. IsFiniteSet(A) /\ A \subseteq Nat /\ Labelled(top, A, frame.label_base, Bottom, labels)
    <2>1. A \subseteq 1 .. top.pc - 1 /\ IsFiniteSet(A) /\ Labelled(top, A, frame.label_base, Bottom, labels)
          /\ \A k \in A : k \in Nat
        BY Executing
    <2>2. QED BY <2>1
<1>3. Cardinality(B) \in Nat
    <2>1. B \subseteq A BY Zenon
    <2>2. QED BY <1>2, <2>1, FS_Subset, FS_CardinalityType
<1>4. \A k \in frame.label_base + 1 .. frame.label_base + 1 + Cardinality(B) : labels'[k] = labels[k] BY <1>1, <1>3
<1>5. B = {k \in A : k <= o} \/ B = {k \in A : k < o} OBVIOUS
<1>. HIDE DEF A
<1>6. Labelled(top, B, frame.label_base, Bottom, labels') BY <1>1, <1>2, <1>4, <1>5, CutLabels, ZenonT(30)
<1>7. n \in Nat /\ At(top, j, n, frame.label_base, Bottom, labels') BY <1>1, <1>6, MeetsAt
<1>8. \A k \in 1 .. frame.label_base : labels'[k] = labels[k] BY <1>1, <1>3
<1>9. QED BY <1>7, <1>8, StackStep

LEMMA IfGood ==
    ASSUME CallsInv, Good, OnStack(top), If
    PROVE  Lost' \/ Good'
<1>. DEFINE f == Funcs[top.fn]
            i == top.pc
            A == Around(code, i)
<1>1. Executes("if") BY DEF If
<1>2. OnStackGood /\ ~AtEnd /\ instr = code[i] /\ instr.op = "if" /\ instr.op \in Openers /\ code = f.code
    BY <1>1, ExecutesOnStack DEF Openers
<1>3. ValidAt(f, i) BY <1>2, Executing
<1>4. Meets(f, i + 1, A \cup {i}, HeightAt(f, i)) BY <1>2, <1>3, Zenon DEF ValidAt
<1>5. (\A j \in ElseOf(code, i) : Meets(f, j + 1, A \cup {i}, HeightAt(f, i)))
      /\ (ElseOf(code, i) = {} => Meets(f, EndOf(code, i) + 1, A, HeightAt(f, i)))
    BY <1>2, <1>3, Zenon DEF ValidAt
<1>6. op' = op /\ frames' = frames /\ exns' = exns BY DEF If, StackOnly
<1>7. CASE pushLabel(LabelOf(top.pc), top.pc + 1) BY <1>2, <1>4, <1>6, <1>7, OpensGood
<1>8. CASE \E j \in ElseOf(code, i) : pushLabel(LabelOf(top.pc), j + 1)
    BY <1>2, <1>5, <1>6, <1>8, OpensGood
<1>9. CASE ElseOf(code, i) = {} /\ acts' = Moved(EndOf(code, top.pc) + 1) /\ UNCHANGED <<labels, err>>
    <2>1. Any(labels) /\ Any(op) /\ Bottom \in Nat /\ frame.label_base \in Nat /\ top.fn \in DOMAIN Funcs
        BY <1>2, OnStackIs DEF Stacks
    <2>2. Len(op) = Bottom + HeightAt(f, i) /\ Len(labels) = frame.label_base + 1 + Cardinality(A)
          /\ Labelled(top, A, frame.label_base, Bottom, labels)
        BY <1>2, Executing
    <2>3. HeightAt(f, i) \in Nat /\ At(top, EndOf(code, i) + 1, HeightAt(f, i), frame.label_base, Bottom, labels)
        BY <1>5, <1>9, <2>1, <2>2, MeetsAt
    <2>4. err' = "none" /\ labels' = labels /\ acts' = Moved(EndOf(code, i) + 1) BY <1>2, <1>9 DEF OnStackGood
    <2>. HIDE DEF i
    <2>5. Good' BY <1>2, <1>6, <2>1, <2>2, <2>3, <2>4, StackStep
    <2>6. QED BY <2>5
<1>10. QED BY <1>7, <1>8, <1>9 DEF If

LEMMA InnermostIs ==
    ASSUME OnStackGood, ~AtEnd, NEW o \in Around(code, top.pc), \A k \in Around(code, top.pc) : k <= o
    PROVE  LET A == Around(code, top.pc)
               lb == Prefix(labels, Len(labels) - 1)
           IN  /\ A \ {o} = {k \in A : k < o} /\ o \in Nat
               /\ Any(lb) /\ Len(lb) = frame.label_base + 1 + Cardinality({k \in A : k < o})
               /\ \A k \in 1 .. Len(lb) : lb[k] = labels[k]
               /\ labels[Len(labels)] = LabelFor(Funcs[top.fn], o, Bottom)
<1>. DEFINE A == Around(code, top.pc)
<1>1. Any(labels) /\ Len(labels) \in Nat /\ frame.label_base \in Nat BY OnStackIs DEF Stacks
<1>2. IsFiniteSet(A) /\ Len(labels) = frame.label_base + 1 + Cardinality(A)
      /\ Labelled(top, A, frame.label_base, Bottom, labels) /\ \A k \in A : k \in Nat
    BY Executing
<1>3. A \subseteq Nat /\ o \in Nat BY <1>2
<1>4. {k \in A : k <= o} = A BY Zenon
<1>5. A \ {o} = {k \in A : k < o}
    <2>1. \A k \in A : k # o <=> k < o BY <1>2
    <2>2. \A k : k \in A \ {o} <=> k \in {m \in A : m < o} BY <2>1, Zenon
    <2>3. QED BY <2>2
<1>6. o \in A OBVIOUS
<1>. HIDE DEF A
<1>7. Cardinality(A) \in Nat /\ Cardinality({k \in A : k < o}) = Cardinality(A) - 1 /\ Rank(A, o) = Cardinality(A)
      /\ Cardinality(A) >= 1
    <2>1. Cardinality(A) \in Nat /\ Cardinality({k \in A : k < o}) = Rank(A, o) - 1 /\ Rank(A, o) \in 1 .. Cardinality(A)
        BY <1>2, <1>3, <1>6, RankIs
    <2>2. Rank(A, o) = Cardinality(A) BY <1>4 DEF Rank
    <2>3. QED BY <2>1, <2>2
<1>8. labels[Len(labels)] = LabelFor(Funcs[top.fn], o, Bottom) BY <1>2, <1>6, <1>7 DEF Labelled
<1>9. Len(labels) - 1 \in 0 .. Len(labels) BY <1>1, <1>2, <1>7
<1>10. Any(Prefix(labels, Len(labels) - 1)) /\ Len(Prefix(labels, Len(labels) - 1)) = Len(labels) - 1
       /\ \A k \in 1 .. Len(labels) - 1 : Prefix(labels, Len(labels) - 1)[k] = labels[k]
    BY <1>1, <1>9, AnyPrefix
<1>11. Len(labels) - 1 = frame.label_base + 1 + Cardinality({k \in A : k < o}) BY <1>1, <1>2, <1>7
<1>12. QED BY <1>3, <1>5, <1>8, <1>10, <1>11 DEF A

LEMMA ElseGood ==
    ASSUME CallsInv, Good, OnStack(top), Else
    PROVE  Good'
<1>. DEFINE f == Funcs[top.fn]
            i == top.pc
            A == Around(code, i)
<1>1. Executes("else") BY DEF Else
<1>2. OnStackGood /\ ~AtEnd /\ instr = code[i] /\ instr.op = "else" /\ code = f.code
    BY <1>1, ExecutesOnStack
<1>3. ValidAt(f, i) /\ Len(op) = Bottom + HeightAt(f, i) BY <1>2, Executing
<1>4. PICK o \in A : /\ \A k \in A : k <= o
                     /\ code[o].op # "loop" /\ Meets(f, EndOf(code, o) + 1, A \ {o}, HeightAt(f, i))
    BY <1>2, <1>3, Zenon DEF ValidAt
<1>5. Any(op) BY <1>2, OnStackIs DEF Stacks
<1>6. acts' = Moved(labels[Len(labels)].target) /\ labels' = Prefix(labels, Len(labels) - 1) /\ op' = op
      /\ frames' = frames /\ exns' = exns /\ err' = "none"
    BY <1>2 DEF Else, StackOnly, OnStackGood
<1>. DEFINE B == {k \in A : k < o}
<1>7. A \ {o} = B /\ o \in Nat /\ Any(labels') /\ Len(labels') = frame.label_base + 1 + Cardinality(B)
      /\ (\A k \in 1 .. Len(labels') : labels'[k] = labels[k])
      /\ labels[Len(labels)] = LabelFor(f, o, Bottom)
    BY <1>2, <1>4, <1>6, InnermostIs
<1>8. labels[Len(labels)].target = EndOf(code, o) + 1 BY <1>2, <1>4, <1>7 DEF LabelFor
<1>9. Meets(f, EndOf(code, o) + 1, B, HeightAt(f, i)) BY <1>4, <1>7
<1>10. acts' = Moved(EndOf(code, o) + 1) /\ Len(op') = Bottom + HeightAt(f, i) /\ Any(op')
    BY <1>3, <1>5, <1>6, <1>8
<1>11. QED BY <1>2, <1>6, <1>7, <1>9, <1>10, CutGood

LEMMA EndGood ==
    ASSUME CallsInv, Good, OnStack(top), End
    PROVE  Good'
<1>. DEFINE f == Funcs[top.fn]
            i == top.pc
            A == Around(code, i)
<1>1. Executes("end") BY DEF End
<1>2. OnStackGood /\ ~AtEnd /\ instr = code[i] /\ instr.op = "end" /\ code = f.code
    BY <1>1, ExecutesOnStack
<1>3. ValidAt(f, i) /\ Len(op) = Bottom + HeightAt(f, i) /\ Len(labels) = frame.label_base + 1 + Cardinality(A)
      /\ HeightAt(f, i) \in Nat
    BY <1>2, Executing
<1>4. Any(op) /\ Any(labels) /\ Len(labels) \in Nat /\ frame.label_base \in Nat /\ frame.label_base <= Len(labels)
    BY <1>2, OnStackIs DEF Stacks
<1>5. acts' = Moved(i + 1) /\ labels' = Prefix(labels, Len(labels) - 1) /\ op' = op
      /\ frames' = frames /\ exns' = exns /\ err' = "none"
    BY <1>2 DEF End, StackOnly, OnStackGood, Stepped
<1>6. CASE i = Len(code)
    <2>1. A = {} /\ HeightAt(f, i) = f.results BY <1>2, <1>3, <1>6, Zenon DEF ValidAt
    <2>2. Len(labels) = frame.label_base + 1 BY <1>3, <1>4, <2>1, FS_EmptySet
    <2>3. Len(labels) - 1 \in 0 .. Len(labels) BY <1>4, <2>2
    <2>4. Any(labels') /\ Len(labels') = frame.label_base
          /\ \A k \in 1 .. frame.label_base : labels'[k] = labels[k]
        BY <1>4, <1>5, <2>2, <2>3, AnyPrefix
    <2>5. At(top, i + 1, f.results, frame.label_base, Bottom, labels') BY <1>2, <1>6, <2>4 DEF At
    <2>6. Len(op') = Bottom + f.results /\ f.results \in Nat BY <1>3, <1>5, <2>1
    <2>. HIDE DEF i
    <2>7. QED BY <1>2, <1>4, <1>5, <2>4, <2>5, <2>6, StackStep
<1>7. CASE i # Len(code)
    <2>1. PICK o \in A : (\A k \in A : k <= o) /\ Meets(f, i + 1, A \ {o}, HeightAt(f, i))
        BY <1>2, <1>3, <1>7, Zenon DEF ValidAt
    <2>. DEFINE B == {k \in A : k < o}
    <2>2. A \ {o} = B /\ o \in Nat /\ Any(labels') /\ Len(labels') = frame.label_base + 1 + Cardinality(B)
          /\ (\A k \in 1 .. Len(labels') : labels'[k] = labels[k])
        BY <1>2, <1>5, <2>1, InnermostIs
    <2>3. Meets(f, i + 1, B, HeightAt(f, i)) BY <2>1, <2>2
    <2>4. QED BY <1>2, <1>3, <1>4, <1>5, <2>2, <2>3, CutGood
<1>8. QED BY <1>6, <1>7

-----------------------------------------------------------------------------
\* Branches.
LEMMA CarryLen ==
    ASSUME NEW s, Any(s), NEW n \in Nat, NEW m \in Nat, n + m <= Len(s)
    PROVE  Any(Prefix(s, n) \o LastOf(s, m)) /\ Len(Prefix(s, n) \o LastOf(s, m)) = n + m
<1>. DEFINE p == Prefix(s, n)
            t == LastOf(s, m)
<1>1. Len(s) \in Nat BY AnyLen
<1>2. n \in 0 .. Len(s) /\ m \in 0 .. Len(s) BY <1>1
<1>3. Any(p) /\ Len(p) = n BY <1>2, AnyPrefix
<1>4. Any(t) /\ Len(t) = m BY <1>2, AnyLast
<1>. HIDE DEF p, t
<1>5. Any(p \o t) /\ Len(p \o t) = n + m BY <1>3, <1>4, AnyCat
<1>6. QED BY <1>5 DEF p, t

LEMMA BranchLeaves ==
    ASSUME OnStackGood, ~AtEnd, NEW d \in Nat, d = Cardinality(Around(code, top.pc)),
           HeightAt(Funcs[top.fn], top.pc) >= Funcs[top.fn].results,
           branchTo(d), frames' = frames, exns' = exns, err' = "none"
    PROVE  Lost' \/ Good'
<1>. DEFINE f == Funcs[top.fn]
            l == labels[Len(labels) - d]
            lo == frame.label_base
<1>1. Any(op) /\ Any(labels) /\ Bottom \in Nat /\ lo \in Nat /\ Len(labels) \in Nat /\ Len(op) \in Nat
      /\ lo <= Len(labels) /\ top.fn \in DOMAIN Funcs
    BY OnStackIs DEF Stacks
<1>2. Len(op) = Bottom + HeightAt(f, top.pc) /\ HeightAt(f, top.pc) \in Nat /\ Len(labels) = lo + 1 + d
      /\ Labelled(top, Around(code, top.pc), lo, Bottom, labels) /\ code = f.code
    BY Executing DEF code
<1>3. f.results \in Nat BY <1>1, FuncIs
<1>4. Len(labels) - d = lo + 1 BY <1>1, <1>2
<1>5. l = FunctionLabel(top.how, top.tier, f, Bottom) BY <1>2, <1>4 DEF Labelled
<1>6. l.arity = f.results /\ l.base = Bottom /\ ~l.loop /\ (l.target = 1 \/ l.target = Len(f.code) + 1)
    BY <1>5 DEF FunctionLabel
<1>7. acts' = Moved(l.target) /\ op' = Prefix(op, l.base) \o LastOf(op, l.arity)
      /\ labels' = Prefix(labels, Len(labels) - d - 1)
      /\ restarted' = (restarted \/ (Len(labels) - d = lo + 1 /\ l.target = 1))
    BY <1>6 DEF branchTo
<1>8. CASE l.target = 1
    <2>1. restarted' BY <1>4, <1>7, <1>8
    <2>2. QED BY <2>1 DEF Lost
<1>9. CASE l.target = Len(f.code) + 1
    <2>. HIDE DEF l
    <2>1. Len(labels) - d - 1 = lo /\ lo \in 0 .. Len(labels) BY <1>1, <1>4
    <2>2. labels' = Prefix(labels, lo) BY <1>7, <2>1
    <2>3. Any(labels') /\ Len(labels') = lo /\ \A k \in 1 .. lo : labels'[k] = labels[k]
        BY <1>1, <2>1, <2>2, AnyPrefix
    <2>4. op' = Prefix(op, Bottom) \o LastOf(op, f.results) BY <1>6, <1>7
    <2>5. Bottom + f.results <= Len(op) BY <1>1, <1>2, <1>3
    <2>6. Any(op') /\ Len(op') = Bottom + f.results BY <1>1, <1>3, <2>4, <2>5, CarryLen
    <2>7. acts' = Moved(Len(f.code) + 1) BY <1>7, <1>9
    <2>8. At(top, Len(f.code) + 1, f.results, lo, Bottom, labels') BY <2>3 DEF At
    <2>9. Good' BY <1>3, <2>3, <2>6, <2>7, <2>8, StackStep
    <2>10. QED BY <2>9
<1>10. QED BY <1>6, <1>8, <1>9

LEMMA BranchArrives ==
    ASSUME OnStackGood, ~AtEnd, NEW d \in Nat, NEW o \in Around(code, top.pc),
           Rank(Around(code, top.pc), o) = Cardinality(Around(code, top.pc)) - d,
           Arrives(Funcs[top.fn], Around(code, top.pc), o),
           HeightAt(Funcs[top.fn], top.pc) >= Below(Funcs[top.fn], o) + Carried(Funcs[top.fn], o),
           branchTo(d), frames' = frames, exns' = exns, err' = "none"
    PROVE  Good'
<1>. DEFINE f == Funcs[top.fn]
            A == Around(code, top.pc)
            r == Rank(A, o)
            at == Len(labels) - d
            l == labels[at]
            lo == frame.label_base
            n == Below(f, o)
            m == Carried(f, o)
            q == Prefix(op, l.base) \o LastOf(op, l.arity)
<1>1. Any(op) /\ Any(labels) /\ Bottom \in Nat /\ lo \in Nat /\ Len(labels) \in Nat /\ Len(op) \in Nat
      /\ lo <= Len(labels) /\ top.fn \in DOMAIN Funcs
    BY OnStackIs DEF Stacks
<1>2. Len(op) = Bottom + HeightAt(f, top.pc) /\ HeightAt(f, top.pc) \in Nat
      /\ Len(labels) = lo + 1 + Cardinality(A) /\ Cardinality(A) \in Nat
      /\ Labelled(top, A, lo, Bottom, labels) /\ code = f.code /\ top.pc \in Live(code)
      /\ IsFiniteSet(A) /\ A \subseteq Nat
    BY Executing DEF code
<1>3. o \in Nat /\ n \in Nat /\ m \in Nat BY <1>1, <1>2, OpenerIs
<1>4. r \in 1 .. Cardinality(A) /\ Cardinality({k \in A : k < o}) = r - 1 /\ Cardinality({k \in A : k <= o}) = r
    BY <1>2, RankIs
<1>5. at = lo + 1 + r
    <2>. DEFINE c == Cardinality(A)
    <2>1. r = c - d /\ Len(labels) = lo + 1 + c /\ c \in Nat BY <1>2
    <2>. HIDE DEF c, r
    <2>2. QED BY <1>1, <2>1
<1>6. l = LabelFor(f, o, Bottom) BY <1>2, <1>5 DEF Labelled
<1>7. l.arity = m /\ l.base = Bottom + n /\ l.loop = (f.code[o].op = "loop")
      /\ l.target = (IF f.code[o].op = "loop" THEN o + 1 ELSE EndOf(f.code, o) + 1)
    BY <1>6 DEF LabelFor
<1>8. op' = q /\ acts' = Moved(l.target)
      /\ labels' = (IF l.loop THEN Append(Prefix(labels, at - 1), [l EXCEPT !.base = Len(q) - l.arity])
                    ELSE Prefix(labels, at - 1))
    BY DEF branchTo
<1>. HIDE DEF l
<1>9. Any(q) /\ Len(q) = Bottom + (n + m)
    <2>1. (Bottom + n) + m <= Len(op) /\ Bottom + n \in Nat
        <3>. DEFINE h == HeightAt(f, top.pc)
        <3>1. h >= n + m /\ h \in Nat /\ Len(op) = Bottom + h BY <1>2
        <3>2. Bottom \in Nat /\ n \in Nat /\ m \in Nat BY <1>1, <1>3
        <3>. HIDE DEF h, n, m
        <3>3. QED BY <3>1, <3>2
    <2>2. q = Prefix(op, Bottom + n) \o LastOf(op, m) BY <1>7
    <2>. HIDE DEF q, n, m
    <2>3. Any(q) /\ Len(q) = (Bottom + n) + m BY <1>1, <1>3, <2>1, <2>2, CarryLen
    <2>4. QED BY <1>1, <1>3, <2>3
<1>10. [l EXCEPT !.base = Len(q) - l.arity] = l
    <2>1. Len(q) - l.arity = l.base BY <1>1, <1>3, <1>7, <1>9
    <2>2. [l EXCEPT !.base = l.base] = l BY <1>6 DEF LabelFor
    <2>. HIDE DEF q
    <2>3. QED BY <2>1, <2>2
<1>. HIDE DEF q
<1>11. at - 1 \in 0 .. Len(labels) /\ at - 1 \in Nat /\ at \in Nat
    <2>. DEFINE c == Cardinality(A)
    <2>1. r \in 1 .. c /\ c \in Nat /\ Len(labels) = lo + 1 + c BY <1>2, <1>4
    <2>2. lo \in Nat BY <1>1
    <2>. HIDE DEF c, r, at, lo
    <2>3. QED BY <1>5, <2>1, <2>2
<1>. DEFINE p == Prefix(labels, at - 1)
<1>12. Any(p) /\ Len(p) = at - 1 /\ \A k \in 1 .. at - 1 : p[k] = labels[k] BY <1>1, <1>11, AnyPrefix
<1>. HIDE DEF p
<1>13. CASE f.code[o].op = "loop"
    <2>1. labels' = Append(p, l) /\ acts' = Moved(o + 1) BY <1>7, <1>8, <1>10, <1>13 DEF p
    <2>. DEFINE B == {k \in A : k <= o}
    <2>2. Any(labels') /\ Len(labels') = at - 1 + 1 /\ labels'[at - 1 + 1] = l
          /\ \A k \in 1 .. at - 1 : labels'[k] = p[k]
        BY <1>12, <2>1, AnyAppend
    <2>. HIDE DEF at
    <2>3. Len(labels') = at /\ labels'[at] = l BY <1>11, <2>2
    <2>4. \A k \in 1 .. at : labels'[k] = labels[k]
        <3>1. TAKE k \in 1 .. at
        <3>2. CASE k = at BY <2>3, <3>2 DEF l, at
        <3>3. CASE k # at
            <4>1. k \in 1 .. at - 1 BY <1>11, <3>3
            <4>2. QED BY <1>12, <2>2, <4>1
        <3>4. QED BY <3>2, <3>3
    <2>5. Len(labels') = lo + 1 + Cardinality(B) BY <1>4, <1>5, <2>3
    <2>6. Meets(f, o + 1, B, n + m) BY <1>13 DEF Arrives
    <2>. HIDE DEF n, m, f
    <2>7. QED BY <1>1, <1>3, <1>8, <1>9, <2>1, <2>2, <2>3, <2>4, <2>5, <2>6, CutGood DEF f
<1>14. CASE f.code[o].op # "loop"
    <2>1. labels' = p /\ acts' = Moved(EndOf(f.code, o) + 1) BY <1>7, <1>8, <1>14 DEF p
    <2>. DEFINE B == {k \in A : k < o}
    <2>2. Any(labels') /\ Len(labels') = at - 1 /\ \A k \in 1 .. Len(labels') : labels'[k] = labels[k]
        BY <1>12, <2>1
    <2>3. Len(labels') = lo + 1 + Cardinality(B) BY <1>1, <1>4, <1>5, <2>2
    <2>4. Meets(f, EndOf(f.code, o) + 1, B, n + m) BY <1>14 DEF Arrives
    <2>. HIDE DEF n, m, f
    <2>5. QED BY <1>1, <1>3, <1>8, <1>9, <2>1, <2>2, <2>3, <2>4, CutGood DEF f
<1>15. QED BY <1>13, <1>14

LEMMA BrGood ==
    ASSUME CallsInv, Good, OnStack(top), Br
    PROVE  Lost' \/ Good'
<1>. DEFINE f == Funcs[top.fn]
            A == Around(code, top.pc)
            d == instr.depth
            n == HeightAt(f, top.pc)
<1>1. Executes("br") \/ Executes("br_if") BY DEF Br
<1>2. OnStackGood /\ ~AtEnd /\ instr = code[top.pc] /\ instr.op \in {"br", "br_if"} /\ code = f.code
    BY <1>1, ExecutesOnStack
<1>3. ValidAt(f, top.pc) BY <1>2, Executing
<1>4. d \in Nat /\ Branches(f, A, d, n) BY <1>2, <1>3, Zenon DEF ValidAt
<1>5. branchTo(d) /\ frames' = frames /\ exns' = exns /\ err' = "none" BY <1>2 DEF Br, OnStackGood
<1>6. CASE d = Cardinality(A) /\ n >= f.results BY <1>2, <1>4, <1>5, <1>6, BranchLeaves
<1>7. CASE ~(d = Cardinality(A) /\ n >= f.results)
    <2>1. PICK o \in A : /\ Rank(A, o) = Cardinality(A) - d /\ Arrives(f, A, o)
                         /\ n >= Below(f, o) + Carried(f, o)
        BY <1>4, <1>7 DEF Branches
    <2>2. Good' BY <1>2, <1>4, <1>5, <2>1, BranchArrives
    <2>3. QED BY <2>2
<1>8. QED BY <1>6, <1>7

LEMMA TrapGood ==
    ASSUME Trap
    PROVE  Lost'
BY DEF Trap, Lost

-----------------------------------------------------------------------------
\* Calls.  The last of cs waits for fn, called in the way how.
WaitsFor(cs, fn, how) ==
    Len(cs) >= 1 => /\ Expected(cs[Len(cs)]) = Funcs[fn].results
                    /\ cs[Len(cs)].tier = "reg" => how = "callFunction"

\* The exceptions that are stored after a step.
Stored == Any(exns') /\ \A j \in 1 .. Len(exns') : Thrown(exns'[j])

LEMMA StackTierIs == ASSUME NEW fn PROVE StackTier(fn) \in {"ir", "byte"}
BY DEF StackTier

LEMMA EntersStack ==
    ASSUME NEW cs, IsCalls(cs), Answers(cs), NEW how, NEW tier, tier # "reg", NEW fn \in DOMAIN Funcs,
           NEW o, Any(o), NEW fr, Any(fr), NEW lb, Any(lb), NEW b, Len(o) >= Funcs[fn].params,
           Waiting(cs, Len(cs), Len(fr), Len(lb), Len(o) - Funcs[fn].params, fr, lb), WaitsFor(cs, fn, how),
           Stored, EnterStack(cs, how, tier, fn, o, fr, lb, b)
    PROVE  Lost' \/ Good'
<1>1. err' \in {"none", "operands", "frames", "labels"} BY DEF EnterStack
<1>2. CASE err' = "none"
    <2>1. Any(op') /\ Any(frames') /\ Any(labels') /\ Answers(acts') /\ OnTheStack(acts', op', frames', labels')
        BY <1>2, EnterStackGood DEF WaitsFor
    <2>2. Good' BY <1>2, <2>1 DEF Good, Stacks, Stored
    <2>3. QED BY <2>2
<1>3. CASE err' # "none"
    <2>1. err' # "none" /\ err' # "exception" BY <1>1, <1>3
    <2>2. QED BY <2>1 DEF Lost
<1>4. QED BY <1>2, <1>3

LEMMA EntersReg ==
    ASSUME NEW cs, IsCalls(cs), Answers(cs), NEW how, NEW fn \in DOMAIN Funcs, Funcs[fn].reg,
           NEW args, Any(args), Len(args) = Funcs[fn].params,
           NEW o, Any(o), NEW fr, Any(fr), NEW lb, Any(lb), NEW b,
           Waiting(cs, Len(cs), Len(fr), Len(lb), Len(o), fr, lb), WaitsFor(cs, fn, how),
           Stored, EnterReg(cs, how, fn, args, o, fr, lb, b)
    PROVE  Good'
<1>1. Any(op') /\ Any(frames') /\ Any(labels') /\ Answers(acts') /\ InRegs(acts', op', frames', labels')
    BY EnterRegGood DEF WaitsFor
<1>2. err' = "none" BY DEF EnterReg
<1>3. QED BY <1>1, <1>2 DEF Good, Stacks, Stored

LEMMA callFunctionGood ==
    ASSUME NEW cs, IsCalls(cs), Answers(cs), NEW fn \in DOMAIN Funcs, NEW args, Any(args),
           Len(args) = Funcs[fn].params, NEW force,
           NEW o, Any(o), NEW fr, Any(fr), NEW lb, Any(lb), NEW b,
           Waiting(cs, Len(cs), Len(fr), Len(lb), Len(o), fr, lb), WaitsFor(cs, fn, "callFunction"),
           Stored, callFunction(cs, fn, args, force, o, fr, lb, b)
    PROVE  Lost' \/ Good'
<1>1. CASE Funcs[fn].reg /\ ~force
    <2>1. EnterReg(cs, "callFunction", fn, args, o, fr, lb, b) BY <1>1 DEF callFunction
    <2>2. QED BY <1>1, <2>1, EntersReg
<1>2. CASE ~(Funcs[fn].reg /\ ~force)
    <2>. DEFINE q == o \o args
    <2>1. EnterStack(cs, "callFunction", StackTier(fn), fn, q, fr, lb, b) BY <1>2 DEF callFunction
    <2>2. Any(q) /\ Len(q) = Len(o) + Len(args) BY AnyCat
    <2>. HIDE DEF q
    <2>3. Len(o) \in Nat /\ Len(args) \in Nat BY AnyLen
    <2>4. Len(q) >= Funcs[fn].params /\ Len(q) - Funcs[fn].params = Len(o) BY <2>2, <2>3
    <2>5. StackTier(fn) # "reg" BY StackTierIs
    <2>6. QED BY <2>1, <2>2, <2>4, <2>5, EntersStack
<1>3. QED BY <1>1, <1>2

LEMMA doCallDirectIRGood ==
    ASSUME NEW cs, IsCalls(cs), Answers(cs), NEW fn \in DOMAIN Funcs,
           NEW o, Any(o), NEW fr, Any(fr), NEW lb, Any(lb), NEW b, Len(o) >= Funcs[fn].params,
           Waiting(cs, Len(cs), Len(fr), Len(lb), Len(o) - Funcs[fn].params, fr, lb),
           WaitsFor(cs, fn, "doCallDirectIR"), Stored, doCallDirectIR(cs, fn, o, fr, lb, b)
    PROVE  Lost' \/ Good'
<1>1. CASE EnterStack(cs, "doCallDirectIR", StackTier(fn), fn, o, fr, lb, b)
    <2>1. StackTier(fn) # "reg" BY StackTierIs
    <2>2. QED BY <1>1, <2>1, EntersStack
<1>2. CASE ~EnterStack(cs, "doCallDirectIR", StackTier(fn), fn, o, fr, lb, b)
    <2>. DEFINE n == Funcs[fn].params
                args == LastOf(o, n)
                q == Prefix(o, Len(o) - n)
    <2>1. Funcs[fn].reg /\ EnterReg(cs, "doCallDirectIR", fn, args, q, fr, lb, b) BY <1>2 DEF doCallDirectIR
    <2>2. Len(o) \in Nat /\ n \in Nat BY AnyLen, FuncIs
    <2>3. n \in 0 .. Len(o) /\ Len(o) - n \in 0 .. Len(o) BY <2>2
    <2>4. Any(args) /\ Len(args) = n BY <2>3, AnyLast
    <2>5. Any(q) /\ Len(q) = Len(o) - n BY <2>3, AnyPrefix
    <2>. HIDE DEF args, q
    <2>6. QED BY <2>1, <2>4, <2>5, EntersReg
<1>3. QED BY <1>1, <1>2

\* A running call on the stack that makes a call waits.
LEMMA SuspendStack ==
    ASSUME OnStackGood, ~AtEnd, instr.op = "call"
    PROVE  LET fn == instr.fn
               n == Len(acts)
               k == Len(op) - Funcs[fn].params
           IN  /\ fn \in DOMAIN Funcs /\ IsCalls(Stepped) /\ Answers(Stepped) /\ Len(Stepped) = n
               /\ Len(op) >= Funcs[fn].params
               /\ Waiting(Stepped, n, Len(frames), Len(labels), k, frames, labels)
               /\ Expected(Stepped[n]) = Funcs[fn].results /\ Stepped[n].tier = top.tier
<1>. DEFINE fn == instr.fn
            n == Len(acts)
            i == top.pc
            f == Funcs[top.fn]
            cs == Stepped
            a == cs[n]
            k == Len(op) - Funcs[fn].params
            lo == frame.label_base
            A == Around(f.code, i)
<1>1. /\ Stacks /\ Answers(acts) /\ IsCalls(acts) /\ n \in Nat /\ n >= 1 /\ top.fn \in DOMAIN Funcs
      /\ Len(frames) \in Nat /\ Len(frames) >= 1 /\ Len(op) \in Nat /\ Len(labels) \in Nat
      /\ frame.start \in Nat /\ lo \in Nat /\ lo <= Len(labels) /\ Bottom \in Nat
      /\ Framed(top, n, frame, frame.start, lo)
      /\ Waiting(acts, n - 1, Len(frames) - 1, lo, frame.start, frames, labels)
      /\ OnStack(top)
    BY OnStackIs DEF OnStackGood
<1>2. /\ i \in Live(f.code) /\ i \in 1 .. Len(f.code) /\ Len(f.code) \in Nat /\ ValidAt(f, i)
      /\ HeightAt(f, i) \in Nat /\ Len(op) = Bottom + HeightAt(f, i)
      /\ Len(labels) = lo + 1 + Cardinality(A) /\ Labelled(top, A, lo, Bottom, labels)
      /\ instr = f.code[i] /\ Cardinality(A) \in Nat
    BY Executing DEF code, instr
<1>3. /\ IsCalls(cs) /\ Len(cs) = n /\ (\A j \in 1 .. n - 1 : cs[j] = acts[j])
      /\ a.pc = i + 1 /\ a.how = top.how /\ a.tier = top.tier /\ a.fn = top.fn /\ a.base = top.base
    <2>1. cs = PcSet(acts, i + 1) /\ top = acts[n] BY DEF Stepped, Moved, PcSet, top
    <2>. DEFINE v == i + 1
    <2>. HIDE DEF cs, i
    <2>2. cs = PcSet(acts, v) BY <2>1
    <2>. HIDE DEF v
    <2>3. IsCalls(cs) /\ Len(cs) = n /\ (\A j \in 1 .. n - 1 : cs[j] = acts[j])
          /\ cs[n].pc = v /\ cs[n].how = acts[n].how /\ cs[n].tier = acts[n].tier /\ cs[n].fn = acts[n].fn
          /\ cs[n].base = acts[n].base
        BY <1>1, <2>2, PcFields
    <2>4. QED BY <2>1, <2>3 DEF v
<1>. HIDE DEF cs
<1>4. Answers(cs) BY <1>1, <1>3, AnswersSame DEF top
<1>5. fn \in DOMAIN Funcs /\ Consumes(instr) = Funcs[fn].params BY <1>2, Zenon DEF ValidAt, Consumes
<1>6. Funcs[fn].params \in 0 .. HeightAt(f, i) BY <1>2, <1>5, Zenon DEF ValidAt
<1>7. Site(a) = i BY <1>2, <1>3 DEF Site
<1>8. Waits(a)
    <2>0. i + 1 \in Nat
        <3>1. i \in 1 .. Len(f.code) /\ Len(f.code) \in Nat BY <1>2
        <3>. HIDE DEF i, f
        <3>2. QED BY <3>1
    <2>1. a.fn \in DOMAIN Funcs /\ a.pc \in Nat BY <1>1, <1>3, <2>0
    <2>2. Site(a) \in Live(Funcs[a.fn].code) /\ Funcs[a.fn].code[Site(a)].op = "call" BY <1>2, <1>3, <1>7
    <2>3. QED BY <2>1, <2>2 DEF Waits
<1>9. Left(a) = HeightAt(f, i) - Funcs[fn].params /\ Expected(a) = Funcs[fn].results
    BY <1>2, <1>3, <1>5, <1>7 DEF Left, Expected
<1>10. k \in Nat /\ Len(op) >= Funcs[fn].params /\ k = frame.start + Fixed(f) + Left(a)
    <2>. DEFINE h == HeightAt(f, i)
                ps == Funcs[fn].params
                fx == Fixed(f)
    <2>1. fx \in Nat /\ Bottom = frame.start + fx BY <1>1, FuncIs DEF Bottom
    <2>2. h \in Nat /\ ps \in 0 .. h /\ Len(op) = Bottom + h /\ Left(a) = h - ps BY <1>2, <1>6, <1>9, Zenon
    <2>. DEFINE st == frame.start
                e == Left(a)
                q == Len(op)
    <2>a. st \in Nat /\ Bottom = st + fx /\ e = h - ps /\ q = Bottom + h BY <1>1, <2>1, <2>2
    <2>. HIDE DEF h, ps, fx, st, e, q
    <2>b. q - ps \in Nat /\ q >= ps /\ q - ps = st + fx + e BY <2>1, <2>2, <2>a
    <2>3. Len(op) - ps \in Nat /\ Len(op) >= ps /\ Len(op) - ps = frame.start + fx + Left(a)
        BY <2>b DEF st, e, q
    <2>4. QED BY <2>3 DEF ps, fx
<1>11. Labelled(a, A, lo, frame.start + Fixed(f), labels) BY <1>2, <1>3 DEF Labelled, Bottom
<1>12. Framed(a, n, frames[Len(frames)], frame.start, lo) BY <1>1, <1>3 DEF Framed, frame
<1>13. Len(frames) = (Len(frames) - 1) + 1 BY <1>1
<1>14. Layer(a, n, Len(frames) - 1, Len(frames), lo, Len(labels), frame.start, k, frames, labels)
    <2>1. OnStack(a) BY <1>1, <1>3 DEF OnStack
    <2>. HIDE DEF k, a
    <2>2. QED BY <1>2, <1>3, <1>7, <1>8, <1>10, <1>11, <1>12, <1>13, <2>1 DEF Layer
<1>15. Waiting(cs, n - 1, Len(frames) - 1, lo, frame.start, frames, labels)
    <2>1. n - 1 \in Nat BY <1>1
    <2>2. QED BY <1>1, <1>3, <2>1, WaitingSame
<1>16. Waiting(cs, n, Len(frames), Len(labels), k, frames, labels)
    <2>. DEFINE p == n - 1
                g == Len(frames) - 1
    <2>1. p \in Nat /\ p + 1 = n /\ g \in Nat /\ g <= Len(frames) BY <1>1
    <2>2. Layer(cs[p + 1], p + 1, g, Len(frames), lo, Len(labels), frame.start, k, frames, labels) BY <1>14, <2>1
    <2>3. Waiting(cs, p, g, lo, frame.start, frames, labels) BY <1>15
    <2>. HIDE DEF p, g, k
    <2>4. Waiting(cs, p + 1, Len(frames), Len(labels), k, frames, labels)
        BY <1>1, <1>10, <2>1, <2>2, <2>3, WaitingPush
    <2>5. QED BY <2>1, <2>4
<1>17. QED BY <1>3, <1>4, <1>5, <1>9, <1>10, <1>16 DEF cs

-----------------------------------------------------------------------------
\* The running call in registers.
LEMMA InRegsIs ==
    ASSUME InRegsGood
    PROVE  /\ Stacks /\ (\A j \in 1 .. Len(exns) : Thrown(exns[j])) /\ Answers(acts) /\ IsCalls(acts)
           /\ Len(acts) \in Nat /\ Len(acts) >= 1 /\ acts # <<>> /\ top.fn \in DOMAIN Funcs /\ Funcs[top.fn].reg
           /\ Len(frames) \in Nat /\ Len(op) \in Nat /\ Len(labels) \in Nat
           /\ top.pc \in Live(code) \cup {Len(code) + 1} /\ Any(top.regs)
           /\ Len(top.regs) = Fixed(Funcs[top.fn]) + HeightAt(Funcs[top.fn], top.pc)
           /\ Waiting(acts, Len(acts) - 1, Len(frames), Len(labels), Len(op), frames, labels)
<1>1. InRegs(acts, op, frames, labels) BY DEF InRegsGood, Good, OnTheStack, Owns, top
<1>2. Stacks /\ (\A j \in 1 .. Len(exns) : Thrown(exns[j])) /\ Answers(acts) /\ IsCalls(acts)
    BY DEF InRegsGood, Good, CallsInv
<1>3. Len(acts) \in Nat /\ Len(frames) \in Nat /\ Len(op) \in Nat /\ Len(labels) \in Nat
    BY <1>2, AnyLen, CallsLen DEF Stacks
<1>4. Len(acts) >= 1 /\ top.fn \in DOMAIN Funcs /\ Funcs[top.fn].reg
      /\ top.pc \in Live(code) \cup {Len(code) + 1} /\ Any(top.regs)
      /\ Len(top.regs) = Fixed(Funcs[top.fn]) + HeightAt(Funcs[top.fn], top.pc)
      /\ Waiting(acts, Len(acts) - 1, Len(frames), Len(labels), Len(op), frames, labels)
    BY <1>1 DEF InRegs, top, code
<1>5. acts # <<>> BY <1>4, NoCalls
<1>6. QED BY <1>2, <1>3, <1>4, <1>5

LEMMA ExecutingRegs ==
    ASSUME InRegsGood, ~AtEnd
    PROVE  LET f == Funcs[top.fn]
               i == top.pc
           IN  /\ code = f.code /\ instr = f.code[i] /\ i \in Live(f.code) /\ i \in 1 .. Len(f.code) /\ i \in Nat
               /\ Len(f.code) \in Nat /\ ValidAt(f, i) /\ HeightAt(f, i) \in Nat /\ Fixed(f) \in Nat
               /\ Around(f.code, i) = {}
               /\ instr.op \in {"const", "local.get", "drop", "call", "end", "unreachable"}
<1>. DEFINE f == Funcs[top.fn]
            i == top.pc
<1>1. top.fn \in DOMAIN Funcs /\ f.reg /\ i \in Live(code) \cup {Len(code) + 1} BY InRegsIs
<1>2. code = f.code /\ instr = f.code[i] BY DEF code, instr
<1>. HIDE DEF f
<1>3. Len(f.code) \in Nat /\ Fixed(f) \in Nat /\ Valid(f) BY <1>1, FuncIs DEF f
<1>4. i # Len(code) + 1 BY <1>2, <1>3 DEF AtEnd
<1>5. i \in Live(f.code) BY <1>1, <1>2, <1>4
<1>6. ValidAt(f, i) /\ i \in 1 .. Len(f.code) /\ HeightAt(f, i) \in Nat BY <1>1, <1>5, FuncIs DEF f
<1>7. i \in Nat BY <1>3, <1>6
<1>8. \A k \in 1 .. Len(f.code) :
          f.code[k].op \in {"const", "local.get", "drop", "call", "end", "unreachable"}
    BY <1>1, <1>3 DEF Valid
<1>9. Around(f.code, i) = {}
    <2>1. \A k \in 1 .. i - 1 : k \in 1 .. Len(f.code) BY <1>3, <1>6
    <2>2. \A k \in 1 .. i - 1 : f.code[k].op \notin Openers BY <1>8, <2>1 DEF Openers
    <2>3. QED BY <2>2 DEF Around
<1>10. QED BY <1>2, <1>3, <1>5, <1>6, <1>7, <1>8, <1>9 DEF f

LEMMA ExecutesInRegs ==
    ASSUME CallsInv, Good, NEW o, Executes(o), ~OnStack(top)
    PROVE  InRegsGood /\ ~AtEnd /\ instr.op = o
BY DEF Executes, OnOwnFrame, InRegisters, Running, InRegsGood

\* The topmost call after a change of its position and its registers.
SteppedWith(cs, s) ==
    LET n == Len(acts)
    IN  /\ IsCalls(cs) /\ Len(cs) = n /\ (\A k \in 1 .. n - 1 : cs[k] = acts[k])
        /\ cs[n].pc = top.pc + 1 /\ cs[n].how = top.how /\ cs[n].tier = top.tier /\ cs[n].fn = top.fn
        /\ cs[n].regs = s

LEMMA SteppedFields ==
    ASSUME CallsInv, Len(acts) >= 1, NEW s
    PROVE  SteppedWith([Stepped EXCEPT ![Len(acts)].regs = s], s)
<1>. DEFINE n == Len(acts)
            v == top.pc + 1
            ds == PcSet(acts, v)
            es == RegsSet(ds, s)
<1>1. IsCalls(acts) BY DEF CallsInv
<1>2. Stepped = ds BY DEF Stepped, Moved, PcSet
<1>. HIDE DEF v
<1>3. /\ IsCalls(ds) /\ n \in Nat /\ Len(ds) = n /\ (\A k \in 1 .. n - 1 : ds[k] = acts[k])
      /\ ds[n].pc = v /\ ds[n].how = acts[n].how /\ ds[n].tier = acts[n].tier /\ ds[n].fn = acts[n].fn
    BY <1>1, PcFields
<1>. HIDE DEF ds
<1>4. /\ IsCalls(es) /\ Len(es) = n /\ (\A k \in 1 .. n - 1 : es[k] = ds[k])
      /\ es[n].regs = s /\ es[n].how = ds[n].how /\ es[n].tier = ds[n].tier /\ es[n].fn = ds[n].fn
      /\ es[n].pc = ds[n].pc
    BY <1>3, RegsFields
<1>5. [Stepped EXCEPT ![Len(acts)].regs = s] = es BY <1>2, <1>3 DEF RegsSet
<1>. HIDE DEF es
<1>6. top = acts[n] BY DEF top
<1>7. \A k \in 1 .. n - 1 : es[k] = acts[k] BY <1>3, <1>4
<1>8. SteppedWith(es, s) BY <1>3, <1>4, <1>6, <1>7 DEF SteppedWith, v
<1>9. QED BY <1>5, <1>8

LEMMA RegsStep ==
    ASSUME InRegsGood, UNCHANGED <<op, frames, labels, exns>>, err' = "none",
           IsCalls(acts'), Len(acts') = Len(acts), \A k \in 1 .. Len(acts) - 1 : acts'[k] = acts[k],
           acts'[Len(acts)].how = top.how, acts'[Len(acts)].tier = top.tier, acts'[Len(acts)].fn = top.fn,
           acts'[Len(acts)].pc \in Live(code) \cup {Len(code) + 1}, Any(acts'[Len(acts)].regs),
           Len(acts'[Len(acts)].regs) = Fixed(Funcs[top.fn]) + HeightAt(Funcs[top.fn], acts'[Len(acts)].pc)
    PROVE  Good'
<1>. DEFINE n == Len(acts)
            a == acts'[n]
<1>1. /\ Stacks /\ (\A j \in 1 .. Len(exns) : Thrown(exns[j])) /\ Answers(acts)
      /\ n \in Nat /\ n >= 1 /\ top.fn \in DOMAIN Funcs /\ Funcs[top.fn].reg
      /\ Waiting(acts, n - 1, Len(frames), Len(labels), Len(op), frames, labels) /\ ~OnStack(top)
    BY InRegsIs DEF InRegsGood
<1>2. Answers(acts') BY <1>1, AnswersSame DEF top
<1>3. Waiting(acts', n - 1, Len(frames), Len(labels), Len(op), frames, labels)
    <2>1. n - 1 \in Nat BY <1>1
    <2>2. QED BY <1>1, <2>1, WaitingSame
<1>4. ~OnStack(a) BY <1>1 DEF OnStack
<1>5. InRegs(acts', op', frames', labels') BY <1>1, <1>3, <1>4 DEF InRegs, code
<1>6. Stacks' BY <1>1 DEF Stacks
<1>7. QED BY <1>1, <1>2, <1>5, <1>6 DEF Good

LEMMA StraightInRegs ==
    ASSUME CallsInv, Good, ~OnStack(top), Const \/ LocalGet \/ Drop \/ End
    PROVE  Good'
<1>. DEFINE f == Funcs[top.fn]
            i == top.pc
            n == Len(acts)
            h == HeightAt(f, i)
            r == top.regs
<1>1. PICK o \in {"const", "local.get", "drop", "end"} : Executes(o) BY DEF Const, LocalGet, Drop, End
<1>2. InRegsGood /\ ~AtEnd /\ instr.op = o BY <1>1, ExecutesInRegs
<1>3. /\ code = f.code /\ instr = f.code[i] /\ i \in Live(f.code) /\ i \in Nat
      /\ Len(f.code) \in Nat /\ ValidAt(f, i) /\ h \in Nat /\ Fixed(f) \in Nat /\ Around(f.code, i) = {}
    BY <1>2, ExecutingRegs
<1>4. n >= 1 /\ n \in Nat /\ Any(r) /\ Len(r) = Fixed(f) + h /\ IsCalls(acts) /\ top.fn \in DOMAIN Funcs
    BY <1>2, InRegsIs
<1>5. err' = "none" /\ UNCHANGED <<op, frames, labels, exns>>
    BY <1>2 DEF Const, LocalGet, Drop, End, Push, SetOperands, StackOnly, InRegsGood
<1>6. Consumes(instr) \in 0 .. h BY <1>3, Zenon DEF ValidAt
<1>7. CASE o \in {"const", "local.get"}
    <2>1. Const \/ LocalGet BY <1>1, <1>2, <1>7 DEF Const, LocalGet, Drop, End, Executes
    <2>2. PICK v : Push(v) BY <2>1 DEF Const, LocalGet
    <2>. DEFINE s == Append(r, v)
    <2>3. acts' = [Stepped EXCEPT ![Len(acts)].regs = s] BY <1>2, <2>2 DEF Push, SetOperands, Operands, InRegsGood
    <2>4. Any(s) /\ Len(s) = Fixed(f) + (h + 1)
        <3>1. Any(s) /\ Len(s) = Len(r) + 1 BY <1>4, AnyAppend
        <3>. HIDE DEF s, h, r
        <3>2. QED BY <1>3, <1>4, <3>1
    <2>5. Meets(f, i + 1, {}, h + 1)
        <3>1. Effect(instr) = 1 BY <1>2, <1>7 DEF Effect
        <3>2. QED BY <1>2, <1>3, <1>7, <3>1, Zenon DEF ValidAt
    <2>. HIDE DEF s
    <2>6. /\ IsCalls(acts') /\ Len(acts') = n /\ (\A k \in 1 .. n - 1 : acts'[k] = acts[k])
          /\ acts'[n].pc = i + 1 /\ acts'[n].how = top.how /\ acts'[n].tier = top.tier
          /\ acts'[n].fn = top.fn /\ acts'[n].regs = s
        <3>1. Len(acts) >= 1 BY <1>4
        <3>2. SteppedWith(acts', s) BY <2>3, <3>1, SteppedFields
        <3>3. QED BY <3>2 DEF SteppedWith
    <2>7. i + 1 \in Live(code) /\ HeightAt(f, i + 1) = h + 1 BY <1>3, <2>5 DEF Meets
    <2>. HIDE DEF i, h
    <2>8. QED BY <1>2, <1>5, <2>4, <2>6, <2>7, RegsStep
<1>8. CASE o = "drop"
    <2>1. Drop BY <1>1, <1>2, <1>8 DEF Const, LocalGet, Drop, End, Executes
    <2>. DEFINE s == Prefix(r, Len(r) - 1)
    <2>3. acts' = [Stepped EXCEPT ![Len(acts)].regs = s] BY <1>2, <2>1 DEF Drop, SetOperands, Operands, InRegsGood
    <2>4. 1 <= h
        <3>1. Consumes(instr) = 1 BY <1>2, <1>8 DEF Consumes
        <3>. HIDE DEF h
        <3>2. QED BY <1>3, <1>6, <3>1
    <2>5. Any(s) /\ Len(s) = Fixed(f) + (h + (-1))
        <3>1. Len(r) - 1 \in 0 .. Len(r)
            <4>. HIDE DEF h, r
            <4>1. QED BY <1>3, <1>4, <2>4
        <3>2. Any(s) /\ Len(s) = Len(r) - 1 BY <1>4, <3>1, AnyPrefix
        <3>. HIDE DEF s, h, r
        <3>3. QED BY <1>3, <1>4, <3>2
    <2>6. Meets(f, i + 1, {}, h + (-1))
        <3>1. Effect(instr) = -1 BY <1>2, <1>8 DEF Effect
        <3>2. QED BY <1>2, <1>3, <1>8, <3>1, Zenon DEF ValidAt
    <2>. HIDE DEF s
    <2>7. /\ IsCalls(acts') /\ Len(acts') = n /\ (\A k \in 1 .. n - 1 : acts'[k] = acts[k])
          /\ acts'[n].pc = i + 1 /\ acts'[n].how = top.how /\ acts'[n].tier = top.tier
          /\ acts'[n].fn = top.fn /\ acts'[n].regs = s
        <3>1. Len(acts) >= 1 BY <1>4
        <3>2. SteppedWith(acts', s) BY <2>3, <3>1, SteppedFields
        <3>3. QED BY <3>2 DEF SteppedWith
    <2>8. i + 1 \in Live(code) /\ HeightAt(f, i + 1) = h + (-1) BY <1>3, <2>6 DEF Meets
    <2>. HIDE DEF i, h
    <2>9. QED BY <1>2, <1>5, <2>5, <2>7, <2>8, RegsStep
<1>9. CASE o = "end"
    <2>1. End BY <1>1, <1>2, <1>9 DEF Const, LocalGet, Drop, End, Executes
    <2>2. acts' = PcSet(acts, i + 1) /\ top = acts[n] BY <2>1 DEF End, Stepped, Moved, PcSet, top
    <2>3. i = Len(f.code) /\ h = f.results BY <1>2, <1>3, <1>9, Zenon DEF ValidAt
    <2>4. i + 1 = Len(code) + 1 /\ HeightAt(f, i + 1) = h BY <1>3, <1>4, <2>3, FuncIs
    <2>. DEFINE v == i + 1
    <2>5. acts' = PcSet(acts, v) BY <2>2
    <2>. HIDE DEF v
    <2>6. /\ IsCalls(acts') /\ Len(acts') = n /\ (\A k \in 1 .. n - 1 : acts'[k] = acts[k])
          /\ acts'[n].pc = v /\ acts'[n].how = acts[n].how /\ acts'[n].tier = acts[n].tier
          /\ acts'[n].fn = acts[n].fn /\ acts'[n].regs = acts[n].regs
        BY <1>4, <2>5, PcFields
    <2>7. acts'[n].pc \in Live(code) \cup {Len(code) + 1} /\ HeightAt(f, acts'[n].pc) = h BY <2>4, <2>6 DEF v
    <2>8. Any(acts'[n].regs) /\ Len(acts'[n].regs) = Fixed(f) + HeightAt(f, acts'[n].pc) BY <1>4, <2>2, <2>6, <2>7
    <2>9. acts'[n].how = top.how /\ acts'[n].tier = top.tier /\ acts'[n].fn = top.fn BY <2>2, <2>6
    <2>. HIDE DEF h
    <2>10. QED BY <1>2, <1>5, <2>6, <2>7, <2>8, <2>9, RegsStep
<1>10. QED BY <1>7, <1>8, <1>9

LEMMA SteppedKeeps == ASSUME InRegsGood PROVE Stepped[Len(acts)].regs = top.regs
<1>. DEFINE v == top.pc + 1
<1>1. IsCalls(acts) /\ Len(acts) >= 1 BY InRegsIs
<1>2. Stepped = PcSet(acts, v) /\ top = acts[Len(acts)] BY DEF Stepped, Moved, PcSet, top
<1>. HIDE DEF v
<1>3. PcSet(acts, v)[Len(acts)].regs = acts[Len(acts)].regs BY <1>1, PcFields
<1>4. QED BY <1>2, <1>3

\* A running call in registers that makes a call waits, too: it hands over
\* args and is left as the last of cs.
Handed(cs, args) ==
    \E s : /\ args = LastOf(top.regs, Funcs[instr.fn].params)
           /\ s = Prefix(top.regs, Len(top.regs) - Funcs[instr.fn].params)
           /\ cs = [Stepped EXCEPT ![Len(acts)].regs = s]

LEMMA SuspendRegs ==
    ASSUME InRegsGood, ~AtEnd, instr.op = "call", NEW args, NEW cs, Handed(cs, args)
    PROVE  LET fn == instr.fn
               n == Len(acts)
           IN  /\ fn \in DOMAIN Funcs /\ IsCalls(cs) /\ Answers(cs) /\ Len(cs) = n
               /\ Any(args) /\ Len(args) = Funcs[fn].params
               /\ Waiting(cs, n, Len(frames), Len(labels), Len(op), frames, labels)
               /\ Expected(cs[n]) = Funcs[fn].results /\ cs[n].tier = top.tier
<1>. DEFINE fn == instr.fn
            n == Len(acts)
            i == top.pc
            f == Funcs[top.fn]
            h == HeightAt(f, i)
            r == top.regs
            ps == Funcs[fn].params
            a == cs[n]
<1>0. PICK s : args = LastOf(r, ps) /\ s = Prefix(r, Len(r) - ps) /\ cs = [Stepped EXCEPT ![Len(acts)].regs = s]
    BY DEF Handed
<1>1. /\ Stacks /\ Answers(acts) /\ IsCalls(acts) /\ n \in Nat /\ n >= 1 /\ top.fn \in DOMAIN Funcs /\ f.reg
      /\ Len(frames) \in Nat /\ Len(op) \in Nat /\ Len(labels) \in Nat
      /\ Any(r) /\ Len(r) = Fixed(f) + h
      /\ Waiting(acts, n - 1, Len(frames), Len(labels), Len(op), frames, labels)
      /\ ~OnStack(top) /\ CallsInv
    BY InRegsIs DEF InRegsGood
<1>2. /\ instr = f.code[i] /\ i \in Live(f.code) /\ i \in Nat /\ ValidAt(f, i) /\ h \in Nat /\ Fixed(f) \in Nat
      /\ Around(f.code, i) = {}
    BY ExecutingRegs
<1>3. fn \in DOMAIN Funcs /\ Consumes(instr) = ps BY <1>2, Zenon DEF ValidAt, Consumes
<1>4. ps \in 0 .. h BY <1>2, <1>3, Zenon DEF ValidAt
<1>5. ps \in 0 .. Len(r) /\ Len(r) - ps \in 0 .. Len(r) /\ Len(r) - ps = Fixed(f) + (h - ps)
    <2>. DEFINE fx == Fixed(f)
    <2>1. Len(r) = fx + h /\ fx \in Nat /\ h \in Nat /\ ps \in 0 .. h BY <1>1, <1>2, <1>4
    <2>. HIDE DEF ps, h, r, fx
    <2>2. ps \in 0 .. Len(r) /\ Len(r) - ps \in 0 .. Len(r) /\ Len(r) - ps = fx + (h - ps) BY <2>1
    <2>3. QED BY <2>2 DEF fx
<1>6. Any(args) /\ Len(args) = ps BY <1>0, <1>1, <1>5, AnyLast
<1>7. Any(s) /\ Len(s) = Fixed(f) + (h - ps)
    <2>1. Any(s) /\ Len(s) = Len(r) - ps BY <1>0, <1>1, <1>5, AnyPrefix
    <2>2. QED BY <1>5, <2>1
<1>9. /\ IsCalls(cs) /\ Len(cs) = n /\ (\A k \in 1 .. n - 1 : cs[k] = acts[k])
      /\ a.pc = i + 1 /\ a.how = top.how /\ a.tier = top.tier /\ a.fn = top.fn /\ a.regs = s
    <2>. DEFINE es == [Stepped EXCEPT ![Len(acts)].regs = s]
    <2>1. /\ IsCalls(es) /\ Len(es) = n /\ (\A k \in 1 .. n - 1 : es[k] = acts[k])
          /\ es[n].pc = i + 1 /\ es[n].how = top.how /\ es[n].tier = top.tier /\ es[n].fn = top.fn /\ es[n].regs = s
        <3>1. SteppedWith(es, s) BY <1>1, SteppedFields
        <3>. HIDE DEF es
        <3>2. QED BY <1>1, <3>1 DEF SteppedWith
    <2>2. cs = es BY <1>0
    <2>. HIDE DEF es
    <2>3. QED BY <2>1, <2>2
<1>10. Answers(cs) BY <1>1, <1>9, AnswersSame DEF top
<1>. HIDE DEF a
<1>11. Site(a) = i /\ i + 1 \in Nat
    <2>. HIDE DEF i
    <2>1. i \in Nat BY <1>2
    <2>2. a.pc = i + 1 BY <1>9
    <2>3. QED BY <2>1, <2>2 DEF Site
<1>12. Waits(a)
    <2>1. i + 1 \in Nat BY <1>11
    <2>2. QED BY <1>1, <1>2, <1>9, <1>11, <2>1 DEF Waits
<1>13. Left(a) = h - ps /\ Expected(a) = Funcs[fn].results BY <1>2, <1>3, <1>9, <1>11 DEF Left, Expected
<1>14. Layer(a, n, Len(frames), Len(frames), Len(labels), Len(labels), Len(op), Len(op), frames, labels)
    <2>1. ~OnStack(a) BY <1>1, <1>9 DEF OnStack
    <2>2. Any(a.regs) /\ Len(a.regs) = Fixed(f) + Left(a) BY <1>7, <1>9, <1>13
    <2>3. QED BY <1>1, <1>9, <1>12, <2>1, <2>2 DEF Layer
<1>15. Waiting(cs, n - 1, Len(frames), Len(labels), Len(op), frames, labels)
    <2>1. n - 1 \in Nat BY <1>1
    <2>2. QED BY <1>1, <1>9, <2>1, WaitingSame
<1>16. Waiting(cs, n, Len(frames), Len(labels), Len(op), frames, labels)
    <2>. DEFINE p == n - 1
    <2>1. p \in Nat /\ p + 1 = n BY <1>1
    <2>2. Layer(cs[p + 1], p + 1, Len(frames), Len(frames), Len(labels), Len(labels), Len(op), Len(op), frames, labels)
        BY <1>14, <2>1 DEF a
    <2>3. Waiting(cs, p, Len(frames), Len(labels), Len(op), frames, labels) BY <1>15
    <2>4. Len(frames) <= Len(frames) /\ Len(labels) <= Len(labels) BY <1>1
    <2>. HIDE DEF p
    <2>5. Waiting(cs, p + 1, Len(frames), Len(labels), Len(op), frames, labels)
        BY <1>1, <2>1, <2>2, <2>3, <2>4, WaitingPush
    <2>6. QED BY <2>1, <2>5
<1>17. QED BY <1>3, <1>6, <1>9, <1>10, <1>13, <1>16 DEF a

LEMMA CallGood ==
    ASSUME CallsInv, Good, Call
    PROVE  Lost' \/ Good'
<1>. DEFINE fn == instr.fn
            n == Funcs[fn].params
<1>1. Executes("call") BY DEF Call
<1>2. Stored BY DEF Call, Good, Stacks, Stored
<1>3. CASE err' = "depth" BY <1>3 DEF Lost
<1>4. CASE top.tier = "byte" /\ doCallDirect(Stepped, fn, op, frames, labels, bt)
    <2>1. OnStackGood /\ ~AtEnd /\ instr.op = "call" BY <1>1, <1>4, ExecutesOnStack DEF OnStack
    <2>2. Any(op) /\ Any(frames) /\ Any(labels) BY <2>1, OnStackIs DEF Stacks
    <2>. DEFINE cs == Stepped
    <2>3. /\ fn \in DOMAIN Funcs /\ IsCalls(cs) /\ Answers(cs) /\ Len(cs) = Len(acts) /\ Len(op) >= n
          /\ Waiting(cs, Len(cs), Len(frames), Len(labels), Len(op) - n, frames, labels)
          /\ Expected(cs[Len(cs)]) = Funcs[fn].results /\ cs[Len(cs)].tier = top.tier
        BY <2>1, SuspendStack
    <2>4. EnterStack(cs, "doCallDirect", "byte", fn, op, frames, labels, bt) BY <1>4 DEF doCallDirect
    <2>. HIDE DEF cs
    <2>5. WaitsFor(cs, fn, "doCallDirect") BY <1>4, <2>3 DEF WaitsFor
    <2>6. QED BY <1>2, <2>2, <2>3, <2>4, <2>5, EntersStack
<1>5. CASE top.tier = "ir" /\ doCallDirectIR(Stepped, fn, op, frames, labels, bt)
    <2>1. OnStackGood /\ ~AtEnd /\ instr.op = "call" BY <1>1, <1>5, ExecutesOnStack DEF OnStack
    <2>2. Any(op) /\ Any(frames) /\ Any(labels) BY <2>1, OnStackIs DEF Stacks
    <2>. DEFINE cs == Stepped
    <2>3. /\ fn \in DOMAIN Funcs /\ IsCalls(cs) /\ Answers(cs) /\ Len(cs) = Len(acts) /\ Len(op) >= n
          /\ Waiting(cs, Len(cs), Len(frames), Len(labels), Len(op) - n, frames, labels)
          /\ Expected(cs[Len(cs)]) = Funcs[fn].results /\ cs[Len(cs)].tier = top.tier
        BY <2>1, SuspendStack
    <2>4. doCallDirectIR(cs, fn, op, frames, labels, bt) BY <1>5
    <2>. HIDE DEF cs
    <2>5. WaitsFor(cs, fn, "doCallDirectIR") BY <1>5, <2>3 DEF WaitsFor
    <2>6. QED BY <1>2, <2>2, <2>3, <2>4, <2>5, doCallDirectIRGood
<1>6. CASE /\ top.tier = "reg"
           /\ callFunction([Stepped EXCEPT ![Len(acts)].regs = Prefix(@, Len(@) - n)], fn,
                           LastOf(top.regs, n), forced, op, frames, labels, bt)
    <2>1. InRegsGood /\ ~AtEnd /\ instr.op = "call" BY <1>1, <1>6, ExecutesInRegs DEF OnStack
    <2>2. Any(op) /\ Any(frames) /\ Any(labels) BY <2>1, InRegsIs DEF Stacks
    <2>. DEFINE args == LastOf(top.regs, Funcs[instr.fn].params)
                s == Prefix(top.regs, Len(top.regs) - Funcs[instr.fn].params)
                cs == [Stepped EXCEPT ![Len(acts)].regs = s]
    <2>3. callFunction(cs, fn, args, forced, op, frames, labels, bt)
        <3>1. Stepped[Len(acts)].regs = top.regs BY <2>1, SteppedKeeps
        <3>2. [Stepped EXCEPT ![Len(acts)].regs = Prefix(@, Len(@) - n)] = cs BY <3>1
        <3>3. QED BY <1>6, <3>2
    <2>4. Handed(cs, args) BY DEF Handed
    <2>. HIDE DEF cs, args, s
    <2>5. /\ fn \in DOMAIN Funcs /\ IsCalls(cs) /\ Answers(cs) /\ Len(cs) = Len(acts)
          /\ Any(args) /\ Len(args) = n
          /\ Waiting(cs, Len(cs), Len(frames), Len(labels), Len(op), frames, labels)
          /\ Expected(cs[Len(cs)]) = Funcs[fn].results /\ cs[Len(cs)].tier = top.tier
        BY <2>1, <2>4, SuspendRegs
    <2>6. WaitsFor(cs, fn, "callFunction") BY <2>5 DEF WaitsFor
    <2>7. QED BY <1>2, <2>2, <2>3, <2>5, <2>6, callFunctionGood
<1>7. QED BY <1>3, <1>4, <1>5, <1>6 DEF Call

-----------------------------------------------------------------------------
\* Returns.  What the calls below the running one have on the stacks.
LEMMA Popped ==
    ASSUME CallsInv, Stacks, Answers(acts), Owns(acts, frames, labels)
    PROVE  LET fr == Prefix(frames, Len(frames) - 1)
               lb == Prefix(labels, frame.label_base)
           IN  /\ IsCalls(Callers) /\ Answers(Callers) /\ Len(Callers) \in Nat /\ Len(Callers) = Len(acts) - 1
               /\ Len(Callers) >= 1 => Pair(Callers[Len(Callers)], top)
               /\ Any(fr) /\ Any(lb) /\ Waiting(Callers, Len(Callers), Len(fr), Len(lb), frame.start, fr, lb)
<1>. DEFINE n == Len(acts)
            m == Len(frames)
            lo == frame.label_base
            fr == Prefix(frames, m - 1)
            lb == Prefix(labels, lo)
            cs == Callers
<1>1. IsCalls(acts) /\ n \in Nat /\ m \in Nat /\ Len(labels) \in Nat /\ Any(frames) /\ Any(labels)
    BY CallsLen, AnyLen DEF CallsInv, Stacks
<1>2. n >= 1 /\ m >= 1 /\ lo \in Nat /\ lo <= Len(labels)
      /\ Waiting(acts, n - 1, m - 1, lo, frame.start, frames, labels)
    BY DEF Owns, frame
<1>3. IsCalls(cs) /\ Answers(cs) /\ Len(cs) = n - 1 /\ Len(cs) \in Nat /\ (\A k \in 1 .. Len(cs) : cs[k] = acts[k])
      /\ (Len(cs) >= 1 => Pair(cs[Len(cs)], top))
    BY <1>1, <1>2, AnswersPop DEF Callers, top
<1>. HIDE DEF cs
<1>4. m - 1 \in 0 .. m /\ lo \in 0 .. Len(labels) BY <1>1, <1>2
<1>5. Any(fr) /\ Len(fr) = m - 1 /\ \A k \in 1 .. m - 1 : fr[k] = frames[k] BY <1>1, <1>4, AnyPrefix
<1>6. Any(lb) /\ Len(lb) = lo /\ \A k \in 1 .. lo : lb[k] = labels[k] BY <1>1, <1>4, AnyPrefix
<1>. HIDE DEF fr, lb
<1>7. Waiting(cs, Len(cs), m - 1, lo, frame.start, fr, lb)
    <2>. DEFINE p == Len(cs)
                g == m - 1
    <2>1. p \in Nat /\ Waiting(acts, p, g, lo, frame.start, frames, labels) /\ \A k \in 1 .. p : cs[k] = acts[k]
        BY <1>2, <1>3
    <2>2. \A k \in 1 .. g : fr[k] = frames[k] BY <1>5
    <2>. HIDE DEF p, g
    <2>3. Waiting(cs, p, g, lo, frame.start, fr, lb) BY <1>6, <2>1, <2>2, WaitingSame
    <2>4. QED BY <2>3 DEF p, g
<1>8. QED BY <1>3, <1>5, <1>6, <1>7 DEF fr, lb, cs

\* The last of the calls that wait gets the frame, the labels and the operands
\* that it has left.
LEMMA Resumes ==
    ASSUME NEW cs, IsCalls(cs), Len(cs) >= 1, OnStack(cs[Len(cs)]), NEW fr, Any(fr), NEW lb, Any(lb), NEW no,
           Waiting(cs, Len(cs), Len(fr), Len(lb), no, fr, lb)
    PROVE  LET a == cs[Len(cs)]
               g == fr[Len(fr)]
               A == Around(Funcs[a.fn].code, Site(a))
               bottom == g.start + Fixed(Funcs[a.fn])
           IN  /\ Owns(cs, fr, lb) /\ Waits(a) /\ g.start \in Nat /\ g.label_base \in Nat /\ bottom \in Nat
               /\ no = bottom + Left(a) /\ no \in Nat /\ g.start <= no
               /\ Len(lb) = g.label_base + 1 + Cardinality(A)
               /\ Labelled(a, A, g.label_base, bottom, lb)
<1>. DEFINE n == Len(cs)
            a == cs[n]
            m == Len(fr)
            g == fr[m]
            A == Around(Funcs[a.fn].code, Site(a))
            bottom == g.start + Fixed(Funcs[a.fn])
<1>1. n \in Nat \ {0} /\ m \in Nat /\ Len(lb) \in Nat BY CallsLen, AnyLen
<1>2. no \in Nat /\ \E f0, l0, o0 \in Nat :
          /\ f0 <= m /\ l0 <= Len(lb)
          /\ Waiting(cs, n - 1, f0, l0, o0, fr, lb)
          /\ Layer(a, n, f0, m, l0, Len(lb), o0, no, fr, lb)
    BY <1>1, WaitingPop
<1>3. PICK f0 \in Nat, l0 \in Nat, o0 \in Nat :
          /\ f0 <= m /\ l0 <= Len(lb)
          /\ Waiting(cs, n - 1, f0, l0, o0, fr, lb)
          /\ Layer(a, n, f0, m, l0, Len(lb), o0, no, fr, lb)
    BY <1>2
<1>4. Waits(a) /\ m = f0 + 1 /\ Len(lb) = l0 + 1 + Cardinality(A) /\ no = o0 + Fixed(Funcs[a.fn]) + Left(a)
      /\ Framed(a, n, g, o0, l0) /\ Labelled(a, A, l0, o0 + Fixed(Funcs[a.fn]), lb)
    BY <1>3 DEF Layer
<1>5. g.start = o0 /\ g.label_base = l0 BY <1>4 DEF Framed
<1>6. Fixed(Funcs[a.fn]) \in Nat /\ Left(a) \in Nat BY <1>4, WaitsIs
<1>7. m >= 1 /\ m - 1 = f0 BY <1>1, <1>4
<1>8. Owns(cs, fr, lb)
    <2>1. a.fn \in DOMAIN Funcs BY <1>4 DEF Waits
    <2>2. Waiting(cs, n - 1, m - 1, g.label_base, g.start, fr, lb) BY <1>3, <1>5, <1>7
    <2>3. n >= 1 /\ OnStack(a) /\ g.start \in Nat /\ g.label_base \in Nat /\ g.label_base <= Len(lb)
        BY <1>3, <1>5
    <2>4. Framed(a, n, g, g.start, g.label_base) BY <1>4, <1>5
    <2>5. QED BY <1>7, <2>1, <2>2, <2>3, <2>4 DEF Owns
<1>9. bottom \in Nat /\ no = bottom + Left(a) /\ g.start <= no
    <2>. DEFINE fx == Fixed(Funcs[a.fn])
                e == Left(a)
                s == g.start
    <2>1. fx \in Nat /\ e \in Nat /\ s = o0 /\ no = o0 + fx + e BY <1>4, <1>5, <1>6
    <2>. HIDE DEF fx, e, s
    <2>2. s + fx \in Nat /\ no = s + fx + e /\ s <= no BY <2>1
    <2>3. QED BY <2>2 DEF fx, e, s
<1>10. QED BY <1>2, <1>3, <1>4, <1>5, <1>8, <1>9

LEMMA ResumeStack ==
    ASSUME NEW cs, IsCalls(cs), Len(cs) >= 1, OnStack(cs[Len(cs)]), NEW fr, Any(fr), NEW lb, Any(lb), NEW no,
           Waiting(cs, Len(cs), Len(fr), Len(lb), no, fr, lb),
           NEW o, Len(o) = no + Expected(cs[Len(cs)])
    PROVE  OnTheStack(cs, o, fr, lb)
<1>. DEFINE a == cs[Len(cs)]
            g == fr[Len(fr)]
            A == Around(Funcs[a.fn].code, Site(a))
            bottom == g.start + Fixed(Funcs[a.fn])
            k == Left(a) + Expected(a)
<1>1. /\ Owns(cs, fr, lb) /\ Waits(a) /\ bottom \in Nat /\ no = bottom + Left(a)
      /\ Len(lb) = g.label_base + 1 + Cardinality(A) /\ Labelled(a, A, g.label_base, bottom, lb)
    BY Resumes
<1>. HIDE DEF a, g, bottom
<1>2. Left(a) \in Nat /\ Expected(a) \in Nat /\ Meets(Funcs[a.fn], a.pc, A, k) BY <1>1, WaitsIs
<1>3. a.fn \in DOMAIN Funcs BY <1>1 DEF Waits
<1>4. k \in Nat /\ At(a, a.pc, k, g.label_base, bottom, lb)
    <2>. HIDE DEF A, k
    <2>1. QED BY <1>1, <1>2, <1>3, MeetsAt
<1>5. Len(o) = bottom + k
    <2>1. Len(o) = no + Expected(a) BY DEF a
    <2>2. QED BY <1>1, <1>2, <2>1
<1>. HIDE DEF k
<1>6. QED BY <1>1, <1>4, <1>5 DEF OnTheStack, a, g, bottom

LEMMA ResumeRegs ==
    ASSUME NEW cs, IsCalls(cs), Answers(cs), Len(cs) >= 1, ~OnStack(cs[Len(cs)]),
           NEW fr, Any(fr), NEW lb, Any(lb), NEW o, Waiting(cs, Len(cs), Len(fr), Len(lb), Len(o), fr, lb),
           NEW rs, Any(rs), Len(rs) = Expected(cs[Len(cs)]), NEW ds, ds = RegsSet(cs, cs[Len(cs)].regs \o rs)
    PROVE  Answers(ds) /\ InRegs(ds, o, fr, lb)
<1>. DEFINE n == Len(cs)
            a == cs[n]
            f == Funcs[a.fn]
            t == a.regs \o rs
<1>1. n \in Nat \ {0} BY CallsLen
<1>2. \E f0, l0, o0 \in Nat :
          /\ f0 <= Len(fr) /\ l0 <= Len(lb)
          /\ Waiting(cs, n - 1, f0, l0, o0, fr, lb)
          /\ Layer(a, n, f0, Len(fr), l0, Len(lb), o0, Len(o), fr, lb)
    BY <1>1, WaitingPop
<1>3. PICK f0 \in Nat, l0 \in Nat, o0 \in Nat :
          /\ Waiting(cs, n - 1, f0, l0, o0, fr, lb)
          /\ Layer(a, n, f0, Len(fr), l0, Len(lb), o0, Len(o), fr, lb)
    BY <1>2
<1>4. Waits(a) /\ f.reg /\ Any(a.regs) /\ Len(a.regs) = Fixed(f) + Left(a)
      /\ f0 = Len(fr) /\ l0 = Len(lb) /\ o0 = Len(o)
    BY <1>3 DEF Layer
<1>5. Waiting(cs, n - 1, Len(fr), Len(lb), Len(o), fr, lb) BY <1>3, <1>4
<1>6. Any(t) /\ Len(t) = Len(a.regs) + Len(rs) BY <1>4, AnyCat
<1>. HIDE DEF t
<1>7. /\ Len(ds) = n /\ (\A k \in 1 .. n - 1 : ds[k] = cs[k])
      /\ ds[n].regs = t /\ ds[n].how = a.how /\ ds[n].tier = a.tier /\ ds[n].fn = a.fn /\ ds[n].pc = a.pc
    <2>1. ds = RegsSet(cs, t) BY DEF t
    <2>2. QED BY <2>1, RegsFields
<1>8. Answers(ds) BY <1>1, <1>7, AnswersSame
<1>9. Waiting(ds, n - 1, Len(fr), Len(lb), Len(o), fr, lb)
    <2>1. n - 1 \in Nat BY <1>1
    <2>2. QED BY <1>5, <1>7, <2>1, WaitingSame
<1>10. a.fn \in DOMAIN Funcs BY <1>4 DEF Waits
<1>11. Left(a) \in Nat /\ Expected(a) \in Nat /\ Fixed(f) \in Nat
       /\ Meets(f, a.pc, Around(f.code, Site(a)), Left(a) + Expected(a))
    BY <1>4, WaitsIs
<1>12. a.pc \in Live(f.code) /\ HeightAt(f, a.pc) = Left(a) + Expected(a) BY <1>11 DEF Meets
<1>13. Len(t) = Fixed(f) + HeightAt(f, a.pc)
    <2>. DEFINE fx == Fixed(f)
                e == Left(a)
                w == Expected(a)
    <2>1. Len(t) = (fx + e) + w /\ fx \in Nat /\ e \in Nat /\ w \in Nat BY <1>4, <1>6, <1>11
    <2>2. HeightAt(f, a.pc) = e + w BY <1>12
    <2>. HIDE DEF fx, e, w
    <2>3. Len(t) = fx + (e + w) BY <2>1
    <2>4. QED BY <2>2, <2>3 DEF fx
<1>14. InRegs(ds, o, fr, lb)
    <2>1. ~OnStack(ds[n]) BY <1>7 DEF OnStack
    <2>2. QED BY <1>4, <1>6, <1>7, <1>9, <1>10, <1>12, <1>13, <2>1 DEF InRegs
<1>15. QED BY <1>8, <1>14

LEMMA NoActs == ASSUME acts' = <<>> PROVE Lost'
BY DEF Lost

\* The caller, if there is one.
LEMMA EmptyOrNot == ASSUME NEW cs, IsCalls(cs) PROVE cs = <<>> \/ (Len(cs) >= 1 /\ Len(cs) \in Nat \ {0})
<1>1. Len(cs) \in Nat /\ (cs # <<>> => Len(cs) >= 1) BY CallsLen
<1>2. QED BY <1>1

LEMMA doCallDirectReturnGood ==
    ASSUME OnStackGood, NEW rs, Any(rs), Len(rs) = Funcs[top.fn].results, doCallDirectReturn(rs),
           top.how # "callFunction", frame.start <= Len(op), exns' = exns
    PROVE  Lost' \/ Good'
<1>. DEFINE cs == Callers
            fr == Prefix(frames, Len(frames) - 1)
            lb == Prefix(labels, frame.label_base)
            o == Prefix(op, frame.start) \o rs
<1>1. Stacks /\ (\A j \in 1 .. Len(exns) : Thrown(exns[j])) /\ Answers(acts) /\ Owns(acts, frames, labels)
      /\ Len(op) \in Nat /\ frame.start \in Nat /\ top.fn \in DOMAIN Funcs /\ CallsInv /\ err = "none"
    BY OnStackIs DEF OnStackGood
<1>2. acts' = cs /\ frames' = fr /\ labels' = lb /\ op' = o /\ err' = "none"
    BY <1>1 DEF doCallDirectReturn, Unwound
<1>3. IsCalls(cs) /\ Answers(cs) /\ (Len(cs) >= 1 => Pair(cs[Len(cs)], top))
      /\ Any(fr) /\ Any(lb) /\ Waiting(cs, Len(cs), Len(fr), Len(lb), frame.start, fr, lb)
    BY <1>1, Popped
<1>4. Any(o) /\ Len(o) = frame.start + Funcs[top.fn].results
    <2>. DEFINE p == Prefix(op, frame.start)
    <2>1. frame.start \in 0 .. Len(op) BY <1>1
    <2>2. Any(p) /\ Len(p) = frame.start BY <1>1, <2>1, AnyPrefix DEF Stacks
    <2>. HIDE DEF p
    <2>3. Any(p \o rs) /\ Len(p \o rs) = frame.start + Funcs[top.fn].results BY <2>2, AnyCat
    <2>4. QED BY <2>3 DEF p
<1>. HIDE DEF cs, fr, lb, o
<1>5. CASE cs = <<>> BY <1>2, <1>5, NoActs
<1>6. CASE Len(cs) >= 1
    <2>1. Expected(cs[Len(cs)]) = Funcs[top.fn].results /\ OnStack(cs[Len(cs)])
        BY <1>3, <1>6 DEF Pair, OnStack
    <2>2. OnTheStack(cs, o, fr, lb) BY <1>3, <1>4, <1>6, <2>1, ResumeStack
    <2>3. Good' BY <1>1, <1>2, <1>3, <1>4, <2>2 DEF Good, Stacks
    <2>4. QED BY <2>3
<1>7. QED BY <1>3, <1>5, <1>6, EmptyOrNot

LEMMA ReturnGood ==
    ASSUME CallsInv, Good, Return
    PROVE  Lost' \/ Good'
<1>. DEFINE f == Funcs[top.fn]
            rs == LastOf(op, frame.arity)
<1>1. OnStackGood BY DEF Return, OnOwnFrame, Running, OnStackGood
<1>2. Any(op) /\ Len(op) \in Nat /\ Bottom \in Nat /\ top.fn \in DOMAIN Funcs /\ frame.arity = f.results
      /\ frame.start \in Nat /\ frame.label_base \in Nat
    BY <1>1, OnStackIs DEF Stacks, Framed
<1>3. f.results \in Nat /\ Fixed(f) \in Nat BY <1>2, FuncIs
<1>4. Len(op) >= Bottom + f.results
    <2>1. CASE AtEnd
        <3>1. PICK n \in Nat : Len(op) = Bottom + n /\ At(top, top.pc, n, frame.label_base, Bottom, labels)
            BY <1>1, OnStackIs
        <3>2. top.pc \notin Live(f.code)
            <4>1. top.pc > Len(f.code) BY <2>1 DEF AtEnd, code
            <4>2. \A i \in Live(f.code) : i \in 1 .. Len(f.code) /\ Len(f.code) \in Nat BY <1>2, FuncIs
            <4>3. QED BY <4>1, <4>2
        <3>3. n = f.results BY <3>1, <3>2 DEF At
        <3>4. QED BY <1>2, <1>3, <3>1, <3>3
    <2>2. CASE ~AtEnd
        <3>1. /\ ValidAt(f, top.pc) /\ Len(op) = Bottom + HeightAt(f, top.pc)
              /\ Len(labels) = frame.label_base + 1 + Cardinality(Around(code, top.pc))
              /\ Cardinality(Around(code, top.pc)) \in Nat /\ HeightAt(f, top.pc) \in Nat
            BY <1>1, <2>2, Executing
        <3>2. ~LeavesFunction BY <1>2, <3>1 DEF LeavesFunction
        <3>3. instr.op = "return" BY <2>2, <3>2 DEF Return
        <3>4. f.code[top.pc].op = "return" BY <3>3 DEF instr, code
        <3>5. HeightAt(f, top.pc) >= f.results BY <3>1, <3>4 DEF ValidAt
        <3>. DEFINE h == HeightAt(f, top.pc)
        <3>6. Len(op) = Bottom + h /\ h \in Nat /\ h >= f.results BY <3>1, <3>5
        <3>. HIDE DEF h
        <3>7. QED BY <1>2, <1>3, <3>6
    <2>3. QED BY <2>1, <2>2
<1>5. f.results \in 0 .. Len(op) BY <1>2, <1>3, <1>4
<1>6. Any(rs) /\ Len(rs) = f.results BY <1>2, <1>5, AnyLast
<1>7. frame.start <= Len(op)
    <2>1. Bottom = frame.start + Fixed(f) BY DEF Bottom
    <2>2. QED BY <1>2, <1>3, <1>4, <2>1
<1>8. exns' = exns BY DEF Return
<1>9. CASE top.how = "callFunction"
    <2>1. callFunctionReturn(rs) BY <1>9 DEF Return
    <2>2. CASE Callers = <<>>
        <3>1. Len(Callers) = 0 BY <2>2, NoCalls
        <3>2. acts' = <<>> BY <2>1, <2>2, <3>1 DEF callFunctionReturn, Deliver
        <3>3. QED BY <3>2, NoActs
    <2>3. CASE Callers # <<>>
        <3>1. leaked' BY <2>1, <2>3 DEF callFunctionReturn
        <3>2. QED BY <3>1 DEF Lost
    <2>4. QED BY <2>2, <2>3
<1>10. CASE top.how # "callFunction"
    <2>1. doCallDirectReturn(rs) BY <1>10 DEF Return
    <2>. HIDE DEF rs
    <2>2. QED BY <1>1, <1>6, <1>7, <1>8, <1>10, <2>1, doCallDirectReturnGood
<1>11. QED BY <1>9, <1>10

LEMMA ReturnFromRegistersGood ==
    ASSUME CallsInv, Good, ReturnFromRegisters
    PROVE  Lost' \/ Good'
<1>. DEFINE f == Funcs[top.fn]
            rs == LastOf(top.regs, f.results)
            cs == Callers
            n == Len(cs)
<1>1. InRegsGood BY DEF ReturnFromRegisters, InRegisters, Running, InRegsGood
<1>2. /\ Stacks /\ (\A j \in 1 .. Len(exns) : Thrown(exns[j])) /\ Answers(acts) /\ IsCalls(acts)
      /\ Len(acts) \in Nat /\ Len(acts) >= 1 /\ top.fn \in DOMAIN Funcs /\ Any(top.regs)
      /\ top.pc \in Live(code) \cup {Len(code) + 1} /\ Len(top.regs) = Fixed(f) + HeightAt(f, top.pc)
      /\ Waiting(acts, Len(acts) - 1, Len(frames), Len(labels), Len(op), frames, labels)
      /\ Any(op) /\ Any(frames) /\ Any(labels) /\ Any(exns)
    BY <1>1, InRegsIs DEF Stacks
<1>3. f.results \in Nat /\ Fixed(f) \in Nat BY <1>2, FuncIs
<1>4. HeightAt(f, top.pc) = f.results
    <2>1. top.pc > Len(f.code) /\ code = f.code BY DEF ReturnFromRegisters, AtEnd, code
    <2>2. \A i \in Live(f.code) : i \in 1 .. Len(f.code) /\ Len(f.code) \in Nat BY <1>2, FuncIs
    <2>3. top.pc = Len(f.code) + 1 BY <1>2, <2>1, <2>2
    <2>4. QED BY <1>2, <2>3, FuncIs
<1>5. f.results \in 0 .. Len(top.regs) BY <1>2, <1>3, <1>4
<1>6. Any(rs) /\ Len(rs) = f.results BY <1>2, <1>5, AnyLast
<1>7. Deliver(cs, op, rs) /\ frames' = frames /\ labels' = labels /\ exns' = exns BY DEF ReturnFromRegisters
<1>8. IsCalls(cs) /\ Answers(cs) /\ n = Len(acts) - 1 /\ n \in Nat /\ (\A k \in 1 .. n : cs[k] = acts[k])
      /\ (n >= 1 => Pair(cs[n], top))
    BY <1>2, AnswersPop DEF Callers, top
<1>. HIDE DEF cs, rs
<1>9. Waiting(cs, n, Len(frames), Len(labels), Len(op), frames, labels) BY <1>2, <1>8, WaitingSame
<1>10. CASE cs = <<>>
    <2>1. n = 0 BY <1>10, NoCalls
    <2>2. acts' = <<>> BY <1>7, <1>10, <2>1 DEF Deliver
    <2>3. QED BY <2>2, NoActs
<1>11. CASE n >= 1 /\ err' # "none"
    <2>1. err' = "operands" BY <1>7, <1>11 DEF Deliver
    <2>2. QED BY <2>1 DEF Lost
<1>12. CASE n >= 1 /\ err' = "none" /\ OnStack(cs[n])
    <2>. DEFINE o == op \o rs
    <2>1. acts' = cs /\ op' = o BY <1>7, <1>8, <1>12 DEF Deliver
    <2>2. Any(o) /\ Len(o) = Len(op) + f.results BY <1>2, <1>6, AnyCat
    <2>3. Expected(cs[n]) = f.results BY <1>8, <1>12 DEF Pair
    <2>. HIDE DEF o
    <2>4. OnTheStack(cs, o, frames, labels) BY <1>2, <1>8, <1>9, <1>12, <2>2, <2>3, ResumeStack
    <2>5. Good' BY <1>2, <1>7, <1>8, <1>12, <2>1, <2>2, <2>4 DEF Good, Stacks
    <2>6. QED BY <2>5
<1>13. CASE n >= 1 /\ err' = "none" /\ ~OnStack(cs[n])
    <2>1. acts' = RegsSet(cs, cs[n].regs \o rs) /\ op' = op BY <1>7, <1>8, <1>13 DEF Deliver, RegsSet
    <2>2. Len(rs) = Expected(cs[n]) BY <1>6, <1>8, <1>13 DEF Pair
    <2>3. Answers(acts') /\ InRegs(acts', op, frames, labels)
        BY <1>2, <1>6, <1>8, <1>9, <1>13, <2>1, <2>2, ResumeRegs
    <2>4. Good' BY <1>2, <1>7, <1>13, <2>1, <2>3 DEF Good, Stacks
    <2>5. QED BY <2>4
<1>14. QED BY <1>8, <1>10, <1>11, <1>12, <1>13, EmptyOrNot

LEMMA ReturnCallGood ==
    ASSUME CallsInv, Good, ReturnCall
    PROVE  Lost' \/ Good'
<1>. DEFINE f == Funcs[top.fn]
            fn == instr.fn
            ps == Funcs[fn].params
            cs == Callers
            o == Prefix(op, frame.start) \o LastOf(op, ps)
            fr == Prefix(frames, Len(frames) - 1)
            lb == Prefix(labels, frame.label_base)
<1>1. Executes("return_call") BY DEF ReturnCall
<1>2. OnStack(top)
    <2>1. CASE ~OnStack(top)
        <3>1. InRegsGood /\ ~AtEnd /\ instr.op = "return_call" BY <1>1, <2>1, ExecutesInRegs
        <3>2. QED BY <3>1, ExecutingRegs
    <2>2. QED BY <2>1
<1>3. OnStackGood /\ ~AtEnd /\ instr = code[top.pc] /\ instr.op = "return_call" /\ code = f.code
    BY <1>1, <1>2, ExecutesOnStack
<1>4. Stacks /\ (\A j \in 1 .. Len(exns) : Thrown(exns[j])) /\ Answers(acts) /\ Owns(acts, frames, labels)
      /\ Len(op) \in Nat /\ frame.start \in Nat /\ Bottom \in Nat /\ top.fn \in DOMAIN Funcs
    BY <1>3, OnStackIs
<1>5. ValidAt(f, top.pc) /\ HeightAt(f, top.pc) \in Nat /\ Len(op) = Bottom + HeightAt(f, top.pc) BY <1>3, Executing
<1>6. fn \in DOMAIN Funcs /\ Funcs[fn].results = f.results /\ ps \in 0 .. HeightAt(f, top.pc)
    BY <1>3, <1>5, Zenon DEF ValidAt, Consumes
<1>7. ps \in Nat /\ frame.start + ps <= Len(op)
    <2>. DEFINE h == HeightAt(f, top.pc)
                fx == Fixed(f)
    <2>1. fx \in Nat /\ Bottom = frame.start + fx /\ Len(op) = Bottom + h /\ h \in Nat /\ ps \in 0 .. h
        BY <1>4, <1>5, <1>6, FuncIs DEF Bottom
    <2>. HIDE DEF h, fx, ps
    <2>2. QED BY <1>4, <2>1
<1>8. Any(o) /\ Len(o) = frame.start + ps BY <1>4, <1>7, CarryLen DEF Stacks
<1>9. IsCalls(cs) /\ Answers(cs) /\ (Len(cs) >= 1 => Pair(cs[Len(cs)], top))
      /\ Any(fr) /\ Any(lb) /\ Waiting(cs, Len(cs), Len(fr), Len(lb), frame.start, fr, lb)
    BY <1>4, Popped
<1>10. Stored BY <1>4 DEF ReturnCall, Stacks, Stored
<1>11. WaitsFor(cs, fn, top.how) BY <1>6, <1>9 DEF WaitsFor, Pair
<1>12. \/ /\ top.how = "callFunction"
          /\ \E tier \in {"byte", StackTier(fn)} :
                 EnterStack(cs, "callFunction", tier, fn, o, fr, lb, bt)
       \/ top.how = "doCallDirect" /\ doCallDirect(cs, fn, o, fr, lb, top.saved)
       \/ top.how = "doCallDirectIR" /\ doCallDirectIR(cs, fn, o, fr, lb, top.saved)
    BY DEF ReturnCall
<1>. HIDE DEF cs, o, fr, lb, ps
<1>13. Len(o) >= ps /\ Len(o) - ps = frame.start BY <1>4, <1>7, <1>8
<1>14. Waiting(cs, Len(cs), Len(fr), Len(lb), Len(o) - Funcs[fn].params, fr, lb) /\ Len(o) >= Funcs[fn].params
    BY <1>9, <1>13 DEF ps
<1>15. StackTier(fn) # "reg" BY StackTierIs
<1>16. ASSUME NEW how, NEW tier, how = top.how, tier # "reg", NEW b, EnterStack(cs, how, tier, fn, o, fr, lb, b)
       PROVE  Lost' \/ Good'
    BY <1>6, <1>8, <1>9, <1>10, <1>11, <1>14, <1>16, EntersStack
<1>17. CASE /\ top.how = "callFunction"
            /\ \E tier \in {"byte", StackTier(fn)} :
                 EnterStack(cs, "callFunction", tier, fn, o, fr, lb, bt)
    <2>1. PICK tier \in {"byte", StackTier(fn)} : EnterStack(cs, "callFunction", tier, fn, o, fr, lb, bt) BY <1>17
    <2>2. tier # "reg" BY <1>15
    <2>3. QED BY <1>16, <1>17, <2>1, <2>2
<1>18. CASE top.how = "doCallDirect" /\ doCallDirect(cs, fn, o, fr, lb, top.saved)
    <2>1. EnterStack(cs, "doCallDirect", "byte", fn, o, fr, lb, top.saved) BY <1>18 DEF doCallDirect
    <2>2. QED BY <1>16, <1>18, <2>1
<1>19. CASE top.how = "doCallDirectIR" /\ doCallDirectIR(cs, fn, o, fr, lb, top.saved)
    BY <1>6, <1>8, <1>9, <1>10, <1>11, <1>14, <1>19, doCallDirectIRGood
<1>20. QED BY <1>12, <1>17, <1>18, <1>19

-----------------------------------------------------------------------------
\* Exceptions.  Each rank belongs to a construct.
LEMMA RankOnto ==
    ASSUME NEW A, IsFiniteSet(A), A \subseteq Nat, NEW r \in 1 .. Cardinality(A)
    PROVE  \E o \in A : Rank(A, o) = r
<1>. DEFINE c == Cardinality(A)
            R == [o \in A |-> Rank(A, o)]
<1>1. c \in Nat BY FS_CardinalityType
<1>2. \A o \in A : Rank(A, o) \in 1 .. c BY RankIs
<1>3. R \in [A -> 1 .. c] BY <1>2
<1>4. ASSUME NEW a \in A, NEW b \in A, a < b PROVE Rank(A, a) # Rank(A, b)
    <2>. DEFINE S == {k \in A : k <= a}
                T == {k \in A : k <= b}
    <2>1. IsFiniteSet(S) /\ IsFiniteSet(T) BY FS_Subset
    <2>2. b \in T /\ b \notin S /\ S \subseteq T
        <3>1. a \in Nat /\ b \in Nat /\ \A k \in A : k \in Nat OBVIOUS
        <3>2. b <= b /\ ~(b <= a) /\ \A k \in A : k <= a => k <= b BY <1>4, <3>1
        <3>3. QED BY <3>2
    <2>. HIDE DEF S, T
    <2>3. Cardinality(S) # Cardinality(T)
        <3>1. Cardinality(T) = Cardinality(S) => T = S BY <2>1, <2>2, FS_Subset
        <3>2. QED BY <2>2, <3>1
    <2>4. QED BY <2>3 DEF S, T, Rank
<1>5. \A a, b \in A : R[a] = R[b] => a = b
    <2>1. TAKE a, b \in A
    <2>2. a \in Nat /\ b \in Nat OBVIOUS
    <2>3. a = b \/ a < b \/ b < a BY <2>2
    <2>4. R[a] = Rank(A, a) /\ R[b] = Rank(A, b) OBVIOUS
    <2>. HIDE DEF R
    <2>5. QED BY <1>4, <2>3, <2>4
<1>6. R \in Injection(A, 1 .. c) BY <1>3, <1>5 DEF Injection, IsInjective
<1>7. IsFiniteSet(1 .. c) /\ Cardinality(1 .. c) = c
    <2>1. IsFiniteSet(1 .. c) /\ Cardinality(1 .. c) = IF 1 > c THEN 0 ELSE c - 1 + 1 BY <1>1, FS_Interval
    <2>2. QED BY <1>1, <2>1
<1>8. R \in Surjection(A, 1 .. c) BY <1>6, <1>7, FS_Injection
<1>9. \E o \in A : R[o] = r BY <1>8 DEF Surjection
<1>10. QED BY <1>9

LEMMA LeastOne ==
    ASSUME NEW S, S \subseteq Nat, S # {}
    PROVE  \E x \in S : \A y \in S : x <= y
<1>1. PICK x \in S : \A y \in S : ~(<<y, x>> \in OpToRel(<, Nat)) BY NatLessThanWellFounded, WFMin, Zenon
<1>2. \A y \in S : x <= y
    <2>1. TAKE y \in S
    <2>2. x \in Nat /\ y \in Nat OBVIOUS
    <2>3. ~(y < x) BY <1>1, <2>2 DEF OpToRel
    <2>4. QED BY <2>2, <2>3
<1>3. QED BY <1>2

\* Of the clauses that match one is the first.
LEMMA FirstMatchIs ==
    ASSUME NEW ms, ms # {}, NEW top1 \in Nat, \A m \in ms : m[1] \in 0 .. top1 /\ m[2] \in Nat
    PROVE  FirstMatch(ms) \in ms
<1>. DEFINE D == {top1 - m[1] : m \in ms}
<1>1. D \subseteq Nat /\ D # {}
    <2>1. \A m \in ms : top1 - m[1] \in Nat OBVIOUS
    <2>2. QED BY <2>1
<1>2. PICK d \in D : \A e \in D : d <= e
    <2>. HIDE DEF D
    <2>1. QED BY <1>1, LeastOne
<1>3. PICK p \in ms : d = top1 - p[1] OBVIOUS
<1>4. \A k \in ms : k[1] <= p[1]
    <2>1. TAKE k \in ms
    <2>2. top1 - p[1] <= top1 - k[1] BY <1>2, <1>3
    <2>3. k[1] \in Nat /\ p[1] \in Nat OBVIOUS
    <2>4. QED BY <2>2, <2>3
<1>. DEFINE F == {k[2] : k \in {j \in ms : j[1] = p[1]}}
<1>5. F \subseteq Nat /\ F # {} OBVIOUS
<1>6. PICK c \in F : \A e \in F : c <= e
    <2>. HIDE DEF F
    <2>1. QED BY <1>5, LeastOne
<1>7. PICK m \in ms : m[1] = p[1] /\ m[2] = c OBVIOUS
<1>8. \A k \in ms : m[1] > k[1] \/ (m[1] = k[1] /\ m[2] <= k[2])
    <2>1. TAKE k \in ms
    <2>2. k[1] \in Nat /\ p[1] \in Nat /\ k[1] <= p[1] BY <1>4
    <2>3. k[1] = p[1] => c <= k[2] BY <1>6
    <2>4. QED BY <1>7, <2>2, <2>3
<1>9. QED BY <1>8 DEF FirstMatch

\* The topmost of the calls cs goes on at pc with new operands and labels.
LEMMA GoesOn ==
    ASSUME NEW cs, IsCalls(cs), Answers(cs), NEW fr, Any(fr), NEW lb, Any(lb), Owns(cs, fr, lb),
           NEW pc, acts' = PcSet(cs, pc), frames' = fr, Stored, err' = "none", Any(op'), Any(labels'),
           \A j \in 1 .. fr[Len(fr)].label_base : labels'[j] = lb[j],
           NEW bottom, bottom = fr[Len(fr)].start + Fixed(Funcs[cs[Len(cs)].fn]), NEW n \in Nat,
           Len(op') = bottom + n, At(cs[Len(cs)], pc, n, fr[Len(fr)].label_base, bottom, labels')
    PROVE  Good'
<1>. DEFINE k == Len(cs)
            a == acts'[Len(acts')]
            b == cs[k]
            m == Len(fr)
            g == fr[m]
            f == Funcs[b.fn]
<1>1. /\ k \in Nat /\ k >= 1 /\ b.fn \in DOMAIN Funcs /\ OnStack(b) /\ m \in Nat /\ m >= 1 /\ Len(lb) \in Nat
      /\ g.start \in Nat /\ g.label_base \in Nat /\ g.label_base <= Len(lb)
      /\ Framed(b, k, g, g.start, g.label_base) /\ Waiting(cs, k - 1, m - 1, g.label_base, g.start, fr, lb)
    BY CallsLen, AnyLen DEF Owns
<1>2. /\ IsCalls(acts') /\ Len(acts') = k /\ (\A j \in 1 .. k - 1 : acts'[j] = cs[j])
      /\ a.pc = pc /\ a.how = b.how /\ a.tier = b.tier /\ a.fn = b.fn /\ a.base = b.base
    BY <1>1, PcFields
<1>3. Answers(acts') BY <1>1, <1>2, AnswersSame
<1>4. Waiting(acts', k - 1, m - 1, g.label_base, g.start, fr, labels')
    <2>1. k - 1 \in Nat BY <1>1
    <2>2. \A j \in 1 .. k - 1 : acts'[j] = cs[j] BY <1>2
    <2>3. Waiting(cs, k - 1, m - 1, g.label_base, g.start, fr, lb) BY <1>1
    <2>4. \A j \in 1 .. m - 1 : fr[j] = fr[j] OBVIOUS
    <2>5. QED BY <2>1, <2>2, <2>3, <2>4, WaitingSame
<1>5. g.label_base <= Len(labels')
    <2>1. CASE Len(labels') = g.label_base BY <1>1, <2>1
    <2>2. CASE pc \in Live(f.code) /\ Len(labels') = g.label_base + 1 + Cardinality(Around(f.code, pc))
        <3>1. pc \in 1 .. Len(f.code) /\ Len(f.code) \in Nat BY <1>1, <2>2, FuncIs
        <3>2. Cardinality(Around(f.code, pc)) \in Nat BY <3>1, AroundIs
        <3>3. QED BY <1>1, <2>2, <3>2
    <2>3. QED BY <2>1, <2>2 DEF At
<1>6. OnStack(a) BY <1>1, <1>2 DEF OnStack
<1>7. Framed(a, k, g, g.start, g.label_base) BY <1>1, <1>2 DEF Framed
<1>8. Owns(acts', fr, labels') BY <1>1, <1>2, <1>4, <1>5, <1>6, <1>7 DEF Owns
<1>9. At(a, pc, n, g.label_base, bottom, labels') BY <1>2, Zenon DEF At, Labelled
<1>10. OnTheStack(acts', op', fr, labels') BY <1>2, <1>8, <1>9 DEF OnTheStack
<1>11. QED BY <1>3, <1>10 DEF Good, Stacks, Stored

\* The clause catches x.
Catchable(clause, x) == clause.kind \in {"catch", "catch_ref"} => clause.tag = x.tag

\* The clause m[2] of the try_table at t, whose label is m[1], matches x.
Matched(f, A, lo, lb, m, x, t) ==
    LET catches == f.code[t].catches
        clause == catches[m[2]]
    IN  /\ m[1] = lo + 1 + Rank(A, t) /\ lb[m[1]].catches = catches
        /\ f.code[t].op = "try_table" /\ m[2] \in DOMAIN catches
        /\ Catchable(clause, x)

\* A clause that matches belongs to a try_table around the instruction.
LEMMA MatchIs ==
    ASSUME NEW a, NEW A, IsFiniteSet(A), A \subseteq Nat, NEW lo \in Nat, NEW bottom,
           NEW lb, Len(lb) = lo + 1 + Cardinality(A), Labelled(a, A, lo, bottom, lb),
           NEW g, g.label_base = lo, NEW x, NEW m \in Matches(x, g, lb)
    PROVE  \E t \in A : Matched(Funcs[a.fn], A, lo, lb, m, x, t)
<1>. DEFINE f == Funcs[a.fn]
            c == Cardinality(A)
            s == m[1]
<1>1. PICK u \in lo + 1 .. Len(lb) : \E v \in DOMAIN lb[u].catches : m = <<u, v>> BY DEF Matches
<1>2. PICK v \in DOMAIN lb[u].catches : m = <<u, v>> BY <1>1
<1>3. s = u /\ m[2] = v BY <1>2
<1>4. lb[s].catches[m[2]].kind \in {"catch", "catch_ref"} => lb[s].catches[m[2]].tag = x.tag BY DEF Matches
<1>5. c \in Nat BY FS_CardinalityType
<1>6. s # lo + 1
    <2>1. CASE s = lo + 1
        <3>1. lb[s].catches = <<>> BY <2>1 DEF Labelled, FunctionLabel
        <3>2. DOMAIN <<>> = {} OBVIOUS
        <3>3. QED BY <1>2, <1>3, <3>1, <3>2
    <2>2. QED BY <2>1
<1>7. s - (lo + 1) \in 1 .. c
    <2>1. s \in lo + 1 .. lo + 1 + c BY <1>1, <1>3
    <2>. HIDE DEF s, c
    <2>2. QED BY <1>5, <1>6, <2>1
<1>8. PICK t \in A : Rank(A, t) = s - (lo + 1)
    <2>. DEFINE r == s - (lo + 1)
    <2>1. r \in 1 .. c BY <1>7
    <2>. HIDE DEF r
    <2>2. \E t \in A : Rank(A, t) = r BY <2>1, RankOnto
    <2>3. QED BY <2>2 DEF r
<1>9. s = lo + 1 + Rank(A, t)
    <2>1. s \in lo + 1 .. Len(lb) /\ Len(lb) \in Nat BY <1>1, <1>3, <1>5
    <2>2. s \in Int BY <2>1
    <2>. HIDE DEF s
    <2>3. QED BY <1>8, <2>2
<1>10. lb[s] = LabelFor(f, t, bottom) BY <1>9 DEF Labelled
<1>11. lb[s].catches = IF f.code[t].op = "try_table" THEN f.code[t].catches ELSE <<>> BY <1>10 DEF LabelFor
<1>12. f.code[t].op = "try_table"
    <2>1. DOMAIN <<>> = {} OBVIOUS
    <2>2. DOMAIN lb[s].catches # {} BY <1>2, <1>3
    <2>3. QED BY <1>11, <2>1, <2>2
<1>13. lb[s].catches = f.code[t].catches /\ m[2] \in DOMAIN f.code[t].catches BY <1>2, <1>3, <1>11, <1>12
<1>14. Matched(f, A, lo, lb, m, x, t) BY <1>4, <1>9, <1>12, <1>13 DEF Matched, Catchable
<1>15. QED BY <1>14

\* The label at belongs to the function, or to a construct in A, and n operands
\* are what is wanted there.
Wanted(f, A, lo, at, n) ==
    \/ at = lo + 1 /\ n = f.results
    \/ \E b \in A : at = lo + 1 + Rank(A, b) /\ Arrives(f, A, b) /\ n = Carried(f, b)

\* Where its branch goes, with as many operands as are received.
LEMMA ClauseTarget ==
    ASSUME NEW fn \in DOMAIN Funcs, NEW f, f = Funcs[fn], NEW i \in Live(f.code), NEW A, A = Around(f.code, i),
           NEW t \in A, f.code[t].op = "try_table", NEW k \in DOMAIN f.code[t].catches,
           NEW clause, clause = f.code[t].catches[k], NEW n \in Received(clause), NEW lo \in Nat
    PROVE  Wanted(f, A, lo, (lo + 1 + Rank(A, t)) - 1 - clause.depth, n)
<1>. DEFINE B == {j \in A : j < t}
            d == clause.depth
            r == Rank(A, t)
            c == Cardinality(B)
<1>1. t \in Live(f.code) /\ t \in Nat /\ ValidAt(f, t) /\ Around(f.code, t) = B BY OpenerIs
<1>2. i \in Nat
    <2>1. i \in 1 .. Len(f.code) /\ Len(f.code) \in Nat BY FuncIs
    <2>2. QED BY <2>1
<1>3. A \subseteq Nat /\ IsFiniteSet(A) BY <1>2, AroundIs
<1>4. r \in Nat /\ c = r - 1
    <2>1. r \in 1 .. Cardinality(A) /\ Cardinality(A) \in Nat /\ c = r - 1 BY <1>3, RankIs
    <2>. HIDE DEF r, c
    <2>2. QED BY <2>1
<1>5. d \in Nat /\ Catches(f, B, d, n) BY <1>1 DEF ValidAt
<1>6. CASE d = c /\ n = f.results
    <2>. HIDE DEF d, r, c
    <2>1. (lo + 1 + r) - 1 - d = lo + 1 BY <1>4, <1>5, <1>6
    <2>2. QED BY <1>6, <2>1 DEF d, r, Wanted
<1>7. CASE ~(d = c /\ n = f.results)
    <2>1. PICK b \in B : Rank(B, b) = c - d /\ Arrives(f, B, b) /\ n = Carried(f, b) BY <1>5, <1>7 DEF Catches
    <2>2. Rank(B, b) = Rank(A, b) /\ b \in A BY <1>1, <1>3, RankBelow
    <2>. DEFINE q == Rank(A, b)
    <2>3. q = c - d BY <2>1, <2>2
    <2>4. (lo + 1 + r) - 1 - d = lo + 1 + q
        <3>. HIDE DEF d, r, c, q
        <3>1. QED BY <1>4, <1>5, <2>3
    <2>5. b < t /\ b \in Nat BY <1>3
    <2>6. {j \in B : j <= b} = {j \in A : j <= b} /\ {j \in B : j < b} = {j \in A : j < b}
        <3>1. \A j \in A : j \in Nat BY <1>3
        <3>2. \A j \in A : (j <= b => j < t) /\ (j < b => j < t) BY <1>1, <2>5, <3>1
        <3>3. QED BY <3>2
    <2>7. Arrives(f, A, b) BY <2>1, <2>6 DEF Arrives
    <2>8. QED BY <2>1, <2>2, <2>4, <2>7 DEF Wanted
<1>8. QED BY <1>6, <1>7

\* What a handler finds on the operand stack.
LEMMA ReceivedIs ==
    ASSUME NEW x, Thrown(x), NEW clause, Catchable(clause, x), NEW ref,
           NEW payload, payload = (IF clause.kind \in {"catch", "catch_ref"} THEN x.vals ELSE <<>>),
           NEW refs, refs = (IF clause.kind \in {"catch_ref", "catch_all_ref"} THEN <<ref>> ELSE <<>>)
    PROVE  Any(payload) /\ Any(refs) /\ Len(payload) + Len(refs) \in Received(clause)
<1>1. PICK y \in Throws : x.tag = y.tag /\ Any(x.vals) /\ Len(x.vals) = y.n BY DEF Thrown
<1>. DEFINE r == IF clause.kind \in {"catch_ref", "catch_all_ref"} THEN 1 ELSE 0
<1>2. Any(refs) /\ Len(refs) = r /\ r \in Nat BY AnyOne, AnyEmpty
<1>. HIDE DEF r
<1>3. CASE clause.kind \in {"catch", "catch_ref"}
    <2>1. Any(payload) /\ Len(payload) = y.n BY <1>1, <1>3
    <2>2. y.n + r \in {z.n + r : z \in {w \in Throws : w.tag = clause.tag}} BY <1>1, <1>3 DEF Catchable
    <2>3. QED BY <1>2, <1>3, <2>1, <2>2 DEF Received, r
<1>4. CASE clause.kind \notin {"catch", "catch_ref"}
    <2>1. Any(payload) /\ Len(payload) = 0 BY <1>4, AnyEmpty
    <2>. DEFINE e == Len(payload)
                w == Len(refs)
    <2>2. e + w = r
        <3>1. e = 0 /\ w = r BY <1>2, <2>1
        <3>. HIDE DEF e, w
        <3>2. QED BY <1>2, <3>1
    <2>3. Received(clause) = {r} BY <1>4 DEF Received, r
    <2>4. QED BY <1>2, <2>1, <2>2, <2>3
<1>5. QED BY <1>3, <1>4

\* An exception that is stored, perhaps over an older one.
LEMMA StoreIs ==
    ASSUME NEW x, Thrown(x), Any(exns), \A j \in 1 .. Len(exns) : Thrown(exns[j])
    PROVE  LET s == storeExnref(x).store IN Any(s) /\ \A j \in 1 .. Len(s) : Thrown(s[j])
<1>1. Len(exns) \in Nat BY AnyLen
<1>2. CASE Len(exns) >= MaxExnref
    <2>. DEFINE s == [exns EXCEPT ![1] = x]
    <2>1. storeExnref(x).store = s BY <1>2 DEF storeExnref
    <2>2. 1 \in 1 .. Len(exns) BY <1>1, <1>2, CallsAssumption
    <2>3. Any(s) /\ Len(s) = Len(exns) /\ s[1] = x /\ \A k \in 1 .. Len(exns) : k # 1 => s[k] = exns[k]
        BY <2>2, AnyExcept
    <2>. HIDE DEF s
    <2>4. \A j \in 1 .. Len(s) : Thrown(s[j]) BY <2>3
    <2>5. QED BY <2>1, <2>3, <2>4
<1>3. CASE ~(Len(exns) >= MaxExnref)
    <2>. DEFINE s == Append(exns, x)
    <2>1. storeExnref(x).store = s BY <1>3 DEF storeExnref
    <2>2. Any(s) /\ Len(s) = Len(exns) + 1 /\ s[Len(exns) + 1] = x /\ \A k \in 1 .. Len(exns) : s[k] = exns[k]
        BY AnyAppend
    <2>. HIDE DEF s
    <2>3. ASSUME NEW j \in 1 .. Len(s) PROVE Thrown(s[j])
        <3>1. j \in 1 .. Len(exns) \/ j = Len(exns) + 1 BY <1>1, <2>2
        <3>2. QED BY <2>2, <3>1
    <2>4. QED BY <2>1, <2>2, <2>3
<1>4. QED BY <1>2, <1>3

\* The operands below the label and what is received.
LEMMA CaughtLen ==
    ASSUME NEW o, Any(o), NEW n \in Nat, n <= Len(o), NEW p, Any(p), NEW q, Any(q)
    PROVE  LET s == Prefix(o, n) \o p \o q IN Any(s) /\ Len(s) = n + (Len(p) + Len(q))
<1>. DEFINE b == Prefix(o, n)
            t == b \o p
            s == t \o q
<1>1. Len(o) \in Nat /\ Len(p) \in Nat /\ Len(q) \in Nat BY AnyLen
<1>2. n \in 0 .. Len(o) BY <1>1
<1>3. Any(b) /\ Len(b) = n BY <1>2, AnyPrefix
<1>. HIDE DEF b
<1>4. Any(t) /\ Len(t) = n + Len(p) BY <1>3, AnyCat
<1>. HIDE DEF t
<1>5. Any(s) /\ Len(s) = n + Len(p) + Len(q) BY <1>4, AnyCat
<1>. HIDE DEF s
<1>6. Len(s) = n + (Len(p) + Len(q)) BY <1>1, <1>5
<1>7. QED BY <1>5, <1>6 DEF s, t, b

\* The first clause that matches may be the outermost one; it exists.
LEMMA FirstIs ==
    ASSUME NEW a, a.fn \in DOMAIN Funcs, NEW f, f = Funcs[a.fn], NEW i \in Live(f.code), NEW A, A = Around(f.code, i),
           NEW lo \in Nat, NEW bottom, NEW lb, Len(lb) = lo + 1 + Cardinality(A), Labelled(a, A, lo, bottom, lb),
           NEW g, g.label_base = lo, NEW x, NEW ms, ms = Matches(x, g, lb), ms # {}
    PROVE  FirstMatch(ms) \in ms
<1>1. i \in Nat
    <2>1. i \in 1 .. Len(f.code) /\ Len(f.code) \in Nat BY FuncIs
    <2>2. QED BY <2>1
<1>2. IsFiniteSet(A) /\ A \subseteq Nat /\ Cardinality(A) \in Nat BY <1>1, AroundIs
<1>3. Len(lb) \in Nat BY <1>2
<1>4. ASSUME NEW p \in ms PROVE p[1] \in 0 .. Len(lb) /\ p[2] \in Nat
    <2>1. p \in Matches(x, g, lb) OBVIOUS
    <2>2. PICK t \in A : Matched(f, A, lo, lb, p, x, t) BY <1>2, <2>1, MatchIs
    <2>3. Rank(A, t) \in 1 .. Cardinality(A) BY <1>2, RankIs
    <2>4. p[1] \in 0 .. Len(lb)
        <3>. DEFINE c == Cardinality(A)
                    r == Rank(A, t)
        <3>1. Len(lb) = lo + 1 + c /\ c \in Nat /\ r \in 1 .. c /\ p[1] = lo + 1 + r BY <1>2, <2>2, <2>3 DEF Matched
        <3>. HIDE DEF c, r
        <3>2. QED BY <3>1
    <2>5. ValidAt(f, t) BY OpenerIs
    <2>6. p[2] \in Nat BY <2>2, <2>5 DEF ValidAt, Matched
    <2>7. QED BY <2>4, <2>6
<1>5. QED BY <1>3, <1>4, FirstMatchIs

\* What handleException does when a clause matches.
LEMMA CaughtIs ==
    ASSUME NEW x, NEW cs, Len(cs) \in Nat \ {0}, cs[Len(cs)].tier = "byte", NEW o, NEW fr, NEW lb,
           NEW ms, ms = Matches(x, fr[Len(fr)], lb), handleException(x, cs, o, fr, lb)
    PROVE  /\ ms = {} => /\ err' = "exception" /\ pending' = <<x>> /\ acts' = cs /\ op' = o /\ labels' = lb
                         /\ exns' = exns
           /\ ms # {} /\ err' # "panic" =>
                LET m == FirstMatch(ms)
                    clause == lb[m[1]].catches[m[2]]
                    at == m[1] - 1 - clause.depth
                    l == lb[at]
                IN  /\ err' = "none" /\ acts' = PcSet(cs, l.target)
                    /\ op' = Prefix(o, l.base)
                             \o (IF clause.kind \in {"catch", "catch_ref"} THEN x.vals ELSE <<>>)
                             \o (IF clause.kind \in {"catch_ref", "catch_all_ref"} THEN <<storeExnref(x).ref>> ELSE <<>>)
                    /\ exns' = IF clause.kind \in {"catch_ref", "catch_all_ref"} THEN storeExnref(x).store ELSE exns
                    /\ labels' = Prefix(lb, IF l.loop THEN at ELSE at - 1)
                    /\ restarted' = (restarted \/ (at = fr[Len(fr)].label_base + 1 /\ l.target = 1))
<1>1. Len(cs) > 0 OBVIOUS
<1>2. (IF Len(cs) > 0 /\ cs[Len(cs)].tier = "byte" THEN Matches(x, fr[Len(fr)], lb) ELSE {}) = ms BY <1>1
<1>3. CASE ms = {} BY <1>1, <1>2, <1>3 DEF handleException
<1>4. CASE ms # {} /\ err' # "panic" BY <1>1, <1>2, <1>4, Zenon DEF handleException, PcSet
<1>5. QED BY <1>3, <1>4, Zenon

\* The topmost of the calls cs, with its function, and where its labels and
\* operands start.
TopIs(cs, fr, lb, a, f, lo, bottom) ==
    /\ IsCalls(cs) /\ Answers(cs) /\ Any(fr) /\ Any(lb) /\ Owns(cs, fr, lb)
    /\ a = cs[Len(cs)] /\ f = Funcs[a.fn] /\ lo = fr[Len(fr)].label_base /\ bottom = fr[Len(fr)].start + Fixed(f)

\* Where its labels say that it is: inside the constructs A.
Inside(a, f, i, A, lo, bottom, lb) ==
    /\ i \in Live(f.code) /\ A = Around(f.code, i)
    /\ Len(lb) = lo + 1 + Cardinality(A) /\ Labelled(a, A, lo, bottom, lb)

\* A step that brings it to pc with its operands ending at z.
Lands(cs, fr, pc, z) ==
    frames' = fr /\ Stored /\ err' = "none" /\ acts' = PcSet(cs, pc) /\ Any(op') /\ Len(op') = z

LEMMA TopFacts ==
    ASSUME NEW cs, NEW fr, NEW lb, NEW a, NEW f, NEW lo, NEW bottom, TopIs(cs, fr, lb, a, f, lo, bottom)
    PROVE  /\ IsCalls(cs) /\ Any(lb) /\ a.fn \in DOMAIN Funcs /\ f = Funcs[a.fn] /\ Len(lb) \in Nat
           /\ lo \in Nat /\ lo <= Len(lb) /\ bottom \in Nat /\ f.results \in Nat
<1>1. Any(lb) /\ IsCalls(cs) /\ f = Funcs[a.fn] BY DEF TopIs
<1>2. a.fn \in DOMAIN Funcs /\ lo \in Nat /\ lo <= Len(lb) /\ fr[Len(fr)].start \in Nat BY DEF TopIs, Owns
<1>3. Len(lb) \in Nat BY <1>1, AnyLen
<1>4. f.results \in Nat /\ Fixed(f) \in Nat BY <1>1, <1>2, FuncIs
<1>5. bottom = fr[Len(fr)].start + Fixed(f) BY DEF TopIs
<1>6. bottom \in Nat BY <1>2, <1>4, <1>5
<1>7. QED BY <1>1, <1>2, <1>3, <1>4, <1>6

LEMMA InsideFacts ==
    ASSUME NEW a, a.fn \in DOMAIN Funcs, NEW f, f = Funcs[a.fn], NEW i, NEW A, NEW lo, NEW bottom, NEW lb,
           Inside(a, f, i, A, lo, bottom, lb)
    PROVE  /\ i \in Live(f.code) /\ i \in Nat /\ ValidAt(f, i) /\ A = Around(f.code, i)
           /\ IsFiniteSet(A) /\ A \subseteq Nat /\ Cardinality(A) \in Nat
           /\ Len(lb) = lo + 1 + Cardinality(A) /\ Labelled(a, A, lo, bottom, lb)
<1>1. i \in Live(f.code) /\ A = Around(f.code, i) /\ Len(lb) = lo + 1 + Cardinality(A) /\ Labelled(a, A, lo, bottom, lb)
    BY DEF Inside
<1>2. i \in 1 .. Len(f.code) /\ Len(f.code) \in Nat /\ ValidAt(f, i) BY <1>1, FuncIs
<1>3. i \in Nat BY <1>2
<1>4. IsFiniteSet(A) /\ A \subseteq Nat /\ Cardinality(A) \in Nat BY <1>1, <1>3, AroundIs
<1>5. QED BY <1>1, <1>2, <1>3, <1>4

LEMMA TopGoesOn ==
    ASSUME NEW cs, NEW fr, NEW lb, NEW a, NEW f, NEW lo, NEW bottom, TopIs(cs, fr, lb, a, f, lo, bottom),
           NEW pc, NEW n \in Nat, Lands(cs, fr, pc, bottom + n), Any(labels'),
           \A j \in 1 .. lo : labels'[j] = lb[j], At(a, pc, n, lo, bottom, labels')
    PROVE  Good'
<1>1. IsCalls(cs) /\ Answers(cs) /\ Any(fr) /\ Any(lb) /\ Owns(cs, fr, lb) BY DEF TopIs
<1>2. a = cs[Len(cs)] /\ lo = fr[Len(fr)].label_base /\ bottom = fr[Len(fr)].start + Fixed(Funcs[cs[Len(cs)].fn])
    BY DEF TopIs
<1>3. frames' = fr /\ Stored /\ err' = "none" /\ acts' = PcSet(cs, pc) /\ Any(op') /\ Len(op') = bottom + n
    BY DEF Lands
<1>4. \A j \in 1 .. fr[Len(fr)].label_base : labels'[j] = lb[j] BY <1>2
<1>5. At(cs[Len(cs)], pc, n, fr[Len(fr)].label_base, bottom, labels') BY <1>2
<1>6. QED BY <1>1, <1>2, <1>3, <1>4, <1>5, GoesOn

\* The handler is outside of the function's constructs.
LEMMA CatchLeaves ==
    ASSUME NEW cs, NEW fr, NEW lb, NEW a, NEW f, NEW lo, NEW bottom, TopIs(cs, fr, lb, a, f, lo, bottom),
           NEW l, l = FunctionLabel(a.how, a.tier, f, bottom), Lands(cs, fr, l.target, l.base + f.results),
           labels' = Prefix(lb, IF l.loop THEN lo + 1 ELSE lo), l.target = 1 => restarted'
    PROVE  Lost' \/ Good'
<1>1. Any(lb) /\ lo \in Nat /\ lo <= Len(lb) /\ Len(lb) \in Nat /\ f.results \in Nat /\ f = Funcs[a.fn] BY TopFacts
<1>2. l.base = bottom /\ ~l.loop /\ (l.target = 1 \/ l.target = Len(f.code) + 1) BY DEF FunctionLabel
<1>3. CASE l.target = 1 BY <1>3 DEF Lost
<1>4. CASE l.target = Len(f.code) + 1
    <2>1. lo \in 0 .. Len(lb) BY <1>1
    <2>2. labels' = Prefix(lb, lo) BY <1>2
    <2>3. Any(Prefix(lb, lo)) /\ Len(Prefix(lb, lo)) = lo /\ \A j \in 1 .. lo : Prefix(lb, lo)[j] = lb[j]
        BY <1>1, <2>1, AnyPrefix
    <2>4. Any(labels') /\ Len(labels') = lo /\ \A j \in 1 .. lo : labels'[j] = lb[j] BY <2>2, <2>3
    <2>5. Lands(cs, fr, Len(f.code) + 1, bottom + f.results) BY <1>2, <1>4
    <2>6. At(a, Len(f.code) + 1, f.results, lo, bottom, labels') BY <1>1, <2>4 DEF At
    <2>7. Good' BY <1>1, <2>4, <2>5, <2>6, TopGoesOn
    <2>8. QED BY <2>7
<1>5. QED BY <1>2, <1>3, <1>4

\* The handler is the construct at b, of rank r.
LEMMA CatchArrives ==
    ASSUME NEW cs, NEW fr, NEW lb, NEW a, NEW f, NEW lo, NEW bottom, TopIs(cs, fr, lb, a, f, lo, bottom),
           NEW i, NEW A, Inside(a, f, i, A, lo, bottom, lb),
           NEW b \in A, Arrives(f, A, b), NEW at, at = lo + 1 + Rank(A, b), NEW l, l = LabelFor(f, b, bottom),
           Lands(cs, fr, l.target, l.base + Carried(f, b)), labels' = Prefix(lb, IF l.loop THEN at ELSE at - 1)
    PROVE  Good'
<1>. DEFINE r == Rank(A, b)
            c == Cardinality(A)
            w == Below(f, b)
            n == Carried(f, b)
            loop == f.code[b].op = "loop"
            pc == IF loop THEN b + 1 ELSE EndOf(f.code, b) + 1
            B == IF loop THEN {k \in A : k <= b} ELSE {k \in A : k < b}
            z == IF loop THEN at ELSE at - 1
            e == Cardinality(B)
<1>1. a.fn \in DOMAIN Funcs /\ f = Funcs[a.fn] /\ lo \in Nat /\ Any(lb) /\ Len(lb) \in Nat /\ bottom \in Nat
    BY TopFacts
<1>2. i \in Live(f.code) /\ A = Around(f.code, i) /\ IsFiniteSet(A) /\ A \subseteq Nat /\ c \in Nat
      /\ Len(lb) = lo + 1 + c /\ Labelled(a, A, lo, bottom, lb)
    BY <1>1, InsideFacts
<1>3. b \in Nat /\ w \in Nat /\ n \in Nat BY <1>1, <1>2, OpenerIs
<1>4. r \in 1 .. c /\ Cardinality({k \in A : k < b}) = r - 1 /\ Cardinality({k \in A : k <= b}) = r BY <1>2, RankIs
<1>5. l.base = bottom + w /\ l.loop = loop /\ l.target = pc BY DEF LabelFor
<1>6. labels' = Prefix(lb, z) /\ Lands(cs, fr, pc, bottom + w + n) BY <1>5
<1>7. Meets(f, pc, B, w + n) BY DEF Arrives
<1>8. B = {k \in A : k <= b} \/ B = {k \in A : k < b} OBVIOUS
<1>9. (z = at /\ e = r) \/ (z = at - 1 /\ e = r - 1)
    <2>1. CASE loop BY <1>4, <2>1
    <2>2. CASE ~loop BY <1>4, <2>2
    <2>3. QED BY <2>1, <2>2
<1>. HIDE DEF z, e, B, pc, loop, r, c, w, n
<1>10. z \in 0 .. Len(lb) /\ z >= lo /\ z = lo + 1 + e
    <2>1. at = lo + 1 + r BY DEF r
    <2>2. QED BY <1>1, <1>2, <1>4, <1>9, <2>1
<1>11. Any(labels') /\ Len(labels') = z /\ \A j \in 1 .. z : labels'[j] = lb[j]
    <2>1. Any(Prefix(lb, z)) /\ Len(Prefix(lb, z)) = z /\ \A j \in 1 .. z : Prefix(lb, z)[j] = lb[j]
        BY <1>1, <1>10, AnyPrefix
    <2>2. QED BY <1>6, <2>1
<1>12. (\A j \in lo + 1 .. lo + 1 + e : labels'[j] = lb[j]) /\ \A j \in 1 .. lo : labels'[j] = lb[j]
    <2>1. \A j \in lo + 1 .. z : j \in 1 .. z BY <1>1
    <2>2. \A j \in 1 .. lo : j \in 1 .. z BY <1>1, <1>10
    <2>3. QED BY <1>10, <1>11, <2>1, <2>2
<1>13. Labelled(a, B, lo, bottom, labels') BY <1>1, <1>2, <1>3, <1>8, <1>12, CutLabels DEF e
<1>14. w + n \in Nat /\ At(a, pc, w + n, lo, bottom, labels')
    <2>1. Len(labels') = lo + 1 + Cardinality(B) BY <1>10, <1>11 DEF e
    <2>. DEFINE y == w + n
    <2>2. Meets(f, pc, B, y) BY <1>7
    <2>. HIDE DEF y
    <2>3. y \in Nat /\ At(a, pc, y, lo, bottom, labels') BY <1>1, <1>13, <2>1, <2>2, MeetsAt
    <2>4. QED BY <2>3 DEF y
<1>15. bottom + w + n = bottom + (w + n) BY <1>1, <1>3
<1>16. Lands(cs, fr, pc, bottom + (w + n)) BY <1>6, <1>15
<1>17. QED BY <1>11, <1>12, <1>14, <1>16, TopGoesOn

\* The label m[1] and the clause m[2] that handleException finds first, and
\* the label that the clause branches to.
Chosen(ms, lb, m, clause, at) ==
    m = FirstMatch(ms) /\ clause = lb[m[1]].catches[m[2]] /\ at = m[1] - 1 - clause.depth

\* The clause that catches x, and where its branch goes.
LEMMA ChosenClause ==
    ASSUME NEW a, a.fn \in DOMAIN Funcs, NEW f, f = Funcs[a.fn], NEW i, NEW A, NEW lo \in Nat, NEW bottom, NEW lb,
           Inside(a, f, i, A, lo, bottom, lb), NEW g, g.label_base = lo, NEW x,
           NEW ms, ms = Matches(x, g, lb), ms # {},
           NEW m, NEW clause, NEW at, Chosen(ms, lb, m, clause, at)
    PROVE  Catchable(clause, x) /\ \A n \in Received(clause) : Wanted(f, A, lo, at, n)
<1>1. i \in Live(f.code) /\ A = Around(f.code, i) BY DEF Inside
<1>2. IsFiniteSet(A) /\ A \subseteq Nat BY InsideFacts
<1>3. Len(lb) = lo + 1 + Cardinality(A) /\ Labelled(a, A, lo, bottom, lb) BY DEF Inside
<1>4. m \in ms BY <1>1, <1>3, FirstIs DEF Chosen
<1>5. m \in Matches(x, g, lb) BY <1>4
<1>6. PICK t \in A : Matched(f, A, lo, lb, m, x, t) BY <1>2, <1>3, <1>5, MatchIs
<1>7. /\ m[1] = lo + 1 + Rank(A, t) /\ lb[m[1]].catches = f.code[t].catches
      /\ f.code[t].op = "try_table" /\ m[2] \in DOMAIN f.code[t].catches
      /\ Catchable(f.code[t].catches[m[2]], x)
    BY <1>6 DEF Matched
<1>8. clause = f.code[t].catches[m[2]] BY <1>7 DEF Chosen
<1>9. at = (lo + 1 + Rank(A, t)) - 1 - clause.depth
    <2>1. at = m[1] - 1 - clause.depth BY DEF Chosen
    <2>2. QED BY <1>7, <2>1, Zenon
<1>10. ASSUME NEW n \in Received(clause) PROVE Wanted(f, A, lo, at, n)
    <2>. DEFINE k == m[2]
    <2>0. k \in DOMAIN f.code[t].catches /\ clause = f.code[t].catches[k] BY <1>7, <1>8
    <2>. HIDE DEF k
    <2>1. Wanted(f, A, lo, (lo + 1 + Rank(A, t)) - 1 - clause.depth, n) BY <1>1, <1>7, <2>0, ClauseTarget
    <2>2. QED BY <1>9, <2>1
<1>11. QED BY <1>7, <1>8, <1>10

\* The call catches exceptions.
InBytecode(a) == a.tier = "byte"

\* There are the operands that the instruction at i leaves.
Reaches(o, bottom, f, i) == Len(o) >= bottom + (HeightAt(f, i) - Consumes(f.code[i]))

\* The topmost of the calls cs catches x, or its caller does.  It has thrown x
\* at i, or waits there for the call that has failed.
LEMMA CatchGood ==
    ASSUME NEW cs, NEW fr, NEW lb, NEW a, NEW f, NEW lo, NEW bottom, TopIs(cs, fr, lb, a, f, lo, bottom),
           InBytecode(a), NEW i, NEW A, Inside(a, f, i, A, lo, bottom, lb),
           NEW o, Any(o), Reaches(o, bottom, f, i),
           NEW x, Thrown(x), Any(exns), \A j \in 1 .. Len(exns) : Thrown(exns[j]),
           frames' = fr, handleException(x, cs, o, fr, lb)
    PROVE  Lost' \/ Good'
<1>. DEFINE g == fr[Len(fr)]
            ms == Matches(x, g, lb)
            h == HeightAt(f, i) - Consumes(f.code[i])
<1>1. a.fn \in DOMAIN Funcs /\ f = Funcs[a.fn] /\ lo \in Nat /\ Any(lb) /\ Len(lb) \in Nat /\ bottom \in Nat
      /\ f.results \in Nat /\ IsCalls(cs)
    BY TopFacts
<1>2. i \in Live(f.code) /\ A = Around(f.code, i) /\ IsFiniteSet(A) /\ A \subseteq Nat /\ Cardinality(A) \in Nat
      /\ Len(lb) = lo + 1 + Cardinality(A) /\ Labelled(a, A, lo, bottom, lb) /\ ValidAt(f, i)
    BY <1>1, InsideFacts
<1>3. h \in Nat
    <2>1. HeightAt(f, i) \in Nat /\ Consumes(f.code[i]) \in 0 .. HeightAt(f, i) BY <1>2 DEF ValidAt
    <2>2. QED BY <2>1
<1>8. Len(o) >= bottom + h BY DEF Reaches
<1>. HIDE DEF h
<1>4. Answers(cs) /\ Any(fr) /\ Owns(cs, fr, lb) /\ a = cs[Len(cs)] /\ g.label_base = lo
      /\ bottom = g.start + Fixed(f)
    BY DEF TopIs
<1>5. Len(cs) \in Nat \ {0} /\ g.start \in Nat /\ Fixed(f) \in Nat
    <2>1. Len(cs) \in Nat /\ Len(cs) >= 1 /\ g.start \in Nat BY <1>1, <1>4, CallsLen DEF Owns
    <2>2. QED BY <1>1, <2>1, FuncIs
<1>6. CASE ms = {}
    <2>1. err' = "exception" /\ pending' = <<x>> /\ acts' = cs /\ op' = o /\ labels' = lb /\ exns' = exns
        BY <1>4, <1>5, <1>6, CaughtIs, Zenon DEF InBytecode
    <2>2. g.start <= Len(o)
        <3>1. Len(o) \in Nat BY AnyLen
        <3>. DEFINE s == g.start
                    fx == Fixed(f)
        <3>2. s \in Nat /\ fx \in Nat /\ bottom = s + fx BY <1>4, <1>5
        <3>. HIDE DEF s, fx
        <3>3. s <= Len(o) BY <1>3, <1>8, <3>1, <3>2
        <3>4. QED BY <3>3 DEF s
    <2>3. acts'[Len(acts')].tier = "byte" /\ pending'[1] = x BY <1>4, <2>1 DEF InBytecode
    <2>4. Good' BY <1>1, <1>4, <2>1, <2>2, <2>3 DEF Good, Stacks, top
    <2>5. QED BY <2>4
<1>7. CASE ms # {} /\ err' # "panic"
    <2>. DEFINE m == FirstMatch(ms)
                clause == lb[m[1]].catches[m[2]]
                at == m[1] - 1 - clause.depth
                l == lb[at]
                payload == IF clause.kind \in {"catch", "catch_ref"} THEN x.vals ELSE <<>>
                refs == IF clause.kind \in {"catch_ref", "catch_all_ref"} THEN <<storeExnref(x).ref>> ELSE <<>>
                n == Len(payload) + Len(refs)
    <2>1. /\ err' = "none" /\ acts' = PcSet(cs, l.target) /\ op' = Prefix(o, l.base) \o payload \o refs
          /\ exns' = IF clause.kind \in {"catch_ref", "catch_all_ref"} THEN storeExnref(x).store ELSE exns
          /\ labels' = Prefix(lb, IF l.loop THEN at ELSE at - 1)
          /\ restarted' = (restarted \/ (at = g.label_base + 1 /\ l.target = 1))
        BY <1>4, <1>5, <1>7, CaughtIs, Zenon DEF InBytecode
    <2>2. Stored BY <2>1, StoreIs, Zenon DEF Stored
    <2>3. Catchable(clause, x) /\ \A k \in Received(clause) : Wanted(f, A, lo, at, k)
        <3>1. Chosen(ms, lb, m, clause, at) BY DEF Chosen
        <3>. HIDE DEF m, clause, at
        <3>2. ms = Matches(x, g, lb) OBVIOUS
        <3>. HIDE DEF ms, g
        <3>3. QED BY <1>1, <1>4, <1>7, <3>1, <3>2, ChosenClause
    <2>. HIDE DEF clause
    <2>8. Any(payload) /\ Any(refs) /\ n \in Received(clause) BY <2>3, ReceivedIs
    <2>9. n \in Nat
        <3>. HIDE DEF payload, refs
        <3>1. Len(payload) \in Nat /\ Len(refs) \in Nat BY <2>8, AnyLen
        <3>2. QED BY <3>1
    <2>. HIDE DEF payload, refs, at
    <2>10. \/ at = lo + 1 /\ n = f.results
           \/ \E b \in A : at = lo + 1 + Rank(A, b) /\ Arrives(f, A, b) /\ n = Carried(f, b)
        <3>. HIDE DEF n
        <3>1. QED BY <2>3, <2>8 DEF Wanted
    <2>11. ASSUME l.base \in Nat, l.base <= Len(o) PROVE Lands(cs, fr, l.target, l.base + n)
        <3>. DEFINE u == l.base
        <3>1. u \in Nat /\ u <= Len(o) /\ op' = Prefix(o, u) \o payload \o refs BY <2>1, <2>11
        <3>. HIDE DEF u
        <3>2. Any(op') /\ Len(op') = u + n BY <2>8, <3>1, CaughtLen
        <3>3. acts' = PcSet(cs, l.target) /\ err' = "none" /\ frames' = fr BY <2>1
        <3>4. QED BY <2>2, <3>2, <3>3 DEF Lands, u
    <2>12. Len(o) \in Nat BY AnyLen
    <2>13. CASE at = lo + 1 /\ n = f.results
        <3>1. l = FunctionLabel(a.how, a.tier, f, bottom) BY <1>1, <1>2, <2>13 DEF Labelled
        <3>2. l.base = bottom /\ ~l.loop BY <3>1 DEF FunctionLabel
        <3>. HIDE DEF l, n
        <3>3. l.base \in Nat /\ l.base <= Len(o) BY <1>1, <1>3, <1>8, <2>12, <3>2
        <3>4. Lands(cs, fr, l.target, l.base + f.results) BY <2>11, <2>13, <3>3
        <3>5. labels' = Prefix(lb, IF l.loop THEN lo + 1 ELSE lo)
            <4>1. at - 1 = lo BY <1>1, <2>13
            <4>2. QED BY <2>1, <2>13, <4>1
        <3>6. l.target = 1 => restarted' BY <1>4, <2>1, <2>13
        <3>7. QED BY <3>1, <3>4, <3>5, <3>6, CatchLeaves
    <2>14. ASSUME NEW b \in A, at = lo + 1 + Rank(A, b), Arrives(f, A, b), n = Carried(f, b)
           PROVE  Good'
        <3>1. l = LabelFor(f, b, bottom) BY <1>1, <1>2, <2>14 DEF Labelled
        <3>2. l.base = bottom + Below(f, b) BY <3>1 DEF LabelFor
        <3>. HIDE DEF l, n
        <3>3. l.base \in Nat /\ l.base <= Len(o)
            <4>. DEFINE w == Below(f, b)
            <4>1. w \in Nat /\ w <= h BY <1>1, <1>2, OpenerIs DEF h
            <4>. HIDE DEF w
            <4>2. l.base = bottom + w BY <3>2 DEF w
            <4>3. QED BY <1>1, <1>3, <1>8, <2>12, <4>1, <4>2
        <3>4. Lands(cs, fr, l.target, l.base + Carried(f, b)) BY <2>11, <2>14, <3>3
        <3>5. labels' = Prefix(lb, IF l.loop THEN at ELSE at - 1) BY <2>1
        <3>6. QED BY <2>14, <3>1, <3>4, <3>5, CatchArrives
    <2>15. QED BY <2>10, <2>13, <2>14
<1>9. CASE err' = "panic" BY <1>9 DEF Lost
<1>10. QED BY <1>6, <1>7, <1>9

\* No function can catch x.
LEMMA NotCaught ==
    ASSUME NEW x, NEW cs, IsCalls(cs), Len(cs) >= 1 => ~InBytecode(cs[Len(cs)]), NEW o, NEW fr, NEW lb,
           handleException(x, cs, o, fr, lb)
    PROVE  Lost'
<1>1. Len(cs) \in Nat BY CallsLen
<1>2. ~(Len(cs) > 0 /\ cs[Len(cs)].tier = "byte") BY <1>1 DEF InBytecode
<1>3. err' = "exception" /\ acts' = cs BY <1>2, Zenon DEF handleException
<1>4. cs = <<>> \/ Len(cs) >= 1 BY EmptyOrNot
<1>5. CASE cs = <<>> BY <1>3, <1>5, NoActs
<1>6. CASE Len(cs) >= 1
    <2>1. acts'[Len(acts')].tier # "byte" BY <1>3, <1>6 DEF InBytecode
    <2>2. QED BY <1>3, <2>1 DEF Lost, top
<1>7. QED BY <1>4, <1>5, <1>6

\* The running call, where it is.
LEMMA RunningIs ==
    ASSUME OnStackGood, ~AtEnd, NEW f, f = Funcs[top.fn], NEW A, A = Around(code, top.pc)
    PROVE  /\ TopIs(acts, frames, labels, top, f, frame.label_base, Bottom)
           /\ Inside(top, f, top.pc, A, frame.label_base, Bottom, labels)
<1>1. IsCalls(acts) /\ Answers(acts) /\ Any(frames) /\ Any(labels) /\ Owns(acts, frames, labels)
    BY OnStackIs DEF Stacks
<1>2. TopIs(acts, frames, labels, top, f, frame.label_base, Bottom) BY <1>1 DEF TopIs, top, frame, Bottom
<1>3. code = f.code BY DEF code
<1>4. top.pc \in Live(code) /\ Len(labels) = frame.label_base + 1 + Cardinality(A)
      /\ Labelled(top, A, frame.label_base, Bottom, labels)
    BY Executing
<1>5. QED BY <1>2, <1>3, <1>4 DEF Inside

\* An instruction that throws x, and takes n operands.
LEMMA ThrowsGood ==
    ASSUME OnStackGood, ~AtEnd, NEW n, n = Consumes(instr), NEW x, Thrown(x), frames' = frames,
           handleException(x, acts, Prefix(op, Len(op) - n), frames, labels)
    PROVE  Lost' \/ Good'
<1>1. IsCalls(acts) /\ Any(op) /\ Any(exns) /\ (\A j \in 1 .. Len(exns) : Thrown(exns[j]))
      /\ Len(op) \in Nat /\ Bottom \in Nat
    BY OnStackIs DEF Stacks
<1>2. CASE ~InBytecode(top)
    <2>1. Len(acts) >= 1 => ~InBytecode(acts[Len(acts)]) BY <1>2 DEF top
    <2>2. Lost' BY <1>1, <2>1, NotCaught
    <2>3. QED BY <2>2
<1>3. CASE InBytecode(top)
    <2>. DEFINE f == Funcs[top.fn]
                A == Around(code, top.pc)
                o == Prefix(op, Len(op) - n)
                h == HeightAt(f, top.pc)
    <2>1. ValidAt(f, top.pc) /\ Len(op) = Bottom + h /\ h \in Nat BY Executing
    <2>2. instr = f.code[top.pc] BY DEF instr, code
    <2>3. n \in 0 .. h BY <2>1, <2>2, Zenon DEF ValidAt
    <2>. HIDE DEF h
    <2>4. Len(op) - n \in 0 .. Len(op) /\ Len(op) - n = Bottom + (h - n) BY <1>1, <2>1, <2>3
    <2>5. Any(o) /\ Len(o) = Len(op) - n BY <1>1, <2>4, AnyPrefix
    <2>6. Len(o) \in Nat BY <2>5, AnyLen
    <2>7. Len(o) >= Bottom + (h - n) BY <2>4, <2>5, <2>6
    <2>8. Reaches(o, Bottom, f, top.pc) BY <2>2, <2>7 DEF Reaches, h
    <2>9. TopIs(acts, frames, labels, top, f, frame.label_base, Bottom)
          /\ Inside(top, f, top.pc, A, frame.label_base, Bottom, labels)
        BY RunningIs
    <2>. HIDE DEF f, A, o
    <2>10. handleException(x, acts, o, frames, labels) BY DEF o
    <2>11. QED BY <1>1, <1>3, <2>5, <2>8, <2>9, <2>10, CatchGood
<1>4. QED BY <1>2, <1>3

LEMMA ThrowGood ==
    ASSUME CallsInv, Good, Throw \/ ThrowRef
    PROVE  Lost' \/ Good'
<1>1. PICK w \in {"throw", "throw_ref"} : Executes(w) BY DEF Throw, ThrowRef
<1>2. OnStack(top)
    <2>1. CASE ~OnStack(top)
        <3>1. InRegsGood /\ ~AtEnd /\ instr.op = w BY <1>1, <2>1, ExecutesInRegs
        <3>2. QED BY <3>1, ExecutingRegs
    <2>2. QED BY <2>1
<1>3. OnStackGood /\ ~AtEnd /\ instr = code[top.pc] /\ instr.op = w /\ code = Funcs[top.fn].code
    BY <1>1, <1>2, ExecutesOnStack
<1>4. Any(op) /\ Any(exns) /\ (\A j \in 1 .. Len(exns) : Thrown(exns[j])) /\ Len(op) \in Nat /\ Bottom \in Nat
      /\ top.fn \in DOMAIN Funcs
    BY <1>3, OnStackIs DEF Stacks
<1>5. CASE Throw
    <2>. DEFINE n == instr.n
                x == [tag |-> instr.tag, vals |-> LastOf(op, n)]
    <2>1. instr.op = "throw" BY <1>5 DEF Throw, Executes
    <2>2. Consumes(instr) = n BY <2>1 DEF Consumes
    <2>3. instr \in Throws
        <3>1. top.pc \in 1 .. Len(Funcs[top.fn].code) BY <1>3, Executing
        <3>2. QED BY <1>3, <1>4, <2>1, <3>1 DEF Throws
    <2>4. n \in 0 .. Len(op)
        <3>. DEFINE h == HeightAt(Funcs[top.fn], top.pc)
        <3>1. ValidAt(Funcs[top.fn], top.pc) /\ Len(op) = Bottom + h /\ h \in Nat BY <1>3, Executing
        <3>2. n \in 0 .. h BY <1>3, <2>2, <3>1, Zenon DEF ValidAt
        <3>. HIDE DEF h, n
        <3>3. QED BY <1>4, <3>1, <3>2
    <2>5. Any(LastOf(op, n)) /\ Len(LastOf(op, n)) = n BY <1>4, <2>4, AnyLast
    <2>6. Thrown(x) BY <2>3, <2>5 DEF Thrown
    <2>7. frames' = frames /\ handleException(x, acts, Prefix(op, Len(op) - n), frames, labels) BY <1>5 DEF Throw
    <2>. HIDE DEF x, n
    <2>8. QED BY <1>3, <2>2, <2>6, <2>7, ThrowsGood
<1>6. CASE ThrowRef
    <2>. DEFINE ref == op[Len(op)]
    <2>1. instr.op = "throw_ref" BY <1>6 DEF ThrowRef, Executes
    <2>2. Consumes(instr) = 1 BY <2>1 DEF Consumes
    <2>3. CASE ref \notin DOMAIN exns
        <3>1. err' = "trap" BY <1>6, <2>3 DEF ThrowRef
        <3>2. QED BY <3>1 DEF Lost
    <2>4. CASE ref \in DOMAIN exns
        <3>1. frames' = frames /\ handleException(exns[ref], acts, Prefix(op, Len(op) - 1), frames, labels)
            BY <1>6, <2>4 DEF ThrowRef
        <3>. HIDE DEF ref
        <3>2. DOMAIN exns = 1 .. Len(exns)
            <4>1. PICK S : exns \in Seq(S) BY <1>4 DEF Any
            <4>2. QED BY <4>1
        <3>3. Thrown(exns[ref]) BY <1>4, <2>4, <3>2
        <3>. DEFINE x == exns[ref]
        <3>4. Thrown(x) /\ handleException(x, acts, Prefix(op, Len(op) - 1), frames, labels) BY <3>1, <3>3
        <3>. HIDE DEF x
        <3>5. QED BY <1>3, <2>2, <3>1, <3>4, ThrowsGood
    <2>5. QED BY <2>3, <2>4
<1>7. QED BY <1>5, <1>6

-----------------------------------------------------------------------------
\* Errors.  A function that runs as bytecode has been called by doCallDirect.
LEMMA UnwindNothingLost ==
    ASSUME CallsInv, UnwindNothing
    PROVE  Lost'
<1>1. acts # <<>> /\ err # "none" /\ acts' = Callers /\ err' = err /\ (top.how = "callFunction" \/ top.tier = "reg")
    BY DEF UnwindNothing, Failing, OnStack
<1>2. IsCalls(Callers) /\ (Len(Callers) >= 1 => Follows(Callers[Len(Callers)], top)) BY <1>1, CallersIs
<1>3. CASE Callers = <<>> BY <1>1, <1>3, NoActs
<1>4. CASE Len(Callers) >= 1
    <2>1. Callers[Len(Callers)].tier # "byte" BY <1>1, <1>2, <1>4 DEF Follows
    <2>2. QED BY <1>1, <2>1 DEF Lost, top
<1>5. QED BY <1>2, <1>3, <1>4, EmptyOrNot

LEMMA UnwindCallGood ==
    ASSUME CallsInv, Good, err = "exception", top.tier = "byte", UnwindCall
    PROVE  Lost' \/ Good'
<1>. DEFINE cs == Callers
            fr == Prefix(frames, Len(frames) - 1)
            lb == Prefix(labels, frame.label_base)
            o == Prefix(op, frame.start)
            x == pending[1]
<1>1. Stacks /\ (\A j \in 1 .. Len(exns) : Thrown(exns[j])) /\ Answers(acts) /\ Thrown(x)
      /\ Owns(acts, frames, labels) /\ frame.start <= Len(op)
    BY DEF Good, frame
<1>2. frames' = fr /\ handleException(x, cs, o, fr, lb) BY DEF UnwindCall
<1>3. IsCalls(cs) /\ Answers(cs) /\ Any(fr) /\ Any(lb) /\ Waiting(cs, Len(cs), Len(fr), Len(lb), frame.start, fr, lb)
    BY <1>1, Popped
<1>4. Any(o) /\ Len(o) = frame.start
    <2>1. Any(op) /\ Len(op) \in Nat BY <1>1, AnyLen DEF Stacks
    <2>2. frame.start \in 0 .. Len(op) BY <1>1, <2>1 DEF Owns, frame
    <2>3. QED BY <2>1, <2>2, AnyPrefix
<1>. HIDE DEF cs, fr, lb, o, x
<1>5. CASE Len(cs) >= 1 => ~InBytecode(cs[Len(cs)])
    <2>1. Lost' BY <1>2, <1>3, <1>5, NotCaught
    <2>2. QED BY <2>1
<1>6. CASE Len(cs) >= 1 /\ InBytecode(cs[Len(cs)])
    <2>. DEFINE a == cs[Len(cs)]
                f == Funcs[a.fn]
                g == fr[Len(fr)]
                i == Site(a)
                A == Around(f.code, i)
                lo == g.label_base
                bottom == g.start + Fixed(f)
    <2>1. OnStack(a) BY <1>6 DEF InBytecode, OnStack
    <2>2. Owns(cs, fr, lb) /\ Waits(a) /\ frame.start = bottom + Left(a) /\ bottom \in Nat
          /\ Len(lb) = lo + 1 + Cardinality(A) /\ Labelled(a, A, lo, bottom, lb)
        BY <1>3, <1>6, <2>1, Resumes
    <2>3. i \in Live(f.code) /\ Left(a) \in Nat BY <2>2, WaitsIs DEF Waits
    <2>4. Left(a) = HeightAt(f, i) - Consumes(f.code[i]) BY DEF Left
    <2>5. TopIs(cs, fr, lb, a, f, lo, bottom) BY <1>3, <2>2 DEF TopIs
    <2>6. Inside(a, f, i, A, lo, bottom, lb) BY <2>2, <2>3 DEF Inside
    <2>7. InBytecode(a) BY <1>6
    <2>. HIDE DEF a, f, g, i, A, lo, bottom
    <2>8. Len(o) >= bottom + Left(a) BY <1>4, <2>2, <2>3
    <2>9. Reaches(o, bottom, f, i) BY <2>4, <2>8 DEF Reaches
    <2>10. Any(exns) BY <1>1 DEF Stacks
    <2>11. QED BY <1>1, <1>2, <1>4, <2>5, <2>6, <2>7, <2>9, <2>10, CatchGood
<1>7. QED BY <1>5, <1>6

\* The embedder calls a function.
LEMMA InvokeGood ==
    ASSUME NEW fn \in DOMAIN Funcs, NEW force, Invoke(fn, force)
    PROVE  Lost' \/ Good'
<1>. DEFINE n == Funcs[fn].params
            args == [k \in 1 .. n |-> k]
            e == <<>>
<1>1. n \in Nat BY FuncIs
<1>2. Any(args) /\ Len(args) = n BY <1>1, AnyNumbers
<1>3. callFunction(e, fn, args, force, e, e, e, 0) /\ exns' = e BY DEF Invoke
<1>4. IsCalls(e) /\ Any(e) /\ Len(e) = 0 BY NoCalls, AnyEmpty
<1>. HIDE DEF e, args, n
<1>5. Answers(e) /\ WaitsFor(e, fn, "callFunction") BY <1>4 DEF Answers, WaitsFor
<1>6. Waiting(e, Len(e), Len(e), Len(e), Len(e), e, e) BY <1>4, WaitingNone
<1>7. Stored BY <1>3, <1>4 DEF Stored
<1>8. Len(args) = Funcs[fn].params BY <1>2 DEF n
<1>9. QED BY <1>2, <1>3, <1>4, <1>5, <1>6, <1>7, <1>8, callFunctionGood

\* What is lost stays lost until the embedder calls again.
LEMMA EnteringIsRunning ==
    ASSUME Call \/ Const \/ LocalGet \/ Drop \/ Open \/ If \/ Else \/ End \/ Br \/ BrIfNot
           \/ Return \/ ReturnFromRegisters \/ ReturnCall \/ Throw \/ ThrowRef \/ Trap
    PROVE  acts # <<>> /\ err = "none"
<1>1. CASE \E w : Executes(w) BY <1>1, ExecutesIs
<1>2. CASE Return \/ ReturnFromRegisters BY <1>2 DEF Return, ReturnFromRegisters, OnOwnFrame, InRegisters, Running
<1>3. CASE Call \/ Const \/ LocalGet \/ Drop \/ Open \/ If BY <1>1, <1>3 DEF Call, Const, LocalGet, Drop, Open, If
<1>4. CASE Else \/ End \/ Br \/ BrIfNot \/ ReturnCall \/ Throw \/ ThrowRef \/ Trap
    BY <1>1, <1>4 DEF Else, End, Br, BrIfNot, ReturnCall, Throw, ThrowRef, Trap
<1>5. QED BY <1>2, <1>3, <1>4

LEMMA HandlerKeeps ==
    ASSUME NEW x, NEW cs, NEW o, NEW fr, NEW lb, handleException(x, cs, o, fr, lb)
    PROVE  restarted => restarted'
BY Zenon DEF handleException

LEMMA GhostsStay ==
    ASSUME CallsNext, acts # <<>>
    PROVE  (leaked => leaked') /\ (restarted => restarted')
<1>1. ~\E fn \in DOMAIN Funcs, force \in BOOLEAN : Invoke(fn, force) BY DEF Invoke
<1>2. CASE Call \/ Const \/ LocalGet \/ Drop
    BY <1>2 DEF Call, Const, LocalGet, Drop, Push, ghostVars
<1>3. CASE Open \/ If \/ Else \/ End \/ BrIfNot \/ Trap \/ ReturnCall
    BY <1>3 DEF Open, If, Else, End, BrIfNot, Trap, ReturnCall, StackOnly, ghostVars
<1>4. CASE Br BY <1>4 DEF Br, branchTo
<1>5. CASE Return
    <2>1. restarted' = restarted BY <1>5 DEF Return
    <2>2. leaked => leaked' BY <1>5 DEF Return, callFunctionReturn, doCallDirectReturn
    <2>3. QED BY <2>1, <2>2
<1>6. CASE ReturnFromRegisters BY <1>6 DEF ReturnFromRegisters
<1>7. CASE Throw
    <2>1. leaked' = leaked /\ \E x, o : handleException(x, acts, o, frames, labels) BY <1>7 DEF Throw
    <2>2. QED BY <2>1, HandlerKeeps
<1>8. CASE ThrowRef
    <2>1. leaked' = leaked BY <1>8 DEF ThrowRef
    <2>2. (\E x, o : handleException(x, acts, o, frames, labels)) \/ restarted' = restarted BY <1>8, Zenon DEF ThrowRef
    <2>3. QED BY <2>1, <2>2, HandlerKeeps
<1>9. CASE UnwindNothing BY <1>9 DEF UnwindNothing, ghostVars
<1>10. CASE UnwindCall
    <2>1. leaked' = leaked BY <1>10 DEF UnwindCall
    <2>2. (\E x, cs, o, fr, lb : handleException(x, cs, o, fr, lb)) \/ restarted' = restarted
        BY <1>10, Zenon DEF UnwindCall
    <2>3. QED BY <2>1, <2>2, HandlerKeeps
<1>11. QED BY <1>1, <1>2, <1>3, <1>4, <1>5, <1>6, <1>7, <1>8, <1>9, <1>10 DEF CallsNext

LEMMA UnwindCallLost ==
    ASSUME CallsInv, UnwindCall, err = "exception" => top.tier # "byte"
    PROVE  Lost'
<1>1. acts # <<>> /\ err # "none" BY DEF UnwindCall, Failing
<1>2. CASE err # "exception"
    <2>1. err' = err BY <1>2 DEF UnwindCall
    <2>2. QED BY <1>1, <1>2, <2>1 DEF Lost
<1>3. CASE err = "exception"
    <2>1. IsCalls(Callers) /\ (Len(Callers) >= 1 => Follows(Callers[Len(Callers)], top)) BY <1>1, CallersIs
    <2>2. Len(Callers) >= 1 => ~InBytecode(Callers[Len(Callers)]) BY <1>3, <2>1 DEF Follows, InBytecode
    <2>3. \E x, o, fr, lb : handleException(x, Callers, o, fr, lb) BY <1>3 DEF UnwindCall
    <2>4. QED BY <2>1, <2>2, <2>3, NotCaught
<1>4. QED BY <1>2, <1>3

LEMMA LostNext ==
    ASSUME CallsInv, Lost, CallsNext
    PROVE  Lost' \/ Good'
<1>1. CASE \E fn \in DOMAIN Funcs, force \in BOOLEAN : Invoke(fn, force) BY <1>1, InvokeGood
<1>2. CASE UnwindNothing BY <1>2, UnwindNothingLost
<1>3. CASE UnwindCall
    <2>1. acts # <<>> /\ err # "none" BY <1>3 DEF UnwindCall, Failing
    <2>2. CASE leaked \/ restarted BY <2>1, <2>2, GhostsStay DEF Lost
    <2>3. CASE err = "exception" => top.tier # "byte" BY <1>3, <2>3, UnwindCallLost
    <2>4. QED BY <2>1, <2>2, <2>3 DEF Lost
<1>4. CASE Call \/ Const \/ LocalGet \/ Drop \/ Open \/ If \/ Else \/ End \/ Br \/ BrIfNot
           \/ Return \/ ReturnFromRegisters \/ ReturnCall \/ Throw \/ ThrowRef \/ Trap
    <2>1. acts # <<>> /\ err = "none" BY <1>4, EnteringIsRunning
    <2>2. leaked \/ restarted BY <2>1 DEF Lost
    <2>3. QED BY <2>1, <2>2, GhostsStay DEF Lost
<1>5. QED BY <1>1, <1>2, <1>3, <1>4 DEF CallsNext

LEMMA GoodNext ==
    ASSUME CallsInv, Good, CallsNext
    PROVE  Lost' \/ Good'
<1>1. CASE \E fn \in DOMAIN Funcs, force \in BOOLEAN : Invoke(fn, force) BY <1>1, InvokeGood
<1>2. CASE UnwindNothing BY <1>2, UnwindNothingLost
<1>3. CASE UnwindCall
    <2>1. CASE err = "exception" /\ top.tier = "byte" BY <1>3, <2>1, UnwindCallGood
    <2>2. CASE ~(err = "exception" /\ top.tier = "byte") BY <1>3, <2>2, UnwindCallLost
    <2>3. QED BY <2>1, <2>2
<1>4. CASE Call BY <1>4, CallGood
<1>5. CASE Return BY <1>5, ReturnGood
<1>6. CASE ReturnFromRegisters BY <1>6, ReturnFromRegistersGood
<1>7. CASE ReturnCall BY <1>7, ReturnCallGood
<1>8. CASE Throw \/ ThrowRef BY <1>8, ThrowGood
<1>9. CASE Trap BY <1>9, TrapGood
<1>10. CASE OnStack(top) /\ (Const \/ LocalGet) BY <1>10, PushGood
<1>11. CASE OnStack(top) /\ Drop BY <1>11, DropGood
<1>12. CASE OnStack(top) /\ End BY <1>12, EndGood
<1>13. CASE OnStack(top) /\ Br BY <1>13, BrGood
<1>14. CASE OnStack(top) /\ BrIfNot BY <1>14, BrIfNotGood
<1>15. CASE OnStack(top) /\ Open BY <1>15, OpenGood
<1>16. CASE OnStack(top) /\ If BY <1>16, IfGood
<1>17. CASE OnStack(top) /\ Else BY <1>17, ElseGood
<1>18. CASE ~OnStack(top) /\ (Const \/ LocalGet \/ Drop \/ End) BY <1>18, StraightInRegs
<1>19. CASE ~OnStack(top) /\ (Br \/ BrIfNot \/ Open \/ If \/ Else)
    <2>1. PICK w \in {"br", "br_if", "block", "loop", "try_table", "if", "else"} : Executes(w)
        BY <1>19 DEF Br, BrIfNot, Open, If, Else
    <2>2. InRegsGood /\ ~AtEnd /\ instr.op = w BY <1>19, <2>1, ExecutesInRegs
    <2>3. instr.op \in {"const", "local.get", "drop", "call", "end", "unreachable"} BY <2>2, ExecutingRegs
    <2>4. QED BY <2>2, <2>3
<1>20. QED BY <1>1, <1>2, <1>3, <1>4, <1>5, <1>6, <1>7, <1>8, <1>9, <1>10, <1>11, <1>12, <1>13, <1>14, <1>15,
              <1>16, <1>17, <1>18, <1>19
           DEF CallsNext

LEMMA StacksInvNext == ASSUME StacksInv, [CallsNext]_callVars PROVE StacksInv'
<1>1. CallsInv' BY CallsInvNext DEF StacksInv
<1>2. CASE CallsNext
    <2>1. Lost' \/ Good' BY <1>2, LostNext, GoodNext DEF StacksInv
    <2>2. QED BY <1>1, <2>1 DEF StacksInv
<1>3. CASE UNCHANGED callVars
    <2>1. /\ acts' = acts /\ op' = op /\ frames' = frames /\ labels' = labels /\ exns' = exns
          /\ pending' = pending /\ err' = err /\ leaked' = leaked /\ restarted' = restarted
        BY <1>3 DEF callVars, stackVars, ghostVars
    <2>2. Lost => Lost' BY <2>1 DEF Lost, top
    <2>3. Good => Good' BY <2>1 DEF Good, Stacks, top
    <2>4. QED BY <1>1, <2>2, <2>3 DEF StacksInv
<1>4. QED BY <1>2, <1>3

LEMMA StacksMatch == ASSUME StacksInv PROVE StacksMatchCode
<1>1. SUFFICES ASSUME Running, OnStack(top), ~leaked, ~restarted
               PROVE  LET around == Around(code, top.pc)
                          f == Funcs[top.fn]
                          h == Height(code, f.results)
                          bottom == frame.start + Fixed(f)
                          LabelAbove(o) == labels[frame.label_base + 1 + Cardinality({k \in around : k <= o})]
                      IN  /\ frame.act = Len(acts) /\ frame.start = top.base
                          /\ Len(op) = bottom + h[top.pc]
                          /\ Len(labels) = frame.label_base + Cardinality(around) + (IF AtEnd THEN 0 ELSE 1)
                          /\ \A o \in around :
                                 LET loop == code[o].op = "loop"
                                 IN  /\ LabelAbove(o).base = bottom + h[o] - (IF loop THEN code[o].params ELSE 0)
                                     /\ LabelAbove(o).target = IF loop THEN o + 1 ELSE EndOf(code, o) + 1
    BY DEF StacksMatchCode
<1>. DEFINE A == Around(code, top.pc)
            f == Funcs[top.fn]
            i == top.pc
            lo == frame.label_base
<1>2. OnStackGood BY <1>1 DEF StacksInv, Lost, Running, OnStackGood
<1>3. frame.act = Len(acts) /\ frame.start = top.base BY <1>2, OnStackIs DEF Framed
<1>4. code = f.code /\ Bottom = frame.start + Fixed(f) BY DEF code, Bottom
<1>5. top.fn \in DOMAIN Funcs /\ lo \in Nat /\ Bottom \in Nat BY <1>2, OnStackIs
<1>6. \A k : HeightAt(f, k) = Height(code, f.results)[k] BY <1>4 DEF HeightAt
<1>7. CASE AtEnd
    <2>1. PICK n \in Nat : Len(op) = Bottom + n /\ At(top, i, n, lo, Bottom, labels) BY <1>2, OnStackIs
    <2>2. Len(code) \in Nat /\ (\A k \in Live(code) : k \in 1 .. Len(code)) /\ Around(code, Len(code) + 1) = {}
          /\ HeightAt(f, Len(code) + 1) = f.results
        BY <1>4, <1>5, FuncIs
    <2>3. i \notin Live(code) BY <1>7, <2>2 DEF AtEnd
    <2>4. i = Len(code) + 1 /\ n = f.results /\ Len(labels) = lo BY <1>4, <2>1, <2>3 DEF At
    <2>5. A = {} /\ HeightAt(f, i) = n BY <2>2, <2>4
    <2>6. Len(op) = Bottom + Height(code, f.results)[i] BY <1>6, <2>1, <2>5
    <2>7. Len(labels) = lo + Cardinality(A) + (IF AtEnd THEN 0 ELSE 1)
        <3>1. Cardinality(A) = 0 BY <2>5, FS_EmptySet
        <3>. HIDE DEF A
        <3>2. QED BY <1>5, <1>7, <2>4, <3>1
    <2>8. QED BY <1>3, <1>4, <2>5, <2>6, <2>7
<1>8. CASE ~AtEnd
    <2>1. /\ Len(op) = Bottom + HeightAt(f, i) /\ Len(labels) = lo + 1 + Cardinality(A)
          /\ Labelled(top, A, lo, Bottom, labels) /\ Cardinality(A) \in Nat
        BY <1>2, <1>8, Executing
    <2>2. Len(op) = Bottom + Height(code, f.results)[i] BY <1>6, <2>1
    <2>3. Len(labels) = lo + Cardinality(A) + (IF AtEnd THEN 0 ELSE 1)
        <3>. DEFINE c == Cardinality(A)
        <3>1. Len(labels) = lo + 1 + c /\ c \in Nat BY <2>1
        <3>. HIDE DEF c
        <3>2. Len(labels) = lo + c + 1 BY <1>5, <3>1
        <3>3. QED BY <1>8, <3>2 DEF c
    <2>4. ASSUME NEW o \in A
          PROVE  LET l == labels[lo + 1 + Cardinality({k \in A : k <= o})]
                     loop == code[o].op = "loop"
                 IN  /\ l.base = Bottom + Height(code, f.results)[o] - (IF loop THEN code[o].params ELSE 0)
                     /\ l.target = IF loop THEN o + 1 ELSE EndOf(code, o) + 1
        <3>1. labels[lo + 1 + Cardinality({k \in A : k <= o})] = LabelFor(f, o, Bottom)
            BY <2>1 DEF Labelled, Rank
        <3>2. HeightAt(f, o) = Height(code, f.results)[o] BY <1>6
        <3>3. LabelFor(f, o, Bottom).base = Bottom + Below(f, o)
              /\ LabelFor(f, o, Bottom).target = IF code[o].op = "loop" THEN o + 1 ELSE EndOf(code, o) + 1
            BY <1>4 DEF LabelFor
        <3>4. Below(f, o) = Height(code, f.results)[o] - (IF code[o].op = "loop" THEN code[o].params ELSE 0)
            BY <1>4, <3>2 DEF Below
        <3>5. QED BY <3>1, <3>3, <3>4
    <2>5. QED BY <1>3, <1>4, <2>2, <2>3, <2>4, Zenon
<1>9. QED BY <1>7, <1>8

\* Whatever functions validation has accepted, and whatever sequence of calls,
\* tail calls, branches, traps and caught exceptions has led here, the
\* interpreters (execute, executeIR) find the frame, the labels and the height
\* of the operands as validated, unless callFunction has left a frame behind
\* or a branch has restarted a function.
THEOREM StacksAsValidated == CallsSpec => []StacksMatchCode
<1>1. CallsInit => StacksInv
    <2>1. SUFFICES ASSUME CallsInit PROVE StacksInv OBVIOUS
    <2>2. acts = <<>> BY <2>1 DEF CallsInit
    <2>3. IsCalls(acts) /\ Chained(acts) BY <2>2, NoCalls DEF Chained
    <2>4. CallsInv BY <2>2, <2>3 DEF CallsInv, BranchTableIsOwn, Running
    <2>5. QED BY <2>2, <2>4 DEF StacksInv, Lost
<1>2. StacksInv /\ [CallsNext]_callVars => StacksInv' BY StacksInvNext
<1>3. StacksInv => StacksMatchCode BY StacksMatch
<1>4. QED BY <1>1, <1>2, <1>3, PTL DEF CallsSpec
=============================================================================
