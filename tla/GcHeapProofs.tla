---------------------------- MODULE GcHeapProofs ----------------------------
(***************************************************************************)
(* Theorems about GcHeap for every number of slots, fields, roots, every   *)
(* threshold and, in the first part, any allocation failure.               *)
(***************************************************************************)
EXTENDS GcHeap, FiniteSetTheorems, TLAPS

-----------------------------------------------------------------------------
(* Facts about the stacks and the values on them.                          *)

LEMMA AddrFacts == /\ Addr \subseteq Int
                   /\ NoRef \notin Addr /\ Nil \notin Addr
                   /\ \A a \in Addr : a >= 0 /\ a < MaxSlots
  BY ConstantsAssumption DEF Addr, NoRef, Nil

\* The slots in use are among all slots.
LEMMA SlotsAreAddresses ==
    ASSUME TypeOK
    PROVE  Slots \subseteq Addr
<1>1. len \in 0 .. MaxSlots BY DEF TypeOK
<1>2. QED BY <1>1, ConstantsAssumption DEF Slots, Addr

\* Popping n values keeps a stack a stack and adds no value to it.
LEMMA PopFacts ==
    ASSUME NEW S, NEW s \in Seq(S), NEW n \in Nat, n <= Len(s)
    PROVE  /\ Pop(s, n) \in Seq(S)
           /\ Elems(Pop(s, n)) \subseteq Elems(s)
           /\ Len(Pop(s, n)) = Len(s) - n
           /\ \A i \in 1 .. (Len(s) - n) : Pop(s, n)[i] = s[i]
<1>1. Len(s) \in Nat /\ Len(s) - n \in Nat OBVIOUS
<1>2. Pop(s, n) \in Seq(S) BY <1>1 DEF Pop
<1>3. \A i \in 1 .. (Len(s) - n) : Pop(s, n)[i] = s[i] BY <1>1 DEF Pop
<1>4. Len(Pop(s, n)) = Len(s) - n BY <1>1 DEF Pop
<1>5. DOMAIN Pop(s, n) = 1 .. (Len(s) - n) BY <1>2, <1>4
<1>6. Elems(Pop(s, n)) \subseteq Elems(s) BY <1>1, <1>3, <1>5 DEF Elems
<1>7. QED BY <1>2, <1>3, <1>4, <1>6

LEMMA PushFacts ==
    ASSUME NEW S, NEW s \in Seq(S), NEW v \in S
    PROVE  Push(s, v) \in Seq(S) /\ Elems(Push(s, v)) \subseteq Elems(s) \cup {v}
  BY DEF Push, Elems

LEMMA TopFacts ==
    ASSUME NEW S, NEW s \in Seq(S), s # <<>>
    PROVE  Top(s) \in S /\ Top(s) \in Elems(s)
<1>1. Len(s) \in 1 .. Len(s) OBVIOUS
<1>2. QED BY <1>1 DEF Top, Elems

LEMMA LiveFinite == TypeOK => IsFiniteSet(Live) /\ Cardinality(Live) \in Nat
<1> SUFFICES ASSUME TypeOK PROVE IsFiniteSet(Live) /\ Cardinality(Live) \in Nat
  OBVIOUS
<1>1. IsFiniteSet(0 .. (len - 1))
  BY FS_Interval, ConstantsAssumption DEF TypeOK
<1>2. Live \subseteq 0 .. (len - 1) BY DEF Live, Slots
<1>3. QED BY <1>1, <1>2, FS_Subset, FS_CardinalityType

-----------------------------------------------------------------------------
(* Type correctness.                                                       *)

LEMMA ObjectType ==
    ASSUME NEW k \in Kind, NEW vals \in [Fields -> Val]
    PROVE  [kind |-> k, vals |-> vals] \in Object
  BY DEF Object

\* allocSlot, given that the stack of free slots is not empty when the free
\* list is not.
LEMMA AllocSlotType ==
    ASSUME TypeOK, NEW o \in Object, CanAlloc, allocSlot(o),
           free_head # Nil => freed # <<>>
    PROVE  /\ allocSlotAddr \in Addr
           /\ len' \in 0 .. MaxSlots
           /\ obj' \in [Addr -> Object \cup {NoObj}]
           /\ marked' \in [Addr -> BOOLEAN]
           /\ next_free' \in [Addr -> Addr \cup {Nil}]
           /\ free_head' \in Addr \cup {Nil}
           /\ alloc_since_gc' \in Nat
           /\ gc_threshold' \in Nat
           /\ freed' \in Seq(Addr)
<1> USE ConstantsAssumption
<1>1. allocSlotAddr \in Addr
  BY DEF allocSlotAddr, CanAlloc, TypeOK, Addr, Nil
<1>2. len' \in 0 .. MaxSlots
  BY DEF allocSlot, CanAlloc, TypeOK
<1>3. /\ obj' \in [Addr -> Object \cup {NoObj}]
      /\ marked' \in [Addr -> BOOLEAN]
      /\ next_free' \in [Addr -> Addr \cup {Nil}]
  BY <1>1 DEF allocSlot, TypeOK
<1>4. free_head' \in Addr \cup {Nil}
  BY DEF allocSlot, TypeOK
<1>5. alloc_since_gc' \in Nat /\ gc_threshold' \in Nat
  BY DEF allocSlot, TypeOK
<1>6. freed' \in Seq(Addr)
  <2>1. CASE free_head = Nil BY <2>1 DEF allocSlot, TypeOK
  <2>2. CASE free_head # Nil
    <3>1. freed \in Seq(Addr) /\ 1 <= Len(freed) BY <2>2 DEF TypeOK
    <3>2. freed' = Pop(freed, 1) BY <2>2 DEF allocSlot
    <3>3. QED BY <3>1, <3>2, PopFacts
  <2>3. QED BY <2>1, <2>2
<1>7. QED BY <1>1, <1>2, <1>3, <1>4, <1>5, <1>6

\* The types of the stack and its top, for a pop of one or two values.
LEMMA StackTypes ==
    ASSUME TypeOK, op_stack # <<>>
    PROVE  /\ Top(op_stack) \in Val
           /\ Pop(op_stack, 1) \in Seq(Val)
           /\ \A v \in Val : Push(Pop(op_stack, 1), v) \in Seq(Val)
<1>1. op_stack \in Seq(Val) /\ 1 <= Len(op_stack) BY DEF TypeOK
<1>2. Top(op_stack) \in Val BY <1>1, TopFacts
<1>3. Pop(op_stack, 1) \in Seq(Val) BY <1>1, PopFacts
<1>4. QED BY <1>2, <1>3, PushFacts

LEMMA LeaveType == TypeOK /\ LeaveInvocation =>
                     op_stack' \in Seq(Val) /\ reg' \in Val /\ hidden' \in [Unscanned -> Val]
  BY DEF TypeOK, LeaveInvocation, Val

LEMMA GetObjectType ==
    ASSUME TypeOK, NEW v, getObject(v)
    PROVE  v \in Addr /\ obj[v] \in Object
<1>1. v \in Addr BY ConstantsAssumption DEF getObject, Slots, Addr, TypeOK
<1>2. QED BY <1>1 DEF getObject, IsLive, TypeOK

\* The stack of free slots is not empty when the list is not.
Stacked == free_head # Nil => freed # <<>>

LEMMA MutatorType == TypeOK /\ Stacked /\ Mutator => TypeOK'
<1> SUFFICES ASSUME TypeOK, Stacked, Mutator PROVE TypeOK'
  OBVIOUS
<1> USE ConstantsAssumption DEF heapVars, paceVars, rootVars, gcVars
<1>1. CASE EndInvocation
  BY <1>1, LeaveType DEF EndInvocation, TypeOK
<1>2. ASSUME NEW k \in Kind, NewFromStack(k) PROVE TypeOK'
  <2> DEFINE base == Len(op_stack) - NFields
             flds == [f \in Fields |-> op_stack[base + f]]
  <2>1. op_stack \in Seq(Val) /\ NFields \in Nat /\ NFields <= Len(op_stack)
    BY <1>2 DEF NewFromStack, TypeOK
  <2>2. flds \in [Fields -> Val]
    BY <2>1 DEF Fields
  <2>3. [kind |-> k, vals |-> flds] \in Object
    BY <2>2, ObjectType
  <2>4. allocSlot([kind |-> k, vals |-> flds]) /\ CanAlloc
    BY <1>2 DEF NewFromStack
  <2>5. allocSlotAddr \in Val
    BY <2>3, <2>4, AllocSlotType DEF Stacked, Val
  <2>6. op_stack' \in Seq(Val)
    BY <1>2, <2>1, <2>5, PopFacts, PushFacts DEF NewFromStack
  <2>7. QED BY <1>2, <2>3, <2>4, <2>6, AllocSlotType
            DEF NewFromStack, TypeOK, Stacked
<1>3. ASSUME NEW k \in Kind, NewDefault(k) PROVE TypeOK'
  <2> DEFINE flds == [f \in Fields |-> NoRef]
  <2>1. [kind |-> k, vals |-> flds] \in Object
    BY ObjectType DEF Val
  <2>2. allocSlot([kind |-> k, vals |-> flds]) /\ CanAlloc
    BY <1>3 DEF NewDefault
  <2>3. allocSlotAddr \in Val
    BY <2>1, <2>2, AllocSlotType DEF Stacked, Val
  <2>4. op_stack' \in Seq(Val)
    BY <1>3, <2>3, PushFacts DEF NewDefault, TypeOK
  <2>5. QED BY <1>3, <2>1, <2>2, <2>4, AllocSlotType
            DEF NewDefault, TypeOK, Stacked
<1>4. CASE NewFilled
  <2> DEFINE flds == [f \in Fields |-> Top(op_stack)]
  <2>0. Top(op_stack) \in Val /\ \A v \in Val : Push(Pop(op_stack, 1), v) \in Seq(Val)
    BY <1>4, StackTypes DEF NewFilled
  <2>1. [kind |-> "array", vals |-> flds] \in Object
    BY <1>4, <2>0, ObjectType DEF NewFilled
  <2>2. allocSlot([kind |-> "array", vals |-> flds]) /\ CanAlloc
    BY <1>4 DEF NewFilled
  <2>3. allocSlotAddr \in Val
    BY <2>1, <2>2, AllocSlotType DEF Stacked, Val
  <2>4. op_stack' \in Seq(Val)
    BY <1>4, <2>0, <2>3 DEF NewFilled
  <2>5. QED BY <1>4, <2>1, <2>2, <2>4, AllocSlotType
            DEF NewFilled, TypeOK, Stacked
<1>5. CASE RegStructNew
  <2> DEFINE flds == [f \in Fields |-> reg]
  <2>1. [kind |-> "struct", vals |-> flds] \in Object
    BY <1>5, ObjectType DEF RegStructNew, TypeOK
  <2>2. allocSlot([kind |-> "struct", vals |-> flds]) /\ CanAlloc
    BY <1>5 DEF RegStructNew
  <2>3. reg' \in Val
    BY <1>5, <2>1, <2>2, AllocSlotType DEF Stacked, Val, RegStructNew
  <2>5. QED BY <1>5, <2>1, <2>2, <2>3, AllocSlotType
            DEF RegStructNew, TypeOK, Stacked
<1>6. CASE AllocTrap
  BY <1>6, LeaveType DEF AllocTrap, TypeOK
<1>7. ASSUME NEW k \in Kind, NEW f \in Fields, GetField(k, f) PROVE TypeOK'
  <2>1. obj[Top(op_stack)] \in Object \cup {NoObj}
    BY <1>7 DEF GetField, getObject, TypeOK, Slots, Addr
  <2>2. obj[Top(op_stack)].vals[f] \in Val
    BY <1>7, <2>1 DEF Object, NoObj, Val
  <2>3. op_stack' \in Seq(Val)
    BY <1>7, <2>2, StackTypes DEF GetField
  <2>4. QED BY <1>7, <2>3 DEF GetField, TypeOK
<1>8. ASSUME NEW k \in Kind, NEW f \in Fields, SetField(k, f) PROVE TypeOK'
  <2> DEFINE a == op_stack[Len(op_stack) - 1]
  <2>1. op_stack \in Seq(Val) /\ 2 <= Len(op_stack) /\ op_stack # <<>>
    BY <1>8 DEF SetField, TypeOK
  <2>2. Top(op_stack) \in Val /\ op_stack' \in Seq(Val)
    BY <1>8, <2>1, PopFacts, TopFacts DEF SetField
  <2>3. a \in Addr /\ obj[a] \in Object
    <3>1. getObject(a) BY <1>8 DEF SetField
    <3>2. QED BY <3>1, GetObjectType
  <2>4. obj' \in [Addr -> Object \cup {NoObj}]
    BY <1>8, <2>2, <2>3 DEF SetField, TypeOK, Object
  <2>5. QED BY <1>8, <2>2, <2>4 DEF SetField, TypeOK
<1>9. ASSUME NEW lo \in Fields, ArrayFill(lo) PROVE TypeOK'
  <2> DEFINE a == op_stack[Len(op_stack) - 1]
  <2>1. op_stack \in Seq(Val) /\ 2 <= Len(op_stack) /\ op_stack # <<>>
    BY <1>9 DEF ArrayFill, TypeOK
  <2>2. Top(op_stack) \in Val /\ op_stack' \in Seq(Val)
    BY <1>9, <2>1, PopFacts, TopFacts DEF ArrayFill
  <2>3. a \in Addr /\ obj[a] \in Object
    <3>1. getObject(a) BY <1>9 DEF ArrayFill
    <3>2. QED BY <3>1, GetObjectType
  <2>4. obj' \in [Addr -> Object \cup {NoObj}]
    BY <1>9, <2>2, <2>3 DEF ArrayFill, TypeOK, Object
  <2>5. QED BY <1>9, <2>2, <2>4 DEF ArrayFill, TypeOK
<1>10. ASSUME NEW lo \in Fields, ArrayCopy(lo) PROVE TypeOK'
  <2> DEFINE dst == op_stack[Len(op_stack) - 1]
             src == Top(op_stack)
  <2>1. op_stack \in Seq(Val) /\ 2 <= Len(op_stack) /\ op_stack # <<>>
    BY <1>10 DEF ArrayCopy, TypeOK
  <2>2. op_stack' \in Seq(Val)
    BY <1>10, <2>1, PopFacts DEF ArrayCopy
  <2>3. dst \in Addr /\ obj[dst] \in Object /\ src \in Addr /\ obj[src] \in Object
    <3>1. getObject(dst) /\ getObject(src) BY <1>10 DEF ArrayCopy
    <3>2. QED BY <3>1, GetObjectType
  <2>4. obj' \in [Addr -> Object \cup {NoObj}]
    BY <1>10, <2>3 DEF ArrayCopy, TypeOK, Object
  <2>5. QED BY <1>10, <2>2, <2>4 DEF ArrayCopy, TypeOK
<1>11. CASE GetTrap
  BY <1>11, LeaveType DEF GetTrap, TypeOK
<1>12. ASSUME NEW v \in Val, PushFrom(v) PROVE TypeOK'
  BY <1>12, PushFacts DEF PushFrom, TypeOK
<1>13. CASE RefNull \/ GlobalGet \/ TableGet \/ PassArg
  BY <1>12, <1>13 DEF RefNull, GlobalGet, TableGet, PassArg, TypeOK, Val
<1>14. CASE GlobalSet \/ TableSet \/ PassResult
  BY <1>14, StackTypes DEF GlobalSet, TableSet, PassResult, TypeOK
<1>15. CASE JitWrite \/ JitSpill
  BY <1>15 DEF JitWrite, JitSpill, TypeOK
<1>16. QED
  BY <1>1, <1>2, <1>3, <1>4, <1>5, <1>6, <1>7, <1>8, <1>9, <1>10, <1>11,
     <1>13, <1>14, <1>15 DEF Mutator

\* The new threshold is a number.
LEMMA AdaptType ==
    ASSUME TypeOK, NEW b \in Nat, NEW c \in Nat
    PROVE  adaptThreshold(b, c) \in Nat
<1> DEFINE reclaimed == Max2(b - c, 0)
<1>0. gc_threshold \in Nat /\ GcThresholdDefault \in Nat
  BY ConstantsAssumption DEF TypeOK
<1>1. Min2(gc_threshold * 2, Max2(c * 2, GcThresholdDefault)) \in Nat
  BY <1>0 DEF Min2, Max2
<1>2. Max2(gc_threshold \div 2, GcThresholdDefault) \in Nat
  BY <1>0 DEF Max2
<1>3. QED BY <1>0, <1>1, <1>2 DEF adaptThreshold

LEMMA CollectorType == TypeOK /\ (BeginCollect \/ Collector) => TypeOK'
<1> SUFFICES ASSUME TypeOK, BeginCollect \/ Collector PROVE TypeOK'
  OBVIOUS
<1> USE ConstantsAssumption DEF heapVars, paceVars, rootVars, gcVars
<1>0. /\ \A p \in Phases : RootsOf(p) \subseteq Val
      /\ \A p \in Phases : After(p) \in Phases
  <2>1. Elems(op_stack) \subseteq Val BY DEF TypeOK, Elems
  <2>2. QED BY <2>1 DEF RootsOf, After, Phases, TypeOK
<1>1. CASE BeginCollect
  <2>1. Cardinality(Live) \in Nat BY LiveFinite
  <2>2. QED BY <1>0, <1>1, <2>1 DEF BeginCollect, TypeOK, Phases
<1>2. ASSUME NEW v \in pending, tryEnqueue(v) PROVE TypeOK'
  <2>1. CASE Fresh(v)
    <3>1. v \in Addr BY <2>1 DEF Fresh, Slots, Addr, TypeOK
    <3>2. QED BY <1>2, <2>1, <3>1 DEF tryEnqueue, TypeOK
  <2>2. CASE ~Fresh(v)
    BY <1>2, <2>2 DEF tryEnqueue, TypeOK
  <2>3. QED BY <2>1, <2>2
<1>3. ASSUME NEW v \in pending, EnqueueOom(v) PROVE TypeOK'
  <2>1. v \in Addr BY <1>3 DEF EnqueueOom, Fresh, Slots, Addr, TypeOK
  <2>2. marked' \in [Addr -> BOOLEAN] BY <1>3, <2>1 DEF EnqueueOom, TypeOK
  <2>3. QED BY <1>0, <1>3, <2>2 DEF EnqueueOom, NextRoots, TypeOK
<1>4. ASSUME NEW a \in queue, Drain(a) PROVE TypeOK'
  <2>1. obj[a] \in Object \cup {NoObj} BY DEF TypeOK
  <2>2. Refs(a) \subseteq Val BY <2>1 DEF Refs, Object, NoObj, Val
  <2>3. QED BY <1>4, <2>2 DEF Drain, TypeOK
<1>5. CASE RootsDone
  BY <1>0, <1>5 DEF RootsDone, NextRoots, TypeOK
<1>6. CASE GlobalsOom
  BY <1>6 DEF GlobalsOom, TypeOK, Phases
<1>7. CASE Sweep
  <2>1. sweep_at \in Addr /\ sweep_at' \in 0 .. MaxSlots
    BY <1>7 DEF Sweep, TypeOK, Addr
  <2>2. CASE IsLive(sweep_at) /\ ~marked[sweep_at]
    <3>1. freeSlot(sweep_at) BY <1>7, <2>2 DEF Sweep
    <3>2. freed' \in Seq(Addr) BY <2>1, <3>1 DEF freeSlot, TypeOK
    <3>3. QED BY <1>7, <2>1, <3>1, <3>2 DEF Sweep, freeSlot, TypeOK
  <2>3. CASE ~(IsLive(sweep_at) /\ ~marked[sweep_at])
    BY <1>7, <2>1, <2>3 DEF Sweep, TypeOK
  <2>4. QED BY <2>2, <2>3
<1>8. CASE FinishCollect
  <2>1. gc_threshold' \in Nat
    BY <1>8, LiveFinite, AdaptType DEF FinishCollect, TypeOK
  <2>2. QED BY <1>8, <2>1 DEF FinishCollect, TypeOK, Phases
<1>9. QED
  BY <1>1, <1>2, <1>3, <1>4, <1>5, <1>6, <1>7, <1>8 DEF Collector

-----------------------------------------------------------------------------
(* The free list.                                                          *)

LEMMA FreeListGivesStacked == TypeOK /\ FreeListIsStack => Stacked
  BY DEF FreeListIsStack, Stacked

\* Reusing the head of the list, or appending a slot.
LEMMA AllocFreeList ==
    ASSUME TypeOK, FreeListIsStack, NEW o \in Object, CanAlloc, allocSlot(o)
    PROVE  FreeListIsStack' /\ allocSlotAddr \in Addr \ Live
<1> USE ConstantsAssumption
<1>0. o # NoObj BY DEF Object, NoObj
<1>1. CASE free_head # Nil
  <2>1. /\ freed \in Seq(Addr) /\ Len(freed) \in Nat /\ Len(freed) >= 1
        /\ free_head = freed[Len(freed)]
        /\ allocSlotAddr = free_head
        /\ free_head \in Slots /\ ~IsLive(free_head) /\ free_head \in Addr
    BY <1>1 DEF FreeListIsStack, TypeOK, allocSlotAddr
  <2>2. /\ freed' = Pop(freed, 1)
        /\ len' = len
        /\ free_head' = next_free[free_head]
        /\ obj' = [obj EXCEPT ![free_head] = o]
        /\ next_free' = [next_free EXCEPT ![free_head] = Nil]
    BY <1>1, <2>1 DEF allocSlot
  <2>3. /\ Pop(freed, 1) \in Seq(Addr)
        /\ Len(Pop(freed, 1)) = Len(freed) - 1
        /\ \A i \in 1 .. (Len(freed) - 1) : Pop(freed, 1)[i] = freed[i]
    BY <2>1, PopFacts
  <2> DEFINE n == Len(freed)
  <2>n. n \in Nat /\ n >= 1 /\ n \in 1 .. n /\ freed[n] = free_head
    BY <2>1
  <2>i. \A i, j \in 1 .. n : freed[i] = freed[j] => i = j
    BY DEF FreeListIsStack
  <2>l. \A i \in 1 .. n : next_free[freed[i]] = IF i = 1 THEN Nil ELSE freed[i - 1]
    BY DEF FreeListIsStack
  <2>p. Len(freed') = n - 1 /\ \A i \in 1 .. (n - 1) : freed'[i] = freed[i]
    BY <2>2, <2>3
  <2>a. \A i \in 1 .. n : freed[i] \in Addr
    BY <2>1
  <2>c. {freed[i] : i \in 1 .. n} = {a \in Slots : ~IsLive(a)}
    BY DEF FreeListIsStack
  <2>e. freed' = <<>> <=> n = 1
    BY <2>n, <2>p, <2>2, <2>3
  <2> HIDE DEF n
  <2>4. \A i \in 1 .. (n - 1) : freed[i] # free_head
    BY <2>n, <2>i
  <2>5. {freed'[i] : i \in 1 .. Len(freed')} = {a \in Slots : ~IsLive(a)}'
    <3>1. {freed'[i] : i \in 1 .. Len(freed')}
            = {freed[i] : i \in 1 .. n} \ {free_head}
      <4>1. {freed'[i] : i \in 1 .. Len(freed')} = {freed[i] : i \in 1 .. (n - 1)}
        BY <2>p
      <4>2. {freed[i] : i \in 1 .. (n - 1)} = {freed[i] : i \in 1 .. n} \ {free_head}
        BY <2>n, <2>4
      <4>3. QED BY <4>1, <4>2
    <3>2. {a \in Slots : ~IsLive(a)}' = {a \in Slots : ~IsLive(a)} \ {free_head}
      BY <1>0, <2>1, <2>2 DEF Slots, IsLive, TypeOK, Addr
    <3>3. QED BY <3>1, <3>2, <2>c
  <2>6. \A i, j \in 1 .. Len(freed') : freed'[i] = freed'[j] => i = j
    BY <2>n, <2>i, <2>p
  <2>7. free_head' = IF freed' = <<>> THEN Nil ELSE freed'[Len(freed')]
    <3>1. free_head' = IF n = 1 THEN Nil ELSE freed[n - 1]
      BY <2>2, <2>n, <2>l
    <3>2. n # 1 => n - 1 \in 1 .. (n - 1)
      BY <2>n
    <3>3. QED BY <2>e, <2>p, <3>1, <3>2
  <2>8. \A i \in 1 .. Len(freed') :
          next_free'[freed'[i]] = IF i = 1 THEN Nil ELSE freed'[i - 1]
    <3>1. SUFFICES ASSUME NEW i \in 1 .. (n - 1)
                   PROVE  next_free'[freed'[i]] = IF i = 1 THEN Nil ELSE freed'[i - 1]
      BY <2>p
    <3>2. i \in 1 .. n /\ (i # 1 => i - 1 \in 1 .. (n - 1))
      BY <2>n
    <3>3. freed'[i] = freed[i] /\ next_free'[freed[i]] = next_free[freed[i]]
      BY <2>2, <2>p, <2>4, <2>a, <3>2 DEF TypeOK
    <3>4. QED BY <2>l, <2>p, <3>2, <3>3
  <2>9. QED BY <2>1, <2>5, <2>6, <2>7, <2>8 DEF FreeListIsStack, Live
<1>2. CASE free_head = Nil
  <2>1. /\ allocSlotAddr = len /\ len \in Addr /\ len' = len + 1
        /\ freed' = freed /\ free_head' = free_head
        /\ obj' = [obj EXCEPT ![len] = o]
        /\ next_free' = [next_free EXCEPT ![len] = Nil]
    BY <1>2 DEF allocSlot, allocSlotAddr, CanAlloc, TypeOK, Addr
  <2>2. freed = <<>>
    BY <1>2, AddrFacts DEF FreeListIsStack, TypeOK
  <2>3. {a \in Slots : ~IsLive(a)}' = {a \in Slots : ~IsLive(a)}
    BY <1>0, <2>1 DEF Slots, IsLive, TypeOK, Addr
  <2>4. QED BY <2>1, <2>2, <2>3 DEF FreeListIsStack, Live, Slots, TypeOK
<1>3. QED BY <1>1, <1>2

\* freeSlot puts a live slot on top of the stack.
LEMMA FreeSlotFreeList ==
    ASSUME TypeOK, FreeListIsStack, NEW a \in Live, freeSlot(a)
    PROVE  FreeListIsStack'
<1> USE ConstantsAssumption
<1> DEFINE n == Len(freed)
<1>1. n \in Nat /\ freed \in Seq(Addr) /\ a \in Addr /\ a \in Slots /\ IsLive(a)
  BY DEF TypeOK, Live, Slots, Addr
<1>2. /\ Len(freed') = n + 1 /\ freed'[n + 1] = a
      /\ \A i \in 1 .. n : freed'[i] = freed[i]
      /\ freed' # <<>>
  BY <1>1 DEF freeSlot
<1>3. {freed[i] : i \in 1 .. n} = {b \in Slots : ~IsLive(b)}
  BY DEF FreeListIsStack
<1>4. \A i, j \in 1 .. n : freed[i] = freed[j] => i = j
  BY DEF FreeListIsStack
<1>5. \A i \in 1 .. n : next_free[freed[i]] = IF i = 1 THEN Nil ELSE freed[i - 1]
  BY DEF FreeListIsStack
<1>6. free_head = IF n = 0 THEN Nil ELSE freed[n]
  BY <1>1 DEF FreeListIsStack
<1>7. \A i \in 1 .. n : freed[i] # a /\ freed[i] \in Addr
  BY <1>1, <1>3
<1> HIDE DEF n
<1>8. {freed'[i] : i \in 1 .. Len(freed')} = {b \in Slots : ~IsLive(b)}'
  <2>1. {freed'[i] : i \in 1 .. Len(freed')} = {freed[i] : i \in 1 .. n} \cup {a}
    BY <1>1, <1>2
  <2>2. {b \in Slots : ~IsLive(b)}' = {b \in Slots : ~IsLive(b)} \cup {a}
    BY <1>1 DEF freeSlot, Slots, IsLive, TypeOK, Addr
  <2>3. QED BY <1>3, <2>1, <2>2
<1>9. \A i, j \in 1 .. Len(freed') : freed'[i] = freed'[j] => i = j
  BY <1>1, <1>2, <1>4, <1>7
<1>10. \A i \in 1 .. Len(freed') :
         next_free'[freed'[i]] = IF i = 1 THEN Nil ELSE freed'[i - 1]
  <2>1. ASSUME NEW i \in 1 .. n
        PROVE  next_free'[freed'[i]] = IF i = 1 THEN Nil ELSE freed'[i - 1]
    <3>1. next_free'[freed[i]] = next_free[freed[i]]
      BY <1>1, <1>7 DEF freeSlot, TypeOK
    <3>2. i # 1 => i - 1 \in 1 .. n BY <1>1
    <3>3. QED BY <1>2, <1>5, <3>1, <3>2
  <2>2. next_free'[freed'[n + 1]] = IF n + 1 = 1 THEN Nil ELSE freed'[n]
    <3>1. next_free'[a] = free_head BY <1>1 DEF freeSlot, TypeOK
    <3>2. n # 0 => n \in 1 .. n BY <1>1
    <3>3. QED BY <1>1, <1>2, <1>6, <3>1, <3>2
  <2>3. QED BY <1>1, <1>2, <2>1, <2>2
<1>11. free_head' = IF freed' = <<>> THEN Nil ELSE freed'[Len(freed')]
  BY <1>2 DEF freeSlot
<1>12. QED BY <1>8, <1>9, <1>10, <1>11 DEF FreeListIsStack

LEMMA FreeListStable ==
    ASSUME FreeListIsStack, UNCHANGED <<len, next_free, free_head, freed>>,
           \A a \in Slots : IsLive(a)' <=> IsLive(a)
    PROVE  FreeListIsStack'
<1>1. Slots' = Slots BY DEF Slots
<1>2. {a \in Slots : ~IsLive(a)}' = {a \in Slots : ~IsLive(a)} BY <1>1
<1>3. QED BY <1>2 DEF FreeListIsStack

\* Writing into a live object leaves the set of live slots alone.
LEMMA WriteKeepsLive ==
    ASSUME TypeOK, NEW a \in Addr, obj[a] \in Object, NEW nv,
           obj' = [obj EXCEPT ![a].vals = nv], UNCHANGED len
    PROVE  Live' = Live /\ \A b \in Slots : IsLive(b)' <=> IsLive(b)
<1>1. obj'[a] = [obj[a] EXCEPT !.vals = nv]
  BY DEF TypeOK
<1>2. obj'[a].kind = obj[a].kind /\ obj[a].kind \in Kind
  BY <1>1 DEF Object
<1>3. "free" \notin Kind BY ConstantsAssumption
<1>4. obj'[a] # NoObj /\ obj[a] # NoObj BY <1>2, <1>3 DEF NoObj
<1>5. Slots \subseteq Addr BY SlotsAreAddresses
<1>6. \A b \in Slots : IsLive(b)' <=> IsLive(b)
  BY <1>4, <1>5 DEF IsLive, TypeOK
<1>7. QED BY <1>6 DEF Live, Slots

\* What an opcode of the program does to the heap: an allocation, a write
\* into a live object, or nothing.
HeapWrite ==
    \E a \in Addr, nv \in [Fields -> Val] :
       /\ getObject(a) /\ obj[a] \in Object
       /\ obj' = [obj EXCEPT ![a].vals = nv]
       /\ UNCHANGED <<len, marked, next_free, free_head, freed, paceVars>>
HeapAlloc == \E o \in Object : CanAlloc /\ allocSlot(o)
HeapStill == UNCHANGED heapVars

LEMMA MutatorOnHeap ==
    ASSUME TypeOK, Stacked, Mutator
    PROVE  HeapWrite \/ HeapAlloc \/ HeapStill
<1> USE ConstantsAssumption
<1>1. ASSUME NEW k \in Kind, NewFromStack(k) PROVE HeapAlloc
  <2> DEFINE flds == [f \in Fields |-> op_stack[Len(op_stack) - NFields + f]]
  <2>1. flds \in [Fields -> Val] BY <1>1 DEF NewFromStack, TypeOK, Fields
  <2>2. [kind |-> k, vals |-> flds] \in Object BY <2>1, ObjectType
  <2>3. QED BY <1>1, <2>2 DEF NewFromStack, HeapAlloc
<1>2. ASSUME NEW k \in Kind, NewDefault(k) PROVE HeapAlloc
  <2>1. [kind |-> k, vals |-> [f \in Fields |-> NoRef]] \in Object
    BY ObjectType DEF Val
  <2>2. QED BY <1>2, <2>1 DEF NewDefault, HeapAlloc
<1>3. CASE NewFilled
  <2>1. [kind |-> "array", vals |-> [f \in Fields |-> Top(op_stack)]] \in Object
    BY <1>3, StackTypes, ObjectType DEF NewFilled
  <2>2. QED BY <1>3, <2>1 DEF NewFilled, HeapAlloc
<1>4. CASE RegStructNew
  <2>1. [kind |-> "struct", vals |-> [f \in Fields |-> reg]] \in Object
    BY <1>4, ObjectType DEF RegStructNew, TypeOK
  <2>2. QED BY <1>4, <2>1 DEF RegStructNew, HeapAlloc
<1>5. ASSUME NEW k \in Kind, NEW f \in Fields, SetField(k, f) PROVE HeapWrite
  <2> DEFINE a == op_stack[Len(op_stack) - 1]
             nv == [obj[a].vals EXCEPT ![f] = Top(op_stack)]
  <2>1. getObject(a) BY <1>5 DEF SetField
  <2>2. a \in Addr /\ obj[a] \in Object BY <2>1, GetObjectType
  <2>3. Top(op_stack) \in Val BY <1>5, StackTypes DEF SetField
  <2>4. nv \in [Fields -> Val] BY <2>2, <2>3 DEF Object
  <2>5. obj' = [obj EXCEPT ![a].vals = nv] BY <1>5 DEF SetField
  <2>6. QED BY <1>5, <2>1, <2>2, <2>4, <2>5 DEF SetField, HeapWrite
<1>6. ASSUME NEW lo \in Fields, ArrayFill(lo) PROVE HeapWrite
  <2> DEFINE a == op_stack[Len(op_stack) - 1]
             nv == [f \in Fields |-> IF f >= lo THEN Top(op_stack) ELSE obj[a].vals[f]]
  <2>1. getObject(a) BY <1>6 DEF ArrayFill
  <2>2. a \in Addr /\ obj[a] \in Object BY <2>1, GetObjectType
  <2>3. Top(op_stack) \in Val BY <1>6, StackTypes DEF ArrayFill
  <2>4. nv \in [Fields -> Val] BY <2>2, <2>3 DEF Object
  <2>5. obj' = [obj EXCEPT ![a].vals = nv] BY <1>6 DEF ArrayFill
  <2>6. QED BY <1>6, <2>1, <2>2, <2>4, <2>5 DEF ArrayFill, HeapWrite
<1>7. ASSUME NEW lo \in Fields, ArrayCopy(lo) PROVE HeapWrite
  <2> DEFINE a == op_stack[Len(op_stack) - 1]
             src == Top(op_stack)
             nv == [f \in Fields |-> IF f >= lo THEN obj[src].vals[f] ELSE obj[a].vals[f]]
  <2>1. getObject(a) /\ getObject(src) BY <1>7 DEF ArrayCopy
  <2>2. a \in Addr /\ obj[a] \in Object /\ obj[src] \in Object
    BY <2>1, GetObjectType
  <2>4. nv \in [Fields -> Val] BY <2>2 DEF Object
  <2>5. obj' = [obj EXCEPT ![a].vals = nv] BY <1>7 DEF ArrayCopy
  <2>6. QED BY <1>7, <2>1, <2>2, <2>4, <2>5 DEF ArrayCopy, HeapWrite
<1>8. CASE \/ EndInvocation \/ AllocTrap \/ GetTrap
           \/ RefNull \/ GlobalGet \/ TableGet \/ PassArg
           \/ GlobalSet \/ TableSet \/ PassResult
           \/ JitWrite \/ JitSpill
  BY <1>8 DEF EndInvocation, AllocTrap, GetTrap, RefNull, GlobalGet, TableGet,
     PassArg, GlobalSet, TableSet, PassResult, JitWrite, JitSpill, PushFrom,
     HeapStill
<1>9. ASSUME NEW k \in Kind, NEW f \in Fields, GetField(k, f) PROVE HeapStill
  BY <1>9 DEF GetField, HeapStill
<1>10. QED
  BY <1>1, <1>2, <1>3, <1>4, <1>5, <1>6, <1>7, <1>8, <1>9 DEF Mutator

HeapInv == TypeOK /\ FreeListIsStack

LEMMA HeapInit == Init => HeapInv
<1> SUFFICES ASSUME Init PROVE HeapInv OBVIOUS
<1> USE ConstantsAssumption
<1>1. TypeOK
  BY DEF Init, TypeOK, Val, Phases
<1>2. freed = <<>> /\ Slots = {} /\ free_head = Nil
  BY DEF Init, Slots
<1>3. FreeListIsStack
  BY <1>2 DEF FreeListIsStack
<1>4. QED BY <1>1, <1>3 DEF HeapInv

LEMMA HeapNext == HeapInv /\ [Next]_vars => HeapInv'
<1> SUFFICES ASSUME HeapInv, [Next]_vars PROVE HeapInv'
  OBVIOUS
<1> USE ConstantsAssumption
<1>0. TypeOK /\ FreeListIsStack /\ Stacked
  BY FreeListGivesStacked DEF HeapInv
<1>1. CASE Mutator
  <2>1. TypeOK' BY <1>0, <1>1, MutatorType
  <2>2. CASE HeapWrite
    <3>1. PICK a \in Addr, nv \in [Fields -> Val] :
             /\ obj[a] \in Object
             /\ obj' = [obj EXCEPT ![a].vals = nv]
             /\ UNCHANGED <<len, next_free, free_head, freed>>
      BY <2>2 DEF HeapWrite
    <3>2. \A b \in Slots : IsLive(b)' <=> IsLive(b)
      BY <1>0, <3>1, WriteKeepsLive
    <3>3. QED BY <1>0, <2>1, <3>1, <3>2, FreeListStable DEF HeapInv
  <2>3. CASE HeapAlloc
    BY <1>0, <2>1, <2>3, AllocFreeList DEF HeapAlloc, HeapInv
  <2>4. CASE HeapStill
    BY <1>0, <2>1, <2>4, FreeListStable DEF HeapStill, heapVars, HeapInv, IsLive
  <2>5. QED BY <1>0, <1>1, <2>2, <2>3, <2>4, MutatorOnHeap
<1>2. CASE BeginCollect \/ Collector
  <2>1. TypeOK' BY <1>0, <1>2, CollectorType
  <2>2. CASE Sweep /\ IsLive(sweep_at) /\ ~marked[sweep_at]
    <3>1. freeSlot(sweep_at) /\ sweep_at \in Live
      BY <1>0, <2>2 DEF Sweep, Live, Slots, TypeOK
    <3>2. QED BY <1>0, <2>1, <3>1, FreeSlotFreeList DEF HeapInv
  <2>3. CASE ~(Sweep /\ IsLive(sweep_at) /\ ~marked[sweep_at])
    <3>1. UNCHANGED <<len, obj, next_free, free_head, freed>>
      BY <1>2, <2>3
         DEF BeginCollect, Collector, tryEnqueue, EnqueueOom, Drain, RootsDone,
             NextRoots, GlobalsOom, Sweep, FinishCollect, heapVars
    <3>2. QED BY <1>0, <2>1, <3>1, FreeListStable DEF HeapInv, IsLive
  <2>4. QED BY <2>2, <2>3
<1>3. CASE UNCHANGED vars
  <2>1. UNCHANGED <<len, obj, next_free, free_head, freed>>
    BY <1>3 DEF vars, heapVars
  <2>2. TypeOK'
    BY <1>0, <1>3 DEF TypeOK, vars, heapVars, paceVars, rootVars, gcVars
  <2>3. QED BY <1>0, <2>1, <2>2, FreeListStable DEF HeapInv, IsLive
<1>4. QED BY <1>1, <1>2, <1>3 DEF Next

(* The links in the free slots are a stack of exactly the free slots, for  *)
(* every heap size and every sequence of allocations and collections, also *)
(* when the host allocator fails at any point.                             *)
THEOREM FreeListCorrect == Spec => [](TypeOK /\ FreeListIsStack)
<1>1. HeapInv => TypeOK /\ FreeListIsStack BY DEF HeapInv
<1>2. QED BY HeapInit, HeapNext, <1>1, PTL DEF Spec

(* Every variable of the heap and the collector keeps its type, whenever   *)
(* the host allocator fails: in particular the counters that pace the      *)
(* collections and the links of the free list stay in range.               *)
THEOREM HeapTypes == Spec => []TypeOK
<1>1. HeapInv => TypeOK BY DEF HeapInv
<1>2. QED BY HeapInit, HeapNext, <1>1, PTL DEF Spec

\* A successful allocation adds the one slot it returns to the live ones.
LEMMA AllocLive ==
    ASSUME TypeOK, FreeListIsStack, NEW o \in Object, CanAlloc, allocSlot(o)
    PROVE  /\ Live' = Live \cup {allocSlotAddr}
           /\ allocSlotAddr \in Addr \ Live
           /\ obj' = [obj EXCEPT ![allocSlotAddr] = o]
<1> USE ConstantsAssumption
<1>1. allocSlotAddr \in Addr \ Live BY AllocFreeList
<1>2. o # NoObj BY DEF Object, NoObj
<1>3. obj' = [obj EXCEPT ![allocSlotAddr] = o] BY DEF allocSlot
<1>4. Slots \subseteq Addr /\ Slots' = Slots \cup {allocSlotAddr}
  <2>1. CASE free_head # Nil
    <3>1. allocSlotAddr \in Slots /\ len' = len
      BY <2>1 DEF FreeListIsStack, TypeOK, allocSlotAddr, allocSlot
    <3>2. QED BY <3>1 DEF Slots, TypeOK, Addr
  <2>2. CASE free_head = Nil
    BY <2>2 DEF Slots, TypeOK, Addr, allocSlot, allocSlotAddr, CanAlloc
  <2>3. QED BY <2>1, <2>2
<1>5. Live' = Live \cup {allocSlotAddr}
  BY <1>1, <1>2, <1>3, <1>4 DEF Live, IsLive, TypeOK
<1>6. QED BY <1>1, <1>3, <1>5

(* No allocation, of any tier and after any history, hands out a slot that *)
(* holds an object or changes another object.                              *)
THEOREM AllocationsAreFresh == Spec => AllocationIsFresh
<1> DEFINE Fresh1 == alloc_since_gc' > alloc_since_gc =>
         \/ obj' = obj
         \/ \E a \in Addr \ Live : /\ Live' = Live \cup {a}
                                  /\ \A b \in Live : obj'[b] = obj[b]
<1>1. HeapInv /\ [Next]_vars => [Fresh1]_vars
  <2> SUFFICES ASSUME HeapInv, Next PROVE Fresh1
    BY DEF vars
  <2>0. TypeOK /\ FreeListIsStack /\ Stacked /\ alloc_since_gc \in Nat
    BY FreeListGivesStacked DEF HeapInv, TypeOK
  <2>1. CASE Mutator
    <3>1. CASE HeapWrite
      BY <2>0, <3>1 DEF HeapWrite, paceVars
    <3>2. CASE HeapAlloc
      <4>1. PICK o \in Object : CanAlloc /\ allocSlot(o) BY <3>2 DEF HeapAlloc
      <4>2. Live \subseteq Addr
        BY <2>0, ConstantsAssumption DEF Live, Slots, Addr, TypeOK
      <4>3. \A b \in Live : obj'[b] = obj[b]
        BY <2>0, <4>1, <4>2, AllocLive DEF TypeOK
      <4>4. QED BY <2>0, <4>1, <4>3, AllocLive
    <3>3. CASE HeapStill BY <3>3 DEF HeapStill, heapVars
    <3>4. QED BY <2>0, <2>1, <3>1, <3>2, <3>3, MutatorOnHeap
  <2>2. CASE BeginCollect \/ Collector
    <3>1. alloc_since_gc' \in {alloc_since_gc, 0}
      BY <2>2
         DEF BeginCollect, Collector, tryEnqueue, EnqueueOom, Drain, RootsDone,
             NextRoots, GlobalsOom, Sweep, FinishCollect, paceVars
    <3>2. QED BY <2>0, <3>1
  <2>3. QED BY <2>1, <2>2 DEF Next
<1>2. QED BY HeapInit, HeapNext, <1>1, PTL DEF Spec, AllocationIsFresh

-----------------------------------------------------------------------------
(* References.  From here on the host allocator does not fail and the      *)
(* program keeps references only where the collector looks for them.       *)

LiveVal == Live \cup {NoRef}

\* ReferencesStayLive, outside a sweep, as the type of everything that
\* holds references.
LEMMA ClosedAsTypes ==
    ASSUME TypeOK, ReferencesStayLive, phase # "sweep"
    PROVE  /\ op_stack \in Seq(LiveVal) /\ reg \in LiveVal /\ global \in LiveVal
           /\ \A a \in Live : obj[a].vals \in [Fields -> LiveVal]
<1>1. Kept = Live BY DEF Kept
<1>2. \A i \in DOMAIN op_stack : op_stack[i] \in LiveVal
  BY <1>1 DEF ReferencesStayLive, Roots, Elems, LiveVal
<1>3. op_stack \in Seq(LiveVal) BY <1>2 DEF TypeOK
<1>4. reg \in LiveVal /\ global \in LiveVal
  BY <1>1 DEF ReferencesStayLive, Roots, LiveVal
<1>5. ASSUME NEW a \in Live PROVE obj[a].vals \in [Fields -> LiveVal]
  <2>1. obj[a] \in Object
    BY ConstantsAssumption DEF Live, Slots, IsLive, TypeOK, Addr
  <2>2. \A f \in Fields : obj[a].vals[f] \in LiveVal
    BY <1>1 DEF ReferencesStayLive, Refs, LiveVal
  <2>3. QED BY <2>1, <2>2 DEF Object
<1>6. QED BY <1>3, <1>4, <1>5

LEMMA TypesAsClosed ==
    ASSUME Unscanned = {}, phase' # "sweep",
           op_stack' \in Seq(LiveVal'), reg' \in LiveVal', global' \in LiveVal',
           \A a \in Live' : obj'[a].vals \in [Fields -> LiveVal']
    PROVE  ReferencesStayLive'
<1>1. Kept' = Live' BY DEF Kept
<1>2. Elems(op_stack') \subseteq LiveVal' BY DEF Elems
<1>3. Roots' \subseteq Live' \cup {NoRef} BY <1>2 DEF Roots, LiveVal
<1>4. \A a \in Live' : Refs(a)' \subseteq Live' BY DEF Refs, LiveVal
<1>5. QED BY <1>1, <1>3, <1>4 DEF ReferencesStayLive

\* An allocation whose fields and roots come from the live values.
LEMMA AllocClosed ==
    ASSUME TypeOK, FreeListIsStack, ReferencesStayLive, Unscanned = {},
           phase # "sweep", phase' # "sweep",
           NEW o \in Object, o.vals \in [Fields -> LiveVal], CanAlloc, allocSlot(o),
           op_stack' \in Seq(LiveVal \cup {allocSlotAddr}),
           reg' \in LiveVal \cup {allocSlotAddr}, UNCHANGED global
    PROVE  ReferencesStayLive'
<1>1. LiveVal' = LiveVal \cup {allocSlotAddr} BY AllocLive DEF LiveVal
<1>2. global' \in LiveVal' BY <1>1, ClosedAsTypes
<1>3. ASSUME NEW a \in Live' PROVE obj'[a].vals \in [Fields -> LiveVal']
  <2>1. a \in Addr
    BY AllocLive, ConstantsAssumption DEF Live, Slots, Addr, TypeOK
  <2>2. CASE a = allocSlotAddr BY <1>1, <2>1, <2>2, AllocLive DEF TypeOK
  <2>3. CASE a # allocSlotAddr
    <3>1. a \in Live /\ obj'[a] = obj[a] BY <2>1, <2>3, AllocLive DEF TypeOK
    <3>2. obj[a].vals \in [Fields -> LiveVal] BY <3>1, ClosedAsTypes
    <3>3. QED BY <1>1, <3>1, <3>2
  <2>4. QED BY <2>2, <2>3
<1>4. QED BY <1>1, <1>2, <1>3, TypesAsClosed

\* A write of live values into a live object.
LEMMA WriteClosed ==
    ASSUME TypeOK, ReferencesStayLive, Unscanned = {},
           phase # "sweep", phase' # "sweep",
           NEW a \in Addr, obj[a] \in Object, NEW nv \in [Fields -> LiveVal],
           obj' = [obj EXCEPT ![a].vals = nv], UNCHANGED len,
           op_stack' \in Seq(LiveVal), UNCHANGED <<reg, global>>
    PROVE  ReferencesStayLive'
<1>1. Live' = Live /\ LiveVal' = LiveVal BY WriteKeepsLive DEF LiveVal
<1>2. ASSUME NEW b \in Live' PROVE obj'[b].vals \in [Fields -> LiveVal']
  <2>1. b \in Addr /\ b \in Live
    <3>1. b \in Live BY <1>1
    <3>2. Live \subseteq Addr BY SlotsAreAddresses DEF Live
    <3>3. QED BY <3>1, <3>2
  <2>2. CASE b = a
    <3>1. obj'[a] = [obj[a] EXCEPT !.vals = nv] BY DEF TypeOK
    <3>2. obj'[a].vals = nv BY <3>1 DEF Object
    <3>3. QED BY <1>1, <2>2, <3>2
  <2>3. CASE b # a
    <3>1. obj'[b] = obj[b] BY <2>1, <2>3 DEF TypeOK
    <3>2. QED BY <1>1, <2>1, <3>1, ClosedAsTypes
  <2>4. QED BY <2>2, <2>3
<1>3. QED BY <1>1, <1>2, ClosedAsTypes, TypesAsClosed

\* Moving live values between the roots.
LEMMA MoveClosed ==
    ASSUME TypeOK, ReferencesStayLive, Unscanned = {},
           phase # "sweep", phase' # "sweep", UNCHANGED <<len, obj>>,
           op_stack' \in Seq(LiveVal), reg' \in LiveVal, global' \in LiveVal
    PROVE  ReferencesStayLive'
<1>1. Live' = Live /\ LiveVal' = LiveVal BY DEF Live, LiveVal, Slots, IsLive
<1>2. QED BY <1>1, ClosedAsTypes, TypesAsClosed

LEMMA MutatorClosed ==
    ASSUME TypeOK, FreeListIsStack, ReferencesStayLive, Unscanned = {}, Mutator
    PROVE  ReferencesStayLive' /\ phase = "run" /\ UNCHANGED gcVars
<1> USE ConstantsAssumption
<1>0. /\ op_stack \in Seq(LiveVal) /\ reg \in LiveVal /\ global \in LiveVal
      /\ phase = "run" /\ UNCHANGED gcVars
      /\ \A a \in Live : obj[a].vals \in [Fields -> LiveVal]
  <2>1. phase = "run" /\ UNCHANGED gcVars
    BY DEF Mutator, EndInvocation, NewFromStack, NewDefault, NewFilled,
       RegStructNew, AllocTrap, GetField, SetField, ArrayFill, ArrayCopy,
       GetTrap, RefNull, GlobalGet, TableGet, PassArg, PushFrom, GlobalSet,
       TableSet, PassResult, JitWrite, JitSpill, GcOpcode, Running
  <2>2. QED BY <2>1, ClosedAsTypes
<1>p. phase # "sweep" /\ phase' # "sweep" BY <1>0 DEF gcVars
<1>n. NoRef \in LiveVal /\ <<>> \in Seq(LiveVal) BY DEF LiveVal
<1>t. op_stack # <<>> =>
        /\ Top(op_stack) \in LiveVal
        /\ Pop(op_stack, 1) \in Seq(LiveVal)
        /\ \A v \in LiveVal : Push(Pop(op_stack, 1), v) \in Seq(LiveVal)
  <2> SUFFICES ASSUME op_stack # <<>>
               PROVE  /\ Top(op_stack) \in LiveVal
                      /\ Pop(op_stack, 1) \in Seq(LiveVal)
                      /\ \A v \in LiveVal : Push(Pop(op_stack, 1), v) \in Seq(LiveVal)
    OBVIOUS
  <2>1. 1 <= Len(op_stack) BY <1>0
  <2>2. Pop(op_stack, 1) \in Seq(LiveVal) BY <1>0, <2>1, PopFacts
  <2>3. QED BY <1>0, <2>2, TopFacts, PushFacts
<1>2. ASSUME Len(op_stack) >= 2
      PROVE  /\ op_stack # <<>> /\ Pop(op_stack, 2) \in Seq(LiveVal)
  BY <1>0, <1>2, PopFacts
<1> DEFINE W == LiveVal \cup {allocSlotAddr}
<1>w. LiveVal \subseteq W /\ op_stack \in Seq(W) /\ allocSlotAddr \in W
  BY <1>0
<1>3. ASSUME NEW k \in Kind, NewFromStack(k) PROVE ReferencesStayLive'
  <2> DEFINE flds == [f \in Fields |-> op_stack[Len(op_stack) - NFields + f]]
             o == [kind |-> k, vals |-> flds]
  <2>1. NFields \in Nat /\ NFields <= Len(op_stack) BY <1>3 DEF NewFromStack
  <2>2. flds \in [Fields -> LiveVal] /\ flds \in [Fields -> Val]
    BY <1>0, <2>1 DEF Fields, TypeOK
  <2>3. o \in Object /\ o.vals \in [Fields -> LiveVal] BY <2>2, ObjectType
  <2>4. Pop(op_stack, NFields) \in Seq(W) BY <1>w, <2>1, PopFacts
  <2>5. op_stack' \in Seq(W) BY <1>3, <1>w, <2>4, PushFacts DEF NewFromStack
  <2>6. CanAlloc /\ allocSlot(o) /\ UNCHANGED <<reg, global>>
    BY <1>3 DEF NewFromStack
  <2>7. QED BY <1>0, <1>p, <2>3, <2>5, <2>6, AllocClosed
<1>4. ASSUME NEW k \in Kind, NewDefault(k) PROVE ReferencesStayLive'
  <2> DEFINE o == [kind |-> k, vals |-> [f \in Fields |-> NoRef]]
  <2>3. o \in Object /\ o.vals \in [Fields -> LiveVal]
    BY ObjectType, <1>n DEF Val
  <2>5. op_stack' \in Seq(W) BY <1>4, <1>w, PushFacts DEF NewDefault
  <2>6. CanAlloc /\ allocSlot(o) /\ UNCHANGED <<reg, global>>
    BY <1>4 DEF NewDefault
  <2>7. QED BY <1>0, <1>p, <2>3, <2>5, <2>6, AllocClosed
<1>5. CASE NewFilled
  <2> DEFINE o == [kind |-> "array", vals |-> [f \in Fields |-> Top(op_stack)]]
  <2>1. op_stack # <<>> /\ "array" \in Kind /\ 1 <= Len(op_stack)
    BY <1>0, <1>5 DEF NewFilled
  <2>2. Top(op_stack) \in Val BY <2>1, StackTypes
  <2>3. o \in Object /\ o.vals \in [Fields -> LiveVal]
    BY <1>t, <2>1, <2>2, ObjectType
  <2>4. Pop(op_stack, 1) \in Seq(W) BY <1>w, <2>1, PopFacts
  <2>5. op_stack' \in Seq(W) BY <1>5, <1>w, <2>4, PushFacts DEF NewFilled
  <2>6. CanAlloc /\ allocSlot(o) /\ UNCHANGED <<reg, global>>
    BY <1>5 DEF NewFilled
  <2>7. QED BY <1>0, <1>p, <2>3, <2>5, <2>6, AllocClosed
<1>6. CASE RegStructNew
  <2> DEFINE o == [kind |-> "struct", vals |-> [f \in Fields |-> reg]]
  <2>3. o \in Object /\ o.vals \in [Fields -> LiveVal]
    BY <1>0, <1>6, ObjectType DEF RegStructNew, TypeOK
  <2>6. CanAlloc /\ allocSlot(o) /\ UNCHANGED <<op_stack, global>> /\ reg' \in W
    BY <1>6, <1>w DEF RegStructNew
  <2>7. QED BY <1>0, <1>p, <1>w, <2>3, <2>6, AllocClosed
<1>7. ASSUME NEW k \in Kind, NEW f \in Fields, GetField(k, f)
      PROVE  ReferencesStayLive'
  <2>1. op_stack # <<>> /\ Top(op_stack) \in Live
    BY <1>7 DEF GetField, getObject, Live
  <2>2. obj[Top(op_stack)].vals[f] \in LiveVal BY <1>0, <2>1
  <2>3. op_stack' \in Seq(LiveVal) BY <1>7, <1>t, <2>1, <2>2 DEF GetField
  <2>4. QED BY <1>0, <1>7, <1>p, <2>3, MoveClosed DEF GetField, heapVars
<1>8. ASSUME NEW k \in Kind, NEW f \in Fields, SetField(k, f)
      PROVE  ReferencesStayLive'
  <2> DEFINE a == op_stack[Len(op_stack) - 1]
             nv == [obj[a].vals EXCEPT ![f] = Top(op_stack)]
  <2>1. getObject(a) /\ Len(op_stack) >= 2 BY <1>8 DEF SetField
  <2>2. a \in Addr /\ obj[a] \in Object BY <2>1, GetObjectType
  <2>3. a \in Live BY <2>1 DEF getObject, Live
  <2>4. nv \in [Fields -> LiveVal] BY <1>0, <1>2, <1>t, <2>1, <2>3
  <2>5. obj' = [obj EXCEPT ![a].vals = nv] /\ UNCHANGED <<len, reg, global>>
        /\ op_stack' \in Seq(LiveVal)
    BY <1>8, <1>2, <2>1 DEF SetField
  <2>6. QED BY <1>0, <1>p, <2>2, <2>4, <2>5, WriteClosed
<1>9. ASSUME NEW lo \in Fields, ArrayFill(lo) PROVE ReferencesStayLive'
  <2> DEFINE a == op_stack[Len(op_stack) - 1]
             nv == [f \in Fields |-> IF f >= lo THEN Top(op_stack) ELSE obj[a].vals[f]]
  <2>1. getObject(a) /\ Len(op_stack) >= 2 BY <1>9 DEF ArrayFill
  <2>2. a \in Addr /\ obj[a] \in Object BY <2>1, GetObjectType
  <2>3. a \in Live BY <2>1 DEF getObject, Live
  <2>4. nv \in [Fields -> LiveVal] BY <1>0, <1>2, <1>t, <2>1, <2>3
  <2>5. obj' = [obj EXCEPT ![a].vals = nv] /\ UNCHANGED <<len, reg, global>>
        /\ op_stack' \in Seq(LiveVal)
    BY <1>9, <1>2, <2>1 DEF ArrayFill
  <2>6. QED BY <1>0, <1>p, <2>2, <2>4, <2>5, WriteClosed
<1>10. ASSUME NEW lo \in Fields, ArrayCopy(lo) PROVE ReferencesStayLive'
  <2> DEFINE a == op_stack[Len(op_stack) - 1]
             src == Top(op_stack)
             nv == [f \in Fields |-> IF f >= lo THEN obj[src].vals[f] ELSE obj[a].vals[f]]
  <2>1. getObject(a) /\ getObject(src) /\ Len(op_stack) >= 2
    BY <1>10 DEF ArrayCopy
  <2>2. a \in Addr /\ obj[a] \in Object BY <2>1, GetObjectType
  <2>3. a \in Live /\ src \in Live BY <2>1 DEF getObject, Live
  <2>4. nv \in [Fields -> LiveVal] BY <1>0, <2>3
  <2>5. obj' = [obj EXCEPT ![a].vals = nv] /\ UNCHANGED <<len, reg, global>>
        /\ op_stack' \in Seq(LiveVal)
    BY <1>10, <1>2, <2>1 DEF ArrayCopy
  <2>6. QED BY <1>0, <1>p, <2>2, <2>4, <2>5, WriteClosed
<1>11. CASE EndInvocation \/ AllocTrap \/ GetTrap
  <2>1. op_stack' = <<>> /\ reg' = NoRef /\ global' = global /\ UNCHANGED <<len, obj>>
    BY <1>11 DEF EndInvocation, AllocTrap, GetTrap, LeaveInvocation, heapVars
  <2>2. QED BY <1>0, <1>n, <1>p, <2>1, MoveClosed
<1>12. CASE RefNull \/ GlobalGet \/ TableGet \/ PassArg
  <2>1. PICK v \in LiveVal : PushFrom(v)
    BY <1>0, <1>12, <1>n DEF RefNull, GlobalGet, TableGet, PassArg
  <2>2. op_stack' \in Seq(LiveVal) BY <1>0, <2>1, PushFacts DEF PushFrom
  <2>3. QED BY <1>0, <1>p, <2>1, <2>2, MoveClosed DEF PushFrom, heapVars
<1>13. CASE GlobalSet \/ PassResult
  BY <1>0, <1>p, <1>t, <1>13, MoveClosed DEF GlobalSet, PassResult, heapVars
<1>14. CASE TableSet \/ JitWrite \/ JitSpill
  BY <1>14 DEF TableSet, JitWrite, JitSpill
<1>15. QED
  BY <1>0, <1>3, <1>4, <1>5, <1>6, <1>7, <1>8, <1>9, <1>10, <1>11, <1>12,
     <1>13, <1>14 DEF Mutator

-----------------------------------------------------------------------------
(* The collector.                                                          *)

\* What the marker and the sweeper rely on besides the tricolour invariant.
WorkInv ==
    /\ queue \subseteq Live
    /\ pending \subseteq LiveVal
    /\ ~Marking => queue = {} /\ pending = {}
    /\ phase = "sweep" =>
         \A a \in Live : a < sweep_at => marked[a]

RefInv == HeapInv /\ ReferencesStayLive /\ MarkerMissesNothing /\ WorkInv

LEMMA RefInit == ASSUME Unscanned = {}, Init PROVE RefInv
<1>1. HeapInv BY HeapInit
<1>2. Live = {} /\ Kept = {} BY DEF Init, Live, Kept, Slots
<1>3. Roots = {NoRef} BY DEF Init, Roots, Elems
<1>4. ~Marking BY DEF Init, Marking
<1>5. ReferencesStayLive BY <1>2, <1>3 DEF ReferencesStayLive
<1>6. MarkerMissesNothing /\ WorkInv
  BY <1>2, <1>4 DEF MarkerMissesNothing, WorkInv, Init
<1>7. QED BY <1>1, <1>5, <1>6 DEF RefInv

LEMMA RefMutator ==
    ASSUME Unscanned = {}, RefInv, Mutator PROVE RefInv'
<1>1. TypeOK /\ FreeListIsStack /\ ReferencesStayLive BY DEF RefInv, HeapInv
<1>2. HeapInv' BY HeapNext DEF RefInv, Next
<1>3. ReferencesStayLive' /\ phase = "run" /\ UNCHANGED gcVars
  BY <1>1, MutatorClosed
<1>4. ~Marking' /\ ~Marking BY <1>3 DEF Marking, gcVars
<1>5. MarkerMissesNothing' BY <1>4 DEF MarkerMissesNothing
<1>6. WorkInv' BY <1>3, <1>4 DEF WorkInv, gcVars, RefInv
<1>7. QED BY <1>2, <1>3, <1>5, <1>6 DEF RefInv

\* While the marker works the objects do not change.
LEMMA StillFacts ==
    ASSUME UNCHANGED <<len, obj>>
    PROVE  /\ Slots' = Slots /\ Live' = Live /\ LiveVal' = LiveVal
           /\ \A a : Refs(a)' = Refs(a) /\ IsLive(a)' = IsLive(a)
  BY DEF Slots, Live, LiveVal, Refs, IsLive

LEMMA StillClosed ==
    ASSUME ReferencesStayLive, UNCHANGED <<len, obj, rootVars>>,
           phase # "sweep", phase' # "sweep"
    PROVE  ReferencesStayLive'
<1>1. Live' = Live /\ \A a : Refs(a)' = Refs(a) BY StillFacts
<1>2. Kept' = Kept BY <1>1 DEF Kept
<1>3. Roots' = Roots BY DEF Roots, Elems, rootVars
<1>4. QED BY <1>1, <1>2, <1>3 DEF ReferencesStayLive

LEMMA RefCollector ==
    ASSUME Unscanned = {}, MayOom = FALSE, RefInv, BeginCollect \/ Collector
    PROVE  RefInv'
<1> USE ConstantsAssumption DEF heapVars, paceVars
<1>0. /\ TypeOK /\ FreeListIsStack /\ ReferencesStayLive
      /\ MarkerMissesNothing /\ WorkInv
      /\ Live \subseteq Addr /\ Slots \subseteq Addr
  BY DEF RefInv, HeapInv, Live, Slots, Addr, TypeOK
<1>h. HeapInv' BY HeapNext DEF RefInv, Next
<1>r. \A p \in Phases : RootsOf(p) \subseteq Roots \cup {NoRef}
  BY DEF RootsOf, Roots
<1>v. phase # "sweep" => /\ Roots \subseteq LiveVal
                         /\ \A a \in Live : Refs(a) \subseteq Live
  BY <1>0 DEF ReferencesStayLive, Kept, LiveVal
<1>1. CASE BeginCollect
  <2>1. /\ phase = "run" /\ phase' = "op" /\ UNCHANGED <<len, obj, rootVars>>
        /\ marked' = [a \in Addr |-> FALSE] /\ queue' = queue
        /\ pending' = RootsOf("op")
    BY <1>1 DEF BeginCollect, Running
  <2>2. ReferencesStayLive' BY <1>0, <2>1, StillClosed
  <2>3. queue' = {} BY <1>0, <2>1 DEF WorkInv, Marking
  <2>4. WorkInv'
    <3>1. pending' \subseteq LiveVal'
      BY <1>r, <1>v, <2>1, StillFacts DEF Phases, LiveVal
    <3>2. QED BY <2>1, <2>3, <3>1 DEF WorkInv, Marking
  <2>5. MarkerMissesNothing'
    <3>1. \A a \in Live' : ~marked'[a] BY <1>0, <2>1, StillFacts
    <3>2. RootsOf("op")' = RootsOf("op") BY <2>1 DEF RootsOf, rootVars
    <3>3. ~Scanned("reg")' /\ ~Scanned("global")' BY <2>1 DEF Scanned
    <3>4. QED BY <2>1, <3>1, <3>2, <3>3 DEF MarkerMissesNothing
  <2>6. QED BY <1>h, <2>2, <2>4, <2>5 DEF RefInv
<1>2. ASSUME NEW v \in pending, tryEnqueue(v) PROVE RefInv'
  <2>1. /\ Marking /\ phase' = phase /\ UNCHANGED <<len, obj, rootVars>>
        /\ pending' = pending \ {v}
    BY <1>2 DEF tryEnqueue
  <2>p. phase # "sweep" /\ phase' # "sweep" BY <2>1 DEF Marking
  <2>2. ReferencesStayLive' BY <1>0, <2>1, <2>p, StillClosed
  <2>3. v \in LiveVal BY <1>0 DEF WorkInv
  <2>4. \A p : RootsOf(p)' = RootsOf(p) /\ Scanned(p)' = Scanned(p)
    BY <2>1 DEF RootsOf, rootVars, Scanned
  <2>5. CASE Fresh(v)
    <3>1. /\ v \in Live /\ v \in Addr
          /\ marked' = [marked EXCEPT ![v] = TRUE] /\ queue' = queue \cup {v}
      BY <1>0, <1>2, <2>5 DEF tryEnqueue, Fresh, Live
    <3>2. WorkInv'
      BY <1>0, <2>1, <2>p, <3>1, StillFacts DEF WorkInv, Marking
    <3>3. \A a \in Addr : marked'[a] <=> marked[a] \/ a = v
      BY <1>0, <3>1 DEF TypeOK
    <3>4. ASSUME NEW a \in Live', marked'[a], a \notin queue', NEW r \in Refs(a)'
          PROVE  marked'[r] \/ r \in pending'
      <4>1. a \in Live /\ a \in Addr /\ r \in Refs(a) /\ marked[a] /\ a \notin queue
        BY <1>0, <2>1, <3>1, <3>3, <3>4, StillFacts
      <4>2. marked[r] \/ r \in pending
        BY <1>0, <2>1, <4>1 DEF MarkerMissesNothing
      <4>3. r \in Addr BY <1>0, <1>v, <2>p, <4>1
      <4>4. QED BY <2>1, <3>3, <4>2, <4>3
    <3>5. ASSUME NEW p \in {"op", "reg", "global"}, Scanned(p)',
                 NEW w \in RootsOf(p)' \ {NoRef}
          PROVE  marked'[w] \/ w \in pending'
      <4>1. w \in RootsOf(p) \ {NoRef} /\ Scanned(p) BY <2>4, <3>5
      <4>2. marked[w] \/ w \in pending BY <1>0, <2>1, <4>1 DEF MarkerMissesNothing
      <4>3. w \in Addr BY <1>0, <1>r, <1>v, <2>p, <4>1 DEF Phases, LiveVal
      <4>4. QED BY <2>1, <3>3, <4>2, <4>3
    <3>6. MarkerMissesNothing' BY <3>4, <3>5 DEF MarkerMissesNothing
    <3>7. QED BY <1>h, <2>2, <3>2, <3>6 DEF RefInv
  <2>6. CASE ~Fresh(v)
    <3>1. UNCHANGED <<marked, queue>> BY <1>2, <2>6 DEF tryEnqueue
    <3>2. v = NoRef \/ marked[v] BY <2>3, <2>6 DEF Fresh, LiveVal, Live
    <3>3. WorkInv'
      BY <1>0, <2>1, <2>p, <3>1, StillFacts DEF WorkInv, Marking
    <3>4. ASSUME NEW a \in Live', marked'[a], a \notin queue', NEW r \in Refs(a)'
          PROVE  marked'[r] \/ r \in pending'
      <4>1. a \in Live /\ r \in Refs(a) /\ marked[a] /\ a \notin queue
        BY <2>1, <3>1, <3>4, StillFacts
      <4>2. marked[r] \/ r \in pending
        BY <1>0, <2>1, <4>1 DEF MarkerMissesNothing
      <4>3. r # NoRef BY <4>1 DEF Refs
      <4>4. QED BY <2>1, <3>1, <3>2, <4>2, <4>3
    <3>5. ASSUME NEW p \in {"op", "reg", "global"}, Scanned(p)',
                 NEW w \in RootsOf(p)' \ {NoRef}
          PROVE  marked'[w] \/ w \in pending'
      <4>1. w \in RootsOf(p) \ {NoRef} /\ Scanned(p) BY <2>4, <3>5
      <4>2. marked[w] \/ w \in pending BY <1>0, <2>1, <4>1 DEF MarkerMissesNothing
      <4>3. QED BY <2>1, <3>1, <3>2, <4>1, <4>2
    <3>6. MarkerMissesNothing' BY <3>4, <3>5 DEF MarkerMissesNothing
    <3>7. QED BY <1>h, <2>2, <3>3, <3>6 DEF RefInv
  <2>7. QED BY <2>5, <2>6
<1>3. ASSUME NEW a \in queue, Drain(a) PROVE RefInv'
  <2>1. /\ Marking /\ phase' = phase /\ UNCHANGED <<len, obj, rootVars, marked>>
        /\ pending = {} /\ pending' = Refs(a) /\ queue' = queue \ {a}
        /\ a \in Live
    BY <1>0, <1>3 DEF Drain, WorkInv
  <2>p. phase # "sweep" /\ phase' # "sweep" BY <2>1 DEF Marking
  <2>2. ReferencesStayLive' BY <1>0, <2>1, <2>p, StillClosed
  <2>3. \A p : RootsOf(p)' = RootsOf(p) /\ Scanned(p)' = Scanned(p)
    BY <2>1 DEF RootsOf, rootVars, Scanned
  <2>4. WorkInv'
    BY <1>0, <1>v, <2>1, <2>p, StillFacts DEF WorkInv, Marking, LiveVal
  <2>5. MarkerMissesNothing'
    BY <1>0, <2>1, <2>3, StillFacts DEF MarkerMissesNothing, Marking
  <2>6. QED BY <1>h, <2>2, <2>4, <2>5 DEF RefInv
<1>4. CASE RootsDone
  <2>1. /\ Marking /\ pending = {} /\ queue = {}
        /\ phase' = After(phase) /\ pending' = RootsOf(After(phase))
        /\ queue' = {} /\ sweep_at' = 0
        /\ UNCHANGED <<len, obj, marked, rootVars>>
    BY <1>4 DEF RootsDone, NextRoots
  <2>2. CASE phase \in {"op", "reg"}
    <3>1. phase' \in {"reg", "global"} /\ phase # "sweep" /\ phase' # "sweep"
      BY <2>1, <2>2 DEF After
    <3>2. ReferencesStayLive' BY <1>0, <2>1, <3>1, StillClosed
    <3>3. pending' \subseteq LiveVal'
      BY <1>r, <1>v, <2>1, <3>1, StillFacts DEF Phases, LiveVal
    <3>4. WorkInv' BY <2>1, <3>1, <3>3 DEF WorkInv, Marking
    <3>5. \A p : RootsOf(p)' = RootsOf(p) BY <2>1 DEF RootsOf, rootVars
    <3>6. \A p \in {"op", "reg", "global"} :
             Scanned(p)' => Scanned(p) \/ pending' = RootsOf(p)
      BY <2>1, <2>2 DEF Scanned, After
    <3>7. \A b \in Live' : marked'[b] /\ b \notin queue' =>
             \A q \in Refs(b)' : marked'[q] \/ q \in pending'
      BY <1>0, <2>1, StillFacts DEF MarkerMissesNothing
    <3>8. MarkerMissesNothing'
      BY <1>0, <2>1, <3>5, <3>6, <3>7 DEF MarkerMissesNothing
    <3>9. QED BY <1>h, <3>2, <3>4, <3>8 DEF RefInv
  <2>3. CASE phase = "global"
    <3>1. phase' = "sweep" /\ pending' = {} BY <2>1, <2>3 DEF After, RootsOf
    <3>2. Scanned("op") /\ Scanned("reg") /\ Scanned("global")
      BY <2>3 DEF Scanned
    <3>3. \A w \in Roots \ {NoRef} : marked[w]
      <4>1. \A p \in {"op", "reg", "global"} : \A w \in RootsOf(p) \ {NoRef} : marked[w]
        BY <1>0, <2>1, <3>2 DEF MarkerMissesNothing
      <4>2. Roots = RootsOf("op") \cup RootsOf("reg") \cup RootsOf("global")
        BY DEF Roots, RootsOf
      <4>3. QED BY <4>1, <4>2
    <3>4. Kept' = {b \in Live : marked[b]}
      BY <2>1, <3>1, StillFacts DEF Kept
    <3>5. Roots' = Roots BY <2>1 DEF Roots, Elems, rootVars
    <3>6. \A b \in Kept' : Refs(b)' \subseteq Kept'
      BY <1>0, <1>v, <2>1, <2>3, <3>4, StillFacts DEF MarkerMissesNothing
    <3>7. ReferencesStayLive'
      BY <1>v, <2>3, <3>3, <3>4, <3>5, <3>6 DEF ReferencesStayLive, LiveVal
    <3>8. ~Marking' BY <3>1 DEF Marking
    <3>9. WorkInv'
      <4>1. \A b \in Live' : ~(b < 0)
        <5>1. Live' = Live BY <2>1, StillFacts
        <5>2. \A b \in Live : b \in Int /\ b >= 0 BY <1>0, AddrFacts
        <5>3. QED BY <5>1, <5>2
      <4>2. QED BY <2>1, <3>1, <3>8, <4>1 DEF WorkInv
    <3>10. QED BY <1>h, <3>7, <3>8, <3>9 DEF RefInv, MarkerMissesNothing
  <2>4. QED BY <2>1, <2>2, <2>3 DEF Marking
<1>5. CASE Sweep
  <2>1. /\ phase = "sweep" /\ phase' = "sweep" /\ sweep_at \in Slots
        /\ sweep_at' = sweep_at + 1 /\ UNCHANGED <<len, rootVars, pending, queue>>
    BY <1>0, <1>5 DEF Sweep, freeSlot, Slots, TypeOK
  <2>2. Kept = {b \in Live : marked[b]} /\ Kept' = {b \in Live' : marked'[b]}
    BY <2>1 DEF Kept
  <2>3. Roots' = Roots BY <2>1 DEF Roots, Elems, rootVars
  <2>m. ~Marking /\ ~Marking' BY <2>1 DEF Marking
  <2>4. CASE IsLive(sweep_at) /\ ~marked[sweep_at]
    <3>1. freeSlot(sweep_at) BY <1>5, <2>4 DEF Sweep
    <3>2. /\ obj' = [obj EXCEPT ![sweep_at] = NoObj]
          /\ marked' = [marked EXCEPT ![sweep_at] = FALSE]
      BY <3>1 DEF freeSlot
    <3>3. Live' = Live \ {sweep_at}
      BY <1>0, <2>1, <3>2 DEF Live, IsLive, Slots, TypeOK
    <3>4. \A b \in Live' : marked'[b] = marked[b] /\ Refs(b)' = Refs(b)
      BY <1>0, <3>2, <3>3 DEF Refs, TypeOK
    <3>5. Kept' = Kept BY <2>2, <2>4, <3>3, <3>4
    <3>6. ReferencesStayLive'
      BY <1>0, <2>2, <2>3, <3>4, <3>5 DEF ReferencesStayLive
    <3>7. WorkInv'
      <4>1. queue' = {} /\ pending' = {} BY <1>0, <2>1, <2>m DEF WorkInv
      <4>2. ASSUME NEW b \in Live', b < sweep_at' PROVE marked'[b]
        <5>1. b \in Live /\ b # sweep_at /\ b \in Int /\ sweep_at \in Int
          BY <1>0, <2>1, <3>3, AddrFacts
        <5>2. b < sweep_at BY <2>1, <4>2, <5>1
        <5>3. QED BY <1>0, <2>1, <3>4, <5>1, <5>2 DEF WorkInv
      <4>3. QED BY <2>m, <4>1, <4>2 DEF WorkInv
    <3>8. QED BY <1>h, <2>m, <3>6, <3>7 DEF RefInv, MarkerMissesNothing
  <2>5. CASE ~(IsLive(sweep_at) /\ ~marked[sweep_at])
    <3>1. UNCHANGED <<obj, marked>> BY <1>5, <2>5 DEF Sweep
    <3>2. Live' = Live /\ \A b : Refs(b)' = Refs(b) BY <2>1, <3>1, StillFacts
    <3>3. ReferencesStayLive'
      BY <1>0, <2>2, <2>3, <3>1, <3>2 DEF ReferencesStayLive
    <3>4. WorkInv'
      <4>1. queue' = {} /\ pending' = {} BY <1>0, <2>1, <2>m DEF WorkInv
      <4>2. ASSUME NEW b \in Live', b < sweep_at' PROVE marked'[b]
        <5>1. b \in Live /\ b \in Int /\ sweep_at \in Int
          BY <1>0, <2>1, <3>2, AddrFacts
        <5>2. b < sweep_at \/ b = sweep_at BY <2>1, <4>2, <5>1
        <5>3. QED BY <1>0, <2>1, <2>5, <3>1, <5>1, <5>2 DEF WorkInv, Live
      <4>3. QED BY <2>m, <4>1, <4>2 DEF WorkInv
    <3>5. QED BY <1>h, <2>m, <3>3, <3>4 DEF RefInv, MarkerMissesNothing
  <2>6. QED BY <2>4, <2>5
<1>6. CASE FinishCollect
  <2>1. /\ phase = "sweep" /\ phase' = "run" /\ sweep_at = len
        /\ UNCHANGED <<len, obj, marked, rootVars, pending, queue>>
    BY <1>6 DEF FinishCollect
  <2>m. ~Marking /\ ~Marking' BY <2>1 DEF Marking
  <2>2. Live' = Live /\ \A b : Refs(b)' = Refs(b) BY <2>1, StillFacts
  <2>3. Kept = Live
    BY <1>0, <2>1 DEF Kept, WorkInv, Live, Slots, TypeOK
  <2>4. Kept' = Live BY <2>1, <2>2 DEF Kept
  <2>5. Roots' = Roots BY <2>1 DEF Roots, Elems, rootVars
  <2>6. ReferencesStayLive'
    BY <1>0, <2>2, <2>3, <2>4, <2>5 DEF ReferencesStayLive
  <2>7. WorkInv'
    BY <1>0, <2>1, <2>m DEF WorkInv
  <2>8. QED BY <1>h, <2>m, <2>6, <2>7 DEF RefInv, MarkerMissesNothing
<1>7. ASSUME GlobalsOom \/ \E v \in pending : EnqueueOom(v) PROVE FALSE
  BY <1>7 DEF GlobalsOom, EnqueueOom
<1>8. QED BY <1>1, <1>2, <1>3, <1>4, <1>5, <1>6, <1>7 DEF Collector

(* As long as memory does not run out and references are kept only on the  *)
(* two stacks, in globals and in objects, no collection ever frees an      *)
(* object that something which survives refers to.                         *)
THEOREM NoLiveObjectIsFreed ==
    ASSUME Unscanned = {}, MayOom = FALSE
    PROVE  Spec => [](ReferencesStayLive /\ MarkerMissesNothing)
<1>1. Init => RefInv BY RefInit
<1>2. RefInv /\ [Next]_vars => RefInv'
  <2> SUFFICES ASSUME RefInv, [Next]_vars PROVE RefInv'
    OBVIOUS
  <2>1. CASE Mutator BY <2>1, RefMutator
  <2>2. CASE BeginCollect \/ Collector BY <2>2, RefCollector
  <2>3. CASE UNCHANGED vars
    <3>1. HeapInv' BY <2>3, HeapNext DEF RefInv
    <3>2. UNCHANGED <<len, obj, marked, rootVars, gcVars>>
      BY <2>3 DEF vars, heapVars
    <3>3. /\ Live' = Live /\ LiveVal' = LiveVal
          /\ \A a : Refs(a)' = Refs(a)
      BY <3>2, StillFacts
    <3>4. Roots' = Roots /\ Kept' = Kept /\ Marking' = Marking
      BY <3>2, <3>3 DEF Roots, Elems, rootVars, Kept, gcVars, Marking
    <3>5. ReferencesStayLive' BY <3>3, <3>4 DEF ReferencesStayLive, RefInv
    <3>6. \A p : RootsOf(p)' = RootsOf(p) /\ Scanned(p)' = Scanned(p)
      BY <3>2 DEF RootsOf, Scanned, rootVars, gcVars
    <3>7. MarkerMissesNothing'
      BY <3>2, <3>3, <3>4, <3>6 DEF MarkerMissesNothing, RefInv, gcVars
    <3>8. WorkInv' BY <3>2, <3>3, <3>4 DEF WorkInv, RefInv, gcVars
    <3>9. QED BY <3>1, <3>5, <3>7, <3>8 DEF RefInv
  <2>4. QED BY <2>1, <2>2, <2>3 DEF Next
<1>3. RefInv => ReferencesStayLive /\ MarkerMissesNothing BY DEF RefInv
<1>4. QED BY <1>1, <1>2, <1>3, PTL DEF Spec

(* The marker's own part of the argument, at every point inside a          *)
(* collection: under the same hypotheses, what the root sets scanned and   *)
(* the objects visited so far refer to is marked or still to be looked at. *)
THEOREM MarkerIsComplete ==
    ASSUME Unscanned = {}, MayOom = FALSE
    PROVE  Spec => []MarkerMissesNothing
<1>1. Spec => [](ReferencesStayLive /\ MarkerMissesNothing)
  BY NoLiveObjectIsFreed
<1>2. (ReferencesStayLive /\ MarkerMissesNothing) => MarkerMissesNothing
  OBVIOUS
<1>3. QED BY <1>1, <1>2, PTL
=============================================================================
