------------------------------- MODULE GcHeap -------------------------------
(***************************************************************************)
(* The garbage-collected heap of zwasm (src/src/gc.zig) together with the  *)
(* virtual machine that allocates from it and starts its collections       *)
(* (executeGc and tryCollectGarbage in src/src/vm.zig).                    *)
(*                                                                         *)
(* The heap is an array of slots threaded by an intrusive free list.  A    *)
(* collection runs with the program stopped, but not in one step: the     *)
(* marker walks three root sets one after the other, each with a work      *)
(* queue of its own, every append to the queue may run out of memory, the  *)
(* caller ignores the error, and the sweeper then visits the slots one by  *)
(* one.                                                                    *)
(*                                                                         *)
(* A 64-bit stack value is reduced to what the collector sees in it: the   *)
(* address it decodes to, or NoRef (null, i31, funcref, plain number).     *)
(* The pending part of the marker's queue is a set: the order in which the *)
(* breadth-first search visits objects does not matter to any property.    *)
(***************************************************************************)
EXTENDS Integers, Sequences, FiniteSets

CONSTANTS
    MaxSlots,           \* bound on the number of slots
    Kind,               \* kinds of object the module uses
    NFields,            \* fields of a struct, elements of an array
    MaxOps,             \* depth of the operand stack
    GcThresholdDefault, \* GC_THRESHOLD_DEFAULT, 1024 in the code
    MaxSince,           \* cap on alloc_since_gc
    MayOom,             \* can the host allocator fail?
    Unscanned           \* reference holders in use that are not root sets:
                        \* "table", "native" (callee-saved machine registers)

ASSUME ConstantsAssumption ==
    /\ MaxSlots \in Nat
    /\ Kind \subseteq {"struct", "array"}
    /\ NFields \in Nat
    /\ MaxOps \in Nat
    /\ GcThresholdDefault \in Nat \ {0}
    /\ MaxSince \in Nat
    /\ MayOom \in BOOLEAN
    /\ Unscanned \subseteq {"table", "native"}

Addr   == 0 .. (MaxSlots - 1)
NoRef  == -1                        \* a stack value that is not a GC reference
Val    == Addr \cup {NoRef}
Fields == 1 .. NFields
NoObj  == [kind |-> "free", vals |-> [f \in Fields |-> NoRef]]
Object == [kind : Kind, vals : [Fields -> Val]]
Nil    == -1                        \* null of the optional free-list links

VARIABLES
    len,            \* slots.items.len
    obj,            \* GcSlot.obj of every slot, NoObj when free
    marked,         \* GcSlot.marked
    next_free,      \* GcSlot.next_free
    free_head,
    alloc_since_gc,
    gc_threshold,
    op_stack,       \* Vm.op_stack[0..op_ptr]
    reg,            \* the live part of Vm.reg_stack, one register
    global,         \* Store.globals, one mutable reference global
    hidden,         \* the value in each holder of Unscanned
    phase,          \* where tryCollectGarbage is; "run" when it is not active
    pending,        \* values the marker's current loop has still to look at
    queue,          \* the marker's queue.items[cursor..]
    sweep_at,       \* the sweeper's loop variable
    live_before,    \* countLive() when the collection began
    freed           \* history: the free slots, most recently freed last

heapVars == <<len, obj, marked, next_free, free_head, freed>>
paceVars == <<alloc_since_gc, gc_threshold>>
rootVars == <<op_stack, reg, global, hidden>>
gcVars   == <<phase, pending, queue, sweep_at, live_before>>
vars     == <<heapVars, paceVars, rootVars, gcVars>>

Slots   == 0 .. (len - 1)
IsLive(a) == obj[a] # NoObj
Live    == {a \in Slots : IsLive(a)}
Refs(a) == {obj[a].vals[f] : f \in Fields} \ {NoRef}
Elems(s) == {s[i] : i \in DOMAIN s}
Push(s, v) == Append(s, v)
Pop(s, n) == SubSeq(s, 1, Len(s) - n)
Top(s) == s[Len(s)]

Phases == {"run", "op", "reg", "global", "sweep"}

-----------------------------------------------------------------------------
(* GcHeap.init; the VM has run nothing yet.                                *)
Init ==
    /\ len = 0
    /\ obj = [a \in Addr |-> NoObj]
    /\ marked = [a \in Addr |-> FALSE]
    /\ next_free = [a \in Addr |-> Nil]
    /\ free_head = Nil
    /\ alloc_since_gc = 0
    /\ gc_threshold = GcThresholdDefault
    /\ op_stack = <<>> /\ reg = NoRef /\ global = NoRef
    /\ hidden = [h \in Unscanned |-> NoRef]
    /\ phase = "run" /\ pending = {} /\ queue = {} /\ sweep_at = 0 /\ live_before = 0
    /\ freed = <<>>

shouldCollect == alloc_since_gc >= gc_threshold

-----------------------------------------------------------------------------
(***************************************************************************)
(* Allocation: allocStruct, allocArray and allocArrayWithValues all end in *)
(* allocSlot, which reuses the head of the free list or appends a slot.    *)
(***************************************************************************)

\* The address allocSlot returns; MaxSlots bounds the append.
CanAlloc == free_head # Nil \/ len < MaxSlots
allocSlotAddr == IF free_head # Nil THEN free_head ELSE len

\* Mutant: the reused slot stays at the head of the free list.
allocSlotNoPop(o) ==
    /\ alloc_since_gc < MaxSince
    /\ alloc_since_gc' = alloc_since_gc + 1
    /\ len' = IF free_head # Nil THEN len ELSE len + 1
    /\ obj' = [obj EXCEPT ![allocSlotAddr] = o]
    /\ marked' = [marked EXCEPT ![allocSlotAddr] = FALSE]
    /\ next_free' = [next_free EXCEPT ![allocSlotAddr] = Nil]
    /\ UNCHANGED <<free_head, freed, gc_threshold>>

allocSlot(o) ==
    /\ alloc_since_gc < MaxSince
    /\ alloc_since_gc' = alloc_since_gc + 1
    /\ IF free_head # Nil
       THEN /\ free_head' = next_free[free_head]
            /\ freed' = Pop(freed, 1)
            /\ len' = len
       ELSE /\ len' = len + 1
            /\ UNCHANGED <<free_head, freed>>
    /\ obj' = [obj EXCEPT ![allocSlotAddr] = o]
    /\ marked' = [marked EXCEPT ![allocSlotAddr] = FALSE]
    /\ next_free' = [next_free EXCEPT ![allocSlotAddr] = Nil]
    /\ UNCHANGED gc_threshold

\* Mutant: the old head of the list is not linked behind the new one.
freeSlotNoLink(a) ==
    /\ obj' = [obj EXCEPT ![a] = NoObj]
    /\ marked' = [marked EXCEPT ![a] = FALSE]
    /\ free_head' = a
    /\ freed' = Append(freed, a)
    /\ UNCHANGED <<len, next_free>>

\* freeSlot: the slot becomes the new head of the free list.
freeSlot(a) ==
    /\ obj' = [obj EXCEPT ![a] = NoObj]
    /\ marked' = [marked EXCEPT ![a] = FALSE]
    /\ next_free' = [next_free EXCEPT ![a] = free_head]
    /\ free_head' = a
    /\ freed' = Append(freed, a)
    /\ UNCHANGED len

-----------------------------------------------------------------------------
(***************************************************************************)
(* The program.  GC opcodes of the bytecode interpreter first call         *)
(* tryCollectGarbage, so with shouldCollect true they start a collection   *)
(* instead (BeginCollect).  The struct opcodes of the predecoded and the   *)
(* register tiers never collect.                                           *)
(***************************************************************************)

Running == phase = "run"
GcOpcode == Running /\ ~shouldCollect

\* A trap or a return leaves the invocation; the next one starts from
\* Vm.reset with both stacks empty, and the machine registers are gone.
LeaveInvocation ==
    /\ op_stack' = <<>> /\ reg' = NoRef
    /\ hidden' = [h \in Unscanned |-> IF h = "native" THEN NoRef ELSE hidden[h]]

EndInvocation ==
    /\ Running
    /\ LeaveInvocation
    /\ UNCHANGED <<heapVars, paceVars, gcVars, global>>

\* struct.new, array.new_fixed: pops the fields (the bytecode interpreter).
NewFromStack(k) ==
    /\ GcOpcode
    /\ Len(op_stack) >= NFields
    /\ CanAlloc
    /\ LET base == Len(op_stack) - NFields
           vals == [f \in Fields |-> op_stack[base + f]]
       IN  /\ allocSlot([kind |-> k, vals |-> vals])
           /\ op_stack' = Push(Pop(op_stack, NFields), allocSlotAddr)
    /\ UNCHANGED <<gcVars, reg, global, hidden>>

\* struct.new_default, array.new_default: all fields null.
NewDefault(k) ==
    /\ GcOpcode
    /\ Len(op_stack) < MaxOps
    /\ CanAlloc
    /\ allocSlot([kind |-> k, vals |-> [f \in Fields |-> NoRef]])
    /\ op_stack' = Push(op_stack, allocSlotAddr)
    /\ UNCHANGED <<gcVars, reg, global, hidden>>

\* array.new: every element is the value on top of the stack.
NewFilled ==
    /\ "array" \in Kind
    /\ GcOpcode
    /\ op_stack # <<>>
    /\ CanAlloc
    /\ allocSlot([kind |-> "array", vals |-> [f \in Fields |-> Top(op_stack)]])
    /\ op_stack' = Push(Pop(op_stack, 1), allocSlotAddr)
    /\ UNCHANGED <<gcVars, reg, global, hidden>>

\* struct.new of the register tiers: operand and result in the register
\* file, no collection whatever alloc_since_gc says.
RegStructNew ==
    /\ "struct" \in Kind
    /\ Running
    /\ CanAlloc
    /\ allocSlot([kind |-> "struct", vals |-> [f \in Fields |-> reg]])
    /\ reg' = allocSlotAddr
    /\ UNCHANGED <<gcVars, op_stack, global, hidden>>

\* append failed: alloc_since_gc is already incremented, the opcode traps.
AllocTrap ==
    /\ MayOom
    /\ GcOpcode
    /\ free_head = Nil
    /\ alloc_since_gc < MaxSince
    /\ alloc_since_gc' = alloc_since_gc + 1
    /\ LeaveInvocation
    /\ UNCHANGED <<heapVars, gc_threshold, gcVars, global>>

\* getObject: a live slot below len.
getObject(v) == v \in Slots /\ IsLive(v)

\* struct.get, array.get of field f.
GetField(k, f) ==
    /\ GcOpcode
    /\ op_stack # <<>>
    /\ getObject(Top(op_stack))
    /\ obj[Top(op_stack)].kind = k
    /\ op_stack' = Push(Pop(op_stack, 1), obj[Top(op_stack)].vals[f])
    /\ UNCHANGED <<heapVars, paceVars, gcVars, reg, global, hidden>>

\* struct.set, array.set of field f: value on top, reference below it.
SetField(k, f) ==
    /\ GcOpcode
    /\ Len(op_stack) >= 2
    /\ LET v == Top(op_stack)
           a == op_stack[Len(op_stack) - 1]
       IN  /\ getObject(a)
           /\ obj[a].kind = k
           /\ obj' = [obj EXCEPT ![a].vals[f] = v]
    /\ op_stack' = Pop(op_stack, 2)
    /\ UNCHANGED <<len, marked, next_free, free_head, freed, paceVars, gcVars,
                   reg, global, hidden>>

\* array.fill and array.init_elem: a range of elements becomes one value.
ArrayFill(lo) ==
    /\ GcOpcode
    /\ Len(op_stack) >= 2
    /\ LET v == Top(op_stack)
           a == op_stack[Len(op_stack) - 1]
       IN  /\ getObject(a)
           /\ obj[a].kind = "array"
           /\ obj' = [obj EXCEPT ![a].vals =
                        [f \in Fields |-> IF f >= lo THEN v ELSE @[f]]]
    /\ op_stack' = Pop(op_stack, 2)
    /\ UNCHANGED <<len, marked, next_free, free_head, freed, paceVars, gcVars,
                   reg, global, hidden>>

\* array.copy: source on top, destination below it, through a buffer.
ArrayCopy(lo) ==
    /\ GcOpcode
    /\ Len(op_stack) >= 2
    /\ LET src == Top(op_stack)
           dst == op_stack[Len(op_stack) - 1]
       IN  /\ getObject(src) /\ obj[src].kind = "array"
           /\ getObject(dst) /\ obj[dst].kind = "array"
           /\ obj' = [obj EXCEPT ![dst].vals =
                        [f \in Fields |-> IF f >= lo THEN obj[src].vals[f]
                                          ELSE @[f]]]
    /\ op_stack' = Pop(op_stack, 2)
    /\ UNCHANGED <<len, marked, next_free, free_head, freed, paceVars, gcVars,
                   reg, global, hidden>>

\* null, freed slot or wrong kind: the opcode traps.
GetTrap ==
    /\ GcOpcode
    /\ op_stack # <<>>
    /\ ~getObject(Top(op_stack))
    /\ LeaveInvocation
    /\ UNCHANGED <<heapVars, paceVars, gcVars, global>>

\* ref.null, and global.get, local.get, table.get of the values below.
PushFrom(v) ==
    /\ Running
    /\ Len(op_stack) < MaxOps
    /\ op_stack' = Push(op_stack, v)
    /\ UNCHANGED <<heapVars, paceVars, gcVars, reg, global, hidden>>

RefNull   == PushFrom(NoRef)
GlobalGet == PushFrom(global)
TableGet  == "table" \in Unscanned /\ PushFrom(hidden["table"])
\* A register-tier function calls a bytecode one: its argument is pushed.
PassArg   == PushFrom(reg)

GlobalSet ==
    /\ Running /\ op_stack # <<>>
    /\ global' = Top(op_stack) /\ op_stack' = Pop(op_stack, 1)
    /\ UNCHANGED <<heapVars, paceVars, gcVars, reg, hidden>>

TableSet ==
    /\ "table" \in Unscanned
    /\ Running /\ op_stack # <<>>
    /\ hidden' = [hidden EXCEPT !["table"] = Top(op_stack)]
    /\ op_stack' = Pop(op_stack, 1)
    /\ UNCHANGED <<heapVars, paceVars, gcVars, reg, global>>

\* Compiled code keeps a virtual register in a callee-saved machine register,
\* which a call spills to the register file only when it is an argument.
JitWrite ==
    /\ "native" \in Unscanned
    /\ Running
    /\ hidden' = [hidden EXCEPT !["native"] = reg]
    /\ UNCHANGED <<heapVars, paceVars, gcVars, op_stack, reg, global>>

JitSpill ==
    /\ "native" \in Unscanned
    /\ Running
    /\ reg' = hidden["native"]
    /\ UNCHANGED <<heapVars, paceVars, gcVars, op_stack, global, hidden>>

\* The bytecode function returns its result to the register-tier caller.
PassResult ==
    /\ Running /\ op_stack # <<>>
    /\ reg' = Top(op_stack) /\ op_stack' = Pop(op_stack, 1)
    /\ UNCHANGED <<heapVars, paceVars, gcVars, global, hidden>>

-----------------------------------------------------------------------------
(***************************************************************************)
(* tryCollectGarbage.                                                      *)
(***************************************************************************)

RootsOf(p) == CASE p = "op" -> Elems(op_stack)
                [] p = "reg" -> {reg}
                [] p = "global" -> {global}
                [] OTHER -> {}

\* Mutant: the register file is skipped.
AfterNoReg(p) == IF p = "op" THEN "global" ELSE "sweep"

\* The root set scanned after p; the scan of the globals is the last one.
After(p) == CASE p = "op" -> "reg" [] p = "reg" -> "global" [] OTHER -> "sweep"

Marking == phase \in {"op", "reg", "global"}

\* The scan of the root set p has at least begun.
Scanned(p) == \/ p = "op"
              \/ p = "reg" /\ phase \in {"reg", "global"}
              \/ p = "global" /\ phase = "global"

\* Mutant: marks of the previous collection are left in place.
BeginCollectNoClear ==
    /\ Running /\ shouldCollect
    /\ live_before' = Cardinality(Live)
    /\ phase' = "op"
    /\ pending' = RootsOf("op")
    /\ UNCHANGED <<heapVars, paceVars, rootVars, queue, sweep_at>>

\* clearMarks, and the scan of the operand stack begins (markRootsWide).
BeginCollect ==
    /\ Running /\ shouldCollect
    /\ live_before' = Cardinality(Live)
    /\ marked' = [a \in Addr |-> FALSE]
    /\ phase' = "op"
    /\ pending' = RootsOf("op")
    /\ UNCHANGED <<len, obj, next_free, free_head, freed, paceVars, rootVars,
                   queue, sweep_at>>

\* tryEnqueue marks v and appends it to the queue only in this case.
Fresh(v) == v \in Slots /\ IsLive(v) /\ ~marked[v]

\* Mutants: appends without looking at the mark; appends any value.
tryEnqueueAgain(v) ==
    /\ Marking
    /\ v \in pending
    /\ pending' = pending \ {v}
    /\ IF v \in Slots /\ IsLive(v)
       THEN marked' = [marked EXCEPT ![v] = TRUE] /\ queue' = queue \cup {v}
       ELSE UNCHANGED <<marked, queue>>
    /\ UNCHANGED <<len, obj, next_free, free_head, freed, paceVars, rootVars,
                   phase, sweep_at, live_before>>

tryEnqueueAny(v) ==
    /\ Marking
    /\ v \in pending
    /\ pending' = pending \ {v}
    /\ queue' = queue \cup {v}
    /\ UNCHANGED <<heapVars, paceVars, rootVars, phase, sweep_at, live_before>>

tryEnqueue(v) ==
    /\ Marking
    /\ v \in pending
    /\ pending' = pending \ {v}
    /\ IF Fresh(v)
       THEN marked' = [marked EXCEPT ![v] = TRUE] /\ queue' = queue \cup {v}
       ELSE UNCHANGED <<marked, queue>>
    /\ UNCHANGED <<len, obj, next_free, free_head, freed, paceVars, rootVars,
                   phase, sweep_at, live_before>>

\* Mutant: the references of the object are not followed.
DrainShallow(a) ==
    /\ Marking
    /\ pending = {}
    /\ a \in queue
    /\ queue' = queue \ {a}
    /\ UNCHANGED <<heapVars, paceVars, rootVars, phase, pending, sweep_at,
                   live_before>>

\* drainMarkQueue: the next object of the queue, whose references are then
\* looked at one by one.
Drain(a) ==
    /\ Marking
    /\ pending = {}
    /\ a \in queue
    /\ queue' = queue \ {a}
    /\ pending' = Refs(a)
    /\ UNCHANGED <<heapVars, paceVars, rootVars, phase, sweep_at, live_before>>

\* markRoots returns: on to the next root set, or to the sweep.
NextRoots ==
    /\ phase' = After(phase)
    /\ pending' = RootsOf(After(phase))
    /\ queue' = {}
    /\ sweep_at' = 0
    /\ UNCHANGED <<len, obj, next_free, free_head, freed, paceVars, rootVars,
                   live_before>>

RootsDone ==
    /\ Marking
    /\ pending = {} /\ queue = {}
    /\ NextRoots
    /\ UNCHANGED marked

\* queue.append fails: v is already marked but will not be visited, the queue
\* is dropped, and `catch {}' goes on as if the roots had been scanned.
EnqueueOom(v) ==
    /\ MayOom
    /\ Marking
    /\ v \in pending
    /\ Fresh(v)
    /\ marked' = [marked EXCEPT ![v] = TRUE]
    /\ NextRoots

\* The buffer for the globals cannot be allocated: they are not scanned.
GlobalsOom ==
    /\ MayOom
    /\ phase = "reg" /\ pending = {} /\ queue = {}
    /\ phase' = "sweep" /\ sweep_at' = 0
    /\ UNCHANGED <<heapVars, paceVars, rootVars, pending, queue, live_before>>

\* sweep: the next slot.
Sweep ==
    /\ phase = "sweep" /\ sweep_at < len
    /\ IF IsLive(sweep_at) /\ ~marked[sweep_at]
       THEN freeSlot(sweep_at)
       ELSE UNCHANGED heapVars
    /\ sweep_at' = sweep_at + 1
    /\ UNCHANGED <<paceVars, rootVars, phase, pending, queue, live_before>>

Min2(a, b) == IF a < b THEN a ELSE b
Max2(a, b) == IF a > b THEN a ELSE b

\* The new gc_threshold, from the live counts before and after.
adaptThreshold(before, after) ==
    LET reclaimed == Max2(before - after, 0)
    IN  IF before > 0 /\ reclaimed * 4 < before
        THEN Min2(gc_threshold * 2, Max2(after * 2, GcThresholdDefault))
        ELSE IF before > 0 /\ reclaimed * 4 > before * 3
        THEN Max2(gc_threshold \div 2, GcThresholdDefault)
        ELSE gc_threshold

FinishCollect ==
    /\ phase = "sweep" /\ sweep_at = len
    /\ phase' = "run"
    /\ alloc_since_gc' = 0
    /\ gc_threshold' = adaptThreshold(live_before, Cardinality(Live))
    /\ sweep_at' = 0 /\ live_before' = 0
    /\ UNCHANGED <<heapVars, rootVars, pending, queue>>

-----------------------------------------------------------------------------
Mutator ==
    \/ EndInvocation
    \/ \E k \in Kind : NewFromStack(k) \/ NewDefault(k)
    \/ NewFilled
    \/ RegStructNew
    \/ AllocTrap
    \/ \E k \in Kind, f \in Fields : GetField(k, f) \/ SetField(k, f)
    \/ \E lo \in Fields : ArrayFill(lo) \/ ArrayCopy(lo)
    \/ GetTrap
    \/ RefNull \/ GlobalGet \/ TableGet \/ PassArg
    \/ GlobalSet \/ TableSet \/ PassResult
    \/ JitWrite \/ JitSpill

Collector ==
    \/ \E v \in pending : tryEnqueue(v) \/ EnqueueOom(v)
    \/ \E a \in queue : Drain(a)
    \/ RootsDone
    \/ GlobalsOom
    \/ Sweep
    \/ FinishCollect

Next == Mutator \/ BeginCollect \/ Collector

\* The collector is straight-line code of the thread that runs the program.
Spec == Init /\ [][Next]_vars /\ WF_vars(Collector)

-----------------------------------------------------------------------------
\* Every variable keeps its type.
TypeOK ==
    /\ len \in 0 .. MaxSlots
    /\ obj \in [Addr -> Object \cup {NoObj}]
    /\ marked \in [Addr -> BOOLEAN]
    /\ next_free \in [Addr -> Addr \cup {Nil}]
    /\ free_head \in Addr \cup {Nil}
    /\ alloc_since_gc \in Nat
    /\ gc_threshold \in Nat
    /\ op_stack \in Seq(Val)
    /\ reg \in Val
    /\ global \in Val
    /\ hidden \in [Unscanned -> Val]
    /\ phase \in Phases
    /\ pending \subseteq Val
    /\ queue \subseteq Addr
    /\ sweep_at \in 0 .. MaxSlots
    /\ live_before \in Nat
    /\ freed \in Seq(Addr)

(* The links stored in the free slots, followed from free_head, are a last-*)
(* in first-out stack that holds every free slot once and no live slot:    *)
(* allocSlot never hands out a slot in use and freeSlot never loses one,   *)
(* whatever allocations and (failed) collections came before.              *)
FreeListIsStack ==
    /\ {freed[i] : i \in 1 .. Len(freed)} = {a \in Slots : ~IsLive(a)}
    /\ \A i, j \in 1 .. Len(freed) : freed[i] = freed[j] => i = j
    /\ free_head = IF freed = <<>> THEN Nil ELSE freed[Len(freed)]
    /\ \A i \in 1 .. Len(freed) :
          next_free[freed[i]] = IF i = 1 THEN Nil ELSE freed[i - 1]

\* Everything the program can still read a reference from.
Roots == Elems(op_stack) \cup {reg, global} \cup {hidden[h] : h \in Unscanned}

\* The slots reached from Roots along at most MaxSlots references.
Reachable ==
    LET Within[n \in 0 .. MaxSlots] ==
          IF n = 0 THEN Roots \cap Slots
          ELSE Within[n - 1] \cup
               (UNION {Refs(a) : a \in Within[n - 1] \cap Live} \cap Slots)
    IN  Within[MaxSlots]

(* Every reference the program can reach, in any phase of a collection,    *)
(* denotes an object that has not been freed.                              *)
NoDanglingReference == \A a \in Reachable : IsLive(a)

(* The closure that rules dangling references out step by step: the roots, *)
(* and the references of every object that will survive, denote objects    *)
(* that will survive.  During a sweep those are the marked ones, since     *)
(* the slots not yet visited still hold unmarked garbage.                  *)
Kept == {a \in Live : phase = "sweep" => marked[a]}
ReferencesStayLive ==
    /\ Roots \subseteq Kept \cup {NoRef}
    /\ \A a \in Kept : Refs(a) \subseteq Kept

(* The tricolour invariant of the marker: what has been marked and visited *)
(* leads only to marked objects or to values still to be looked at, and so *)
(* do the root sets already scanned.                                       *)
MarkerMissesNothing ==
    Marking =>
      /\ \A a \in Live : marked[a] /\ a \notin queue =>
            \A r \in Refs(a) : marked[r] \/ r \in pending
      /\ \A p \in {"op", "reg", "global"} : Scanned(p) =>
            \A v \in RootsOf(p) \ {NoRef} : marked[v] \/ v \in pending

(* An allocation that succeeds turns one slot that was not in use into an  *)
(* object and leaves every other object as it was.                         *)
AllocationIsFresh ==
    [][alloc_since_gc' > alloc_since_gc =>
         \/ obj' = obj
         \/ \E a \in Addr \ Live : /\ Live' = Live \cup {a}
                                  /\ \A b \in Live : obj'[b] = obj[b]]_vars

(* When a collection ends, the objects left are exactly the reachable      *)
(* ones: sweep frees all the garbage and nothing else.                     *)
CollectionIsExact ==
    [][phase = "sweep" /\ phase' = "run" => Live = Reachable]_vars

(* A collection that has begun ends and the program goes on.               *)
CollectionEnds == phase # "run" ~> phase = "run"
=============================================================================
