---------------------------- MODULE LinearMemory ----------------------------
(***************************************************************************)
(* Linear memory (memory.zig), the guarded region behind it (guard.zig)    *)
(* and the code of the tiers that reads and grows it (vm.zig, jit.zig).    *)
(*                                                                         *)
(* A memory is a Memory record over pages.  "guarded" memory is a reserved *)
(* region whose pages are committed as it grows: compiled code does not    *)
(* check bounds and relies on the fault handler, which turns a fault into  *)
(* a trap if the recovery point names the code that faulted.  "list"       *)
(* memory (no region could be reserved, or pages are not 64 KiB) is an     *)
(* array list: compiled code checks against the length it has cached.      *)
(*                                                                         *)
(* Module "imp" imports the memory of module "own": loadLinked copies the  *)
(* Memory record, so that the two records describe one region and evolve   *)
(* apart.  imp also calls functions of own.                                *)
(***************************************************************************)
EXTENDS Integers, Sequences

CONSTANTS
    Min,       \* initial pages
    Max,       \* maximum of the memory type, in pages
    MaxPages,  \* memory.zig MAX_PAGES
    Ceiling,   \* max_memory_bytes of the virtual machine, in pages
    Requests,  \* the page counts that memory.grow is called with
    MaxDepth   \* vm.zig MAX_CALL_DEPTH

ASSUME MemoryAssumption ==
    /\ Min \in Nat /\ Max \in Nat /\ MaxPages \in Nat /\ Ceiling \in Nat
    /\ Min <= Max /\ Min <= MaxPages
    /\ Requests \subseteq Nat
    /\ MaxDepth \in Nat \ {0}

Mods == {"own", "imp"}
Pages == 0 .. MaxPages - 1
NoCode == "none"

VARIABLES
    kind,        \* how the memory is backed
    imported,    \* has imp been linked to own?
    len,         \* Memory.data.items.len of each module's record, in pages
    accessible,  \* GuardedMem.accessible of each module's record
    committed,   \* pages of the region that can be accessed
    bytes,       \* the contents of a page: 0, or 1 for anything else
    frames,      \* the activations, innermost last
    recovery,    \* guard.zig's thread-local recovery point
    failing,     \* an error is on its way to the embedder
    crashed,     \* a fault was not recovered from
    written,     \* history: the pages that were stored to
    jitGrew      \* history: compiled code has grown the memory

vars == <<kind, imported, len, accessible, committed, bytes, frames, recovery,
          failing, crashed, written, jitGrew>>

memVars == <<len, accessible, committed, bytes>>
runVars == <<frames, recovery, failing, crashed>>

Recovery == [code: Mods \cup {NoCode}, active: BOOLEAN]

\* cache is MEM_SIZE of compiled code; saved is executeJIT's saved_recovery.
Frame == [mod: Mods, jit: BOOLEAN, cache: Nat, saved: Recovery]

Lesser(a, b) == IF a < b THEN a ELSE b
Greater(a, b) == IF a > b THEN a ELSE b

-----------------------------------------------------------------------------
(* Creation and import *)

\* addMemory and allocateInitial.  What an array list holds beyond its length
\* is unknown; the pages of a region are zero when first committed.
Init ==
    /\ kind \in {"guarded", "list"}
    /\ imported = FALSE
    /\ len = [m \in Mods |-> IF m = "own" THEN Min ELSE 0]
    /\ accessible = [m \in Mods |-> IF m = "own" /\ kind = "guarded" THEN Min ELSE 0]
    /\ committed = IF kind = "guarded" THEN Min ELSE 0
    /\ bytes = [p \in Pages |-> IF kind = "guarded" \/ p < Min THEN 0 ELSE 1]
    /\ frames = << >>
    /\ recovery = [code |-> NoCode, active |-> FALSE]
    /\ failing = FALSE
    /\ crashed = FALSE
    /\ written = {}
    /\ jitGrew = FALSE

\* loadLinked: imp gets a copy of the record, marked as borrowed.  (Only for
\* guarded memory: what a moved array list leaves to a copy is not modelled.)
Import ==
    /\ ~imported /\ frames = << >>
    /\ kind = "guarded"
    /\ imported' = TRUE
    /\ len' = [len EXCEPT !["imp"] = len["own"]]
    /\ accessible' = [accessible EXCEPT !["imp"] = accessible["own"]]
    /\ UNCHANGED <<kind, committed, bytes, runVars, written, jitGrew>>

-----------------------------------------------------------------------------
(* Calls *)

Running == frames # << >> /\ ~failing /\ ~crashed
Top == frames[Len(frames)]
Callers == SubSeq(frames, 1, Len(frames) - 1)
SetTop(f) == Append(Callers, f)

\* executeJIT and the fast path of the call trampoline set the recovery point
\* to the callee's code and keep the caller's; compiled code starts by loading
\* the memory cache (emitLoadMemCache).
Enter(m, jit) ==
    /\ frames' = Append(frames, [mod |-> m, jit |-> jit,
                                 cache |-> IF jit THEN len[m] ELSE 0,
                                 saved |-> recovery])
    /\ recovery' = IF jit THEN [code |-> m, active |-> TRUE] ELSE recovery

Invoke ==
    /\ frames = << >> /\ ~crashed
    /\ \E m \in Mods, jit \in BOOLEAN :
         /\ m = "imp" => imported
         /\ Enter(m, jit)
    /\ UNCHANGED <<kind, imported, memVars, failing, crashed, written, jitGrew>>

Call ==
    /\ Running
    /\ IF Len(frames) >= MaxDepth
       THEN failing' = TRUE /\ UNCHANGED <<frames, recovery>>
       ELSE /\ \E m \in Mods, jit \in BOOLEAN :
                 /\ m = "imp" => Top.mod = "imp"
                 /\ Enter(m, jit)
            /\ UNCHANGED failing
    /\ UNCHANGED <<kind, imported, memVars, crashed, written, jitGrew>>

\* Mutant: the recovery point is cleared instead of restored.
RestoredClear(f) == [recovery EXCEPT !.active = FALSE]

Restored(f) == IF f.jit THEN f.saved ELSE recovery

\* Mutant: the cache is kept across calls.
ReloadedNever(f) == f

\* After a call compiled code loads the memory cache again.
Reloaded(f) == IF f.jit THEN [f EXCEPT !.cache = len[f.mod]] ELSE f

\* The innermost activation ends, by returning or with an error.
Leave ==
    /\ frames # << >> /\ ~crashed
    /\ recovery' = Restored(Top)
    /\ frames' = IF Callers = << >> THEN << >>
                 ELSE [Callers EXCEPT ![Len(Callers)] =
                         IF failing THEN @ ELSE Reloaded(@)]
    /\ failing' = (failing /\ Callers # << >>)
    /\ UNCHANGED <<kind, imported, memVars, crashed, written, jitGrew>>

-----------------------------------------------------------------------------
(* Loads and stores *)

\* Memory.read and Memory.write.
InterpAdmits(m, p) == p < len[m]

\* emitMemLoad and emitMemStore: guarded memory is checked by the hardware;
\* otherwise only addresses beyond the minimum size are compared.
JitAdmits(cache, p) ==
    IF kind = "guarded" THEN p < committed ELSE p < Min \/ p < cache

\* The signal handler.
Fault ==
    IF recovery.active /\ recovery.code = Top.mod
    THEN /\ failing' = TRUE
         /\ recovery' = [recovery EXCEPT !.active = FALSE]
         /\ UNCHANGED crashed
    ELSE crashed' = TRUE /\ UNCHANGED <<failing, recovery>>

Store(p) ==
    /\ bytes' = [bytes EXCEPT ![p] = 1]
    /\ written' = written \cup {p}

\* A store; a load differs in leaving the page as it is.
Access ==
    /\ Running
    /\ \E p \in Pages :
         IF IF Top.jit THEN JitAdmits(Top.cache, p) ELSE InterpAdmits(Top.mod, p)
         THEN /\ Store(p)
              /\ UNCHANGED <<failing, recovery, crashed>>
         ELSE /\ IF Top.jit /\ kind = "guarded" THEN Fault
                 ELSE failing' = TRUE /\ UNCHANGED <<recovery, crashed>>
              /\ UNCHANGED <<bytes, written>>
    /\ UNCHANGED <<kind, imported, len, accessible, committed, frames, jitGrew>>

-----------------------------------------------------------------------------
(* memory.grow *)

\* Mutant: the declared maximum is ignored.
EffectiveMaxHost == MaxPages

EffectiveMax == Lesser(Max, MaxPages)

\* Mutant: the new pages of an array list keep what they held.
ZeroedNot(m, n) == bytes

\* @memset of the new part of an array list.
Zeroed(m, n) ==
    [p \in Pages |-> IF len[m] <= p /\ p < len[m] + n THEN 0 ELSE bytes[p]]

\* Too many pages, or the host has no memory.
GrowFails == UNCHANGED memVars

\* Memory.grow and GuardedMem.grow, whose page counts come from the record at
\* hand; committing pages that are committed changes nothing.
GrowSucceeds(m, n) ==
    /\ len[m] + n <= EffectiveMax
    /\ len' = [len EXCEPT ![m] = @ + n]
    /\ \/ /\ kind = "guarded"
          /\ accessible[m] + n <= MaxPages
          /\ accessible' = [accessible EXCEPT ![m] = @ + n]
          /\ committed' = Greater(committed, accessible[m] + n)
          /\ UNCHANGED bytes
       \/ /\ kind = "list"
          /\ bytes' = Zeroed(m, n)
          /\ UNCHANGED <<accessible, committed>>

\* Mutant: what is there already is not counted.
BelowCeilingAlone(m, n) == n <= Ceiling

\* The interpreters' test of max_memory_bytes.
BelowCeiling(m, n) == len[m] + n <= Ceiling

InterpGrow ==
    /\ Running /\ ~Top.jit
    /\ \E n \in Requests :
         \/ BelowCeiling(Top.mod, n) /\ GrowSucceeds(Top.mod, n)
         \/ GrowFails
    /\ UNCHANGED <<kind, imported, runVars, written, jitGrew>>

\* jitMemGrow, after which emitMemGrow loads the memory cache again.
JitGrow ==
    /\ Running /\ Top.jit
    /\ \E n \in Requests :
         \/ GrowSucceeds(Top.mod, n) /\ jitGrew' = (jitGrew \/ n > 0)
         \/ GrowFails /\ UNCHANGED jitGrew
    /\ frames' = SetTop([Top EXCEPT !.cache = len'[Top.mod]])
    /\ UNCHANGED <<kind, imported, recovery, failing, crashed, written>>

Next == Import \/ Invoke \/ Call \/ Leave \/ Access \/ InterpGrow \/ JitGrow

Spec == Init /\ [][Next]_vars

-----------------------------------------------------------------------------
(* Properties *)

\* Every variable has its type, and no length exceeds the limits of grow.
TypeOK ==
    /\ kind \in {"guarded", "list"}
    /\ len \in [Mods -> 0 .. Lesser(Max, MaxPages)]
    /\ accessible \in [Mods -> 0 .. MaxPages]
    /\ committed \in 0 .. MaxPages
    /\ bytes \in [Pages -> {0, 1}]
    /\ frames \in Seq(Frame)
    /\ recovery \in Recovery
    /\ {imported, failing, crashed, jitGrew} \subseteq BOOLEAN
    /\ written \subseteq Pages

\* A fault of compiled code becomes a trap, however compiled and interpreted
\* calls are nested: the recovery point always names the running code
\* (setRecovery around every entry into compiled code).
FaultIsTrap == ~crashed

\* What the interpreters admit exists; and for a memory with one record the
\* tiers agree on every access: a page is admitted by compiled code, with its
\* cached size or with no check at all, exactly if Memory.read admits it.
TiersAgree ==
    /\ kind = "guarded" => \A m \in Mods : len[m] <= committed
    /\ ~imported /\ Running /\ Top.jit =>
         \A p \in Pages : JitAdmits(Top.cache, p) <=> InterpAdmits(Top.mod, p)

\* A page that was never stored to reads as zero in every module that has it,
\* whichever record it was added through (Memory.grow).
FreshIsZero ==
    \A m \in Mods : \A p \in Pages \ written : p < len[m] => bytes[p] = 0

\* Unless compiled code grows the memory, which does not look at it, the
\* ceiling holds in every record (max_memory_bytes in the interpreters).
CeilingHolds ==
    ~jitGrew => \A m \in Mods : len[m] <= Greater(Min, Ceiling)
=============================================================================
