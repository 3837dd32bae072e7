# zwasm: TLA+ models, checks and proofs

zwasm is a WebAssembly runtime written in Zig (`src/src/*.zig`, paths below are
relative to it). It decodes and validates a module, instantiates it, interprets
it, compiles what is hot to ARM64 or x86-64 machine code, and offers WASI, the
component model and a C interface around that. This directory holds TLA+ modules
translated from that code, the TLC configurations that check them on small
instances, and TLAPS proofs of the properties that matter most.

Every definition that models code is traced to its lines in `PROJECT.json`
(`map`), every property has a mutation of the code that violates it (`mutants`),
and the places where the code is hard to test are listed under `hazards`.

* [Inventory](#inventory)
* [Modules and the code they model](#modules-and-the-code-they-model)
* [Runs](#runs)
* [Bounds](#bounds)
* [Fairness](#fairness)
* [Proofs](#proofs)
* [Disagreements found](#disagreements-found)
* [What is not modelled](#what-is-not-modelled)
* [Plan](#plan)

## Inventory

How the parts call each other: `types.zig` (`WasmModule`) or `c_api.zig` loads a
module through `module.zig` (`validate.zig` checks it on demand), `instance.zig`
puts its functions, memories, tables, globals and segments into a `store.zig`
`Store`, and `vm.zig` executes it. The VM lowers functions with `predecode.zig` and
`regalloc.zig`, compiles them with `jit.zig` / `x86.zig`, allocates objects from
`gc.zig`, reads and grows `memory.zig`, and calls host functions (`wasi.zig`,
imports of the embedder). Compiled code calls back into the VM through trampolines
(`jitCallTrampoline`, `jitMemGrow`, `jitFuelCheckHelper`).

| component | state | operations | what is hard | what makes it correct |
| --- | --- | --- | --- | --- |
| GC heap (`gc.zig`, `vm.zig` `executeGc`, `tryCollectGarbage`) | slots with an intrusive free list, mark bits, allocation counter, threshold; roots on the operand stack, the register stack and in globals | allocate, read, write, fill, copy; collect: scan three root sets, drain, sweep, adapt the threshold | out of memory inside a collection, long histories of the free list, holders of references that are not scanned | no reachable object is freed, all garbage is, the free list holds exactly the free slots |
| GC field storage (`FieldArena`) | list of pages, cursor | `allocFields` | the cursor belongs to "the last page", which changes | slices in bounds and disjoint |
| Linear memory and guard pages (`memory.zig`, `guard.zig`, `store.zig`) | length, reserved and committed pages, a thread-local recovery point, the size cached by compiled code, a copy of the record in importing modules | grow in each tier, load, store, fault, enter and leave compiled code | one recovery point for nested activations; caches and copies that go stale | a fault becomes a trap, the tiers agree on bounds, new pages are zero, the ceiling holds |
| Atomic wait and notify (`memory.zig` `WaitQueue`) | list of waiters with a condition variable each | wait32/64, notify, timed wait | real threads, timeouts racing signals, entries that move | a waiter wakes when notified or timed out, and only its own entry leaves |
| Execution budget (`types.zig`, `vm.zig`) | fuel, deadline, cancel flag, `jit_fuel` | charge, arm, settle, check, cancel from another thread | two counters for one budget, nested tiers, cancellation at any point, compiled loops without a check | never more checkpoints passed than fuel, nothing charged twice, every limit ends an invocation that reaches checkpoints |
| Tiering (`vm.zig`, `jit.zig`) | per function: IR, register IR, code, call and back-edge counts, failure flags | call in each tier, take a back-edge, compile, restart, on-stack replacement | an activation is abandoned half-way and executed again; flags cached per activation | no effect is repeated, verdicts stand, every call ends |
| Interpreter core (`vm.zig`) | operand, frame, label and register stacks, the store of caught exceptions, the current branch table | calls in three entry points, tail calls, branches, exceptions, unwinding | the entry points restore different things; limits of four stacks; a branch or an exception across calls of different tiers | the stacks are what validation promised, values are those of the code, limits trap |
| Validator (`validate.zig`, `validateBodyEnd` in `module.zig`) | stacks of operand types and of control frames, which locals are set | one step per opcode | unreachable code with its polymorphic stack, labels of loops, locals set inside a block | accepted code finds its operands and never reads an unset local |
| Module decoder (`module.zig`, `leb128.zig`, `opcode.zig`) | reader position, section lists | sections, LEB128 integers | order, counts, boundary values of integers: the last byte of an encoding only partly fits | an encoding is accepted exactly when its value fits, and yields it |
| Register IR (`predecode.zig`, `regalloc.zig`, `loop_info.zig`) | virtual stack to registers | lowering, fusion, copy propagation | merges at block ends | same values as the stack machine |
| Type registry (`type_registry.zig`) | canonical groups | registration, subtyping | recursion groups | equal types get equal identifiers |
| Instantiation and linking (`instance.zig`, `store.zig`, `types.zig`) | the store, the address lists of an instance, the registered names | resolve, create, apply segments, register exports | failure in the middle, with other instances sharing the store; functions copied from import to import | nothing reachable belongs to a freed instance; an import is the function its chain of re-exports ends at |
| WASI (`wasi.zig`, `platform.zig`) | preopens, descriptor table, lazily computed base, the streams, handles of the operating system | load, open, close, renumber, tear down | numbers that shift, a duplicate that fails between two closes, handles reused by the system while a stale number is still around | a descriptor denotes the file it was opened for until it is closed; no handle is leaked, shared or closed behind its owner's back |
| C API (`c_api.zig`) | opaque handles | create, load, invoke, destroy | order of destruction, threads | no use after destroy |
| Code cache (`cache.zig`, `cli.zig`) | a file per module | save, load, apply | crash while writing, two processes, another version, other linked files | a function executes its own code; a damaged file is a miss |
| Component model (`component.zig`, `canon_abi.zig`, `wit*.zig`) | resource handles, layouts | lift, lower | alignment, sizes | lowering then lifting is the identity |
| Machine code generators (`jit.zig`, `x86.zig`, `simd_*`) | code buffer | one emitter per opcode | encodings | processor semantics |
| WAT parser, command line, tracing and fuzzing tools | none that outlives a call | | | |

## Modules and the code they model

| module | models | extended by |
| --- | --- | --- |
| `GcHeap` | the heap and the VM that allocates and collects | `MCGcHeap`, `GcHeapProofs` |
| `FieldArena` | storage of fields and elements | `MCFieldArena`, `MCMemory`, `MemoryProofs` |
| `WaitQueue` | wait and notify | `MCWaitQueue`, `MCMemory`, `MemoryProofs` |
| `LinearMemory` | linear memory, guard region, nested tiers | `MCMemory`, `MemoryProofs` |
| `Budget` | fuel, deadline, cancellation | `MCBudget`, `MCEngine`, `EngineProofs` |
| `Tiering` | the three tiers and the moves between them | `MCTiering`, `MCEngine`, `EngineProofs` |
| `CodeStructure` | where a construct of a body ends, and its `else` | `VmCalls`, `Validate` |
| `Validate` | the type checker of function bodies | `MCValidate`, `MCModules` |
| `VmCalls` | frames, labels and operands under calls, branches and exceptions | `MCVmCalls`, `MCModules`, `VmCallsProofs` |
| `Linking` | modules loaded into one store | `MCLinking`, `MCModules`, `LinkingProofs` |
| `CodeCache` | the file of predecoded code and the processes that share it | `MCCodeCache`, `MCModules`, `CodeCacheProofs` |
| `Leb128` | the integer decoder | `MCModules`, `LebProofs` |
| `WasiFd` | the descriptor table over the system's handles | `MCModules`, `WasiFdProofs` |
| `FdMap` | abstract: what a guest may rely on when it uses descriptors | instantiated by `WasiFd` |

`MCMemory`, `MCEngine` and `MCModules` put several components into one run. The
components of such a run share no state, so their interleavings would add states and
no behaviour: each component moves while the others are still in their initial
states. A `MC` module that holds programs, functions or modules (`MCTiering`,
`MCValidate`, `MCVmCalls`, `MCLinking`, `MCCodeCache`) is data for one component.

**GcHeap.** Variables carry the names of the fields of `GcHeap` (`free_head`,
`next_free`, `alloc_since_gc`, `gc_threshold`) and of the VM (`op_stack`); one
register and one global stand for the register stack and the globals. A value is
the address it decodes to, or `NoRef`. The opcodes that allocate, read and write
objects are the actions of `Mutator`; `BeginCollect`, the scanning and draining
actions, `Sweep` and `FinishCollect` are the steps of `tryCollectGarbage`, with
an out-of-memory alternative wherever the code has one (`MayOom`). `Unscanned`
names holders of references that no root scan visits (tables, callee-saved
machine registers). `freed` is a history variable.

**FieldArena.** `pages` and `cursor` are the fields of the code; `slices` is the
history of what was handed out. The four branches of `allocFields` are four
actions.

**WaitQueue.** Each critical section of the mutex is one action; what happens
outside of it (loading the word, creating the queue, reading the condition
variable) is separate. Entries have an identity (`owner`) and a place
(`slots[b][i]`), because the code remembers both an index and an address.
`Poison` is what a safe build leaves in removed entries. `std.Io.Condition` and
the futex are external and modelled from `condTimedWait`, which spells their
counters out. An append to a full list may move it to another buffer (`cur`), and
the old one keeps its bytes or is poisoned; threads that sleep on an entry go on
looking at the buffer they appended it to (`buf`). `displaced` records that the
entry of a queued thread is no longer where the thread looks for it.

**Budget.** An activation is interpreted, compiled and entered by `executeJIT`,
or compiled and called directly. `InterpStep` is `consumeInstructionBudget`,
`JitBackEdge` and the two `JitCheck` actions are the decrement in the emitted
code and `jitFuelCheckHelper`; `Leave` includes `syncJitFuelBack`. The check is
emitted for `br`, `br_if` and `br_if_not` only (`jit.zig:2706-2774`), so a loop
that a compiled `br_table` closes goes round without one: `JitTableEdge`. `ticks`
(checkpoints passed), `unchecked`, `slow` and `stopped` are history variables.

**Tiering.** `wf` is the `WasmFunction` record. A function is a short list of
instructions of the kinds the tiering code tells apart; the tiers execute them
alike. `callFunction`, `doCallDirectIR`, `jitSelfCall` and `checkBackEdgeJit`
keep their names. `RefEffects` is the reference: the effects of the function
executed once, without tiers, by the recursive function `EffectsFrom`.

**LinearMemory.** Sizes are in pages. `kind` is "guarded" (region reserved,
committed while it grows, no bounds checks in compiled code) or "list". `own`
has the memory, `imp` imports it and, as in `loadLinked`, gets a copy of the
`Memory` record. `Enter` and `Leave` are `executeJIT` and the call trampoline
with the recovery point they set and restore, and the reload of the cached size
after a call; `Fault` is the signal handler.

**VmCalls.** `op`, `frames` and `labels` are the stacks of `vm.zig` up to their
pointers, `acts` the native stack of calls in progress with the entry point each
came through (`callFunction`, `doCallDirect`, `doCallDirectIR`). Functions carry
code; constants are chosen so that every place where a value is consumed knows which
values WebAssembly allows there, which makes a misplaced operand visible (`wrong`).
`EnterStack` is the common part of entering a function, with the order in which the
code pushes and the state each overflow leaves; `branchTo`, `handleException`,
`UnwindCall` and `UnwindNothing` keep the differences between the tiers. An
exception that is caught pushes its payload without looking at the limit of the
operand stack; where it does not fit the bounds check of a safe build ends the
process (`err = "panic"`). `Height` and `Around` are what the validator knows of the
code and serve as the reference; `Valid` is the whole of what validation establishes
of a function: at every position that can be executed (`Live`), where control goes
from there, inside which constructs and with how many operands (`ValidAt`). `leaked`
and `restarted` record two flaws of the code (see below) after which nothing is
claimed.

**Validate.** `op_stack`, `ctrl_stack` and `local_init` are the fields of
`Validator`. The body is not given: at each step the environment appends any
instruction, and the checker accepts it or rejects the body, so that the run goes
through every body of bounded length. Instructions that pop and push fixed types
are calls of functions with such types; the one local has a type without
default. A body that is accepted is then executed by the rules of WebAssembly on
the types of values (`RunBlock` to `RunLocal`, `Branch`): this second half is
the reference and models no code of the repository. It stands still where an
instruction lacks an operand, a construct leaves anything but its results, or an
unset local is read. `KnownExceptions` are the two constructs the checker lets
pass and WebAssembly rejects (see below).

**Linking.** The steps of `loadLinked`: imports, functions, tables, then
active segments, then registration. `Phase1Fails` may come at every step of phase
1 and frees the instance while its functions stay in the store. `Definition` is
the reference for imports: it follows the chain of exports without the store.
The programs are valid modules: `ExportsValid`, `SegmentsValid` and `TablesValid`
are the index checks of `validate.zig`, whose indices the loader uses as they are,
and `ExportsDistinct` is the test for duplicate names of the decoder.

**CodeCache.** `StoreOf` is the store of a module with its links: what
`registerImports` copies from the `--link` file (the function imports, the entries
of imported tables, the function of an imported immutable global; how many, and
of which lengths, `LinkedSizes` gives for each file), then the copies that
`resolveImports` makes of the function imports, then the module's own functions.
A process loads the module with some `--link` file, opens, reads,
applies, runs, collects, truncates and writes; `Dies` may come anywhere and
`Upgrade` between processes. The file is a sequence of cells (header, length,
code), and a write is one cell at a time in place, as another process that has
truncated the same file sees it. Where parts of two files of different lengths
meet, a reader takes what it finds for a length or for code (`AsLength`,
`AsCode`).

**Leb128.** One step per byte of `readUnsigned` and `readSigned`. `Or` combines
two numbers bit by bit, as `|=` does. `Meaning` is the reference: the positional
value of the payload bits.

**WasiFd and FdMap.** `os` is the process's handle table with lowest-first reuse;
the embedder opens and closes files of its own. `closeFd`, `path_open` and
`fd_renumber` are the guest's calls with every failure between their steps.
`FdMap` forgets handles, slots and bases: it is a map from descriptor numbers to
files, and states which changes of that map one call may make. `WasiFd` computes
the map through `getHostFd` and implements `FdMap`.

## Runs

| run | states | what it shows |
| --- | --- | --- |
| `gc_exact` | 323,943 | With no allocation failure and references only in root sets, a collection frees the garbage and nothing else (`CollectionIsExact`), roots and survivors refer to survivors only (`ReferencesStayLive`), and the tricolour invariant of the marker holds throughout. |
| `gc_freelist` | 688,134 | With allocation failures and hidden references: the free list is a stack of exactly the free slots, allocations are fresh, collections end. |
| `memory` | 217,354 | *Linear memory*: interpreted and compiled calls of two modules nested in any order; faults become traps, tiers agree on bounds, new pages are zero, the interpreters keep the ceiling. *Wait queue*, two waiting threads, any notifiers and stores, a list that may move when it grows: a thread reports "woken" only if a notify counted it, and one that is notified or timed out returns, as long as no entry has been displaced. *Field arena*: slices lie inside their pages and, until the first oversized request, are disjoint. |
| `engine` | 191,862 | *Budget*: checkpoints, interpreted or compiled, never outrun the fuel, and fuel is charged once as long as compiled code calls compiled code; fuel, deadline and cancellation each end an invocation under any mix of tiers, unless it stays in a compiled `br_table` loop, which has no check. *Tiering*: ten functions, called repeatedly and recursively; effects happen once wherever a restart is harmless, a reentry guard is not met twice, a verdict stands, calls end. |
| `modules` | 431,700 | *Decoder*: every input of up to the longest legal length is decoded to its value or rejected, by exactly the bytes it has (`DecodesExactly`). *Validator*: every body of up to seven instructions; one that is accepted finds, on every path, the operands it needs and its local set, unless it has one of two constructs named in the property (`AcceptedIsSafe`). *Calls*: fourteen functions calling, tail calling, throwing and catching across tiers; the interpreter finds the stacks as validation promised (`StacksMatchCode`), every value consumed is the one of the code (`ValuesAreRight`), and the branch table is that of the running function also after a call has failed (`BranchTableIsOwn`). *Linking*: whichever step fails, nothing reachable belongs to a freed instance (`NothingDangles`), and an import reached through any chain of re-exports is its definition (`ImportsReachDefinition`). *Cache*: with one link set, a function executes its own code whatever other processes do to the file (`IrIsOwn`), and a completed save is complete. *WASI*: handles are held once (`HandlesHeldOnce`), a handle of the host's is closed only when the guest closes the preopen it was lent as (`HostHandleKept`), and the table implements the abstract map (`ImplementsFdMap`). |
| `gc_oom` (violation) | | Out of memory while marking: live objects are freed. |
| `arena_oversized` (violation) | | A small object allocated after an oversized one shares its storage. |
| `wait_remove` (violation) | | With two waiters, one removes the entry of the other. |
| `budget_slow` (violation) | | A call out of compiled code through `callFunction` loses the caller's pending charge. |
| `tier_restart` (violation) | | A loop that stores, with nothing before it, is executed again from its first instruction. |
| `cache_links` (violation) | | Two processes with different `--link` files share one cache file: a function of the second, copied or its own, executes code of another function. |
| `calls_overflow` (violation) | | Register IR that calls a stack-only function again and again runs out of frames at depth two. |

The type invariants of the components of a run are checked as one conjunction
(`MemoryTypesOK`, `EngineTypesOK`, `ModulesTypesOK`).

A violation run checks one statement of a comment, header or document of the
repository that the code does not keep; see [Disagreements
found](#disagreements-found). In each of these areas a passing run checks the
strongest variant that does hold.

Deadlock checking is off in `memory`, `engine` and `modules`, and in the violation
runs of their components: the embedder may stop calling, a thread may wait for
ever without a timeout, a decoder ends, and an activation on a foreign frame is
not followed further. That invocations, timed waits and collections do end is
stated as liveness.

## Bounds

* `GcHeap`: three slots are enough for a chain, a cycle and a free slot between
  live ones; with a default threshold of 1 a collection can follow every
  allocation. `MaxSince` caps the counter above every threshold reached. The
  exact run uses arrays (which add fill and copy to what structs do), the
  free-list run structs.
* `FieldArena`: pages of 4 and requests of 0 to 5 reach every branch: empty,
  fitting, exactly filling, next page, oversized; three pages let an oversized
  page come first, in the middle and last.
* `WaitQueue`: two waiting threads and two addresses (one notified, one not),
  counts from 0 to one above `MaxI32`; the list grows by one entry (`Spare = 1`) and
  may move once (`MaxMoves = 1`), so that the second append can leave a sleeper in
  the old buffer. `MCMemory` follows the queue until an entry is displaced: what
  happens then is the flaw that `wait_remove` shows. That run lets the list grow
  by two and never move, so that the flaw it shows is that of the index.
* `Budget`: fuel 4 with intervals of 2 lets each check fire more than once before
  the fuel ends; depth 3 is compiled code between two other activations; `ticks`
  counts beyond the fuel so that an overrun is visible. `TableLoops` says whether
  loops without a check occur: in `engine` they do, and `budget_slow` needs none.
* `Tiering`: thresholds 3 and 2, recursion depth 3 and four invocations let a
  function become hot in an outer activation, an inner one, and between calls.
  `MCTiering` lists the functions; each takes the code through one decision
  (call before the loop, `br_table`, guard, too large, `v128`, too many
  parameters, no register IR).
* `VmCalls`: the stack limits are such that each can be the first to overflow (call
  depth 5, frames 5, labels 11, operands 8); one slot for caught exceptions makes
  its reuse happen. One function (`FullCatcher`) catches by reference on a stack that the
  payload just fills, and then on one where the reference does not fit.
  `calls_overflow` keeps frames equal to the depth, as in the code (1024 both).
* `Validate`: seven instructions, one of them after an unreachable point, two
  value types and nineteen instructions: a block that sets the local and is left by
  a branch, a loop with parameters, both alternatives of an `if`, a `br_table` to
  two constructs, a polymorphic stack at the end of a block. Both known
  exceptions occur within the bound.
* `Linking`: three loads of three modules under two names: a re-export of an
  import, a second module under a taken name, a segment that fits and one that
  does not.
* `CodeCache`: two processes, four starts, two versions, functions of two, one
  and no units, a linked file with a table of one entry: a reader between
  truncation and write, two writers, a crash after each cell, an old file under a
  new version. The passing run has one link set because with two the flaw that
  `cache_links` shows breaks the property; there the files make different numbers
  of copies, of different lengths. `Stray` is the length that code is taken for
  where files of different lengths meet.
* `Leb128`: three payload bits per byte and widths 7 and 8, which have three
  groups and a last group of one or two bits, as 64 = 9 * 7 + 1 and
  32 = 4 * 7 + 4 leave a partial last group; all slices of up to three bytes.
* `WasiFd`: six handles, three of them the streams, one preopen, a table of four:
  enough for a descriptor on each side of the base, a closed slot between two
  open ones, and no free handle.
* `LinearMemory`: minimum 1, maximum 3, host limit 4, ceiling 2, requests 0 to 2,
  depth 3: every limit can be the one that refuses, and a compiled activation can
  lie between two others of another module.

## Fairness

* `GcHeap`: weak fairness of the collector's steps. A collection is straight-line
  code of the thread that runs the program.
* `WaitQueue`: weak fairness of the steps a runnable thread takes and of the
  waking of a sleeper with a timeout; strong fairness of `GiveUp`, since the
  deadline passes however often the thread looks at it. Nothing is assumed of
  notifiers, or of sleepers without a timeout.
* `Budget`: strong fairness of executing instructions and back-edges, those without
  a check included (code is finite and the depth of calls bounded, so an invocation
  that does not end keeps doing one or the other), and weak fairness of error
  propagation. That a checkpoint is ever reached again is not assumed:
  `CancelStops`, `DeadlineStops` and `FuelStops` allow, next to the end of the
  invocation, that compiled code stays in `br_table` loops for ever (`OutOfReach`).
  Nothing is assumed of the thread that cancels.
* `Tiering`: weak fairness of the execution steps, none of the embedder's calls.
* The other modules have no liveness property and no fairness.

## Proofs

TLAPS proves the following for every value of the constants that satisfies the
named assumptions of the module; none of the bounds of the runs is involved.
Where a theorem has a hypothesis of its own, the argument names it.

| theorem | property | argument |
| --- | --- | --- |
| `GcHeapProofs!FreeListCorrect` | `TypeOK /\ FreeListIsStack` | `HeapInv`. The history `freed` gives the intrusive list an order to argue along; `MutatorOnHeap` reduces every opcode to "allocates, writes into a live object, or leaves the heap alone". Allocation failures included. |
| `GcHeapProofs!HeapTypes` | `TypeOK` | The first half of `FreeListCorrect` on its own. |
| `GcHeapProofs!AllocationsAreFresh` | `AllocationIsFresh` | An action property from `HeapInv`: the head of the list is free. |
| `GcHeapProofs!NoLiveObjectIsFreed` | `ReferencesStayLive`, `MarkerMissesNothing` | Under `MayOom = FALSE` and `Unscanned = {}`, both necessary: `gc_oom` shows what an allocation failure does, and a reference held in a table is not a root. `RefInv` adds to the closure and the tricolour invariant what the queue, the pending values and the sweeper's position hold (`WorkInv`). |
| `GcHeapProofs!MarkerIsComplete` | `MarkerMissesNothing` | The marker's half of the same argument, under the same two hypotheses. |
| `MemoryProofs!ArenaInBounds` | `SlicesInBounds` | No page is smaller than an ordinary one, so a cursor of the previous page is still inside. |
| `MemoryProofs!ArenaDisjoint` | `OrdinaryIsDisjoint` | `BelowCursor`: the slices of the last page end before the cursor, which an oversized request breaks. |
| `EngineProofs!BudgetTypes` | `TypeOK`, a part of `EngineTypesOK` | The unsigned fuel never underflows. |
| `EngineProofs!FuelCeiling` | `FuelIsCeiling` | What is bounded is the number of checkpoints passed (interpreted instructions and back-edges with a check), with any number of back-edges without a check between them; the work of a `br_table` loop in compiled code is not bounded by fuel. `CeilingInv`: what was passed and what is left add up, where `jit_fuel` is a debt while compiled code is on top (`Charge`); that the debt is settled exactly when compiled code is left rests on the shape of the stack (`Shape`). |
| `EngineProofs!FuelChargedOnce` | `ChargedOnce` | `ExactInv`, on top of `CeilingInv`: the reverse inequality. What is missing from the fuel, plus what compiled code still owes, is no more than the checkpoints passed, but for the unit at which the fuel ran out. |
| `MemoryProofs!FaultsAreTraps` | `FaultIsTrap` | `FaultInv`: every activation has saved what its caller needs in the recovery point (`Chain`), and the recovery point is that of the innermost one unless it has just faulted (`Current`). `FaultIsTrap` alone is not inductive: it says nothing of the recovery point. |
| `MemoryProofs!MemoryTypes` | `TypeOK`, a part of `MemoryTypesOK` | `MemInv`, see the next rows. |
| `MemoryProofs!TiersAlwaysAgree` | `TiersAgree` | `MemInv`: the records of a memory lie within what is committed (`Records`), only the module that has the memory runs while nothing is imported (`OnlyOwn`), and the cached size of the code that runs is that of its record (`CacheFresh`). The caches of its callers may be old: a call that returns reloads them. |
| `MemoryProofs!FreshPagesAreZero` | `FreshIsZero` | `ZeroBeyond`, a part of `MemInv`: a page of the guarded region that no store has reached is zero whether or not it belongs to the memory yet, so growing need not clear it; in a list growing does. |
| `MemoryProofs!QueueTypes` | `WaitTypeOK`, a part of `MemoryTypesOK` | For any number of threads, under `Thread # {}`. `QueueInv`: there are never more entries than threads inside the queue, so the list and the indices into it stay in range, and buffers are created by threads that are not in a queue yet. |
| `MemoryProofs!AllMemoryTypes` | `MemoryTypesOK` | The three parts put together as the run composes them: a part that rests is in its initial state. |
| `MemoryProofs!CeilingAlwaysHolds` | `CeilingHolds` | Inductive with `Records`; compiled code that grows is excluded in the property. |
| `MemoryProofs!WokenIsNotified` | `WokenWasNotified` | For any number of waiting threads, timed or not, under `Thread # {}`, until an entry is displaced (a condition inside the property, because the code wakes the wrong thread then). `PlaceInv`, on top of `QueueInv`: each queued thread finds its entry where it looks, each entry of the list belongs to a queued thread, and a signal in an entry was counted by a notify; a thread that has left the list had seen such a signal. |
| `EngineProofs!TierTypes` | `TierTypeOK`, a part of `EngineTypesOK` | `TierInv`, see the next rows. |
| `EngineProofs!HotIsAlwaysDecided` | `HotIsDecided` | `TierInv`: the call counter stops at the threshold with a verdict (`Decided`), and an activation that has reached the back-edge threshold finds a verdict in the function's record, which no later step takes back, from however old a `jit_eligible` (`Good` in `Frames`). |
| `EngineProofs!GuardIsPassedOnce` | `GuardPassedOnce` | For functions with at most one reentry guard and no branch from behind it to before it (`OneGuard`), which is how compilers emit the guard; a program that jumps back over its guard meets it again by itself. An activation that has passed its guard is behind it (`Past`), and `checkBackEdgeJit` restarts no function that has one in the window. |
| `EngineProofs!EngineTypes` | `EngineTypesOK` | `BudgetTypes` and `TierTypes`, composed as in the run. |
| `EngineProofs!EffectsHappenOnce` | `EffectsOnce` | `EffectsInv`: what an activation has done and what it still has to do are the effects of the function, and if all effects come late an activation that has some behind it has no back-edge before it (`NothingDoneYet` ties the tests of `checkBackEdgeJit` to `RestartIsHarmless`, the hypothesis inside the property). The reference is a recursive function over machine states; that it is one rests on `ExecutionEnds`: there is no set of states that execution never leaves, because the last instruction of such a set would be a branch that is taken for ever, and its trip count goes down. |
| `LinkingProofs!LinkTypes` | `LinkTypeOK`, a part of `ModulesTypesOK` | `LinkInv`, see the next row: every address is inside the store (`Ranges`). |
| `LinkingProofs!NoFunctionDangles` | `NothingDangles` | `LinkInv`. Phase 1 frees an instance on failure and phase 2 does not, so an instance is *settled* once phase 1 is over. What an export or a table of a settled instance leads to belongs to settled instances, and the instance being loaded refers to those and to itself (`Owners`); `Counts` and `OwnIndex` say how far its lists have been filled. |
| `LinkingProofs!ImportsReachTheirDefinition` | `ImportsReachDefinition` | `OriginInv`, on top of `LinkInv`: every function of an instance is its own or equals what an earlier instance exports under the name it imports, and what an instance offers does not change any more once it is registered. An import therefore points back in the order of loading, which is why the recursive `Definition` has a value, and the first function of a chain that differed from its definition would contradict its predecessor (`ChainEnds`). |
| `CodeCacheProofs!CachedCodeIsOwn` | `IrIsOwn` | Under `LinkSets = {l}`, whatever `l` links: with two link sets `cache_links` violates it, for the module's own functions as well. `OneLinkInv`, on top of `SaveInv`: every cell of the file, wherever writers were interrupted or overtook each other, is the cell at that place in the image of one build, as far as the file goes (`Begins`), so what `deserialize` finds at an offset belongs to the function it is for (`FileCells`). |
| `CodeCacheProofs!SavesAreComplete` | `SavedIsComplete` | An action property from `SaveInv`, for every set of links: a process that saves writes the image of the store it was loaded with, what it has written so far agrees with that, and at most one process is writing (`OneWriter`). When the last cell is written the file begins with the whole image, which `deserialize` reads to its end; older cells may follow it. |
| `VmCallsProofs!BranchTableOfRunning` | `BranchTableIsOwn` | `CallsInv`: a bytecode function calls through `doCallDirect` only, whose callee is bytecode and has saved the caller's table (`Chained`), and a tail call hands on both. No assumption on the functions. |
| `VmCallsProofs!StacksAsValidated` | `StacksMatchCode` | For all limits of the stacks and every set of functions that satisfies `Valid`. `StacksMatchCode` speaks of the running call only and is not inductive: what a call finds when its callee returns, or when it catches an exception, depends on what it left. `StacksInv` therefore adds to `CallsInv` what every suspended call has on the stacks. The calls lie in layers (`Layer`, `Waiting`): each has the frame, the labels and the operands of the call instruction it waits at, less the arguments, however the callee was entered. On top, the running call meets what its code was checked for (`OnTheStack`, or `InRegs` in registers); while an exception unwinds, the stacks still hold everything up to the frame of the call that is searched (`Owns`). The labels of a call are those of the constructs around its instruction in their order, so a depth names a construct by its rank (`RankIs`), and cutting off labels keeps the rank of those that stay (`CutLabels`). Clauses are compared with what any `throw` of their tag carries (`Received`), since the store of caught exceptions may hold an older one. After a frame was left behind or a function restarted (`Lost`) nothing is claimed, as in the property. |
| `LebProofs!DecodingIsExact` | `DecodesExactly` | For all `G` and all wider types, so for the real 7 bits and the types of 32 and 64. `LebInv`: the bits read so far are the value of the groups read so far. A group before the last fits whole (`EarlyGroup`). Of the last one some bits fit: quotient and remainder by their number decide whether the number fits (`GroupFits`) and what the shift, its overflow and the comparison with the sign compute (`GroupShifts`), and both come to the same (`LastGroup`). `OrAdds` shows that the bitwise or never meets a bit that is set. |
| `WasiFdProofs!WasiTypes` | `WasiTypeOK`, a part of `ModulesTypesOK` | `WasiInv`, see the next rows. |
| `WasiFdProofs!EveryHandleHeldOnce` | `HandlesHeldOnce` | `WasiInv`: a handle is held in at most one of the streams, the open preopens and the used slots, and is then open in the system on behalf of the side that has to close it (`HeldIn`). The proof follows a call through the states between its steps, in which it has a handle in its hands (`tmp`); every failure branch leaves from one of those. |
| `WasiFdProofs!HostHandlesKept` | `HostHandleKept` | An action property from `WasiInv`: whatever a step closes was held by the place it closes it for. |
| `WasiFdProofs!TableImplementsMap` | `ImplementsFdMap` | The refinement of `FdMap`, step by step: under `WasiInv` every action changes the map from numbers to files at the numbers it was given only, or, at the first `path_open`, moves all numbers of the table by one distance. `Numbers` (no number names two things) and `LoadOrder` (a base that is set lies above every preopen) are what this needs. |

**Assumptions on constants.** Those of `GcHeap`, `FieldArena`, `Budget`,
`LinearMemory`, `WaitQueue` and `WasiFd` say that sizes and limits are natural
numbers and that the values standing for "none" are not data. `BudgetAssumption`
adds that the fuel fits an `i64` (for more, see the limits of integers below),
`MemoryAssumption` that a memory starts within its maximum, and `WasiAssumption`
that the system has the three handles a process starts with. `LinkAssumption` says
that the programs are valid modules: every export, segment and initial element names
an existing function or table, and export names are distinct. The decoder refuses
duplicate names, but loading does not call the validator, so the rest is a condition
on the modules and not something the loader establishes; what happens with an index
out of range is not modelled. `ProgramAssumption` of `Tiering` says that a branch
targets an instruction of the function or its end, as decoded branches do,
`CacheAssumption` that the value for "no code" is not code and that every link file
provides the function imports, and `LebAssumption` that a type has more bits than a
group, as the decoder takes at least 8 for types below. `ValidAssumption` of
`VmCalls` says that every function is one that validation accepts; as loading does
not call the validator, this is a condition on the modules too. It is narrower than
WebAssembly's in two places. A branch or catch clause may not name a `block`, `if`
or `try_table` with parameters: the interpreter bases that label above the
parameters, so the property does not hold of such a function (see the limits of
calls and branches below). And code in registers is the straight-line code that the
model gives it. Only `StacksAsValidated` uses the assumption; TLC evaluates it on
the functions of both runs.

**Recursive references.** `EffectsFrom`, `Definition`, `Magnitude`, `Or`, `Pow` and
the offsets of `CodeCache` are recursive functions. The library's theorems that
unfold such a function take an operator as a parameter and cannot be used, so
each proof module shows that its function exists by a least counterexample
(`LeastOf`, from the well-founded order of the naturals) and unfolds it from there.

**Only model-checked.**

* Liveness (`CollectionEnds`, `WaitReturns`, `CancelStops`, `DeadlineStops`,
  `FuelStops`, `Returns`) is beyond the prover.
* `CollectionIsExact` states reachability by paths of any length.
* `AcceptedIsSafe` says of every accepted body that its execution finds its
  operands: a proof would be one of type soundness, over the bodies themselves.
* `ValuesAreRight` compares with the values listed for each function of the run,
  which are data.
* The part of `ModulesTypesOK` about calls: that operands stay inside their array
  is the doing of the bounds check when an exception is caught (see below), and
  that the other stacks do restates their guards. Its parts for linking and WASI
  are proved.

## Disagreements found

Shown by a run, with a trace:

1. `gc_oom`: when the buffer for the globals or an entry of the mark queue cannot
   be allocated, the sweep runs anyway and frees live objects; the comment at
   `vm.zig:949` calls this "still correct".
2. `arena_oversized`: an oversized page becomes the last one while the cursor
   still belongs to the page before; the next small object is cut from it
   (`gc.zig:75-88`).
3. `wait_remove`: a waiter removes the entry at an index that others have shifted
   (`memory.zig:241,339`, "remove self from waiters").
4. `budget_slow`: the slow path of the call trampoline leaves the caller's
   `jit_fuel` unsettled and the callee arms it anew (`jit.zig:7443`; `zwasm.h:97`
   "Traps when exhausted").
5. `tier_restart`: a restart repeats stores, atomics, `memory.grow` and calls of
   the loop (`vm.zig:771,4545`; `docs/errors.md:82` "not user-visible").
6. `cache_links`: what a module copies from `--link` files (functions it imports,
   entries of imported tables, a function in an imported global) is saved in and
   restored from a file named after the main module alone (`cache.zig:250`; the
   comment at `cache.zig:30` counts "one entry per code-section function"). When the
   files make different numbers of copies, the module's own functions get one
   another's code too.
7. `calls_overflow`: the stack path of `callFunction` pops neither its frame nor
   its labels (`vm.zig:909`; `book/en/src/embedding-guide.md:192` "Call depth
   exceeded 1024").

Met while modelling and recorded here without a run of their own:

* A loop that a compiled `br_table` closes passes no check (`jit.zig:2213-2246`;
  its entries may be loop headers, `regalloc.zig:1137-1147`): it takes no fuel,
  outlives its deadline and is not stopped by a cancellation, contrary to
  `include/zwasm.h:97` ("Traps when exhausted") and `types.zig:641` ("Execution stops
  at the next checkpoint"). `FuelIsCeiling` counts checkpoints, and the three
  liveness properties name the case (`OutOfReach`).
* References in tables, and in callee-saved machine registers of compiled code,
  are not scanned by the collector (`Unscanned` in `GcHeap`).
* The collection threshold differs from decision D121 (`.dev/decisions.md:152`).
* `atomicWait32` compares the word before it takes the mutex, so a store and a
  notify between the two are missed; two first waiters can create the queue
  twice; an append may move the list under threads that sleep inside the old
  buffer (`memory.zig:233`), where no notify reaches them; a notify can count a
  thread twice; a count above the largest `i32` fails
  a checked cast.
* A run that is cancelled or times out inside compiled code is charged twice
  (`vm.zig:559`): `ChargedOnce` excludes such runs.
* The book speaks of three back-edges (`architecture.md:48-50`,
  `performance.md:12`, `faq.md:23`); `BACK_EDGE_THRESHOLD` is 1000.
* Comments of `executeJITOsr` and `emitOsrPrologue` say on-stack replacement
  serves functions with reentry guards; `checkBackEdgeJit` gives up on those.
* An activation with an old `jit_eligible` may compile again: `jit_code` and
  `jit_failed` are then both set, or the first code is leaked.
* `doCallDirectIR` lacks the `v128` test of `callFunction` (`vm.zig:711`).
* `jitMemGrow` does not look at `max_memory_bytes` (`zwasm.h:109`, comment at
  `vm.zig:9934`): `CeilingHolds` excludes it.
* After an import the two records of a memory diverge when either module grows it
  (`types.zig:797-808`).
* Calls and branches. `doCallDirectIR` gives a bytecode callee a function label
  that targets the start of the body (`vm.zig:7196`, comment at `vm.zig:151`): a
  branch out of the function restarts it, and `VmCalls` claims nothing afterwards
  (`restarted`). Labels of `block`, `if` and `try_table` take their base above the
  parameters of the block (`vm.zig:1004,1049,1264,5871`), so a branch out of a
  block with parameters leaves these under its results; `README.md:49` calls
  multi-value complete, and the functions of `MCVmCalls` give parameters to loops
  only. The compiled branch of `doCallDirectIR` passes the caller's instance
  (`vm.zig:7149`). The fast path of the indirect-call trampoline does not check
  the call depth (`docs/security.md:104`). After a `callFunction` frame has
  leaked, a predecoded caller further up runs on a foreign frame.
* Exceptions. `handleException` pushes the payload and the reference without
  looking at the limit (`vm.zig:7883,7890`), where `docs/security.md:113` says
  "overflow checked on every push": a safe build panics, a ReleaseFast build, which
  `docs/usage.md:300` offers and `docs/security.md:160` advises against, writes past
  the array. The store of
  caught exceptions reuses its first slot when it is full, so an older reference
  then denotes another exception.
* WASI. A preopen whose handle is only lent is closed by the guest's `fd_close`
  and `fd_renumber` (`zwasm.h:306`): `HostHandleKept` excludes lent handles.
  `fd_renumber` before the first `path_open` makes descriptors that this
  `path_open` then shifts, once (`FirstOpens` in `FdMap`); it loses the directory
  kind of what it moves; a path that cannot be preopened leaves a gap in the
  numbers; a bad result pointer of `path_open` traps after the entry exists.
* Linking. Exports are registered also after phase 2 has failed (`cli.zig:1451`);
  `addTable`, `addElem` and `addData` extend their list before a step that may
  fail.
* Validator. An `if` with parameters and without `else` is accepted when it has
  no results, and rejected when its results equal its parameters
  (`validate.zig:469`); of the labels of a `br_table` only the arity is compared
  with the default (`validate.zig:512-519`); `br_on_null` and `br_on_non_null` do not
  compare label types; `try_table` passes unknown labels and tags. The documents
  claim "Full Wasm 3.0 spec compliance" (`docs/security.md:51`) and that the
  validator prevents an underflow of the operand stack (`docs/security.md:116`).
  The checker is called by `zwasm validate` and `zwasm_module_validate` only:
  loading or running a module does not call it, contrary to `architecture.md:101`
  of the book ("decode + validate + predecode").
* Decoder. `readI33` accepts encodings longer than five bytes.
* Integers at their limits, each a single expression: fuel of 2^63 or more does
  not fit `jit_fuel` (`vm.zig:517`); `back_edge_count` is a `u32` that counts on
  after the verdict (`vm.zig:4504`); `min * page_size` is a `u32` product
  (`jit.zig:7746`); the end of a segment of a 64-bit table wraps
  (`instance.zig:439`).
* Failures outside the modelled steps: memory that runs out while preopens are
  registered leaks the handles passed with ownership (`types.zig:330`); the
  clean-up of a failed cache read walks entries that were never set
  (`cache.zig:84`); a global shared across stores is reached through a pointer
  into a list that may move (`types.zig:864`).

## What is not modelled

* Instruction encodings of the machine code generators: their correctness is
  relative to a processor semantics, and a model would repeat the encoder. What
  compiled code does to the state of the VM (fuel, memory cache, recovery point,
  calls) is modelled.
* The numeric and vector instructions: the tiers are assumed to execute an
  instruction alike.
* The WAT and WIT text parsers, the command line, tracing and fuzzing tools: text
  processing and printing without state that outlives a call.
* Of linear memory: the copy of an array-list memory that its owner has moved,
  bulk copies, page counts of `memory64` above 2^32. A load differs from a store
  only in leaving the page alone and has no action of its own.
* Of the validator: `try_table`, `br_on_null`, the opcodes of references, objects,
  memory and vectors beyond what they pop and push, subtyping, and the checks of
  sections; `local.tee`, which is a set followed by a get.
* Of calls: builds without safety checks, host functions, an invocation from inside
  one (which resets the machine of the outer call), tail calls to a host function,
  the fixed buffers for results and arguments.
* Of linking: memories, globals, tags and data segments, which go through the
  steps of tables and element segments; the type checks of imports; modules
  linked across stores.
* Of WASI: rights, offsets, flags and contents, clocks, arguments, Windows.
* Of the decoder: the sections, which keep no state beyond the lists they fill.
* The parts listed as planned below.

## Plan

Done: `GcHeap`, `FieldArena`, `WaitQueue`, `Budget`, `Tiering`, `LinearMemory`,
`Validate`, `VmCalls`, `Linking`, `CodeCache`, `Leb128`, `WasiFd` with its abstract
specification `FdMap`, and the proofs above.

Next, in this order:

1. `Validate` composed with `VmCalls`: that a body the checker accepts is `Valid`,
   which now stands between the two as an assumption; `try_table`.
2. `TypeRegistry` (hash-consing of recursion groups), `CanonAbi` (layouts) and
   the register numbering of `regalloc.zig` as operators checked against a
   reference over bounded inputs.
3. `CApi`: the life cycle of handles, with the engine, store and module freed in
   any order.
4. Compositions: `Budget` with `Tiering` (charges across restarts), `GcHeap`
   with an abstract heap that it implements until memory runs out.
