------------------------------ MODULE CodeCache ------------------------------
(***************************************************************************)
(* The cache of predecoded code (src/src/cache.zig) as the command line    *)
(* uses it (src/src/cli.zig): processes that run, or compile, the same     *)
(* module with --cache share one file, named after the hash of the module. *)
(*                                                                         *)
(* A module's store holds, in this order, the functions that are copied    *)
(* from the linked module when imports are registered (the function        *)
(* imports, here before the rest; every entry of an imported table; the    *)
(* function in an imported immutable global), the copies resolveImports    *)
(* makes of the function imports, and the module's own functions.          *)
(* applyCachedIr and collectIrFuncs skip num_imports of these.  What is    *)
(* copied, and how much, depends on the file given by --link; the file     *)
(* name of the cache does not.                                             *)
(*                                                                         *)
(* The file is a sequence of cells: a header, then for every function a    *)
(* length and that many code cells, all of eight bytes. A reader may come  *)
(* between the parts of a write; creating and writing are serialised by    *)
(* the file system, a process may die at any time, and a write may fail    *)
(* half way.                                                               *)
(***************************************************************************)
EXTENDS Integers, Sequences, FiniteSets, SequencesExt

CONSTANTS
    Procs,        \* processes
    LinkSets,     \* the files --link may name, one per start
    MaxBuild,     \* the program is upgraded from VERSION 1 up to this one
    NumImports,   \* function imports of the module
    OwnSizes,     \* the lengths of the predecoded code of its own functions;
                  \* 0 where predecode fails
    LinkedSizes,  \* for each link file, those of the functions copied from it,
                  \* of which the first NumImports are the function imports
    Stray,        \* the length that a cell of code is taken for
    MaxStarts,    \* bound on process starts
    NoIr, NoFile  \* model values

\* The functions of a module and of the files linked to it, and a unit of
\* predecoded code: of a function, by a build, at a position.
FunctionCode == [from : LinkSets \cup {"own"}, idx : Nat, size : Nat]
Unit == FunctionCode \X Nat \X Nat

ASSUME CacheAssumption ==
    /\ NumImports \in Nat
    /\ OwnSizes \in Seq(Nat)
    /\ LinkedSizes \in [LinkSets -> Seq(Nat)]
    /\ \A l \in LinkSets : Len(LinkedSizes[l]) >= NumImports
    /\ Stray \in Nat
    /\ MaxStarts \in Nat /\ MaxBuild \in Nat \ {0}
    /\ NoIr \notin Seq(Unit)

VARIABLES
    file,    \* NoFile or the cells of the cache file
    proc,    \* per process: pc, funcs, hit, len, out
    build,   \* the installed program
    starts   \* processes started so far

cacheVars == <<file, proc, build, starts>>

\* What a function is: own function i, or the i-th copied from the file l.
Own(i) == [from |-> "own", idx |-> i, size |-> OwnSizes[i]]
Linked(l, i) == [from |-> l, idx |-> i, size |-> LinkedSizes[l][i]]

\* predecode of a function by a build; null where it fails.
predecode(code, b) ==
    IF code.size = 0 THEN NoIr ELSE [k \in 1 .. code.size |-> <<code, b, k>>]

Function(code) == [code |-> code, ir |-> NoIr, ir_failed |-> FALSE]
Predecoded(f, b) ==
    IF f.ir # NoIr \/ f.ir_failed THEN f
    ELSE [f EXCEPT !.ir = predecode(f.code, b),
                   !.ir_failed = predecode(f.code, b) = NoIr]

\* The store after instantiation: registerImports, resolveImports, own.
Registered(l) == [i \in DOMAIN LinkedSizes[l] |-> Function(Linked(l, i))]
Imported(l) == [i \in 1 .. NumImports |-> Function(Linked(l, i))]
StoreOf(l) ==
    Registered(l) \o Imported(l) \o [i \in DOMAIN OwnSizes |-> Function(Own(i))]

Idle == [pc |-> "idle", funcs |-> <<>>, hit |-> FALSE, len |-> 0, out |-> <<>>]

CacheInit ==
    /\ file = NoFile
    /\ proc = [p \in Procs |-> Idle]
    /\ build = 1
    /\ starts = 0

-----------------------------------------------------------------------------
\* The format.
Header(b, n) == [what |-> "header", version |-> b, num_funcs |-> n]
Length(n) == [what |-> "length", n |-> n]
Code(c) == [what |-> "code", c |-> c]

serializeOne(ir) ==
    IF ir = NoIr THEN <<Length(0)>>
    ELSE <<Length(Len(ir))>> \o [k \in DOMAIN ir |-> Code(ir[k])]

serialize(b, irs) ==
    <<Header(b, Len(irs))>> \o FlattenSeq([i \in DOMAIN irs |-> serializeOne(irs[i])])

Miss == [hit |-> FALSE, irs |-> <<>>]

\* What a reader makes of a cell.  Where the parts of two files of different
\* lengths meet, it may take code for a length and a length for code.
AsLength(cell) == IF cell.what = "length" THEN cell.n ELSE Stray
AsCode(cell) == IF cell.what = "code" THEN cell.c ELSE <<cell, 0, 0>>

\* Where function i starts, given that the ones before it fit.
offset(data) ==
    LET at[i \in 1 .. Len(data) + 1] ==
            IF i = 1 THEN 2
            ELSE IF at[i - 1] > Len(data) THEN Len(data) + 1
            ELSE at[i - 1] + 1 + AsLength(data[at[i - 1]])
    IN  at

\* Mutant: a file that ends early gives the functions it still holds.
deserializePrefix(data, b) ==
    IF Len(data) < 1 \/ data[1].version # b
    THEN Miss
    ELSE LET n == data[1].num_funcs
             at == offset(data)
             Has(i) == i \in DOMAIN at /\ at[i] <= Len(data)
             Some(i) == SelectSeq([k \in 1 .. AsLength(data[at[i]]) |-> at[i] + k],
                                  LAMBDA j : j <= Len(data))
         IN  [hit |-> TRUE,
              irs |-> [i \in 1 .. n |->
                 IF ~Has(i) \/ AsLength(data[at[i]]) = 0 THEN NoIr
                 ELSE [k \in DOMAIN Some(i) |-> AsCode(data[Some(i)[k]])]]]

\* Too short for a header, another magic or version, or truncated: a miss.
deserialize(data, b) ==
    IF Len(data) < 1 \/ data[1].version # b
    THEN Miss
    ELSE LET n == data[1].num_funcs
             at == offset(data)
         IN  IF \A i \in 1 .. n : /\ i \in DOMAIN at
                                  /\ at[i] <= Len(data)
                                  /\ at[i] + AsLength(data[at[i]]) <= Len(data)
             THEN [hit |-> TRUE,
                   irs |-> [i \in 1 .. n |->
                      IF AsLength(data[at[i]]) = 0 THEN NoIr
                      ELSE [k \in 1 .. AsLength(data[at[i]]) |-> AsCode(data[at[i] + k])]]]
             ELSE Miss

\* Cached IR i goes to function num_imports + i, unless it has its own.
applyCachedIr(irs, funcs) ==
    [j \in DOMAIN funcs |->
        LET i == j - NumImports
        IN  IF /\ i \in DOMAIN irs
               /\ irs[i] # NoIr
               /\ funcs[j].ir = NoIr /\ ~funcs[j].ir_failed
            THEN [funcs[j] EXCEPT !.ir = irs[i]]
            ELSE funcs[j]]

-----------------------------------------------------------------------------
\* A process starts: the module is loaded with the links of its command
\* line; its start function may have been run and predecoded by now.
Start(p, l, ran) ==
    /\ proc[p].pc = "idle" /\ starts < MaxStarts
    /\ LET s == StoreOf(l)
       IN  proc' = [proc EXCEPT ![p] =
              [Idle EXCEPT !.pc = "open",
                  !.funcs = IF ran THEN [s EXCEPT ![Len(s)] = Predecoded(@, build)] ELSE s]]
    /\ starts' = starts + 1
    /\ UNCHANGED <<file, build>>

\* openFile and length: no file is a miss; cmdCompile does not look.
OpenFile(p) ==
    /\ proc[p].pc = "open"
    /\ proc' = [proc EXCEPT ![p] = IF file = NoFile THEN [@ EXCEPT !.pc = "run"]
                                   ELSE [@ EXCEPT !.pc = "read", !.len = Len(file)]]
    /\ UNCHANGED <<file, build, starts>>

Compile(p) ==
    /\ proc[p].pc = "open"
    /\ proc' = [proc EXCEPT ![p].pc = "run"]
    /\ UNCHANGED <<file, build, starts>>

\* readPositionalAll of the length seen before; fewer bytes are a miss.
ReadFile(p) ==
    /\ proc[p].pc = "read"
    /\ LET me == proc[p]
           got == IF Len(file) < me.len THEN Miss
                  ELSE deserialize(SubSeq(file, 1, me.len), build)
       IN  proc' = [proc EXCEPT ![p] =
              [me EXCEPT !.pc = "run", !.hit = got.hit,
                         !.funcs = IF got.hit THEN applyCachedIr(got.irs, @) ELSE @]]
    /\ UNCHANGED <<file, build, starts>>

\* Mutant: only what was called is collected, the rest counts as failed.
collectIrFuncsCalled(funcs, b) ==
    [i \in 1 .. Len(funcs) - NumImports |-> funcs[NumImports + i].ir]

collectIrFuncs(funcs, b) ==
    [i \in 1 .. Len(funcs) - NumImports |-> Predecoded(funcs[NumImports + i], b).ir]

\* The run is over.  After a hit nothing is saved.
EndRun(p) ==
    /\ proc[p].pc = "run"
    /\ LET me == proc[p]
       IN  proc' = [proc EXCEPT ![p] =
              IF me.hit THEN Idle
              ELSE [me EXCEPT !.pc = "create",
                              !.out = serialize(build, collectIrFuncs(me.funcs, build))]]
    /\ UNCHANGED <<file, build, starts>>

\* Nobody is in the middle of a write: the file system serialises them.
FileQuiet == \A q \in Procs : proc[q].pc # "write"

\* createFile truncates; the write comes later, other processes between.
CreateFile(p) ==
    /\ proc[p].pc = "create" /\ FileQuiet
    /\ file' = <<>>
    /\ proc' = [proc EXCEPT ![p].pc = "created"]
    /\ UNCHANGED <<build, starts>>

BeginWrite(p) ==
    /\ proc[p].pc = "created" /\ FileQuiet
    /\ proc' = [proc EXCEPT ![p].pc = "write", ![p].len = 0]
    /\ UNCHANGED <<file, build, starts>>

\* The next part of the write, in place.
WriteCell(p) ==
    /\ proc[p].pc = "write"
    /\ LET me == proc[p]
           k == me.len + 1
       IN  /\ file' = IF k <= Len(file) THEN [file EXCEPT ![k] = me.out[k]]
                      ELSE Append(file, me.out[k])
           /\ proc' = [proc EXCEPT ![p] = IF k = Len(me.out) THEN Idle
                                          ELSE [me EXCEPT !.len = k]]
    /\ UNCHANGED <<build, starts>>

\* The process ends here; or its write fails, which is ignored.
Dies(p) ==
    /\ proc[p].pc # "idle"
    /\ proc' = [proc EXCEPT ![p] = Idle]
    /\ UNCHANGED <<file, build, starts>>

\* Another version is installed while no process runs.
Upgrade ==
    /\ build < MaxBuild
    /\ \A p \in Procs : proc[p].pc = "idle"
    /\ build' = build + 1
    /\ UNCHANGED <<file, proc, starts>>

CacheNext ==
    \/ Upgrade
    \/ \E p \in Procs :
        \/ \E l \in LinkSets, ran \in BOOLEAN : Start(p, l, ran)
        \/ OpenFile(p)
        \/ Compile(p)
        \/ ReadFile(p)
        \/ EndRun(p)
        \/ CreateFile(p)
        \/ BeginWrite(p)
        \/ WriteCell(p)
        \/ Dies(p)

CacheSpec == CacheInit /\ [][CacheNext]_cacheVars

-----------------------------------------------------------------------------
(* The code a function runs is the predecoded form of that function, made   *)
(* by this build, whatever other processes did to the file, and wherever    *)
(* they died (deserialize, applyCachedIr).                                  *)
IrIsOwn ==
    \A p \in Procs : \A i \in DOMAIN proc[p].funcs :
        LET f == proc[p].funcs[i]
        IN  f.ir # NoIr => f.ir = predecode(f.code, build)

(* A save that comes to its end leaves a file that the next process of the  *)
(* same build and links reads completely: every function that can be        *)
(* predecoded is in it, at its place (collectIrFuncs, serialize), whatever  *)
(* was in the file before.                                                  *)
SavedIsComplete ==
    [][\A p \in Procs :
          (proc[p].pc = "write" /\ proc[p].len + 1 = Len(proc[p].out) /\ file' # file) =>
              LET got == deserialize(file', build)
                  funcs == proc[p].funcs
              IN  /\ got.hit
                  /\ \A j \in NumImports + 1 .. Len(funcs) :
                        got.irs[j - NumImports] = predecode(funcs[j].code, build)]_cacheVars
=============================================================================
