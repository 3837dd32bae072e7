------------------------------- MODULE Linking -------------------------------
(***************************************************************************)
(* Modules loaded into one shared store: loadLinked and registerExportsTo  *)
(* (src/src/types.zig), the steps of instantiateBase and applyActive       *)
(* (src/src/instance.zig) and the store they fill (src/src/store.zig), as  *)
(* the batch mode of the command line drives them.                         *)
(*                                                                         *)
(* The store only grows.  A function in it points to the instance that     *)
(* defines it; importing a function copies it.  Phase 1 may fail at any    *)
(* step (a missing import, a limit, memory) and the instance is then freed *)
(* although functions in the store point to it; after phase 1 a module     *)
(* stays until the store goes.  Memories, globals, tags and data segments  *)
(* follow the pattern of tables and element segments and are left out.     *)
(***************************************************************************)
EXTENDS Integers, Sequences, FiniteSets

CONSTANTS
    Programs,   \* the modules that can be loaded, as records
                \*   imports : [mod, name, kind, min], functions : their number,
                \*   tables : [min, init], segments : [table, offset, funcs],
                \*   exports : [name, kind, index]
    Names,      \* the names they are registered under
    MaxLoads    \* bound on the modules loaded

\* The functions and tables of a module, the imported ones first.
ImportsOf(p, kind) == {k \in DOMAIN p.imports : p.imports[k].kind = kind}
FuncCount(p) == Cardinality(ImportsOf(p, "func")) + p.functions
TableCount(p) == Cardinality(ImportsOf(p, "table")) + Len(p.tables)

\* The indices of a valid module are in range.  loadLinked does not validate:
\* what it does with a module that validateModule rejects is left out.
ExportsValid(p) ==
    /\ Len(p.exports) \in Nat /\ DOMAIN p.exports = 1 .. Len(p.exports)
    /\ \A k \in DOMAIN p.exports :
          \/ p.exports[k].kind = "func" /\ p.exports[k].index \in 1 .. FuncCount(p)
          \/ p.exports[k].kind = "table" /\ p.exports[k].index \in 1 .. TableCount(p)
\* The decoder refuses a second export of one name.
ExportsDistinct(p) ==
    \A j, k \in DOMAIN p.exports : p.exports[j].name = p.exports[k].name => j = k
SegmentsValid(p) ==
    p.segments \in Seq([table : 1 .. TableCount(p), offset : Nat, funcs : Seq(1 .. FuncCount(p))])
TablesValid(p) == p.tables \in Seq([min : Nat, init : 0 .. FuncCount(p)])

ASSUME LinkAssumption ==
    /\ MaxLoads \in Nat
    /\ \A p \in Programs :
          /\ p.functions \in Nat
          /\ Len(p.imports) \in Nat /\ DOMAIN p.imports = 1 .. Len(p.imports)
          /\ \A k \in DOMAIN p.imports : p.imports[k].kind \in {"func", "table"}
          /\ ExportsValid(p) /\ ExportsDistinct(p) /\ SegmentsValid(p) /\ TablesValid(p)

VARIABLES
    functions,  \* the store: [inst, func_idx]
    tables,     \* the store: sequences of function addresses, 0 for null
    exports,    \* the store's imports list: [mod, name, kind, handle]
    insts,      \* the instances: program, name, funcaddrs, tableaddrs, live, from
    loader          \* what loadLinked does now: step and next item

linkVars == <<functions, tables, exports, insts, loader>>

At(step, i) == [step |-> step, i |-> i]
cur == Len(insts)
me == insts[cur]
prog == me.program

LinkInit ==
    /\ functions = <<>> /\ tables = <<>> /\ exports = <<>> /\ insts = <<>>
    /\ loader = At("idle", 0)

-----------------------------------------------------------------------------
\* loadLinked: a fresh instance over the shared store.
loadLinked(p, n) ==
    /\ loader.step = "idle" /\ Len(insts) < MaxLoads
    /\ insts' = Append(insts, [program |-> p, name |-> n, funcaddrs |-> <<>>,
                               tableaddrs |-> <<>>, live |-> TRUE, from |-> <<>>])
    /\ loader' = At("imports", 1)
    /\ UNCHANGED <<functions, tables, exports>>

\* Phase 1 fails: the instance is freed, what it added to the store stays.
Phase1Fails ==
    /\ loader.step \in {"imports", "functions", "tables", "elems"}
    /\ insts' = [insts EXCEPT ![cur].live = FALSE]
    /\ loader' = At("idle", 0)
    /\ UNCHANGED <<functions, tables, exports>>

\* The first registration with that module, name and kind.
lookupImport(imp) ==
    LET found == {k \in DOMAIN exports : /\ exports[k].mod = imp.mod
                                         /\ exports[k].name = imp.name
                                         /\ exports[k].kind = imp.kind}
    IN  {k \in found : \A j \in found : k <= j}

\* Mutant: the copy is made the importer's.
CopyRehomed(f, k) == [inst |-> cur, func_idx |-> k]

\* The copy keeps the instance and index of the definition; only what was
\* compiled for it is dropped.
CopyFunction(f, k) == f

\* The next import.  A function is copied into the store; a table is shared,
\* if its size now is at least the size asked for.
resolveImport ==
    /\ loader.step = "imports" /\ loader.i <= Len(prog.imports)
    /\ LET imp == prog.imports[loader.i]
       IN  \E k \in lookupImport(imp) :
             LET h == exports[k].handle
             IN  /\ \/ /\ imp.kind = "func"
                       /\ functions' = Append(functions, CopyFunction(functions[h], loader.i))
                       /\ insts' = [insts EXCEPT ![cur].funcaddrs = Append(@, Len(functions) + 1),
                                                 ![cur].from = Append(@, exports[k].by)]
                    \/ /\ imp.kind = "table" /\ Len(tables[h]) >= imp.min
                       /\ insts' = [insts EXCEPT ![cur].tableaddrs = Append(@, h),
                                                 ![cur].from = Append(@, exports[k].by)]
                       /\ UNCHANGED functions
                 /\ loader' = At("imports", loader.i + 1)
    /\ UNCHANGED <<tables, exports>>

ImportsDone ==
    /\ loader.step = "imports" /\ loader.i > Len(prog.imports)
    /\ loader' = At("functions", 1)
    /\ UNCHANGED <<functions, tables, exports, insts>>

\* The next function of the module; its index counts the imports.
instantiateFunction ==
    /\ loader.step = "functions" /\ loader.i <= prog.functions
    /\ functions' = Append(functions, [inst |-> cur, func_idx |-> Len(me.funcaddrs) + 1])
    /\ insts' = [insts EXCEPT ![cur].funcaddrs = Append(@, Len(functions) + 1)]
    /\ loader' = At("functions", loader.i + 1)
    /\ UNCHANGED <<tables, exports>>

FunctionsDone ==
    /\ loader.step = "functions" /\ loader.i > prog.functions
    /\ loader' = At("tables", 1)
    /\ UNCHANGED <<functions, tables, exports, insts>>

\* The next table, filled with null or with the value of its expression.
instantiateTable ==
    /\ loader.step = "tables" /\ loader.i <= Len(prog.tables)
    /\ LET t == prog.tables[loader.i]
           v == IF t.init = 0 THEN 0 ELSE me.funcaddrs[t.init]
       IN  /\ tables' = Append(tables, [k \in 1 .. t.min |-> v])
           /\ insts' = [insts EXCEPT ![cur].tableaddrs = Append(@, Len(tables) + 1)]
    /\ loader' = At("tables", loader.i + 1)
    /\ UNCHANGED <<functions, exports>>

TablesDone ==
    /\ loader.step = "tables" /\ loader.i > Len(prog.tables)
    /\ loader' = At("elems", 0)
    /\ UNCHANGED <<functions, tables, exports, insts>>

\* Globals, tags, element and data segments are stored: nothing that another
\* module can see yet; they may still fail.
Phase1Done ==
    /\ loader.step = "elems"
    /\ loader' = At("apply", 1)
    /\ UNCHANGED <<functions, tables, exports, insts>>

SegmentOf(s, t) ==
    [k \in DOMAIN t |-> IF k - s.offset \in DOMAIN s.funcs
                        THEN me.funcaddrs[s.funcs[k - s.offset]] ELSE t[k]]
FitsTable(s) == s.offset + Len(s.funcs) <= Len(tables[me.tableaddrs[s.table]])

\* Mutant: the instance is freed when a segment does not fit.
applyActiveElementFrees ==
    /\ loader.step = "apply" /\ loader.i <= Len(prog.segments)
    /\ LET s == prog.segments[loader.i]
       IN  IF FitsTable(s)
           THEN /\ tables' = [tables EXCEPT ![me.tableaddrs[s.table]] = SegmentOf(s, @)]
                /\ loader' = At("apply", loader.i + 1)
                /\ UNCHANGED insts
           ELSE /\ insts' = [insts EXCEPT ![cur].live = FALSE]
                /\ loader' = At("idle", 0)
                /\ UNCHANGED tables
    /\ UNCHANGED <<functions, exports>>

\* The next active element segment: all of it, or, if it does not fit, none
\* of it and no further one.  The segments before it stay written.
applyActiveElement ==
    /\ loader.step = "apply" /\ loader.i <= Len(prog.segments)
    /\ LET s == prog.segments[loader.i]
       IN  IF FitsTable(s)
           THEN /\ tables' = [tables EXCEPT ![me.tableaddrs[s.table]] = SegmentOf(s, @)]
                /\ loader' = At("apply", loader.i + 1)
           ELSE loader' = At("register", 1) /\ UNCHANGED tables
    /\ UNCHANGED <<functions, exports, insts>>

\* Nothing is left to apply; or the virtual machine could not be allocated
\* and nothing is applied at all.
ApplyDone ==
    /\ loader.step = "apply" /\ (loader.i > Len(prog.segments) \/ loader.i = 1)
    /\ loader' = At("register", 1)
    /\ UNCHANGED <<functions, tables, exports, insts>>

\* registerExportsTo, also after a failure in phase 2.  An export of an
\* import hands on the address of the importer's copy.
RegisterNext(i, n) ==
    LET e == insts[i].program.exports[loader.i]
    IN  exports' = Append(exports, [mod |-> n, name |-> e.name, kind |-> e.kind, by |-> i,
             handle |-> IF e.kind = "func" THEN insts[i].funcaddrs[e.index]
                        ELSE insts[i].tableaddrs[e.index]])

registerExportsTo ==
    /\ loader.step = "register" /\ loader.i <= Len(prog.exports)
    /\ RegisterNext(cur, me.name)
    /\ loader' = At("register", loader.i + 1)
    /\ UNCHANGED <<functions, tables, insts>>

\* All are registered, or one cannot be, which is ignored.
RegisterEnds ==
    /\ loader.step = "register"
    /\ loader' = At("idle", 0)
    /\ UNCHANGED <<functions, tables, exports, insts>>

\* Code of a loaded module stores one of its functions in one of its tables.
TableSet(i, t, k, f) ==
    /\ loader.step = "idle"
    /\ insts[i].live
    /\ tables' = [tables EXCEPT ![insts[i].tableaddrs[t]][k] = insts[i].funcaddrs[f]]
    /\ UNCHANGED <<functions, exports, insts, loader>>

LinkNext ==
    \/ \E p \in Programs, n \in Names : loadLinked(p, n)
    \/ Phase1Fails
    \/ resolveImport \/ ImportsDone
    \/ instantiateFunction \/ FunctionsDone
    \/ instantiateTable \/ TablesDone
    \/ Phase1Done
    \/ applyActiveElement \/ ApplyDone
    \/ registerExportsTo \/ RegisterEnds
    \/ \E i \in DOMAIN insts : \E t \in DOMAIN insts[i].tableaddrs, f \in DOMAIN insts[i].funcaddrs :
          \E k \in DOMAIN tables[insts[i].tableaddrs[t]] : TableSet(i, t, k, f)

LinkSpec == LinkInit /\ [][LinkNext]_linkVars

-----------------------------------------------------------------------------
\* Every variable keeps its type.
LinkTypeOK ==
    /\ functions \in Seq([inst : 1 .. MaxLoads, func_idx : Nat \ {0}])
    /\ tables \in Seq(Seq(0 .. Len(functions)))
    /\ \A e \in {exports[k] : k \in DOMAIN exports} :
          /\ e.by \in DOMAIN insts
          /\ e.handle \in IF e.kind = "func" THEN DOMAIN functions ELSE DOMAIN tables
    /\ \A i \in DOMAIN insts : /\ insts[i].funcaddrs \in Seq(DOMAIN functions)
                               /\ insts[i].tableaddrs \in Seq(DOMAIN tables)
                               /\ insts[i].live \in BOOLEAN

\* What code of the live modules, or a module loaded later, can get at.
ReachableTables ==
    (UNION {{insts[i].tableaddrs[t] : t \in DOMAIN insts[i].tableaddrs} :
              i \in {j \in DOMAIN insts : insts[j].live}})
    \cup {exports[k].handle : k \in {j \in DOMAIN exports : exports[j].kind = "table"}}
ReachableFunctions ==
    (UNION {{insts[i].funcaddrs[f] : f \in DOMAIN insts[i].funcaddrs} :
              i \in {j \in DOMAIN insts : insts[j].live}})
    \cup {exports[k].handle : k \in {j \in DOMAIN exports : exports[j].kind = "func"}}
    \cup ((UNION {{tables[t][k] : k \in DOMAIN tables[t]} : t \in ReachableTables}) \ {0})

(* Whichever step of whichever load fails, a function that a live module, a *)
(* table of one, or a registered export leads to belongs to an instance     *)
(* that has not been freed, and is that instance's own function of that     *)
(* index: the functions a failed phase 1 leaves in the store stay out of    *)
(* reach (loadLinked, the comment at types.zig:412).                        *)
NothingDangles ==
    \A a \in ReachableFunctions :
        LET f == functions[a]
        IN  /\ insts[f.inst].live
            /\ f.func_idx \in DOMAIN insts[f.inst].funcaddrs
            /\ functions[insts[f.inst].funcaddrs[f.func_idx]] = f

\* The definition that function f of instance i stands for, by following the
\* imports from module to module: function f of program p is its import
\* number FuncFrom, and an instance loaded before, from, has satisfied it with
\* the function it exports under that name.
FuncFrom(p, f) ==
    CHOOSE k \in ImportsOf(p, "func") : Cardinality({j \in ImportsOf(p, "func") : j <= k}) = f
ExportIndex(p, n) ==
    p.exports[CHOOSE e \in DOMAIN p.exports : p.exports[e].name = n /\ p.exports[e].kind = "func"].index
IsImport(i, f) == f <= Cardinality(ImportsOf(insts[i].program, "func"))
Definition ==
    LET def[i \in DOMAIN insts] ==
          [f \in DOMAIN insts[i].funcaddrs |->
              IF ~IsImport(i, f) THEN <<i, f>>
              ELSE LET k == FuncFrom(insts[i].program, f)
                       src == insts[i].from[k]
                   IN  def[src][ExportIndex(insts[src].program, insts[i].program.imports[k].name)]]
    IN  def

(* A function reached through any chain of imports and re-exports is the    *)
(* one the chain ends at, in the instance that defines it: copying it from  *)
(* store entry to store entry loses neither (resolveImports).               *)
ImportsReachDefinition ==
    \A i \in DOMAIN insts : insts[i].live =>
        \A f \in DOMAIN insts[i].funcaddrs :
            LET g == functions[insts[i].funcaddrs[f]]
            IN  <<g.inst, g.func_idx>> = Definition[i][f]
=============================================================================
