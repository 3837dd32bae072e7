----------------------------- MODULE LinkingProofs -----------------------------
(***************************************************************************)
(* Linking for every set of valid modules and every number of loads: no    *)
(* function that can be reached belongs to an instance that was freed.     *)
(***************************************************************************)
EXTENDS Linking, FiniteSetTheorems, SequenceTheorems, WellFoundedInduction, TLAPS

Kinds == {"func", "table"}
Steps == {"idle", "imports", "functions", "tables", "elems", "apply", "register"}

\* Phase 1 is under way: the instance may still be freed.
Loading == loader.step \in {"imports", "functions", "tables", "elems"}

\* An instance that will not be freed any more.
Settled(i) == i \in DOMAIN insts /\ insts[i].live /\ ~(Loading /\ i = cur)

Instance == [program : Programs, name : Names, funcaddrs : Seq(Nat), tableaddrs : Seq(Nat),
             live : BOOLEAN, from : Seq(Nat)]
Function == [inst : Nat, func_idx : Nat \ {0}]
ExportNames == UNION {{p.exports[k].name : k \in DOMAIN p.exports} : p \in Programs}
Export == [mod : Names, name : ExportNames, kind : Kinds, by : Nat, handle : Nat]

Shapes ==
    /\ functions \in Seq(Function)
    /\ tables \in Seq(Seq(Nat))
    /\ exports \in Seq(Export)
    /\ insts \in Seq(Instance)
    /\ loader \in [step : Steps, i : Nat]
    /\ Len(insts) <= MaxLoads
    /\ loader.step # "idle" => Len(insts) > 0 /\ me.live
    /\ loader.step \notin {"idle", "elems"} => loader.i >= 1

\* Every address leads into the store, every function to an instance.
Ranges ==
    /\ \A a \in DOMAIN functions : functions[a].inst \in DOMAIN insts
    /\ \A t \in DOMAIN tables : \A k \in DOMAIN tables[t] : tables[t][k] \in 0 .. Len(functions)
    /\ \A k \in DOMAIN exports :
          /\ exports[k].by \in DOMAIN insts
          /\ exports[k].handle \in IF exports[k].kind = "func" THEN DOMAIN functions
                                   ELSE DOMAIN tables
    /\ \A i \in DOMAIN insts :
          /\ \A f \in DOMAIN insts[i].funcaddrs : insts[i].funcaddrs[f] \in DOMAIN functions
          /\ \A t \in DOMAIN insts[i].tableaddrs : insts[i].tableaddrs[t] \in DOMAIN tables

\* How many functions and tables an instance has by now.
Before(p, kind, i) == {k \in ImportsOf(p, kind) : k < i}
Counts ==
    /\ \A i \in DOMAIN insts : Settled(i) =>
          /\ Len(insts[i].funcaddrs) = FuncCount(insts[i].program)
          /\ Len(insts[i].tableaddrs) = TableCount(insts[i].program)
    /\ loader.step = "imports" =>
          /\ Len(me.funcaddrs) = Cardinality(Before(prog, "func", loader.i))
          /\ Len(me.tableaddrs) = Cardinality(Before(prog, "table", loader.i))
          /\ loader.i <= Len(prog.imports) + 1
    /\ loader.step = "functions" =>
          /\ Len(me.funcaddrs) = Cardinality(ImportsOf(prog, "func")) + loader.i - 1
          /\ loader.i <= prog.functions + 1
    /\ loader.step \in {"tables", "elems"} => Len(me.funcaddrs) = FuncCount(prog)
    /\ loader.step = "functions" =>
          Len(me.tableaddrs) = Cardinality(ImportsOf(prog, "table"))
    /\ loader.step = "tables" =>
          /\ Len(me.tableaddrs) = Cardinality(ImportsOf(prog, "table")) + loader.i - 1
          /\ loader.i <= Len(prog.tables) + 1
    /\ loader.step = "elems" => Len(me.tableaddrs) = TableCount(prog)

\* A function of the store is the one its instance has under its index.
OwnIndex ==
    \A a \in DOMAIN functions :
        /\ functions[a].func_idx \in DOMAIN insts[functions[a].inst].funcaddrs
        /\ functions[insts[functions[a].inst].funcaddrs[functions[a].func_idx]] = functions[a]

\* Function a belongs to a settled instance, or to instance i.
Safe(a, i) == Settled(functions[a].inst) \/ functions[a].inst = i
SafeTable(t, i) == \A k \in DOMAIN tables[t] : tables[t][k] = 0 \/ Safe(tables[t][k], i)

\* What other modules can get at is settled; the instance that is being
\* loaded may have functions of its own besides.
Owners ==
    /\ \A i \in DOMAIN insts : insts[i].live =>
          /\ \A f \in DOMAIN insts[i].funcaddrs : Safe(insts[i].funcaddrs[f], i)
          /\ \A t \in DOMAIN insts[i].tableaddrs : SafeTable(insts[i].tableaddrs[t], i)
    /\ \A i \in DOMAIN insts : Settled(i) =>
          \A t \in DOMAIN insts[i].tableaddrs : SafeTable(insts[i].tableaddrs[t], 0)
    /\ \A k \in DOMAIN exports :
          IF exports[k].kind = "func" THEN Safe(exports[k].handle, 0)
          ELSE SafeTable(exports[k].handle, 0)

LinkInv == Shapes /\ Ranges /\ Counts /\ OwnIndex /\ Owners

-----------------------------------------------------------------------------
\* What the parts of the invariant say of one instance, function or export.
LEMMA InstanceShape ==
    ASSUME Shapes, NEW i \in DOMAIN insts
    PROVE  /\ insts[i] \in Instance
           /\ insts[i].program \in Programs
           /\ insts[i].funcaddrs \in Seq(Nat) /\ insts[i].tableaddrs \in Seq(Nat)
           /\ DOMAIN insts[i].funcaddrs = 1 .. Len(insts[i].funcaddrs)
           /\ DOMAIN insts[i].tableaddrs = 1 .. Len(insts[i].tableaddrs)
           /\ Len(insts[i].funcaddrs) \in Nat /\ Len(insts[i].tableaddrs) \in Nat
           /\ insts[i].live \in BOOLEAN
  <1>1. insts[i] \in Instance
    BY DEF Shapes
  <1>2. insts[i].funcaddrs \in Seq(Nat) /\ insts[i].tableaddrs \in Seq(Nat)
    BY <1>1 DEF Instance
  <1> QED BY <1>1, <1>2 DEF Instance

LEMMA StoreShape ==
    ASSUME Shapes
    PROVE  /\ Len(insts) \in Nat /\ DOMAIN insts = 1 .. Len(insts)
           /\ Len(functions) \in Nat /\ DOMAIN functions = 1 .. Len(functions)
           /\ Len(tables) \in Nat /\ DOMAIN tables = 1 .. Len(tables)
           /\ Len(exports) \in Nat /\ DOMAIN exports = 1 .. Len(exports)
           /\ \A a \in DOMAIN functions : functions[a] \in Function
           /\ \A t \in DOMAIN tables : tables[t] \in Seq(Nat)
           /\ \A k \in DOMAIN exports : exports[k] \in Export
           /\ loader \in [step : Steps, i : Nat]
  BY DEF Shapes

\* Writing one element of a sequence.
LEMMA SetInSeq ==
    ASSUME NEW S, NEW s \in Seq(S), NEW n \in DOMAIN s, NEW e \in S
    PROVE  [s EXCEPT ![n] = e] \in Seq(S) /\ DOMAIN [s EXCEPT ![n] = e] = DOMAIN s
  BY ExceptSeq

\* While a module is loaded it is the last instance, and it is live.
LEMMA CurShape ==
    ASSUME Shapes, loader.step # "idle"
    PROVE  cur \in DOMAIN insts /\ me.live /\ prog \in Programs /\ Len(insts) >= 1
  <1>1. cur \in DOMAIN insts /\ me.live /\ Len(insts) >= 1
    BY StoreShape DEF Shapes, cur
  <1> QED BY <1>1, InstanceShape DEF me, prog

-----------------------------------------------------------------------------
\* The first state: nothing is loaded.
LEMMA LinkInitInv == LinkInit => LinkInv
  <1> SUFFICES ASSUME LinkInit PROVE LinkInv
    OBVIOUS
  <1> USE DEF LinkInit
  <1>1. DOMAIN functions = {} /\ DOMAIN tables = {} /\ DOMAIN exports = {} /\ DOMAIN insts = {}
    OBVIOUS
  <1>2. loader = [step |-> "idle", i |-> 0] /\ Len(insts) = 0
    BY DEF At
  <1>3. Shapes
    BY <1>2, LinkAssumption DEF Shapes, Steps
  <1>4. Counts
    BY <1>1, <1>2 DEF Counts
  <1> QED BY <1>1, <1>3, <1>4 DEF LinkInv, Ranges, OwnIndex, Owners

-----------------------------------------------------------------------------
\* A step that changes the loader only, and settles nothing.
LEMMA SameStore ==
    ASSUME LinkInv, UNCHANGED <<functions, tables, exports, insts>>,
           Loading' = Loading
    PROVE  Ranges' /\ OwnIndex' /\ Owners'
  <1>1. ASSUME NEW i PROVE Settled(i)' <=> Settled(i)
    BY DEF Settled, cur
  <1>2. ASSUME NEW a, NEW i PROVE Safe(a, i)' <=> Safe(a, i)
    BY <1>1 DEF Safe
  <1>3. ASSUME NEW t, NEW i PROVE SafeTable(t, i)' <=> SafeTable(t, i)
    BY <1>2 DEF SafeTable
  <1>4. Ranges'
    BY DEF LinkInv, Ranges
  <1>5. OwnIndex'
    BY DEF LinkInv, OwnIndex
  <1>6. Owners'
    BY <1>1, <1>2, <1>3 DEF LinkInv, Owners
  <1> QED BY <1>4, <1>5, <1>6

\* The parts of a module, and how many functions and tables it has.
LEMMA ProgramShape ==
    ASSUME NEW p \in Programs
    PROVE  /\ p.functions \in Nat
           /\ Len(p.imports) \in Nat /\ DOMAIN p.imports = 1 .. Len(p.imports)
           /\ \A k \in DOMAIN p.imports : p.imports[k].kind \in Kinds
           /\ p.tables \in Seq([min : Nat, init : 0 .. FuncCount(p)]) /\ Len(p.tables) \in Nat
           /\ p.segments \in Seq([table : 1 .. TableCount(p), offset : Nat,
                                  funcs : Seq(1 .. FuncCount(p))])
           /\ Len(p.segments) \in Nat
           /\ ExportsValid(p)
  <1>1. p.tables \in Seq([min : Nat, init : 0 .. FuncCount(p)])
    BY LinkAssumption DEF TablesValid
  <1>2. p.segments \in Seq([table : 1 .. TableCount(p), offset : Nat,
                            funcs : Seq(1 .. FuncCount(p))])
    BY LinkAssumption DEF SegmentsValid
  <1>3. Len(p.tables) \in Nat /\ Len(p.segments) \in Nat
    BY <1>1, <1>2, LenProperties
  <1> QED BY <1>1, <1>2, <1>3, LinkAssumption DEF Kinds

LEMMA BeforeFinite ==
    ASSUME NEW p \in Programs, NEW kind, NEW i \in Nat
    PROVE  /\ IsFiniteSet(ImportsOf(p, kind)) /\ Cardinality(ImportsOf(p, kind)) \in Nat
           /\ IsFiniteSet(Before(p, kind, i)) /\ Cardinality(Before(p, kind, i)) \in Nat
  <1>1. Len(p.imports) \in Nat /\ DOMAIN p.imports = 1 .. Len(p.imports)
    BY ProgramShape
  <1>2. IsFiniteSet(1 .. Len(p.imports))
    BY <1>1, FS_Interval
  <1>3. ImportsOf(p, kind) \subseteq 1 .. Len(p.imports)
    BY <1>1 DEF ImportsOf
  <1>4. Before(p, kind, i) \subseteq 1 .. Len(p.imports)
    BY <1>3 DEF Before
  <1>5. IsFiniteSet(ImportsOf(p, kind)) /\ IsFiniteSet(Before(p, kind, i))
    BY <1>2, <1>3, <1>4, FS_Subset
  <1> QED BY <1>5, FS_CardinalityType

LEMMA CountsNat ==
    ASSUME NEW p \in Programs
    PROVE  FuncCount(p) \in Nat /\ TableCount(p) \in Nat
  <1>1. /\ Cardinality(ImportsOf(p, "func")) \in Nat
        /\ Cardinality(ImportsOf(p, "table")) \in Nat
    BY BeforeFinite
  <1>2. p.functions \in Nat /\ Len(p.tables) \in Nat
    BY ProgramShape
  <1> QED BY <1>1, <1>2 DEF FuncCount, TableCount

\* All imports are resolved: the instance has as many as the module imports.
LEMMA AllBefore ==
    ASSUME NEW p \in Programs, NEW kind, NEW i \in Nat, i > Len(p.imports)
    PROVE  Before(p, kind, i) = ImportsOf(p, kind)
  <1>1. DOMAIN p.imports = 1 .. Len(p.imports) /\ Len(p.imports) \in Nat
    BY LinkAssumption
  <1> QED BY <1>1 DEF Before, ImportsOf

LEMMA ImportsDoneKeeps == LinkInv /\ ImportsDone => LinkInv'
  <1> SUFFICES ASSUME LinkInv, ImportsDone PROVE LinkInv'
    OBVIOUS
  <1>1. /\ loader \in [step : Steps, i : Nat] /\ loader.step = "imports"
        /\ loader' = [step |-> "functions", i |-> 1]
        /\ loader.i > Len(prog.imports)
        /\ UNCHANGED <<functions, tables, exports, insts>>
    BY DEF LinkInv, Shapes, ImportsDone, At
  <1>2. Ranges' /\ OwnIndex' /\ Owners'
    BY <1>1, SameStore DEF Loading
  <1>3. Shapes'
    BY <1>1 DEF LinkInv, Shapes, Steps, me, cur
  <1>4. ASSUME NEW i PROVE Settled(i)' <=> Settled(i)
    BY <1>1 DEF Settled, Loading, cur
  <1>5. prog \in Programs /\ prog' = prog /\ me' = me
    BY <1>1, CurShape DEF LinkInv, prog, me, cur
  <1>6. /\ Before(prog, "func", loader.i) = ImportsOf(prog, "func")
        /\ Before(prog, "table", loader.i) = ImportsOf(prog, "table")
    BY <1>1, <1>5, AllBefore
  <1>7. /\ Len(me.funcaddrs) = Cardinality(ImportsOf(prog, "func"))
        /\ Len(me.tableaddrs) = Cardinality(ImportsOf(prog, "table"))
    BY <1>1, <1>6 DEF LinkInv, Counts
  <1>8. Len(me.funcaddrs) \in Nat /\ prog.functions \in Nat
    BY <1>1, <1>5, CurShape, InstanceShape, LinkAssumption DEF LinkInv, me
  <1>9. Counts'
    <2>1. \A i \in DOMAIN insts' : Settled(i)' =>
             /\ Len(insts'[i].funcaddrs) = FuncCount(insts'[i].program)
             /\ Len(insts'[i].tableaddrs) = TableCount(insts'[i].program)
      BY <1>1, <1>4 DEF LinkInv, Counts
    <2> QED BY <1>1, <1>5, <1>7, <1>8, <2>1 DEF Counts
  <1> QED BY <1>2, <1>3, <1>9 DEF LinkInv

LEMMA FunctionsDoneKeeps == LinkInv /\ FunctionsDone => LinkInv'
  <1> SUFFICES ASSUME LinkInv, FunctionsDone PROVE LinkInv'
    OBVIOUS
  <1>1. /\ loader \in [step : Steps, i : Nat] /\ loader.step = "functions"
        /\ loader' = [step |-> "tables", i |-> 1]
        /\ loader.i > prog.functions
        /\ UNCHANGED <<functions, tables, exports, insts>>
    BY DEF LinkInv, Shapes, FunctionsDone, At
  <1>2. Ranges' /\ OwnIndex' /\ Owners'
    BY <1>1, SameStore DEF Loading
  <1>3. Shapes'
    BY <1>1 DEF LinkInv, Shapes, Steps, me, cur
  <1>4. ASSUME NEW i PROVE Settled(i)' <=> Settled(i)
    BY <1>1 DEF Settled, Loading, cur
  <1>5. prog \in Programs /\ prog' = prog /\ me' = me
    BY <1>1, CurShape DEF LinkInv, prog, me, cur
  <1>6. Len(prog.tables) \in Nat /\ prog.functions \in Nat
    BY <1>5, ProgramShape
  <1>7. Len(me.funcaddrs) \in Nat /\ Len(me.tableaddrs) \in Nat
    BY <1>1, CurShape, InstanceShape DEF LinkInv, me
  <1>10. Cardinality(ImportsOf(prog, "func")) \in Nat
    BY <1>5, BeforeFinite
  <1>11. Len(me.funcaddrs) = FuncCount(prog)
    BY <1>1, <1>6, <1>7, <1>10 DEF LinkInv, Counts, FuncCount
  <1>12. Counts'
    <2>1. \A i \in DOMAIN insts' : Settled(i)' =>
             /\ Len(insts'[i].funcaddrs) = FuncCount(insts'[i].program)
             /\ Len(insts'[i].tableaddrs) = TableCount(insts'[i].program)
      BY <1>1, <1>4 DEF LinkInv, Counts
    <2>2. Len(me.tableaddrs) = Cardinality(ImportsOf(prog, "table")) + 1 - 1
      BY <1>1, <1>7 DEF LinkInv, Counts
    <2> QED BY <1>1, <1>5, <1>6, <1>11, <2>1, <2>2 DEF Counts
  <1> QED BY <1>2, <1>3, <1>12 DEF LinkInv

LEMMA TablesDoneKeeps == LinkInv /\ TablesDone => LinkInv'
  <1> SUFFICES ASSUME LinkInv, TablesDone PROVE LinkInv'
    OBVIOUS
  <1>1. /\ loader \in [step : Steps, i : Nat] /\ loader.step = "tables"
        /\ loader' = [step |-> "elems", i |-> 0]
        /\ loader.i > Len(prog.tables)
        /\ UNCHANGED <<functions, tables, exports, insts>>
    BY DEF LinkInv, Shapes, TablesDone, At
  <1>2. Ranges' /\ OwnIndex' /\ Owners'
    BY <1>1, SameStore DEF Loading
  <1>3. Shapes'
    BY <1>1 DEF LinkInv, Shapes, Steps, me, cur
  <1>4. ASSUME NEW i PROVE Settled(i)' <=> Settled(i)
    BY <1>1 DEF Settled, Loading, cur
  <1>5. prog \in Programs /\ prog' = prog /\ me' = me
    BY <1>1, CurShape DEF LinkInv, prog, me, cur
  <1>6. Len(prog.tables) \in Nat /\ Cardinality(ImportsOf(prog, "table")) \in Nat
    BY <1>5, ProgramShape, BeforeFinite
  <1>7. Len(me.tableaddrs) \in Nat
    BY <1>1, CurShape, InstanceShape DEF LinkInv, me
  <1>8. Len(me.tableaddrs) = TableCount(prog) /\ Len(me.funcaddrs) = FuncCount(prog)
    BY <1>1, <1>6, <1>7 DEF LinkInv, Counts, TableCount
  <1>9. Counts'
    <2>1. \A i \in DOMAIN insts' : Settled(i)' =>
             /\ Len(insts'[i].funcaddrs) = FuncCount(insts'[i].program)
             /\ Len(insts'[i].tableaddrs) = TableCount(insts'[i].program)
      BY <1>1, <1>4 DEF LinkInv, Counts
    <2> QED BY <1>1, <1>5, <1>8, <2>1 DEF Counts
  <1> QED BY <1>2, <1>3, <1>9 DEF LinkInv

\* Phase 2 begins: from now on the instance stays, and with it what the
\* functions of the module and the tables it shares lead to.
LEMMA Phase1DoneKeeps == LinkInv /\ Phase1Done => LinkInv'
  <1> SUFFICES ASSUME LinkInv, Phase1Done PROVE LinkInv'
    OBVIOUS
  <1>1. /\ loader \in [step : Steps, i : Nat] /\ loader.step = "elems"
        /\ loader' = [step |-> "apply", i |-> 1]
        /\ UNCHANGED <<functions, tables, exports, insts>>
    BY DEF LinkInv, Shapes, Phase1Done, At
  <1>2. /\ Shapes' /\ me' = me /\ prog' = prog /\ cur' = cur
    BY <1>1 DEF LinkInv, Shapes, Steps, prog, me, cur
  <1>3. ~Loading' /\ Loading
    BY <1>1 DEF Loading
  <1>4. \A i : Settled(i)' <=> (i \in DOMAIN insts /\ insts[i].live)
    BY <1>1, <1>3 DEF Settled
  <1>5. \A i : Settled(i) => Settled(i)'
    BY <1>4 DEF Settled
  <1>6. ASSUME NEW a, NEW i PROVE Safe(a, i) => Safe(a, i)'
    BY <1>1, <1>5 DEF Safe
  <1>7. ASSUME NEW t, NEW i, SafeTable(t, i) PROVE SafeTable(t, i)'
    BY <1>1, <1>6, <1>7 DEF SafeTable
  <1>8. ASSUME NEW i, Settled(i)', NEW a, Safe(a, i) PROVE Safe(a, 0)'
    BY <1>1, <1>5, <1>8 DEF Safe
  <1>9. ASSUME NEW i, Settled(i)', NEW t, SafeTable(t, i) PROVE SafeTable(t, 0)'
    BY <1>1, <1>8, <1>9 DEF SafeTable
  <1>10. Ranges' /\ OwnIndex'
    BY <1>1 DEF LinkInv, Ranges, OwnIndex
  <1>11. Counts'
    <2>1. Len(me.funcaddrs) = FuncCount(prog) /\ Len(me.tableaddrs) = TableCount(prog)
      BY <1>1 DEF LinkInv, Counts
    <2>2. ASSUME NEW i \in DOMAIN insts, Settled(i)'
          PROVE  /\ Len(insts[i].funcaddrs) = FuncCount(insts[i].program)
                 /\ Len(insts[i].tableaddrs) = TableCount(insts[i].program)
      <3>1. CASE i = cur
        BY <2>1, <3>1 DEF me, prog
      <3>2. CASE i # cur
        <4>1. Settled(i)
          BY <1>4, <2>2, <3>2 DEF Settled
        <4> QED BY <4>1 DEF LinkInv, Counts
      <3> QED BY <3>1, <3>2
    <2> QED BY <1>1, <2>2 DEF Counts
  <1>12. Owners'
    <2>1. ASSUME NEW i \in DOMAIN insts, insts[i].live
          PROVE  /\ \A f \in DOMAIN insts[i].funcaddrs : Safe(insts[i].funcaddrs[f], i)'
                 /\ \A t \in DOMAIN insts[i].tableaddrs : SafeTable(insts[i].tableaddrs[t], i)'
      BY <1>1, <1>6, <1>7, <2>1 DEF LinkInv, Owners
    <2>2. ASSUME NEW i \in DOMAIN insts, Settled(i)'
          PROVE  \A t \in DOMAIN insts[i].tableaddrs : SafeTable(insts[i].tableaddrs[t], 0)'
      <3>1. insts[i].live
        BY <1>4, <2>2
      <3> QED BY <1>1, <1>9, <2>2, <3>1 DEF LinkInv, Owners
    <2>3. ASSUME NEW k \in DOMAIN exports
          PROVE  IF exports[k].kind = "func" THEN Safe(exports[k].handle, 0)'
                 ELSE SafeTable(exports[k].handle, 0)'
      BY <1>1, <1>6, <1>7 DEF LinkInv, Owners
    <2> QED BY <1>1, <2>1, <2>2, <2>3 DEF Owners
  <1> QED BY <1>2, <1>10, <1>11, <1>12 DEF LinkInv

\* Phase 2 and the registration end: nothing but the loader changes.
LEMMA LoaderGoesOn ==
    ASSUME LinkInv, UNCHANGED <<functions, tables, exports, insts>>,
           loader.step \in {"apply", "register"},
           loader' \in [step : {"apply", "register", "idle"}, i : Nat],
           loader'.step # "idle" => loader'.i >= 1
    PROVE  LinkInv'
  <1>1. Ranges' /\ OwnIndex' /\ Owners'
    BY SameStore DEF Loading
  <1>2. Shapes'
    BY DEF LinkInv, Shapes, Steps, me, cur
  <1>3. ASSUME NEW i PROVE Settled(i)' <=> Settled(i)
    BY DEF Settled, Loading, cur
  <1>4. Counts'
    BY <1>3 DEF LinkInv, Counts
  <1> QED BY <1>1, <1>2, <1>4 DEF LinkInv

LEMMA LoaderEndsKeep == LinkInv /\ (ApplyDone \/ RegisterEnds) => LinkInv'
  BY LoaderGoesOn DEF ApplyDone, RegisterEnds, At

-----------------------------------------------------------------------------
\* The instance that is freed was not settled: what is reached stays settled.
LEMMA Phase1FailsKeeps == LinkInv /\ Phase1Fails => LinkInv'
  <1> SUFFICES ASSUME LinkInv, Phase1Fails PROVE LinkInv'
    OBVIOUS
  <1>1. /\ loader \in [step : Steps, i : Nat]
        /\ loader' = [step |-> "idle", i |-> 0]
        /\ Loading /\ ~Loading'
        /\ insts' = [insts EXCEPT ![cur].live = FALSE]
        /\ UNCHANGED <<functions, tables, exports>>
    BY DEF LinkInv, Shapes, Phase1Fails, At, Loading
  <1>2. cur \in DOMAIN insts
    BY <1>1, CurShape DEF LinkInv, Loading
  <1>3. /\ DOMAIN insts' = DOMAIN insts
        /\ insts' \in Seq(Instance) /\ Len(insts') = Len(insts)
        /\ \A i \in DOMAIN insts :
              /\ insts'[i].program = insts[i].program
              /\ insts'[i].funcaddrs = insts[i].funcaddrs
              /\ insts'[i].tableaddrs = insts[i].tableaddrs
              /\ insts'[i].live = (insts[i].live /\ i # cur)
    <2>1. insts \in Seq(Instance)
      BY DEF LinkInv, Shapes
    <2>2. insts[cur] \in Instance
      BY <1>2, <2>1
    <2>3. [insts[cur] EXCEPT !.live = FALSE] \in Instance
      BY <2>2 DEF Instance
    <2>4. \A i \in DOMAIN insts : insts[i] \in Instance
      BY <2>1
    <2>5. insts' = [insts EXCEPT ![cur] = [insts[cur] EXCEPT !.live = FALSE]]
      BY <1>1
    <2>6. insts' \in Seq(Instance) /\ Len(insts') = Len(insts) /\ DOMAIN insts' = DOMAIN insts
      BY <1>2, <2>1, <2>3, <2>5
    <2>7. ASSUME NEW i \in DOMAIN insts
          PROVE  /\ insts'[i].program = insts[i].program
                 /\ insts'[i].funcaddrs = insts[i].funcaddrs
                 /\ insts'[i].tableaddrs = insts[i].tableaddrs
                 /\ insts'[i].live = (insts[i].live /\ i # cur)
      <3>1. CASE i = cur
        BY <2>2, <2>5, <3>1 DEF Instance
      <3>2. CASE i # cur
        <4>1. insts'[i] = insts[i]
          BY <2>5, <3>2
        <4>2. insts[i].live \in BOOLEAN
          BY <2>4 DEF Instance
        <4> QED BY <3>2, <4>1, <4>2
      <3> QED BY <3>1, <3>2
    <2> QED BY <2>6, <2>7
  <1>4. \A i : Settled(i)' <=> Settled(i)
    BY <1>1, <1>3 DEF Settled
  <1>5. ASSUME NEW a, NEW i PROVE Safe(a, i)' <=> Safe(a, i)
    BY <1>1, <1>4 DEF Safe
  <1>6. ASSUME NEW t, NEW i PROVE SafeTable(t, i)' <=> SafeTable(t, i)
    BY <1>1, <1>5 DEF SafeTable
  <1>7. Shapes'
    BY <1>1, <1>3 DEF LinkInv, Shapes, Steps
  <1>8. Ranges'
    BY <1>1, <1>3 DEF LinkInv, Ranges
  <1>9. Counts'
    BY <1>1, <1>3, <1>4 DEF LinkInv, Counts
  <1>10. OwnIndex'
    <2>1. ASSUME NEW a \in DOMAIN functions
          PROVE  /\ functions[a].func_idx \in DOMAIN insts'[functions[a].inst].funcaddrs
                 /\ functions[insts'[functions[a].inst].funcaddrs[functions[a].func_idx]]
                      = functions[a]
      <3>1. functions[a].inst \in DOMAIN insts
        BY DEF LinkInv, Ranges
      <3>2. insts'[functions[a].inst].funcaddrs = insts[functions[a].inst].funcaddrs
        BY <1>3, <3>1
      <3> QED BY <3>2 DEF LinkInv, OwnIndex
    <2> QED BY <1>1, <2>1 DEF OwnIndex
  <1>11. Owners'
    BY <1>1, <1>3, <1>4, <1>5, <1>6 DEF LinkInv, Owners
  <1> QED BY <1>7, <1>8, <1>9, <1>10, <1>11 DEF LinkInv

\* A fresh instance has nothing and is reached from nowhere.
LEMMA LoadLinkedKeeps ==
    ASSUME LinkInv, NEW p \in Programs, NEW n \in Names, loadLinked(p, n)
    PROVE  LinkInv'
  <1> DEFINE new == [program |-> p, name |-> n, funcaddrs |-> <<>>,
                     tableaddrs |-> <<>>, live |-> TRUE, from |-> <<>>]
  <1>1. /\ loader \in [step : Steps, i : Nat] /\ loader.step = "idle"
        /\ loader' = [step |-> "imports", i |-> 1]
        /\ ~Loading /\ Loading'
        /\ insts' = Append(insts, new) /\ Len(insts) < MaxLoads
        /\ UNCHANGED <<functions, tables, exports>>
    BY DEF LinkInv, Shapes, loadLinked, At, Loading
  <1>2. new \in Instance
    BY DEF Instance
  <1>3. insts \in Seq(Instance) /\ Len(insts) \in Nat /\ DOMAIN insts = 1 .. Len(insts)
    BY DEF LinkInv, Shapes
  <1>4. /\ insts' \in Seq(Instance) /\ Len(insts') = Len(insts) + 1
        /\ DOMAIN insts' = 1 .. (Len(insts) + 1)
        /\ \A i \in DOMAIN insts : insts'[i] = insts[i]
        /\ insts'[Len(insts) + 1] = new
        /\ cur' = Len(insts) + 1
    <2> HIDE DEF new
    <2> QED BY <1>1, <1>2, <1>3 DEF cur
  <1>5. me' = new /\ prog' = p
    BY <1>4 DEF me, prog
  <1>6. \A i : Settled(i)' <=> Settled(i)
    <2>1. ASSUME NEW i PROVE Settled(i)' <=> Settled(i)
      <3>1. CASE i \in DOMAIN insts
        BY <1>1, <1>3, <1>4, <3>1 DEF Settled
      <3>2. CASE i \notin DOMAIN insts
        BY <1>1, <1>3, <1>4, <3>2 DEF Settled
      <3> QED BY <3>1, <3>2
    <2> QED BY <2>1
  <1>7. ASSUME NEW a, NEW i PROVE Safe(a, i)' <=> Safe(a, i)
    BY <1>1, <1>6 DEF Safe
  <1>8. ASSUME NEW t, NEW i PROVE SafeTable(t, i)' <=> SafeTable(t, i)
    BY <1>1, <1>7 DEF SafeTable
  <1>9. ASSUME NEW i \in DOMAIN insts', i \notin DOMAIN insts
        PROVE  DOMAIN insts'[i].funcaddrs = {} /\ DOMAIN insts'[i].tableaddrs = {}
    <2>1. insts'[i] = new
      BY <1>3, <1>4, <1>9
    <2> QED BY <2>1
  <1>10. Shapes'
    BY <1>1, <1>3, <1>4, <1>5, LinkAssumption DEF LinkInv, Shapes, Steps
  <1>11. Ranges'
    <2>1. \A a \in DOMAIN functions : functions[a].inst \in DOMAIN insts'
      BY <1>3, <1>4 DEF LinkInv, Ranges
    <2>2. \A k \in DOMAIN exports : exports[k].by \in DOMAIN insts'
      BY <1>3, <1>4 DEF LinkInv, Ranges
    <2>3. ASSUME NEW i \in DOMAIN insts'
          PROVE  /\ \A f \in DOMAIN insts'[i].funcaddrs : insts'[i].funcaddrs[f] \in DOMAIN functions
                 /\ \A t \in DOMAIN insts'[i].tableaddrs : insts'[i].tableaddrs[t] \in DOMAIN tables
      <3>1. CASE i \in DOMAIN insts
        BY <1>4, <3>1 DEF LinkInv, Ranges
      <3> QED BY <1>9, <3>1
    <2> QED BY <1>1, <2>1, <2>2, <2>3 DEF LinkInv, Ranges
  <1>12. Counts'
    <2>1. ASSUME NEW i \in DOMAIN insts', Settled(i)'
          PROVE  /\ Len(insts'[i].funcaddrs) = FuncCount(insts'[i].program)
                 /\ Len(insts'[i].tableaddrs) = TableCount(insts'[i].program)
      <3>1. Settled(i)
        BY <1>6, <2>1
      <3>2. i \in DOMAIN insts
        BY <3>1 DEF Settled
      <3> QED BY <1>4, <3>1, <3>2 DEF LinkInv, Counts
    <2>2. Before(p, "func", 1) = {} /\ Before(p, "table", 1) = {}
      BY ProgramShape DEF Before, ImportsOf
    <2>3. Cardinality({}) = 0
      BY FS_EmptySet
    <2>4. Len(p.imports) \in Nat
      BY ProgramShape
    <2>5. Len(new.funcaddrs) = 0 /\ Len(new.tableaddrs) = 0
      OBVIOUS
    <2>6. /\ Len(me'.funcaddrs) = Cardinality(Before(prog', "func", loader'.i))
          /\ Len(me'.tableaddrs) = Cardinality(Before(prog', "table", loader'.i))
          /\ loader'.i <= Len(prog'.imports) + 1
      <3> HIDE DEF new
      <3>1. loader'.i = 1 /\ me' = new /\ prog' = p
        BY <1>1, <1>5
      <3>2. /\ Len(me'.funcaddrs) = Cardinality(Before(prog', "func", loader'.i))
            /\ Len(me'.tableaddrs) = Cardinality(Before(prog', "table", loader'.i))
        BY <2>2, <2>3, <2>5, <3>1, Zenon
      <3>3. loader'.i <= Len(prog'.imports) + 1
        BY <2>4, <3>1
      <3> QED BY <3>2, <3>3
    <2>7. loader'.step = "imports"
      BY <1>1
    <2> HIDE DEF new
    <2> QED BY <2>1, <2>6, <2>7 DEF Counts
  <1>13. OwnIndex'
    <2>1. ASSUME NEW a \in DOMAIN functions
          PROVE  /\ functions[a].func_idx \in DOMAIN insts'[functions[a].inst].funcaddrs
                 /\ functions[insts'[functions[a].inst].funcaddrs[functions[a].func_idx]]
                      = functions[a]
      <3>1. functions[a].inst \in DOMAIN insts
        BY DEF LinkInv, Ranges
      <3>2. insts'[functions[a].inst] = insts[functions[a].inst]
        BY <1>4, <3>1
      <3> QED BY <3>2 DEF LinkInv, OwnIndex
    <2> QED BY <1>1, <2>1 DEF OwnIndex
  <1>14. Owners'
    <2>1. ASSUME NEW i \in DOMAIN insts', insts'[i].live
          PROVE  /\ \A f \in DOMAIN insts'[i].funcaddrs : Safe(insts[i].funcaddrs[f], i)'
                 /\ \A t \in DOMAIN insts'[i].tableaddrs : SafeTable(insts[i].tableaddrs[t], i)'
      <3>1. CASE i \in DOMAIN insts
        <4>1. insts'[i] = insts[i]
          BY <1>4, <3>1
        <4> QED BY <1>7, <1>8, <2>1, <3>1, <4>1 DEF LinkInv, Owners
      <3> QED BY <1>9, <3>1
    <2>2. ASSUME NEW i \in DOMAIN insts', Settled(i)'
          PROVE  \A t \in DOMAIN insts'[i].tableaddrs : SafeTable(insts[i].tableaddrs[t], 0)'
      <3>1. Settled(i)
        BY <1>6, <2>2
      <3>2. insts'[i] = insts[i] /\ i \in DOMAIN insts
        BY <1>4, <3>1 DEF Settled
      <3> QED BY <1>8, <3>1, <3>2 DEF LinkInv, Owners
    <2>3. ASSUME NEW k \in DOMAIN exports
          PROVE  IF exports[k].kind = "func" THEN Safe(exports[k].handle, 0)'
                 ELSE SafeTable(exports[k].handle, 0)'
      BY <1>1, <1>7, <1>8 DEF LinkInv, Owners
    <2> QED BY <1>1, <2>1, <2>2, <2>3 DEF Owners
  <1> QED BY <1>10, <1>11, <1>12, <1>13, <1>14 DEF LinkInv

-----------------------------------------------------------------------------
\* Phase 1 goes on: the instance has functions fs and tables ts afterwards.
MineGrows(fs, ts) ==
    /\ insts' \in Seq(Instance) /\ Len(insts') = Len(insts) /\ DOMAIN insts' = DOMAIN insts
    /\ \A i \in DOMAIN insts : /\ insts'[i].live = insts[i].live
                               /\ insts'[i].program = insts[i].program
                               /\ i # cur => insts'[i] = insts[i]
    /\ insts'[cur].funcaddrs = fs /\ insts'[cur].tableaddrs = ts

\* Who is settled does not change.
LEMMA MineSettled ==
    ASSUME Shapes, Loading, Loading', NEW fs, NEW ts, MineGrows(fs, ts)
    PROVE  /\ \A i : Settled(i)' <=> Settled(i)
           /\ cur' = cur /\ prog' = prog /\ me'.live /\ me'.funcaddrs = fs /\ me'.tableaddrs = ts
           /\ cur \in DOMAIN insts /\ prog \in Programs /\ ~Settled(cur)
  <1>1. loader.step # "idle"
    BY DEF Loading
  <1>2. cur \in DOMAIN insts /\ prog \in Programs /\ me.live
    BY <1>1, CurShape
  <1>3. cur' = cur
    BY DEF MineGrows, cur
  <1>4. \A i : Settled(i)' <=> Settled(i)
    BY <1>3 DEF Settled, MineGrows
  <1>5. prog' = prog /\ me'.live /\ me'.funcaddrs = fs /\ me'.tableaddrs = ts
    BY <1>2, <1>3 DEF prog, me, MineGrows
  <1>6. ~Settled(cur)
    BY DEF Settled
  <1> QED BY <1>2, <1>3, <1>4, <1>5, <1>6

\* One more function, a copy of one in the store or one of the instance's own.
LEMMA FunctionAdded ==
    ASSUME LinkInv, Loading, Loading', NEW f \in Function,
           functions' = Append(functions, f),
           MineGrows(Append(me.funcaddrs, Len(functions) + 1), me.tableaddrs),
           UNCHANGED <<tables, exports>>,
           \/ f = [inst |-> cur, func_idx |-> Len(me.funcaddrs) + 1]
           \/ \E a \in DOMAIN functions : functions[a] = f /\ Settled(f.inst)
    PROVE  Ranges' /\ OwnIndex' /\ Owners'
  <1> DEFINE fs == Append(me.funcaddrs, Len(functions) + 1)
             ts == me.tableaddrs
  <1>0. Shapes /\ Ranges /\ OwnIndex /\ Owners
    BY DEF LinkInv
  <1>1. /\ \A i : Settled(i)' <=> Settled(i)
        /\ cur' = cur /\ prog' = prog /\ me'.live /\ me'.funcaddrs = fs /\ me'.tableaddrs = ts
        /\ cur \in DOMAIN insts /\ prog \in Programs /\ ~Settled(cur)
    BY <1>0, MineSettled
  <1>2. /\ functions \in Seq(Function) /\ Len(functions) \in Nat
        /\ DOMAIN functions = 1 .. Len(functions)
    BY <1>0 DEF Shapes
  <1>3. /\ functions' \in Seq(Function) /\ Len(functions') = Len(functions) + 1
        /\ DOMAIN functions' = 1 .. (Len(functions) + 1)
        /\ \A a \in DOMAIN functions : functions'[a] = functions[a]
        /\ functions'[Len(functions) + 1] = f
    BY <1>2
  <1>4. me \in Instance /\ me.funcaddrs \in Seq(Nat) /\ Len(me.funcaddrs) \in Nat
        /\ DOMAIN me.funcaddrs = 1 .. Len(me.funcaddrs)
    BY <1>0, <1>1, InstanceShape DEF me
  <1>5. /\ Len(fs) = Len(me.funcaddrs) + 1 /\ DOMAIN fs = 1 .. (Len(me.funcaddrs) + 1)
        /\ \A j \in DOMAIN me.funcaddrs : fs[j] = me.funcaddrs[j]
        /\ fs[Len(me.funcaddrs) + 1] = Len(functions) + 1
    BY <1>2, <1>4
  <1>6. /\ DOMAIN insts' = DOMAIN insts
        /\ insts'[cur].funcaddrs = fs /\ insts'[cur].tableaddrs = ts
        /\ \A i \in DOMAIN insts : insts'[i].live = insts[i].live
        /\ \A i \in DOMAIN insts : i # cur => insts'[i] = insts[i]
    BY DEF MineGrows
  <1> HIDE DEF fs
  <1>7. f.inst \in DOMAIN insts
    <2>1. CASE f = [inst |-> cur, func_idx |-> Len(me.funcaddrs) + 1]
      BY <1>1, <2>1
    <2>2. CASE \E a \in DOMAIN functions : functions[a] = f /\ Settled(f.inst)
      BY <2>2 DEF Settled
    <2> QED BY <2>1, <2>2
  \* An instance keeps the functions it had.
  <1>8. ASSUME NEW i \in DOMAIN insts, NEW j \in DOMAIN insts[i].funcaddrs
        PROVE  j \in DOMAIN insts'[i].funcaddrs /\ insts'[i].funcaddrs[j] = insts[i].funcaddrs[j]
    <2>1. CASE i = cur
      <3>1. j \in DOMAIN me.funcaddrs
        BY <2>1 DEF me
      <3>2. j \in DOMAIN fs /\ fs[j] = me.funcaddrs[j]
        BY <1>4, <1>5, <3>1
      <3> QED BY <1>6, <2>1, <3>2 DEF me
    <2>2. CASE i # cur
      BY <1>6, <2>2
    <2> QED BY <2>1, <2>2
  \* What it has besides is the new one.
  <1>9. ASSUME NEW i \in DOMAIN insts, NEW j \in DOMAIN insts'[i].funcaddrs,
               j \notin DOMAIN insts[i].funcaddrs
        PROVE  i = cur /\ insts'[i].funcaddrs[j] = Len(functions) + 1
    BY <1>4, <1>5, <1>6, <1>9 DEF me
  <1>10. \A i \in DOMAIN insts : insts'[i].tableaddrs = insts[i].tableaddrs
    BY <1>6 DEF me
  <1>11. Ranges'
    <2>1. ASSUME NEW a \in DOMAIN functions' PROVE functions'[a].inst \in DOMAIN insts
      BY <1>0, <1>2, <1>3, <1>7 DEF Ranges
    <2>2. ASSUME NEW i \in DOMAIN insts
          PROVE  /\ \A j \in DOMAIN insts'[i].funcaddrs : insts'[i].funcaddrs[j] \in DOMAIN functions'
                 /\ \A t \in DOMAIN insts'[i].tableaddrs : insts'[i].tableaddrs[t] \in DOMAIN tables
      <3>1. ASSUME NEW j \in DOMAIN insts'[i].funcaddrs
            PROVE  insts'[i].funcaddrs[j] \in DOMAIN functions'
        <4>1. CASE j \in DOMAIN insts[i].funcaddrs
          BY <1>0, <1>2, <1>3, <1>8, <4>1 DEF Ranges
        <4>2. CASE j \notin DOMAIN insts[i].funcaddrs
          BY <1>2, <1>3, <1>9, <4>2
        <4> QED BY <4>1, <4>2
      <3> QED BY <1>0, <1>10, <3>1 DEF Ranges
    <2>3. \A t \in DOMAIN tables : \A k \in DOMAIN tables[t] : tables[t][k] \in 0 .. Len(functions')
      BY <1>0, <1>2, <1>3 DEF Ranges
    <2>4. \A k \in DOMAIN exports :
             /\ exports[k].by \in DOMAIN insts
             /\ exports[k].handle \in IF exports[k].kind = "func" THEN DOMAIN functions'
                                      ELSE DOMAIN tables
      BY <1>0, <1>2, <1>3 DEF Ranges
    <2> QED BY <1>6, <2>1, <2>2, <2>3, <2>4 DEF Ranges
  <1>12. OwnIndex'
    <2>1. ASSUME NEW a \in DOMAIN functions
          PROVE  /\ functions[a].func_idx \in DOMAIN insts'[functions[a].inst].funcaddrs
                 /\ functions'[insts'[functions[a].inst].funcaddrs[functions[a].func_idx]]
                      = functions[a]
      <3>1. functions[a].inst \in DOMAIN insts
        BY <1>0 DEF Ranges
      <3>2. /\ functions[a].func_idx \in DOMAIN insts[functions[a].inst].funcaddrs
            /\ functions[insts[functions[a].inst].funcaddrs[functions[a].func_idx]] = functions[a]
        BY <1>0 DEF OwnIndex
      <3>3. insts[functions[a].inst].funcaddrs[functions[a].func_idx] \in DOMAIN functions
        BY <1>0, <3>1, <3>2 DEF Ranges
      <3> QED BY <1>3, <1>8, <3>1, <3>2, <3>3
    <2>2. /\ f.func_idx \in DOMAIN insts'[f.inst].funcaddrs
          /\ functions'[insts'[f.inst].funcaddrs[f.func_idx]] = f
      <3>1. CASE f = [inst |-> cur, func_idx |-> Len(me.funcaddrs) + 1]
        BY <1>3, <1>4, <1>5, <1>6, <3>1
      <3>2. CASE \E a \in DOMAIN functions : functions[a] = f /\ Settled(f.inst)
        BY <2>1, <3>2
      <3> QED BY <3>1, <3>2
    <2>3. ASSUME NEW a \in DOMAIN functions'
          PROVE  /\ functions'[a].func_idx \in DOMAIN insts'[functions'[a].inst].funcaddrs
                 /\ functions'[insts'[functions'[a].inst].funcaddrs[functions'[a].func_idx]]
                      = functions'[a]
      <3>1. CASE a \in DOMAIN functions
        BY <1>3, <2>1, <3>1
      <3>2. CASE a = Len(functions) + 1
        BY <1>3, <2>2, <3>2
      <3>3. a \in DOMAIN functions \/ a = Len(functions) + 1
        BY <1>2, <1>3
      <3> QED BY <3>1, <3>2, <3>3
    <2> QED BY <2>3 DEF OwnIndex
  <1>13. ASSUME NEW a \in DOMAIN functions, NEW i PROVE Safe(a, i)' <=> Safe(a, i)
    BY <1>1, <1>3 DEF Safe
  <1>14. ASSUME NEW t \in DOMAIN tables, NEW i, SafeTable(t, i) PROVE SafeTable(t, i)'
    <2>1. ASSUME NEW k \in DOMAIN tables[t], tables[t][k] # 0 PROVE tables[t][k] \in DOMAIN functions
      BY <1>0, <1>2, <2>1 DEF Ranges
    <2> QED BY <1>13, <1>14, <2>1 DEF SafeTable
  <1>15. PICK na, c : na = Len(functions) + 1 /\ c = cur
    OBVIOUS
  <1>16. Safe(na, c)'
    BY <1>1, <1>3, <1>15 DEF Safe
  <1>17. Owners'
    <2>1. ASSUME NEW i \in DOMAIN insts, insts[i].live
          PROVE  /\ \A j \in DOMAIN insts'[i].funcaddrs : Safe(insts[i].funcaddrs[j], i)'
                 /\ \A t \in DOMAIN insts'[i].tableaddrs : SafeTable(insts[i].tableaddrs[t], i)'
      <3>1. ASSUME NEW j \in DOMAIN insts'[i].funcaddrs
            PROVE  Safe(insts[i].funcaddrs[j], i)'
        <4>1. CASE j \in DOMAIN insts[i].funcaddrs
          <5>1. PICK a : a = insts[i].funcaddrs[j]
            OBVIOUS
          <5>2. a \in DOMAIN functions /\ Safe(a, i) /\ insts'[i].funcaddrs[j] = a
            BY <1>0, <1>8, <2>1, <4>1, <5>1 DEF Ranges, Owners
          <5>3. Safe(a, i)'
            BY <1>13, <5>2
          <5> QED BY <5>2, <5>3
        <4>2. CASE j \notin DOMAIN insts[i].funcaddrs
          <5>1. i = c /\ insts'[i].funcaddrs[j] = na
            BY <1>9, <1>15, <4>2
          <5> QED BY <1>16, <5>1
        <4> QED BY <4>1, <4>2
      <3>2. ASSUME NEW t \in DOMAIN insts'[i].tableaddrs
            PROVE  SafeTable(insts[i].tableaddrs[t], i)'
        <4>1. PICK h : h = insts[i].tableaddrs[t]
          OBVIOUS
        <4>2. insts'[i].tableaddrs[t] = h /\ h \in DOMAIN tables /\ SafeTable(h, i)
          BY <1>0, <1>10, <2>1, <4>1 DEF Ranges, Owners
        <4>3. SafeTable(h, i)'
          BY <1>14, <4>2
        <4> QED BY <4>2, <4>3
      <3> QED BY <3>1, <3>2
    <2>2. ASSUME NEW i \in DOMAIN insts, Settled(i)', NEW t \in DOMAIN insts'[i].tableaddrs
          PROVE  SafeTable(insts[i].tableaddrs[t], 0)'
      <3>1. PICK h : h = insts[i].tableaddrs[t]
        OBVIOUS
      <3>2. insts'[i].tableaddrs[t] = h /\ h \in DOMAIN tables /\ SafeTable(h, 0)
        BY <1>0, <1>1, <1>10, <2>2, <3>1 DEF Ranges, Owners
      <3>3. SafeTable(h, 0)'
        BY <1>14, <3>2
      <3> QED BY <3>2, <3>3
    <2>3. ASSUME NEW k \in DOMAIN exports
          PROVE  IF exports[k].kind = "func" THEN Safe(exports[k].handle, 0)'
                 ELSE SafeTable(exports[k].handle, 0)'
      <3>1. PICK h : h = exports[k].handle
        OBVIOUS
      <3>2. exports'[k].handle = h
        BY <3>1
      <3>3. CASE exports[k].kind = "func"
        <4>1. h \in DOMAIN functions /\ Safe(h, 0)
          BY <1>0, <3>1, <3>3 DEF Ranges, Owners
        <4>2. Safe(h, 0)'
          BY <1>13, <4>1
        <4> QED BY <3>2, <3>3, <4>2
      <3>4. CASE exports[k].kind # "func"
        <4>1. h \in DOMAIN tables /\ SafeTable(h, 0)
          BY <1>0, <3>1, <3>4 DEF Ranges, Owners
        <4>2. SafeTable(h, 0)'
          BY <1>14, <4>1
        <4> QED BY <3>2, <3>4, <4>2
      <3> QED BY <3>3, <3>4
    <2> QED BY <1>6, <2>1, <2>2, <2>3 DEF Owners
  <1> QED BY <1>11, <1>12, <1>17

\* One more table: a shared one, or a new one.  What is in it is settled or
\* the instance's own.
LEMMA TableAdded ==
    ASSUME LinkInv, Loading, Loading', NEW h \in Nat, NEW tab \in Seq(Nat),
           tables' \in Seq(Seq(Nat)), Len(tables') >= Len(tables),
           \A t \in DOMAIN tables : tables'[t] = tables[t],
           h \in DOMAIN tables', tables'[h] = tab,
           \A t \in DOMAIN tables' : t \in DOMAIN tables \/ t = h,
           \A k \in DOMAIN tab : tab[k] \in 0 .. Len(functions),
           \A k \in DOMAIN tab : tab[k] # 0 => Safe(tab[k], cur),
           MineGrows(me.funcaddrs, Append(me.tableaddrs, h)),
           UNCHANGED <<functions, exports>>
    PROVE  Ranges' /\ OwnIndex' /\ Owners'
  <1> DEFINE fs == me.funcaddrs
             ts == Append(me.tableaddrs, h)
  <1>0. Shapes /\ Ranges /\ OwnIndex /\ Owners
    BY DEF LinkInv
  <1>1. /\ \A i : Settled(i)' <=> Settled(i)
        /\ cur' = cur /\ prog' = prog /\ me'.live /\ me'.funcaddrs = fs /\ me'.tableaddrs = ts
        /\ cur \in DOMAIN insts /\ prog \in Programs /\ ~Settled(cur)
    BY <1>0, MineSettled
  <1>2. /\ Len(tables) \in Nat /\ DOMAIN tables = 1 .. Len(tables)
        /\ Len(tables') \in Nat /\ DOMAIN tables' = 1 .. Len(tables')
    BY <1>0 DEF Shapes
  <1>3. DOMAIN tables \subseteq DOMAIN tables'
    BY <1>2
  <1>4. me \in Instance /\ me.tableaddrs \in Seq(Nat) /\ Len(me.tableaddrs) \in Nat
        /\ DOMAIN me.tableaddrs = 1 .. Len(me.tableaddrs)
    BY <1>0, <1>1, InstanceShape DEF me
  <1>5. /\ Len(ts) = Len(me.tableaddrs) + 1 /\ DOMAIN ts = 1 .. (Len(me.tableaddrs) + 1)
        /\ \A j \in DOMAIN me.tableaddrs : ts[j] = me.tableaddrs[j]
        /\ ts[Len(me.tableaddrs) + 1] = h
    BY <1>4
  <1>6. /\ DOMAIN insts' = DOMAIN insts
        /\ insts'[cur].funcaddrs = fs /\ insts'[cur].tableaddrs = ts
        /\ \A i \in DOMAIN insts : insts'[i].live = insts[i].live
        /\ \A i \in DOMAIN insts : i # cur => insts'[i] = insts[i]
    BY DEF MineGrows
  <1> HIDE DEF ts
  <1>7. \A i \in DOMAIN insts : insts'[i].funcaddrs = insts[i].funcaddrs
    BY <1>6 DEF me
  \* An instance keeps the tables it had; what it has besides is h.
  <1>8. ASSUME NEW i \in DOMAIN insts, NEW j \in DOMAIN insts[i].tableaddrs
        PROVE  j \in DOMAIN insts'[i].tableaddrs /\ insts'[i].tableaddrs[j] = insts[i].tableaddrs[j]
    <2>1. CASE i = cur
      <3>1. j \in DOMAIN me.tableaddrs
        BY <2>1 DEF me
      <3>2. j \in DOMAIN ts /\ ts[j] = me.tableaddrs[j]
        BY <1>4, <1>5, <3>1
      <3> QED BY <1>6, <2>1, <3>2 DEF me
    <2>2. CASE i # cur
      BY <1>6, <2>2
    <2> QED BY <2>1, <2>2
  <1>9. ASSUME NEW i \in DOMAIN insts, NEW j \in DOMAIN insts'[i].tableaddrs,
               j \notin DOMAIN insts[i].tableaddrs
        PROVE  i = cur /\ insts'[i].tableaddrs[j] = h
    <2>1. i = cur
      BY <1>6, <1>9
    <2>2. j \in DOMAIN ts /\ j \notin DOMAIN me.tableaddrs
      BY <1>6, <1>9, <2>1 DEF me
    <2>3. j = Len(me.tableaddrs) + 1
      BY <1>4, <1>5, <2>2
    <2> QED BY <1>5, <1>6, <2>1, <2>3
  <1>10. Ranges'
    <2>1. ASSUME NEW t \in DOMAIN tables', NEW k \in DOMAIN tables'[t]
          PROVE  tables'[t][k] \in 0 .. Len(functions)
      <3>1. CASE t \in DOMAIN tables
        BY <1>0, <3>1 DEF Ranges
      <3>2. CASE t = h
        BY <3>2
      <3> QED BY <3>1, <3>2
    <2>2. ASSUME NEW i \in DOMAIN insts, NEW j \in DOMAIN insts'[i].tableaddrs
          PROVE  insts'[i].tableaddrs[j] \in DOMAIN tables'
      <3>1. CASE j \in DOMAIN insts[i].tableaddrs
        BY <1>0, <1>3, <1>8, <3>1 DEF Ranges
      <3>2. CASE j \notin DOMAIN insts[i].tableaddrs
        BY <1>9, <3>2
      <3> QED BY <3>1, <3>2
    <2>3. \A i \in DOMAIN insts : \A j \in DOMAIN insts'[i].funcaddrs :
             insts'[i].funcaddrs[j] \in DOMAIN functions
      BY <1>0, <1>7 DEF Ranges
    <2>4. \A k \in DOMAIN exports :
             /\ exports[k].by \in DOMAIN insts
             /\ exports[k].handle \in IF exports[k].kind = "func" THEN DOMAIN functions
                                      ELSE DOMAIN tables'
      BY <1>0, <1>3 DEF Ranges
    <2>5. \A a \in DOMAIN functions : functions[a].inst \in DOMAIN insts
      BY <1>0 DEF Ranges
    <2> QED BY <1>6, <2>1, <2>2, <2>3, <2>4, <2>5 DEF Ranges
  <1>11. OwnIndex'
    <2>1. ASSUME NEW a \in DOMAIN functions
          PROVE  /\ functions[a].func_idx \in DOMAIN insts'[functions[a].inst].funcaddrs
                 /\ functions[insts'[functions[a].inst].funcaddrs[functions[a].func_idx]]
                      = functions[a]
      <3>1. functions[a].inst \in DOMAIN insts
        BY <1>0 DEF Ranges
      <3>2. insts'[functions[a].inst].funcaddrs = insts[functions[a].inst].funcaddrs
        BY <1>7, <3>1
      <3> QED BY <1>0, <3>2 DEF OwnIndex
    <2> QED BY <2>1 DEF OwnIndex
  <1>12. ASSUME NEW a, NEW i PROVE Safe(a, i)' <=> Safe(a, i)
    BY <1>1 DEF Safe
  <1>13. ASSUME NEW t \in DOMAIN tables, NEW i, SafeTable(t, i) PROVE SafeTable(t, i)'
    BY <1>12, <1>13 DEF SafeTable
  <1>14. PICK c : c = cur
    OBVIOUS
  <1>15. SafeTable(h, c)'
    BY <1>12, <1>14 DEF SafeTable
  <1>16. Owners'
    <2>1. ASSUME NEW i \in DOMAIN insts, insts[i].live, NEW j \in DOMAIN insts'[i].funcaddrs
          PROVE  Safe(insts[i].funcaddrs[j], i)'
      <3>1. PICK a : a = insts[i].funcaddrs[j]
        OBVIOUS
      <3>2. Safe(a, i) /\ insts'[i].funcaddrs[j] = a
        BY <1>0, <1>7, <2>1, <3>1 DEF Owners
      <3>3. Safe(a, i)'
        BY <1>12, <3>2
      <3> QED BY <3>2, <3>3
    <2>2. ASSUME NEW i \in DOMAIN insts, insts[i].live, NEW t \in DOMAIN insts'[i].tableaddrs
          PROVE  SafeTable(insts[i].tableaddrs[t], i)'
      <3>1. CASE t \in DOMAIN insts[i].tableaddrs
        <4>1. PICK g : g = insts[i].tableaddrs[t]
          OBVIOUS
        <4>2. insts'[i].tableaddrs[t] = g /\ g \in DOMAIN tables /\ SafeTable(g, i)
          BY <1>0, <1>8, <2>2, <3>1, <4>1 DEF Ranges, Owners
        <4>3. SafeTable(g, i)'
          BY <1>13, <4>2
        <4> QED BY <4>2, <4>3
      <3>2. CASE t \notin DOMAIN insts[i].tableaddrs
        <4>1. i = c /\ insts'[i].tableaddrs[t] = h
          BY <1>9, <1>14, <3>2
        <4> QED BY <1>15, <4>1
      <3> QED BY <3>1, <3>2
    <2>3. ASSUME NEW i \in DOMAIN insts, Settled(i)', NEW t \in DOMAIN insts'[i].tableaddrs
          PROVE  SafeTable(insts[i].tableaddrs[t], 0)'
      <3>1. PICK g : g = insts[i].tableaddrs[t]
        OBVIOUS
      <3>2. Settled(i) /\ i # cur
        BY <1>1, <2>3
      <3>3. insts'[i] = insts[i]
        BY <1>6, <3>2
      <3>4. insts'[i].tableaddrs[t] = g /\ g \in DOMAIN tables /\ SafeTable(g, 0)
        BY <1>0, <2>3, <3>1, <3>2, <3>3 DEF Ranges, Owners
      <3>5. SafeTable(g, 0)'
        BY <1>13, <3>4
      <3> QED BY <3>4, <3>5
    <2>4. ASSUME NEW k \in DOMAIN exports
          PROVE  IF exports[k].kind = "func" THEN Safe(exports[k].handle, 0)'
                 ELSE SafeTable(exports[k].handle, 0)'
      <3>1. PICK g : g = exports[k].handle
        OBVIOUS
      <3>2. exports'[k].handle = g
        BY <3>1
      <3>3. CASE exports[k].kind = "func"
        <4>1. Safe(g, 0)
          BY <1>0, <3>1, <3>3 DEF Owners
        <4>2. Safe(g, 0)'
          BY <1>12, <4>1
        <4> QED BY <3>2, <3>3, <4>2
      <3>4. CASE exports[k].kind # "func"
        <4>1. g \in DOMAIN tables /\ SafeTable(g, 0)
          BY <1>0, <3>1, <3>4 DEF Ranges, Owners
        <4>2. SafeTable(g, 0)'
          BY <1>13, <4>1
        <4> QED BY <3>2, <3>4, <4>2
      <3> QED BY <3>3, <3>4
    <2> QED BY <1>6, <2>1, <2>2, <2>3, <2>4 DEF Owners
  <1> QED BY <1>10, <1>11, <1>16

-----------------------------------------------------------------------------
\* One more import is behind the loader.
LEMMA BeforeNext ==
    ASSUME NEW p \in Programs, NEW kind, NEW i \in Nat, i >= 1, i <= Len(p.imports)
    PROVE  Cardinality(Before(p, kind, i + 1)) =
              Cardinality(Before(p, kind, i)) + (IF p.imports[i].kind = kind THEN 1 ELSE 0)
  <1>1. DOMAIN p.imports = 1 .. Len(p.imports) /\ Len(p.imports) \in Nat
    BY ProgramShape
  <1>2. IsFiniteSet(Before(p, kind, i)) /\ Cardinality(Before(p, kind, i)) \in Nat
    BY BeforeFinite
  <1>3. CASE p.imports[i].kind = kind
    <2>1. Before(p, kind, i + 1) = Before(p, kind, i) \cup {i} /\ i \notin Before(p, kind, i)
      BY <1>1, <1>3 DEF Before, ImportsOf
    <2>2. Cardinality(Before(p, kind, i) \cup {i}) = Cardinality(Before(p, kind, i)) + 1
      BY <1>2, <2>1, FS_AddElement
    <2> QED BY <1>3, <2>1, <2>2
  <1>4. CASE p.imports[i].kind # kind
    <2>1. Before(p, kind, i + 1) = Before(p, kind, i)
      BY <1>1, <1>4 DEF Before, ImportsOf
    <2> QED BY <1>2, <1>4, <2>1
  <1> QED BY <1>3, <1>4

\* The counts of the settled instances do not change.
LEMMA SettledCounts ==
    ASSUME LinkInv, Loading, Loading', NEW fs, NEW ts, MineGrows(fs, ts)
    PROVE  \A i \in DOMAIN insts' : Settled(i)' =>
              /\ Len(insts'[i].funcaddrs) = FuncCount(insts'[i].program)
              /\ Len(insts'[i].tableaddrs) = TableCount(insts'[i].program)
  <1>1. Shapes
    BY DEF LinkInv
  <1>2. /\ \A i : Settled(i)' <=> Settled(i)
        /\ cur' = cur /\ prog' = prog /\ me'.live /\ me'.funcaddrs = fs /\ me'.tableaddrs = ts
        /\ cur \in DOMAIN insts /\ prog \in Programs /\ ~Settled(cur)
    BY <1>1, MineSettled
  <1>3. ASSUME NEW i \in DOMAIN insts', Settled(i)'
        PROVE  /\ Len(insts'[i].funcaddrs) = FuncCount(insts'[i].program)
               /\ Len(insts'[i].tableaddrs) = TableCount(insts'[i].program)
    <2>1. Settled(i) /\ i # cur /\ i \in DOMAIN insts
      BY <1>2, <1>3 DEF Settled
    <2>2. insts'[i] = insts[i]
      BY <2>1 DEF MineGrows
    <2> QED BY <2>1, <2>2 DEF LinkInv, Counts
  <1> QED BY <1>3

\* The shapes of what phase 1 changes.
LEMMA GrowShapes ==
    ASSUME LinkInv, Loading, NEW fs, NEW ts, MineGrows(fs, ts),
           functions' \in Seq(Function), tables' \in Seq(Seq(Nat)), exports' = exports,
           loader' \in [step : {"imports", "functions", "tables"}, i : Nat], loader'.i >= 1
    PROVE  Shapes'
  <1>1. Shapes /\ Loading'
    BY DEF LinkInv, Loading
  <1>2. me'.live /\ cur \in DOMAIN insts
    BY <1>1, MineSettled
  <1>3. Len(insts') > 0 /\ Len(insts') <= MaxLoads /\ insts' \in Seq(Instance)
    BY <1>1, <1>2, StoreShape DEF Shapes, MineGrows
  <1> QED BY <1>1, <1>2, <1>3 DEF Shapes, Steps

LEMMA InstantiateFunctionKeeps == LinkInv /\ instantiateFunction => LinkInv'
  <1> SUFFICES ASSUME LinkInv, instantiateFunction PROVE LinkInv'
    OBVIOUS
  <1> DEFINE fs == Append(me.funcaddrs, Len(functions) + 1)
             f == [inst |-> cur, func_idx |-> Len(me.funcaddrs) + 1]
  <1>0. Shapes
    BY DEF LinkInv
  <1>1. /\ loader \in [step : Steps, i : Nat] /\ loader.step = "functions" /\ loader.i >= 1
        /\ loader' = [step |-> "functions", i |-> loader.i + 1]
        /\ Loading /\ Loading'
        /\ loader.i <= prog.functions
        /\ functions' = Append(functions, f)
        /\ insts' = [insts EXCEPT ![cur].funcaddrs = Append(@, Len(functions) + 1)]
        /\ UNCHANGED <<tables, exports>>
    BY <1>0 DEF Shapes, instantiateFunction, At, Loading
  <1>2. cur \in DOMAIN insts /\ cur \in Nat /\ me.live /\ prog \in Programs
    BY <1>0, <1>1, CurShape, StoreShape
  <1>3. /\ me \in Instance /\ me.funcaddrs \in Seq(Nat) /\ me.tableaddrs \in Seq(Nat)
        /\ Len(me.funcaddrs) \in Nat /\ Len(me.tableaddrs) \in Nat
    BY <1>0, <1>2, InstanceShape DEF me
  <1>4. Len(functions) \in Nat /\ functions \in Seq(Function) /\ tables \in Seq(Seq(Nat))
    BY <1>0 DEF Shapes
  <1>5. f \in Function
    BY <1>2, <1>3 DEF Function
  <1>6. fs \in Seq(Nat) /\ Len(fs) = Len(me.funcaddrs) + 1
    BY <1>3, <1>4
  <1>7. MineGrows(fs, me.tableaddrs)
    <2> HIDE DEF fs
    <2>1. insts' = [insts EXCEPT ![cur] = [me EXCEPT !.funcaddrs = fs]]
      BY <1>1 DEF me, fs
    <2>2. [me EXCEPT !.funcaddrs = fs] \in Instance
      BY <1>3, <1>6 DEF Instance
    <2>3. insts \in Seq(Instance)
      BY <1>0 DEF Shapes
    <2>4. insts' \in Seq(Instance) /\ Len(insts') = Len(insts) /\ DOMAIN insts' = DOMAIN insts
      BY <1>2, <2>1, <2>2, <2>3
    <2>5. insts'[cur] = [me EXCEPT !.funcaddrs = fs]
      BY <1>2, <2>1
    <2>6. \A i \in DOMAIN insts : i # cur => insts'[i] = insts[i]
      BY <2>1
    <2>7. /\ insts'[cur].live = me.live /\ insts'[cur].program = me.program
          /\ insts'[cur].funcaddrs = fs /\ insts'[cur].tableaddrs = me.tableaddrs
      BY <1>3, <2>5 DEF Instance
    <2> QED BY <2>4, <2>6, <2>7 DEF MineGrows, me
  <1>8. functions' \in Seq(Function)
    BY <1>1, <1>4, <1>5
  <1> HIDE DEF f, fs
  <1>9. Ranges' /\ OwnIndex' /\ Owners'
    BY <1>1, <1>5, <1>7, FunctionAdded DEF f, fs
  <1>10. loader' \in [step : {"imports", "functions", "tables"}, i : Nat] /\ loader'.i >= 1
    BY <1>1
  <1>11. Shapes'
    BY <1>1, <1>4, <1>7, <1>8, <1>10, GrowShapes
  <1>12. Counts'
    <2>1. \A i \in DOMAIN insts' : Settled(i)' =>
              /\ Len(insts'[i].funcaddrs) = FuncCount(insts'[i].program)
              /\ Len(insts'[i].tableaddrs) = TableCount(insts'[i].program)
      BY <1>1, <1>7, SettledCounts
    <2>2. prog' = prog /\ me'.funcaddrs = fs /\ me'.tableaddrs = me.tableaddrs
      BY <1>0, <1>1, <1>7, MineSettled
    <2>3. /\ Len(me.funcaddrs) = Cardinality(ImportsOf(prog, "func")) + loader.i - 1
          /\ Len(me.tableaddrs) = Cardinality(ImportsOf(prog, "table"))
      BY <1>1 DEF LinkInv, Counts
    <2>4. Cardinality(ImportsOf(prog, "func")) \in Nat /\ prog.functions \in Nat
      BY <1>2, BeforeFinite, ProgramShape
    <2>5. /\ Len(fs) = Cardinality(ImportsOf(prog, "func")) + loader'.i - 1
          /\ loader'.i <= prog.functions + 1
      BY <1>1, <1>6, <2>3, <2>4, SMTT(30)
    <2>6. loader'.step = "functions"
      BY <1>1
    <2> QED BY <2>1, <2>2, <2>3, <2>5, <2>6 DEF Counts
  <1> QED BY <1>9, <1>11, <1>12 DEF LinkInv

\* A new table holds null or a function of the module.
LEMMA InstantiateTableKeeps == LinkInv /\ instantiateTable => LinkInv'
  <1> SUFFICES ASSUME LinkInv, instantiateTable PROVE LinkInv'
    OBVIOUS
  <1> DEFINE t == prog.tables[loader.i]
             v == IF t.init = 0 THEN 0 ELSE me.funcaddrs[t.init]
             tab == [k \in 1 .. t.min |-> v]
             h == Len(tables) + 1
             ts == Append(me.tableaddrs, h)
  <1>0. Shapes /\ Ranges /\ Owners
    BY DEF LinkInv
  <1>1. /\ loader \in [step : Steps, i : Nat] /\ loader.step = "tables" /\ loader.i >= 1
        /\ loader' = [step |-> "tables", i |-> loader.i + 1]
        /\ Loading /\ Loading'
        /\ loader.i <= Len(prog.tables)
        /\ tables' = Append(tables, tab)
        /\ insts' = [insts EXCEPT ![cur].tableaddrs = Append(@, Len(tables) + 1)]
        /\ UNCHANGED <<functions, exports>>
    BY <1>0 DEF Shapes, instantiateTable, At, Loading
  <1>2. cur \in DOMAIN insts /\ cur \in Nat /\ me.live /\ prog \in Programs
    BY <1>0, <1>1, CurShape, StoreShape
  <1>3. /\ me \in Instance /\ me.funcaddrs \in Seq(Nat) /\ me.tableaddrs \in Seq(Nat)
        /\ Len(me.funcaddrs) \in Nat /\ Len(me.tableaddrs) \in Nat
        /\ DOMAIN me.funcaddrs = 1 .. Len(me.funcaddrs)
    BY <1>0, <1>2, InstanceShape DEF me
  <1>4. /\ Len(tables) \in Nat /\ functions \in Seq(Function) /\ tables \in Seq(Seq(Nat))
        /\ Len(functions) \in Nat /\ DOMAIN functions = 1 .. Len(functions)
    BY <1>0 DEF Shapes
  <1>5. t.min \in Nat /\ t.init \in 0 .. FuncCount(prog)
    <2>1. /\ prog.tables \in Seq([min : Nat, init : 0 .. FuncCount(prog)])
          /\ Len(prog.tables) \in Nat
      BY <1>2, ProgramShape
    <2>2. loader.i \in 1 .. Len(prog.tables)
      <3>1. loader.i \in Nat /\ loader.i >= 1 /\ loader.i <= Len(prog.tables)
        BY <1>1
      <3> QED BY <2>1, <3>1
    <2>3. t \in [min : Nat, init : 0 .. FuncCount(prog)]
      BY <2>1, <2>2, ElementOfSeq
    <2> QED BY <2>3
  <1>6. FuncCount(prog) \in Nat /\ Len(me.funcaddrs) = FuncCount(prog)
    BY <1>1, <1>2, CountsNat DEF LinkInv, Counts
  <1>7. v \in 0 .. Len(functions) /\ (v # 0 => Safe(v, cur))
    <2>1. CASE t.init = 0
      BY <1>4, <2>1
    <2>2. CASE t.init # 0
      <3>1. t.init \in DOMAIN me.funcaddrs /\ v = me.funcaddrs[t.init]
        BY <1>3, <1>5, <1>6, <2>2
      <3>2. v \in DOMAIN functions /\ Safe(v, cur)
        BY <1>0, <1>2, <3>1 DEF Ranges, Owners, me
      <3>3. PICK x : x = v
        OBVIOUS
      <3>4. x \in 0 .. Len(functions)
        <4>1. x \in DOMAIN functions
          BY <3>2, <3>3
        <4> HIDE DEF v
        <4> QED BY <1>4, <4>1
      <3> QED BY <3>2, <3>3, <3>4
    <2> QED BY <2>1, <2>2
  <1> HIDE DEF t, v
  <1>8. /\ tab \in Seq(Nat) /\ \A k \in DOMAIN tab : tab[k] = v
    BY <1>4, <1>5, <1>7
  <1> HIDE DEF tab
  <1>9. /\ tables' \in Seq(Seq(Nat)) /\ Len(tables') = Len(tables) + 1
        /\ DOMAIN tables = 1 .. Len(tables) /\ DOMAIN tables' = 1 .. h
        /\ \A j \in DOMAIN tables : tables'[j] = tables[j]
        /\ tables'[h] = tab /\ h \in Nat
    BY <1>1, <1>4, <1>8
  <1>10. ts \in Seq(Nat) /\ Len(ts) = Len(me.tableaddrs) + 1
    BY <1>3, <1>4
  <1>11. MineGrows(me.funcaddrs, ts)
    <2> HIDE DEF ts
    <2>1. insts' = [insts EXCEPT ![cur] = [me EXCEPT !.tableaddrs = ts]]
      BY <1>1 DEF me, ts
    <2>2. [me EXCEPT !.tableaddrs = ts] \in Instance
      BY <1>3, <1>10 DEF Instance
    <2>3. insts \in Seq(Instance)
      BY <1>0 DEF Shapes
    <2>4. insts' \in Seq(Instance) /\ Len(insts') = Len(insts) /\ DOMAIN insts' = DOMAIN insts
      BY <1>2, <2>1, <2>2, <2>3
    <2>5. insts'[cur] = [me EXCEPT !.tableaddrs = ts]
      BY <1>2, <2>1
    <2>6. \A i \in DOMAIN insts : i # cur => insts'[i] = insts[i]
      BY <2>1
    <2>7. /\ insts'[cur].live = me.live /\ insts'[cur].program = me.program
          /\ insts'[cur].funcaddrs = me.funcaddrs /\ insts'[cur].tableaddrs = ts
      BY <1>3, <2>5 DEF Instance
    <2> QED BY <2>4, <2>6, <2>7 DEF MineGrows, me
  <1>12. Ranges' /\ OwnIndex' /\ Owners'
    <2>1. \A j \in DOMAIN tables' : j \in DOMAIN tables \/ j = h
      BY <1>4, <1>9
    <2>2. h \in DOMAIN tables' /\ Len(tables') >= Len(tables)
      BY <1>4, <1>9
    <2>3. \A k \in DOMAIN tab : tab[k] \in 0 .. Len(functions)
      BY <1>7, <1>8
    <2>4. \A k \in DOMAIN tab : tab[k] # 0 => Safe(tab[k], cur)
      BY <1>7, <1>8
    <2> HIDE DEF h
    <2>5. MineGrows(me.funcaddrs, Append(me.tableaddrs, h))
      BY <1>11
    <2> QED BY <1>1, <1>8, <1>9, <2>1, <2>2, <2>3, <2>4, <2>5, TableAdded
  <1>13. loader' \in [step : {"imports", "functions", "tables"}, i : Nat] /\ loader'.i >= 1
    BY <1>1
  <1> HIDE DEF h, ts
  <1>14. Shapes'
    BY <1>1, <1>4, <1>9, <1>11, <1>13, GrowShapes
  <1>15. Counts'
    <2>1. \A i \in DOMAIN insts' : Settled(i)' =>
              /\ Len(insts'[i].funcaddrs) = FuncCount(insts'[i].program)
              /\ Len(insts'[i].tableaddrs) = TableCount(insts'[i].program)
      BY <1>1, <1>11, SettledCounts
    <2>2. prog' = prog /\ me'.funcaddrs = me.funcaddrs /\ me'.tableaddrs = ts
      BY <1>0, <1>1, <1>11, MineSettled
    <2>3. /\ Len(me.tableaddrs) = Cardinality(ImportsOf(prog, "table")) + loader.i - 1
          /\ Len(me.funcaddrs) = FuncCount(prog)
      BY <1>1 DEF LinkInv, Counts
    <2>4. Cardinality(ImportsOf(prog, "table")) \in Nat /\ Len(prog.tables) \in Nat
      BY <1>2, BeforeFinite, ProgramShape
    <2>5. /\ Len(ts) = Cardinality(ImportsOf(prog, "table")) + loader'.i - 1
          /\ loader'.i <= Len(prog.tables) + 1
      BY <1>1, <1>10, <2>3, <2>4, SMTT(30)
    <2>6. loader'.step = "tables"
      BY <1>1
    <2> QED BY <2>1, <2>2, <2>3, <2>5, <2>6 DEF Counts
  <1> QED BY <1>12, <1>14, <1>15 DEF LinkInv

\* Resolving an import: the copy keeps its owner, which is settled because it
\* was registered; a shared table holds functions of settled instances only.
LEMMA ResolveImportKeeps == LinkInv /\ resolveImport => LinkInv'
  <1> SUFFICES ASSUME LinkInv, resolveImport PROVE LinkInv'
    OBVIOUS
  <1> DEFINE imp == prog.imports[loader.i]
  <1>0. Shapes /\ Ranges /\ Owners
    BY DEF LinkInv
  <1>1. /\ loader \in [step : Steps, i : Nat] /\ loader.step = "imports" /\ loader.i >= 1
        /\ loader' = [step |-> "imports", i |-> loader.i + 1]
        /\ Loading /\ Loading'
        /\ loader.i <= Len(prog.imports)
        /\ UNCHANGED <<tables, exports>>
    BY <1>0 DEF Shapes, resolveImport, At, Loading
  <1>2. PICK k \in lookupImport(imp) :
          LET h == exports[k].handle
          IN  \/ /\ imp.kind = "func"
                 /\ functions' = Append(functions, functions[h])
                 /\ insts' = [insts EXCEPT ![cur].funcaddrs = Append(@, Len(functions) + 1),
                                           ![cur].from = Append(@, exports[k].by)]
              \/ /\ imp.kind = "table" /\ Len(tables[h]) >= imp.min
                 /\ insts' = [insts EXCEPT ![cur].tableaddrs = Append(@, h),
                                           ![cur].from = Append(@, exports[k].by)]
                 /\ UNCHANGED functions
    BY DEF resolveImport, CopyFunction
  <1> DEFINE h == exports[k].handle
             from == Append(me.from, exports[k].by)
             fs == Append(me.funcaddrs, Len(functions) + 1)
             ts == Append(me.tableaddrs, h)
  <1>3. k \in DOMAIN exports /\ exports[k].kind = imp.kind /\ exports[k] \in Export
    BY <1>0, StoreShape DEF lookupImport
  <1>4. cur \in DOMAIN insts /\ cur \in Nat /\ me.live /\ prog \in Programs
    BY <1>0, <1>1, CurShape, StoreShape
  <1>5. /\ me \in Instance /\ me.funcaddrs \in Seq(Nat) /\ me.tableaddrs \in Seq(Nat)
        /\ Len(me.funcaddrs) \in Nat /\ Len(me.tableaddrs) \in Nat /\ me.from \in Seq(Nat)
    BY <1>0, <1>4, InstanceShape DEF me, Instance
  <1>6. /\ Len(tables) \in Nat /\ functions \in Seq(Function) /\ tables \in Seq(Seq(Nat))
        /\ Len(functions) \in Nat /\ DOMAIN functions = 1 .. Len(functions)
        /\ insts \in Seq(Instance) /\ DOMAIN tables = 1 .. Len(tables)
    BY <1>0 DEF Shapes
  <1>7. exports[k].by \in Nat /\ h \in Nat
    BY <1>3 DEF Export
  <1>8. /\ from \in Seq(Nat) /\ fs \in Seq(Nat) /\ ts \in Seq(Nat)
        /\ Len(fs) = Len(me.funcaddrs) + 1 /\ Len(ts) = Len(me.tableaddrs) + 1
    BY <1>5, <1>6, <1>7
  <1>9. loader' \in [step : {"imports", "functions", "tables"}, i : Nat] /\ loader'.i >= 1
    BY <1>1
  <1>10. /\ Len(me.funcaddrs) = Cardinality(Before(prog, "func", loader.i))
         /\ Len(me.tableaddrs) = Cardinality(Before(prog, "table", loader.i))
    BY <1>1 DEF LinkInv, Counts
  <1>11. /\ Cardinality(Before(prog, "func", loader.i + 1)) =
              Cardinality(Before(prog, "func", loader.i)) + (IF imp.kind = "func" THEN 1 ELSE 0)
         /\ Cardinality(Before(prog, "table", loader.i + 1)) =
              Cardinality(Before(prog, "table", loader.i)) + (IF imp.kind = "table" THEN 1 ELSE 0)
    BY <1>1, <1>4, BeforeNext
  <1>12. loader'.step = "imports" /\ loader'.i = loader.i + 1 /\ loader'.i <= Len(prog.imports) + 1
    BY <1>1, <1>4, ProgramShape
  <1> HIDE DEF imp, h, from, fs, ts
  <1>13. CASE imp.kind = "func"
    <2>1. /\ functions' = Append(functions, functions[h])
          /\ insts' = [insts EXCEPT ![cur] = [me EXCEPT !.funcaddrs = fs, !.from = from]]
      BY <1>2, <1>13 DEF me, h, fs, from
    <2>2. h \in DOMAIN functions /\ functions[h] \in Function /\ Safe(h, 0)
      BY <1>0, <1>3, <1>13, StoreShape DEF Ranges, Owners, h
    <2>3. functions[h].inst \in DOMAIN insts /\ Settled(functions[h].inst)
      <3>1. functions[h].inst \in DOMAIN insts
        BY <1>0, <2>2 DEF Ranges
      <3>2. functions[h].inst # 0
        BY <1>0, <3>1, StoreShape
      <3> QED BY <2>2, <3>1, <3>2 DEF Safe
    <2>4. [me EXCEPT !.funcaddrs = fs, !.from = from] \in Instance
      BY <1>5, <1>8 DEF Instance
    <2>5. insts' \in Seq(Instance) /\ Len(insts') = Len(insts) /\ DOMAIN insts' = DOMAIN insts
      BY <1>4, <1>6, <2>1, <2>4
    <2>6. insts'[cur] = [me EXCEPT !.funcaddrs = fs, !.from = from]
      BY <1>4, <2>1
    <2>7. \A i \in DOMAIN insts : i # cur => insts'[i] = insts[i]
      BY <2>1
    <2>8. /\ insts'[cur].live = me.live /\ insts'[cur].program = me.program
          /\ insts'[cur].funcaddrs = fs /\ insts'[cur].tableaddrs = me.tableaddrs
      BY <1>5, <2>6 DEF Instance
    <2>9. MineGrows(fs, me.tableaddrs)
      BY <2>5, <2>7, <2>8 DEF MineGrows, me
    <2>10. Ranges' /\ OwnIndex' /\ Owners'
      <3>1. PICK f : f = functions[h]
        OBVIOUS
      <3>2. f \in Function /\ functions' = Append(functions, f)
        BY <2>1, <2>2, <3>1
      <3>3. \E a \in DOMAIN functions : functions[a] = f /\ Settled(f.inst)
        BY <2>2, <2>3, <3>1
      <3>4. MineGrows(Append(me.funcaddrs, Len(functions) + 1), me.tableaddrs)
        BY <2>9 DEF fs
      <3> QED BY <1>1, <3>2, <3>3, <3>4, FunctionAdded
    <2>11. functions' \in Seq(Function)
      BY <1>6, <2>1, <2>2
    <2>12. tables' \in Seq(Seq(Nat))
      BY <1>1, <1>6
    <2>13. Shapes'
      BY <1>1, <1>9, <2>9, <2>11, <2>12, GrowShapes
    <2>14. Counts'
      <3>1. \A i \in DOMAIN insts' : Settled(i)' =>
                /\ Len(insts'[i].funcaddrs) = FuncCount(insts'[i].program)
                /\ Len(insts'[i].tableaddrs) = TableCount(insts'[i].program)
        BY <1>1, <2>9, SettledCounts
      <3>2. prog' = prog /\ me'.funcaddrs = fs /\ me'.tableaddrs = me.tableaddrs
        BY <1>0, <1>1, <2>9, MineSettled
      <3>3. /\ Len(fs) = Cardinality(Before(prog, "func", loader'.i))
            /\ Len(me.tableaddrs) = Cardinality(Before(prog, "table", loader'.i))
        BY <1>5, <1>8, <1>10, <1>11, <1>12, <1>13
      <3> QED BY <1>12, <3>1, <3>2, <3>3 DEF Counts
    <2> QED BY <2>10, <2>13, <2>14 DEF LinkInv
  <1>14. CASE imp.kind # "func"
    <2>1. /\ imp.kind = "table" /\ functions' = functions
          /\ insts' = [insts EXCEPT ![cur] = [me EXCEPT !.tableaddrs = ts, !.from = from]]
      BY <1>2, <1>14 DEF me, h, ts, from
    <2>2. h \in DOMAIN tables /\ SafeTable(h, 0)
      BY <1>0, <1>3, <1>14 DEF Ranges, Owners, h
    <2>4. [me EXCEPT !.tableaddrs = ts, !.from = from] \in Instance
      BY <1>5, <1>8 DEF Instance
    <2>5. insts' \in Seq(Instance) /\ Len(insts') = Len(insts) /\ DOMAIN insts' = DOMAIN insts
      BY <1>4, <1>6, <2>1, <2>4
    <2>6. insts'[cur] = [me EXCEPT !.tableaddrs = ts, !.from = from]
      BY <1>4, <2>1
    <2>7. \A i \in DOMAIN insts : i # cur => insts'[i] = insts[i]
      BY <2>1
    <2>8. /\ insts'[cur].live = me.live /\ insts'[cur].program = me.program
          /\ insts'[cur].funcaddrs = me.funcaddrs /\ insts'[cur].tableaddrs = ts
      BY <1>5, <2>6 DEF Instance
    <2>9. MineGrows(me.funcaddrs, ts)
      BY <2>5, <2>7, <2>8 DEF MineGrows, me
    <2>10. Ranges' /\ OwnIndex' /\ Owners'
      <3>1. PICK tab : tab = tables[h]
        OBVIOUS
      <3>2. tab \in Seq(Nat) /\ tables'[h] = tab /\ h \in DOMAIN tables'
        BY <1>1, <1>6, <2>2, <3>1
      <3>3. /\ tables' \in Seq(Seq(Nat)) /\ Len(tables') >= Len(tables)
            /\ \A t \in DOMAIN tables : tables'[t] = tables[t]
            /\ \A t \in DOMAIN tables' : t \in DOMAIN tables \/ t = h
        BY <1>1, <1>6
      <3>4. \A j \in DOMAIN tab : tab[j] \in 0 .. Len(functions)
        BY <1>0, <2>2, <3>1 DEF Ranges
      <3>5. ASSUME NEW j \in DOMAIN tab, tab[j] # 0 PROVE Safe(tab[j], cur)
        <4>1. Safe(tab[j], 0)
          BY <2>2, <3>1, <3>5 DEF SafeTable
        <4>2. tab[j] \in DOMAIN functions
          BY <1>6, <3>4, <3>5
        <4>3. functions[tab[j]].inst # 0
          BY <1>0, <4>2, StoreShape DEF Ranges
        <4> QED BY <4>1, <4>3 DEF Safe
      <3>6. MineGrows(me.funcaddrs, Append(me.tableaddrs, h))
        BY <2>9 DEF ts
      <3> QED BY <1>1, <1>7, <2>1, <3>2, <3>3, <3>4, <3>5, <3>6, TableAdded
    <2>11. functions' \in Seq(Function) /\ tables' \in Seq(Seq(Nat))
      BY <1>1, <1>6, <2>1
    <2>13. Shapes'
      BY <1>1, <1>9, <2>9, <2>11, GrowShapes
    <2>14. Counts'
      <3>1. \A i \in DOMAIN insts' : Settled(i)' =>
                /\ Len(insts'[i].funcaddrs) = FuncCount(insts'[i].program)
                /\ Len(insts'[i].tableaddrs) = TableCount(insts'[i].program)
        BY <1>1, <2>9, SettledCounts
      <3>2. prog' = prog /\ me'.funcaddrs = me.funcaddrs /\ me'.tableaddrs = ts
        BY <1>0, <1>1, <2>9, MineSettled
      <3>3. /\ Len(me.funcaddrs) = Cardinality(Before(prog, "func", loader'.i))
            /\ Len(ts) = Cardinality(Before(prog, "table", loader'.i))
        BY <1>5, <1>8, <1>10, <1>11, <1>12, <1>14, <2>1
      <3> QED BY <1>12, <3>1, <3>2, <3>3 DEF Counts
    <2> QED BY <2>10, <2>13, <2>14 DEF LinkInv
  <1> QED BY <1>13, <1>14

-----------------------------------------------------------------------------
\* Phase 1 is over: every live instance is settled, and so is what it has.
LEMMA LiveIsSettled ==
    ASSUME LinkInv, ~Loading, NEW i \in DOMAIN insts, insts[i].live
    PROVE  /\ Settled(i)
           /\ Len(insts[i].funcaddrs) = FuncCount(insts[i].program)
           /\ Len(insts[i].tableaddrs) = TableCount(insts[i].program)
           /\ \A f \in DOMAIN insts[i].funcaddrs :
                 /\ insts[i].funcaddrs[f] \in DOMAIN functions
                 /\ Settled(functions[insts[i].funcaddrs[f]].inst)
           /\ \A t \in DOMAIN insts[i].tableaddrs :
                 /\ insts[i].tableaddrs[t] \in DOMAIN tables
                 /\ SafeTable(insts[i].tableaddrs[t], 0)
  <1>1. Settled(i)
    BY DEF Settled
  <1> QED BY <1>1 DEF LinkInv, Counts, Ranges, Owners, Safe

\* A table entry is overwritten with a function of a settled instance.
LEMMA TablesWritten ==
    ASSUME LinkInv, ~Loading, ~Loading', UNCHANGED <<functions, exports, insts>>,
           tables' \in Seq(Seq(Nat)), DOMAIN tables' = DOMAIN tables,
           \A t \in DOMAIN tables :
              /\ DOMAIN tables'[t] = DOMAIN tables[t]
              /\ \A k \in DOMAIN tables[t] :
                    \/ tables'[t][k] = tables[t][k]
                    \/ /\ tables'[t][k] \in DOMAIN functions
                       /\ Settled(functions[tables'[t][k]].inst)
    PROVE  Ranges' /\ OwnIndex' /\ Owners'
  <1>0. Shapes /\ Ranges /\ OwnIndex /\ Owners
    BY DEF LinkInv
  <1>1. DOMAIN functions = 1 .. Len(functions) /\ Len(functions) \in Nat
    BY <1>0, StoreShape
  <1>2. ASSUME NEW i PROVE Settled(i)' <=> Settled(i)
    BY DEF Settled
  <1>3. ASSUME NEW a, NEW i PROVE Safe(a, i)' <=> Safe(a, i)
    BY <1>2 DEF Safe
  <1>4. ASSUME NEW t \in DOMAIN tables, NEW i, SafeTable(t, i) PROVE SafeTable(t, i)'
    <2>1. ASSUME NEW k \in DOMAIN tables'[t], NEW v, v = tables'[t][k]
          PROVE  v = 0 \/ Safe(v, i)'
      <3>1. k \in DOMAIN tables[t]
        OBVIOUS
      <3>2. CASE v = tables[t][k]
        BY <1>3, <1>4, <3>1, <3>2 DEF SafeTable
      <3>3. CASE v # tables[t][k]
        <4>1. Settled(functions[v].inst)
          BY <2>1, <3>1, <3>3
        <4>2. Safe(v, i)
          BY <4>1 DEF Safe
        <4> QED BY <1>3, <4>2
      <3> QED BY <3>2, <3>3
    <2> QED BY <2>1 DEF SafeTable
  <1>5. Ranges'
    <2>1. ASSUME NEW t \in DOMAIN tables', NEW k \in DOMAIN tables'[t]
          PROVE  tables'[t][k] \in 0 .. Len(functions)
      BY <1>0, <1>1 DEF Ranges
    <2>2. \A k \in DOMAIN exports :
             /\ exports[k].by \in DOMAIN insts
             /\ exports[k].handle \in IF exports[k].kind = "func" THEN DOMAIN functions
                                      ELSE DOMAIN tables'
      BY <1>0 DEF Ranges
    <2>3. \A i \in DOMAIN insts :
             /\ \A f \in DOMAIN insts[i].funcaddrs : insts[i].funcaddrs[f] \in DOMAIN functions
             /\ \A t \in DOMAIN insts[i].tableaddrs : insts[i].tableaddrs[t] \in DOMAIN tables'
      BY <1>0 DEF Ranges
    <2>4. \A a \in DOMAIN functions : functions[a].inst \in DOMAIN insts
      BY <1>0 DEF Ranges
    <2> QED BY <2>1, <2>2, <2>3, <2>4 DEF Ranges
  <1>6. OwnIndex'
    BY <1>0 DEF OwnIndex
  <1>7. Owners'
    <2>1. ASSUME NEW i \in DOMAIN insts, insts[i].live, NEW t \in DOMAIN insts[i].tableaddrs
          PROVE  SafeTable(insts[i].tableaddrs[t], i)' /\ (Settled(i)' => SafeTable(insts[i].tableaddrs[t], 0)')
      <3>1. PICK h : h = insts[i].tableaddrs[t]
        OBVIOUS
      <3>2. h \in DOMAIN tables /\ SafeTable(h, i) /\ (Settled(i) => SafeTable(h, 0))
        BY <1>0, <2>1, <3>1 DEF Ranges, Owners
      <3>3. SafeTable(h, i)' /\ (Settled(i)' => SafeTable(h, 0)')
        BY <1>2, <1>4, <3>2
      <3>4. insts'[i].tableaddrs[t] = h
        BY <3>1
      <3> QED BY <3>3, <3>4
    <2>2. ASSUME NEW i \in DOMAIN insts, insts[i].live, NEW f \in DOMAIN insts[i].funcaddrs
          PROVE  Safe(insts[i].funcaddrs[f], i)'
      BY <1>0, <1>3, <2>2 DEF Owners
    <2>3. ASSUME NEW k \in DOMAIN exports
          PROVE  IF exports[k].kind = "func" THEN Safe(exports[k].handle, 0)'
                 ELSE SafeTable(exports[k].handle, 0)'
      <3>1. PICK h : h = exports[k].handle
        OBVIOUS
      <3>2. exports'[k].handle = h
        BY <3>1
      <3>3. CASE exports[k].kind = "func"
        <4>1. Safe(h, 0)
          BY <1>0, <3>1, <3>3 DEF Owners
        <4>2. Safe(h, 0)'
          BY <1>3, <4>1
        <4> QED BY <3>2, <3>3, <4>2
      <3>4. CASE exports[k].kind # "func"
        <4>1. h \in DOMAIN tables /\ SafeTable(h, 0)
          BY <1>0, <3>1, <3>4 DEF Ranges, Owners
        <4>2. SafeTable(h, 0)'
          BY <1>4, <4>1
        <4> QED BY <3>2, <3>4, <4>2
      <3> QED BY <3>3, <3>4
    <2>4. \A i : Settled(i)' => i \in DOMAIN insts /\ insts[i].live
      BY DEF Settled
    <2> QED BY <2>1, <2>2, <2>3, <2>4 DEF Owners
  <1> QED BY <1>5, <1>6, <1>7

\* The shapes and counts when only the tables, the exports and the loader
\* change, after phase 1.
LEMMA LaterKeeps ==
    ASSUME LinkInv, ~Loading, UNCHANGED <<functions, insts>>,
           tables' \in Seq(Seq(Nat)), exports' \in Seq(Export),
           loader' \in [step : {"apply", "register", "idle"}, i : Nat],
           loader'.step # "idle" => loader'.i >= 1 /\ loader.step # "idle"
    PROVE  Shapes' /\ Counts' /\ ~Loading'
  <1>1. ~Loading'
    BY DEF Loading
  <1>2. Shapes'
    BY DEF LinkInv, Shapes, Steps, me, cur
  <1>3. ASSUME NEW i PROVE Settled(i)' <=> Settled(i)
    BY <1>1 DEF Settled
  <1>4. Counts'
    BY <1>3 DEF LinkInv, Counts
  <1> QED BY <1>1, <1>2, <1>4

LEMMA TableSetKeeps ==
    ASSUME LinkInv, NEW i \in DOMAIN insts, NEW t \in DOMAIN insts[i].tableaddrs,
           NEW f \in DOMAIN insts[i].funcaddrs,
           NEW k \in DOMAIN tables[insts[i].tableaddrs[t]], TableSet(i, t, k, f)
    PROVE  LinkInv'
  <1>1. /\ loader.step = "idle" /\ insts[i].live /\ ~Loading /\ loader \in [step : Steps, i : Nat]
        /\ UNCHANGED <<functions, exports, insts, loader>>
    BY DEF TableSet, Loading, LinkInv, Shapes
  <1>2. PICK h, a : h = insts[i].tableaddrs[t] /\ a = insts[i].funcaddrs[f]
    OBVIOUS
  <1>3. h \in DOMAIN tables /\ a \in DOMAIN functions /\ Settled(functions[a].inst)
    BY <1>1, <1>2, LiveIsSettled
  <1>4. /\ tables \in Seq(Seq(Nat)) /\ exports \in Seq(Export)
        /\ tables[h] \in Seq(Nat) /\ a \in Nat /\ k \in DOMAIN tables[h]
    <2>1. Shapes
      BY DEF LinkInv
    <2>2. tables \in Seq(Seq(Nat)) /\ exports \in Seq(Export)
      BY <2>1 DEF Shapes
    <2>3. tables[h] \in Seq(Nat)
      BY <1>3, <2>1, StoreShape
    <2>4. a \in Nat
      BY <1>3, <2>1, StoreShape
    <2> QED BY <1>2, <2>2, <2>3, <2>4
  <1>5. tables' = [tables EXCEPT ![h] = [tables[h] EXCEPT ![k] = a]]
    BY <1>2 DEF TableSet
  <1>6. [tables[h] EXCEPT ![k] = a] \in Seq(Nat)
    BY <1>4, SetInSeq
  <1>7. tables' \in Seq(Seq(Nat)) /\ DOMAIN tables' = DOMAIN tables
    BY <1>3, <1>4, <1>5, <1>6, SetInSeq
  <1>8. ASSUME NEW u \in DOMAIN tables
        PROVE  /\ DOMAIN tables'[u] = DOMAIN tables[u]
               /\ \A j \in DOMAIN tables[u] : tables'[u][j] = tables[u][j] \/ tables'[u][j] = a
    BY <1>4, <1>5
  <1>9. \A u \in DOMAIN tables :
          /\ DOMAIN tables'[u] = DOMAIN tables[u]
          /\ \A j \in DOMAIN tables[u] :
                \/ tables'[u][j] = tables[u][j]
                \/ /\ tables'[u][j] \in DOMAIN functions
                   /\ Settled(functions[tables'[u][j]].inst)
    BY <1>3, <1>8
  <1>10. ~Loading'
    BY <1>1 DEF Loading
  <1>11. Ranges' /\ OwnIndex' /\ Owners'
    BY <1>1, <1>7, <1>9, <1>10, TablesWritten
  <1>12. loader' \in [step : {"apply", "register", "idle"}, i : Nat] /\ loader'.step = "idle"
    BY <1>1
  <1>13. Shapes' /\ Counts'
    <2>1. exports' \in Seq(Export)
      BY <1>1, <1>4
    <2> QED BY <1>1, <1>7, <1>12, <2>1, LaterKeeps
  <1> QED BY <1>11, <1>13 DEF LinkInv

\* A segment writes functions of the module, which is settled by then.
LEMMA ApplyElementKeeps == LinkInv /\ applyActiveElement => LinkInv'
  <1> SUFFICES ASSUME LinkInv, applyActiveElement PROVE LinkInv'
    OBVIOUS
  <1> DEFINE s == prog.segments[loader.i]
  <1>0. Shapes
    BY DEF LinkInv
  <1>1. /\ loader \in [step : Steps, i : Nat] /\ loader.step = "apply" /\ loader.i >= 1
        /\ ~Loading /\ loader.i <= Len(prog.segments)
        /\ UNCHANGED <<functions, exports, insts>>
    BY <1>0 DEF Shapes, applyActiveElement, Loading
  <1>2. cur \in DOMAIN insts /\ me.live /\ prog \in Programs
    BY <1>0, <1>1, CurShape
  <1>3. CASE FitsTable(s)
    <2>1. /\ tables' = [tables EXCEPT ![me.tableaddrs[s.table]] = SegmentOf(s, @)]
          /\ loader' = [step |-> "apply", i |-> loader.i + 1]
      BY <1>3 DEF applyActiveElement, At
    <2>2. s \in [table : 1 .. TableCount(prog), offset : Nat, funcs : Seq(1 .. FuncCount(prog))]
      <3>1. /\ prog.segments \in Seq([table : 1 .. TableCount(prog), offset : Nat,
                                      funcs : Seq(1 .. FuncCount(prog))])
            /\ Len(prog.segments) \in Nat
        BY <1>2, ProgramShape
      <3>2. loader.i \in 1 .. Len(prog.segments)
        <4>1. loader.i \in Nat /\ loader.i >= 1 /\ loader.i <= Len(prog.segments)
          BY <1>1
        <4> QED BY <3>1, <4>1
      <3> QED BY <3>1, <3>2, ElementOfSeq
    <2> HIDE DEF s
    <2>3. s.table \in 1 .. TableCount(prog) /\ s.offset \in Nat /\ s.funcs \in Seq(1 .. FuncCount(prog))
      BY <2>2
    <2>4. /\ DOMAIN me.tableaddrs = 1 .. TableCount(prog)
          /\ DOMAIN me.funcaddrs = 1 .. FuncCount(prog)
      <3>1. /\ Len(insts[cur].funcaddrs) = FuncCount(insts[cur].program)
            /\ Len(insts[cur].tableaddrs) = TableCount(insts[cur].program)
        BY <1>1, <1>2, LiveIsSettled DEF me
      <3>2. /\ DOMAIN insts[cur].funcaddrs = 1 .. Len(insts[cur].funcaddrs)
            /\ DOMAIN insts[cur].tableaddrs = 1 .. Len(insts[cur].tableaddrs)
        BY <1>0, <1>2, InstanceShape
      <3> QED BY <3>1, <3>2 DEF me, prog
    <2>5. PICK h : h = me.tableaddrs[s.table]
      OBVIOUS
    <2>6. h \in DOMAIN tables
      BY <1>1, <1>2, <2>3, <2>4, <2>5, LiveIsSettled DEF me
    <2>7. tables \in Seq(Seq(Nat)) /\ tables[h] \in Seq(Nat) /\ exports \in Seq(Export)
      BY <1>0, <2>6 DEF Shapes
    <2>8. PICK tab : tab = SegmentOf(s, tables[h])
      OBVIOUS
    <2>9. DOMAIN tab = DOMAIN tables[h]
      BY <2>8 DEF SegmentOf
    <2>10. ASSUME NEW j \in DOMAIN tables[h]
           PROVE  \/ tab[j] = tables[h][j]
                  \/ tab[j] \in DOMAIN functions /\ Settled(functions[tab[j]].inst)
      <3>1. tab[j] = IF j - s.offset \in DOMAIN s.funcs
                     THEN me.funcaddrs[s.funcs[j - s.offset]] ELSE tables[h][j]
        BY <2>8 DEF SegmentOf
      <3>2. CASE j - s.offset \in DOMAIN s.funcs
        <4>1. PICK f : f = s.funcs[j - s.offset]
          OBVIOUS
        <4>2. f \in 1 .. FuncCount(prog)
          <5>1. DOMAIN s.funcs = 1 .. Len(s.funcs)
            BY <2>3, LenProperties
          <5>2. j - s.offset \in 1 .. Len(s.funcs)
            BY <3>2, <5>1
          <5> QED BY <2>3, <4>1, <5>2, ElementOfSeq
        <4>3. f \in DOMAIN me.funcaddrs /\ tab[j] = me.funcaddrs[f]
          BY <2>4, <3>1, <3>2, <4>1, <4>2
        <4> QED BY <1>1, <1>2, <4>3, LiveIsSettled DEF me
      <3> QED BY <3>1, <3>2
    <2>11. tab \in Seq(Nat)
      <3>1. DOMAIN functions \subseteq Nat
        BY <1>0, StoreShape
      <3>2. ASSUME NEW j \in DOMAIN tables[h] PROVE tab[j] \in Nat
        <4>1. tables[h][j] \in Nat
          BY <2>7
        <4>2. tab[j] = tables[h][j] \/ tab[j] \in DOMAIN functions
          BY <2>10
        <4> QED BY <3>1, <4>1, <4>2
      <3>3. tab = [j \in DOMAIN tables[h] |-> tab[j]]
        BY <2>8, <2>9 DEF SegmentOf
      <3>4. DOMAIN tables[h] = 1 .. Len(tables[h]) /\ Len(tables[h]) \in Nat
        BY <2>7
      <3> QED BY <3>2, <3>3, <3>4, IsASeq
    <2>12. tables' = [tables EXCEPT ![h] = tab]
      BY <2>1, <2>5, <2>6, <2>8
    <2>13. tables' \in Seq(Seq(Nat)) /\ DOMAIN tables' = DOMAIN tables
      BY <2>6, <2>7, <2>11, <2>12
    <2>14. \A u \in DOMAIN tables :
             /\ DOMAIN tables'[u] = DOMAIN tables[u]
             /\ \A j \in DOMAIN tables[u] :
                   \/ tables'[u][j] = tables[u][j]
                   \/ /\ tables'[u][j] \in DOMAIN functions
                      /\ Settled(functions[tables'[u][j]].inst)
      BY <2>6, <2>9, <2>10, <2>12
    <2>15. /\ loader' \in [step : {"apply", "register", "idle"}, i : Nat]
           /\ loader'.i >= 1 /\ loader.step # "idle"
      BY <1>1, <2>1
    <2>16. exports' \in Seq(Export)
      BY <1>1, <2>7
    <2>17. Shapes' /\ Counts' /\ ~Loading'
      BY <1>1, <2>13, <2>15, <2>16, LaterKeeps
    <2>18. Ranges' /\ OwnIndex' /\ Owners'
      BY <1>1, <2>13, <2>14, <2>17, TablesWritten
    <2> QED BY <2>17, <2>18 DEF LinkInv
  <1>4. CASE ~FitsTable(s)
    <2>1. loader' = [step |-> "register", i |-> 1] /\ UNCHANGED tables
      BY <1>4 DEF applyActiveElement, At
    <2> QED BY <1>1, <2>1, LoaderGoesOn
  <1> QED BY <1>3, <1>4

\* What is registered belongs to a settled instance.
LEMMA RegisterKeeps == LinkInv /\ registerExportsTo => LinkInv'
  <1> SUFFICES ASSUME LinkInv, registerExportsTo PROVE LinkInv'
    OBVIOUS
  <1> DEFINE e == prog.exports[loader.i]
             h == IF e.kind = "func" THEN me.funcaddrs[e.index] ELSE me.tableaddrs[e.index]
             new == [mod |-> me.name, name |-> e.name, kind |-> e.kind, by |-> cur, handle |-> h]
  <1>0. Shapes /\ Ranges /\ OwnIndex /\ Owners
    BY DEF LinkInv
  <1>1. /\ loader \in [step : Steps, i : Nat] /\ loader.step = "register" /\ loader.i >= 1
        /\ ~Loading /\ loader.i <= Len(prog.exports)
        /\ loader' = [step |-> "register", i |-> loader.i + 1]
        /\ UNCHANGED <<functions, tables, insts>>
    BY <1>0 DEF Shapes, registerExportsTo, Loading, At
  <1>2. exports' = Append(exports, new)
    BY DEF registerExportsTo, RegisterNext, me, prog
  <1>3. cur \in DOMAIN insts /\ me.live /\ prog \in Programs /\ cur \in Nat
    BY <1>0, <1>1, CurShape, StoreShape
  <1>4. /\ loader.i \in DOMAIN prog.exports
        /\ \/ e.kind = "func" /\ e.index \in 1 .. FuncCount(prog)
           \/ e.kind = "table" /\ e.index \in 1 .. TableCount(prog)
    <2>1. ExportsValid(prog)
      BY <1>3, ProgramShape
    <2>2. loader.i \in DOMAIN prog.exports
      <3>1. loader.i \in Nat /\ loader.i >= 1 /\ loader.i <= Len(prog.exports)
        BY <1>1
      <3> QED BY <2>1, <3>1 DEF ExportsValid
    <2> QED BY <2>1, <2>2 DEF ExportsValid
  <1>5. e.name \in ExportNames /\ e.kind \in Kinds
    BY <1>3, <1>4 DEF ExportNames, Kinds
  <1>6. /\ DOMAIN me.tableaddrs = 1 .. TableCount(prog)
        /\ DOMAIN me.funcaddrs = 1 .. FuncCount(prog)
    <2>1. /\ Len(insts[cur].funcaddrs) = FuncCount(insts[cur].program)
          /\ Len(insts[cur].tableaddrs) = TableCount(insts[cur].program)
      BY <1>1, <1>3, LiveIsSettled DEF me
    <2>2. /\ DOMAIN insts[cur].funcaddrs = 1 .. Len(insts[cur].funcaddrs)
          /\ DOMAIN insts[cur].tableaddrs = 1 .. Len(insts[cur].tableaddrs)
      BY <1>0, <1>3, InstanceShape
    <2> QED BY <2>1, <2>2 DEF me, prog
  <1>7. me.name \in Names
    BY <1>0, <1>3, InstanceShape DEF Instance, me
  <1> HIDE DEF e
  <1>8. /\ e.kind = "func" => h \in DOMAIN functions /\ Settled(functions[h].inst)
        /\ e.kind # "func" => h \in DOMAIN tables /\ SafeTable(h, 0)
    <2>1. CASE e.kind = "func"
      <3>1. h = me.funcaddrs[e.index] /\ e.index \in DOMAIN me.funcaddrs
        BY <1>4, <1>6, <2>1
      <3> HIDE DEF h
      <3>2. h \in DOMAIN functions /\ Settled(functions[h].inst)
        BY <1>1, <1>3, <3>1, LiveIsSettled DEF me
      <3> QED BY <2>1, <3>2
    <2>2. CASE e.kind # "func"
      <3>1. h = me.tableaddrs[e.index] /\ e.index \in DOMAIN me.tableaddrs
        BY <1>4, <1>6, <2>2
      <3> HIDE DEF h
      <3>2. h \in DOMAIN tables /\ SafeTable(h, 0)
        BY <1>1, <1>3, <3>1, LiveIsSettled DEF me
      <3> QED BY <2>2, <3>2
    <2> QED BY <2>1, <2>2
  <1> HIDE DEF h
  <1>9. h \in Nat
    BY <1>0, <1>8, StoreShape
  <1>10. /\ new \in Export /\ new.kind = e.kind /\ new.by = cur /\ new.handle = h
    BY <1>3, <1>5, <1>7, <1>9 DEF Export
  <1> HIDE DEF new
  <1>11. /\ exports \in Seq(Export) /\ Len(exports) \in Nat /\ DOMAIN exports = 1 .. Len(exports)
         /\ tables \in Seq(Seq(Nat))
    BY <1>0 DEF Shapes
  <1>12. /\ exports' \in Seq(Export) /\ DOMAIN exports' = 1 .. (Len(exports) + 1)
         /\ \A k \in DOMAIN exports : exports'[k] = exports[k]
         /\ exports'[Len(exports) + 1] = new
    BY <1>2, <1>10, <1>11
  <1>13. ASSUME NEW k \in DOMAIN exports', k \notin DOMAIN exports PROVE exports'[k] = new
    BY <1>11, <1>12, <1>13
  <1>14. /\ loader' \in [step : {"apply", "register", "idle"}, i : Nat]
         /\ loader'.i >= 1 /\ loader.step # "idle"
    BY <1>1
  <1>15. Shapes' /\ Counts' /\ ~Loading'
    <2>1. tables' \in Seq(Seq(Nat))
      BY <1>1, <1>11
    <2> QED BY <1>1, <1>12, <1>14, <2>1, LaterKeeps
  <1>16. Ranges'
    <2>1. ASSUME NEW k \in DOMAIN exports'
          PROVE  /\ exports'[k].by \in DOMAIN insts
                 /\ exports'[k].handle \in IF exports'[k].kind = "func" THEN DOMAIN functions
                                           ELSE DOMAIN tables
      <3>1. CASE k \in DOMAIN exports
        BY <1>0, <1>12, <3>1 DEF Ranges
      <3>2. CASE k \notin DOMAIN exports
        BY <1>3, <1>8, <1>10, <1>13, <3>2
      <3> QED BY <3>1, <3>2
    <2> QED BY <1>0, <1>1, <2>1 DEF Ranges
  <1>17. OwnIndex'
    BY <1>0, <1>1 DEF OwnIndex
  <1>18. ASSUME NEW i PROVE Settled(i)' <=> Settled(i)
    BY <1>1, <1>15 DEF Settled
  <1>19. ASSUME NEW a, NEW i PROVE Safe(a, i)' <=> Safe(a, i)
    BY <1>1, <1>18 DEF Safe
  <1>20. ASSUME NEW t, NEW i PROVE SafeTable(t, i)' <=> SafeTable(t, i)
    BY <1>1, <1>19 DEF SafeTable
  <1>21. Owners'
    <2>1. ASSUME NEW k \in DOMAIN exports', NEW g, g = exports'[k].handle
          PROVE  IF exports'[k].kind = "func" THEN Safe(g, 0)' ELSE SafeTable(g, 0)'
      <3>1. CASE k \in DOMAIN exports
        <4>1. exports'[k] = exports[k]
          BY <1>12, <3>1
        <4> QED BY <1>0, <1>19, <1>20, <2>1, <3>1, <4>1 DEF Owners
      <3>2. CASE k \notin DOMAIN exports
        <4>1. exports'[k].kind = e.kind /\ g = h
          BY <1>10, <1>13, <2>1, <3>2
        <4>2. e.kind = "func" => Safe(g, 0)
          BY <1>8, <4>1 DEF Safe
        <4>3. e.kind # "func" => SafeTable(g, 0)
          BY <1>8, <4>1
        <4> QED BY <1>19, <1>20, <4>1, <4>2, <4>3
      <3> QED BY <3>1, <3>2
    <2>2. /\ \A i \in DOMAIN insts : insts[i].live =>
                /\ \A f \in DOMAIN insts[i].funcaddrs : Safe(insts[i].funcaddrs[f], i)'
                /\ \A t \in DOMAIN insts[i].tableaddrs : SafeTable(insts[i].tableaddrs[t], i)'
          /\ \A i \in DOMAIN insts : Settled(i)' =>
                \A t \in DOMAIN insts[i].tableaddrs : SafeTable(insts[i].tableaddrs[t], 0)'
      BY <1>0, <1>1, <1>18, <1>19, <1>20 DEF Owners
    <2> QED BY <1>1, <2>1, <2>2 DEF Owners
  <1> QED BY <1>15, <1>16, <1>17, <1>21 DEF LinkInv

-----------------------------------------------------------------------------
LEMMA LinkInvStep == LinkInv /\ [LinkNext]_linkVars => LinkInv'
  <1> SUFFICES ASSUME LinkInv, [LinkNext]_linkVars PROVE LinkInv'
    OBVIOUS
  <1>1. CASE \E p \in Programs, n \in Names : loadLinked(p, n)
    BY <1>1, LoadLinkedKeeps
  <1>2. CASE Phase1Fails
    BY <1>2, Phase1FailsKeeps
  <1>3. CASE resolveImport \/ ImportsDone
    BY <1>3, ResolveImportKeeps, ImportsDoneKeeps
  <1>4. CASE instantiateFunction \/ FunctionsDone
    BY <1>4, InstantiateFunctionKeeps, FunctionsDoneKeeps
  <1>5. CASE instantiateTable \/ TablesDone
    BY <1>5, InstantiateTableKeeps, TablesDoneKeeps
  <1>6. CASE Phase1Done
    BY <1>6, Phase1DoneKeeps
  <1>7. CASE applyActiveElement
    BY <1>7, ApplyElementKeeps
  <1>8. CASE ApplyDone \/ RegisterEnds
    BY <1>8, LoaderEndsKeep
  <1>9. CASE registerExportsTo
    BY <1>9, RegisterKeeps
  <1>10. CASE \E i \in DOMAIN insts : \E t \in DOMAIN insts[i].tableaddrs, f \in DOMAIN insts[i].funcaddrs :
                \E k \in DOMAIN tables[insts[i].tableaddrs[t]] : TableSet(i, t, k, f)
    BY <1>10, TableSetKeeps
  <1>11. CASE UNCHANGED linkVars
    <2>1. UNCHANGED <<functions, tables, exports, insts, loader>>
      BY <1>11 DEF linkVars
    <2>2. Ranges' /\ OwnIndex' /\ Owners'
      BY <2>1, SameStore DEF Loading
    <2>3. Shapes'
      BY <2>1 DEF LinkInv, Shapes, me, cur
    <2>4. ASSUME NEW i PROVE Settled(i)' <=> Settled(i)
      BY <2>1 DEF Settled, Loading, cur
    <2>5. Counts'
      BY <2>1, <2>4 DEF LinkInv, Counts, me, prog, cur
    <2> QED BY <2>2, <2>3, <2>5 DEF LinkInv
  <1> QED BY <1>1, <1>2, <1>3, <1>4, <1>5, <1>6, <1>7, <1>8, <1>9, <1>10, <1>11 DEF LinkNext

\* LinkInv holds in every reachable state.
LEMMA LinkInvAlways == LinkSpec => []LinkInv
  BY LinkInitInv, LinkInvStep, PTL DEF LinkSpec

-----------------------------------------------------------------------------
LEMMA InvGivesTypes == LinkInv => LinkTypeOK
  <1> SUFFICES ASSUME LinkInv PROVE LinkTypeOK
    OBVIOUS
  <1>0. Shapes /\ Ranges
    BY DEF LinkInv
  <1>1. /\ Len(insts) \in Nat /\ DOMAIN insts = 1 .. Len(insts)
        /\ Len(functions) \in Nat /\ DOMAIN functions = 1 .. Len(functions)
        /\ functions \in Seq(Function) /\ tables \in Seq(Seq(Nat))
        /\ Len(insts) <= MaxLoads /\ MaxLoads \in Nat
    BY <1>0, LinkAssumption DEF Shapes
  <1>2. functions \in Seq([inst : 1 .. MaxLoads, func_idx : Nat \ {0}])
    <2>1. ASSUME NEW a \in 1 .. Len(functions)
          PROVE  functions[a] \in [inst : 1 .. MaxLoads, func_idx : Nat \ {0}]
      <3>1. functions[a] \in Function
        BY <1>1
      <3>2. functions[a].inst \in 1 .. MaxLoads
        <4>1. functions[a].inst \in DOMAIN insts
          BY <1>0, <1>1 DEF Ranges
        <4>2. PICK n : n = functions[a].inst
          OBVIOUS
        <4> QED BY <1>1, <4>1, <4>2
      <3> QED BY <3>1, <3>2 DEF Function
    <2>2. functions = [a \in 1 .. Len(functions) |-> functions[a]]
      BY <1>1
    <2>3. PICK S : S = [inst : 1 .. MaxLoads, func_idx : Nat \ {0}]
      OBVIOUS
    <2>4. \A a \in 1 .. Len(functions) : functions[a] \in S
      BY <2>1, <2>3
    <2>5. functions \in Seq(S)
      BY <1>1, <2>2, <2>4, IsASeq
    <2> QED BY <2>3, <2>5
  <1>3. tables \in Seq(Seq(0 .. Len(functions)))
    <2>1. ASSUME NEW t \in DOMAIN tables PROVE tables[t] \in Seq(0 .. Len(functions))
      <3>1. tables[t] \in Seq(Nat) /\ DOMAIN tables[t] = 1 .. Len(tables[t]) /\ Len(tables[t]) \in Nat
        BY <1>1
      <3>2. \A k \in 1 .. Len(tables[t]) : tables[t][k] \in 0 .. Len(functions)
        BY <1>0, <3>1 DEF Ranges
      <3>3. tables[t] = [k \in 1 .. Len(tables[t]) |-> tables[t][k]]
        BY <3>1
      <3> QED BY <3>1, <3>2, <3>3, IsASeq
    <2>2. DOMAIN tables = 1 .. Len(tables) /\ Len(tables) \in Nat
      BY <1>1
    <2>3. tables = [t \in 1 .. Len(tables) |-> tables[t]]
      BY <1>1
    <2> QED BY <2>1, <2>2, <2>3, IsASeq
  <1>4. ASSUME NEW i \in DOMAIN insts
        PROVE  /\ insts[i].funcaddrs \in Seq(DOMAIN functions)
               /\ insts[i].tableaddrs \in Seq(DOMAIN tables)
               /\ insts[i].live \in BOOLEAN
    <2>1. /\ insts[i].funcaddrs \in Seq(Nat) /\ insts[i].tableaddrs \in Seq(Nat)
          /\ DOMAIN insts[i].funcaddrs = 1 .. Len(insts[i].funcaddrs)
          /\ DOMAIN insts[i].tableaddrs = 1 .. Len(insts[i].tableaddrs)
          /\ Len(insts[i].funcaddrs) \in Nat /\ Len(insts[i].tableaddrs) \in Nat
          /\ insts[i].live \in BOOLEAN
      BY <1>0, InstanceShape
    <2>2. /\ \A f \in 1 .. Len(insts[i].funcaddrs) : insts[i].funcaddrs[f] \in DOMAIN functions
          /\ \A t \in 1 .. Len(insts[i].tableaddrs) : insts[i].tableaddrs[t] \in DOMAIN tables
      BY <1>0, <2>1 DEF Ranges
    <2>3. insts[i].funcaddrs \in Seq(DOMAIN functions)
      <3>1. insts[i].funcaddrs = [f \in 1 .. Len(insts[i].funcaddrs) |-> insts[i].funcaddrs[f]]
        BY <2>1
      <3> QED BY <2>1, <2>2, <3>1, IsASeq
    <2>4. insts[i].tableaddrs \in Seq(DOMAIN tables)
      <3>1. insts[i].tableaddrs = [t \in 1 .. Len(insts[i].tableaddrs) |-> insts[i].tableaddrs[t]]
        BY <2>1
      <3> QED BY <2>1, <2>2, <3>1, IsASeq
    <2> QED BY <2>1, <2>3, <2>4
  <1>5. \A e \in {exports[k] : k \in DOMAIN exports} :
           /\ e.by \in DOMAIN insts
           /\ e.handle \in IF e.kind = "func" THEN DOMAIN functions ELSE DOMAIN tables
    BY <1>0 DEF Ranges
  <1> QED BY <1>2, <1>3, <1>4, <1>5 DEF LinkTypeOK

(* Every address an instance, a table, an export or a function holds leads  *)
(* into the shared store, for every set of modules and every sequence of    *)
(* loads, failed ones included (instantiateBase, registerExportsTo).        *)
THEOREM LinkTypes == LinkSpec => []LinkTypeOK
  BY LinkInvAlways, InvGivesTypes, PTL

\* A function that is settled is live and is found under its own index.
LEMMA SettledIsOwn ==
    ASSUME LinkInv, NEW a \in DOMAIN functions, Safe(a, 0) \/ insts[functions[a].inst].live
    PROVE  /\ insts[functions[a].inst].live
           /\ functions[a].func_idx \in DOMAIN insts[functions[a].inst].funcaddrs
           /\ functions[insts[functions[a].inst].funcaddrs[functions[a].func_idx]] = functions[a]
  <1>1. functions[a].inst \in DOMAIN insts /\ functions[a].inst # 0
    BY StoreShape DEF LinkInv, Ranges
  <1>2. insts[functions[a].inst].live
    BY <1>1 DEF Safe, Settled
  <1> QED BY <1>2 DEF LinkInv, OwnIndex

\* What is reached belongs to a live instance.
LEMMA ReachedIsLive ==
    ASSUME LinkInv, NEW a \in ReachableFunctions
    PROVE  a \in DOMAIN functions /\ (Safe(a, 0) \/ insts[functions[a].inst].live)
  <1>0. Shapes /\ Ranges /\ Owners
    BY DEF LinkInv
  <1>1. CASE \E i \in DOMAIN insts : insts[i].live /\ \E f \in DOMAIN insts[i].funcaddrs : a = insts[i].funcaddrs[f]
    <2>1. PICK i \in DOMAIN insts : insts[i].live /\ \E f \in DOMAIN insts[i].funcaddrs : a = insts[i].funcaddrs[f]
      BY <1>1
    <2>2. a \in DOMAIN functions /\ Safe(a, i)
      BY <1>0, <2>1 DEF Ranges, Owners
    <2> QED BY <2>1, <2>2 DEF Safe
  <1>2. CASE \E k \in DOMAIN exports : exports[k].kind = "func" /\ a = exports[k].handle
    BY <1>0, <1>2 DEF Ranges, Owners
  <1>3. CASE a # 0 /\ \E t \in ReachableTables : \E k \in DOMAIN tables[t] : a = tables[t][k]
    <2>1. PICK t \in ReachableTables : \E k \in DOMAIN tables[t] : a = tables[t][k]
      BY <1>3
    <2>2. CASE \E i \in DOMAIN insts : insts[i].live /\ \E j \in DOMAIN insts[i].tableaddrs : t = insts[i].tableaddrs[j]
      <3>1. PICK i \in DOMAIN insts : insts[i].live /\ \E j \in DOMAIN insts[i].tableaddrs : t = insts[i].tableaddrs[j]
        BY <2>2
      <3>2. t \in DOMAIN tables /\ SafeTable(t, i)
        BY <1>0, <3>1 DEF Ranges, Owners
      <3>3. a \in DOMAIN functions
        BY <1>0, <1>3, <2>1, <3>2, StoreShape DEF Ranges
      <3>4. Safe(a, i)
        BY <1>3, <2>1, <3>2 DEF SafeTable
      <3> QED BY <3>1, <3>3, <3>4 DEF Safe
    <2>3. CASE \E k \in DOMAIN exports : exports[k].kind = "table" /\ t = exports[k].handle
      <3>1. t \in DOMAIN tables /\ SafeTable(t, 0)
        BY <1>0, <2>3 DEF Ranges, Owners
      <3>2. a \in DOMAIN functions
        BY <1>0, <1>3, <2>1, <3>1, StoreShape DEF Ranges
      <3>3. Safe(a, 0)
        BY <1>3, <2>1, <3>1 DEF SafeTable
      <3> QED BY <3>2, <3>3
    <2>4. \/ t \in UNION {{insts[i].tableaddrs[j] : j \in DOMAIN insts[i].tableaddrs} :
                           i \in {l \in DOMAIN insts : insts[l].live}}
          \/ t \in {exports[k].handle : k \in {j \in DOMAIN exports : exports[j].kind = "table"}}
      BY DEF ReachableTables
    <2>5. CASE t \in UNION {{insts[i].tableaddrs[j] : j \in DOMAIN insts[i].tableaddrs} :
                            i \in {l \in DOMAIN insts : insts[l].live}}
      <3>1. PICK i \in {l \in DOMAIN insts : insts[l].live} :
                t \in {insts[i].tableaddrs[j] : j \in DOMAIN insts[i].tableaddrs}
        BY <2>5, Zenon
      <3> QED BY <2>2, <3>1
    <2>6. CASE t \in {exports[k].handle : k \in {j \in DOMAIN exports : exports[j].kind = "table"}}
      BY <2>3, <2>6
    <2> QED BY <2>4, <2>5, <2>6
  <1> DEFINE entries == UNION {{tables[t][k] : k \in DOMAIN tables[t]} : t \in ReachableTables}
  <1>4. \/ a \in UNION {{insts[i].funcaddrs[f] : f \in DOMAIN insts[i].funcaddrs} :
                         i \in {l \in DOMAIN insts : insts[l].live}}
        \/ a \in {exports[k].handle : k \in {j \in DOMAIN exports : exports[j].kind = "func"}}
        \/ a \in entries /\ a # 0
    BY DEF ReachableFunctions
  <1>5. CASE a \in UNION {{insts[i].funcaddrs[f] : f \in DOMAIN insts[i].funcaddrs} :
                          i \in {l \in DOMAIN insts : insts[l].live}}
    <2>1. PICK i \in {l \in DOMAIN insts : insts[l].live} :
              a \in {insts[i].funcaddrs[f] : f \in DOMAIN insts[i].funcaddrs}
      BY <1>5, Zenon
    <2> QED BY <1>1, <2>1
  <1>6. CASE a \in {exports[k].handle : k \in {j \in DOMAIN exports : exports[j].kind = "func"}}
    BY <1>2, <1>6
  <1>7. CASE a \in entries /\ a # 0
    <2>1. PICK t \in ReachableTables : a \in {tables[t][k] : k \in DOMAIN tables[t]}
      BY <1>7, Zenon
    <2> QED BY <1>3, <1>7, <2>1
  <1> QED BY <1>4, <1>5, <1>6, <1>7

(* Whichever step of whichever load fails, for every set of valid modules   *)
(* and every number of loads: a function that a live module, a table of one *)
(* or a registered export leads to belongs to an instance that has not been *)
(* freed, and is that instance's own function of that index (loadLinked,    *)
(* instantiateBase and applyActive).                                        *)
THEOREM NoFunctionDangles == LinkSpec => []NothingDangles
  <1>1. LinkInv => NothingDangles
    <2> SUFFICES ASSUME LinkInv, NEW a \in ReachableFunctions
          PROVE  /\ insts[functions[a].inst].live
                 /\ functions[a].func_idx \in DOMAIN insts[functions[a].inst].funcaddrs
                 /\ functions[insts[functions[a].inst].funcaddrs[functions[a].func_idx]]
                       = functions[a]
      BY DEF NothingDangles
    <2>2. a \in DOMAIN functions /\ (Safe(a, 0) \/ insts[functions[a].inst].live)
      BY ReachedIsLive
    <2> QED BY <2>2, SettledIsOwn
  <1> QED BY <1>1, LinkInvAlways, PTL

-----------------------------------------------------------------------------
(***************************************************************************)
(* Chains of imports.  OriginInv says of every function of every instance, *)
(* also of one that was freed, where it has come from: an own function is  *)
(* the instance's, an imported one equals the function that an instance    *)
(* loaded before exports under the name asked for.  What is offered for    *)
(* import equals a function of the instance that has registered it.        *)
(***************************************************************************)
Hands(b, name, fn) ==
    \E e \in DOMAIN insts[b].program.exports :
        LET x == insts[b].program.exports[e]
        IN  /\ x.name = name /\ x.kind = "func" /\ x.index \in DOMAIN insts[b].funcaddrs
            /\ functions[insts[b].funcaddrs[x.index]] = fn

Imported(i, k, fn) ==
    /\ k \in DOMAIN insts[i].from /\ insts[i].from[k] \in 1 .. (i - 1)
    /\ Hands(insts[i].from[k], insts[i].program.imports[k].name, fn)

Origin(i, f) ==
    LET fn == functions[insts[i].funcaddrs[f]]
    IN  IF IsImport(i, f) THEN Imported(i, FuncFrom(insts[i].program, f), fn)
        ELSE fn = [inst |-> i, func_idx |-> f]

Offered(x) ==
    x.kind = "func" => Settled(x.by) /\ Hands(x.by, x.name, functions[x.handle])

Origins == \A i \in DOMAIN insts : \A f \in DOMAIN insts[i].funcaddrs : Origin(i, f)
Offers == \A k \in DOMAIN exports : Offered(exports[k])
FromCounts == loader.step = "imports" => Len(me.from) = loader.i - 1

OriginInv == Origins /\ Offers /\ FromCounts

\* The store and the instances only grow.
Extends(s, t) == DOMAIN s \subseteq DOMAIN t /\ \A k \in DOMAIN s : t[k] = s[k]
StoreGrows ==
    /\ Extends(functions, functions')
    /\ DOMAIN insts \subseteq DOMAIN insts'
    /\ \A i \in DOMAIN insts : /\ insts'[i].program = insts[i].program
                               /\ Extends(insts[i].funcaddrs, insts'[i].funcaddrs)
                               /\ Extends(insts[i].from, insts'[i].from)

LEMMA ExtendsSelf == ASSUME NEW s PROVE Extends(s, s)
BY DEF Extends

LEMMA ExtendsAppend == ASSUME NEW S, NEW s \in Seq(S), NEW e \in S PROVE Extends(s, Append(s, e))
BY DEF Extends

LEMMA HandsStay ==
    ASSUME LinkInv, StoreGrows, NEW b \in DOMAIN insts, NEW name, NEW fn, Hands(b, name, fn)
    PROVE  Hands(b, name, fn)'
<1>1. PICK e \in DOMAIN insts[b].program.exports :
          LET x == insts[b].program.exports[e]
          IN  /\ x.name = name /\ x.kind = "func" /\ x.index \in DOMAIN insts[b].funcaddrs
              /\ functions[insts[b].funcaddrs[x.index]] = fn
    BY DEF Hands
<1>. DEFINE x == insts[b].program.exports[e]
<1>2. insts'[b].program = insts[b].program BY DEF StoreGrows
<1>3. x.index \in DOMAIN insts'[b].funcaddrs /\ insts'[b].funcaddrs[x.index] = insts[b].funcaddrs[x.index]
    BY <1>1 DEF StoreGrows, Extends
<1>4. insts[b].funcaddrs[x.index] \in DOMAIN functions BY <1>1 DEF LinkInv, Ranges
<1>5. functions'[insts'[b].funcaddrs[x.index]] = fn BY <1>1, <1>3, <1>4 DEF StoreGrows, Extends
<1>6. x = insts'[b].program.exports[e] BY <1>2
<1>7. x.name = name /\ x.kind = "func" BY <1>1
<1>. HIDE DEF x
<1>8. QED BY <1>2, <1>3, <1>5, <1>6, <1>7 DEF Hands

LEMMA ImportedStay ==
    ASSUME LinkInv, StoreGrows, NEW i \in DOMAIN insts, NEW k, NEW fn, Imported(i, k, fn)
    PROVE  Imported(i, k, fn)'
<1>1. PICK b, name : b = insts[i].from[k] /\ name = insts[i].program.imports[k].name OBVIOUS
<1>2. k \in DOMAIN insts[i].from /\ b \in 1 .. (i - 1) /\ Hands(b, name, fn)
    BY <1>1 DEF Imported
<1>3. k \in DOMAIN insts'[i].from /\ insts'[i].from[k] = b /\ insts'[i].program.imports[k].name = name
    BY <1>1, <1>2 DEF StoreGrows, Extends
<1>4. b \in DOMAIN insts
    <2>1. DOMAIN insts = 1 .. Len(insts) /\ Len(insts) \in Nat BY StoreShape DEF LinkInv
    <2>2. QED BY <1>2, <2>1
<1>5. Hands(b, name, fn)' BY <1>2, <1>4, HandsStay
<1>6. QED BY <1>2, <1>3, <1>5 DEF Imported

LEMMA OriginStays ==
    ASSUME LinkInv, StoreGrows, NEW i \in DOMAIN insts, NEW f \in DOMAIN insts[i].funcaddrs, Origin(i, f)
    PROVE  Origin(i, f)'
<1>1. PICK k, fn : k = FuncFrom(insts[i].program, f) /\ fn = functions[insts[i].funcaddrs[f]] OBVIOUS
<1>2. insts'[i].program = insts[i].program /\ insts'[i].funcaddrs[f] = insts[i].funcaddrs[f]
    BY DEF StoreGrows, Extends
<1>3. insts[i].funcaddrs[f] \in DOMAIN functions BY DEF LinkInv, Ranges
<1>4. functions'[insts'[i].funcaddrs[f]] = fn
    BY <1>1, <1>2, <1>3 DEF StoreGrows, Extends
<1>5. (IsImport(i, f)' <=> IsImport(i, f)) /\ FuncFrom(insts'[i].program, f) = k BY <1>1, <1>2 DEF IsImport
<1>6. CASE IsImport(i, f)
    <2>1. Imported(i, k, fn) BY <1>1, <1>6 DEF Origin
    <2>2. Imported(i, k, fn)' BY <2>1, ImportedStay
    <2>3. QED BY <1>4, <1>5, <1>6, <2>2 DEF Origin
<1>7. CASE ~IsImport(i, f) BY <1>1, <1>4, <1>5, <1>7 DEF Origin
<1>8. QED BY <1>6, <1>7

LEMMA OfferedStays ==
    ASSUME LinkInv, StoreGrows, NEW k \in DOMAIN exports, NEW x, x = exports[k], Offered(x),
           \A i : Settled(i) => Settled(i)'
    PROVE  Offered(x)'
<1>1. SUFFICES ASSUME x.kind = "func" PROVE Settled(x.by)' /\ Hands(x.by, x.name, functions[x.handle])'
    BY DEF Offered
<1>2. x.handle \in DOMAIN functions /\ x.by \in DOMAIN insts BY <1>1 DEF LinkInv, Ranges
<1>3. PICK fn : fn = functions[x.handle] OBVIOUS
<1>4. Settled(x.by) /\ Hands(x.by, x.name, fn) BY <1>1, <1>3 DEF Offered
<1>5. functions'[x.handle] = fn BY <1>2, <1>3 DEF StoreGrows, Extends
<1>6. Hands(x.by, x.name, fn)' BY <1>2, <1>4, HandsStay
<1>7. QED BY <1>4, <1>5, <1>6

\* Import k of a module is its function number `imports up to k'.
LEMMA FuncFromIs ==
    ASSUME NEW p \in Programs, NEW k \in ImportsOf(p, "func")
    PROVE  LET f == Cardinality(Before(p, "func", k + 1))
           IN  FuncFrom(p, f) = k /\ f <= Cardinality(ImportsOf(p, "func"))
<1>. DEFINE I == ImportsOf(p, "func")
            UpTo(i) == {j \in I : j <= i}
<1>1. I \subseteq Nat /\ IsFiniteSet(I)
    <2>1. DOMAIN p.imports = 1 .. Len(p.imports) /\ Len(p.imports) \in Nat BY ProgramShape
    <2>2. I \subseteq Nat BY <2>1 DEF ImportsOf
    <2>3. QED BY <2>2, BeforeFinite, 0 \in Nat
<1>2. Before(p, "func", k + 1) = UpTo(k) BY <1>1 DEF Before
<1>. HIDE DEF I
<1>3. \A i \in I : IsFiniteSet(UpTo(i)) /\ Cardinality(UpTo(i)) <= Cardinality(I) /\ Cardinality(UpTo(i)) \in Nat
    <2>1. TAKE i \in I
    <2>2. UpTo(i) \in SUBSET I OBVIOUS
    <2>3. IsFiniteSet(UpTo(i)) /\ Cardinality(UpTo(i)) <= Cardinality(I) BY <1>1, <2>2, FS_Subset
    <2>4. QED BY <2>3, FS_CardinalityType
<1>4. \A i, j \in I : i < j => Cardinality(UpTo(i)) # Cardinality(UpTo(j))
    <2>1. SUFFICES ASSUME NEW i \in I, NEW j \in I, i < j, Cardinality(UpTo(j)) = Cardinality(UpTo(i)) PROVE FALSE
        OBVIOUS
    <2>2. UpTo(i) \in SUBSET UpTo(j)
        <3>1. i \in Nat /\ j \in Nat BY <1>1, <2>1
        <3>2. ASSUME NEW x \in UpTo(i) PROVE x \in UpTo(j)
            <4>1. x \in I /\ x \in Nat /\ x <= i BY <1>1
            <4>2. x <= j BY <2>1, <3>1, <4>1
            <4>3. QED BY <4>1, <4>2
        <3>. HIDE DEF UpTo
        <3>3. QED BY <3>2
    <2>3. IsFiniteSet(UpTo(j)) BY <1>3
    <2>. HIDE DEF UpTo
    <2>4. UpTo(j) = UpTo(i) BY <2>1, <2>2, <2>3, FS_Subset
    <2>5. j \in UpTo(j) /\ j \notin UpTo(i) BY <1>1, <2>1 DEF UpTo
    <2>6. QED BY <2>4, <2>5
<1>5. k \in I BY DEF I
<1>6. \A i \in I : Cardinality(UpTo(i)) = Cardinality(UpTo(k)) => i = k
    <2>1. SUFFICES ASSUME NEW i \in I, Cardinality(UpTo(i)) = Cardinality(UpTo(k)) PROVE i = k OBVIOUS
    <2>. HIDE DEF UpTo
    <2>2. ~(i < k) /\ ~(k < i) BY <1>4, <1>5, <2>1
    <2>3. QED BY <1>1, <1>5, <2>2
<1>. DEFINE f == Cardinality(UpTo(k))
<1>7. FuncFrom(p, f) = CHOOSE i \in I : Cardinality(UpTo(i)) = f BY DEF FuncFrom, I
<1>. HIDE DEF UpTo
<1>8. FuncFrom(p, f) = k BY <1>5, <1>6, <1>7
<1>9. QED BY <1>2, <1>3, <1>5, <1>8 DEF I

\* A step that leaves the instances, the functions and the exports alone.
LEMMA OriginSame ==
    ASSUME LinkInv, OriginInv, UNCHANGED <<functions, exports, insts>>, Loading' => Loading,
           loader'.step = "imports" => loader' = loader
    PROVE  OriginInv'
<1>1. \A i : Settled(i) => Settled(i)' BY DEF Settled, cur
<1>2. \A b, n, fn : Hands(b, n, fn) => Hands(b, n, fn)' BY DEF Hands
<1>3. Offers' BY <1>1, <1>2 DEF OriginInv, Offers, Offered
<1>4. Origins'
    <2>1. StoreGrows BY ExtendsSelf DEF StoreGrows
    <2>2. ASSUME NEW i \in DOMAIN insts, NEW f \in DOMAIN insts[i].funcaddrs PROVE Origin(i, f)'
        <3>1. Origin(i, f) BY DEF OriginInv, Origins
        <3>2. QED BY <2>1, <3>1, OriginStays
    <2>3. QED BY <2>2 DEF Origins
<1>5. FromCounts' BY DEF OriginInv, FromCounts, me, cur
<1>6. QED BY <1>3, <1>4, <1>5 DEF OriginInv

\* A step that adds to instance c, the one that is being loaded.
LEMMA OriginMine ==
    ASSUME LinkInv, OriginInv, StoreGrows, exports' = exports, Loading, Loading',
           NEW c, c = cur, Len(insts') = Len(insts), DOMAIN insts' = DOMAIN insts,
           \A i \in DOMAIN insts : insts'[i].live = insts[i].live /\ (i # c => insts'[i] = insts[i]),
           \A f \in DOMAIN insts'[c].funcaddrs : f \in DOMAIN insts[c].funcaddrs \/ Origin(c, f)'
    PROVE  Origins' /\ Offers'
<1>1. \A i : Settled(i) => Settled(i)' BY DEF Settled, cur
<1>2. Offers'
    <2>1. ASSUME NEW k \in DOMAIN exports PROVE Offered(exports[k])'
        <3>1. PICK x : x = exports[k] OBVIOUS
        <3>2. Offered(x) BY <3>1 DEF OriginInv, Offers
        <3>3. Offered(x)' BY <1>1, <3>1, <3>2, OfferedStays
        <3>4. QED BY <3>1, <3>3
    <2>2. QED BY <2>1 DEF Offers
<1>3. ASSUME NEW i \in DOMAIN insts, NEW f \in DOMAIN insts'[i].funcaddrs PROVE Origin(i, f)'
    <2>1. CASE f \in DOMAIN insts[i].funcaddrs
        <3>1. Origin(i, f) BY <2>1 DEF OriginInv, Origins
        <3>2. QED BY <2>1, <3>1, OriginStays
    <2>2. CASE f \notin DOMAIN insts[i].funcaddrs
        <3>1. i = c BY <2>2
        <3>2. QED BY <1>3, <2>2, <3>1
    <2>3. QED BY <2>1, <2>2
<1>4. Origins' BY <1>3 DEF Origins
<1>5. QED BY <1>2, <1>4

\* Phase 1 fails: only a flag of an instance that offers nothing.
LEMMA OriginFails == ASSUME LinkInv, OriginInv, Phase1Fails PROVE OriginInv'
<1>0. Shapes /\ Loading BY DEF LinkInv, Phase1Fails, Loading
<1>1. cur \in DOMAIN insts BY <1>0, CurShape DEF Loading
<1>2. /\ insts' = [insts EXCEPT ![cur].live = FALSE] /\ UNCHANGED <<functions, exports>>
      /\ loader' = [step |-> "idle", i |-> 0]
    BY DEF Phase1Fails, At
<1>3. /\ DOMAIN insts' = DOMAIN insts
      /\ \A i \in DOMAIN insts : i # cur => insts'[i] = insts[i]
    BY <1>2
<1>4. \A i \in DOMAIN insts : /\ insts'[i].program = insts[i].program
                               /\ insts'[i].funcaddrs = insts[i].funcaddrs /\ insts'[i].from = insts[i].from
    <2>1. insts'[cur] = [insts[cur] EXCEPT !.live = FALSE] BY <1>1, <1>2
    <2>2. insts[cur] \in Instance BY <1>0, <1>1, InstanceShape
    <2>3. /\ insts'[cur].program = insts[cur].program
          /\ insts'[cur].funcaddrs = insts[cur].funcaddrs /\ insts'[cur].from = insts[cur].from
        BY <2>1, <2>2 DEF Instance
    <2>4. QED BY <1>3, <2>3
<1>5. StoreGrows BY <1>2, <1>3, <1>4, ExtendsSelf DEF StoreGrows
<1>6. ASSUME NEW i, Settled(i) PROVE Settled(i)'
    <2>1. i \in DOMAIN insts /\ insts[i].live /\ i # cur BY <1>0, <1>6 DEF Settled
    <2>2. insts'[i] = insts[i] /\ ~Loading' BY <1>2, <1>3, <2>1 DEF Loading
    <2>3. QED BY <1>3, <2>1, <2>2 DEF Settled
<1>7. Origins'
    <2>1. ASSUME NEW i \in DOMAIN insts, NEW f \in DOMAIN insts[i].funcaddrs PROVE Origin(i, f)'
        <3>1. Origin(i, f) BY DEF OriginInv, Origins
        <3>2. QED BY <1>5, <3>1, OriginStays
    <2>2. QED BY <1>3, <1>4, <2>1 DEF Origins
<1>8. Offers'
    <2>1. ASSUME NEW k \in DOMAIN exports PROVE Offered(exports[k])'
        <3>1. PICK x : x = exports[k] OBVIOUS
        <3>2. Offered(x) BY <3>1 DEF OriginInv, Offers
        <3>3. Offered(x)' BY <1>5, <1>6, <3>1, <3>2, OfferedStays
        <3>4. QED BY <1>2, <3>1, <3>3
    <2>2. QED BY <1>2, <2>1 DEF Offers
<1>9. FromCounts' BY <1>2 DEF FromCounts
<1>10. QED BY <1>7, <1>8, <1>9 DEF OriginInv

\* A new instance has no function yet.
LEMMA OriginLoads ==
    ASSUME LinkInv, OriginInv, NEW p \in Programs, NEW n \in Names, loadLinked(p, n)
    PROVE  OriginInv'
<1>. DEFINE new == [program |-> p, name |-> n, funcaddrs |-> <<>>,
                    tableaddrs |-> <<>>, live |-> TRUE, from |-> <<>>]
<1>0. Shapes BY DEF LinkInv
<1>1. /\ loader.step = "idle" /\ insts' = Append(insts, new) /\ UNCHANGED <<functions, exports>>
      /\ loader' = [step |-> "imports", i |-> 1]
    BY DEF loadLinked, At
<1>2. new \in Instance /\ new.funcaddrs = <<>> /\ new.from = <<>> BY DEF Instance
<1>. HIDE DEF new
<1>3. insts \in Seq(Instance) /\ Len(insts) \in Nat /\ DOMAIN insts = 1 .. Len(insts) BY <1>0 DEF Shapes
<1>4. /\ Len(insts') = Len(insts) + 1 /\ DOMAIN insts' = 1 .. (Len(insts) + 1)
      /\ \A i \in DOMAIN insts : insts'[i] = insts[i]
      /\ insts'[Len(insts) + 1] = new
    BY <1>1, <1>2, <1>3
<1>5. DOMAIN insts \subseteq DOMAIN insts' BY <1>3, <1>4
<1>6. StoreGrows BY <1>1, <1>4, <1>5, ExtendsSelf DEF StoreGrows
<1>7. ASSUME NEW i, Settled(i) PROVE Settled(i)'
    <2>1. i \in DOMAIN insts /\ insts[i].live BY <1>7 DEF Settled
    <2>2. i \in DOMAIN insts' /\ insts'[i].live /\ i # Len(insts') BY <1>3, <1>4, <1>5, <2>1
    <2>3. QED BY <2>2 DEF Settled, cur
<1>8. Offers'
    <2>1. ASSUME NEW k \in DOMAIN exports PROVE Offered(exports[k])'
        <3>1. PICK x : x = exports[k] OBVIOUS
        <3>2. Offered(x) BY <3>1 DEF OriginInv, Offers
        <3>3. Offered(x)' BY <1>6, <1>7, <3>1, <3>2, OfferedStays
        <3>4. QED BY <1>1, <3>1, <3>3
    <2>2. QED BY <1>1, <2>1 DEF Offers
<1>9. ASSUME NEW i \in DOMAIN insts', NEW f \in DOMAIN insts'[i].funcaddrs PROVE Origin(i, f)'
    <2>1. CASE i \in DOMAIN insts
        <3>1. f \in DOMAIN insts[i].funcaddrs BY <1>4, <1>9, <2>1
        <3>2. Origin(i, f) BY <2>1, <3>1 DEF OriginInv, Origins
        <3>3. QED BY <1>6, <2>1, <3>1, <3>2, OriginStays
    <2>2. CASE i \notin DOMAIN insts
        <3>1. insts'[i] = new BY <1>3, <1>4, <2>2
        <3>2. DOMAIN insts'[i].funcaddrs = {} BY <1>2, <3>1
        <3>3. QED BY <1>9, <3>2
    <2>3. QED BY <2>1, <2>2
<1>10. Origins' BY <1>9 DEF Origins
<1>11. FromCounts'
    <2>1. me' = new BY <1>4 DEF me, cur
    <2>2. Len(me'.from) = 0 /\ loader'.i = 1 BY <1>1, <1>2, <2>1
    <2>3. QED BY <2>2 DEF FromCounts
<1>12. QED BY <1>8, <1>10, <1>11 DEF OriginInv

\* The instance that is being loaded gets new as its record.
LEMMA MineBecomes ==
    ASSUME LinkInv, Loading, NEW c, c = cur, NEW new \in Instance, insts' = [insts EXCEPT ![c] = new],
           new.program = me.program, new.live = me.live,
           Extends(me.funcaddrs, new.funcaddrs), Extends(me.from, new.from), Extends(functions, functions')
    PROVE  /\ StoreGrows /\ Len(insts') = Len(insts) /\ DOMAIN insts' = DOMAIN insts
           /\ \A i \in DOMAIN insts : insts'[i].live = insts[i].live /\ (i # c => insts'[i] = insts[i])
           /\ insts'[c] = new /\ c \in DOMAIN insts /\ me' = new
<1>1. c \in DOMAIN insts /\ insts \in Seq(Instance) BY CurShape DEF LinkInv, Shapes, Loading
<1>2. /\ Len(insts') = Len(insts) /\ DOMAIN insts' = DOMAIN insts /\ insts'[c] = new
      /\ \A i \in DOMAIN insts : i # c => insts'[i] = insts[i]
    BY <1>1
<1>3. me = insts[c] BY DEF me
<1>4. \A i \in DOMAIN insts : insts'[i].live = insts[i].live BY <1>2, <1>3
<1>5. StoreGrows
    <2>1. ASSUME NEW i \in DOMAIN insts
          PROVE  /\ insts'[i].program = insts[i].program
                 /\ Extends(insts[i].funcaddrs, insts'[i].funcaddrs)
                 /\ Extends(insts[i].from, insts'[i].from)
        <3>1. CASE i = c BY <1>2, <1>3, <3>1
        <3>2. CASE i # c BY <1>2, <3>2, ExtendsSelf
        <3>3. QED BY <3>1, <3>2
    <2>2. QED BY <1>2, <2>1 DEF StoreGrows
<1>6. me' = new BY <1>2 DEF me, cur
<1>7. QED BY <1>1, <1>2, <1>4, <1>5, <1>6

LEMMA OriginFunction == ASSUME LinkInv, OriginInv, instantiateFunction PROVE OriginInv'
<1>0. Shapes BY DEF LinkInv
<1>1. /\ loader \in [step : Steps, i : Nat] /\ loader.step = "functions" /\ loader.i >= 1
      /\ loader' = [step |-> "functions", i |-> loader.i + 1] /\ Loading /\ Loading'
      /\ exports' = exports
    BY <1>0 DEF Shapes, instantiateFunction, At, Loading
<1>2. PICK c : c = cur OBVIOUS
<1>3. PICK f : f = Len(me.funcaddrs) + 1 OBVIOUS
<1>4. PICK fn : fn = [inst |-> c, func_idx |-> f] OBVIOUS
<1>5. PICK a : a = Len(functions) + 1 OBVIOUS
<1>6. PICK new : new = [me EXCEPT !.funcaddrs = Append(@, a)] OBVIOUS
<1>7. functions' = Append(functions, fn) /\ insts' = [insts EXCEPT ![c] = new]
    BY <1>2, <1>3, <1>4, <1>5, <1>6 DEF instantiateFunction, me
<1>8. c \in DOMAIN insts /\ me = insts[c] /\ me \in Instance /\ c \in Nat /\ prog \in Programs
    BY <1>0, <1>1, <1>2, CurShape, InstanceShape, StoreShape DEF me
<1>9. me.funcaddrs \in Seq(Nat) /\ Len(me.funcaddrs) \in Nat /\ functions \in Seq(Function) /\ a \in Nat
      /\ Len(functions) \in Nat
    BY <1>0, <1>5, <1>8 DEF Instance, Shapes
<1>10. f \in Nat /\ f >= 1 /\ fn \in Function BY <1>3, <1>4, <1>8, <1>9 DEF Function
<1>11. Append(me.funcaddrs, a) \in Seq(Nat) BY <1>9
<1>12. /\ new \in Instance /\ new.program = me.program /\ new.live = me.live
       /\ new.funcaddrs = Append(me.funcaddrs, a) /\ new.from = me.from
    BY <1>6, <1>8, <1>11 DEF Instance
<1>13. Extends(me.funcaddrs, new.funcaddrs) /\ Extends(me.from, new.from) /\ Extends(functions, functions')
    BY <1>7, <1>9, <1>10, <1>12, ExtendsSelf, ExtendsAppend
<1>14. /\ StoreGrows /\ Len(insts') = Len(insts) /\ DOMAIN insts' = DOMAIN insts
       /\ \A i \in DOMAIN insts : insts'[i].live = insts[i].live /\ (i # c => insts'[i] = insts[i])
       /\ insts'[c] = new
    BY <1>1, <1>2, <1>7, <1>12, <1>13, MineBecomes
<1>15. Origin(c, f)'
    <2>1. insts'[c].funcaddrs[f] = a /\ functions'[a] = fn
        BY <1>3, <1>5, <1>7, <1>9, <1>10, <1>12, <1>14
    <2>2. ~IsImport(c, f)'
        <3>1. Len(me.funcaddrs) = Cardinality(ImportsOf(prog, "func")) + loader.i - 1
            BY <1>1 DEF LinkInv, Counts
        <3>2. Cardinality(ImportsOf(prog, "func")) \in Nat BY <1>8, BeforeFinite, 0 \in Nat
        <3>3. f > Cardinality(ImportsOf(prog, "func")) BY <1>1, <1>3, <3>1, <3>2
        <3>4. insts'[c].program = prog BY <1>12, <1>14 DEF prog
        <3>5. QED BY <1>10, <3>2, <3>3, <3>4 DEF IsImport
    <2>3. QED BY <1>4, <2>1, <2>2 DEF Origin
<1>16. \A g \in DOMAIN insts'[c].funcaddrs : g \in DOMAIN insts[c].funcaddrs \/ g = f
    BY <1>3, <1>8, <1>9, <1>12, <1>14
<1>17. Origins' /\ Offers' BY <1>1, <1>2, <1>14, <1>15, <1>16, OriginMine
<1>18. FromCounts' BY <1>1 DEF FromCounts
<1>19. QED BY <1>17, <1>18 DEF OriginInv

LEMMA OriginTable == ASSUME LinkInv, OriginInv, instantiateTable PROVE OriginInv'
<1>0. Shapes BY DEF LinkInv
<1>1. /\ loader.step = "tables" /\ loader' = [step |-> "tables", i |-> loader.i + 1] /\ Loading /\ Loading'
      /\ UNCHANGED <<functions, exports>>
    BY DEF instantiateTable, At, Loading
<1>2. PICK c : c = cur OBVIOUS
<1>3. PICK a : a = Len(tables) + 1 OBVIOUS
<1>4. PICK new : new = [me EXCEPT !.tableaddrs = Append(@, a)] OBVIOUS
<1>5. insts' = [insts EXCEPT ![c] = new]
    BY <1>2, <1>3, <1>4 DEF instantiateTable, me
<1>6. c \in DOMAIN insts /\ me = insts[c] /\ me \in Instance
    BY <1>0, <1>1, <1>2, CurShape, InstanceShape DEF me
<1>7. Append(me.tableaddrs, a) \in Seq(Nat)
    <2>1. me.tableaddrs \in Seq(Nat) /\ Len(tables) \in Nat BY <1>0, <1>6, StoreShape DEF Instance
    <2>2. QED BY <1>3, <2>1
<1>8. /\ new \in Instance /\ new.program = me.program /\ new.live = me.live
      /\ new.funcaddrs = me.funcaddrs /\ new.from = me.from
    BY <1>4, <1>6, <1>7 DEF Instance
<1>9. Extends(me.funcaddrs, new.funcaddrs) /\ Extends(me.from, new.from) /\ Extends(functions, functions')
    BY <1>1, <1>8, ExtendsSelf
<1>10. /\ StoreGrows /\ Len(insts') = Len(insts) /\ DOMAIN insts' = DOMAIN insts
       /\ \A i \in DOMAIN insts : insts'[i].live = insts[i].live /\ (i # c => insts'[i] = insts[i])
       /\ insts'[c] = new
    BY <1>1, <1>2, <1>5, <1>8, <1>9, MineBecomes
<1>11. DOMAIN insts'[c].funcaddrs = DOMAIN insts[c].funcaddrs BY <1>6, <1>8, <1>10
<1>12. Origins' /\ Offers' BY <1>1, <1>2, <1>10, <1>11, OriginMine
<1>13. FromCounts' BY <1>1 DEF FromCounts
<1>14. QED BY <1>12, <1>13 DEF OriginInv

\* An import: the copy equals the function offered, and the instance that has
\* offered it was loaded before.
LEMMA OriginImport == ASSUME LinkInv, OriginInv, resolveImport PROVE OriginInv'
<1>0. Shapes BY DEF LinkInv
<1>1. /\ loader \in [step : Steps, i : Nat] /\ loader.step = "imports" /\ loader.i >= 1
      /\ loader' = [step |-> "imports", i |-> loader.i + 1] /\ Loading /\ Loading'
      /\ exports' = exports /\ loader.i <= Len(prog.imports)
    BY <1>0 DEF Shapes, resolveImport, At, Loading
<1>2. PICK c : c = cur OBVIOUS
<1>3. PICK n : n = loader.i OBVIOUS
<1>4. PICK imp : imp = prog.imports[n] OBVIOUS
<1>5. PICK k \in lookupImport(imp) :
          \/ /\ imp.kind = "func"
             /\ functions' = Append(functions, functions[exports[k].handle])
             /\ insts' = [insts EXCEPT ![cur].funcaddrs = Append(@, Len(functions) + 1),
                                       ![cur].from = Append(@, exports[k].by)]
          \/ /\ imp.kind = "table"
             /\ insts' = [insts EXCEPT ![cur].tableaddrs = Append(@, exports[k].handle),
                                       ![cur].from = Append(@, exports[k].by)]
             /\ UNCHANGED functions
    BY <1>3, <1>4 DEF resolveImport, CopyFunction
<1>6. PICK x : x = exports[k] OBVIOUS
<1>7. k \in DOMAIN exports /\ x \in Export /\ x.kind = imp.kind /\ x.name = imp.name /\ Offered(x)
    BY <1>0, <1>6, StoreShape DEF lookupImport, OriginInv, Offers
<1>8. c \in DOMAIN insts /\ me = insts[c] /\ me \in Instance /\ c \in Nat /\ prog \in Programs
    BY <1>0, <1>1, <1>2, CurShape, InstanceShape, StoreShape DEF me
<1>9. PICK from : from = Append(me.from, x.by) OBVIOUS
<1>10. /\ me.from \in Seq(Nat) /\ me.funcaddrs \in Seq(Nat) /\ me.tableaddrs \in Seq(Nat)
       /\ x.by \in Nat /\ x.handle \in Nat
    BY <1>7, <1>8 DEF Instance, Export
<1>11. /\ from \in Seq(Nat) /\ Len(from) = Len(me.from) + 1 /\ from[Len(me.from) + 1] = x.by
       /\ Len(me.from) \in Nat /\ Len(me.from) + 1 \in DOMAIN from /\ Extends(me.from, from)
    BY <1>9, <1>10, ExtendsAppend
<1>12. n \in Nat /\ n >= 1 /\ Len(me.from) = n - 1 /\ n \in DOMAIN from /\ from[n] = x.by
    <2>1. n \in Nat /\ n >= 1 /\ Len(me.from) = n - 1 BY <1>1, <1>3 DEF OriginInv, FromCounts
    <2>2. Len(me.from) + 1 = n BY <2>1
    <2>3. QED BY <1>11, <2>1, <2>2
<1>13. loader'.i = n + 1 /\ Len(from) = n
    BY <1>1, <1>3, <1>11, <1>12
<1>14. CASE imp.kind = "func"
    <2>1. PICK a, fs, fn, new : /\ a = Len(functions) + 1 /\ fs = Append(me.funcaddrs, a) /\ fn = functions[x.handle]
                                /\ new = [me EXCEPT !.funcaddrs = fs, !.from = from]
        OBVIOUS
    <2>2. functions' = Append(functions, fn) /\ insts' = [insts EXCEPT ![c] = new]
        BY <1>2, <1>5, <1>6, <1>8, <1>9, <1>14, <2>1
    <2>3. functions \in Seq(Function) /\ Len(functions) \in Nat /\ a \in Nat BY <1>0, <2>1 DEF Shapes
    <2>4. fn \in Function
        <3>1. x.handle \in DOMAIN functions BY <1>6, <1>7, <1>14 DEF LinkInv, Ranges
        <3>2. QED BY <1>0, <2>1, <3>1, StoreShape
    <2>5. PICK f : f = Len(me.funcaddrs) + 1 OBVIOUS
    <2>6. /\ fs \in Seq(Nat) /\ f \in Nat /\ fs[f] = a
          /\ \A g \in DOMAIN fs : g \in DOMAIN me.funcaddrs \/ g = f
        BY <1>10, <2>1, <2>3, <2>5
    <2>7. /\ new \in Instance /\ new.program = me.program /\ new.live = me.live
          /\ new.funcaddrs = fs /\ new.from = from
        BY <1>8, <1>11, <2>1, <2>6 DEF Instance
    <2>8. Extends(me.funcaddrs, new.funcaddrs) /\ Extends(me.from, new.from) /\ Extends(functions, functions')
        BY <1>10, <1>11, <2>1, <2>2, <2>3, <2>4, <2>7, ExtendsAppend
    <2>9. /\ StoreGrows /\ Len(insts') = Len(insts) /\ DOMAIN insts' = DOMAIN insts
          /\ \A i \in DOMAIN insts : insts'[i].live = insts[i].live /\ (i # c => insts'[i] = insts[i])
          /\ insts'[c] = new /\ me' = new
        BY <1>1, <1>2, <2>2, <2>7, <2>8, MineBecomes
    <2>10. x.by \in 1 .. (c - 1) /\ x.by \in DOMAIN insts /\ Hands(x.by, imp.name, fn)
        <3>1. Settled(x.by) /\ Hands(x.by, imp.name, fn) BY <1>7, <1>14, <2>1 DEF Offered
        <3>2. x.by \in DOMAIN insts /\ x.by # c BY <1>1, <1>2, <3>1 DEF Settled
        <3>3. DOMAIN insts = 1 .. c /\ c \in Nat BY <1>0, <1>2, StoreShape DEF cur
        <3>4. QED BY <3>1, <3>2, <3>3
    <2>11. Hands(x.by, imp.name, fn)' BY <2>9, <2>10, HandsStay
    <2>12. insts'[c].program = prog /\ insts'[c].program.imports[n] = imp
        BY <1>4, <2>7, <2>9 DEF prog
    <2>13. Imported(c, n, fn)'
        <3>1. n \in DOMAIN insts'[c].from /\ insts'[c].from[n] = x.by BY <1>12, <2>7, <2>9
        <3>2. QED BY <2>10, <2>11, <2>12, <3>1 DEF Imported
    <2>14. FuncFrom(prog, f) = n /\ f <= Cardinality(ImportsOf(prog, "func"))
        <3>1. PICK p : p = prog OBVIOUS
        <3>2. p \in Programs /\ n <= Len(p.imports) /\ p.imports[n] = imp BY <1>1, <1>3, <1>4, <1>8, <3>1
        <3>3. n \in ImportsOf(p, "func")
            <4>1. DOMAIN p.imports = 1 .. Len(p.imports) /\ Len(p.imports) \in Nat BY <3>2, ProgramShape
            <4>2. n \in DOMAIN p.imports BY <1>12, <3>2, <4>1
            <4>3. QED BY <1>14, <3>2, <4>2 DEF ImportsOf
        <3>4. Cardinality(Before(p, "func", n + 1)) = Cardinality(Before(p, "func", n)) + 1
            BY <1>12, <1>14, <3>2, BeforeNext
        <3>5. Len(me.funcaddrs) = Cardinality(Before(p, "func", n)) BY <1>1, <1>3, <3>1 DEF LinkInv, Counts
        <3>6. f = Cardinality(Before(p, "func", n + 1)) BY <2>5, <3>4, <3>5
        <3>7. QED BY <3>1, <3>2, <3>3, <3>6, FuncFromIs
    <2>15. Origin(c, f)'
        <3>0. insts'[c].funcaddrs[f] = a BY <2>6, <2>7, <2>9
        <3>a. functions'[Len(functions) + 1] = fn BY <2>2, <2>3, <2>4
        <3>1. functions'[insts'[c].funcaddrs[f]] = fn
            BY <2>1, <3>0, <3>a
        <3>2. IsImport(c, f)' BY <2>12, <2>14 DEF IsImport
        <3>3. FuncFrom(insts'[c].program, f) = n BY <2>12, <2>14
        <3>4. QED BY <2>13, <3>1, <3>2, <3>3 DEF Origin
    <2>16. \A g \in DOMAIN insts'[c].funcaddrs : g \in DOMAIN insts[c].funcaddrs \/ g = f
        BY <1>8, <2>6, <2>7, <2>9
    <2>17. Origins' /\ Offers' BY <1>1, <1>2, <2>9, <2>15, <2>16, OriginMine
    <2>18. FromCounts' BY <1>12, <1>13, <2>7, <2>9 DEF FromCounts
    <2>19. QED BY <2>17, <2>18 DEF OriginInv
<1>15. CASE imp.kind # "func"
    <2>1. PICK ts, new : ts = Append(me.tableaddrs, x.handle) /\ new = [me EXCEPT !.tableaddrs = ts, !.from = from]
        OBVIOUS
    <2>2. functions' = functions /\ insts' = [insts EXCEPT ![c] = new]
        BY <1>2, <1>5, <1>6, <1>8, <1>9, <1>15, <2>1
    <2>3. ts \in Seq(Nat) BY <1>10, <2>1
    <2>4. /\ new \in Instance /\ new.program = me.program /\ new.live = me.live
          /\ new.funcaddrs = me.funcaddrs /\ new.from = from
        BY <1>8, <1>11, <2>1, <2>3 DEF Instance
    <2>5. Extends(me.funcaddrs, new.funcaddrs) /\ Extends(me.from, new.from) /\ Extends(functions, functions')
        BY <1>11, <2>2, <2>4, ExtendsSelf
    <2>6. /\ StoreGrows /\ Len(insts') = Len(insts) /\ DOMAIN insts' = DOMAIN insts
          /\ \A i \in DOMAIN insts : insts'[i].live = insts[i].live /\ (i # c => insts'[i] = insts[i])
          /\ insts'[c] = new /\ me' = new
        BY <1>1, <1>2, <2>2, <2>4, <2>5, MineBecomes
    <2>7. DOMAIN insts'[c].funcaddrs = DOMAIN insts[c].funcaddrs BY <1>8, <2>4, <2>6
    <2>8. Origins' /\ Offers' BY <1>1, <1>2, <2>6, <2>7, OriginMine
    <2>9. FromCounts' BY <1>12, <1>13, <2>4, <2>6 DEF FromCounts
    <2>10. QED BY <2>8, <2>9 DEF OriginInv
<1>16. QED BY <1>14, <1>15

\* A registered export is a function of the module that registers it.
LEMMA OriginRegisters == ASSUME LinkInv, OriginInv, registerExportsTo PROVE OriginInv'
<1>0. Shapes BY DEF LinkInv
<1>1. /\ loader \in [step : Steps, i : Nat] /\ loader.step = "register" /\ loader.i >= 1
      /\ ~Loading /\ ~Loading' /\ loader.i <= Len(prog.exports) /\ loader'.step = "register"
      /\ UNCHANGED <<functions, insts>>
    BY <1>0 DEF Shapes, registerExportsTo, Loading, At
<1>2. PICK c, n : c = cur /\ n = loader.i OBVIOUS
<1>3. c \in DOMAIN insts /\ me = insts[c] /\ me.live /\ prog \in Programs /\ prog = insts[c].program
    BY <1>0, <1>1, <1>2, CurShape DEF me, prog
<1>4. PICK e : e = prog.exports[n] OBVIOUS
<1>5. PICK h : h = IF e.kind = "func" THEN me.funcaddrs[e.index] ELSE me.tableaddrs[e.index] OBVIOUS
<1>6. PICK x : x = [mod |-> me.name, name |-> e.name, kind |-> e.kind, by |-> c, handle |-> h] OBVIOUS
<1>7. exports' = Append(exports, x)
    BY <1>2, <1>3, <1>4, <1>5, <1>6 DEF registerExportsTo, RegisterNext, me, prog
<1>8. n \in DOMAIN prog.exports /\ (e.kind = "func" => e.index \in 1 .. FuncCount(prog))
    <2>1. ExportsValid(prog) BY <1>3, ProgramShape
    <2>2. n \in Nat /\ n >= 1 /\ n <= Len(prog.exports) BY <1>1, <1>2
    <2>3. n \in DOMAIN prog.exports BY <2>1, <2>2 DEF ExportsValid
    <2>4. QED BY <1>4, <2>1, <2>3 DEF ExportsValid
<1>9. Settled(c) /\ DOMAIN insts[c].funcaddrs = 1 .. FuncCount(prog)
    BY <1>0, <1>1, <1>3, LiveIsSettled, InstanceShape
<1>10. \A i : Settled(i) => Settled(i)' BY <1>1 DEF Settled, cur
<1>11. \A b, m, fn : Hands(b, m, fn) => Hands(b, m, fn)' BY <1>1 DEF Hands
<1>12. Offered(x)
    <2>1. SUFFICES ASSUME e.kind = "func" PROVE Settled(c) /\ Hands(c, e.name, functions[h])
        BY <1>6 DEF Offered
    <2>2. e.index \in DOMAIN insts[c].funcaddrs /\ h = insts[c].funcaddrs[e.index]
        BY <1>3, <1>5, <1>8, <1>9, <2>1
    <2>3. Hands(c, e.name, functions[h]) BY <1>3, <1>4, <1>8, <2>1, <2>2 DEF Hands
    <2>4. QED BY <1>9, <2>3
<1>13. Offers'
    <2>1. ASSUME NEW k \in DOMAIN exports' PROVE Offered(exports'[k])
        <3>1. exports \in Seq(Export) BY <1>0 DEF Shapes
        <3>2. exports'[k] = x \/ (k \in DOMAIN exports /\ exports'[k] = exports[k]) BY <1>7, <2>1, <3>1
        <3>3. QED BY <1>12, <3>2 DEF OriginInv, Offers
    <2>2. ASSUME NEW k \in DOMAIN exports' PROVE Offered(exports[k])'
        <3>1. PICK y : y = exports'[k] OBVIOUS
        <3>2. Offered(y) BY <2>1, <3>1
        <3>3. Offered(y)' BY <1>1, <1>10, <1>11, <3>2 DEF Offered
        <3>4. QED BY <3>1, <3>3
    <2>3. QED BY <2>2 DEF Offers
<1>14. Origins'
    <2>1. StoreGrows BY <1>1, ExtendsSelf DEF StoreGrows
    <2>2. ASSUME NEW i \in DOMAIN insts, NEW f \in DOMAIN insts[i].funcaddrs PROVE Origin(i, f)'
        <3>1. Origin(i, f) BY DEF OriginInv, Origins
        <3>2. QED BY <2>1, <3>1, OriginStays
    <2>3. QED BY <1>1, <2>2 DEF Origins
<1>15. FromCounts' BY <1>1 DEF FromCounts
<1>16. QED BY <1>13, <1>14, <1>15 DEF OriginInv

\* The first state, and every step.
LEMMA OriginInit == LinkInit => OriginInv
  BY DEF LinkInit, OriginInv, Origins, Offers, FromCounts, At

LEMMA OriginStep == LinkInv /\ OriginInv /\ [LinkNext]_linkVars => OriginInv'
<1>1. SUFFICES ASSUME LinkInv, OriginInv, [LinkNext]_linkVars PROVE OriginInv' OBVIOUS
<1>2. CASE \E p \in Programs, n \in Names : loadLinked(p, n) BY <1>1, <1>2, OriginLoads
<1>3. CASE Phase1Fails BY <1>1, <1>3, OriginFails
<1>4. CASE resolveImport BY <1>1, <1>4, OriginImport
<1>5. CASE instantiateFunction BY <1>1, <1>5, OriginFunction
<1>6. CASE instantiateTable BY <1>1, <1>6, OriginTable
<1>7. CASE registerExportsTo BY <1>1, <1>7, OriginRegisters
<1>8. CASE ImportsDone \/ FunctionsDone \/ TablesDone \/ Phase1Done
    <2>1. /\ UNCHANGED <<functions, exports, insts>> /\ Loading
          /\ loader'.step \in {"functions", "tables", "elems", "apply"}
        BY <1>8 DEF ImportsDone, FunctionsDone, TablesDone, Phase1Done, At, Loading
    <2>2. loader'.step # "imports" BY <2>1
    <2>3. QED BY <1>1, <2>1, <2>2, OriginSame
<1>9. CASE applyActiveElement \/ ApplyDone \/ RegisterEnds
    <2>1. /\ UNCHANGED <<functions, exports, insts>>
          /\ loader'.step \in {"idle", "apply", "register"}
        <3>1. CASE applyActiveElement
            <4>1. loader' = At("apply", loader.i + 1) \/ loader' = At("register", 1)
                BY <3>1 DEF applyActiveElement
            <4>2. loader'.step \in {"apply", "register"} BY <4>1 DEF At
            <4>3. QED BY <3>1, <4>2 DEF applyActiveElement
        <3>2. CASE ApplyDone \/ RegisterEnds BY <3>2 DEF ApplyDone, RegisterEnds, At
        <3>3. QED BY <1>9, <3>1, <3>2
    <2>2. loader'.step # "imports" /\ ~Loading' BY <2>1 DEF Loading
    <2>3. QED BY <1>1, <2>1, <2>2, OriginSame
<1>10. CASE \E i \in DOMAIN insts : \E t \in DOMAIN insts[i].tableaddrs, f \in DOMAIN insts[i].funcaddrs :
              \E k \in DOMAIN tables[insts[i].tableaddrs[t]] : TableSet(i, t, k, f)
    <2>1. UNCHANGED <<functions, exports, insts, loader>> BY <1>10 DEF TableSet
    <2>2. Loading' <=> Loading BY <2>1 DEF Loading
    <2>3. QED BY <1>1, <2>1, <2>2, OriginSame
<1>11. CASE UNCHANGED linkVars
    <2>1. UNCHANGED <<functions, exports, insts, loader>> BY <1>11 DEF linkVars
    <2>2. Loading' <=> Loading BY <2>1 DEF Loading
    <2>3. QED BY <1>1, <2>1, <2>2, OriginSame
<1>12. QED BY <1>1, <1>2, <1>3, <1>4, <1>5, <1>6, <1>7, <1>8, <1>9, <1>10, <1>11 DEF LinkNext

LEMMA OriginAlways == LinkSpec => [](LinkInv /\ OriginInv)
<1>1. LinkInit => LinkInv /\ OriginInv BY LinkInitInv, OriginInit
<1>2. LinkInv /\ OriginInv /\ [LinkNext]_linkVars => (LinkInv /\ OriginInv)' BY LinkInvStep, OriginStep
<1>3. QED BY <1>1, <1>2, PTL DEF LinkSpec

-----------------------------------------------------------------------------
\* Definition follows the imports.  Where function f of instance i comes from:
Src(i, f) == insts[i].from[FuncFrom(insts[i].program, f)]
SrcIndex(i, f) ==
    ExportIndex(insts[Src(i, f)].program,
                insts[i].program.imports[FuncFrom(insts[i].program, f)].name)
FnOf(i, f) == functions[insts[i].funcaddrs[f]]
DefAt(d, i) ==
    [f \in DOMAIN insts[i].funcaddrs |-> IF ~IsImport(i, f) THEN <<i, f>> ELSE d[Src(i, f)][SrcIndex(i, f)]]

\* A non-empty set of numbers has a least one.
LEMMA LeastOf ==
    ASSUME NEW S, S \subseteq Nat, S # {}
    PROVE  \E x \in S : \A y \in S : x <= y
<1>1. PICK x \in S : \A y \in S : ~(<<y, x>> \in OpToRel(<, Nat))
    BY NatLessThanWellFounded, WFMin
<1>2. \A y \in S : x <= y
    <2>. TAKE y \in S
    <2>1. x \in Nat /\ y \in Nat OBVIOUS
    <2>2. ~(y < x) BY <1>1, <2>1 DEF OpToRel
    <2>3. QED BY <2>1, <2>2
<1>3. QED BY <1>2

\* One import back: an earlier instance, and the same function.
LEMMA ImportBack ==
    ASSUME LinkInv, OriginInv, NEW i \in DOMAIN insts, NEW f \in DOMAIN insts[i].funcaddrs, IsImport(i, f)
    PROVE  /\ Src(i, f) \in DOMAIN insts /\ Src(i, f) < i
           /\ SrcIndex(i, f) \in DOMAIN insts[Src(i, f)].funcaddrs
           /\ FnOf(Src(i, f), SrcIndex(i, f)) = FnOf(i, f)
<1>1. PICK k : k = FuncFrom(insts[i].program, f) OBVIOUS
<1>2. PICK b, name : b = Src(i, f) /\ name = insts[i].program.imports[k].name OBVIOUS
<1>3. b = insts[i].from[k] BY <1>1, <1>2 DEF Src
<1>4. Imported(i, k, FnOf(i, f))
    <2>1. Origin(i, f) BY DEF OriginInv, Origins
    <2>2. QED BY <1>1, <2>1 DEF Origin, FnOf
<1>5. b \in 1 .. (i - 1) /\ Hands(b, name, FnOf(i, f)) BY <1>2, <1>3, <1>4 DEF Imported
<1>6. b \in DOMAIN insts /\ b < i
    <2>1. DOMAIN insts = 1 .. Len(insts) /\ Len(insts) \in Nat BY StoreShape DEF LinkInv
    <2>2. QED BY <1>5, <2>1
<1>7. PICK p : p = insts[b].program OBVIOUS
<1>8. p \in Programs BY <1>6, <1>7, InstanceShape DEF LinkInv
<1>9. PICK e \in DOMAIN p.exports :
          /\ p.exports[e].name = name /\ p.exports[e].kind = "func"
          /\ p.exports[e].index \in DOMAIN insts[b].funcaddrs
          /\ functions[insts[b].funcaddrs[p.exports[e].index]] = FnOf(i, f)
    BY <1>5, <1>7 DEF Hands
<1>10. \A x \in DOMAIN p.exports : p.exports[x].name = name /\ p.exports[x].kind = "func" => x = e
    <2>1. ExportsDistinct(p) BY <1>8, LinkAssumption
    <2>2. QED BY <1>9, <2>1 DEF ExportsDistinct
<1>11. e = CHOOSE x \in DOMAIN p.exports : p.exports[x].name = name /\ p.exports[x].kind = "func"
    BY <1>9, <1>10
<1>12. SrcIndex(i, f) = p.exports[e].index
    BY <1>1, <1>2, <1>7, <1>11 DEF SrcIndex, ExportIndex
<1>13. QED BY <1>2, <1>6, <1>9, <1>12 DEF FnOf

\* Some function follows the imports, so Definition does.
LEMMA DefinitionUnfold ==
    ASSUME LinkInv, OriginInv
    PROVE  Definition = [i \in DOMAIN insts |-> DefAt(Definition, i)]
<1>. DEFINE D == DOMAIN insts
            F(i) == DOMAIN insts[i].funcaddrs
            G == [i \in D |-> [f \in F(i) |-> <<FnOf(i, f).inst, FnOf(i, f).func_idx>>]]
<1>1. ASSUME NEW i \in D, NEW f \in F(i) PROVE G[i][f] = DefAt(G, i)[f]
    <2>1. CASE IsImport(i, f)
        <3>1. /\ Src(i, f) \in D /\ SrcIndex(i, f) \in F(Src(i, f))
              /\ FnOf(Src(i, f), SrcIndex(i, f)) = FnOf(i, f)
            BY <1>1, <2>1, ImportBack
        <3>2. DefAt(G, i)[f] = G[Src(i, f)][SrcIndex(i, f)] BY <2>1 DEF DefAt
        <3>3. QED BY <3>1, <3>2
    <2>2. CASE ~IsImport(i, f)
        <3>1. Origin(i, f) BY <1>1 DEF OriginInv, Origins
        <3>2. FnOf(i, f) = [inst |-> i, func_idx |-> f] BY <2>2, <3>1 DEF Origin, FnOf
        <3>3. DefAt(G, i)[f] = <<i, f>> BY <2>2 DEF DefAt
        <3>4. G[i][f] = <<FnOf(i, f).inst, FnOf(i, f).func_idx>> BY <1>1
        <3>. HIDE DEF G
        <3>5. FnOf(i, f).inst = i /\ FnOf(i, f).func_idx = f BY <3>2
        <3>6. QED BY <3>3, <3>4, <3>5
    <2>3. QED BY <2>1, <2>2
<1>2. ASSUME NEW i \in D PROVE G[i] = DefAt(G, i)
    <2>1. G[i] = [f \in F(i) |-> G[i][f]] OBVIOUS
    <2>2. DefAt(G, i) = [f \in F(i) |-> DefAt(G, i)[f]] BY DEF DefAt
    <2>. HIDE DEF G, F
    <2>3. QED BY <1>1, <2>1, <2>2
<1>3. G = [i \in D |-> G[i]] OBVIOUS
<1>. HIDE DEF G
<1>4. G = [i \in D |-> DefAt(G, i)] BY <1>2, <1>3
<1>5. Definition = CHOOSE d : d = [i \in D |-> DefAt(d, i)]
    BY DEF Definition, DefAt, Src, SrcIndex
<1>6. QED
    <2>. HIDE DEF D
    <2>1. \E d : d = [i \in D |-> DefAt(d, i)] BY <1>4
    <2>2. Definition = [i \in D |-> DefAt(Definition, i)] BY <1>5, <2>1, Zenon
    <2>3. QED BY <2>2 DEF D

\* By least counterexample: the chain of every function ends at what the
\* function's own record names.
LEMMA ChainEnds ==
    ASSUME LinkInv, OriginInv
    PROVE  \A i \in DOMAIN insts : \A f \in DOMAIN insts[i].funcaddrs :
              Definition[i][f] = <<FnOf(i, f).inst, FnOf(i, f).func_idx>>
<1>. DEFINE Right(i) == \A f \in DOMAIN insts[i].funcaddrs :
                          Definition[i][f] = <<FnOf(i, f).inst, FnOf(i, f).func_idx>>
            S == {i \in DOMAIN insts : ~Right(i)}
<1>1. Definition = [i \in DOMAIN insts |-> DefAt(Definition, i)] BY DefinitionUnfold
<1>2. DOMAIN insts \subseteq Nat
    <2>1. DOMAIN insts = 1 .. Len(insts) /\ Len(insts) \in Nat BY StoreShape DEF LinkInv
    <2>2. QED BY <2>1
<1>3. ASSUME NEW i \in DOMAIN insts, \A j \in DOMAIN insts : j < i => Right(j) PROVE Right(i)
    <2>1. SUFFICES ASSUME NEW f \in DOMAIN insts[i].funcaddrs
                   PROVE  Definition[i][f] = <<FnOf(i, f).inst, FnOf(i, f).func_idx>>
        OBVIOUS
    <2>. HIDE DEF Right
    <2>2. Definition[i] = DefAt(Definition, i) BY <1>1, <1>3
    <2>3. CASE IsImport(i, f)
        <3>1. PICK b, x : b = Src(i, f) /\ x = SrcIndex(i, f) OBVIOUS
        <3>2. b \in DOMAIN insts /\ b < i /\ x \in DOMAIN insts[b].funcaddrs /\ FnOf(b, x) = FnOf(i, f)
            BY <1>3, <2>1, <2>3, <3>1, ImportBack
        <3>3. Definition[i][f] = Definition[b][x] BY <2>1, <2>2, <2>3, <3>1 DEF DefAt
        <3>4. Right(b) BY <1>3, <3>2
        <3>5. QED BY <3>2, <3>3, <3>4 DEF Right
    <2>4. CASE ~IsImport(i, f)
        <3>1. Origin(i, f) BY <1>3, <2>1 DEF OriginInv, Origins
        <3>2. FnOf(i, f) = [inst |-> i, func_idx |-> f] BY <2>4, <3>1 DEF Origin, FnOf
        <3>3. Definition[i][f] = <<i, f>> BY <2>1, <2>2, <2>4 DEF DefAt
        <3>4. QED BY <3>2, <3>3
    <2>5. QED BY <2>3, <2>4
<1>. HIDE DEF Right
<1>4. ASSUME S # {} PROVE FALSE
    <2>1. S \subseteq Nat BY <1>2
    <2>2. PICK i \in S : \A j \in S : i <= j BY <1>4, <2>1, LeastOf
    <2>3. ASSUME NEW j \in DOMAIN insts, j < i PROVE Right(j)
        <3>1. j \in Nat /\ i \in Nat BY <1>2
        <3>2. ~(i <= j) BY <2>3, <3>1
        <3>3. QED BY <2>2, <3>2
    <2>4. i \in DOMAIN insts /\ ~Right(i) OBVIOUS
    <2>5. QED BY <1>3, <2>3, <2>4
<1>5. \A i \in DOMAIN insts : Right(i) BY <1>4
<1>6. QED BY <1>5 DEF Right

(* Every function of every live instance is the definition its chain of     *)
(* imports and re-exports ends at, however long the chain and whichever     *)
(* loads have failed in between: resolveImports copies the function with    *)
(* the instance and index it has in the store.                              *)
THEOREM ImportsReachTheirDefinition == LinkSpec => []ImportsReachDefinition
<1>1. LinkInv /\ OriginInv => ImportsReachDefinition
    BY ChainEnds DEF ImportsReachDefinition, FnOf
<1>2. QED BY <1>1, OriginAlways, PTL
=============================================================================
