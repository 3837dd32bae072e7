--------------------------- MODULE CodeCacheProofs ---------------------------
(***************************************************************************)
(* The code cache for any number of processes, links, functions and        *)
(* upgrades.  Whatever the links of the processes, a save that comes to    *)
(* its end leaves a file that holds the code of every function of the      *)
(* process that saved.  When all processes have the same links, a file is  *)
(* the beginning of one image, cell by cell, however they interleave and   *)
(* wherever they die, and a reader takes from it the code of the function  *)
(* it puts it into.                                                        *)
(***************************************************************************)
EXTENDS CodeCache, SequenceTheorems, WellFoundedInduction, TLAPS

\* The store of a module loaded with the links l: what is copied when the
\* imports are registered, the function imports, the module's own functions.
Copied(l) == Len(LinkedSizes[l])
StoreSize(l) == Copied(l) + NumImports + Len(OwnSizes)
StoreAt(l, j) ==
    IF j <= Copied(l) THEN Linked(l, j)
    ELSE IF j <= Copied(l) + NumImports THEN Linked(l, j - Copied(l))
    ELSE Own(j - (Copied(l) + NumImports))

\* What is saved of it, and the file that results.
Saved(l) == Copied(l) + Len(OwnSizes)
CodeAt(l, i) == StoreAt(l, NumImports + i)
SizeAt(l, i) == CodeAt(l, i).size
IrAt(b, l, i) == predecode(CodeAt(l, i), b)
Image(b, l) == serialize(b, [i \in 1 .. Saved(l) |-> IrAt(b, l, i)])

\* Where function i ends in that file.
Ends(l) == CHOOSE g \in [0 .. Saved(l) -> Nat] :
               g[0] = 1 /\ \A i \in 1 .. Saved(l) : g[i] = g[i - 1] + 1 + SizeAt(l, i)
EndOf(l) == Ends(l)[Saved(l)]

Cell == {Header(b, n) : b \in Nat, n \in Nat} \cup {Length(n) : n \in Nat} \cup {Code(c) : c \in Unit}

\* A file that agrees with the image of the build b and the links l, as far
\* as both go.
Begins(data, b, l) ==
    /\ data \in Seq(Cell)
    /\ \A k \in 1 .. Len(data) : k <= EndOf(l) => data[k] = Image(b, l)[k]

\* A store that was loaded with l, its functions as predecode leaves them.
WasmFunction == [code : FunctionCode, ir : {NoIr} \cup Seq(Unit), ir_failed : BOOLEAN]
Fresh(f, b) == /\ f.ir \in {NoIr, predecode(f.code, b)}
               /\ f.ir_failed => predecode(f.code, b) = NoIr
FreshStore(funcs, l, b) ==
    /\ funcs \in Seq(WasmFunction) /\ Len(funcs) = StoreSize(l)
    /\ \A j \in 1 .. StoreSize(l) : funcs[j].code = StoreAt(l, j) /\ Fresh(funcs[j], b)

PCs == {"idle", "open", "read", "run", "create", "created", "write"}
Saving == {"create", "created", "write"}
IsProcess(me) ==
    /\ me = [pc |-> me.pc, funcs |-> me.funcs, hit |-> me.hit, len |-> me.len, out |-> me.out]
    /\ me.pc \in PCs /\ me.hit \in BOOLEAN /\ me.len \in Nat

\* A process of build b that loaded the module with links l.  What a hit put
\* into its store is another matter.
LoadedWith(me, l, b) ==
    /\ ~me.hit => FreshStore(me.funcs, l, b)
    /\ me.pc \in Saving => me.out = Image(b, l)

\* A process of build b, and the file f it finds.
ProcessOK(me, f, b) ==
    /\ me.pc = "idle" => me = Idle
    /\ me.pc # "idle" => \E l \in LinkSets : LoadedWith(me, l, b)
    /\ me.pc \in {"open", "read"} \cup Saving => ~me.hit
    /\ me.pc \in {"created", "write"} => f \in Seq(Cell)
    /\ me.pc = "write" => /\ me.len < Len(me.out) /\ me.len <= Len(f)
                          /\ \A k \in 1 .. me.len : f[k] = me.out[k]

OneWriter == \A p, q \in Procs : proc[p].pc = "write" /\ proc[q].pc = "write" => p = q

SaveInv ==
    /\ build \in Nat /\ starts \in Nat
    /\ proc = [p \in Procs |-> proc[p]]
    /\ file # NoFile => file \in Seq(Cell)
    /\ \A p \in Procs : IsProcess(proc[p]) /\ ProcessOK(proc[p], file, build)
    /\ OneWriter

\* When l is the only link set.
CodeIsOwn(f, b) == f.ir # NoIr => f.ir = predecode(f.code, b)
OneLinkInv(l) ==
    /\ file # NoFile => \E v \in Nat : Begins(file, v, l)
    /\ \A p \in Procs :
          /\ proc[p].pc = "read" => \E v \in Nat : Begins(file, v, l)
          /\ proc[p].pc \in {"created", "write"} => Begins(file, build, l)
          /\ \A i \in DOMAIN proc[p].funcs : CodeIsOwn(proc[p].funcs[i], build)

-----------------------------------------------------------------------------
\* Functions defined by recursion on natural numbers.

\* A set of numbers that is not empty has a least element.
LEMMA LeastOf ==
    ASSUME NEW S, S \subseteq Nat, S # {}
    PROVE  \E x \in S : \A y \in S : x <= y
<1>1. PICK x \in S : \A y \in S : ~(<<y, x>> \in OpToRel(<, Nat))
  BY NatLessThanWellFounded, WFMin
<1>2. \A y \in S : x <= y
  <2> TAKE y \in S
  <2>1. x \in Nat /\ y \in Nat OBVIOUS
  <2>2. ~(y < x) BY <1>1, <2>1 DEF OpToRel
  <2>3. QED BY <2>1, <2>2
<1>3. QED BY <1>2

\* g is the iteration of n steps on A, from a on.
Steps(A, n, step) == step \in [1 .. n -> [A -> A]]
Iteration(g, A, a, n, step) ==
    /\ g \in [0 .. n -> A]
    /\ g[0] = a /\ \A i \in 1 .. n : g[i] = step[i][g[i - 1]]

LEMMA IterationExists ==
    ASSUME NEW A, NEW a \in A, NEW n \in Nat, NEW step, Steps(A, n, step)
    PROVE  \E g : Iteration(g, A, a, n, step)
<1>0. step \in [1 .. n -> [A -> A]] BY DEF Steps
<1> DEFINE P(m) == \E g \in [0 .. m -> A] : g[0] = a /\ \A i \in 1 .. m : g[i] = step[i][g[i - 1]]
           S == {m \in 0 .. n : ~P(m)}
<1>1. ASSUME S # {} PROVE FALSE
  <2> HIDE DEF P
  <2>0. S \subseteq Nat OBVIOUS
  <2>1. PICK x \in S : \A y \in S : x <= y BY <1>1, <2>0, LeastOf
  <2>2. x \in 0 .. n /\ ~P(x) OBVIOUS
  <2>3. P(0)
    <3>1. [i \in 0 .. 0 |-> a] \in [0 .. 0 -> A] OBVIOUS
    <3>2. [i \in 0 .. 0 |-> a][0] = a OBVIOUS
    <3>3. \A i \in 1 .. 0 : FALSE OBVIOUS
    <3>4. QED BY <3>1, <3>2, <3>3 DEF P
  <2>4. x - 1 \in 0 .. n /\ x \in 1 .. n
    <3>1. x # 0 BY <2>2, <2>3
    <3>2. QED BY <3>1, <2>2
  <2>5. P(x - 1)
    <3>1. ~(x <= x - 1) BY <2>2
    <3>2. x - 1 \notin S BY <2>1, <3>1
    <3>3. QED BY <3>2, <2>4
  <2>6. PICK g \in [0 .. x - 1 -> A] : g[0] = a /\ \A i \in 1 .. x - 1 : g[i] = step[i][g[i - 1]] BY <2>5 DEF P
  <2> DEFINE h == [i \in 0 .. x |-> IF i = x THEN step[x][g[x - 1]] ELSE g[i]]
  <2>7. g[x - 1] \in A BY <2>4
  <2>8. step[x][g[x - 1]] \in A BY <1>0, <2>4, <2>7
  <2>9. h \in [0 .. x -> A] BY <2>4, <2>8
  <2>10. h[0] = a BY <2>4, <2>6
  <2>11. \A i \in 1 .. x : h[i] = step[i][h[i - 1]]
    <3> TAKE i \in 1 .. x
    <3>1. CASE i = x BY <3>1, <2>4
    <3>2. CASE i # x
      <4>1. i \in 1 .. x - 1 /\ i - 1 \in 0 .. x - 1 BY <3>2, <2>4
      <4>2. h[i] = g[i] /\ h[i - 1] = g[i - 1] BY <4>1, <2>4, <3>2
      <4>3. QED BY <4>1, <4>2, <2>6
    <3>3. QED BY <3>1, <3>2
  <2> HIDE DEF h
  <2>12. P(x) BY <2>9, <2>10, <2>11 DEF P
  <2>13. QED BY <2>12, <2>2
<1>2. n \in 0 .. n OBVIOUS
<1>3. P(n) BY <1>1, <1>2
<1>4. QED BY <1>3 DEF Iteration

\* What offset computes.
LEMMA OffsetUnfold ==
    ASSUME NEW data, Len(data) \in Nat
    PROVE  /\ DOMAIN offset(data) = 1 .. Len(data) + 1
           /\ \A i \in 1 .. Len(data) + 1 :
                  offset(data)[i] = IF i = 1 THEN 2
                                    ELSE IF offset(data)[i - 1] > Len(data) THEN Len(data) + 1
                                    ELSE offset(data)[i - 1] + 1 + AsLength(data[offset(data)[i - 1]])
<1> DEFINE n == Len(data) + 1
           E(g, i) == IF i = 1 THEN 2
                      ELSE IF g[i - 1] > Len(data) THEN Len(data) + 1
                      ELSE g[i - 1] + 1 + AsLength(data[g[i - 1]])
           P(m) == \E g : g = [i \in 1 .. m |-> E(g, i)]
           S == {m \in 0 .. n : ~P(m)}
<1>1. ASSUME S # {} PROVE FALSE
  <2> HIDE DEF P
  <2>0. S \subseteq Nat OBVIOUS
  <2>1. PICK x \in S : \A y \in S : x <= y BY <1>1, <2>0, LeastOf
  <2>2. x \in 0 .. n /\ ~P(x) OBVIOUS
  <2>3. P(0)
    <3>1. 1 .. 0 = {} OBVIOUS
    <3> DEFINE g == [i \in 1 .. 0 |-> 0]
    <3>2. g = [i \in 1 .. 0 |-> E(g, i)] BY <3>1
    <3> HIDE DEF g
    <3>3. QED BY <3>2 DEF P
  <2>4. x - 1 \in 0 .. n /\ x \in 1 .. n
    <3>1. x # 0 BY <2>2, <2>3
    <3>2. QED BY <3>1, <2>2
  <2>5. P(x - 1)
    <3>1. ~(x <= x - 1) BY <2>2
    <3>2. x - 1 \notin S BY <2>1, <3>1
    <3>3. QED BY <3>2, <2>4
  <2>6. PICK g : g = [i \in 1 .. x - 1 |-> E(g, i)] BY <2>5 DEF P
  <2> DEFINE h == [i \in 1 .. x |-> IF i = x THEN E(g, x) ELSE g[i]]
  <2>7. ASSUME NEW i \in 1 .. x PROVE h[i] = E(h, i)
    <3>1. i # 1 => i - 1 \in 1 .. x - 1 BY <2>4
    <3>2. i # 1 => h[i - 1] = g[i - 1] BY <3>1, <2>4
    <3>3. CASE i = x BY <3>2, <3>3
    <3>4. CASE i # x
      <4>1. i \in 1 .. x - 1 BY <3>4, <2>4
      <4>2. h[i] = g[i] BY <3>4
      <4>3. g[i] = E(g, i) BY <4>1, <2>6
      <4>4. QED BY <4>2, <4>3, <3>2
    <3>5. QED BY <3>3, <3>4
  <2>8. DOMAIN h = 1 .. x /\ h = [i \in 1 .. x |-> h[i]] OBVIOUS
  <2> HIDE DEF h
  <2>9. h = [i \in 1 .. x |-> E(h, i)] BY <2>7, <2>8
  <2>10. P(x) BY <2>9 DEF P
  <2>11. QED BY <2>10, <2>2
<1>2. n \in 0 .. n OBVIOUS
<1>3. P(n) BY <1>1, <1>2
<1>4. offset(data) = CHOOSE g : g = [i \in 1 .. n |-> E(g, i)]
  BY DEF offset
<1>5. offset(data) = [i \in 1 .. n |-> E(offset(data), i)]
  <2> HIDE DEF E, n
  <2> QED BY <1>3, <1>4, Zenon
<1> HIDE DEF n
<1>6. DOMAIN offset(data) = 1 .. n BY <1>5
<1>7. \A i \in 1 .. n : offset(data)[i] = E(offset(data), i) BY <1>5
<1>8. QED BY <1>6, <1>7 DEF n

-----------------------------------------------------------------------------
\* The format.

\* The constants.
LEMMA Basics ==
    /\ NumImports \in Nat /\ Len(OwnSizes) \in Nat /\ DOMAIN OwnSizes = 1 .. Len(OwnSizes)
    /\ \A i \in 1 .. Len(OwnSizes) : OwnSizes[i] \in Nat
    /\ \A l \in LinkSets :
          /\ Copied(l) \in Nat /\ NumImports <= Copied(l) /\ DOMAIN LinkedSizes[l] = 1 .. Copied(l)
          /\ \A i \in 1 .. Copied(l) : LinkedSizes[l][i] \in Nat
          /\ Saved(l) \in Nat /\ StoreSize(l) \in Nat /\ StoreSize(l) = NumImports + Saved(l)
<1>1. NumImports \in Nat /\ OwnSizes \in Seq(Nat) BY CacheAssumption
<1>2. Len(OwnSizes) \in Nat /\ DOMAIN OwnSizes = 1 .. Len(OwnSizes)
      /\ \A k \in 1 .. Len(OwnSizes) : OwnSizes[k] \in Nat
  BY <1>1
<1>3. ASSUME NEW l \in LinkSets
      PROVE  /\ Copied(l) \in Nat /\ NumImports <= Copied(l) /\ DOMAIN LinkedSizes[l] = 1 .. Copied(l)
             /\ \A i \in 1 .. Copied(l) : LinkedSizes[l][i] \in Nat
  <2>1. LinkedSizes[l] \in Seq(Nat) /\ Len(LinkedSizes[l]) >= NumImports BY CacheAssumption
  <2> DEFINE s == LinkedSizes[l]
  <2>2. s \in Seq(Nat) BY <2>1
  <2> HIDE DEF s
  <2>3. Len(s) \in Nat /\ DOMAIN s = 1 .. Len(s) /\ \A i \in 1 .. Len(s) : s[i] \in Nat BY <2>2
  <2>4. QED BY <1>1, <2>1, <2>3 DEF s, Copied
<1>4. \A l \in LinkSets : Saved(l) \in Nat /\ StoreSize(l) \in Nat /\ StoreSize(l) = NumImports + Saved(l)
  BY <1>1, <1>2, <1>3 DEF Saved, StoreSize
<1>5. QED BY <1>1, <1>2, <1>3, <1>4

\* The functions of a store.
LEMMA StoreCode ==
    ASSUME NEW l \in LinkSets, NEW j \in 1 .. StoreSize(l)
    PROVE  StoreAt(l, j) \in FunctionCode
<1>0. /\ NumImports \in Nat /\ Copied(l) \in Nat /\ NumImports <= Copied(l)
      /\ \A i \in 1 .. Copied(l) : LinkedSizes[l][i] \in Nat
      /\ Len(OwnSizes) \in Nat /\ \A i \in 1 .. Len(OwnSizes) : OwnSizes[i] \in Nat
  BY Basics
<1>1. \A i \in 1 .. Copied(l) : Linked(l, i) \in FunctionCode BY <1>0 DEF Linked, FunctionCode
<1>2. \A i \in 1 .. Len(OwnSizes) : Own(i) \in FunctionCode BY <1>0 DEF Own, FunctionCode
<1>3. CASE j <= Copied(l) BY <1>0, <1>1, <1>3 DEF StoreAt
<1>4. CASE ~(j <= Copied(l)) /\ j <= Copied(l) + NumImports
  <2>1. j - Copied(l) \in 1 .. Copied(l) BY <1>0, <1>4
  <2>2. QED BY <1>1, <1>4, <2>1 DEF StoreAt
<1>5. CASE ~(j <= Copied(l)) /\ ~(j <= Copied(l) + NumImports)
  <2>1. j - (Copied(l) + NumImports) \in 1 .. Len(OwnSizes) BY <1>0, <1>5 DEF StoreSize
  <2>2. QED BY <1>2, <1>5, <2>1 DEF StoreAt
<1>6. QED BY <1>3, <1>4, <1>5

LEMMA SavedCode ==
    ASSUME NEW l \in LinkSets, NEW i \in 1 .. Saved(l)
    PROVE  CodeAt(l, i) \in FunctionCode /\ SizeAt(l, i) \in Nat /\ CodeAt(l, i).size = SizeAt(l, i)
<1>1. NumImports + i \in 1 .. StoreSize(l) BY Basics
<1>2. CodeAt(l, i) \in FunctionCode BY <1>1, StoreCode DEF CodeAt
<1>3. QED BY <1>2 DEF SizeAt, FunctionCode

\* Predecoded code is a sequence, and not null.
LEMMA PredecodeIs ==
    ASSUME NEW c \in FunctionCode, NEW b \in Nat
    PROVE  /\ c.size \in Nat
           /\ c.size = 0 => predecode(c, b) = NoIr
           /\ c.size # 0 => /\ predecode(c, b) \in Seq(Unit) /\ predecode(c, b) # NoIr
                            /\ Len(predecode(c, b)) = c.size
                            /\ DOMAIN predecode(c, b) = 1 .. c.size
           /\ predecode(c, b) \in {NoIr} \cup Seq(Unit)
<1>1. c.size \in Nat BY DEF FunctionCode
<1>2. c.size = 0 => predecode(c, b) = NoIr BY DEF predecode
<1>3. ASSUME c.size # 0 PROVE /\ predecode(c, b) \in Seq(Unit) /\ predecode(c, b) # NoIr
                              /\ Len(predecode(c, b)) = c.size
                              /\ DOMAIN predecode(c, b) = 1 .. c.size
  <2>1. predecode(c, b) = [k \in 1 .. c.size |-> <<c, b, k>>] BY <1>3 DEF predecode
  <2>2. \A k \in 1 .. c.size : <<c, b, k>> \in Unit BY <1>1 DEF Unit
  <2>3. predecode(c, b) \in Seq(Unit) /\ Len(predecode(c, b)) = c.size
        /\ DOMAIN predecode(c, b) = 1 .. c.size
    BY <2>1, <2>2, <1>1
  <2>4. QED BY <2>3, CacheAssumption
<1>4. QED BY <1>1, <1>2, <1>3

\* Ends(l) is what its definition says, and grows.
LEMMA EndsIs ==
    ASSUME NEW l \in LinkSets
    PROVE  /\ Ends(l) \in [0 .. Saved(l) -> Nat] /\ Ends(l)[0] = 1
           /\ \A i \in 1 .. Saved(l) : Ends(l)[i] = Ends(l)[i - 1] + 1 + SizeAt(l, i)
<1> DEFINE step == [i \in 1 .. Saved(l) |-> [x \in Nat |-> x + 1 + SizeAt(l, i)]]
           Q(g) == g[0] = 1 /\ \A i \in 1 .. Saved(l) : g[i] = g[i - 1] + 1 + SizeAt(l, i)
<1>1. Saved(l) \in Nat /\ \A i \in 1 .. Saved(l) : SizeAt(l, i) \in Nat BY Basics, SavedCode
<1>2. step \in [1 .. Saved(l) -> [Nat -> Nat]] BY <1>1
<1>3. \A i \in 1 .. Saved(l) : \A x \in Nat : step[i][x] = x + 1 + SizeAt(l, i) OBVIOUS
<1> HIDE DEF step
<1>4. PICK g \in [0 .. Saved(l) -> Nat] : g[0] = 1 /\ \A i \in 1 .. Saved(l) : g[i] = step[i][g[i - 1]]
  <2>1. Steps(Nat, Saved(l), step) BY <1>2 DEF Steps
  <2>2. 1 \in Nat /\ Saved(l) \in Nat BY <1>1
  <2>3. \E f : Iteration(f, Nat, 1, Saved(l), step) BY <2>1, <2>2, IterationExists, Zenon
  <2>4. QED BY <2>3 DEF Iteration
<1>5. \A i \in 1 .. Saved(l) : g[i - 1] \in Nat BY <1>1
<1>6. Q(g) BY <1>3, <1>4, <1>5
<1>7. Ends(l) = CHOOSE f \in [0 .. Saved(l) -> Nat] : Q(f) BY DEF Ends
<1> HIDE DEF Q
<1>8. Ends(l) \in [0 .. Saved(l) -> Nat] /\ Q(Ends(l)) BY <1>6, <1>7
<1>9. QED BY <1>8 DEF Q

LEMMA EndsGrow ==
    ASSUME NEW l \in LinkSets
    PROVE  /\ \A i \in 0 .. Saved(l) : Ends(l)[i] \in Nat /\ Ends(l)[i] >= i + 1
           /\ EndOf(l) \in Nat /\ EndOf(l) >= 1
           /\ \A i, j \in 0 .. Saved(l) : i <= j => Ends(l)[i] <= Ends(l)[j]
<1>0. Saved(l) \in Nat /\ \A i \in 1 .. Saved(l) : SizeAt(l, i) \in Nat BY Basics, SavedCode
<1>1. /\ \A i \in 0 .. Saved(l) : Ends(l)[i] \in Nat
      /\ Ends(l)[0] = 1
      /\ \A i \in 1 .. Saved(l) : Ends(l)[i] = Ends(l)[i - 1] + 1 + SizeAt(l, i)
  BY EndsIs
<1>2. \A i \in 0 .. Saved(l) : Ends(l)[i] >= i + 1
  <2> DEFINE S == {i \in 0 .. Saved(l) : ~(Ends(l)[i] >= i + 1)}
  <2>1. ASSUME S # {} PROVE FALSE
    <3>1. S \subseteq Nat BY <1>0
    <3>2. PICK x \in S : \A y \in S : x <= y BY <2>1, <3>1, LeastOf
    <3>3. x \in 1 .. Saved(l) BY <1>0, <1>1
    <3>4. x - 1 \in 0 .. Saved(l) /\ ~(x <= x - 1) BY <3>3, <1>0
    <3>5. Ends(l)[x - 1] >= x BY <3>2, <3>4, <3>3
    <3>6. Ends(l)[x] = Ends(l)[x - 1] + 1 + SizeAt(l, x) /\ SizeAt(l, x) \in Nat /\ Ends(l)[x - 1] \in Nat
      BY <3>3, <3>4, <1>0, <1>1
    <3>7. Ends(l)[x] >= x + 1 BY <3>3, <3>5, <3>6
    <3>8. QED BY <3>7
  <2>2. QED BY <2>1
<1>3. ASSUME NEW i \in 0 .. Saved(l) PROVE \A j \in 0 .. Saved(l) : i <= j => Ends(l)[i] <= Ends(l)[j]
  <2> DEFINE S == {j \in 0 .. Saved(l) : i <= j /\ ~(Ends(l)[i] <= Ends(l)[j])}
  <2>1. ASSUME S # {} PROVE FALSE
    <3>1. S \subseteq Nat BY <1>0
    <3>2. PICK x \in S : \A y \in S : x <= y BY <2>1, <3>1, LeastOf
    <3>3. x \in 0 .. Saved(l) /\ i <= x /\ ~(Ends(l)[i] <= Ends(l)[x]) OBVIOUS
    <3>4. x # i BY <3>3, <1>1
    <3>5. x \in 1 .. Saved(l) /\ x - 1 \in 0 .. Saved(l) /\ i <= x - 1 /\ ~(x <= x - 1)
      BY <3>3, <3>4, <1>0
    <3>6. Ends(l)[i] <= Ends(l)[x - 1] BY <3>2, <3>5
    <3>7. Ends(l)[x] = Ends(l)[x - 1] + 1 + SizeAt(l, x) /\ SizeAt(l, x) \in Nat /\ Ends(l)[x - 1] \in Nat
          /\ Ends(l)[i] \in Nat /\ Ends(l)[x] \in Nat
      BY <3>5, <3>3, <1>0, <1>1
    <3>8. QED BY <3>3, <3>6, <3>7
  <2>2. QED BY <2>1
<1>4. EndOf(l) \in Nat /\ EndOf(l) >= 1
  <2>1. Saved(l) \in 0 .. Saved(l) BY <1>0
  <2>2. QED BY <2>1, <1>0, <1>1, <1>2 DEF EndOf
<1>5. QED BY <1>1, <1>2, <1>3, <1>4

\* Cells are what they are.
LEMMA CellFacts ==
    /\ \A b, n : /\ b \in Nat /\ n \in Nat => Header(b, n) \in Cell
                 /\ Header(b, n).version = b /\ Header(b, n).num_funcs = n
    /\ \A n : (n \in Nat => Length(n) \in Cell) /\ AsLength(Length(n)) = n
    /\ \A c : (c \in Unit => Code(c) \in Cell) /\ AsCode(Code(c)) = c
<1>1. \A b, n : /\ b \in Nat /\ n \in Nat => Header(b, n) \in Cell
                /\ Header(b, n).version = b /\ Header(b, n).num_funcs = n
  BY DEF Cell, Header
<1>2. \A n : (n \in Nat => Length(n) \in Cell) /\ AsLength(Length(n)) = n
  BY DEF Cell, Length, AsLength
<1>3. \A c : (c \in Unit => Code(c) \in Cell) /\ AsCode(Code(c)) = c
  BY DEF Cell, Code, AsCode
<1>4. QED BY <1>1, <1>2, <1>3

LEMMA SerializeOneIs ==
    ASSUME NEW ir \in {NoIr} \cup Seq(Unit)
    PROVE  LET n == IF ir = NoIr THEN 0 ELSE Len(ir)
           IN  /\ serializeOne(ir) \in Seq(Cell) /\ n \in Nat
               /\ Len(serializeOne(ir)) = 1 + n
               /\ serializeOne(ir)[1] = Length(n)
               /\ \A k \in 1 .. n : serializeOne(ir)[1 + k] = Code(ir[k])
<1>1. CASE ir = NoIr
  <2>1. serializeOne(ir) = <<Length(0)>> BY <1>1 DEF serializeOne
  <2>2. Length(0) \in Cell BY CellFacts
  <2>3. QED BY <1>1, <2>1, <2>2
<1>2. CASE ir # NoIr
  <2>1. ir \in Seq(Unit) BY <1>2
  <2> DEFINE s == [k \in DOMAIN ir |-> Code(ir[k])]
             h == <<Length(Len(ir))>>
  <2>2. Len(ir) \in Nat /\ DOMAIN ir = 1 .. Len(ir) /\ \A k \in 1 .. Len(ir) : ir[k] \in Unit
    BY <2>1
  <2>3. s = [k \in 1 .. Len(ir) |-> Code(ir[k])] /\ \A k \in 1 .. Len(ir) : Code(ir[k]) \in Cell
    BY <2>2, CellFacts
  <2>4. s \in Seq(Cell) /\ Len(s) = Len(ir) /\ \A k \in 1 .. Len(ir) : s[k] = Code(ir[k])
    BY <2>2, <2>3
  <2>5. h \in Seq(Cell) /\ Len(h) = 1 /\ h[1] = Length(Len(ir))
    BY <2>2, CellFacts
  <2>6. serializeOne(ir) = h \o s BY <1>2 DEF serializeOne
  <2> HIDE DEF h, s
  <2>7. /\ h \o s \in Seq(Cell) /\ Len(h \o s) = 1 + Len(ir)
        /\ (h \o s)[1] = h[1]
        /\ \A k \in 1 .. Len(ir) : (h \o s)[1 + k] = s[k]
    <3>1. \A k \in 1 .. Len(ir) : 1 + k \in 1 .. Len(h) + Len(s) /\ ~(1 + k <= Len(h)) /\ 1 + k - Len(h) = k
      BY <2>2, <2>4, <2>5
    <3>2. 1 \in 1 .. Len(h) + Len(s) /\ 1 <= Len(h) /\ Len(h) + Len(s) = 1 + Len(ir)
      BY <2>2, <2>4, <2>5
    <3>3. /\ h \o s \in Seq(Cell) /\ Len(h \o s) = Len(h) + Len(s)
          /\ \A i \in 1 .. Len(h) + Len(s) : (h \o s)[i] = IF i <= Len(h) THEN h[i] ELSE s[i - Len(h)]
      <4>1. h \in Seq(Cell) /\ s \in Seq(Cell) BY <2>4, <2>5
      <4>2. QED BY <4>1, ConcatProperties, Zenon
    <3>4. (h \o s)[1] = h[1] BY <3>2, <3>3
    <3>5. ASSUME NEW k \in 1 .. Len(ir) PROVE (h \o s)[1 + k] = s[k]
      <4>1. (h \o s)[1 + k] = s[1 + k - Len(h)] BY <3>1, <3>3
      <4>2. QED BY <4>1, <3>1
    <3>6. QED BY <3>2, <3>3, <3>4, <3>5
  <2>8. QED BY <1>2, <2>2, <2>4, <2>5, <2>6, <2>7
<1>3. QED BY <1>1, <1>2

\* f[i] is the first i of n sequences over S, one after the other.
Parts(ss, S, n) == ss \in [1 .. n -> Seq(S)]
Accumulates(f, S, n, ss) ==
    /\ f \in [0 .. n -> Seq(S)]
    /\ f[0] = <<>> /\ f[n] = FlattenSeq(ss)
    /\ \A i \in 1 .. n : f[i] = f[i - 1] \o ss[i]

LEMMA FlattenIs ==
    ASSUME NEW S, NEW n \in Nat, NEW ss, Parts(ss, S, n)
    PROVE  \E f : Accumulates(f, S, n, ss)
<1>0. Len(ss) = n /\ ss \in [1 .. n -> Seq(S)] BY DEF Parts
<1> DEFINE step == [i \in 1 .. n |-> [x \in Seq(S) |-> x \o ss[i]]]
<1>1. \A i \in 1 .. n : \A x \in Seq(S) : x \o ss[i] \in Seq(S) BY <1>0
<1>2. step \in [1 .. n -> [Seq(S) -> Seq(S)]] BY <1>1
<1>3. \A i \in 1 .. n : \A x \in Seq(S) : step[i][x] = x \o ss[i] OBVIOUS
<1> HIDE DEF step
<1>4. PICK f : Iteration(f, Seq(S), << >>, n, step)
  <2>1. Steps(Seq(S), n, step) BY <1>2 DEF Steps
  <2>2. << >> \in Seq(S) OBVIOUS
  <2>3. QED BY <2>1, <2>2, IterationExists, Zenon
<1>5. f \in [0 .. n -> Seq(S)] /\ f[0] = << >> BY <1>4 DEF Iteration
<1>6. \A i \in 1 .. n : f[i - 1] \in Seq(S) /\ f[i] = step[i][f[i - 1]]
  BY <1>4, <1>5 DEF Iteration
<1>7. \A i \in 1 .. n : f[i] = f[i - 1] \o ss[i] BY <1>3, <1>6
<1>8. CASE n = 0
  <2>1. ss = <<>> BY <1>0, <1>8
  <2>2. FlattenSeq(ss) = ss BY <1>0, <1>8 DEF FlattenSeq
  <2>3. QED BY <1>5, <1>7, <1>8, <2>1, <2>2 DEF Accumulates
<1>9. CASE n # 0
  <2> DEFINE g == [i \in 1 .. n |-> f[i]]
             E(x, i) == IF i = 1 THEN ss[i] ELSE x[i - 1] \o ss[i]
             F == CHOOSE x : x = [i \in 1 .. n |-> E(x, i)]
  <2>1. ASSUME NEW i \in 1 .. n PROVE g[i] = E(g, i)
    <3>1. CASE i = 1
      <4>0a. 1 - 1 = 0 OBVIOUS
      <4>0b. 1 \in 1 .. n BY <3>1
      <4>0. f[1] = f[1 - 1] \o ss[1] /\ 1 - 1 = 0 BY <4>0a, <4>0b, <1>7, Zenon
      <4>1. f[1] = <<>> \o ss[1] BY <4>0, <1>5, Zenon
      <4>2. ss[1] \in Seq(S) BY <1>0, <3>1
      <4>3. <<>> \o ss[1] = ss[1] BY <4>2
      <4>4. QED BY <3>1, <4>1, <4>3
    <3>2. CASE i # 1
      <4>1. i - 1 \in 1 .. n BY <3>2
      <4>2. g[i - 1] = f[i - 1] BY <4>1
      <4>3. QED BY <3>2, <4>2, <1>7
    <3>3. QED BY <3>1, <3>2
  <2>2. g = [i \in 1 .. n |-> g[i]] OBVIOUS
  <2> HIDE DEF g
  <2>3. g = [i \in 1 .. n |-> E(g, i)] BY <2>1, <2>2
  <2>4. F = [i \in 1 .. n |-> E(F, i)]
    <3> HIDE DEF E
    <3> QED BY <2>3, Zenon
  <2>5. \A i \in 1 .. n : F[i] = E(F, i)
    <3> HIDE DEF F, E
    <3> QED BY <2>4
  <2>6. FlattenSeq(ss) = F[n] BY <1>0, <1>9 DEF FlattenSeq
  <2> HIDE DEF F
  <2>7. \A i \in 1 .. n : F[i] = f[i]
    <3> DEFINE T == {i \in 1 .. n : F[i] # f[i]}
    <3>1. ASSUME T # {} PROVE FALSE
      <4>1. T \subseteq Nat OBVIOUS
      <4>2. PICK x \in T : \A y \in T : x <= y BY <3>1, <4>1, LeastOf
      <4>3. x \in 1 .. n /\ F[x] # f[x] OBVIOUS
      <4>4. g[x] = f[x] /\ g[x] = E(g, x) /\ F[x] = E(F, x)
        BY <4>3, <2>1, <2>5 DEF g
      <4>5. x # 1 BY <4>3, <4>4
      <4>6. x - 1 \in 1 .. n /\ ~(x <= x - 1) BY <4>3, <4>5
      <4>7. F[x - 1] = f[x - 1] BY <4>6, <4>2
      <4>8. g[x - 1] = f[x - 1] BY <4>6 DEF g
      <4>9. QED BY <4>3, <4>4, <4>5, <4>7, <4>8
    <3>2. QED BY <3>1
  <2>8. n \in 1 .. n BY <1>9
  <2>9. f[n] = FlattenSeq(ss) BY <2>6, <2>7, <2>8
  <2>10. QED BY <1>5, <1>7, <2>9 DEF Accumulates
<1>10. QED BY <1>8, <1>9

\* Where the cells of a serialised file are.
LEMMA SerializeIs ==
    ASSUME NEW b \in Nat, NEW l \in LinkSets, NEW irs \in [1 .. Saved(l) -> {NoIr} \cup Seq(Unit)],
           \A i \in 1 .. Saved(l) : SizeAt(l, i) = IF irs[i] = NoIr THEN 0 ELSE Len(irs[i])
    PROVE  /\ serialize(b, irs) \in Seq(Cell)
           /\ Len(serialize(b, irs)) = Ends(l)[Saved(l)]
           /\ serialize(b, irs)[1] = Header(b, Saved(l))
           /\ \A i \in 1 .. Saved(l) :
                  /\ serialize(b, irs)[Ends(l)[i - 1] + 1] = Length(SizeAt(l, i))
                  /\ \A k \in 1 .. SizeAt(l, i) : serialize(b, irs)[Ends(l)[i - 1] + 1 + k] = Code(irs[i][k])
<1> DEFINE ss == [i \in 1 .. Saved(l) |-> serializeOne(irs[i])]
           h == <<Header(b, Saved(l))>>
<1>0. Saved(l) \in Nat /\ \A i \in 1 .. Saved(l) : SizeAt(l, i) \in Nat BY Basics, SavedCode
<1>1. ASSUME NEW i \in 1 .. Saved(l)
      PROVE  /\ ss[i] \in Seq(Cell) /\ Len(ss[i]) = 1 + SizeAt(l, i) /\ ss[i][1] = Length(SizeAt(l, i))
             /\ \A k \in 1 .. SizeAt(l, i) : ss[i][1 + k] = Code(irs[i][k])
  <2>1. irs[i] \in {NoIr} \cup Seq(Unit) OBVIOUS
  <2>2. ss[i] = serializeOne(irs[i]) OBVIOUS
  <2> HIDE DEF ss
  <2>3. QED BY <2>1, <2>2, SerializeOneIs
<1>2. ss \in [1 .. Saved(l) -> Seq(Cell)]
  <2>1. \A i \in 1 .. Saved(l) : serializeOne(irs[i]) \in Seq(Cell) BY <1>1
  <2>2. QED BY <2>1
<1>3. h \in Seq(Cell) /\ Len(h) = 1 /\ h[1] = Header(b, Saved(l)) BY <1>0, CellFacts
<1>4. serialize(b, irs) = h \o FlattenSeq(ss)
  <2>1. DOMAIN irs = 1 .. Saved(l) /\ Len(irs) = Saved(l) BY <1>0
  <2>2. QED BY <2>1 DEF serialize
<1> HIDE DEF h, ss
<1>a. PICK f : Accumulates(f, Cell, Saved(l), ss)
  <2>1. Parts(ss, Cell, Saved(l)) BY <1>2 DEF Parts
  <2>2. QED BY <1>0, <2>1, FlattenIs
<1>5. /\ f \in [0 .. Saved(l) -> Seq(Cell)]
      /\ f[0] = <<>> /\ f[Saved(l)] = FlattenSeq(ss)
      /\ \A i \in 1 .. Saved(l) : f[i] = f[i - 1] \o ss[i]
  BY <1>a DEF Accumulates
\* What is written after i functions.
<1> DEFINE w(i) == h \o f[i]
           Good(i) == /\ Len(w(i)) = Ends(l)[i] /\ w(i)[1] = Header(b, Saved(l))
                      /\ \A j \in 1 .. i :
                            /\ w(i)[Ends(l)[j - 1] + 1] = Length(SizeAt(l, j))
                            /\ \A k \in 1 .. SizeAt(l, j) : w(i)[Ends(l)[j - 1] + 1 + k] = Code(irs[j][k])
<1>6. \A i \in 0 .. Saved(l) : w(i) \in Seq(Cell) /\ f[i] \in Seq(Cell)
  BY <1>3, <1>5
<1>7. Good(0)
  <2>1. w(0) = h BY <1>3, <1>5
  <2>2. Ends(l)[0] = 1 BY EndsIs
  <2>3. \A j \in 1 .. 0 : FALSE OBVIOUS
  <2>4. QED BY <1>3, <2>1, <2>2, <2>3
<1>8. ASSUME NEW i \in 1 .. Saved(l), Good(i - 1) PROVE Good(i)
  <2>0. i - 1 \in 0 .. Saved(l) /\ i \in 0 .. Saved(l) /\ SizeAt(l, i) \in Nat BY <1>0
  <2>1. w(i) = w(i - 1) \o ss[i]
    <3>1. f[i] = f[i - 1] \o ss[i] BY <1>5
    <3>2. f[i - 1] \in Seq(Cell) /\ ss[i] \in Seq(Cell) BY <1>1, <1>6, <2>0
    <3> DEFINE x == f[i - 1]
               y == ss[i]
    <3>3. h \in Seq(Cell) /\ x \in Seq(Cell) /\ y \in Seq(Cell) BY <1>3, <3>2
    <3>4. h \o (x \o y) = (h \o x) \o y
      <4> HIDE DEF x, y
      <4>1. (h \o x) \o y = h \o (x \o y) BY <3>3, ConcatAssociative, SMTT(30)
      <4>2. QED BY <4>1
    <3>5. QED BY <3>1, <3>4
  <2>2. /\ w(i - 1) \in Seq(Cell) /\ ss[i] \in Seq(Cell) /\ Len(ss[i]) = 1 + SizeAt(l, i)
        /\ ss[i][1] = Length(SizeAt(l, i)) /\ \A k \in 1 .. SizeAt(l, i) : ss[i][1 + k] = Code(irs[i][k])
    BY <1>1, <1>6, <2>0
  <2> DEFINE v == w(i - 1)
             t == ss[i]
             m == Ends(l)[i - 1]
             z == SizeAt(l, i)
  <2>3. m \in Nat /\ m >= 1 /\ Ends(l)[i] = m + 1 + z /\ Len(v) = m /\ Len(t) = 1 + z /\ z \in Nat
    BY <1>8, <2>0, <2>2, EndsIs, EndsGrow
  <2> HIDE DEF w, z
  <2>4. /\ Len(v \o t) = Len(v) + Len(t)
        /\ \A k \in 1 .. Len(v) + Len(t) : (v \o t)[k] = IF k <= Len(v) THEN v[k] ELSE t[k - Len(v)]
    <3>1. v \in Seq(Cell) /\ t \in Seq(Cell) BY <2>2
    <3> HIDE DEF v, t
    <3>2. QED BY <3>1, ConcatProperties, Zenon
  <2> DEFINE u == w(i)
  <2>5. /\ Len(u) = Len(v) + Len(t)
        /\ \A k \in 1 .. Len(v) + Len(t) : u[k] = IF k <= Len(v) THEN v[k] ELSE t[k - Len(v)]
    BY <2>1, <2>4
  <2> HIDE DEF u, v, t, m
  <2>6. Len(u) = Ends(l)[i] BY <2>3, <2>5
  <2>7. \A k \in 1 .. m : u[k] = v[k]
    <3> TAKE k \in 1 .. m
    <3>1. k \in 1 .. Len(v) + Len(t) /\ k <= Len(v) BY <2>3
    <3>2. QED BY <3>1, <2>5
  <2>8. \A k \in 1 .. 1 + z : u[m + k] = t[k]
    <3> TAKE k \in 1 .. 1 + z
    <3>1. m + k \in 1 .. Len(v) + Len(t) /\ ~(m + k <= Len(v)) /\ (m + k) - Len(v) = k
      BY <2>3
    <3> DEFINE q == m + k
    <3> HIDE DEF q
    <3>2. u[q] = t[q - Len(v)]
      <4>1. q \in 1 .. Len(v) + Len(t) /\ ~(q <= Len(v)) BY <3>1 DEF q
      <4>2. QED BY <4>1, <2>5
    <3>3. q - Len(v) = k BY <3>1 DEF q
    <3>4. u[q] = t[k] BY <3>2, <3>3
    <3>5. QED BY <3>4 DEF q
  <2>9. u[1] = Header(b, Saved(l))
    <3>1. 1 \in 1 .. m BY <2>3
    <3>2. QED BY <1>8, <3>1, <2>7 DEF v
  <2>10. ASSUME NEW j \in 1 .. i
         PROVE  /\ u[Ends(l)[j - 1] + 1] = Length(SizeAt(l, j))
                /\ \A k \in 1 .. SizeAt(l, j) : u[Ends(l)[j - 1] + 1 + k] = Code(irs[j][k])
    <3>1. CASE j = i
      <4>1. u[m + 1] = t[1] BY <2>3, <2>8
      <4>2. ASSUME NEW k \in 1 .. z PROVE u[m + 1 + k] = t[1 + k]
        <5>1. 1 + k \in 1 .. 1 + z /\ m + (1 + k) = m + 1 + k BY <2>3
        <5>2. u[m + (1 + k)] = t[1 + k] BY <5>1, <2>8
        <5>3. QED BY <5>1, <5>2
      <4>3. QED BY <3>1, <4>1, <4>2, <2>2 DEF m, t, z
    <3>2. CASE j # i
      <4>1. j \in 1 .. i - 1 /\ j \in 1 .. Saved(l) /\ j \in 0 .. Saved(l) /\ j - 1 \in 0 .. Saved(l) /\ j <= i - 1
        BY <3>2, <1>0
      <4>2. /\ Ends(l)[j - 1] \in Nat /\ SizeAt(l, j) \in Nat
            /\ Ends(l)[j] = Ends(l)[j - 1] + 1 + SizeAt(l, j) /\ Ends(l)[j] <= m
        BY <4>1, <1>0, <2>0, EndsIs, EndsGrow DEF m
      <4>3. Ends(l)[j - 1] + 1 \in 1 .. m /\ \A k \in 1 .. SizeAt(l, j) : Ends(l)[j - 1] + 1 + k \in 1 .. m
        BY <4>2, <2>3, SMTT(30)
      <4>4. QED BY <1>8, <4>1, <4>3, <2>7 DEF v
    <3>3. QED BY <3>1, <3>2
  <2>11. QED BY <2>6, <2>9, <2>10 DEF u
<1> HIDE DEF Good
<1>9. \A i \in 0 .. Saved(l) : Good(i)
  <2> DEFINE T == {i \in 0 .. Saved(l) : ~Good(i)}
  <2>1. ASSUME T # {} PROVE FALSE
    <3>1. T \subseteq Nat BY <1>0
    <3>2. PICK x \in T : \A y \in T : x <= y BY <2>1, <3>1, LeastOf
    <3>3. x \in 0 .. Saved(l) /\ ~Good(x) OBVIOUS
    <3>4. x \in 1 .. Saved(l) /\ x - 1 \in 0 .. Saved(l) /\ ~(x <= x - 1) BY <3>3, <1>7, <1>0
    <3>5. Good(x - 1) BY <3>2, <3>4
    <3>6. QED BY <3>3, <3>4, <3>5, <1>8
  <2>2. QED BY <2>1
<1>10. Saved(l) \in 0 .. Saved(l) BY <1>0
<1>11. serialize(b, irs) = w(Saved(l)) BY <1>4, <1>5
<1>12. Good(Saved(l)) /\ w(Saved(l)) \in Seq(Cell) BY <1>6, <1>9, <1>10
<1> HIDE DEF w
<1>13. QED BY <1>11, <1>12 DEF Good

-----------------------------------------------------------------------------
\* What a process reads.

LEMMA ImageIs ==
    ASSUME NEW b \in Nat, NEW l \in LinkSets
    PROVE  /\ Image(b, l) \in Seq(Cell) /\ Len(Image(b, l)) = EndOf(l)
           /\ Image(b, l)[1] = Header(b, Saved(l))
           /\ \A i \in 1 .. Saved(l) :
                  /\ Image(b, l)[Ends(l)[i - 1] + 1] = Length(SizeAt(l, i))
                  /\ \A k \in 1 .. SizeAt(l, i) : Image(b, l)[Ends(l)[i - 1] + 1 + k] = Code(IrAt(b, l, i)[k])
<1> DEFINE irs == [i \in 1 .. Saved(l) |-> IrAt(b, l, i)]
<1>1. ASSUME NEW i \in 1 .. Saved(l)
      PROVE  /\ irs[i] = IrAt(b, l, i)
             /\ irs[i] \in {NoIr} \cup Seq(Unit)
             /\ SizeAt(l, i) = IF irs[i] = NoIr THEN 0 ELSE Len(irs[i])
  <2>1. CodeAt(l, i) \in FunctionCode /\ CodeAt(l, i).size = SizeAt(l, i) BY SavedCode
  <2>2. irs[i] = predecode(CodeAt(l, i), b) BY DEF IrAt
  <2> HIDE DEF irs
  <2>3. QED BY <2>1, <2>2, PredecodeIs DEF IrAt
<1>2. irs \in [1 .. Saved(l) -> {NoIr} \cup Seq(Unit)] BY <1>1
<1>3. Image(b, l) = serialize(b, irs) BY DEF Image
<1> HIDE DEF irs
<1>4. \A i \in 1 .. Saved(l) : irs[i] = IrAt(b, l, i) BY <1>1
<1>5. \A i \in 1 .. Saved(l) : SizeAt(l, i) = IF irs[i] = NoIr THEN 0 ELSE Len(irs[i]) BY <1>1
<1>6. /\ serialize(b, irs) \in Seq(Cell)
      /\ Len(serialize(b, irs)) = Ends(l)[Saved(l)]
      /\ serialize(b, irs)[1] = Header(b, Saved(l))
      /\ \A i \in 1 .. Saved(l) :
             /\ serialize(b, irs)[Ends(l)[i - 1] + 1] = Length(SizeAt(l, i))
             /\ \A k \in 1 .. SizeAt(l, i) : serialize(b, irs)[Ends(l)[i - 1] + 1 + k] = Code(irs[i][k])
  BY <1>2, <1>5, SerializeIs
<1>7. QED BY <1>3, <1>4, <1>6 DEF EndOf

\* Places in a file of m cells, of which a function of n units takes those
\* after e, up to the end z at most.
LEMMA CellPlace ==
    ASSUME NEW e \in Nat, NEW n \in Nat, NEW m \in Nat, NEW z \in Nat, e + 1 + n <= z
    PROVE  /\ e + 1 <= m => e + 1 \in 1 .. m /\ e + 1 <= z
           /\ \A k \in 1 .. n : e + 1 + k <= m => e + 1 + k \in 1 .. m /\ e + 1 + k <= z
OBVIOUS

\* The cells of a file, by their places.
LEMMA FileCells ==
    ASSUME NEW b \in Nat, NEW l \in LinkSets, NEW data, Begins(data, b, l)
    PROVE  /\ Len(data) \in Nat
           /\ Len(data) >= 1 => data[1] = Header(b, Saved(l))
           /\ \A i \in 1 .. Saved(l) :
                 /\ Ends(l)[i - 1] + 1 <= Len(data) => data[Ends(l)[i - 1] + 1] = Length(SizeAt(l, i))
                 /\ \A k \in 1 .. SizeAt(l, i) : Ends(l)[i - 1] + 1 + k <= Len(data) =>
                       data[Ends(l)[i - 1] + 1 + k] = Code(IrAt(b, l, i)[k])
<1>1. Len(data) \in Nat /\ \A k \in 1 .. Len(data) : k <= EndOf(l) => data[k] = Image(b, l)[k]
  BY DEF Begins
<1>2. Len(data) >= 1 => data[1] = Header(b, Saved(l))
  BY <1>1, ImageIs, EndsGrow
<1>3. \A j \in 1 .. Saved(l) :
         /\ Image(b, l)[Ends(l)[j - 1] + 1] = Length(SizeAt(l, j))
         /\ \A k \in 1 .. SizeAt(l, j) : Image(b, l)[Ends(l)[j - 1] + 1 + k] = Code(IrAt(b, l, j)[k])
  BY ImageIs, Zenon
<1>4. ASSUME NEW i \in 1 .. Saved(l)
      PROVE /\ Ends(l)[i - 1] + 1 <= Len(data) => data[Ends(l)[i - 1] + 1] = Length(SizeAt(l, i))
            /\ \A k \in 1 .. SizeAt(l, i) : Ends(l)[i - 1] + 1 + k <= Len(data) =>
                       data[Ends(l)[i - 1] + 1 + k] = Code(IrAt(b, l, i)[k])
  <2>1. Saved(l) \in Nat /\ SizeAt(l, i) \in Nat /\ Len(data) \in Nat BY <1>1, Basics, SavedCode
  <2>2. /\ Ends(l)[i - 1] \in Nat /\ EndOf(l) \in Nat
        /\ Ends(l)[i - 1] + 1 + SizeAt(l, i) <= EndOf(l)
    <3>1. i - 1 \in 0 .. Saved(l) /\ i \in 0 .. Saved(l) /\ Saved(l) \in 0 .. Saved(l) /\ i <= Saved(l)
      BY <2>1
    <3>2. Ends(l)[i] = Ends(l)[i - 1] + 1 + SizeAt(l, i) BY EndsIs
    <3>3. Ends(l)[i - 1] \in Nat /\ EndOf(l) \in Nat /\ Ends(l)[i] <= Ends(l)[Saved(l)]
      BY <3>1, EndsGrow
    <3>4. QED BY <3>2, <3>3 DEF EndOf
  <2>3. ASSUME Ends(l)[i - 1] + 1 <= Len(data)
        PROVE  data[Ends(l)[i - 1] + 1] = Length(SizeAt(l, i))
    <3>1. Ends(l)[i - 1] + 1 \in 1 .. Len(data) /\ Ends(l)[i - 1] + 1 <= EndOf(l)
      BY <2>1, <2>2, <2>3, CellPlace
    <3>2. data[Ends(l)[i - 1] + 1] = Image(b, l)[Ends(l)[i - 1] + 1] BY <1>1, <3>1
    <3>3. Image(b, l)[Ends(l)[i - 1] + 1] = Length(SizeAt(l, i)) BY <1>3, Zenon
    <3>4. QED BY <3>2, <3>3
  <2>4. ASSUME NEW k \in 1 .. SizeAt(l, i), Ends(l)[i - 1] + 1 + k <= Len(data)
        PROVE  data[Ends(l)[i - 1] + 1 + k] = Code(IrAt(b, l, i)[k])
    <3>1. Ends(l)[i - 1] + 1 + k \in 1 .. Len(data) /\ Ends(l)[i - 1] + 1 + k <= EndOf(l)
      BY <2>1, <2>2, <2>4, CellPlace
    <3>2. data[Ends(l)[i - 1] + 1 + k] = Image(b, l)[Ends(l)[i - 1] + 1 + k] BY <1>1, <3>1
    <3>3. Image(b, l)[Ends(l)[i - 1] + 1 + k] = Code(IrAt(b, l, i)[k]) BY <1>3, Zenon
    <3>4. QED BY <3>2, <3>3
  <2>5. QED BY <2>3, <2>4
<1>5. QED BY <1>1, <1>2, <1>4

\* As long as the file reaches there, offset finds the functions.
LEMMA OffsetFinds ==
    ASSUME NEW b \in Nat, NEW l \in LinkSets, NEW data, Begins(data, b, l),
           NEW n \in 0 .. Saved(l), n <= Len(data) + 1,
           \A i \in 1 .. n : offset(data)[i] <= Len(data) \/ Ends(l)[i - 1] + 1 <= Len(data)
    PROVE  \A i \in 1 .. n : offset(data)[i] = Ends(l)[i - 1] + 1
<1> DEFINE at == offset(data)
           T == {i \in 1 .. n : at[i] # Ends(l)[i - 1] + 1}
<1>0. Len(data) \in Nat /\ Saved(l) \in Nat /\ n \in Nat BY FileCells, Basics
<1>1. ASSUME T # {} PROVE FALSE
  <2>1. T \subseteq Nat BY <1>0
  <2> HIDE DEF at
  <2>2. PICK x \in T : \A y \in T : x <= y BY <1>1, <2>1, LeastOf
  <2>3. x \in 1 .. n /\ at[x] # Ends(l)[x - 1] + 1 OBVIOUS
  <2>4. x \in 1 .. Len(data) + 1 BY <2>3, <1>0
  <2>5. at[x] = IF x = 1 THEN 2
                ELSE IF at[x - 1] > Len(data) THEN Len(data) + 1
                ELSE at[x - 1] + 1 + AsLength(data[at[x - 1]])
    BY <2>4, <1>0, OffsetUnfold DEF at
  <2>6. x # 1
    <3>1. Ends(l)[0] = 1 BY EndsIs
    <3>2. x = 1 => at[x] = 2 /\ Ends(l)[x - 1] = 1 BY <2>5, <3>1
    <3>3. QED BY <3>2, <2>3
  <2> DEFINE y == x - 1
  <2>7. y \in 1 .. n /\ ~(x <= y) /\ y \in 1 .. Saved(l) /\ y \in 0 .. Saved(l) /\ y - 1 \in 0 .. Saved(l)
    BY <2>3, <2>6, <1>0
  <2>8. at[y] = Ends(l)[y - 1] + 1 /\ at[y] <= Len(data)
    <3>1. at[y] = Ends(l)[y - 1] + 1 BY <2>2, <2>7
    <3>2. at[y] <= Len(data) \/ Ends(l)[y - 1] + 1 <= Len(data) BY <2>7 DEF at
    <3>3. QED BY <3>1, <3>2
  <2>9. Ends(l)[y - 1] \in Nat /\ Ends(l)[y] = Ends(l)[y - 1] + 1 + SizeAt(l, y) /\ SizeAt(l, y) \in Nat
    BY <2>7, EndsIs, Basics, SavedCode
  <2>10. data[at[y]] = Length(SizeAt(l, y))
    BY <2>7, <2>8, FileCells
  <2>11. AsLength(data[at[y]]) = SizeAt(l, y) BY <2>10, CellFacts
  <2>12. ~(at[y] > Len(data)) BY <2>8, <2>9, <1>0
  <2>13. at[x] = at[y] + 1 + SizeAt(l, y) BY <2>5, <2>6, <2>11, <2>12
  <2>14. at[x] = Ends(l)[y] + 1 BY <2>8, <2>9, <2>13
  <2>15. QED BY <2>14, <2>3
<1>2. QED BY <1>1

\* A file of another build, or one that is cut short, is a miss; a hit gives
\* every function its code; and a file that is complete is a hit.
LEMMA Restores ==
    ASSUME NEW b \in Nat, NEW l \in LinkSets, NEW v \in Nat, NEW data, Begins(data, b, l)
    PROVE  /\ deserialize(data, v).hit \in BOOLEAN
           /\ deserialize(data, v).hit =>
                 /\ v = b
                 /\ DOMAIN deserialize(data, v).irs = 1 .. Saved(l)
                 /\ \A i \in 1 .. Saved(l) : deserialize(data, v).irs[i] = IrAt(b, l, i)
           /\ Len(data) >= EndOf(l) /\ v = b => deserialize(data, v).hit
<1>0. Len(data) \in Nat /\ Saved(l) \in Nat /\ NumImports \in Nat BY FileCells, Basics
<1> DEFINE at == offset(data)
           n == data[1].num_funcs
           Fits == \A i \in 1 .. n : /\ i \in DOMAIN at
                                     /\ at[i] <= Len(data)
                                     /\ at[i] + AsLength(data[at[i]]) <= Len(data)
           irs == [i \in 1 .. n |-> IF AsLength(data[at[i]]) = 0 THEN NoIr
                                    ELSE [k \in 1 .. AsLength(data[at[i]]) |-> AsCode(data[at[i] + k])]]
           d == deserialize(data, v)
<1>1. d = IF Len(data) < 1 \/ data[1].version # v THEN Miss
          ELSE IF Fits THEN [hit |-> TRUE, irs |-> irs] ELSE Miss
  BY DEF deserialize
<1> HIDE DEF d
<1>2. d.hit \in BOOLEAN /\ (d.hit => Len(data) >= 1 /\ data[1].version = v /\ Fits /\ d.irs = irs)
  <2> HIDE DEF Fits, irs
  <2> QED BY <1>0, <1>1 DEF Miss
<1>3. Len(data) >= 1 => data[1].version = b /\ n = Saved(l)
  BY FileCells, CellFacts
<1>4. DOMAIN at = 1 .. Len(data) + 1 BY <1>0, OffsetUnfold
<1>5. ASSUME Len(data) >= 1, Saved(l) <= Len(data) + 1,
             NEW i \in 1 .. Saved(l), at[i] = Ends(l)[i - 1] + 1, at[i] <= Len(data)
      PROVE  AsLength(data[at[i]]) = SizeAt(l, i) /\ at[i] \in Nat /\ SizeAt(l, i) \in Nat
  <2>0. i - 1 \in 0 .. Saved(l) /\ SizeAt(l, i) \in Nat BY <1>0, SavedCode
  <2>1. Ends(l)[i - 1] \in Nat /\ SizeAt(l, i) \in Nat BY <2>0, EndsIs
  <2>2. data[Ends(l)[i - 1] + 1] = Length(SizeAt(l, i)) BY <1>5, FileCells
  <2>3. QED BY <2>1, <2>2, <1>5, CellFacts
<1>6. ASSUME d.hit
      PROVE  /\ v = b
             /\ DOMAIN d.irs = 1 .. Saved(l)
             /\ \A i \in 1 .. Saved(l) : d.irs[i] = IrAt(b, l, i)
  <2>1. v = b /\ n = Saved(l) /\ Fits /\ d.irs = irs /\ Len(data) >= 1 BY <1>2, <1>3, <1>6
  <2>2. DOMAIN d.irs = 1 .. Saved(l) BY <2>1
  <2>3. \A i \in 1 .. Saved(l) : at[i] <= Len(data) /\ i \in DOMAIN at /\ at[i] + AsLength(data[at[i]]) <= Len(data)
    BY <2>1
  <2>4. Saved(l) <= Len(data) + 1
    <3>1. CASE Saved(l) = 0 BY <3>1, <1>0
    <3>2. CASE Saved(l) # 0
      <4>1. Saved(l) \in 1 .. Saved(l) BY <3>2, <1>0
      <4>2. QED BY <4>1, <2>3, <1>4, <1>0
    <3>3. QED BY <3>1, <3>2
  <2>5. \A i \in 1 .. Saved(l) : at[i] = Ends(l)[i - 1] + 1
    <3>1. Saved(l) \in 0 .. Saved(l) BY <1>0
    <3>2. \A i \in 1 .. Saved(l) : offset(data)[i] <= Len(data) BY <2>3
    <3>3. QED BY <2>4, <3>1, <3>2, OffsetFinds
  <2>6. ASSUME NEW i \in 1 .. Saved(l) PROVE d.irs[i] = IrAt(b, l, i)
    <3> DEFINE z == SizeAt(l, i)
               e == Ends(l)[i - 1] + 1
    <3>1. AsLength(data[at[i]]) = z /\ at[i] \in Nat /\ z \in Nat /\ at[i] = e /\ e + z <= Len(data)
      BY <1>5, <2>1, <2>3, <2>4, <2>5
    <3>2. d.irs[i] = IF z = 0 THEN NoIr ELSE [k \in 1 .. z |-> AsCode(data[e + k])]
      <4>1. d.irs[i] = IF AsLength(data[at[i]]) = 0 THEN NoIr
                       ELSE [k \in 1 .. AsLength(data[at[i]]) |-> AsCode(data[at[i] + k])]
        BY <2>1
      <4> HIDE DEF at, e, z
      <4>2. QED BY <3>1, <4>1
    <3>3. \A k \in 1 .. z : AsCode(data[e + k]) = IrAt(b, l, i)[k]
      <4> TAKE k \in 1 .. z
      <4>1. e + k <= Len(data) BY <3>1, <1>0
      <4>2. data[e + k] = Code(IrAt(b, l, i)[k]) BY <4>1, FileCells
      <4>3. QED BY <4>2, CellFacts
    <3>4. /\ z = 0 => IrAt(b, l, i) = NoIr
          /\ z # 0 => IrAt(b, l, i) = [k \in 1 .. z |-> IrAt(b, l, i)[k]]
      <4>1. CodeAt(l, i).size = z BY SavedCode
      <4>2. QED BY <4>1 DEF IrAt, predecode
    <3> HIDE DEF z, e
    <3>5. QED BY <3>2, <3>3, <3>4
  <2>7. QED BY <2>1, <2>2, <2>6
<1>7. ASSUME Len(data) >= EndOf(l), v = b PROVE d.hit
  <2>1. Len(data) >= 1 /\ Saved(l) <= Len(data) + 1
    <3>1. Saved(l) \in 0 .. Saved(l) BY <1>0
    <3>2. EndOf(l) \in Nat /\ EndOf(l) >= Saved(l) + 1 BY <3>1, EndsGrow DEF EndOf
    <3>3. QED BY <3>2, <1>7, <1>0
  <2>2. data[1].version = v /\ n = Saved(l) BY <2>1, <1>3, <1>7
  <2>3. \A i \in 1 .. Saved(l) : /\ i \in 0 .. Saved(l) /\ i - 1 \in 0 .. Saved(l)
                              /\ Ends(l)[i] <= Len(data) /\ Ends(l)[i - 1] \in Nat /\ SizeAt(l, i) \in Nat
                              /\ Ends(l)[i] = Ends(l)[i - 1] + 1 + SizeAt(l, i)
    <3> TAKE i \in 1 .. Saved(l)
    <3>1. i \in 0 .. Saved(l) /\ i - 1 \in 0 .. Saved(l) /\ Saved(l) \in 0 .. Saved(l) /\ i <= Saved(l) BY <1>0
    <3>2. Ends(l)[i] \in Nat /\ Ends(l)[i] <= EndOf(l) /\ EndOf(l) \in Nat BY <3>1, EndsGrow DEF EndOf
    <3>3. QED BY <3>1, <3>2, <1>0, <1>7, EndsIs, EndsGrow, SavedCode
  <2>4. \A i \in 1 .. Saved(l) : Ends(l)[i - 1] + 1 <= Len(data)
    <3> TAKE i \in 1 .. Saved(l)
    <3>1. /\ Ends(l)[i] <= Len(data) /\ Ends(l)[i - 1] \in Nat /\ SizeAt(l, i) \in Nat
          /\ Ends(l)[i] = Ends(l)[i - 1] + 1 + SizeAt(l, i)
      BY <2>3
    <3>2. QED BY <3>1, <1>0
  <2>5. \A i \in 1 .. Saved(l) : at[i] = Ends(l)[i - 1] + 1
    <3>1. Saved(l) \in 0 .. Saved(l) BY <1>0
    <3>2. QED BY <2>1, <2>4, <3>1, OffsetFinds
  <2>6. ASSUME NEW i \in 1 .. Saved(l)
        PROVE  i \in DOMAIN at /\ at[i] <= Len(data) /\ at[i] + AsLength(data[at[i]]) <= Len(data)
    <3>1. i \in DOMAIN at BY <2>1, <1>4, <1>0
    <3>2. at[i] <= Len(data) BY <2>4, <2>5
    <3>3. AsLength(data[at[i]]) = SizeAt(l, i) BY <1>5, <2>1, <2>5, <3>2
    <3> HIDE DEF at
    <3>4. at[i] + AsLength(data[at[i]]) = Ends(l)[i] BY <2>3, <2>5, <3>3
    <3>5. QED BY <3>1, <3>2, <3>4, <2>3
  <2>7. Fits BY <2>2, <2>6
  <2> HIDE DEF Fits, irs
  <2>8. d = [hit |-> TRUE, irs |-> irs] BY <1>0, <1>1, <2>1, <2>2, <2>7
  <2>9. QED BY <2>8
<1>8. QED BY <1>2, <1>6, <1>7 DEF d

-----------------------------------------------------------------------------
\* The store of a process.

LEMMA StoreIs ==
    ASSUME NEW l \in LinkSets
    PROVE  /\ StoreOf(l) \in Seq(WasmFunction) /\ Len(StoreOf(l)) = StoreSize(l)
           /\ \A j \in 1 .. StoreSize(l) : StoreOf(l)[j] = Function(StoreAt(l, j))
<1> DEFINE r == Registered(l)
           a == Imported(l)
           o == [i \in DOMAIN OwnSizes |-> Function(Own(i))]
           c == Copied(l)
           n == NumImports
           m == Len(OwnSizes)
<1>0. /\ c \in Nat /\ n \in Nat /\ m \in Nat /\ DOMAIN OwnSizes = 1 .. m /\ n <= c
      /\ DOMAIN LinkedSizes[l] = 1 .. c /\ StoreSize(l) = c + n + m
      /\ \A i \in 1 .. m : OwnSizes[i] \in Nat
      /\ \A i \in 1 .. c : LinkedSizes[l][i] \in Nat
  BY Basics DEF StoreSize
<1>1. \A f \in FunctionCode : Function(f) \in WasmFunction BY DEF Function, WasmFunction
<1>2. \A i \in 1 .. c : Linked(l, i) \in FunctionCode BY <1>0 DEF Linked, FunctionCode
<1>3. \A i \in 1 .. m : Own(i) \in FunctionCode BY <1>0 DEF Own, FunctionCode
<1>4. r \in Seq(WasmFunction) /\ Len(r) = c /\ \A i \in 1 .. c : r[i] = Function(Linked(l, i))
  <2>1. r = [i \in 1 .. c |-> Function(Linked(l, i))] BY <1>0 DEF Registered
  <2>2. \A i \in 1 .. c : Function(Linked(l, i)) \in WasmFunction BY <1>1, <1>2
  <2>3. QED BY <2>1, <2>2, <1>0
<1>5. a \in Seq(WasmFunction) /\ Len(a) = n /\ \A i \in 1 .. n : a[i] = Function(Linked(l, i))
  <2>1. a = [i \in 1 .. n |-> Function(Linked(l, i))] BY DEF Imported
  <2>2. \A i \in 1 .. n : i \in 1 .. c BY <1>0
  <2>3. \A i \in 1 .. n : Function(Linked(l, i)) \in WasmFunction BY <1>1, <1>2, <2>2
  <2>4. QED BY <2>1, <2>3, <1>0
<1>6. o \in Seq(WasmFunction) /\ Len(o) = m /\ \A i \in 1 .. m : o[i] = Function(Own(i))
  <2>1. o = [i \in 1 .. m |-> Function(Own(i))] BY <1>0
  <2>2. \A i \in 1 .. m : Function(Own(i)) \in WasmFunction BY <1>1, <1>3
  <2>3. QED BY <2>1, <2>2, <1>0
<1>7. StoreOf(l) = (r \o a) \o o BY DEF StoreOf
<1> HIDE DEF r, a, o
<1> DEFINE ra == r \o a
<1>8. /\ ra \in Seq(WasmFunction) /\ Len(ra) = c + n
      /\ \A j \in 1 .. c + n : ra[j] = IF j <= c THEN r[j] ELSE a[j - c]
  <2>1. /\ r \o a \in Seq(WasmFunction) /\ Len(r \o a) = Len(r) + Len(a)
        /\ \A j \in 1 .. Len(r) + Len(a) : (r \o a)[j] = IF j <= Len(r) THEN r[j] ELSE a[j - Len(r)]
    <3>1. r \in Seq(WasmFunction) /\ a \in Seq(WasmFunction) BY <1>4, <1>5
    <3>2. QED BY <3>1, ConcatProperties, Zenon
  <2>2. Len(r) = c /\ Len(a) = n BY <1>4, <1>5
  <2>3. QED BY <2>1, <2>2
<1> HIDE DEF ra
<1>9. /\ ra \o o \in Seq(WasmFunction) /\ Len(ra \o o) = (c + n) + m
      /\ \A j \in 1 .. (c + n) + m : (ra \o o)[j] = IF j <= c + n THEN ra[j] ELSE o[j - (c + n)]
  <2>1. /\ ra \o o \in Seq(WasmFunction) /\ Len(ra \o o) = Len(ra) + Len(o)
        /\ \A j \in 1 .. Len(ra) + Len(o) :
               (ra \o o)[j] = IF j <= Len(ra) THEN ra[j] ELSE o[j - Len(ra)]
    <3>1. ra \in Seq(WasmFunction) /\ o \in Seq(WasmFunction) BY <1>6, <1>8
    <3>2. QED BY <3>1, ConcatProperties, Zenon
  <2>2. Len(ra) = c + n /\ Len(o) = m BY <1>6, <1>8
  <2>3. QED BY <2>1, <2>2
<1>10. ASSUME NEW j \in 1 .. StoreSize(l) PROVE (ra \o o)[j] = Function(StoreAt(l, j))
  <2>0. j \in 1 .. (c + n) + m BY <1>0
  <2>1. CASE j <= c
    <3>1. (ra \o o)[j] = ra[j] /\ ra[j] = r[j] BY <2>0, <2>1, <1>0, <1>8, <1>9
    <3>2. QED BY <3>1, <2>0, <2>1, <1>0, <1>4 DEF StoreAt
  <2>2. CASE ~(j <= c) /\ j <= c + n
    <3>1. (ra \o o)[j] = ra[j] /\ ra[j] = a[j - c] /\ j - c \in 1 .. n
      BY <2>0, <2>2, <1>0, <1>8, <1>9
    <3>2. StoreAt(l, j) = Linked(l, j - c) BY <2>2 DEF StoreAt
    <3>3. QED BY <3>1, <3>2, <1>5
  <2>3. CASE ~(j <= c) /\ ~(j <= c + n)
    <3>1. (ra \o o)[j] = o[j - (c + n)] /\ j - (c + n) \in 1 .. m
      BY <2>0, <2>3, <1>0, <1>9
    <3>2. StoreAt(l, j) = Own(j - (c + n)) BY <2>3 DEF StoreAt
    <3>3. QED BY <3>1, <3>2, <1>6
  <2>4. QED BY <2>1, <2>2, <2>3
<1>11. QED BY <1>0, <1>7, <1>9, <1>10 DEF ra

\* A function that was not cached is predecoded to its own code.
LEMMA PredecodedIs ==
    ASSUME NEW b \in Nat, NEW f \in WasmFunction, Fresh(f, b)
    PROVE  /\ Predecoded(f, b) \in WasmFunction
           /\ Predecoded(f, b).code = f.code
           /\ Predecoded(f, b).ir = predecode(f.code, b)
           /\ Fresh(Predecoded(f, b), b)
<1> DEFINE d == predecode(f.code, b)
<1>1. f.code \in FunctionCode /\ f.ir \in {NoIr} \cup Seq(Unit) /\ f.ir_failed \in BOOLEAN
  BY DEF WasmFunction
<1>2. d \in {NoIr} \cup Seq(Unit) BY <1>1, PredecodeIs
<1>3. f.ir \in {NoIr, d} /\ (f.ir_failed => d = NoIr) BY DEF Fresh
<1> HIDE DEF d
<1>4. CASE f.ir # NoIr \/ f.ir_failed
  <2>1. Predecoded(f, b) = f BY <1>4 DEF Predecoded
  <2>2. f.ir = d BY <1>3, <1>4
  <2>3. QED BY <2>1, <2>2 DEF d
<1>5. CASE ~(f.ir # NoIr \/ f.ir_failed)
  <2>1. Predecoded(f, b) = [f EXCEPT !.ir = d, !.ir_failed = (d = NoIr)]
    BY <1>5 DEF Predecoded, d
  <2> DEFINE g == [f EXCEPT !.ir = d, !.ir_failed = (d = NoIr)]
  <2>2. g \in WasmFunction /\ g.code = f.code /\ g.ir = d /\ g.ir_failed = (d = NoIr)
    BY <1>1, <1>2 DEF WasmFunction
  <2> HIDE DEF g
  <2>3. QED BY <2>1, <2>2 DEF g, d, Fresh
<1>6. QED BY <1>4, <1>5

\* What is collected from a store that was loaded with l is the image of l.
LEMMA CollectedIs ==
    ASSUME NEW b \in Nat, NEW l \in LinkSets, NEW funcs, FreshStore(funcs, l, b)
    PROVE  serialize(b, collectIrFuncs(funcs, b)) = Image(b, l)
<1>0. /\ funcs \in Seq(WasmFunction) /\ Len(funcs) = StoreSize(l)
      /\ \A j \in 1 .. StoreSize(l) : funcs[j].code = StoreAt(l, j) /\ Fresh(funcs[j], b)
  BY DEF FreshStore
<1>1. NumImports \in Nat /\ Saved(l) \in Nat /\ StoreSize(l) = NumImports + Saved(l)
      /\ Len(funcs) - NumImports = Saved(l)
  BY <1>0, Basics
<1>2. ASSUME NEW i \in 1 .. Saved(l)
      PROVE  Predecoded(funcs[NumImports + i], b).ir = IrAt(b, l, i)
  <2> DEFINE j == NumImports + i
  <2>1. j \in 1 .. StoreSize(l) BY <1>1
  <2>2. funcs[j] \in WasmFunction BY <1>0, <2>1
  <2>3. funcs[j].code = CodeAt(l, i) /\ Fresh(funcs[j], b) BY <1>0, <2>1 DEF CodeAt
  <2> HIDE DEF j
  <2>4. Predecoded(funcs[j], b).ir = predecode(funcs[j].code, b)
    BY <2>2, <2>3, PredecodedIs
  <2>5. QED BY <2>3, <2>4 DEF IrAt, j
<1>3. collectIrFuncs(funcs, b) = [i \in 1 .. Saved(l) |-> IrAt(b, l, i)]
  BY <1>1, <1>2 DEF collectIrFuncs
<1>4. QED BY <1>3 DEF Image

\* A function that is predecoded or not has no code but its own.
LEMMA FreshIsOwn ==
    ASSUME NEW b, NEW l, NEW funcs, FreshStore(funcs, l, b)
    PROVE  \A i \in DOMAIN funcs : CodeIsOwn(funcs[i], b)
<1>1. DOMAIN funcs = 1 .. StoreSize(l) /\ \A j \in 1 .. StoreSize(l) : Fresh(funcs[j], b)
  BY DEF FreshStore
<1>2. QED BY <1>1 DEF Fresh, CodeIsOwn

\* What a hit in a file of the same links puts into a store.
LEMMA AppliedIs ==
    ASSUME NEW b \in Nat, NEW l \in LinkSets, NEW funcs, FreshStore(funcs, l, b),
           NEW irs, DOMAIN irs = 1 .. Saved(l), \A i \in 1 .. Saved(l) : irs[i] = IrAt(b, l, i)
    PROVE  \A j \in DOMAIN applyCachedIr(irs, funcs) : CodeIsOwn(applyCachedIr(irs, funcs)[j], b)
<1>1. /\ DOMAIN funcs = 1 .. StoreSize(l) /\ \A j \in 1 .. StoreSize(l) : funcs[j] \in WasmFunction
      /\ \A j \in 1 .. StoreSize(l) : funcs[j].code = StoreAt(l, j) /\ Fresh(funcs[j], b)
  BY DEF FreshStore
<1> DEFINE G(j) == LET i == j - NumImports
                   IN  IF /\ i \in DOMAIN irs
                          /\ irs[i] # NoIr
                          /\ funcs[j].ir = NoIr /\ ~funcs[j].ir_failed
                       THEN [funcs[j] EXCEPT !.ir = irs[i]]
                       ELSE funcs[j]
<1>2. applyCachedIr(irs, funcs) = [j \in 1 .. StoreSize(l) |-> G(j)] BY <1>1 DEF applyCachedIr
<1>3. ASSUME NEW j \in 1 .. StoreSize(l) PROVE CodeIsOwn(G(j), b)
  <2> DEFINE i == j - NumImports
  <2>0. NumImports \in Nat /\ i \in Int /\ NumImports + i = j BY Basics
  <2>1. funcs[j] \in WasmFunction /\ funcs[j].code = StoreAt(l, j) /\ Fresh(funcs[j], b) BY <1>1
  <2>2. CASE i \in DOMAIN irs /\ irs[i] # NoIr /\ funcs[j].ir = NoIr /\ ~funcs[j].ir_failed
    <3>1. irs[i] = predecode(StoreAt(l, j), b) BY <2>0, <2>2 DEF IrAt, CodeAt
    <3>2. G(j) = [funcs[j] EXCEPT !.ir = irs[i]] BY <2>2
    <3> HIDE DEF G, i
    <3>3. G(j).code = funcs[j].code /\ G(j).ir = irs[i] BY <2>1, <3>2 DEF WasmFunction
    <3>4. QED BY <2>1, <3>1, <3>3 DEF CodeIsOwn
  <2>3. CASE ~(i \in DOMAIN irs /\ irs[i] # NoIr /\ funcs[j].ir = NoIr /\ ~funcs[j].ir_failed)
    <3>1. G(j) = funcs[j] BY <2>3
    <3> HIDE DEF G
    <3>2. QED BY <2>1, <3>1 DEF Fresh, CodeIsOwn
  <2>4. QED BY <2>2, <2>3
<1> HIDE DEF G
<1>4. QED BY <1>2, <1>3

\* Parts of a file.
LEMMA FileParts ==
    ASSUME NEW b \in Nat, NEW l \in LinkSets
    PROVE  /\ Begins(<<>>, b, l)
           /\ \A data : \A k \in Nat : Begins(data, b, l) /\ k <= Len(data) => Begins(SubSeq(data, 1, k), b, l)
<1>1. Begins(<<>>, b, l) BY DEF Begins
<1>2. ASSUME NEW k \in Nat, NEW data, Begins(data, b, l), k <= Len(data)
      PROVE  Begins(SubSeq(data, 1, k), b, l)
  <2>1. /\ data \in Seq(Cell) /\ Len(data) \in Nat
        /\ \A i \in 1 .. Len(data) : i <= EndOf(l) => data[i] = Image(b, l)[i]
    BY <1>2 DEF Begins
  <2> DEFINE s == SubSeq(data, 1, k)
  <2>2. s \in Seq(Cell) /\ Len(s) = k /\ \A i \in 1 .. k : s[i] = data[i]
    <3>1. \A i \in 1 .. k : data[i] \in Cell BY <1>2, <2>1
    <3>2. QED BY <1>2, <2>1, <3>1, SubSeqProperties
  <2> HIDE DEF s
  <2>3. Begins(s, b, l) BY <1>2, <2>1, <2>2 DEF Begins
  <2>4. QED BY <2>3 DEF s
<1>3. QED BY <1>1, <1>2

LEMMA FunctionIsSeq ==
    ASSUME NEW S, NEW n \in Nat, NEW t \in [1 .. n -> S]
    PROVE  t \in Seq(S) /\ Len(t) = n
  OBVIOUS

\* A store whose last function may have run already.
Started(l, ran, b) ==
    IF ran THEN [StoreOf(l) EXCEPT ![Len(StoreOf(l))] = Predecoded(@, b)] ELSE StoreOf(l)

LEMMA StartedIs ==
    ASSUME NEW b \in Nat, NEW l \in LinkSets, NEW ran \in BOOLEAN
    PROVE  FreshStore(Started(l, ran, b), l, b)
<1> DEFINE t == Started(l, ran, b)
           s == StoreOf(l)
           n == StoreSize(l)
<1>0. t = IF ran THEN [s EXCEPT ![Len(s)] = Predecoded(@, b)] ELSE s BY DEF Started
<1>1. /\ s \in Seq(WasmFunction) /\ Len(s) = n /\ n \in Nat
      /\ \A j \in 1 .. n : s[j] = Function(StoreAt(l, j))
  BY StoreIs, Basics
<1>2. \A j \in 1 .. n : s[j] \in WasmFunction /\ s[j].code = StoreAt(l, j) /\ Fresh(s[j], b)
  BY <1>1 DEF Function, Fresh
<1> HIDE DEF s, t
<1>3. CASE ran
  <2>1. t = [s EXCEPT ![n] = Predecoded(s[n], b)] BY <1>0, <1>1, <1>3
  <2>2. DOMAIN s = 1 .. n /\ s = [j \in 1 .. n |-> s[j]] BY <1>1
  <2>3. t = [j \in 1 .. n |-> IF j = n THEN Predecoded(s[j], b) ELSE s[j]]
    BY <2>1, <2>2
  <2>4. ASSUME NEW j \in 1 .. n
        PROVE  t[j] \in WasmFunction /\ t[j].code = StoreAt(l, j) /\ Fresh(t[j], b)
    <3>1. CASE j = n
      <4>1. t[j] = Predecoded(s[j], b) BY <2>3, <3>1
      <4>2. QED BY <4>1, <1>2, PredecodedIs
    <3>2. CASE j # n
      <4>1. t[j] = s[j] BY <2>3, <3>2
      <4>2. QED BY <4>1, <1>2
    <3>3. QED BY <3>1, <3>2
  <2>5. t \in Seq(WasmFunction) /\ Len(t) = n
    <3>1. t \in [1 .. n -> WasmFunction] BY <2>3, <2>4
    <3>2. n \in Nat BY <1>1
    <3>3. QED BY <3>1, <3>2, FunctionIsSeq, Zenon
  <2>6. QED BY <2>4, <2>5 DEF FreshStore, t
<1>4. CASE ~ran
  <2>1. t = s BY <1>0, <1>4
  <2>2. QED BY <2>1, <1>1, <1>2 DEF FreshStore, t
<1>5. QED BY <1>3, <1>4

-----------------------------------------------------------------------------
\* The invariant of saves.

LEMMA IdleIs ==
    /\ IsProcess(Idle) /\ Idle.pc = "idle" /\ Idle.funcs = <<>> /\ Idle.hit = FALSE
    /\ \A f, b : ProcessOK(Idle, f, b)
  BY DEF Idle, IsProcess, PCs, Saving, ProcessOK

LEMMA SaveInvInit == CacheInit => SaveInv
<1> SUFFICES ASSUME CacheInit PROVE SaveInv
  OBVIOUS
<1>1. build = 1 /\ starts = 0 /\ file = NoFile /\ proc = [p \in Procs |-> Idle] BY DEF CacheInit
<1>2. proc = [p \in Procs |-> proc[p]] /\ \A p \in Procs : proc[p] = Idle BY <1>1
<1>3. OneWriter BY <1>2, IdleIs DEF OneWriter
<1>4. QED BY <1>1, <1>2, <1>3, IdleIs DEF SaveInv

\* What others do to the file does not concern a process.
LEMMA Survives ==
    ASSUME NEW b, NEW me, NEW f, NEW g, ProcessOK(me, f, b),
           g = f \/ (g \in Seq(Cell) /\ me.pc # "write")
    PROVE  ProcessOK(me, g, b)
  BY DEF ProcessOK

LEMMA OneMoves ==
    ASSUME SaveInv, build' = build, starts' \in Nat, NEW p \in Procs,
           proc' = [proc EXCEPT ![p] = proc'[p]], IsProcess(proc'[p]),
           ProcessOK(proc'[p], file', build),
           file' = file \/ (file' \in Seq(Cell) /\ \A q \in Procs \ {p} : proc[q].pc # "write"),
           proc'[p].pc = "write" => \A q \in Procs \ {p} : proc[q].pc # "write"
    PROVE  SaveInv'
<1>1. /\ build \in Nat /\ proc = [q \in Procs |-> proc[q]] /\ OneWriter
      /\ file # NoFile => file \in Seq(Cell)
      /\ \A q \in Procs : IsProcess(proc[q]) /\ ProcessOK(proc[q], file, build)
  BY DEF SaveInv
<1>2. proc' = [q \in Procs |-> proc'[q]] /\ \A q \in Procs \ {p} : proc'[q] = proc[q]
  BY <1>1
<1>3. file' # NoFile => file' \in Seq(Cell) BY <1>1
<1>4. ASSUME NEW q \in Procs PROVE IsProcess(proc'[q]) /\ ProcessOK(proc'[q], file', build)
  <2>1. CASE q = p BY <2>1
  <2>2. CASE q # p
    <3>1. proc'[q] = proc[q] /\ IsProcess(proc[q]) /\ ProcessOK(proc[q], file, build)
      BY <1>1, <1>2, <2>2
    <3>2. file' = file \/ (file' \in Seq(Cell) /\ proc[q].pc # "write") BY <2>2
    <3>3. ProcessOK(proc[q], file', build) BY <3>1, <3>2, Survives
    <3>4. QED BY <3>1, <3>3
  <2>3. QED BY <2>1, <2>2
<1>5. OneWriter'
  <2> SUFFICES ASSUME NEW q \in Procs, NEW r \in Procs, proc'[q].pc = "write", proc'[r].pc = "write"
               PROVE  q = r
    BY DEF OneWriter
  <2> QED BY <1>1, <1>2 DEF OneWriter
<1>6. QED BY <1>1, <1>2, <1>3, <1>4, <1>5 DEF SaveInv

LEMMA StartStep ==
    ASSUME SaveInv, NEW p \in Procs, NEW l \in LinkSets, NEW ran \in BOOLEAN, Start(p, l, ran)
    PROVE  SaveInv'
<1> DEFINE s == StoreOf(l)
           t == IF ran THEN [s EXCEPT ![Len(s)] = Predecoded(@, build)] ELSE s
           x == [Idle EXCEPT !.pc = "open", !.funcs = t]
<1>0. build \in Nat /\ starts \in Nat /\ proc = [q \in Procs |-> proc[q]] BY DEF SaveInv
<1>1. /\ proc' = [proc EXCEPT ![p] = x] /\ starts' = starts + 1 /\ file' = file /\ build' = build
  BY DEF Start
<1>2. FreshStore(t, l, build)
  <2>1. t = Started(l, ran, build) BY DEF Started
  <2>2. QED BY <1>0, <2>1, StartedIs
<1> HIDE DEF t
<1>3. x = [Idle EXCEPT !.pc = "open", !.funcs = t] OBVIOUS
<1> HIDE DEF x
<1>4. IsProcess(x) /\ x.pc = "open" /\ x.funcs = t /\ x.hit = FALSE
  <2> DEFINE e == Idle
  <2>1. /\ e = [pc |-> e.pc, funcs |-> e.funcs, hit |-> e.hit, len |-> e.len, out |-> e.out]
        /\ e.hit \in BOOLEAN /\ e.len \in Nat /\ e.hit = FALSE
    BY IdleIs DEF Idle, IsProcess
  <2>2. x = [e EXCEPT !.pc = "open", !.funcs = t] BY <1>3
  <2> HIDE DEF e
  <2>3. x = [pc |-> "open", funcs |-> t, hit |-> e.hit, len |-> e.len, out |-> e.out] BY <2>1, <2>2
  <2>4. IsProcess(x) BY <2>1, <2>3 DEF IsProcess, PCs
  <2>5. x.pc = "open" /\ x.funcs = t /\ x.hit = e.hit BY <2>3
  <2>6. QED BY <2>1, <2>4, <2>5
<1>5. LoadedWith(x, l, build) BY <1>2, <1>4 DEF LoadedWith, Saving
<1>6. ProcessOK(x, file, build) BY <1>4, <1>5 DEF ProcessOK, Saving
<1>7. proc'[p] = x BY <1>0, <1>1
<1>8. proc' = [proc EXCEPT ![p] = proc'[p]] BY <1>1, <1>7
<1>9. /\ build' = build /\ file' = file /\ starts' \in Nat
      /\ IsProcess(proc'[p]) /\ proc'[p].pc # "write" /\ ProcessOK(proc'[p], file', build)
  BY <1>0, <1>1, <1>4, <1>6, <1>7
<1>10. QED BY <1>8, <1>9, OneMoves

LEMMA OpenStep ==
    ASSUME SaveInv, NEW p \in Procs, OpenFile(p) \/ Compile(p)
    PROVE  SaveInv'
<1> DEFINE me == proc[p]
           x == proc'[p]
<1>0. /\ build \in Nat /\ starts \in Nat /\ proc = [q \in Procs |-> proc[q]] /\ IsProcess(me)
      /\ file # NoFile => file \in Seq(Cell)
      /\ ProcessOK(me, file, build)
  BY DEF SaveInv
<1>1. /\ me.pc = "open" /\ file' = file /\ build' = build /\ starts' = starts
      /\ proc' = [proc EXCEPT ![p] = proc'[p]]
      /\ \/ x = [me EXCEPT !.pc = "run"]
         \/ file # NoFile /\ x = [me EXCEPT !.pc = "read", !.len = Len(file)]
  <2>1. CASE OpenFile(p) BY <2>1, <1>0 DEF OpenFile
  <2>2. CASE Compile(p) BY <2>2, <1>0 DEF Compile
  <2>3. QED BY <2>1, <2>2
<1>2. PICK l \in LinkSets : LoadedWith(me, l, build) BY <1>0, <1>1 DEF ProcessOK
<1>3. ~me.hit BY <1>0, <1>1 DEF ProcessOK
<1>4. file # NoFile => Len(file) \in Nat BY <1>0
<1> HIDE DEF me, x
<1>5. /\ IsProcess(x) /\ x.pc \in {"run", "read"} /\ x.funcs = me.funcs /\ x.hit = me.hit
  <2>0. me = [pc |-> me.pc, funcs |-> me.funcs, hit |-> me.hit, len |-> me.len, out |-> me.out]
        /\ me.hit \in BOOLEAN /\ me.len \in Nat
    BY <1>0 DEF IsProcess
  <2>1. CASE x = [me EXCEPT !.pc = "run"]
    <3>1. x = [pc |-> "run", funcs |-> me.funcs, hit |-> me.hit, len |-> me.len, out |-> me.out]
      BY <2>0, <2>1
    <3>2. QED BY <2>0, <3>1 DEF IsProcess, PCs
  <2>2. CASE file # NoFile /\ x = [me EXCEPT !.pc = "read", !.len = Len(file)]
    <3>1. x = [pc |-> "read", funcs |-> me.funcs, hit |-> me.hit, len |-> Len(file), out |-> me.out]
      BY <2>0, <2>2
    <3>2. QED BY <1>4, <2>0, <2>2, <3>1 DEF IsProcess, PCs
  <2>3. QED BY <1>1, <2>1, <2>2
<1>6. LoadedWith(x, l, build) BY <1>2, <1>5 DEF LoadedWith, Saving
<1>7. ProcessOK(x, file, build) BY <1>3, <1>5, <1>6 DEF ProcessOK, Saving
<1>8. x.pc # "write" BY <1>5
<1>9. QED BY <1>0, <1>1, <1>5, <1>7, <1>8, OneMoves DEF x

LEMMA HitIs == ASSUME NEW data, NEW b PROVE deserialize(data, b).hit \in BOOLEAN /\ Miss.hit = FALSE
  BY DEF deserialize, Miss

LEMMA ReadStep ==
    ASSUME SaveInv, NEW p \in Procs, ReadFile(p)
    PROVE  SaveInv'
<1> DEFINE me == proc[p]
           got == IF Len(file) < me.len THEN Miss ELSE deserialize(SubSeq(file, 1, me.len), build)
           fs == IF got.hit THEN applyCachedIr(got.irs, me.funcs) ELSE me.funcs
           x == [me EXCEPT !.pc = "run", !.hit = got.hit, !.funcs = fs]
<1>0. /\ build \in Nat /\ starts \in Nat /\ proc = [q \in Procs |-> proc[q]] /\ IsProcess(me)
      /\ ProcessOK(me, file, build)
  BY DEF SaveInv
<1>1. /\ me.pc = "read" /\ file' = file /\ build' = build /\ starts' = starts
      /\ proc' = [proc EXCEPT ![p] = x]
  BY DEF ReadFile
<1>2. PICK l \in LinkSets : LoadedWith(me, l, build) BY <1>0, <1>1 DEF ProcessOK
<1>3. ~me.hit BY <1>0, <1>1 DEF ProcessOK
<1>4. got.hit \in BOOLEAN
  <2>1. CASE Len(file) < me.len BY <2>1, HitIs
  <2>2. CASE ~(Len(file) < me.len)
    <3> DEFINE data == SubSeq(file, 1, me.len)
    <3>1. got = deserialize(data, build) BY <2>2
    <3> HIDE DEF data, got
    <3>2. QED BY <3>1, HitIs
  <2>3. QED BY <2>1, <2>2
<1>5. ~got.hit => fs = me.funcs OBVIOUS
<1> HIDE DEF got, me, fs
<1> DEFINE h == got.hit
<1>6. x = [me EXCEPT !.pc = "run", !.hit = h, !.funcs = fs] OBVIOUS
<1> HIDE DEF x, h
<1>7. IsProcess(x) /\ x.pc = "run" /\ x.hit = got.hit /\ x.funcs = fs
  <2>1. me = [pc |-> me.pc, funcs |-> me.funcs, hit |-> me.hit, len |-> me.len, out |-> me.out]
        /\ me.len \in Nat /\ h \in BOOLEAN
    BY <1>0, <1>4 DEF IsProcess, h
  <2>2. x = [pc |-> "run", funcs |-> fs, hit |-> h, len |-> me.len, out |-> me.out]
    BY <1>6, <2>1
  <2>3. QED BY <2>1, <2>2 DEF IsProcess, PCs, h
<1>8. LoadedWith(x, l, build) BY <1>2, <1>3, <1>5, <1>7 DEF LoadedWith, Saving
<1>9. ProcessOK(x, file, build) BY <1>7, <1>8 DEF ProcessOK, Saving
<1>10. proc'[p] = x BY <1>0, <1>1
<1>11. proc' = [proc EXCEPT ![p] = proc'[p]] BY <1>1, <1>10
<1>12. /\ build' = build /\ file' = file /\ starts' \in Nat
       /\ IsProcess(proc'[p]) /\ proc'[p].pc # "write" /\ ProcessOK(proc'[p], file', build)
  BY <1>0, <1>1, <1>7, <1>9, <1>10
<1>13. QED BY <1>11, <1>12, OneMoves

LEMMA EndRunStep ==
    ASSUME SaveInv, NEW p \in Procs, EndRun(p) \/ Dies(p)
    PROVE  SaveInv'
<1> DEFINE me == proc[p]
           out == serialize(build, collectIrFuncs(me.funcs, build))
           x == proc'[p]
<1>0. /\ build \in Nat /\ starts \in Nat /\ proc = [q \in Procs |-> proc[q]] /\ IsProcess(me)
      /\ ProcessOK(me, file, build)
  BY DEF SaveInv
<1>1. /\ file' = file /\ build' = build /\ starts' = starts
      /\ proc' = [proc EXCEPT ![p] = proc'[p]]
      /\ \/ x = Idle
         \/ me.pc = "run" /\ ~me.hit /\ x = [me EXCEPT !.pc = "create", !.out = out]
  <2>1. CASE EndRun(p) BY <2>1, <1>0 DEF EndRun
  <2>2. CASE Dies(p) BY <2>2, <1>0 DEF Dies
  <2>3. QED BY <2>1, <2>2
<1>2. CASE x = Idle
  <2>1. IsProcess(x) /\ ProcessOK(x, file, build) /\ x.pc # "write" BY <1>2, IdleIs
  <2>2. QED BY <1>0, <1>1, <2>1, OneMoves
<1>3. CASE me.pc = "run" /\ ~me.hit /\ x = [me EXCEPT !.pc = "create", !.out = out]
  <2>1. PICK l \in LinkSets : LoadedWith(me, l, build) BY <1>0, <1>3 DEF ProcessOK
  <2>2. FreshStore(me.funcs, l, build) BY <1>3, <2>1 DEF LoadedWith
  <2>3. out = Image(build, l) BY <1>0, <2>2, CollectedIs
  <2> HIDE DEF me, out, x
  <2>4. x = [pc |-> "create", funcs |-> me.funcs, hit |-> me.hit, len |-> me.len, out |-> out]
        /\ me.len \in Nat /\ me.hit \in BOOLEAN
    BY <1>0, <1>3 DEF IsProcess
  <2>5. IsProcess(x) /\ x.pc = "create" /\ x.hit = me.hit /\ x.funcs = me.funcs /\ x.out = out
    BY <2>4 DEF IsProcess, PCs
  <2>6. LoadedWith(x, l, build) BY <2>2, <2>3, <2>5 DEF LoadedWith
  <2>7. ProcessOK(x, file, build) BY <1>3, <2>5, <2>6 DEF ProcessOK
  <2>8. QED BY <1>0, <1>1, <2>5, <2>7, OneMoves DEF x
<1>4. QED BY <1>1, <1>2, <1>3

LEMMA CreateStep ==
    ASSUME SaveInv, NEW p \in Procs, CreateFile(p)
    PROVE  SaveInv'
<1> DEFINE me == proc[p]
           x == proc'[p]
<1>0. /\ build \in Nat /\ starts \in Nat /\ proc = [q \in Procs |-> proc[q]] /\ IsProcess(me)
      /\ ProcessOK(me, file, build)
  BY DEF SaveInv
<1>1. /\ me.pc = "create" /\ file' = <<>> /\ build' = build /\ starts' = starts
      /\ proc' = [proc EXCEPT ![p] = proc'[p]] /\ x = [me EXCEPT !.pc = "created"]
      /\ \A q \in Procs : proc[q].pc # "write"
  BY <1>0 DEF CreateFile, FileQuiet
<1>2. PICK l \in LinkSets : LoadedWith(me, l, build) BY <1>0, <1>1 DEF ProcessOK
<1>3. file' \in Seq(Cell) BY <1>1
<1>4. ~me.hit BY <1>0, <1>1 DEF ProcessOK, Saving
<1> HIDE DEF me, x
<1>5. x = [pc |-> "created", funcs |-> me.funcs, hit |-> me.hit, len |-> me.len, out |-> me.out]
      /\ me.len \in Nat /\ me.hit \in BOOLEAN
  BY <1>0, <1>1 DEF IsProcess
<1>6. IsProcess(x) /\ x.pc = "created" /\ x.funcs = me.funcs /\ x.hit = me.hit /\ x.out = me.out
  BY <1>5 DEF IsProcess, PCs
<1>7. LoadedWith(x, l, build) BY <1>1, <1>2, <1>6 DEF LoadedWith, Saving
<1>8. ProcessOK(x, file', build) BY <1>3, <1>4, <1>6, <1>7 DEF ProcessOK
<1>9. QED BY <1>0, <1>1, <1>3, <1>6, <1>8, OneMoves DEF x

\* A process that saves has something to write.
LEMMA OutIs ==
    ASSUME NEW b \in Nat, NEW l \in LinkSets, NEW me, LoadedWith(me, l, b), me.pc \in Saving
    PROVE  /\ me.out = Image(b, l) /\ me.out \in Seq(Cell)
           /\ Len(me.out) = EndOf(l) /\ EndOf(l) \in Nat /\ EndOf(l) >= 1
<1>1. me.out = Image(b, l) BY DEF LoadedWith
<1>2. Image(b, l) \in Seq(Cell) /\ Len(Image(b, l)) = EndOf(l) BY ImageIs
<1>3. EndOf(l) \in Nat /\ EndOf(l) >= 1 BY EndsGrow
<1>4. QED BY <1>1, <1>2, <1>3

LEMMA BeginStep ==
    ASSUME SaveInv, NEW p \in Procs, BeginWrite(p)
    PROVE  SaveInv'
<1> DEFINE me == proc[p]
           x == proc'[p]
<1>0. /\ build \in Nat /\ starts \in Nat /\ proc = [q \in Procs |-> proc[q]] /\ IsProcess(me)
      /\ ProcessOK(me, file, build)
  BY DEF SaveInv
<1>1. /\ me.pc = "created" /\ file' = file /\ build' = build /\ starts' = starts
      /\ proc' = [proc EXCEPT ![p] = proc'[p]] /\ x = [me EXCEPT !.pc = "write", !.len = 0]
      /\ \A q \in Procs : proc[q].pc # "write"
  BY <1>0 DEF BeginWrite, FileQuiet
<1>2. PICK l \in LinkSets : LoadedWith(me, l, build) BY <1>0, <1>1 DEF ProcessOK
<1>3. file \in Seq(Cell) /\ ~me.hit BY <1>0, <1>1 DEF ProcessOK, Saving
<1>4. Len(me.out) \in Nat /\ Len(me.out) >= 1 BY <1>0, <1>1, <1>2, OutIs DEF Saving
<1> HIDE DEF me, x
<1>5. x = [pc |-> "write", funcs |-> me.funcs, hit |-> me.hit, len |-> 0, out |-> me.out]
      /\ me.hit \in BOOLEAN
  BY <1>0, <1>1 DEF IsProcess
<1>6. /\ IsProcess(x) /\ x.pc = "write" /\ x.funcs = me.funcs /\ x.hit = me.hit /\ x.out = me.out
      /\ x.len = 0
  BY <1>5 DEF IsProcess, PCs
<1>7. LoadedWith(x, l, build) BY <1>1, <1>2, <1>6 DEF LoadedWith, Saving
<1>8. x.len < Len(x.out) /\ x.len <= Len(file) /\ \A k \in 1 .. x.len : file[k] = x.out[k]
  BY <1>3, <1>4, <1>6
<1>9. ProcessOK(x, file', build) BY <1>1, <1>3, <1>6, <1>7, <1>8 DEF ProcessOK
<1>10. QED BY <1>0, <1>1, <1>6, <1>9, OneMoves DEF x

\* One more cell of a file.
Written(f, k, c) == IF k <= Len(f) THEN [f EXCEPT ![k] = c] ELSE Append(f, c)

LEMMA WrittenIs ==
    ASSUME NEW f \in Seq(Cell), NEW c \in Cell, NEW k \in Nat \ {0}, k <= Len(f) + 1
    PROVE  LET g == Written(f, k, c)
           IN  /\ g \in Seq(Cell) /\ k <= Len(g) /\ g[k] = c
               /\ \A i \in 1 .. Len(g) : i # k => i \in 1 .. Len(f) /\ g[i] = f[i]
<1> DEFINE g == Written(f, k, c)
<1>0. g = IF k <= Len(f) THEN [f EXCEPT ![k] = c] ELSE Append(f, c) BY DEF Written
<1>1. Len(f) \in Nat OBVIOUS
<1> HIDE DEF g
<1>2. CASE k <= Len(f)
  <2>1. g = [f EXCEPT ![k] = c] BY <1>0, <1>2
  <2>2. f \in [1 .. Len(f) -> Cell] OBVIOUS
  <2>3. g \in [1 .. Len(f) -> Cell] /\ \A i \in 1 .. Len(f) : g[i] = IF i = k THEN c ELSE f[i]
    BY <2>1, <2>2
  <2>4. g \in Seq(Cell) /\ Len(g) = Len(f) BY <1>1, <2>3, FunctionIsSeq
  <2>5. QED BY <1>1, <1>2, <2>3, <2>4 DEF g
<1>3. CASE ~(k <= Len(f))
  <2>1. g = Append(f, c) /\ k = Len(f) + 1 BY <1>0, <1>1, <1>3
  <2>2. g \in Seq(Cell) /\ Len(g) = k /\ g[k] = c /\ \A i \in 1 .. Len(f) : g[i] = f[i]
    BY <1>1, <2>1
  <2>3. \A i \in 1 .. Len(g) : i # k => i \in 1 .. Len(f) BY <1>1, <2>1, <2>2
  <2>4. QED BY <1>1, <2>2, <2>3 DEF g
<1>4. QED BY <1>2, <1>3

\* What a writing process does.
LEMMA WriteIs ==
    ASSUME SaveInv, NEW p \in Procs, WriteCell(p)
    PROVE  LET me == proc[p]
               k == me.len + 1
           IN  /\ me.pc = "write" /\ file \in Seq(Cell) /\ me.len \in Nat
               /\ \E l \in LinkSets : /\ FreshStore(me.funcs, l, build) /\ me.out = Image(build, l)
                                      /\ Len(me.out) = EndOf(l) /\ EndOf(l) \in Nat
                                      /\ k \in 1 .. EndOf(l)
               /\ file' \in Seq(Cell) /\ k <= Len(file') /\ file'[k] = me.out[k]
               /\ \A i \in 1 .. Len(file') : i # k => i \in 1 .. Len(file) /\ file'[i] = file[i]
               /\ \A i \in 1 .. k : file'[i] = me.out[i]
<1> DEFINE me == proc[p]
           k == me.len + 1
<1>0. /\ build \in Nat /\ IsProcess(me) /\ ProcessOK(me, file, build)
  BY DEF SaveInv
<1>1. /\ me.pc = "write"
      /\ file' = IF k <= Len(file) THEN [file EXCEPT ![k] = me.out[k]] ELSE Append(file, me.out[k])
  BY DEF WriteCell
<1>2. PICK l \in LinkSets : LoadedWith(me, l, build) BY <1>0, <1>1 DEF ProcessOK
<1>3. /\ file \in Seq(Cell) /\ ~me.hit /\ me.len \in Nat
      /\ me.len < Len(me.out) /\ me.len <= Len(file) /\ \A i \in 1 .. me.len : file[i] = me.out[i]
  BY <1>0, <1>1 DEF ProcessOK, IsProcess, Saving
<1>4. FreshStore(me.funcs, l, build) BY <1>2, <1>3 DEF LoadedWith
<1>5. me.out = Image(build, l) /\ me.out \in Seq(Cell) /\ Len(me.out) = EndOf(l) /\ EndOf(l) \in Nat
  BY <1>0, <1>1, <1>2, OutIs DEF Saving
<1> HIDE DEF me
<1>6. k \in 1 .. EndOf(l) /\ k \in Nat \ {0} /\ k <= Len(file) + 1 /\ me.out[k] \in Cell
  BY <1>3, <1>5
<1> DEFINE c == me.out[k]
<1>7. file' = Written(file, k, c) BY <1>1 DEF Written
<1> HIDE DEF c
<1>8. /\ file' \in Seq(Cell) /\ k <= Len(file') /\ file'[k] = c
      /\ \A i \in 1 .. Len(file') : i # k => i \in 1 .. Len(file) /\ file'[i] = file[i]
  <2>1. c \in Cell BY <1>6 DEF c
  <2> HIDE DEF k
  <2>2. QED BY <1>3, <1>6, <1>7, <2>1, WrittenIs
<1>9. ASSUME NEW i \in 1 .. k PROVE file'[i] = me.out[i]
  <2>1. CASE i = k BY <2>1, <1>8 DEF c
  <2>2. CASE i # k
    <3>1. i \in 1 .. me.len /\ i \in 1 .. Len(file') BY <2>2, <1>3, <1>8
    <3>2. QED BY <3>1, <2>2, <1>3, <1>8
  <2>3. QED BY <2>1, <2>2
<1>10. QED BY <1>1, <1>3, <1>4, <1>5, <1>6, <1>8, <1>9 DEF c, me

LEMMA WriteStep ==
    ASSUME SaveInv, NEW p \in Procs, WriteCell(p)
    PROVE  SaveInv'
<1> DEFINE me == proc[p]
           k == me.len + 1
           x == proc'[p]
<1>0. /\ build \in Nat /\ starts \in Nat /\ proc = [q \in Procs |-> proc[q]] /\ IsProcess(me)
      /\ ProcessOK(me, file, build) /\ OneWriter
  BY DEF SaveInv
<1>1. /\ build' = build /\ starts' = starts
      /\ proc' = [proc EXCEPT ![p] = proc'[p]]
      /\ x = IF k = Len(me.out) THEN Idle ELSE [me EXCEPT !.len = k]
  BY <1>0 DEF WriteCell
<1>2. /\ me.pc = "write" /\ file' \in Seq(Cell) /\ me.len \in Nat /\ Len(me.out) \in Nat
      /\ k \in 1 .. Len(me.out) /\ k <= Len(file') /\ \A i \in 1 .. k : file'[i] = me.out[i]
  BY WriteIs
<1>3. \A q \in Procs \ {p} : proc[q].pc # "write" BY <1>0, <1>2 DEF OneWriter
<1>4. IsProcess(x) /\ ProcessOK(x, file', build)
  <2>1. CASE k = Len(me.out)
    <3>1. x = Idle BY <1>1, <2>1
    <3> HIDE DEF x
    <3>2. QED BY <3>1, IdleIs
  <2>2. CASE k # Len(me.out)
    <3>1. PICK l \in LinkSets : LoadedWith(me, l, build) BY <1>0, <1>2 DEF ProcessOK
    <3>2. x = [me EXCEPT !.len = k] /\ k \in Nat /\ k < Len(me.out) BY <1>1, <1>2, <2>2
    <3>3. ~me.hit BY <1>0, <1>2 DEF ProcessOK, Saving
    <3> HIDE DEF me, x, k
    <3>4. x = [pc |-> me.pc, funcs |-> me.funcs, hit |-> me.hit, len |-> k, out |-> me.out]
          /\ me.hit \in BOOLEAN
      BY <1>0, <3>2 DEF IsProcess
    <3>5. /\ IsProcess(x) /\ x.pc = "write" /\ x.funcs = me.funcs /\ x.hit = me.hit /\ x.out = me.out
          /\ x.len = k
      BY <1>2, <3>2, <3>4 DEF IsProcess, PCs
    <3>6. LoadedWith(x, l, build) BY <1>2, <3>1, <3>5 DEF LoadedWith, Saving
    <3>7. QED BY <1>2, <3>2, <3>3, <3>5, <3>6 DEF ProcessOK
  <2>3. QED BY <2>1, <2>2
<1>5. QED BY <1>0, <1>1, <1>2, <1>3, <1>4, OneMoves

LEMMA UpgradeStep == ASSUME SaveInv, Upgrade PROVE SaveInv'
<1>1. /\ build \in Nat /\ starts \in Nat /\ proc = [p \in Procs |-> proc[p]]
      /\ file # NoFile => file \in Seq(Cell)
      /\ \A p \in Procs : IsProcess(proc[p]) /\ ProcessOK(proc[p], file, build)
  BY DEF SaveInv
<1>2. /\ build' = build + 1 /\ file' = file /\ proc' = proc /\ starts' = starts
      /\ \A p \in Procs : proc[p].pc = "idle"
  BY DEF Upgrade
<1>3. \A p \in Procs : proc[p] = Idle BY <1>1, <1>2 DEF ProcessOK
<1>4. \A p \in Procs : IsProcess(proc'[p]) /\ ProcessOK(proc'[p], file', build')
  BY <1>1, <1>2, <1>3, IdleIs
<1>5. OneWriter' BY <1>2 DEF OneWriter
<1>6. QED BY <1>1, <1>2, <1>4, <1>5 DEF SaveInv

LEMMA SaveInvNext == SaveInv /\ [CacheNext]_cacheVars => SaveInv'
<1> SUFFICES ASSUME SaveInv, [CacheNext]_cacheVars PROVE SaveInv'
  OBVIOUS
<1>1. CASE Upgrade BY <1>1, UpgradeStep
<1>2. ASSUME NEW p \in Procs, NEW l \in LinkSets, NEW ran \in BOOLEAN, Start(p, l, ran) PROVE SaveInv'
  BY <1>2, StartStep
<1>3. ASSUME NEW p \in Procs, OpenFile(p) \/ Compile(p) PROVE SaveInv' BY <1>3, OpenStep
<1>4. ASSUME NEW p \in Procs, ReadFile(p) PROVE SaveInv' BY <1>4, ReadStep
<1>5. ASSUME NEW p \in Procs, EndRun(p) \/ Dies(p) PROVE SaveInv' BY <1>5, EndRunStep
<1>6. ASSUME NEW p \in Procs, CreateFile(p) PROVE SaveInv' BY <1>6, CreateStep
<1>7. ASSUME NEW p \in Procs, BeginWrite(p) PROVE SaveInv' BY <1>7, BeginStep
<1>8. ASSUME NEW p \in Procs, WriteCell(p) PROVE SaveInv' BY <1>8, WriteStep
<1>9. CASE UNCHANGED cacheVars BY <1>9 DEF cacheVars, SaveInv, OneWriter
<1>10. QED BY <1>1, <1>2, <1>3, <1>4, <1>5, <1>6, <1>7, <1>8, <1>9 DEF CacheNext

LEMMA SaveInvAlways == CacheSpec => []SaveInv
<1>1. QED BY SaveInvInit, SaveInvNext, PTL DEF CacheSpec

-----------------------------------------------------------------------------
\* The invariant of the file, when all processes have the same links.

LEMMA OneLinkInit == ASSUME NEW l PROVE CacheInit => OneLinkInv(l)
<1> SUFFICES ASSUME CacheInit PROVE OneLinkInv(l)
  OBVIOUS
<1>1. file = NoFile /\ \A p \in Procs : proc[p] = Idle BY DEF CacheInit
<1>2. \A p \in Procs : proc[p].pc = "idle" /\ DOMAIN proc[p].funcs = {}
  <2>1. DOMAIN Idle.funcs = {} BY IdleIs
  <2>2. QED BY <1>1, <2>1, IdleIs
<1>3. QED BY <1>1, <1>2 DEF OneLinkInv

\* What one process may do to the file and to itself.
LEMMA OneLinkMoves ==
    ASSUME SaveInv, NEW l, OneLinkInv(l), build' = build, NEW p \in Procs,
           proc' = [proc EXCEPT ![p] = proc'[p]],
           \/ file' = file
           \/ Begins(file', build, l),
           proc'[p].pc = "read" => \E v \in Nat : Begins(file', v, l),
           proc'[p].pc \in {"created", "write"} => Begins(file', build, l),
           \A i \in DOMAIN proc'[p].funcs : CodeIsOwn(proc'[p].funcs[i], build)
    PROVE  OneLinkInv(l)'
<1>1. build \in Nat /\ proc = [q \in Procs |-> proc[q]] BY DEF SaveInv
<1>2. \A q \in Procs \ {p} : proc'[q] = proc[q] BY <1>1
<1>3. file' # NoFile => \E v \in Nat : Begins(file', v, l) BY <1>1 DEF OneLinkInv
<1>4. ASSUME NEW q \in Procs
      PROVE  /\ proc'[q].pc = "read" => \E v \in Nat : Begins(file', v, l)
             /\ proc'[q].pc \in {"created", "write"} => Begins(file', build, l)
             /\ \A i \in DOMAIN proc'[q].funcs : CodeIsOwn(proc'[q].funcs[i], build)
  <2>1. CASE q = p BY <2>1
  <2>2. CASE q # p
    <3>1. /\ proc'[q] = proc[q]
          /\ proc[q].pc = "read" => \E v \in Nat : Begins(file, v, l)
          /\ proc[q].pc \in {"created", "write"} => Begins(file, build, l)
          /\ \A i \in DOMAIN proc[q].funcs : CodeIsOwn(proc[q].funcs[i], build)
      BY <1>2, <2>2 DEF OneLinkInv
    <3>2. CASE file' = file BY <3>1, <3>2
    <3>3. CASE Begins(file', build, l) BY <1>1, <3>1, <3>3
    <3>4. QED BY <3>2, <3>3
  <2>3. QED BY <2>1, <2>2
<1>5. QED BY <1>3, <1>4 DEF OneLinkInv

LEMMA StartOneLink ==
    ASSUME SaveInv, NEW l, OneLinkInv(l), NEW p \in Procs, NEW k \in LinkSets, NEW ran \in BOOLEAN,
           Start(p, k, ran)
    PROVE  OneLinkInv(l)'
<1> DEFINE s == StoreOf(k)
           t == IF ran THEN [s EXCEPT ![Len(s)] = Predecoded(@, build)] ELSE s
           x == [Idle EXCEPT !.pc = "open", !.funcs = t]
<1>0. build \in Nat /\ proc = [q \in Procs |-> proc[q]] BY DEF SaveInv
<1>1. proc' = [proc EXCEPT ![p] = x] /\ file' = file /\ build' = build BY DEF Start
<1>2. FreshStore(t, k, build)
  <2>1. t = Started(k, ran, build) BY DEF Started
  <2>2. QED BY <1>0, <2>1, StartedIs
<1> HIDE DEF t
<1>3. x.pc = "open" /\ x.funcs = t BY DEF Idle
<1> HIDE DEF x
<1>4. \A i \in DOMAIN x.funcs : CodeIsOwn(x.funcs[i], build) BY <1>2, <1>3, FreshIsOwn
<1>5. proc'[p] = x BY <1>0, <1>1
<1>6. proc' = [proc EXCEPT ![p] = proc'[p]] BY <1>1, <1>5
<1>7. /\ proc'[p].pc \notin {"read", "created", "write"}
      /\ \A i \in DOMAIN proc'[p].funcs : CodeIsOwn(proc'[p].funcs[i], build)
  BY <1>3, <1>4, <1>5
<1>8. QED BY <1>1, <1>6, <1>7, OneLinkMoves

\* A process that goes on with the functions it has.
LEMMA GoesOnOneLink ==
    ASSUME SaveInv, NEW l, OneLinkInv(l), NEW p \in Procs,
           OpenFile(p) \/ Compile(p) \/ EndRun(p) \/ BeginWrite(p) \/ Dies(p)
    PROVE  OneLinkInv(l)'
<1> DEFINE me == proc[p]
           x == proc'[p]
<1>0. /\ build \in Nat /\ proc = [q \in Procs |-> proc[q]] /\ IsProcess(me)
      /\ file # NoFile => \E v \in Nat : Begins(file, v, l)
      /\ me.pc \in {"created", "write"} => Begins(file, build, l)
      /\ \A i \in DOMAIN me.funcs : CodeIsOwn(me.funcs[i], build)
  BY DEF SaveInv, OneLinkInv
<1>1. /\ file' = file /\ build' = build /\ proc' = [proc EXCEPT ![p] = proc'[p]]
      /\ \/ x = Idle
         \/ x.pc = "run" /\ x.funcs = me.funcs
         \/ x.pc = "read" /\ x.funcs = me.funcs /\ file # NoFile
         \/ x.pc = "create" /\ x.funcs = me.funcs
         \/ x.pc = "write" /\ x.funcs = me.funcs /\ me.pc = "created"
  <2>0. me = [pc |-> me.pc, funcs |-> me.funcs, hit |-> me.hit, len |-> me.len, out |-> me.out]
    BY <1>0 DEF IsProcess
  <2>1. CASE OpenFile(p)
    <3>1. /\ file' = file /\ build' = build /\ proc' = [proc EXCEPT ![p] = x]
          /\ x = IF file = NoFile THEN [me EXCEPT !.pc = "run"] ELSE [me EXCEPT !.pc = "read", !.len = Len(file)]
      BY <2>1, <1>0 DEF OpenFile
    <3>2. QED BY <2>0, <3>1
  <2>2. CASE Compile(p) BY <2>0, <2>2, <1>0 DEF Compile
  <2>3. CASE EndRun(p)
    <3> DEFINE out == serialize(build, collectIrFuncs(me.funcs, build))
    <3>1. /\ file' = file /\ build' = build /\ proc' = [proc EXCEPT ![p] = x]
          /\ x = IF me.hit THEN Idle ELSE [me EXCEPT !.pc = "create", !.out = out]
      BY <2>3, <1>0 DEF EndRun
    <3> HIDE DEF out
    <3>2. QED BY <2>0, <3>1
  <2>4. CASE BeginWrite(p) BY <2>0, <2>4, <1>0 DEF BeginWrite
  <2>5. CASE Dies(p) BY <2>5, <1>0 DEF Dies
  <2>6. QED BY <2>1, <2>2, <2>3, <2>4, <2>5
<1> HIDE DEF me, x
<1>2. \A i \in DOMAIN x.funcs : CodeIsOwn(x.funcs[i], build)
  <2>1. CASE x = Idle
    <3>1. DOMAIN Idle.funcs = {} BY IdleIs
    <3>2. QED BY <2>1, <3>1
  <2>2. CASE x.funcs = me.funcs BY <1>0, <2>2
  <2>3. QED BY <1>1, <2>1, <2>2
<1>3. /\ x.pc = "read" => \E v \in Nat : Begins(file', v, l)
      /\ x.pc \in {"created", "write"} => Begins(file', build, l)
  BY <1>0, <1>1, IdleIs
<1>4. QED BY <1>1, <1>2, <1>3, OneLinkMoves DEF x

LEMMA ReadOneLink ==
    ASSUME SaveInv, NEW l, LinkSets = {l}, OneLinkInv(l), NEW p \in Procs, ReadFile(p)
    PROVE  OneLinkInv(l)'
<1> DEFINE me == proc[p]
           got == IF Len(file) < me.len THEN Miss ELSE deserialize(SubSeq(file, 1, me.len), build)
           fs == IF got.hit THEN applyCachedIr(got.irs, me.funcs) ELSE me.funcs
           x == [me EXCEPT !.pc = "run", !.hit = got.hit, !.funcs = fs]
<1>0. /\ build \in Nat /\ proc = [q \in Procs |-> proc[q]] /\ IsProcess(me)
      /\ ProcessOK(me, file, build)
      /\ me.pc = "read" => \E v \in Nat : Begins(file, v, l)
      /\ l \in LinkSets
  BY DEF SaveInv, OneLinkInv
<1>1. me.pc = "read" /\ file' = file /\ build' = build /\ proc' = [proc EXCEPT ![p] = x]
  BY DEF ReadFile
<1>2. FreshStore(me.funcs, l, build)
  <2>1. PICK k \in LinkSets : LoadedWith(me, k, build) BY <1>0, <1>1 DEF ProcessOK
  <2>2. k = l /\ ~me.hit BY <1>0, <1>1 DEF ProcessOK
  <2>3. QED BY <2>1, <2>2 DEF LoadedWith
<1>3. PICK v \in Nat : Begins(file, v, l) BY <1>0, <1>1
<1>4. file \in Seq(Cell) /\ me.len \in Nat BY <1>0, <1>3 DEF Begins, IsProcess
<1>5. got.hit => /\ DOMAIN got.irs = 1 .. Saved(l)
                 /\ \A i \in 1 .. Saved(l) : got.irs[i] = IrAt(build, l, i)
  <2>1. CASE Len(file) < me.len BY <2>1, HitIs
  <2>2. CASE ~(Len(file) < me.len)
    <3> DEFINE data == SubSeq(file, 1, me.len)
    <3>1. Begins(data, v, l)
      <4>1. me.len <= Len(file) BY <1>4, <2>2
      <4>2. QED BY <4>1, <1>0, <1>3, <1>4, FileParts
    <3>2. got = deserialize(data, build) BY <2>2
    <3> HIDE DEF data, got
    <3>3. got.hit => /\ build = v /\ DOMAIN got.irs = 1 .. Saved(l)
                     /\ \A i \in 1 .. Saved(l) : got.irs[i] = IrAt(v, l, i)
      BY <1>0, <3>1, <3>2, Restores
    <3>4. QED BY <3>3
  <2>3. QED BY <2>1, <2>2
<1> HIDE DEF got, me
<1>6. \A i \in DOMAIN fs : CodeIsOwn(fs[i], build)
  <2>1. CASE got.hit
    <3>1. fs = applyCachedIr(got.irs, me.funcs) BY <2>1
    <3> HIDE DEF fs
    <3> DEFINE irs == got.irs
               funcs == me.funcs
    <3>2. /\ FreshStore(funcs, l, build) /\ DOMAIN irs = 1 .. Saved(l)
          /\ \A i \in 1 .. Saved(l) : irs[i] = IrAt(build, l, i)
      BY <2>1, <1>2, <1>5
    <3>3. fs = applyCachedIr(irs, funcs) BY <3>1
    <3> HIDE DEF irs, funcs
    <3>4. QED BY <1>0, <3>2, <3>3, AppliedIs
  <2>2. CASE ~got.hit
    <3>1. fs = me.funcs BY <2>2
    <3> HIDE DEF fs
    <3>2. QED BY <3>1, <1>2, FreshIsOwn
  <2>3. QED BY <2>1, <2>2
<1> HIDE DEF fs
<1>7. x.pc = "run" /\ x.funcs = fs
  <2>1. me = [pc |-> me.pc, funcs |-> me.funcs, hit |-> me.hit, len |-> me.len, out |-> me.out]
    BY <1>0 DEF IsProcess
  <2>2. QED BY <2>1
<1> HIDE DEF x
<1>8. proc'[p] = x BY <1>0, <1>1
<1>9. proc' = [proc EXCEPT ![p] = proc'[p]] BY <1>1, <1>8
<1>10. /\ proc'[p].pc \notin {"read", "created", "write"}
       /\ \A i \in DOMAIN proc'[p].funcs : CodeIsOwn(proc'[p].funcs[i], build)
  BY <1>6, <1>7, <1>8
<1>11. QED BY <1>1, <1>9, <1>10, OneLinkMoves

LEMMA CreateOneLink ==
    ASSUME SaveInv, NEW l \in LinkSets, OneLinkInv(l), NEW p \in Procs, CreateFile(p)
    PROVE  OneLinkInv(l)'
<1> DEFINE me == proc[p]
           x == proc'[p]
<1>0. /\ build \in Nat /\ proc = [q \in Procs |-> proc[q]] /\ IsProcess(me)
      /\ \A i \in DOMAIN me.funcs : CodeIsOwn(me.funcs[i], build)
  BY DEF SaveInv, OneLinkInv
<1>1. /\ file' = <<>> /\ build' = build /\ proc' = [proc EXCEPT ![p] = proc'[p]]
      /\ x = [me EXCEPT !.pc = "created"]
  BY <1>0 DEF CreateFile
<1>2. x.pc = "created" /\ x.funcs = me.funcs BY <1>0, <1>1 DEF IsProcess
<1>3. Begins(file', build, l) BY <1>0, <1>1, FileParts
<1> HIDE DEF me
<1>4. \A i \in DOMAIN x.funcs : CodeIsOwn(x.funcs[i], build)
  <2> HIDE DEF x
  <2>1. QED BY <1>0, <1>2
<1>5. QED BY <1>1, <1>2, <1>3, <1>4, OneLinkMoves

LEMMA WriteOneLink ==
    ASSUME SaveInv, NEW l, LinkSets = {l}, OneLinkInv(l), NEW p \in Procs, WriteCell(p)
    PROVE  OneLinkInv(l)'
<1> DEFINE me == proc[p]
           k == me.len + 1
           x == proc'[p]
<1>0. /\ build \in Nat /\ proc = [q \in Procs |-> proc[q]] /\ IsProcess(me)
      /\ me.pc = "write" => Begins(file, build, l)
      /\ \A i \in DOMAIN me.funcs : CodeIsOwn(me.funcs[i], build)
  BY DEF SaveInv, OneLinkInv
<1>1. /\ build' = build /\ proc' = [proc EXCEPT ![p] = proc'[p]]
      /\ x = IF k = Len(me.out) THEN Idle ELSE [me EXCEPT !.len = k]
  BY <1>0 DEF WriteCell
<1>2. /\ me.pc = "write" /\ file' \in Seq(Cell)
      /\ me.out = Image(build, l) /\ k \in 1 .. EndOf(l)
      /\ file'[k] = me.out[k]
      /\ \A i \in 1 .. Len(file') : i # k => i \in 1 .. Len(file) /\ file'[i] = file[i]
  BY WriteIs
<1> HIDE DEF me, k
<1>3. Begins(file', build, l)
  <2>1. \A i \in 1 .. Len(file) : i <= EndOf(l) => file[i] = Image(build, l)[i]
    BY <1>0, <1>2 DEF Begins
  <2>2. ASSUME NEW i \in 1 .. Len(file'), i <= EndOf(l) PROVE file'[i] = Image(build, l)[i]
    <3>1. CASE i = k BY <1>2, <3>1
    <3>2. CASE i # k BY <1>2, <2>1, <2>2, <3>2
    <3>3. QED BY <3>1, <3>2
  <2>3. QED BY <1>2, <2>2 DEF Begins
<1>4. /\ x.pc # "read"
      /\ \A i \in DOMAIN x.funcs : CodeIsOwn(x.funcs[i], build)
  <2>1. CASE k = Len(me.out)
    <3>1. x = Idle BY <1>1, <2>1
    <3> HIDE DEF x
    <3>2. DOMAIN Idle.funcs = {} BY IdleIs
    <3>3. QED BY <3>1, <3>2, IdleIs
  <2>2. CASE k # Len(me.out)
    <3>1. x = [me EXCEPT !.len = k] BY <1>1, <2>2
    <3> HIDE DEF x
    <3>2. x.pc = me.pc /\ x.funcs = me.funcs BY <1>0, <3>1 DEF IsProcess
    <3>3. QED BY <1>0, <1>2, <3>2
  <2>3. QED BY <2>1, <2>2
<1>5. QED BY <1>1, <1>3, <1>4, OneLinkMoves DEF x

LEMMA UpgradeOneLink ==
    ASSUME SaveInv, NEW l, OneLinkInv(l), Upgrade PROVE OneLinkInv(l)'
<1>1. /\ file' = file /\ proc' = proc /\ \A p \in Procs : proc[p].pc = "idle"
      /\ \A p \in Procs : ProcessOK(proc[p], file, build)
      /\ file # NoFile => \E v \in Nat : Begins(file, v, l)
  BY DEF Upgrade, SaveInv, OneLinkInv
<1>2. \A p \in Procs : proc[p].pc = "idle" /\ DOMAIN proc[p].funcs = {}
  <2>1. DOMAIN Idle.funcs = {} BY IdleIs
  <2>2. \A p \in Procs : proc[p] = Idle BY <1>1 DEF ProcessOK
  <2>3. QED BY <1>1, <2>1, <2>2
<1>3. QED BY <1>1, <1>2 DEF OneLinkInv

LEMMA OneLinkNext ==
    ASSUME NEW l, LinkSets = {l}
    PROVE  SaveInv /\ OneLinkInv(l) /\ [CacheNext]_cacheVars => OneLinkInv(l)'
<1> SUFFICES ASSUME SaveInv, OneLinkInv(l), [CacheNext]_cacheVars PROVE OneLinkInv(l)'
  OBVIOUS
<1>0. l \in LinkSets OBVIOUS
<1>1. CASE Upgrade BY <1>1, UpgradeOneLink
<1>2. ASSUME NEW p \in Procs, NEW k \in LinkSets, NEW ran \in BOOLEAN, Start(p, k, ran) PROVE OneLinkInv(l)'
  BY <1>2, StartOneLink
<1>3. ASSUME NEW p \in Procs, OpenFile(p) \/ Compile(p) \/ EndRun(p) \/ BeginWrite(p) \/ Dies(p)
      PROVE  OneLinkInv(l)'
  BY <1>3, GoesOnOneLink
<1>4. ASSUME NEW p \in Procs, ReadFile(p) PROVE OneLinkInv(l)' BY <1>4, ReadOneLink
<1>5. ASSUME NEW p \in Procs, CreateFile(p) PROVE OneLinkInv(l)' BY <1>0, <1>5, CreateOneLink
<1>6. ASSUME NEW p \in Procs, WriteCell(p) PROVE OneLinkInv(l)' BY <1>6, WriteOneLink
<1>7. CASE UNCHANGED cacheVars BY <1>7 DEF cacheVars, OneLinkInv
<1>8. QED BY <1>1, <1>2, <1>3, <1>4, <1>5, <1>6, <1>7 DEF CacheNext

-----------------------------------------------------------------------------
(* When all processes are started with the same links, every function runs  *)
(* code that this build made of it, whatever the file went through          *)
(* (deserialize, applyCachedIr): IrIsOwn.  With two link sets it is false,  *)
(* see the run cache_links.                                                 *)
THEOREM CachedCodeIsOwn ==
    ASSUME NEW l, LinkSets = {l}
    PROVE  CacheSpec => []IrIsOwn
<1>1. CacheInit => OneLinkInv(l) BY OneLinkInit
<1>2. SaveInv /\ OneLinkInv(l) /\ [CacheNext]_cacheVars => OneLinkInv(l)' BY OneLinkNext
<1>3. OneLinkInv(l) => IrIsOwn BY DEF OneLinkInv, IrIsOwn, CodeIsOwn
<1>4. QED BY <1>1, <1>2, <1>3, SaveInvAlways, PTL DEF CacheSpec

(* A save that comes to its end leaves a file that a process of the same    *)
(* build and links reads completely, whatever was in the file before,       *)
(* whoever truncated it in between, and whatever the links of the others    *)
(* are (collectIrFuncs, serialize): SavedIsComplete.                        *)
THEOREM SavesAreComplete == CacheSpec => SavedIsComplete
<1> DEFINE Complete(p) ==
        (proc[p].pc = "write" /\ proc[p].len + 1 = Len(proc[p].out) /\ file' # file) =>
              LET got == deserialize(file', build)
                  funcs == proc[p].funcs
              IN  /\ got.hit
                  /\ \A j \in NumImports + 1 .. Len(funcs) :
                        got.irs[j - NumImports] = predecode(funcs[j].code, build)
<1>1. ASSUME SaveInv, [CacheNext]_cacheVars, NEW p \in Procs PROVE Complete(p)
  <2> DEFINE me == proc[p]
             got == deserialize(file', build)
  <2> SUFFICES ASSUME me.pc = "write", me.len + 1 = Len(me.out), file' # file
               PROVE  /\ got.hit
                      /\ \A j \in NumImports + 1 .. Len(me.funcs) :
                            got.irs[j - NumImports] = predecode(me.funcs[j].code, build)
    OBVIOUS
  <2>1. PICK q \in Procs : CreateFile(q) \/ WriteCell(q)
    BY <1>1 DEF CacheNext, cacheVars, Upgrade, Start, OpenFile, Compile, ReadFile, EndRun,
                BeginWrite, Dies
  <2>2. WriteCell(q) BY <2>1 DEF CreateFile, FileQuiet
  <2>3. q = p BY <1>1, <2>2 DEF WriteCell, SaveInv, OneWriter
  <2>4. WriteCell(p) BY <2>2, <2>3
  <2> DEFINE k == me.len + 1
  <2>5. PICK l \in LinkSets : /\ FreshStore(me.funcs, l, build) /\ me.out = Image(build, l)
                              /\ Len(me.out) = EndOf(l) /\ EndOf(l) \in Nat
    BY <1>1, <2>4, WriteIs
  <2>6. file' \in Seq(Cell) /\ k <= Len(file') /\ \A i \in 1 .. k : file'[i] = me.out[i]
    BY <1>1, <2>4, WriteIs
  <2>7. k = EndOf(l) BY <2>5
  <2> HIDE DEF me, k
  <2>8. Begins(file', build, l) /\ Len(file') >= EndOf(l)
    <3>1. Len(file') \in Nat BY <2>6
    <3>2. \A i \in 1 .. Len(file') : i <= EndOf(l) => file'[i] = Image(build, l)[i]
      BY <2>5, <2>6, <2>7
    <3>3. QED BY <2>5, <2>6, <2>7, <3>1, <3>2 DEF Begins
  <2>9. build \in Nat BY <1>1 DEF SaveInv
  <2>10. got.hit BY <2>8, <2>9, Restores
  <2>11. \A i \in 1 .. Saved(l) : got.irs[i] = IrAt(build, l, i) BY <2>8, <2>9, <2>10, Restores
  <2> HIDE DEF got
  <2>12. ASSUME NEW j \in NumImports + 1 .. Len(me.funcs)
         PROVE  got.irs[j - NumImports] = predecode(me.funcs[j].code, build)
    <3>1. /\ NumImports \in Nat /\ Saved(l) \in Nat /\ StoreSize(l) = NumImports + Saved(l)
          /\ Len(me.funcs) = StoreSize(l)
          /\ \A n \in 1 .. StoreSize(l) : me.funcs[n].code = StoreAt(l, n)
      BY <2>5, Basics DEF FreshStore
    <3> DEFINE i == j - NumImports
    <3>2. i \in 1 .. Saved(l) /\ j \in 1 .. StoreSize(l) /\ NumImports + i = j BY <3>1
    <3> HIDE DEF i
    <3>3. got.irs[i] = predecode(StoreAt(l, j), build) BY <2>11, <3>2 DEF IrAt, CodeAt
    <3>4. QED BY <3>1, <3>2, <3>3 DEF i
  <2>13. QED BY <2>10, <2>12 DEF got
<1>2. SaveInv /\ [CacheNext]_cacheVars => [\A p \in Procs : Complete(p)]_cacheVars
  BY <1>1
<1>3. QED BY <1>2, SaveInvAlways, PTL DEF CacheSpec, SavedIsComplete

=============================================================================
