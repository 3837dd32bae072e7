----------------------------- MODULE MemoryProofs -----------------------------
(***************************************************************************)
(* What the three memories of a store guarantee for every value of the     *)
(* constants: field storage, the queue of waiters, linear memory, and the  *)
(* types of all three together.                                            *)
(***************************************************************************)
EXTENDS MCMemory, SequenceTheorems, FiniteSetTheorems, TLAPS

-----------------------------------------------------------------------------
(***************************************************************************)
(* What FieldArena guarantees for every page size, every set of requests   *)
(* and any allocation failures: slices stay inside their pages; and, as    *)
(* long as no request is larger than a page, objects never share storage.  *)
(***************************************************************************)

\* What SlicesInBounds needs: the last page has room below the cursor.
PagesOK ==
    /\ \A i \in 1 .. Len(pages) : pages[i] >= PageSlots
    /\ pages = <<>> => cursor = PageSlots

BoundsInv == ArenaTypeOK /\ PagesOK /\ SlicesInBounds

LEMMA BoundsInit == ArenaInit => BoundsInv
  BY ArenaAssumption DEF ArenaInit, BoundsInv, ArenaTypeOK, PagesOK, SlicesInBounds

LEMMA BoundsNext == BoundsInv /\ [ArenaNext]_arenaVars => BoundsInv'
<1> SUFFICES ASSUME BoundsInv, [ArenaNext]_arenaVars PROVE BoundsInv'
  OBVIOUS
<1> USE ArenaAssumption
<1>1. ASSUME NEW n \in Sizes, AllocOversized(n) PROVE BoundsInv'
  <2>0. /\ n \in Nat /\ pages \in Seq(Nat) /\ cursor' \in 0 .. PageSlots
        /\ pages' = Append(pages, n) /\ n \in Nat /\ n >= PageSlots
    BY <1>1 DEF AllocOversized, BoundsInv, ArenaTypeOK
  <2>1. ArenaTypeOK' /\ PagesOK'
    <3>1. pages' \in Seq(Nat) /\ pages' # <<>> /\ Len(pages') = Len(pages) + 1
      BY <2>0
    <3>2. slices' \subseteq [page : Nat, start : Nat, n : Nat]
      BY <1>1, <2>0 DEF AllocOversized, BoundsInv, ArenaTypeOK, Slice
    <3>3. \A i \in 1 .. Len(pages') : pages'[i] >= PageSlots
      BY <2>0, <3>1 DEF BoundsInv, PagesOK
    <3>4. QED BY <2>0, <3>1, <3>2, <3>3 DEF ArenaTypeOK, PagesOK
  <2>2. SlicesInBounds'
    BY <1>1 DEF AllocOversized, BoundsInv, ArenaTypeOK, SlicesInBounds, Slice
  <2>3. QED BY <2>1, <2>2 DEF BoundsInv
<1>2. ASSUME NEW n \in Sizes, AllocNewPage(n) PROVE BoundsInv'
  <2>0. /\ n \in Nat /\ pages \in Seq(Nat) /\ cursor' \in 0 .. PageSlots
        /\ pages' = Append(pages, PageSlots) /\ PageSlots \in Nat /\ PageSlots >= PageSlots
    BY <1>2 DEF AllocNewPage, BoundsInv, ArenaTypeOK
  <2>1. ArenaTypeOK' /\ PagesOK'
    <3>1. pages' \in Seq(Nat) /\ pages' # <<>> /\ Len(pages') = Len(pages) + 1
      BY <2>0
    <3>2. slices' \subseteq [page : Nat, start : Nat, n : Nat]
      BY <1>2, <2>0 DEF AllocNewPage, BoundsInv, ArenaTypeOK, Slice
    <3>3. \A i \in 1 .. Len(pages') : pages'[i] >= PageSlots
      BY <2>0, <3>1 DEF BoundsInv, PagesOK
    <3>4. QED BY <2>0, <3>1, <3>2, <3>3 DEF ArenaTypeOK, PagesOK
  <2>2. SlicesInBounds'
    BY <1>2 DEF AllocNewPage, BoundsInv, ArenaTypeOK, SlicesInBounds, Slice
  <2>3. QED BY <2>1, <2>2 DEF BoundsInv
<1>3. ASSUME NEW n \in Sizes, AllocBump(n) PROVE BoundsInv'
  <2>1. n \in Nat /\ pages # <<>>
    BY <1>3 DEF AllocBump, BoundsInv, PagesOK
  <2>2. ArenaTypeOK' /\ PagesOK'
    BY <1>3, <2>1 DEF AllocBump, BoundsInv, ArenaTypeOK, PagesOK, Slice
  <2>3. Len(pages) \in 1 .. Len(pages) /\ pages[Len(pages)] >= PageSlots
    BY <2>1 DEF BoundsInv, ArenaTypeOK, PagesOK
  <2>4. SlicesInBounds'
    BY <1>3, <2>1, <2>3 DEF AllocBump, BoundsInv, ArenaTypeOK, SlicesInBounds, Slice
  <2>5. QED BY <2>2, <2>4 DEF BoundsInv
<1>4. CASE UNCHANGED arenaVars
  BY <1>4 DEF BoundsInv, ArenaTypeOK, PagesOK, SlicesInBounds, arenaVars
<1>5. ASSUME NEW n \in Sizes, AllocNothing(n) PROVE BoundsInv'
  BY <1>5, <1>4 DEF AllocNothing
<1>6. QED BY <1>1, <1>2, <1>3, <1>4, <1>5 DEF ArenaNext, allocFields

(* Every slice FieldArena.allocFields returns lies inside its page, also   *)
(* after oversized requests and failed page allocations.                   *)
THEOREM ArenaInBounds == ArenaSpec => [](ArenaTypeOK /\ SlicesInBounds)
<1>1. BoundsInv => ArenaTypeOK /\ SlicesInBounds BY DEF BoundsInv
<1>2. QED BY BoundsInit, BoundsNext, <1>1, PTL DEF ArenaSpec

-----------------------------------------------------------------------------
\* The slices of the last page lie below the cursor.  An oversized request
\* breaks this: it adds a last page and leaves the cursor where it was.
BelowCursor ==
    \A s \in slices : s.page = Len(pages) => s.start + s.n <= cursor

DisjointInv == BoundsInv /\ (NoOversized => BelowCursor /\ StorageIsDisjoint)

LEMMA DisjointNext == DisjointInv /\ [ArenaNext]_arenaVars => DisjointInv'
<1> SUFFICES ASSUME DisjointInv, [ArenaNext]_arenaVars PROVE DisjointInv'
  OBVIOUS
<1> USE ArenaAssumption
<1>0. BoundsInv' BY BoundsNext DEF DisjointInv
<1>a. ASSUME NoOversized => (NoOversized' => BelowCursor' /\ StorageIsDisjoint'),
             NoOversized' => NoOversized
      PROVE  DisjointInv'
  BY <1>0, <1>a DEF DisjointInv
<1>1. ASSUME NEW n \in Sizes, AllocNewPage(n) PROVE DisjointInv'
  <2>0. pages \in Seq(Nat) /\ pages' = Append(pages, PageSlots)
    BY <1>1 DEF AllocNewPage, DisjointInv, BoundsInv, ArenaTypeOK
  <2>1. \A s \in slices : s.page \in 1 .. Len(pages)
    BY DEF DisjointInv, BoundsInv, SlicesInBounds
  <2>2. Len(pages') = Len(pages) + 1 /\ Len(pages) \in Nat BY <2>0
  <2>n. NoOversized' => NoOversized BY <2>0, <2>2 DEF NoOversized
  <2>3. BelowCursor'
    BY <1>1, <2>1, <2>2 DEF AllocNewPage, BelowCursor, Slice
  <2>4. StorageIsDisjoint => StorageIsDisjoint'
    BY <1>1, <2>1, <2>2 DEF AllocNewPage, StorageIsDisjoint, Overlap, Slice
  <2>5. QED BY <1>a, <2>n, <2>3, <2>4 DEF DisjointInv
<1>2. ASSUME NEW n \in Sizes, AllocBump(n) PROVE DisjointInv'
  <2>n. NoOversized' => NoOversized BY <1>2 DEF AllocBump, NoOversized
  <2> SUFFICES ASSUME BelowCursor, StorageIsDisjoint
               PROVE  BelowCursor' /\ StorageIsDisjoint'
    BY <1>a, <2>n DEF DisjointInv
  <2>1. \A s \in slices : s.start \in Nat /\ s.n \in Nat /\ s.page \in Nat
    BY DEF DisjointInv, BoundsInv, ArenaTypeOK
  <2>2. BelowCursor'
    BY <1>2, <2>1
       DEF AllocBump, DisjointInv, BoundsInv, ArenaTypeOK, BelowCursor, Slice
  <2>3. StorageIsDisjoint'
    BY <1>2, <2>1
       DEF AllocBump, DisjointInv, BoundsInv, ArenaTypeOK, BelowCursor,
           StorageIsDisjoint, Overlap, Slice
  <2>4. QED BY <2>2, <2>3
<1>3. CASE UNCHANGED arenaVars
  BY <1>0, <1>3 DEF DisjointInv, NoOversized, BelowCursor, StorageIsDisjoint, arenaVars
<1>4. ASSUME NEW n \in Sizes, AllocNothing(n) PROVE DisjointInv'
  BY <1>4, <1>3 DEF AllocNothing
<1>5. ASSUME NEW n \in Sizes, AllocOversized(n) PROVE DisjointInv'
  <2>1. /\ pages \in Seq(Nat) /\ pages' = Append(pages, n) /\ n \in Nat
        /\ ~(n <= PageSlots)
    BY <1>5 DEF AllocOversized, DisjointInv, BoundsInv, ArenaTypeOK
  <2>2. Len(pages') \in 1 .. Len(pages') /\ pages'[Len(pages')] = n BY <2>1
  <2>3. ~NoOversized' BY <2>1, <2>2 DEF NoOversized
  <2>4. QED BY <1>0, <2>3 DEF DisjointInv
<1>6. QED BY <1>1, <1>2, <1>3, <1>4, <1>5 DEF ArenaNext, allocFields

(* As long as no object has more fields than a page, two GC objects never  *)
(* share storage, however many are allocated.                              *)
THEOREM ArenaDisjoint == ArenaSpec => []OrdinaryIsDisjoint
<1>1. ArenaInit => DisjointInv
  BY BoundsInit DEF ArenaInit, DisjointInv, BelowCursor, StorageIsDisjoint
<1>2. DisjointInv => OrdinaryIsDisjoint BY DEF DisjointInv, OrdinaryIsDisjoint
<1>3. QED BY <1>1, <1>2, DisjointNext, PTL DEF ArenaSpec

-----------------------------------------------------------------------------
(***************************************************************************)
(* Linear memory for every size, limit, nesting depth and sequence of      *)
(* calls.  First FaultIsTrap: the recovery point is one variable for a     *)
(* whole stack of activations, and the invariant says what every           *)
(* activation will find in it when it is the innermost one again.  Then    *)
(* what the records of the memory, the cached size of compiled code and    *)
(* the pages themselves have to do with each other (MemInv).               *)
(***************************************************************************)

\* What the recovery point is while f runs.
InForce(f) == IF f.jit THEN [code |-> f.mod, active |-> TRUE] ELSE f.saved

\* Every activation keeps the recovery point of its caller.
Chain == \A i \in 1 .. Len(frames) - 1 : frames[i + 1].saved = InForce(frames[i])

\* The recovery point is that of the innermost activation, unless its code
\* has just been left by a fault.
Current ==
    frames # << >> => \/ recovery = InForce(Top)
                      \/ failing /\ Top.jit

Types ==
    /\ len \in [Mods -> Nat]
    /\ frames \in Seq(Frame)
    /\ recovery \in Recovery
    /\ failing \in BOOLEAN

FaultInv == Types /\ Chain /\ Current /\ crashed = FALSE

-----------------------------------------------------------------------------
(* Sequences used as stacks *)

\* The top of a stack, and what is left without it.
LEMMA StackFacts ==
    ASSUME NEW S, NEW s \in Seq(S), s # << >>
    PROVE  /\ Len(s) \in Nat \ {0} /\ s[Len(s)] \in S
           /\ SubSeq(s, 1, Len(s) - 1) \in Seq(S)
           /\ Len(SubSeq(s, 1, Len(s) - 1)) = Len(s) - 1
           /\ \A i \in 1 .. Len(s) - 1 : SubSeq(s, 1, Len(s) - 1)[i] = s[i]
<1>1. Len(s) \in Nat /\ Len(s) # 0 /\ s \in [1 .. Len(s) -> S] BY EmptySeq
<1>2. s[Len(s)] \in S /\ \A i \in 1 .. Len(s) - 1 : s[i] \in S BY <1>1
<1>3. /\ SubSeq(s, 1, Len(s) - 1) \in Seq(S)
      /\ Len(SubSeq(s, 1, Len(s) - 1)) = Len(s) - 1
      /\ \A i \in 1 .. Len(s) - 1 : SubSeq(s, 1, Len(s) - 1)[i] = s[i]
  BY <1>1, <1>2, SubSeqProperties
<1>4. QED BY <1>1, <1>2, <1>3

\* Pushing an activation leaves the ones below it alone.
LEMMA PushFacts ==
    ASSUME NEW S, NEW s \in Seq(S), NEW e \in S
    PROVE  /\ Append(s, e) \in Seq(S) /\ Append(s, e) # << >>
           /\ Len(Append(s, e)) = Len(s) + 1
           /\ Append(s, e)[Len(s) + 1] = e
           /\ \A i \in 1 .. Len(s) : Append(s, e)[i] = s[i]
  OBVIOUS

\* A length that memory.grow sets is a length.
LEMMA GrowTypes ==
    ASSUME len \in [Mods -> Nat], NEW m \in Mods, NEW n \in Nat,
           GrowSucceeds(m, n) \/ GrowFails
    PROVE  len' \in [Mods -> Nat]
  BY DEF GrowSucceeds, GrowFails, memVars

-----------------------------------------------------------------------------
(* The steps *)

\* Nothing runs at first.
LEMMA FaultInit == Init => FaultInv
<1> SUFFICES ASSUME Init PROVE FaultInv
  OBVIOUS
<1>1. frames = << >> /\ Len(frames) = 0 BY DEF Init
<1>2. Types
  <2>1. frames \in Seq(Frame) BY <1>1, EmptySeq
  <2>2. len \in [Mods -> Nat] BY MemoryAssumption DEF Init
  <2>3. recovery \in Recovery /\ failing \in BOOLEAN BY DEF Init, Recovery, NoCode
  <2>4. QED BY <2>1, <2>2, <2>3 DEF Types
<1>3. Chain /\ Current BY <1>1 DEF Chain, Current
<1>4. QED BY <1>2, <1>3 DEF Init, FaultInv

\* Entering an activation, compiled or not.
LEMMA EnterKeeps ==
    ASSUME FaultInv, NEW m \in Mods, NEW jit \in BOOLEAN, Enter(m, jit),
           frames # << >> => ~failing,
           UNCHANGED <<len, failing, crashed>>
    PROVE  FaultInv'
<1> DEFINE f == [mod |-> m, jit |-> jit, cache |-> IF jit THEN len[m] ELSE 0,
                 saved |-> recovery]
<1>1. f \in Frame BY DEF FaultInv, Types, Frame
<1>2. /\ frames' = Append(frames, f)
      /\ recovery' = IF jit THEN [code |-> m, active |-> TRUE] ELSE recovery
  BY DEF Enter
<1>3. /\ frames' \in Seq(Frame) /\ frames' # << >>
      /\ Len(frames) \in Nat /\ Len(frames') = Len(frames) + 1
      /\ frames'[Len(frames')] = f
      /\ \A i \in 1 .. Len(frames) : frames'[i] = frames[i]
  BY <1>1, <1>2, PushFacts DEF FaultInv, Types
<1>4. Types'
  BY <1>2, <1>3 DEF FaultInv, Types, Recovery
<1>5. recovery' = InForce(f) BY <1>2 DEF InForce
<1>6. Current'
  BY <1>3, <1>5 DEF Current, Top
<1>7. Chain'
  <2> SUFFICES ASSUME NEW i \in 1 .. Len(frames') - 1
               PROVE  frames'[i + 1].saved = InForce(frames'[i])
    BY DEF Chain, InForce
  <2>1. frames'[i] = frames[i] BY <1>3
  <2>2. CASE i < Len(frames)
    <3>1. frames'[i + 1] = frames[i + 1] BY <1>3, <2>2
    <3>2. QED BY <1>3, <2>1, <2>2, <3>1 DEF FaultInv, Chain
  <2>3. CASE i = Len(frames)
    <3>1. frames'[i + 1] = f BY <1>3, <2>3
    <3>2. frames # << >> BY <1>3, <2>3 DEF FaultInv, Types
    <3>3. recovery = InForce(frames[i]) BY <2>3, <3>2 DEF FaultInv, Current, Top
    <3>4. QED BY <2>1, <3>1, <3>3
  <2>4. QED BY <1>3, <2>2, <2>3
<1>8. QED BY <1>4, <1>6, <1>7 DEF FaultInv

\* Leaving the innermost activation, with or without an error.
LEMMA LeaveKeeps == ASSUME FaultInv, Leave PROVE FaultInv'
<1> DEFINE n == Len(frames)
           g == [Callers EXCEPT ![Len(Callers)] = IF failing THEN @ ELSE Reloaded(@)]
<1>1. /\ frames # << >> /\ frames \in Seq(Frame) /\ len \in [Mods -> Nat]
      /\ len' = len /\ crashed' = crashed
      /\ recovery' = Restored(Top)
      /\ frames' = IF Callers = << >> THEN << >> ELSE g
      /\ failing' = (failing /\ Callers # << >>)
  BY DEF Leave, FaultInv, Types, memVars
<1>2. /\ n \in Nat \ {0} /\ Top \in Frame
      /\ Callers \in Seq(Frame) /\ Len(Callers) = n - 1
      /\ \A i \in 1 .. n - 1 : Callers[i] = frames[i]
  BY <1>1, StackFacts DEF Top, Callers
<1>3. recovery' \in Recovery /\ failing' \in BOOLEAN
  BY <1>1, <1>2 DEF Restored, FaultInv, Types, Frame
<1>4. recovery' = Top.saved
  BY <1>1, <1>2 DEF Restored, FaultInv, Current, InForce, Frame
<1>5. CASE Callers = << >>
  <2>1. frames' = << >> /\ Len(frames') = 0 /\ frames' \in Seq(Frame)
    BY <1>1, <1>5
  <2>2. QED BY <1>1, <1>3, <2>1 DEF FaultInv, Types, Chain, Current
<1>6. CASE Callers # << >>
  <2>1. Len(Callers) \in 1 .. Len(Callers) /\ n - 1 \in Nat \ {0}
    BY <1>2, <1>6
  <2>2. /\ frames' = g /\ Len(g) = n - 1
        /\ g[n - 1] = IF failing THEN Callers[n - 1] ELSE Reloaded(Callers[n - 1])
        /\ \A i \in 1 .. n - 1 : i # n - 1 => g[i] = Callers[i]
    BY <1>1, <1>2, <1>6, <2>1
  <2>3. \A f \in Frame : /\ Reloaded(f) \in Frame /\ InForce(Reloaded(f)) = InForce(f)
                         /\ Reloaded(f).saved = f.saved /\ Reloaded(f).jit = f.jit
    BY <1>1 DEF Reloaded, InForce, Frame
  <2>4. \A i \in 1 .. n - 1 : /\ g[i] \in Frame /\ InForce(g[i]) = InForce(frames[i])
                              /\ g[i].saved = frames[i].saved
    BY <1>2, <2>1, <2>2, <2>3
  <2>5. g \in Seq(Frame)
    BY <1>2, <2>1, <2>2, <2>4
  <2>6. Types' BY <1>1, <1>3, <2>2, <2>5 DEF Types
  <2>7. Chain'
    <3> SUFFICES ASSUME NEW i \in 1 .. n - 2
                 PROVE  g[i + 1].saved = InForce(g[i])
      BY <1>2, <2>2 DEF Chain, InForce
    <3>1. frames[i + 1].saved = InForce(frames[i])
      BY <1>2 DEF FaultInv, Chain
    <3>2. i \in 1 .. n - 1 /\ i + 1 \in 1 .. n - 1 BY <1>2
    <3>3. QED BY <2>4, <3>1, <3>2
  <2>8. Top.saved = InForce(frames[n - 1])
    <3>1. n - 1 \in 1 .. Len(frames) - 1 BY <1>2, <2>1
    <3>2. frames[(n - 1) + 1].saved = InForce(frames[n - 1])
      BY <3>1 DEF FaultInv, Chain
    <3>3. (n - 1) + 1 = Len(frames) BY <1>2
    <3>4. QED BY <3>2, <3>3 DEF Top
  <2>9. Current'
    <3>0. n - 1 \in 1 .. n - 1 BY <1>2, <2>1
    <3>1. recovery' = InForce(g[n - 1]) BY <1>4, <2>4, <2>8, <3>0
    <3>2. frames'[Len(frames')] = g[n - 1] BY <2>2
    <3>3. QED BY <3>1, <3>2 DEF Current, Top, InForce
  <2>10. QED BY <1>1, <2>6, <2>7, <2>9 DEF FaultInv
<1>7. QED BY <1>5, <1>6

\* An access that is refused; the fault of the innermost activation, if it is
\* compiled, finds its own code in the recovery point.
LEMMA AccessKeeps == ASSUME FaultInv, Access PROVE FaultInv'
<1>1. /\ Running /\ len' = len /\ frames' = frames
      /\ \/ UNCHANGED <<failing, recovery, crashed>>
         \/ Top.jit /\ Fault
         \/ failing' = TRUE /\ UNCHANGED <<recovery, crashed>>
  BY DEF Access
<1>2. frames # << >> /\ Top \in Frame /\ recovery = InForce(Top)
  BY <1>1, StackFacts DEF Running, FaultInv, Types, Current, Top
<1>3. Top' = Top BY <1>1 DEF Top
<1>4. Chain' BY <1>1 DEF FaultInv, Chain, InForce
<1>5. CASE UNCHANGED <<failing, recovery, crashed>>
  BY <1>1, <1>2, <1>3, <1>4, <1>5 DEF FaultInv, Types, Current, InForce
<1>6. CASE failing' = TRUE /\ UNCHANGED <<recovery, crashed>>
  BY <1>1, <1>2, <1>3, <1>4, <1>6 DEF FaultInv, Types, Current, InForce
<1>7. CASE Top.jit /\ Fault
  <2>1. recovery = [code |-> Top.mod, active |-> TRUE] BY <1>2, <1>7 DEF InForce
  <2>2. recovery.active /\ recovery.code = Top.mod BY <2>1
  <2>3. /\ failing' = TRUE /\ crashed' = crashed
        /\ recovery' = [recovery EXCEPT !.active = FALSE]
    BY <1>7, <2>2 DEF Fault
  <2>4. recovery' \in Recovery BY <2>3 DEF FaultInv, Types, Recovery
  <2>5. Types' BY <1>1, <2>3, <2>4 DEF FaultInv, Types
  <2>6. Current' BY <1>3, <1>7, <2>3 DEF Current
  <2>7. QED BY <1>4, <2>3, <2>5, <2>6 DEF FaultInv
<1>8. QED BY <1>1, <1>5, <1>6, <1>7

\* Compiled code that grows the memory changes nothing but its own cache.
LEMMA JitGrowKeeps == ASSUME FaultInv, JitGrow PROVE FaultInv'
<1> DEFINE n == Len(frames)
           f == [Top EXCEPT !.cache = len'[Top.mod]]
<1>1. /\ frames # << >> /\ frames \in Seq(Frame)
      /\ frames' = Append(Callers, f)
      /\ UNCHANGED <<recovery, failing, crashed>>
  BY DEF JitGrow, Running, SetTop, FaultInv, Types
<1>2. /\ n \in Nat \ {0} /\ Top \in Frame
      /\ Callers \in Seq(Frame) /\ Len(Callers) = n - 1
      /\ \A i \in 1 .. n - 1 : Callers[i] = frames[i]
  BY <1>1, StackFacts DEF Top, Callers
<1>3. len' \in [Mods -> Nat]
  <2>1. Top.mod \in Mods BY <1>2 DEF Frame
  <2>2. PICK k \in Requests : GrowSucceeds(Top.mod, k) \/ GrowFails
    BY DEF JitGrow
  <2>3. k \in Nat BY MemoryAssumption
  <2>4. QED BY <2>1, <2>2, <2>3, GrowTypes DEF FaultInv, Types
<1>4. /\ f \in Frame /\ f.mod = Top.mod /\ f.jit = Top.jit /\ f.saved = Top.saved
  BY <1>2, <1>3 DEF Frame
<1>5. InForce(f) = InForce(Top) BY <1>4 DEF InForce
<1>6. /\ frames' \in Seq(Frame) /\ frames' # << >> /\ Len(frames') = n
      /\ frames'[n] = f
      /\ \A i \in 1 .. n - 1 : frames'[i] = frames[i]
  <2>1. /\ Append(Callers, f) \in Seq(Frame) /\ Append(Callers, f) # << >>
        /\ Len(Append(Callers, f)) = (n - 1) + 1
        /\ Append(Callers, f)[(n - 1) + 1] = f
        /\ \A i \in 1 .. n - 1 : Append(Callers, f)[i] = Callers[i]
    BY <1>2, <1>4, PushFacts
  <2>2. (n - 1) + 1 = n BY <1>2
  <2>3. QED BY <1>1, <1>2, <2>1, <2>2
<1>7. \A i \in 1 .. n : /\ frames'[i].saved = frames[i].saved
                        /\ InForce(frames'[i]) = InForce(frames[i])
  <2> SUFFICES ASSUME NEW i \in 1 .. n
               PROVE  /\ frames'[i].saved = frames[i].saved
                      /\ InForce(frames'[i]) = InForce(frames[i])
    OBVIOUS
  <2>1. CASE i = n BY <1>4, <1>5, <1>6, <2>1 DEF Top
  <2>2. CASE i # n
    <3>1. i \in 1 .. n - 1 BY <1>2, <2>2
    <3>2. QED BY <1>6, <3>1
  <2>3. QED BY <2>1, <2>2
<1>8. Chain'
  <2> SUFFICES ASSUME NEW i \in 1 .. n - 1
               PROVE  frames'[i + 1].saved = InForce(frames'[i])
    BY <1>6 DEF Chain, InForce
  <2>1. i \in 1 .. n /\ i + 1 \in 1 .. n BY <1>2
  <2>2. frames[i + 1].saved = InForce(frames[i]) BY DEF FaultInv, Chain
  <2>3. QED BY <1>7, <2>1, <2>2
<1>9. Current'
  <2>1. frames'[Len(frames')] = f BY <1>6
  <2>2. recovery = InForce(Top) \/ (failing /\ Top.jit)
    BY <1>1 DEF FaultInv, Current
  <2>3. recovery' = InForce(f) \/ (failing' /\ f.jit) BY <1>1, <1>4, <1>5, <2>2
  <2>4. QED BY <2>1, <2>3 DEF Current, Top, InForce
<1>10. Types' BY <1>1, <1>3, <1>6 DEF FaultInv, Types
<1>11. QED BY <1>1, <1>8, <1>9, <1>10 DEF FaultInv

\* Steps that leave the activations alone.
LEMMA FramesUnchanged ==
    ASSUME FaultInv, UNCHANGED <<frames, recovery, failing, crashed>>,
           len' \in [Mods -> Nat]
    PROVE  FaultInv'
  BY DEF FaultInv, Types, Chain, Current, Top, InForce

\* Every step of the machine keeps the chain of recovery points.
LEMMA FaultNext == ASSUME FaultInv, [Next]_vars PROVE FaultInv'
<1>1. CASE Import
  <2>1. len' \in [Mods -> Nat] BY <1>1 DEF Import, FaultInv, Types, Mods
  <2>2. QED BY <1>1, <2>1, FramesUnchanged DEF Import, runVars
<1>2. CASE Invoke
  <2>1. PICK m \in Mods, jit \in BOOLEAN : Enter(m, jit) BY <1>2 DEF Invoke
  <2>2. frames = << >> /\ UNCHANGED <<len, failing, crashed>>
    BY <1>2 DEF Invoke, memVars
  <2>3. QED BY <2>1, <2>2, EnterKeeps
<1>3. CASE Call
  <2>1. Running /\ UNCHANGED <<len, crashed>> BY <1>3 DEF Call, memVars
  <2>2. CASE Len(frames) >= MaxDepth
    <3>1. failing' = TRUE /\ UNCHANGED <<frames, recovery>> BY <1>3, <2>2 DEF Call
    <3>2. recovery = InForce(Top) BY <2>1 DEF Running, FaultInv, Current
    <3>3. QED
      BY <2>1, <3>1, <3>2 DEF FaultInv, Types, Chain, Current, Top, InForce
  <2>3. CASE ~(Len(frames) >= MaxDepth)
    <3>1. PICK m \in Mods, jit \in BOOLEAN : Enter(m, jit) BY <1>3, <2>3 DEF Call
    <3>2. failing' = failing BY <1>3, <2>3 DEF Call
    <3>3. QED BY <2>1, <3>1, <3>2, EnterKeeps DEF Running
  <2>4. QED BY <2>2, <2>3
<1>4. CASE Leave BY <1>4, LeaveKeeps
<1>5. CASE Access BY <1>5, AccessKeeps
<1>6. CASE InterpGrow
  <2>0. frames # << >> /\ frames \in Seq(Frame)
    BY <1>6 DEF InterpGrow, Running, FaultInv, Types
  <2>1. Top.mod \in Mods
    <3>1. Top \in Frame BY <2>0, StackFacts DEF Top
    <3>2. QED BY <3>1 DEF Frame
  <2>2. PICK k \in Requests : GrowSucceeds(Top.mod, k) \/ GrowFails
    BY <1>6 DEF InterpGrow
  <2>3. k \in Nat BY MemoryAssumption
  <2>4. len' \in [Mods -> Nat] BY <2>1, <2>2, <2>3, GrowTypes DEF FaultInv, Types
  <2>5. QED BY <1>6, <2>4, FramesUnchanged DEF InterpGrow, runVars
<1>7. CASE JitGrow BY <1>7, JitGrowKeeps
<1>8. CASE UNCHANGED vars
  BY <1>8, FramesUnchanged DEF vars, FaultInv, Types
<1>9. QED BY <1>1, <1>2, <1>3, <1>4, <1>5, <1>6, <1>7, <1>8 DEF Next

\* For every size of memory, every depth and every nesting of interpreted and
\* compiled calls of two modules: a fault of compiled code finds the recovery
\* point of its own code and becomes a trap (executeJIT, jitCallTrampoline,
\* the signal handler of guard.zig).
THEOREM FaultsAreTraps == Spec => []FaultIsTrap
<1>1. FaultInv => FaultIsTrap BY DEF FaultInv, FaultIsTrap
<1>2. FaultInv /\ [Next]_vars => FaultInv' BY FaultNext
<1>3. QED BY <1>1, <1>2, FaultInit, PTL DEF Spec
-----------------------------------------------------------------------------
(***************************************************************************)
(* The bounds of the tiers, fresh pages and the ceiling.                   *)
(***************************************************************************)

\* Until the memory is imported, only code of its owner runs.
OnlyOwn == ~imported => \A i \in 1 .. Len(frames) : frames[i].mod = "own"

\* The two counts of a guarded record agree and lie inside the region; one
\* record alone accounts for all of it.
Records ==
    /\ kind = "guarded" => /\ \A m \in Mods : len[m] = accessible[m] /\ len[m] <= committed
                           /\ ~imported => committed = len["own"]
    /\ kind = "list" => ~imported
    /\ ~imported => len["imp"] = 0
    /\ Min <= len["own"]

\* The memory cache of the code that runs is up to date.  (Those of its
\* callers need not be.)
CacheFresh == frames # << >> /\ ~failing /\ Top.jit => Top.cache = len[Top.mod]

\* A region is zero where nothing was stored, also beyond the memory's end.
ZeroBeyond ==
    \A p \in Pages \ written : (kind = "list" => p < len["own"]) => bytes[p] = 0

MemTypes ==
    /\ kind \in {"guarded", "list"}
    /\ len \in [Mods -> 0 .. Lesser(Max, MaxPages)]
    /\ accessible \in [Mods -> 0 .. MaxPages]
    /\ committed \in 0 .. MaxPages
    /\ bytes \in [Pages -> {0, 1}]
    /\ imported \in BOOLEAN /\ jitGrew \in BOOLEAN
    /\ written \subseteq Pages

RunTypes ==
    /\ frames \in Seq(Frame)
    /\ recovery \in Recovery
    /\ failing \in BOOLEAN /\ crashed \in BOOLEAN

MemPart == MemTypes /\ Records /\ ZeroBeyond /\ CeilingHolds
RunPart == RunTypes /\ OnlyOwn /\ CacheFresh
MemInv == MemPart /\ RunPart

\* Limits are numbers.
LEMMA Limits ==
    /\ Lesser(Max, MaxPages) \in Nat /\ Greater(Min, Ceiling) \in Nat
    /\ Min <= Lesser(Max, MaxPages) /\ Lesser(Max, MaxPages) <= MaxPages
    /\ Min <= Greater(Min, Ceiling) /\ Ceiling <= Greater(Min, Ceiling)
    /\ EffectiveMax = Lesser(Max, MaxPages)
  BY MemoryAssumption DEF Lesser, Greater, EffectiveMax

LEMMA MemInit == Init => MemInv
<1> SUFFICES ASSUME Init PROVE MemInv
  OBVIOUS
<1>1. MemTypes
  <2>1. len \in [Mods -> 0 .. Lesser(Max, MaxPages)] BY MemoryAssumption, Limits DEF Init
  <2>2. accessible \in [Mods -> 0 .. MaxPages] BY MemoryAssumption DEF Init
  <2>3. committed \in 0 .. MaxPages BY MemoryAssumption DEF Init
  <2>4. bytes \in [Pages -> {0, 1}] BY DEF Init
  <2>5. QED BY <2>1, <2>2, <2>3, <2>4 DEF Init, MemTypes
<1>2. Records BY MemoryAssumption DEF Init, Records, Mods
<1>3. ZeroBeyond
  <2>1. len["own"] = Min BY DEF Init, Mods
  <2>2. \A p \in Pages : kind = "guarded" \/ p < Min => bytes[p] = 0 BY DEF Init
  <2>3. kind = "guarded" \/ kind = "list" BY DEF Init
  <2>4. QED BY <2>1, <2>2, <2>3 DEF ZeroBeyond
<1>4. CeilingHolds BY MemoryAssumption, Limits DEF Init, CeilingHolds, Mods
<1>5. RunTypes
  <2>1. frames \in Seq(Frame) BY EmptySeq DEF Init
  <2>2. QED BY <2>1 DEF Init, RunTypes, Recovery, NoCode
<1>6. OnlyOwn /\ CacheFresh BY DEF Init, OnlyOwn, CacheFresh
<1>7. QED BY <1>1, <1>2, <1>3, <1>4, <1>5, <1>6 DEF MemInv, MemPart, RunPart

\* The memory does not care which activations there are.
LEMMA MemUnchanged ==
    ASSUME MemPart, UNCHANGED <<kind, imported, memVars, written, jitGrew>>
    PROVE  MemPart'
  BY DEF MemPart, MemTypes, Records, ZeroBeyond, CeilingHolds, memVars

\* A successful memory.grow through the record of m: alone, a record is the
\* owner's; within the ceiling, or by compiled code.
LEMMA GrowKeeps ==
    ASSUME MemPart, NEW m \in Mods, NEW n \in Nat, GrowSucceeds(m, n),
           ~imported => m = "own",
           UNCHANGED <<kind, imported, written>>,
           jitGrew' \in BOOLEAN, jitGrew => jitGrew',
           BelowCeiling(m, n) \/ n = 0 \/ jitGrew'
    PROVE  MemPart'
<1>1. /\ len[m] \in Nat /\ accessible[m] \in Nat /\ committed \in Nat
      /\ len[m] + n <= EffectiveMax
      /\ len' = [len EXCEPT ![m] = @ + n]
  BY Limits DEF GrowSucceeds, MemPart, MemTypes
<1>2. len' \in [Mods -> 0 .. Lesser(Max, MaxPages)]
  BY <1>1, Limits DEF MemPart, MemTypes
<1>3. CeilingHolds'
  <2> SUFFICES ASSUME ~jitGrew', NEW k \in Mods
               PROVE  len'[k] <= Greater(Min, Ceiling)
    BY DEF CeilingHolds
  <2>1. len[k] \in Nat /\ len[k] <= Greater(Min, Ceiling)
    BY Limits DEF MemPart, MemTypes, CeilingHolds
  <2>2. CASE k # m BY <1>1, <2>1, <2>2 DEF MemPart, MemTypes
  <2>3. CASE k = m
    <3>1. len'[k] = len[m] + n BY <1>1, <2>3 DEF MemPart, MemTypes
    <3>2. QED BY <1>1, <2>1, <2>3, <3>1, Limits, MemoryAssumption DEF BelowCeiling
  <2>4. QED BY <2>2, <2>3
<1>4. CASE kind = "guarded"
  <2>1. /\ accessible[m] + n <= MaxPages
        /\ accessible' = [accessible EXCEPT ![m] = @ + n]
        /\ committed' = Greater(committed, accessible[m] + n)
        /\ bytes' = bytes
    BY <1>4 DEF GrowSucceeds
  <2>2. committed' \in Nat /\ committed <= committed' /\ accessible[m] + n <= committed'
        /\ committed' \in {committed, accessible[m] + n} /\ committed' <= MaxPages
    BY <1>1, <2>1 DEF Greater, MemPart, MemTypes
  <2>3. MemTypes'
    <3>1. accessible' \in [Mods -> 0 .. MaxPages]
      BY <1>1, <2>1, MemoryAssumption DEF MemPart, MemTypes
    <3>2. QED BY <1>2, <2>1, <2>2, <3>1, MemoryAssumption DEF MemPart, MemTypes
  <2>4. \A k \in Mods : len'[k] = accessible'[k] /\ len'[k] <= committed'
    <3> SUFFICES ASSUME NEW k \in Mods
                 PROVE  len'[k] = accessible'[k] /\ len'[k] <= committed'
      OBVIOUS
    <3>0. len[k] = accessible[k] /\ len[k] <= committed /\ len[k] \in Nat
      BY <1>4, Limits DEF MemPart, MemTypes, Records
    <3>1. CASE k = m BY <1>1, <2>1, <2>2, <3>0, <3>1 DEF MemPart, MemTypes
    <3>2. CASE k # m BY <1>1, <2>1, <2>2, <3>0, <3>2 DEF MemPart, MemTypes
    <3>3. QED BY <3>1, <3>2
  <2>5. ~imported => committed' = len'["own"]
    <3>1. SUFFICES ASSUME ~imported PROVE committed' = len'["own"]
      OBVIOUS
    <3>2. m = "own" /\ committed = len[m] /\ accessible[m] = len[m]
      BY <1>4, <3>1 DEF MemPart, Records
    <3>3. len'["own"] = len[m] + n BY <1>1, <3>2 DEF MemPart, MemTypes
    <3>4. QED BY <1>1, <2>1, <3>2, <3>3 DEF Greater
  <2>6. ~imported => len'["imp"] = 0
    BY <1>1 DEF MemPart, MemTypes, Records, Mods
  <2>7. Min <= len'["own"]
    <3>1. "own" \in Mods /\ len["own"] \in Nat /\ Min <= len["own"]
      BY Limits DEF MemPart, MemTypes, Records, Mods
    <3>2. len'["own"] \in {len["own"], len["own"] + n} BY <1>1, <3>1 DEF MemPart, MemTypes
    <3>3. QED BY <3>1, <3>2, MemoryAssumption
  <2>8. Records' BY <1>4, <2>4, <2>5, <2>6, <2>7 DEF Records
  <2>9. ZeroBeyond' BY <1>4, <2>1 DEF ZeroBeyond, MemPart
  <2>10. QED BY <1>3, <2>3, <2>8, <2>9 DEF MemPart
<1>5. CASE kind = "list"
  <2>1. bytes' = Zeroed(m, n) /\ UNCHANGED <<accessible, committed>>
    BY <1>5 DEF GrowSucceeds
  <2>2. m = "own" /\ ~imported BY <1>5 DEF MemPart, Records
  <2>3. bytes' \in [Pages -> {0, 1}] BY <2>1 DEF Zeroed, MemPart, MemTypes
  <2>4. MemTypes' BY <1>2, <2>1, <2>3 DEF MemPart, MemTypes
  <2>5. len'["own"] = len["own"] + n /\ len'["imp"] = len["imp"]
    BY <1>1, <2>2 DEF MemPart, MemTypes, Mods
  <2>6. Records'
    <3>1. Min <= len'["own"]
      BY <1>1, <2>2, <2>5, MemoryAssumption DEF MemPart, Records
    <3>2. QED BY <1>5, <2>2, <2>5, <3>1 DEF Records, MemPart
  <2>7. ZeroBeyond'
    <3> SUFFICES ASSUME NEW p \in Pages \ written, p < len'["own"]
                 PROVE  bytes'[p] = 0
      BY <1>5 DEF ZeroBeyond
    <3>0. p \in Int BY MemoryAssumption DEF Pages
    <3>1. CASE len["own"] <= p
      BY <2>1, <2>2, <2>5, <3>1 DEF Zeroed
    <3>2. CASE p < len["own"]
      <4>1. bytes[p] = 0 BY <3>2 DEF MemPart, ZeroBeyond
      <4>2. QED BY <2>1, <4>1 DEF Zeroed
    <3>3. QED BY <1>1, <2>2, <3>0, <3>1, <3>2
  <2>8. QED BY <1>3, <2>4, <2>6, <2>7 DEF MemPart
<1>6. QED BY <1>4, <1>5 DEF MemPart, MemTypes

\* The record that is copied at an import.
LEMMA ImportKeeps == ASSUME MemPart, Import PROVE MemPart'
<1>1. /\ kind = "guarded" /\ imported' = TRUE /\ kind' = kind
      /\ len' = [len EXCEPT !["imp"] = len["own"]]
      /\ accessible' = [accessible EXCEPT !["imp"] = accessible["own"]]
      /\ UNCHANGED <<committed, bytes, written, jitGrew>>
  BY DEF Import
<1>2. MemTypes' BY <1>1 DEF MemPart, MemTypes, Mods
<1>3. Records' BY <1>1 DEF MemPart, MemTypes, Records, Mods
<1>4. ZeroBeyond' BY <1>1 DEF MemPart, ZeroBeyond
<1>5. CeilingHolds' BY <1>1 DEF MemPart, MemTypes, CeilingHolds, Mods
<1>6. QED BY <1>2, <1>3, <1>4, <1>5 DEF MemPart

\* An access stores into one page or into none.
LEMMA AccessMem == ASSUME MemPart, Access PROVE MemPart'
<1>1. /\ UNCHANGED <<kind, imported, len, accessible, committed, jitGrew>>
      /\ \/ \E p \in Pages : Store(p)
         \/ UNCHANGED <<bytes, written>>
  BY DEF Access
<1>2. CASE UNCHANGED <<bytes, written>> BY <1>1, <1>2, MemUnchanged DEF memVars
<1>3. CASE \E p \in Pages : Store(p)
  <2>1. PICK p \in Pages : Store(p) BY <1>3
  <2>2. bytes' = [bytes EXCEPT ![p] = 1] /\ written' = written \cup {p}
    BY <2>1 DEF Store
  <2>3. MemTypes' BY <1>1, <2>2 DEF MemPart, MemTypes
  <2>4. Records' /\ CeilingHolds' BY <1>1 DEF MemPart, Records, CeilingHolds
  <2>5. ZeroBeyond' BY <1>1, <2>2 DEF MemPart, MemTypes, ZeroBeyond
  <2>6. QED BY <2>3, <2>4, <2>5 DEF MemPart
<1>4. QED BY <1>1, <1>2, <1>3

\* The innermost activation belongs to a module, the owner if there is no
\* other.
LEMMA TopFacts ==
    ASSUME RunPart, frames # << >>
    PROVE  Top \in Frame /\ Top.mod \in Mods /\ (~imported => Top.mod = "own")
<1>1. Len(frames) \in Nat \ {0} /\ Top \in Frame
  BY StackFacts DEF RunPart, RunTypes, Top
<1>2. QED BY <1>1 DEF Frame, RunPart, OnlyOwn, Top

\* Entering an activation.
LEMMA EnterRun ==
    ASSUME MemPart, RunPart, NEW m \in Mods, NEW jit \in BOOLEAN, Enter(m, jit),
           ~imported => m = "own",
           UNCHANGED <<imported, len, failing, crashed>>
    PROVE  RunPart'
<1> DEFINE f == [mod |-> m, jit |-> jit, cache |-> IF jit THEN len[m] ELSE 0,
                 saved |-> recovery]
<1>1. f \in Frame BY Limits DEF RunPart, RunTypes, MemPart, MemTypes, Frame
<1>2. /\ frames' = Append(frames, f)
      /\ recovery' = IF jit THEN [code |-> m, active |-> TRUE] ELSE recovery
  BY DEF Enter
<1>3. /\ frames' \in Seq(Frame)
      /\ Len(frames) \in Nat /\ Len(frames') = Len(frames) + 1
      /\ frames'[Len(frames')] = f
      /\ \A i \in 1 .. Len(frames) : frames'[i] = frames[i]
  BY <1>1, <1>2, PushFacts DEF RunPart, RunTypes
<1>4. RunTypes' BY <1>2, <1>3 DEF RunPart, RunTypes, Recovery
<1>5. OnlyOwn'
  <2> SUFFICES ASSUME ~imported, NEW i \in 1 .. Len(frames')
               PROVE  frames'[i].mod = "own"
    BY DEF OnlyOwn
  <2>1. CASE i = Len(frames') BY <1>3, <2>1
  <2>2. CASE i # Len(frames')
    <3>1. i \in 1 .. Len(frames) BY <1>3, <2>2
    <3>2. QED BY <1>3, <3>1 DEF RunPart, OnlyOwn
  <2>3. QED BY <2>1, <2>2
<1>6. CacheFresh' BY <1>3 DEF CacheFresh, Top
<1>7. QED BY <1>4, <1>5, <1>6 DEF RunPart

\* Leaving one: the caller's cache is loaded again, unless an error passes.
LEMMA LeaveRun == ASSUME MemPart, RunPart, Leave PROVE RunPart'
<1> DEFINE n == Len(frames)
           g == [Callers EXCEPT ![Len(Callers)] = IF failing THEN @ ELSE Reloaded(@)]
<1>1. /\ frames # << >> /\ frames \in Seq(Frame) /\ len \in [Mods -> Nat]
      /\ len' = len /\ crashed' = crashed /\ imported' = imported
      /\ recovery' = Restored(Top)
      /\ frames' = IF Callers = << >> THEN << >> ELSE g
      /\ failing' = (failing /\ Callers # << >>)
  BY Limits DEF Leave, RunPart, RunTypes, MemPart, MemTypes, memVars
<1>2. /\ n \in Nat \ {0} /\ Top \in Frame
      /\ Callers \in Seq(Frame) /\ Len(Callers) = n - 1
      /\ \A i \in 1 .. n - 1 : Callers[i] = frames[i]
  BY <1>1, StackFacts DEF Top, Callers
<1>3. recovery' \in Recovery /\ failing' \in BOOLEAN /\ crashed' \in BOOLEAN
  BY <1>1, <1>2 DEF Restored, RunPart, RunTypes, Frame
<1>5. CASE Callers = << >>
  <2>1. frames' = << >> /\ Len(frames') = 0 /\ frames' \in Seq(Frame)
    BY <1>1, <1>5
  <2>2. QED BY <1>3, <2>1 DEF RunPart, RunTypes, OnlyOwn, CacheFresh
<1>6. CASE Callers # << >>
  <2>1. Len(Callers) \in 1 .. Len(Callers) /\ n - 1 \in Nat \ {0}
    BY <1>2, <1>6
  <2>2. /\ frames' = g /\ Len(g) = n - 1
        /\ g[n - 1] = IF failing THEN Callers[n - 1] ELSE Reloaded(Callers[n - 1])
        /\ \A i \in 1 .. n - 1 : i # n - 1 => g[i] = Callers[i]
    BY <1>1, <1>2, <1>6, <2>1
  <2>3. \A f \in Frame : /\ Reloaded(f) \in Frame /\ Reloaded(f).mod = f.mod
                         /\ Reloaded(f).jit => Reloaded(f).cache = len[f.mod]
    BY <1>1 DEF Reloaded, Frame
  <2>4. \A i \in 1 .. n - 1 : g[i] \in Frame /\ g[i].mod = frames[i].mod
    BY <1>2, <2>1, <2>2, <2>3
  <2>5. g \in Seq(Frame)
    BY <1>2, <2>1, <2>2, <2>4
  <2>6. RunTypes' BY <1>3, <2>2, <2>5 DEF RunTypes
  <2>7. OnlyOwn' BY <1>1, <1>2, <2>2, <2>4 DEF RunPart, OnlyOwn
  <2>8. CacheFresh'
    <3> SUFFICES ASSUME ~failing', g[n - 1].jit
                 PROVE  g[n - 1].cache = len[g[n - 1].mod]
      BY <1>1, <2>2 DEF CacheFresh, Top
    <3>1. g[n - 1] = Reloaded(Callers[n - 1]) BY <1>1, <1>6, <2>2
    <3>2. Callers[n - 1] \in Frame BY <1>2, <2>1
    <3>3. QED BY <2>3, <3>1, <3>2
  <2>9. QED BY <2>6, <2>7, <2>8 DEF RunPart
<1>7. QED BY <1>5, <1>6

\* Compiled code that grows the memory and loads its cache again.
LEMMA JitGrowRun ==
    ASSUME MemPart, RunPart, JitGrow, MemPart'
    PROVE  RunPart'
<1> DEFINE n == Len(frames)
           f == [Top EXCEPT !.cache = len'[Top.mod]]
<1>1. /\ frames # << >> /\ frames \in Seq(Frame)
      /\ frames' = Append(Callers, f)
      /\ UNCHANGED <<imported, recovery, failing, crashed>>
  BY DEF JitGrow, Running, SetTop, RunPart, RunTypes
<1>2. /\ n \in Nat \ {0} /\ Top \in Frame
      /\ Callers \in Seq(Frame) /\ Len(Callers) = n - 1
      /\ \A i \in 1 .. n - 1 : Callers[i] = frames[i]
  BY <1>1, StackFacts DEF Top, Callers
<1>3. len' \in [Mods -> Nat] BY Limits DEF MemPart, MemTypes
<1>4. f \in Frame /\ f.mod = Top.mod /\ f.cache = len'[f.mod]
  BY <1>2, <1>3 DEF Frame
<1>5. /\ frames' \in Seq(Frame) /\ Len(frames') = n
      /\ frames'[n] = f
      /\ \A i \in 1 .. n - 1 : frames'[i] = frames[i]
  <2>1. /\ Append(Callers, f) \in Seq(Frame)
        /\ Len(Append(Callers, f)) = (n - 1) + 1
        /\ Append(Callers, f)[(n - 1) + 1] = f
        /\ \A i \in 1 .. n - 1 : Append(Callers, f)[i] = Callers[i]
    BY <1>2, <1>4, PushFacts
  <2>2. (n - 1) + 1 = n BY <1>2
  <2>3. QED BY <1>1, <1>2, <2>1, <2>2
<1>6. RunTypes' BY <1>1, <1>5 DEF RunPart, RunTypes
<1>7. OnlyOwn'
  <2> SUFFICES ASSUME ~imported, NEW i \in 1 .. n
               PROVE  frames'[i].mod = "own"
    BY <1>1, <1>5 DEF OnlyOwn
  <2>1. CASE i = n BY <1>1, <1>4, <1>5, <2>1, TopFacts
  <2>2. CASE i # n
    <3>1. i \in 1 .. n - 1 /\ i \in 1 .. Len(frames) BY <1>2, <2>2
    <3>2. QED BY <1>5, <3>1 DEF RunPart, OnlyOwn
  <2>3. QED BY <2>1, <2>2
<1>8. CacheFresh' BY <1>4, <1>5 DEF CacheFresh, Top
<1>9. QED BY <1>6, <1>7, <1>8 DEF RunPart

\* Every step keeps the records, the cache and the pages as they should be.
LEMMA MemNext == ASSUME MemInv, [Next]_vars PROVE MemInv'
<1> USE DEF MemInv
<1>1. CASE Import
  <2>1. MemPart' BY <1>1, ImportKeeps
  <2>2. RunPart'
    BY <1>1 DEF Import, runVars, RunPart, RunTypes, OnlyOwn, CacheFresh, Top
  <2>3. QED BY <2>1, <2>2
<1>2. CASE Invoke
  <2>1. PICK m \in Mods, jit \in BOOLEAN : (m = "imp" => imported) /\ Enter(m, jit)
    BY <1>2 DEF Invoke
  <2>2. UNCHANGED <<kind, imported, memVars, len, failing, crashed, written, jitGrew>>
    BY <1>2 DEF Invoke, memVars
  <2>3. MemPart' BY <2>2, MemUnchanged
  <2>4. RunPart' BY <2>1, <2>2, EnterRun DEF Mods
  <2>5. QED BY <2>3, <2>4
<1>3. CASE Call
  <2>1. /\ Running /\ frames # << >>
        /\ UNCHANGED <<kind, imported, memVars, len, crashed, written, jitGrew>>
    BY <1>3 DEF Call, memVars, Running
  <2>2. MemPart' BY <2>1, MemUnchanged
  <2>3. CASE Len(frames) >= MaxDepth
    <3>1. failing' = TRUE /\ UNCHANGED <<frames, recovery>> BY <1>3, <2>3 DEF Call
    <3>2. RunPart'
      BY <2>1, <3>1 DEF RunPart, RunTypes, OnlyOwn, CacheFresh
    <3>3. QED BY <2>2, <3>2
  <2>4. CASE ~(Len(frames) >= MaxDepth)
    <3>1. PICK m \in Mods, jit \in BOOLEAN : (m = "imp" => Top.mod = "imp") /\ Enter(m, jit)
      BY <1>3, <2>4 DEF Call
    <3>2. failing' = failing BY <1>3, <2>4 DEF Call
    <3>3. ~imported => m = "own" BY <2>1, <3>1, TopFacts DEF Mods
    <3>4. RunPart' BY <2>1, <3>1, <3>2, <3>3, EnterRun
    <3>5. QED BY <2>2, <3>4
  <2>5. QED BY <2>3, <2>4
<1>4. CASE Leave
  <2>1. MemPart' BY <1>4, MemUnchanged DEF Leave
  <2>2. QED BY <1>4, <2>1, LeaveRun
<1>5. CASE Access
  <2>1. MemPart' BY <1>5, AccessMem
  <2>2. /\ UNCHANGED <<imported, len, frames>>
        /\ \/ UNCHANGED <<failing, recovery, crashed>>
           \/ Fault
           \/ failing' = TRUE /\ UNCHANGED <<recovery, crashed>>
    BY <1>5 DEF Access
  <2>3. /\ failing' = failing \/ failing' = TRUE
        /\ crashed' = crashed \/ crashed' = TRUE
        /\ recovery' \in Recovery
    BY <2>2 DEF Fault, RunPart, RunTypes, Recovery
  <2>4. RunPart'
    <3>1. RunTypes' BY <2>2, <2>3 DEF RunPart, RunTypes
    <3>2. OnlyOwn' BY <2>2 DEF RunPart, OnlyOwn
    <3>3. CacheFresh' BY <2>2, <2>3 DEF RunPart, CacheFresh, Top
    <3>4. QED BY <3>1, <3>2, <3>3 DEF RunPart
  <2>5. QED BY <2>1, <2>4
<1>6. CASE InterpGrow
  <2>1. /\ frames # << >> /\ ~Top.jit
        /\ UNCHANGED <<kind, imported, frames, recovery, failing, crashed, written, jitGrew>>
    BY <1>6 DEF InterpGrow, Running, runVars
  <2>2. PICK k \in Requests : \/ BelowCeiling(Top.mod, k) /\ GrowSucceeds(Top.mod, k)
                              \/ GrowFails
    BY <1>6 DEF InterpGrow
  <2>3. k \in Nat /\ Top.mod \in Mods /\ (~imported => Top.mod = "own")
    BY <2>1, MemoryAssumption, TopFacts
  <2>4. CASE GrowFails BY <2>1, <2>4, MemUnchanged DEF GrowFails, RunPart, RunTypes, OnlyOwn, CacheFresh, Top, memVars
  <2>5. CASE BelowCeiling(Top.mod, k) /\ GrowSucceeds(Top.mod, k)
    <3>1. jitGrew' \in BOOLEAN /\ (jitGrew => jitGrew') BY <2>1 DEF MemPart, MemTypes
    <3>2. MemPart' BY <2>1, <2>3, <2>5, <3>1, GrowKeeps
    <3>3. RunPart' BY <2>1 DEF RunPart, RunTypes, OnlyOwn, CacheFresh, Top
    <3>4. QED BY <3>2, <3>3
  <2>6. QED BY <2>2, <2>4, <2>5
<1>7. CASE JitGrow
  <2>1. frames # << >> /\ UNCHANGED <<kind, imported, written>>
    BY <1>7 DEF JitGrow, Running
  <2>2. PICK k \in Requests : \/ GrowSucceeds(Top.mod, k) /\ jitGrew' = (jitGrew \/ k > 0)
                              \/ GrowFails /\ UNCHANGED jitGrew
    BY <1>7 DEF JitGrow
  <2>3. k \in Nat /\ Top.mod \in Mods /\ (~imported => Top.mod = "own")
    BY <2>1, MemoryAssumption, TopFacts
  <2>4. CASE GrowFails /\ UNCHANGED jitGrew
    BY <1>7, <2>1, <2>4, MemUnchanged, JitGrowRun DEF GrowFails
  <2>5. CASE GrowSucceeds(Top.mod, k) /\ jitGrew' = (jitGrew \/ k > 0)
    <3>1. /\ jitGrew' \in BOOLEAN /\ (jitGrew => jitGrew')
          /\ k = 0 \/ jitGrew'
      <4>1. k = 0 \/ k > 0 BY <2>3
      <4>2. jitGrew \in BOOLEAN BY DEF MemPart, MemTypes
      <4>3. QED BY <2>5, <4>1, <4>2
    <3>2. MemPart' BY <2>1, <2>3, <2>5, <3>1, GrowKeeps
    <3>3. QED BY <1>7, <3>2, JitGrowRun
  <2>6. QED BY <2>2, <2>4, <2>5
<1>8. CASE UNCHANGED vars
  <2>1. MemPart' BY <1>8, MemUnchanged DEF vars, memVars
  <2>2. RunPart' BY <1>8 DEF vars, RunPart, RunTypes, OnlyOwn, CacheFresh, Top
  <2>3. QED BY <2>1, <2>2
<1>9. QED BY <1>1, <1>2, <1>3, <1>4, <1>5, <1>6, <1>7, <1>8 DEF Next

LEMMA MemAlways == Spec => []MemInv
<1>1. MemInv /\ [Next]_vars => MemInv' BY MemNext
<1>2. QED BY <1>1, MemInit, PTL DEF Spec

\* Every variable keeps its type, for every size and limit: in particular
\* no record of a memory ever exceeds what its type and the host allow, in
\* whichever tier and through whichever module it grows (Memory.grow).
THEOREM MemoryTypes == Spec => []TypeOK
<1>1. MemInv => TypeOK
  BY DEF MemInv, MemPart, MemTypes, RunPart, RunTypes, TypeOK
<1>2. QED BY <1>1, MemAlways, PTL

\* Whatever calls and growths are nested, compiled code with its cached size,
\* or with no check at all, admits exactly the accesses the interpreters admit
\* as long as one record describes the memory; and what a record admits is
\* committed (Memory.grow, emitLoadMemCache).
THEOREM TiersAlwaysAgree == Spec => []TiersAgree
<1>1. MemInv => TiersAgree
  <2> SUFFICES ASSUME MemInv PROVE TiersAgree
    OBVIOUS
  <2>1. kind = "guarded" => \A m \in Mods : len[m] <= committed
    BY DEF MemInv, MemPart, Records
  <2>2. ASSUME ~imported, Running, Top.jit, NEW p \in Pages
        PROVE  JitAdmits(Top.cache, p) <=> InterpAdmits(Top.mod, p)
    <3>1. Top.mod = "own" /\ Top.cache = len["own"]
      BY <2>2, TopFacts DEF MemInv, RunPart, CacheFresh, Running
    <3>2. CASE kind = "guarded"
      BY <2>2, <3>1, <3>2 DEF MemInv, MemPart, Records, JitAdmits, InterpAdmits
    <3>3. CASE kind = "list"
      <4>1. len["own"] \in Nat /\ p \in Int /\ Min \in Nat /\ Min <= len["own"]
        BY MemoryAssumption, Limits DEF MemInv, MemPart, MemTypes, Mods, Records, Pages
      <4>2. QED BY <3>1, <3>3, <4>1 DEF JitAdmits, InterpAdmits
    <3>4. QED BY <3>2, <3>3 DEF MemInv, MemPart, MemTypes
  <2>3. QED BY <2>1, <2>2 DEF TiersAgree
<1>2. QED BY <1>1, MemAlways, PTL

\* A page nobody has stored to reads as zero in every module that has it,
\* whichever sequence of growths, imports and stores came before.
THEOREM FreshPagesAreZero == Spec => []FreshIsZero
<1>1. MemInv => FreshIsZero
  <2> SUFFICES ASSUME MemInv, NEW m \in Mods, NEW p \in Pages \ written, p < len[m]
               PROVE  bytes[p] = 0
    BY DEF FreshIsZero
  <2>1. CASE kind = "guarded" BY <2>1 DEF MemInv, MemPart, ZeroBeyond
  <2>2. CASE kind = "list"
    <3>1. len["imp"] = 0 /\ p >= 0
      BY <2>2, MemoryAssumption DEF MemInv, MemPart, Records, Pages
    <3>2. m = "own" BY <3>1, MemoryAssumption DEF Mods, Pages
    <3>3. QED BY <3>2 DEF MemInv, MemPart, ZeroBeyond
  <2>3. QED BY <2>1, <2>2 DEF MemInv, MemPart, MemTypes
<1>2. QED BY <1>1, MemAlways, PTL

\* As long as compiled code does not grow the memory, max_memory_bytes is a
\* ceiling for every record, whatever is imported and in whichever order.
THEOREM CeilingAlwaysHolds == Spec => []CeilingHolds
<1>1. MemInv => CeilingHolds BY DEF MemInv, MemPart
<1>2. QED BY <1>1, MemAlways, PTL

-----------------------------------------------------------------------------
(***************************************************************************)
(* The types of the wait queue for any number of threads.  That an index   *)
(* or a buffer stays in range is a matter of counting: the list is never   *)
(* longer than the number of queued threads, and a buffer is either that   *)
(* of a queue, which only threads create that have found none, so no more  *)
(* often than there are threads, or one the list has moved to.             *)
(***************************************************************************)
InQueue == {t \in Thread : pc[t] \in Queued}
Creating == {t \in Thread : pc[t] = "creating"}

QueueInv ==
    /\ WaitTypeOK
    /\ waiting <= Cardinality(InQueue)
    /\ cur + moves + Cardinality(Creating) <= Cardinality(Thread) + MaxMoves
    /\ \A t \in Thread : pc[t] \in {"ready"} \cup Queued => cur # 0

\* A set of threads gains or loses a thread.
LEMMA ThreadSets ==
    /\ Cardinality(Thread) \in Nat
    /\ \A A \in SUBSET Thread : IsFiniteSet(A) /\ Cardinality(A) \in Nat /\ Cardinality(A) <= Cardinality(Thread)
    /\ \A A \in SUBSET Thread : \A t \in Thread \ A :
          Cardinality(A \cup {t}) = Cardinality(A) + 1 /\ Cardinality(A) + 1 <= Cardinality(Thread)
    /\ \A A \in SUBSET Thread : \A t \in A : Cardinality(A \ {t}) = Cardinality(A) - 1
<1>1. IsFiniteSet(Thread) BY WaitAssumption
<1>2. Cardinality(Thread) \in Nat BY <1>1, FS_CardinalityType
<1>3. ASSUME NEW A \in SUBSET Thread
      PROVE  IsFiniteSet(A) /\ Cardinality(A) \in Nat /\ Cardinality(A) <= Cardinality(Thread)
    <2>1. IsFiniteSet(A) /\ Cardinality(A) <= Cardinality(Thread) BY <1>1, FS_Subset
    <2>2. QED BY <2>1, FS_CardinalityType
<1>4. ASSUME NEW A \in SUBSET Thread, NEW t \in Thread \ A
      PROVE  Cardinality(A \cup {t}) = Cardinality(A) + 1 /\ Cardinality(A) + 1 <= Cardinality(Thread)
    <2>1. Cardinality(A \cup {t}) = Cardinality(A) + 1 BY <1>3, FS_AddElement
    <2>2. Cardinality(A \cup {t}) <= Cardinality(Thread) BY <1>3
    <2>3. QED BY <2>1, <2>2
<1>5. ASSUME NEW A \in SUBSET Thread, NEW t \in A PROVE Cardinality(A \ {t}) = Cardinality(A) - 1
    BY <1>3, FS_RemoveElement
<1>6. QED BY <1>2, <1>3, <1>4, <1>5

LEMMA QueueInit ==
    ASSUME Thread # {}, WaitInit
    PROVE  QueueInv
<1>1. Cardinality(Thread) \in Nat /\ Cardinality(Thread) >= 1
    <2>1. PICK t \in Thread : TRUE OBVIOUS
    <2>2. Cardinality({}) + 1 <= Cardinality(Thread) /\ Cardinality({}) \in Nat BY <2>1, ThreadSets
    <2>3. QED BY <2>2, ThreadSets
<1>2. 1 \in Index /\ 1 \in Bufs BY <1>1, WaitAssumption DEF Index, Bufs
<1>3. NoSlot \in Slot BY WaitAssumption DEF NoSlot, Slot
<1>4. WaitTypeOK
    <2>1. cur \in Bufs \cup {0} /\ waiting \in 0 .. Cardinality(Thread)
      BY <1>1, <1>2, WaitAssumption DEF WaitInit
    <2>2. /\ idx \in [Thread -> Index] /\ buf \in [Thread -> Bufs]
          /\ counted \in [Thread -> 0 .. MaxCounted]
      BY <1>2, WaitAssumption DEF WaitInit
    <2>3. word \in [Addr -> {0, 1}] /\ result \in [Thread -> 0 .. 2]
      BY DEF WaitInit
    <2>4. timed \in [Thread -> BOOLEAN] /\ panicked \in BOOLEAN /\ displaced \in BOOLEAN
      BY DEF WaitInit
    <2>5. pc \in [Thread -> PCs] /\ at \in [Thread -> Addr \cup {None}]
      BY DEF WaitInit, PCs
    <2>7. cap \in Nat /\ moves \in 0 .. MaxMoves
      BY WaitAssumption DEF WaitInit
    <2>6. slots \in [Bufs -> [Index -> Slot]]
      BY <1>3 DEF WaitInit
    <2> QED BY <2>1, <2>2, <2>3, <2>4, <2>5, <2>6, <2>7 DEF WaitTypeOK
<1>5. \A t \in Thread : pc[t] = "idle" BY DEF WaitInit
<1>6. Creating = {} /\ InQueue = {} BY <1>5 DEF Creating, InQueue, Queued
<1>7. Cardinality({}) = 0 BY FS_EmptySet
<1>8. cur \in {0, 1} /\ waiting = 0 /\ moves = MaxMoves BY DEF WaitInit
<1>9. QED BY <1>1, <1>4, <1>5, <1>6, <1>7, <1>8, WaitAssumption DEF QueueInv, Queued

\* What a step of thread t from `from' to `to' does to the two sets.
LEMMA QueueGoto ==
    ASSUME WaitTypeOK, NEW t \in Thread, NEW to \in PCs, Goto(t, to)
    PROVE  /\ pc' \in [Thread -> PCs] /\ pc'[t] = to /\ \A s \in Thread : s # t => pc'[s] = pc[s]
           /\ InQueue' = IF to \in Queued THEN InQueue \cup {t} ELSE InQueue \ {t}
           /\ Creating' = IF to = "creating" THEN Creating \cup {t} ELSE Creating \ {t}
<1>1. pc' \in [Thread -> PCs] /\ pc'[t] = to /\ \A s \in Thread : s # t => pc'[s] = pc[s]
    BY DEF WaitTypeOK, Goto
<1>2. QED BY <1>1 DEF InQueue, Creating

\* Steps within the queue's own variables unchanged.
LEMMA QueueOutside ==
    ASSUME QueueInv, NEW t \in Thread,
           \/ \E a \in Addr, e \in {0, 1}, d \in TimedWaits : Load(t, a, e, d)
           \/ Ensure(t) \/ EnqueueOom(t) \/ Awaken(t) \/ Resleep(t) \/ GiveUp(t) \/ Return(t)
    PROVE  QueueInv'
<1>1. PICK to \in PCs : Goto(t, to)
    BY DEF Load, Ensure, EnqueueOom, Awaken, Resleep, GiveUp, Return, PCs, Queued
<1>2. /\ pc' \in [Thread -> PCs] /\ pc'[t] = to /\ \A s \in Thread : s # t => pc'[s] = pc[s]
      /\ InQueue' = IF to \in Queued THEN InQueue \cup {t} ELSE InQueue \ {t}
      /\ Creating' = IF to = "creating" THEN Creating \cup {t} ELSE Creating \ {t}
    BY <1>1, QueueGoto DEF QueueInv
<1>3. /\ UNCHANGED <<cur, slots, waiting, cap, moves, displaced>>
      /\ to \in Queued <=> pc[t] \in Queued
      /\ to = "creating" => cur = 0
      /\ to = "ready" => cur # 0
      /\ pc[t] # "creating"
    <2>1. pc[t] \in PCs /\ pc'[t] = to BY <1>2 DEF QueueInv, WaitTypeOK
    <2>2. CASE \E a \in Addr, e \in {0, 1}, d \in TimedWaits : Load(t, a, e, d)
        BY <1>2, <2>2 DEF Load, Goto, queueVars, listVars, Queued, QueueInv, WaitTypeOK
    <2>3. CASE Ensure(t) BY <1>2, <2>3 DEF Ensure, Goto, queueVars, listVars, Queued, QueueInv, WaitTypeOK
    <2>4. CASE EnqueueOom(t) \/ Return(t)
        BY <1>2, <2>4 DEF EnqueueOom, Return, Goto, queueVars, listVars, Queued, QueueInv, WaitTypeOK
    <2>5. CASE Awaken(t) \/ Resleep(t) \/ GiveUp(t)
        BY <1>2, <2>5 DEF Awaken, Resleep, GiveUp, Goto, queueVars, listVars, Queued, QueueInv, WaitTypeOK
    <2>6. QED BY <2>2, <2>3, <2>4, <2>5
<1>4. WaitTypeOK'
    <2>1. ASSUME NEW a \in Addr, NEW e \in {0, 1}, NEW d \in TimedWaits, Load(t, a, e, d)
          PROVE  WaitTypeOK'
        <3>1. at' \in [Thread -> Addr \cup {None}] /\ timed' \in [Thread -> BOOLEAN]
            BY <2>1, WaitAssumption DEF Load, WaitTypeOK, QueueInv
        <3>2. result' \in [Thread -> 0 .. 2]
            <4>1. result' = result \/ result' = [result EXCEPT ![t] = 1] BY <2>1 DEF Load
            <4>2. result \in [Thread -> 0 .. 2] /\ 1 \in 0 .. 2 BY DEF WaitTypeOK, QueueInv
            <4>3. QED BY <4>1, <4>2
        <3>3. QED BY <1>2, <2>1, <3>1, <3>2 DEF Load, WaitTypeOK, QueueInv, queueVars, listVars
    <2>2. CASE Ensure(t) \/ Awaken(t) \/ Resleep(t) \/ GiveUp(t)
        BY <1>2, <2>2 DEF Ensure, Awaken, Resleep, GiveUp, WaitTypeOK, QueueInv, queueVars, listVars, callVars
    <2>3. CASE EnqueueOom(t)
        BY <1>2, <2>3 DEF EnqueueOom, WaitTypeOK, QueueInv, queueVars, listVars, callVars
    <2>4. CASE Return(t)
        <3>1. 1 \in Index /\ 1 \in Bufs
            <4>1. Cardinality({}) + 1 <= Cardinality(Thread) /\ Cardinality({}) \in Nat
                BY ThreadSets
            <4>2. QED BY <4>1, ThreadSets, WaitAssumption DEF Index, Bufs
        <3>2. QED BY <1>2, <2>4, <3>1, WaitAssumption DEF Return, WaitTypeOK, QueueInv, queueVars, listVars, callVars
    <2>5. QED BY <2>1, <2>2, <2>3, <2>4
<1>5. InQueue' = InQueue BY <1>2, <1>3 DEF InQueue
<1>6. cur' + moves' + Cardinality(Creating') <= Cardinality(Thread) + MaxMoves
    <2>1. CASE to = "creating"
        <3>1. Creating' \in SUBSET Thread BY <1>2 DEF Creating
        <3>2. Cardinality(Creating') <= Cardinality(Thread) /\ Cardinality(Creating') \in Nat
              /\ Cardinality(Thread) \in Nat
            BY <3>1, ThreadSets
        <3>3. moves' \in 0 .. MaxMoves /\ MaxMoves \in Nat /\ cur' = 0
            BY <1>3, <2>1, WaitAssumption DEF QueueInv, WaitTypeOK
        <3>4. QED BY <3>2, <3>3
    <2>2. CASE to # "creating"
        <3>1. Creating' = Creating BY <1>2, <1>3, <2>2 DEF Creating
        <3>2. QED BY <1>3, <3>1 DEF QueueInv
    <2>3. QED BY <2>1, <2>2
<1>7. \A s \in Thread : pc'[s] \in {"ready"} \cup Queued => cur' # 0
    BY <1>2, <1>3 DEF QueueInv
<1>8. QED BY <1>3, <1>4, <1>5, <1>6, <1>7 DEF QueueInv

\* Creating the queue once more.
LEMMA QueueCreates == ASSUME QueueInv, NEW t \in Thread, Create(t) PROVE QueueInv'
<1>1. Goto(t, "ready") /\ "ready" \in PCs /\ "ready" \notin Queued BY DEF Create, PCs, Queued
<1>2. /\ pc' \in [Thread -> PCs] /\ pc'[t] = "ready" /\ \A s \in Thread : s # t => pc'[s] = pc[s]
      /\ Creating' = Creating \ {t}
    BY <1>1, QueueGoto DEF QueueInv
<1>3. t \in Creating /\ Creating \in SUBSET Thread BY DEF Create, Creating
<1>4. Cardinality(Creating') = Cardinality(Creating) - 1 /\ Cardinality(Creating) \in Nat
      /\ Cardinality(Creating') \in Nat /\ Cardinality(Thread) \in Nat
    <2>1. Creating' \in SUBSET Thread BY DEF Creating
    <2>2. QED BY <1>2, <1>3, <2>1, ThreadSets
<1>5. /\ cur \in Nat /\ cur' = cur + 1 /\ waiting' = 0 /\ moves' = moves /\ moves \in Nat
      /\ MaxMoves \in Nat
      /\ cur + moves + Cardinality(Creating) <= Cardinality(Thread) + MaxMoves
    BY <1>4, WaitAssumption DEF Create, QueueInv, WaitTypeOK, Bufs
<1>6. /\ cur' \in Bufs /\ cur' # 0
      /\ cur' + moves' + Cardinality(Creating') <= Cardinality(Thread) + MaxMoves
    BY <1>4, <1>5 DEF Bufs
<1>7. Cardinality(InQueue') \in Nat
    <2>1. InQueue' \in SUBSET Thread BY DEF InQueue
    <2>2. QED BY <2>1, ThreadSets
<1>8. waiting' \in 0 .. Cardinality(Thread) BY <1>4, <1>5
<1>9. WaitTypeOK'
    <2>1. cap' \in Nat /\ moves' \in 0 .. MaxMoves /\ displaced' \in BOOLEAN
        BY Zenon DEF Create, Displace, QueueInv, WaitTypeOK
    <2>2. QED BY <1>2, <1>6, <1>8, <2>1 DEF WaitTypeOK, QueueInv, Create, callVars
<1>10. QED BY <1>5, <1>6, <1>7, <1>9 DEF QueueInv

\* The list has room for one more: the thread is not yet in it.
LEMMA QueueEnqueues == ASSUME QueueInv, NEW t \in Thread, Enqueue(t) PROVE QueueInv'
<1>1. Goto(t, "asleep") /\ "asleep" \in PCs /\ "asleep" \in Queued BY DEF Enqueue, PCs, Queued
<1>2. /\ pc' \in [Thread -> PCs] /\ pc'[t] = "asleep" /\ \A s \in Thread : s # t => pc'[s] = pc[s]
      /\ InQueue' = InQueue \cup {t} /\ Creating' = Creating \ {t}
    BY <1>1, QueueGoto DEF QueueInv
<1>3. t \in Thread \ InQueue /\ InQueue \in SUBSET Thread /\ t \notin Creating
    BY DEF Enqueue, InQueue, Queued, Creating
<1>4. /\ Cardinality(InQueue') = Cardinality(InQueue) + 1 /\ Cardinality(InQueue) + 1 <= Cardinality(Thread)
      /\ Cardinality(InQueue) \in Nat /\ Cardinality(Thread) \in Nat
      /\ Cardinality(Creating) \in Nat
    <2>1. Creating \in SUBSET Thread BY DEF Creating
    <2>2. QED BY <1>2, <1>3, <2>1, ThreadSets
<1>5. waiting \in Nat /\ waiting' = waiting + 1 /\ waiting <= Cardinality(InQueue)
    BY <1>4 DEF Enqueue, AppendEntry, QueueInv, WaitTypeOK
<1>6. waiting + 1 \in Index /\ waiting' \in 0 .. Cardinality(Thread) /\ waiting' <= Cardinality(InQueue')
    BY <1>4, <1>5 DEF Index
<1>7. cur \in Bufs /\ cur # 0 /\ moves \in 0 .. MaxMoves /\ MaxMoves \in Nat
    BY WaitAssumption DEF Enqueue, QueueInv, WaitTypeOK
<1>8. Entry(t) \in Slot
    <2>1. at[t] \in Addr \cup {None} BY DEF QueueInv, WaitTypeOK
    <2>2. QED BY <2>1, WaitAssumption DEF Slot, Entry
<1>9. slots \in [Bufs -> [Index -> Slot]] BY DEF QueueInv, WaitTypeOK
<1>10. /\ slots' \in [Bufs -> [Index -> Slot]] /\ cur' \in Bufs /\ cur' # 0
       /\ moves' \in 0 .. MaxMoves /\ cur' + moves' = cur + moves
    <2>1. CASE /\ slots' = [slots EXCEPT ![cur][waiting + 1] = Entry(t)]
               /\ UNCHANGED <<cur, moves>>
        BY <1>6, <1>7, <1>8, <1>9, <2>1
    <2>2. CASE /\ moves > 0
               /\ cur' = cur + 1 /\ moves' = moves - 1
               /\ \E left \in {slots[cur], [i \in Index |-> Poison]} :
                    slots' = [slots EXCEPT ![cur] = left,
                                ![cur + 1] = [slots[cur] EXCEPT ![waiting + 1] = Entry(t)]]
        <3>1. PICK left \in {slots[cur], [i \in Index |-> Poison]} :
                 slots' = [slots EXCEPT ![cur] = left,
                             ![cur + 1] = [slots[cur] EXCEPT ![waiting + 1] = Entry(t)]]
            BY <2>2
        <3>2. Poison \in Slot BY WaitAssumption DEF Poison, Slot
        <3>3. left \in [Index -> Slot] BY <1>7, <1>9, <3>1, <3>2
        <3>4. [slots[cur] EXCEPT ![waiting + 1] = Entry(t)] \in [Index -> Slot]
            BY <1>6, <1>7, <1>8, <1>9
        <3>5. slots' \in [Bufs -> [Index -> Slot]] BY <1>9, <3>1, <3>3, <3>4
        <3>6. cur + moves + Cardinality(Creating) <= Cardinality(Thread) + MaxMoves /\ cur \in Nat
            BY <1>7 DEF QueueInv, Bufs
        <3>7. cur' \in Bufs /\ moves' \in 0 .. MaxMoves BY <1>4, <1>7, <2>2, <3>6 DEF Bufs
        <3>8. QED BY <1>7, <2>2, <3>5, <3>6, <3>7
    <2>3. QED BY <2>1, <2>2 DEF Enqueue, AppendEntry
<1>11. idx' \in [Thread -> Index] /\ buf' \in [Thread -> Bufs]
    BY <1>6, <1>10 DEF Enqueue, QueueInv, WaitTypeOK
<1>12. cap' \in Nat /\ displaced' \in BOOLEAN
    <2>1. cap \in Nat /\ Spare \in Nat BY WaitAssumption DEF QueueInv, WaitTypeOK
    <2>2. cap' \in Nat BY <2>1 DEF Enqueue, AppendEntry
    <2>3. displaced' \in BOOLEAN BY Zenon DEF Enqueue, Displace
    <2>4. QED BY <2>2, <2>3
<1>13. WaitTypeOK' BY <1>2, <1>6, <1>10, <1>11, <1>12 DEF WaitTypeOK, QueueInv, Enqueue, callVars
<1>14. Creating' = Creating BY <1>2, <1>3
<1>15. cur' + moves' + Cardinality(Creating') <= Cardinality(Thread) + MaxMoves
    <2>1. cur + moves + Cardinality(Creating) <= Cardinality(Thread) + MaxMoves BY DEF QueueInv
    <2>2. cur' + moves' = cur + moves BY <1>10
    <2>3. Cardinality(Creating') = Cardinality(Creating) BY <1>14
    <2>4. cur \in Nat /\ cur' \in Nat BY <1>7, <1>10 DEF Bufs
    <2>5. moves \in Nat /\ moves' \in Nat /\ MaxMoves \in Nat BY <1>7, <1>10
    <2>6. Cardinality(Creating) \in Nat /\ Cardinality(Thread) \in Nat BY <1>4
    <2>7. PICK n \in Nat : n = Cardinality(Creating) BY <2>6
    <2>8. PICK m \in Nat : m = Cardinality(Thread) BY <2>6
    <2>9. cur + moves + n <= m + MaxMoves BY <2>1, <2>7, <2>8
    <2>10. cur' + moves' + n <= m + MaxMoves BY <2>2, <2>4, <2>5, <2>9
    <2>11. QED BY <2>3, <2>7, <2>8, <2>10
<1>16. QED BY <1>6, <1>10, <1>13, <1>15 DEF QueueInv

\* An entry keeps its type when its counters change.
LEMMA QueueSetCond ==
    ASSUME WaitTypeOK, NEW t \in Thread, NEW n \in 0 .. MaxState, NEW s \in 0 .. MaxState, SetCond(t, n, s)
    PROVE  slots' \in [Bufs -> [Index -> Slot]]
<1>1. /\ slots \in [Bufs -> [Index -> Slot]] /\ buf[t] \in Bufs /\ idx[t] \in Index
    BY DEF WaitTypeOK
<1>2. PICK c : c = [slots[buf[t]][idx[t]] EXCEPT !.waiters = n, !.signals = s] OBVIOUS
<1>3. slots[buf[t]][idx[t]] \in Slot BY <1>1
<1>4. c \in Slot BY <1>2, <1>3 DEF Slot
<1>5. slots' = [slots EXCEPT ![buf[t]][idx[t]] = c] BY <1>1, <1>2 DEF SetCond
<1>6. QED BY <1>1, <1>4, <1>5

LEMMA QueueWakes == ASSUME QueueInv, NEW t \in Thread, Consume(t) \/ Expire(t) PROVE QueueInv'
<1>1. WaitTypeOK /\ UNCHANGED <<word, listVars, callVars, idx, buf, counted>> /\ pc[t] \in Queued
    BY DEF Consume, Expire, QueueInv, Queued
<1>2. CASE UNCHANGED <<slots, result, pc>> /\ panicked' = TRUE
    BY <1>1, <1>2 DEF QueueInv, WaitTypeOK, listVars, callVars, InQueue, Creating
<1>3. Cond(t).waiters \in 0 .. MaxState /\ Cond(t).signals \in 0 .. MaxState /\ MaxState \in Nat \ {0}
    <2>1. Cond(t) \in Slot BY <1>1 DEF WaitTypeOK, Cond
    <2>2. QED BY <2>1, WaitAssumption DEF Slot
<1>4. ASSUME NEW n \in 0 .. MaxState, NEW k \in 0 .. MaxState, SetCond(t, n, k),
             result' = [result EXCEPT ![t] = 0] \/ result' = [result EXCEPT ![t] = 2],
             Goto(t, "leaving"), panicked' = panicked
      PROVE  QueueInv'
    <2>1. "leaving" \in PCs /\ "leaving" \in Queued BY DEF PCs, Queued
    <2>2. /\ pc' \in [Thread -> PCs] /\ pc'[t] = "leaving" /\ \A s \in Thread : s # t => pc'[s] = pc[s]
          /\ InQueue' = InQueue \cup {t} /\ Creating' = Creating \ {t}
        BY <1>1, <1>4, <2>1, QueueGoto
    <2>3. InQueue' = InQueue /\ Creating' = Creating
        BY <1>1, <2>2 DEF InQueue, Queued, Creating
    <2>4. slots' \in [Bufs -> [Index -> Slot]] BY <1>1, <1>4, QueueSetCond
    <2>5. result' \in [Thread -> 0 .. 2] BY <1>1, <1>4 DEF WaitTypeOK
    <2>6. WaitTypeOK' BY <1>1, <1>4, <2>2, <2>4, <2>5 DEF WaitTypeOK, listVars, callVars
    <2>7. \A r \in Thread : pc'[r] \in {"ready"} \cup Queued => cur' # 0
        BY <1>1, <2>2 DEF QueueInv, listVars
    <2>8. QED BY <1>1, <2>3, <2>6, <2>7 DEF QueueInv, listVars
<1>5. CASE Consume(t) /\ ~(UNCHANGED <<slots, result, pc>> /\ panicked' = TRUE)
    <2>. DEFINE n == IF Cond(t).waiters = 0 THEN MaxState ELSE Cond(t).waiters - 1
    <2>1. n \in 0 .. MaxState BY <1>3
    <2>2. Cond(t).signals - 1 \in 0 .. MaxState BY <1>3, <1>5 DEF Consume
    <2>3. SetCond(t, n, Cond(t).signals - 1) /\ result' = [result EXCEPT ![t] = 0]
          /\ Goto(t, "leaving") /\ panicked' = panicked
        BY <1>5 DEF Consume
    <2>. HIDE DEF n
    <2>4. QED BY <1>4, <2>1, <2>2, <2>3
<1>6. CASE Expire(t)
    <2>1. Goto(t, "leaving") /\ result' = [result EXCEPT ![t] = 2] /\ panicked' = panicked
        BY <1>6 DEF Expire
    <2>2. CASE Cond(t).waiters > 0
        <3>1. Cond(t).waiters - 1 \in 0 .. MaxState BY <1>3, <2>2
        <3>2. SetCond(t, Cond(t).waiters - 1, Cond(t).signals) BY <1>6, <2>2 DEF Expire
        <3>3. QED BY <1>3, <1>4, <2>1, <3>1, <3>2
    <2>3. CASE ~(Cond(t).waiters > 0)
        <3>. DEFINE k == IF Cond(t).signals > 0 THEN Cond(t).signals - 1 ELSE MaxState
        <3>1. k \in 0 .. MaxState /\ MaxState \in 0 .. MaxState BY <1>3
        <3>2. SetCond(t, MaxState, k) BY <1>6, <2>3 DEF Expire
        <3>. HIDE DEF k
        <3>3. QED BY <1>4, <2>1, <3>1, <3>2
    <2>4. QED BY <2>2, <2>3
<1>7. QED BY <1>2, <1>5, <1>6

LEMMA QueueLeaves == ASSUME QueueInv, NEW t \in Thread, LeaveQueue(t) PROVE QueueInv'
<1>1. WaitTypeOK /\ pc[t] = "leaving" /\ cur \in Bufs BY DEF LeaveQueue, QueueInv, WaitTypeOK, Queued
<1>2. CASE idx[t] > waiting
    BY <1>2 DEF LeaveQueue, QueueInv, WaitTypeOK, InQueue, Creating, queueVars, listVars, callVars
<1>3. CASE ~(idx[t] > waiting)
    <2>1. Goto(t, "returned") /\ "returned" \in PCs /\ "returned" \notin Queued
        BY <1>3 DEF LeaveQueue, PCs, Queued
    <2>2. /\ pc' \in [Thread -> PCs] /\ pc'[t] = "returned" /\ \A s \in Thread : s # t => pc'[s] = pc[s]
          /\ InQueue' = InQueue \ {t} /\ Creating' = Creating \ {t}
        BY <1>1, <2>1, QueueGoto
    <2>3. t \in InQueue /\ InQueue \in SUBSET Thread /\ t \notin Creating
        BY <1>1 DEF InQueue, Queued, Creating
    <2>4. Cardinality(InQueue') = Cardinality(InQueue) - 1 /\ Cardinality(InQueue) \in Nat
          /\ Cardinality(Thread) \in Nat
        BY <2>2, <2>3, ThreadSets
    <2>5. waiting' = waiting - 1 /\ waiting \in 1 .. Cardinality(Thread) /\ waiting <= Cardinality(InQueue)
        <3>1. idx[t] \in Index /\ waiting \in 0 .. Cardinality(Thread) BY <1>1 DEF WaitTypeOK
        <3>2. QED BY <1>3, <2>4, <3>1 DEF LeaveQueue, QueueInv, Index
    <2>6. waiting' \in 0 .. Cardinality(Thread) /\ waiting' <= Cardinality(InQueue') BY <2>4, <2>5
    <2>7. PICK last \in {slots[cur][waiting], Poison} :
              slots' = [b \in Bufs |-> [i \in Index |->
                          IF ~Matters(t, b, i) THEN NoSlot
                          ELSE IF b = cur THEN Removed(slots[b], idx[t], last)[i]
                          ELSE slots[b][i]]]
        BY <1>3 DEF LeaveQueue
    <2>8. slots \in [Bufs -> [Index -> Slot]] /\ slots[cur] \in [Index -> Slot] BY <1>1 DEF WaitTypeOK
    <2>9. last \in Slot
        <3>1. Poison \in Slot BY WaitAssumption DEF Poison, Slot
        <3>2. waiting \in Index BY <2>5 DEF Index
        <3>3. QED BY <2>7, <2>8, <3>1, <3>2
    <2>10. Removed(slots[cur], idx[t], last) \in [Index -> Slot]
        <3>1. \A j \in Index : j < waiting => j + 1 \in Index BY <2>4, <2>5 DEF Index
        <3>2. QED BY <2>8, <2>9, <3>1 DEF Removed
    <2>11. slots' \in [Bufs -> [Index -> Slot]]
        <3>1. NoSlot \in Slot BY WaitAssumption DEF NoSlot, Slot
        <3>2. ASSUME NEW b \in Bufs, NEW i \in Index
              PROVE  (IF ~Matters(t, b, i) THEN NoSlot
                      ELSE IF b = cur THEN Removed(slots[b], idx[t], last)[i]
                      ELSE slots[b][i]) \in Slot
            <4>1. slots[b][i] \in Slot /\ Removed(slots[cur], idx[t], last)[i] \in Slot BY <2>8, <2>10
            <4>2. QED BY <3>1, <4>1
        <3>3. QED BY <2>7, <3>2
    <2>12. UNCHANGED <<word, cur, cap, moves, panicked, callVars, idx, buf, result, counted>>
        BY <1>3 DEF LeaveQueue
    <2>17. displaced' \in BOOLEAN BY <1>3, Zenon DEF LeaveQueue, Displace
    <2>13. WaitTypeOK' BY <1>1, <2>2, <2>6, <2>11, <2>12, <2>17 DEF WaitTypeOK, callVars
    <2>14. Creating' = Creating BY <2>2, <2>3
    <2>15. \A s \in Thread : pc'[s] \in {"ready"} \cup Queued => cur' # 0
        BY <2>1, <2>2, <2>12 DEF QueueInv
    <2>16. QED BY <2>6, <2>12, <2>13, <2>14, <2>15 DEF QueueInv
<1>4. QED BY <1>2, <1>3

LEMMA QueueNotified ==
    ASSUME QueueInv, NEW a \in Addr, NEW c \in Counts, Notify(a, c)
    PROVE  QueueInv'
<1>. DEFINE S == Signalled(a, c)
            U == {i \in S : Unsignalled(i)}
<1>1. WaitTypeOK /\ cur \in Bufs /\ UNCHANGED <<word, listVars, callVars, idx, buf, result, panicked>>
    BY DEF QueueInv, WaitTypeOK, Notify
<1>2. S \subseteq 1 .. waiting /\ U \subseteq S BY DEF Signalled, Matching
<1>3. IsFiniteSet(S) /\ S \subseteq Index
    <2>1. waiting \in 0 .. Cardinality(Thread) /\ Cardinality(Thread) \in Nat
        BY <1>1, ThreadSets DEF WaitTypeOK
    <2>2. 1 .. waiting \subseteq Index BY <2>1 DEF Index
    <2>3. IsFiniteSet(1 .. waiting) BY <2>1, FS_Interval
    <2>4. QED BY <1>2, <2>2, <2>3, FS_Subset
<1>4. counted' \in [Thread -> 0 .. MaxCounted]
    <2>1. counted' = [t \in Thread |-> counted[t] + Cardinality({i \in S : slots[cur][i].owner = t})]
        BY DEF Notify
    <2>2. ASSUME NEW t \in Thread PROVE counted'[t] \in 0 .. MaxCounted
        <3>. DEFINE mine == {i \in S : slots[cur][i].owner = t}
        <3>1. mine \subseteq S OBVIOUS
        <3>2. Cardinality(mine) \in Nat BY <1>3, <3>1, FS_Subset, FS_CardinalityType
        <3>3. counted'[t] = counted[t] + Cardinality(mine) BY <2>1
        <3>4. counted'[t] <= MaxCounted BY DEF Notify
        <3>5. counted[t] \in 0 .. MaxCounted /\ MaxCounted \in Nat BY <1>1, WaitAssumption DEF WaitTypeOK
        <3>. HIDE DEF mine
        <3>6. QED BY <3>2, <3>3, <3>4, <3>5
    <2>3. QED BY <2>1, <2>2
<1>5. PICK W \in SUBSET UNION {Sleepers(i) : i \in U} :
          pc' = [t \in Thread |-> IF t \in W THEN "awake" ELSE pc[t]]
    BY DEF Notify
<1>6. \A t \in Thread : pc'[t] = pc[t] \/ (pc[t] = "asleep" /\ pc'[t] = "awake")
    <2>1. TAKE t \in Thread
    <2>2. ASSUME t \in W PROVE pc[t] = "asleep"
        <3>1. PICK i \in U : t \in Sleepers(i) BY <2>2, Zenon
        <3>2. QED BY <3>1 DEF Sleepers
    <2>3. QED BY <1>5, <2>2
<1>7. pc' \in [Thread -> PCs]
    <2>1. pc \in [Thread -> PCs] /\ "awake" \in PCs BY <1>1 DEF WaitTypeOK, PCs, Queued
    <2>2. QED BY <1>5, <2>1
<1>8. InQueue' = InQueue /\ Creating' = Creating BY <1>6 DEF InQueue, Creating, Queued
<1>9. slots' \in [Bufs -> [Index -> Slot]]
    <2>. DEFINE g == [i \in Index |-> IF i \in U THEN [slots[cur][i] EXCEPT !.signals = @ + 1]
                                      ELSE slots[cur][i]]
    <2>1. slots \in [Bufs -> [Index -> Slot]] BY <1>1 DEF WaitTypeOK
    <2>2. slots' = [slots EXCEPT ![cur] = g] BY DEF Notify
    <2>3. ASSUME NEW i \in U PROVE [slots[cur][i] EXCEPT !.signals = @ + 1] \in Slot
        <3>1. slots[cur][i] \in Slot BY <1>1, <1>2, <1>3, <2>1
        <3>2. slots[cur][i].waiters > slots[cur][i].signals BY DEF Unsignalled
        <3>3. slots[cur][i].signals + 1 \in 0 .. MaxState BY <3>1, <3>2, WaitAssumption DEF Slot
        <3>4. QED BY <3>1, <3>3 DEF Slot
    <2>4. g \in [Index -> Slot]
        <3>1. \A i \in Index : slots[cur][i] \in Slot BY <1>1, <2>1
        <3>. HIDE DEF U
        <3>2. QED BY <2>3, <3>1
    <2>. HIDE DEF g
    <2>5. QED BY <1>1, <2>1, <2>2, <2>4
<1>10. WaitTypeOK' BY <1>1, <1>4, <1>7, <1>9 DEF WaitTypeOK, listVars, callVars
<1>11. \A s \in Thread : pc'[s] \in {"ready"} \cup Queued => cur' # 0
    BY <1>1, <1>6 DEF QueueInv, Queued, listVars
<1>12. QED BY <1>1, <1>8, <1>10, <1>11 DEF QueueInv, listVars

LEMMA QueueStep == ASSUME QueueInv, [WaitNext]_waitVars PROVE QueueInv'
<1>1. CASE UNCHANGED waitVars
    BY <1>1 DEF waitVars, queueVars, listVars, callVars, QueueInv, WaitTypeOK, InQueue, Creating
<1>2. CASE \E t \in Thread : ThreadStep(t)
    BY <1>2, QueueOutside, QueueCreates, QueueEnqueues, QueueWakes, QueueLeaves DEF ThreadStep, WaitStep
<1>3. CASE \E a \in Addr : StoreWord(a)
    <2>1. PICK a \in Addr : StoreWord(a) BY <1>3
    <2>2. word' \in [Addr -> {0, 1}]
        <3>1. word \in [Addr -> {0, 1}] /\ word' = [word EXCEPT ![a] = 1 - @]
            BY <2>1 DEF StoreWord, QueueInv, WaitTypeOK
        <3>2. word[a] \in {0, 1} BY <3>1
        <3>3. 1 - word[a] \in {0, 1} BY <3>2
        <3>4. QED BY <3>1, <3>3
    <2>3. WaitTypeOK' BY <2>1, <2>2 DEF StoreWord, queueVars, listVars, callVars, QueueInv, WaitTypeOK
    <2>4. QED BY <2>1, <2>3 DEF StoreWord, queueVars, listVars, QueueInv, InQueue, Creating
<1>4. CASE \E a \in Addr, c \in Counts : Notify(a, c) BY <1>4, QueueNotified
<1>5. CASE \E a \in Addr, c \in Counts : NotifyPanic(a, c)
    BY <1>5 DEF NotifyPanic, queueVars, listVars, callVars, QueueInv, WaitTypeOK, InQueue, Creating
<1>6. QED BY <1>1, <1>2, <1>3, <1>4, <1>5 DEF WaitNext

\* With any number of waiting threads, at least one, the queue's variables
\* keep their types: no index or buffer goes beyond the list, however often
\* the queue is created again and however entries move, until a safety check
\* stops the process (ensureWaitQueue, removeWaiter, condTimedWait).
THEOREM QueueTypes ==
    ASSUME Thread # {}
    PROVE  WaitSpec => []WaitTypeOK
<1>1. WaitInit => QueueInv BY QueueInit
<1>2. QueueInv /\ [WaitNext]_waitVars => QueueInv' BY QueueStep
<1>3. QueueInv => WaitTypeOK BY DEF QueueInv
<1>4. QED BY <1>1, <1>2, <1>3, PTL DEF WaitSpec

-----------------------------------------------------------------------------
(***************************************************************************)
(* Who is woken was notified.  As long as no entry is displaced, the list  *)
(* holds exactly the entries of the threads in the queue, each where its   *)
(* thread looks for it; so a signal a sleeper finds was put there by a     *)
(* notify that counted it.                                                 *)
(***************************************************************************)
PlaceInv ==
    ~displaced =>
       /\ \A t \in Thread : pc[t] \in Queued => InPlace(t)
       /\ \A i \in 1 .. waiting : \E t \in Thread : pc[t] \in Queued /\ idx[t] = i
       /\ \A t \in Thread :
             pc[t] \in {"asleep", "awake"} /\ Cond(t).signals > 0 => counted[t] > 0
       /\ \A t \in Thread :
             pc[t] \in {"leaving", "returned"} /\ result[t] = 0 => counted[t] > 0

\* After a step that looks for displaced entries.
LEMMA DisplaceFacts ==
    ASSUME Displace, ~displaced', NEW s \in Thread, pc'[s] \in Queued
    PROVE  ~displaced /\ InPlace(s)'
  BY Zenon DEF Displace

LEMMA PlaceInit == WaitInit => PlaceInv
  BY DEF WaitInit, PlaceInv, Queued

\* Steps that touch neither the list nor what a thread has been told.
LEMMA PlaceOutside ==
    ASSUME QueueInv, PlaceInv, NEW t \in Thread,
           \/ \E a \in Addr, e \in {0, 1}, d \in TimedWaits : Load(t, a, e, d)
           \/ Ensure(t) \/ EnqueueOom(t) \/ Awaken(t) \/ Resleep(t) \/ GiveUp(t) \/ Return(t)
    PROVE  PlaceInv'
<1>1. UNCHANGED <<slots, cur, waiting, displaced>>
    BY DEF Load, Ensure, EnqueueOom, Awaken, Resleep, GiveUp, Return, queueVars, listVars
<1>2. /\ \A s \in Thread : s # t => /\ pc'[s] = pc[s] /\ idx'[s] = idx[s] /\ buf'[s] = buf[s]
                                    /\ result'[s] = result[s] /\ counted'[s] = counted[s]
      /\ pc'[t] \in Queued <=> pc[t] \in Queued
      /\ pc[t] \in Queued => idx'[t] = idx[t] /\ buf'[t] = buf[t] /\ counted'[t] = counted[t]
      /\ pc'[t] \in {"asleep", "awake"} => pc[t] \in {"asleep", "awake"}
      /\ pc'[t] \in {"leaving", "returned"} => result'[t] # 0
    <2>1. /\ pc \in [Thread -> PCs] /\ idx \in [Thread -> Index] /\ buf \in [Thread -> Bufs]
          /\ result \in [Thread -> 0 .. 2] /\ counted \in [Thread -> 0 .. MaxCounted]
        BY DEF QueueInv, WaitTypeOK
    <2>2. CASE \E a \in Addr, e \in {0, 1}, d \in TimedWaits : Load(t, a, e, d)
        BY <2>1, <2>2 DEF Load, Goto, Queued
    <2>3. CASE Ensure(t) BY <2>1, <2>3 DEF Ensure, Goto, Queued
    <2>4. CASE EnqueueOom(t) BY <2>1, <2>4 DEF EnqueueOom, Goto, Queued
    <2>5. CASE Awaken(t) \/ Resleep(t) \/ GiveUp(t)
        BY <2>1, <2>5 DEF Awaken, Resleep, GiveUp, Goto, Queued
    <2>6. CASE Return(t) BY <2>1, <2>6 DEF Return, Goto, Queued
    <2>7. QED BY <2>2, <2>3, <2>4, <2>5, <2>6
<1>3. ASSUME ~displaced' PROVE ~displaced BY <1>1, <1>3
<1>4. ASSUME ~displaced', NEW s \in Thread, pc'[s] \in Queued PROVE InPlace(s)'
    <2>1. pc[s] \in Queued /\ idx'[s] = idx[s] /\ buf'[s] = buf[s] BY <1>2, <1>4
    <2>2. InPlace(s) BY <1>3, <1>4, <2>1 DEF PlaceInv
    <2>3. QED BY <1>1, <2>1, <2>2 DEF InPlace
<1>5. ASSUME ~displaced', NEW i \in 1 .. waiting'
      PROVE  \E s \in Thread : pc'[s] \in Queued /\ idx'[s] = i
    <2>1. PICK s \in Thread : pc[s] \in Queued /\ idx[s] = i BY <1>1, <1>3, <1>5 DEF PlaceInv
    <2>2. pc'[s] \in Queued /\ idx'[s] = i BY <1>2, <2>1
    <2>3. QED BY <2>2
<1>6. ASSUME ~displaced', NEW s \in Thread, pc'[s] \in {"asleep", "awake"}, Cond(s)'.signals > 0
      PROVE  counted'[s] > 0
    <2>1. pc[s] \in {"asleep", "awake"} /\ idx'[s] = idx[s] /\ buf'[s] = buf[s]
          /\ counted'[s] = counted[s]
        BY <1>2, <1>6 DEF Queued
    <2>2. Cond(s)' = Cond(s) BY <1>1, <2>1 DEF Cond
    <2>3. QED BY <1>3, <1>6, <2>1, <2>2 DEF PlaceInv
<1>7. ASSUME ~displaced', NEW s \in Thread, pc'[s] \in {"leaving", "returned"}, result'[s] = 0
      PROVE  counted'[s] > 0
    BY <1>2, <1>3, <1>7 DEF PlaceInv
<1>8. QED BY <1>4, <1>5, <1>6, <1>7 DEF PlaceInv

\* A new queue over one that somebody is in displaces his entry.
LEMMA PlaceCreates == ASSUME QueueInv, PlaceInv, NEW t \in Thread, Create(t) PROVE PlaceInv'
<1> SUFFICES ASSUME ~displaced' PROVE PlaceInv'
  BY DEF PlaceInv
<1>1. /\ pc \in [Thread -> PCs] /\ pc[t] = "creating" /\ waiting' = 0
      /\ UNCHANGED <<idx, buf, result, counted>> /\ Displace
    BY DEF Create, QueueInv, WaitTypeOK
<1>2. pc'[t] = "ready" /\ \A s \in Thread : s # t => pc'[s] = pc[s]
    BY <1>1 DEF Create, Goto
<1>3. idx \in [Thread -> Index] BY DEF QueueInv, WaitTypeOK
<1>4. ASSUME NEW s \in Thread, pc'[s] \in Queued PROVE FALSE
    <2>1. InPlace(s)' BY <1>1, <1>4, DisplaceFacts
    <2>2. idx'[s] <= 0 BY <1>1, <2>1 DEF InPlace
    <2>3. QED BY <1>1, <1>3, <2>2 DEF Index
<1>5. ~displaced BY <1>1 DEF Displace
<1>6. \A s \in Thread : pc'[s] \in {"leaving", "returned"} /\ result'[s] = 0 => counted'[s] > 0
    BY <1>1, <1>2, <1>5 DEF PlaceInv
<1>7. QED BY <1>1, <1>4, <1>6 DEF PlaceInv, Queued

\* Moving the list displaces the entries in it; growing in place does not.
LEMMA PlaceEnqueues == ASSUME QueueInv, PlaceInv, NEW t \in Thread, Enqueue(t) PROVE PlaceInv'
<1> SUFFICES ASSUME ~displaced' PROVE PlaceInv'
  BY DEF PlaceInv
<1>1. /\ pc \in [Thread -> PCs] /\ pc[t] = "ready" /\ AppendEntry(t)
      /\ idx' = [idx EXCEPT ![t] = waiting + 1] /\ buf' = [buf EXCEPT ![t] = cur']
      /\ UNCHANGED <<result, counted>> /\ Displace /\ cur # 0
    BY DEF Enqueue, QueueInv, WaitTypeOK
<1>2. pc'[t] = "asleep" /\ \A s \in Thread : s # t => pc'[s] = pc[s]
    BY <1>1 DEF Enqueue, Goto
<1>3. /\ slots \in [Bufs -> [Index -> Slot]] /\ cur \in Bufs /\ cur \in Nat /\ waiting \in Nat
      /\ idx \in [Thread -> Index] /\ buf \in [Thread -> Bufs]
    BY <1>1 DEF QueueInv, WaitTypeOK, Bufs
<1>4. ~displaced BY <1>1 DEF Displace
<1>5. waiting + 1 \in Index
    <2>1. t \in Thread \ InQueue /\ InQueue \in SUBSET Thread BY <1>1 DEF InQueue, Queued
    <2>2. Cardinality(InQueue) + 1 <= Cardinality(Thread) /\ waiting <= Cardinality(InQueue)
          /\ Cardinality(InQueue) \in Nat /\ Cardinality(Thread) \in Nat
        BY <2>1, ThreadSets DEF QueueInv
    <2>3. QED BY <1>3, <2>2 DEF Index
<1>6. ASSUME NEW s \in Thread, s # t, pc[s] \in Queued
      PROVE  /\ idx'[s] = idx[s] /\ buf'[s] = buf[s] /\ buf[s] = cur
             /\ idx[s] \in 1 .. waiting /\ cur' = cur
    <2>1. InPlace(s) BY <1>4, <1>6 DEF PlaceInv
    <2>2. InPlace(s)' BY <1>1, <1>2, <1>6, DisplaceFacts
    <2>3. idx'[s] = idx[s] /\ buf'[s] = buf[s] BY <1>1, <1>3, <1>6
    <2>4. QED BY <1>3, <2>1, <2>2, <2>3 DEF InPlace, Index
<1>7. /\ cur' = cur /\ waiting' = waiting + 1
      /\ slots' = [slots EXCEPT ![cur][waiting + 1] = Entry(t)]
    <2>1. CASE /\ slots' = [slots EXCEPT ![cur][waiting + 1] = Entry(t)]
               /\ UNCHANGED <<cur, moves>>
        BY <1>1, <2>1 DEF AppendEntry
    <2>2. CASE waiting > 0 /\ cur' = cur + 1
        <3>1. 1 \in 1 .. waiting BY <1>3, <2>2
        <3>2. PICK s \in Thread : pc[s] \in Queued /\ idx[s] = 1 BY <1>4, <3>1 DEF PlaceInv
        <3>3. s # t BY <1>1, <3>2 DEF Queued
        <3>4. QED BY <1>3, <1>6, <2>2, <3>2, <3>3
    <2>3. QED BY <1>1, <2>1, <2>2 DEF AppendEntry
<1>8. ASSUME NEW s \in Thread, pc'[s] \in Queued PROVE InPlace(s)'
    BY <1>1, <1>8, DisplaceFacts
<1>9. ASSUME NEW i \in 1 .. waiting' PROVE \E s \in Thread : pc'[s] \in Queued /\ idx'[s] = i
    <2>1. CASE i = waiting + 1
        BY <1>1, <1>2, <1>3, <2>1 DEF Queued
    <2>2. CASE i \in 1 .. waiting
        <3>1. PICK s \in Thread : pc[s] \in Queued /\ idx[s] = i BY <1>4, <2>2 DEF PlaceInv
        <3>2. s # t BY <1>1, <3>1 DEF Queued
        <3>3. QED BY <1>2, <1>6, <3>1, <3>2
    <2>3. QED BY <1>3, <1>7, <1>9, <2>1, <2>2
<1>10. ASSUME NEW s \in Thread, pc'[s] \in {"asleep", "awake"}, Cond(s)'.signals > 0
       PROVE  counted'[s] > 0
    <2>1. CASE s = t
        <3>1. idx'[t] = waiting + 1 /\ buf'[t] = cur BY <1>1, <1>3, <1>7
        <3>2. Cond(t)' = Entry(t) BY <1>3, <1>5, <1>7, <3>1 DEF Cond
        <3>3. QED BY <1>10, <2>1, <3>2 DEF Entry
    <2>2. CASE s # t
        <3>1. pc[s] \in {"asleep", "awake"} /\ pc[s] \in Queued BY <1>2, <1>10, <2>2 DEF Queued
        <3>2. buf'[s] = buf[s] /\ idx'[s] = idx[s] /\ buf[s] = cur /\ idx[s] \in 1 .. waiting
            BY <1>6, <2>2, <3>1
        <3>3. slots'[cur][idx[s]] = slots[cur][idx[s]] BY <1>3, <1>5, <1>7, <3>2
        <3>4. Cond(s)' = Cond(s) BY <1>7, <3>2, <3>3 DEF Cond
        <3>5. QED BY <1>1, <1>4, <1>10, <3>1, <3>4 DEF PlaceInv
    <2>3. QED BY <2>1, <2>2
<1>11. ASSUME NEW s \in Thread, pc'[s] \in {"leaving", "returned"}, result'[s] = 0
       PROVE  counted'[s] > 0
    BY <1>1, <1>2, <1>4, <1>11 DEF PlaceInv
<1>12. QED BY <1>8, <1>9, <1>10, <1>11 DEF PlaceInv

\* A thread changes the counters of its own entry only.
LEMMA PlaceSetCond ==
    ASSUME QueueInv, PlaceInv, ~displaced, NEW t \in Thread, pc[t] \in Queued,
           NEW n, NEW k, SetCond(t, n, k)
    PROVE  /\ \A i \in 1 .. waiting : slots'[cur][i].owner = slots[cur][i].owner
           /\ \A s \in Thread : s # t /\ pc[s] \in Queued =>
                 slots'[buf[s]][idx[s]] = slots[buf[s]][idx[s]]
<1>1. /\ slots \in [Bufs -> [Index -> Slot]] /\ buf \in [Thread -> Bufs]
      /\ idx \in [Thread -> Index]
    BY DEF QueueInv, WaitTypeOK
<1>2. PICK c : c = [slots[buf[t]][idx[t]] EXCEPT !.waiters = n, !.signals = k] OBVIOUS
<1>3. slots' = [slots EXCEPT ![buf[t]][idx[t]] = c] BY <1>1, <1>2 DEF SetCond
<1>4. InPlace(t) BY DEF PlaceInv
<1>5. slots[buf[t]][idx[t]] \in Slot BY <1>1
<1>6. c.owner = slots[buf[t]][idx[t]].owner BY <1>2, <1>5 DEF Slot
<1>7. ASSUME NEW i \in 1 .. waiting PROVE slots'[cur][i].owner = slots[cur][i].owner
    <2>1. i \in Index /\ cur \in Bufs
        <3>1. waiting \in 0 .. Cardinality(Thread) /\ Cardinality(Thread) \in Nat
            BY ThreadSets DEF QueueInv, WaitTypeOK
        <3>2. QED BY <1>1, <1>4, <1>7, <3>1 DEF Index, InPlace
    <2>2. CASE buf[t] = cur /\ idx[t] = i BY <1>1, <1>3, <1>6, <2>1, <2>2
    <2>3. CASE idx[t] # i BY <1>1, <1>3, <2>1, <2>3
    <2>4. QED BY <1>4, <2>2, <2>3 DEF InPlace
<1>8. ASSUME NEW s \in Thread, s # t, pc[s] \in Queued
      PROVE  slots'[buf[s]][idx[s]] = slots[buf[s]][idx[s]]
    <2>1. InPlace(s) BY <1>8 DEF PlaceInv
    <2>2. idx[s] # idx[t] BY <1>4, <1>8, <2>1 DEF InPlace
    <2>3. QED BY <1>1, <1>3, <2>2
<1>9. QED BY <1>7, <1>8

\* A thread that takes a signal was counted; one that gives up reports 2.
LEMMA PlaceWakes ==
    ASSUME QueueInv, PlaceInv, NEW t \in Thread, Consume(t) \/ Expire(t)
    PROVE  PlaceInv'
<1> SUFFICES ASSUME ~displaced' PROVE PlaceInv'
  BY DEF PlaceInv
<1>1. /\ UNCHANGED <<cur, waiting, displaced, idx, buf, counted>> /\ pc[t] \in Queued
      /\ pc \in [Thread -> PCs] /\ result \in [Thread -> 0 .. 2]
    BY DEF Consume, Expire, listVars, Queued, QueueInv, WaitTypeOK
<1>2. ~displaced BY <1>1
<1>3. CASE UNCHANGED <<slots, result, pc>>
    BY <1>1, <1>3 DEF PlaceInv, InPlace, Cond
<1>4. ASSUME NEW n, NEW k, NEW r, SetCond(t, n, k), Goto(t, "leaving"),
             result' = [result EXCEPT ![t] = r], r # 0 \/ counted[t] > 0
      PROVE  PlaceInv'
    <2>1. pc'[t] = "leaving" /\ \A s \in Thread : s # t => pc'[s] = pc[s] BY <1>1, <1>4 DEF Goto
    <2>2. \A s \in Thread : pc'[s] \in Queued <=> pc[s] \in Queued BY <1>1, <2>1 DEF Queued
    <2>3. /\ \A i \in 1 .. waiting : slots'[cur][i].owner = slots[cur][i].owner
          /\ \A s \in Thread : s # t /\ pc[s] \in Queued =>
                slots'[buf[s]][idx[s]] = slots[buf[s]][idx[s]]
        BY <1>1, <1>2, <1>4, PlaceSetCond
    <2>4. ASSUME NEW s \in Thread, pc'[s] \in Queued PROVE InPlace(s)'
        <3>1. InPlace(s) BY <1>2, <2>2, <2>4 DEF PlaceInv
        <3>2. idx[s] \in 1 .. waiting
            BY <3>1 DEF InPlace, QueueInv, WaitTypeOK, Index
        <3>3. QED BY <1>1, <2>3, <3>1, <3>2 DEF InPlace
    <2>5. ASSUME NEW i \in 1 .. waiting' PROVE \E s \in Thread : pc'[s] \in Queued /\ idx'[s] = i
        BY <1>1, <1>2, <2>2, <2>5 DEF PlaceInv
    <2>6. ASSUME NEW s \in Thread, pc'[s] \in {"asleep", "awake"}, Cond(s)'.signals > 0
          PROVE  counted'[s] > 0
        <3>1. s # t /\ pc[s] \in {"asleep", "awake"} /\ pc[s] \in Queued BY <2>1, <2>6 DEF Queued
        <3>2. Cond(s)' = Cond(s) BY <1>1, <2>3, <3>1 DEF Cond
        <3>3. QED BY <1>1, <1>2, <2>6, <3>1, <3>2 DEF PlaceInv
    <2>7. ASSUME NEW s \in Thread, pc'[s] \in {"leaving", "returned"}, result'[s] = 0
          PROVE  counted'[s] > 0
        <3>1. CASE s = t BY <1>1, <1>4, <2>7, <3>1
        <3>2. CASE s # t
            <4>1. pc[s] \in {"leaving", "returned"} /\ result[s] = 0 BY <1>1, <1>4, <2>1, <2>7, <3>2
            <4>2. QED BY <1>1, <1>2, <4>1 DEF PlaceInv
        <3>3. QED BY <3>1, <3>2
    <2>8. QED BY <2>4, <2>5, <2>6, <2>7 DEF PlaceInv
<1>5. CASE Consume(t) /\ ~UNCHANGED <<slots, result, pc>>
    <2>1. counted[t] > 0 BY <1>2, <1>5 DEF Consume, PlaceInv
    <2>2. /\ SetCond(t, IF Cond(t).waiters = 0 THEN MaxState ELSE Cond(t).waiters - 1,
                     Cond(t).signals - 1)
          /\ result' = [result EXCEPT ![t] = 0] /\ Goto(t, "leaving")
        BY <1>5 DEF Consume
    <2>3. QED BY <1>4, <2>1, <2>2
<1>6. CASE Expire(t)
    <2>1. Goto(t, "leaving") /\ result' = [result EXCEPT ![t] = 2] /\ 2 # 0 BY <1>6 DEF Expire
    <2>2. CASE Cond(t).waiters > 0
        <3>1. SetCond(t, Cond(t).waiters - 1, Cond(t).signals) BY <1>6, <2>2 DEF Expire
        <3>2. QED BY <1>4, <2>1, <3>1
    <2>3. CASE ~(Cond(t).waiters > 0)
        <3>1. SetCond(t, MaxState,
                      IF Cond(t).signals > 0 THEN Cond(t).signals - 1 ELSE MaxState)
            BY <1>6, <2>3 DEF Expire
        <3>2. QED BY <1>4, <2>1, <3>1
    <2>4. QED BY <2>2, <2>3
<1>7. QED BY <1>3, <1>5, <1>6

\* Only the last entry leaves without displacing another.
LEMMA PlaceLeaves == ASSUME QueueInv, PlaceInv, NEW t \in Thread, LeaveQueue(t) PROVE PlaceInv'
<1> SUFFICES ASSUME ~displaced' PROVE PlaceInv'
  BY DEF PlaceInv
<1>1. /\ UNCHANGED <<cur, idx, buf, result, counted>> /\ pc[t] = "leaving" /\ pc[t] \in Queued
      /\ pc \in [Thread -> PCs] /\ idx \in [Thread -> Index]
      /\ slots \in [Bufs -> [Index -> Slot]] /\ waiting \in Nat
    BY DEF LeaveQueue, queueVars, listVars, Queued, QueueInv, WaitTypeOK
<1>2. CASE idx[t] > waiting
    BY <1>1, <1>2 DEF LeaveQueue, queueVars, listVars, PlaceInv, InPlace, Cond
<1>3. CASE ~(idx[t] > waiting)
    <2>1. Displace /\ waiting' = waiting - 1 /\ Goto(t, "returned") BY <1>3 DEF LeaveQueue
    <2>2. pc'[t] = "returned" /\ \A s \in Thread : s # t => pc'[s] = pc[s] BY <1>1, <2>1 DEF Goto
    <2>3. ~displaced /\ "returned" \notin Queued BY <2>1 DEF Displace, Queued
    <2>4. InPlace(t) /\ waiting >= 1 /\ cur \in Bufs
        BY <1>1, <1>3, <2>3 DEF PlaceInv, InPlace, Index, QueueInv, WaitTypeOK
    <2>5. ASSUME NEW s \in Thread, s # t, pc[s] \in Queued
          PROVE  InPlace(s) /\ InPlace(s)' /\ idx[s] # idx[t] /\ idx[s] \in 1 .. waiting - 1 /\ buf[s] = cur
        <3>1. InPlace(s) BY <2>3, <2>5 DEF PlaceInv
        <3>2. InPlace(s)' BY <2>1, <2>2, <2>5, DisplaceFacts
        <3>3. idx[s] # idx[t] BY <2>4, <2>5, <3>1 DEF InPlace
        <3>4. idx[s] <= waiting - 1 /\ idx[s] \in Nat /\ idx[s] >= 1
            BY <1>1, <2>1, <3>2 DEF InPlace, Index
        <3>5. QED BY <1>1, <3>1, <3>2, <3>3, <3>4 DEF InPlace
    <2>6. idx[t] = waiting
        <3>1. PICK s \in Thread : pc[s] \in Queued /\ idx[s] = waiting
            BY <1>1, <2>3, <2>4 DEF PlaceInv
        <3>2. s = t BY <1>1, <2>5, <3>1
        <3>3. QED BY <3>1, <3>2
    <2>7. ASSUME NEW i \in 1 .. waiting - 1 PROVE slots'[cur][i] = slots[cur][i]
        <3>1. i \in Index /\ i < waiting /\ i # waiting /\ ~(i >= waiting)
            <4>1. waiting \in 0 .. Cardinality(Thread) /\ Cardinality(Thread) \in Nat
                BY ThreadSets DEF QueueInv, WaitTypeOK
            <4>2. QED BY <2>7, <4>1 DEF Index
        <3>2. Matters(t, cur, i) BY <3>1 DEF Matters
        <3>3. PICK last \in {slots[cur][waiting], Poison} :
                  slots' = [b \in Bufs |-> [j \in Index |->
                              IF ~Matters(t, b, j) THEN NoSlot
                              ELSE IF b = cur THEN Removed(slots[b], idx[t], last)[j]
                              ELSE slots[b][j]]]
            BY <1>3 DEF LeaveQueue
        <3>4. slots'[cur][i] = Removed(slots[cur], idx[t], last)[i]
            BY <2>4, <3>1, <3>2, <3>3
        <3>5. QED BY <2>6, <3>1, <3>4 DEF Removed
    <2>8. ASSUME NEW s \in Thread, pc'[s] \in Queued PROVE InPlace(s)'
        BY <2>1, <2>8, DisplaceFacts
    <2>9. ASSUME NEW i \in 1 .. waiting' PROVE \E s \in Thread : pc'[s] \in Queued /\ idx'[s] = i
        <3>1. PICK s \in Thread : pc[s] \in Queued /\ idx[s] = i
            BY <1>1, <2>1, <2>3, <2>9 DEF PlaceInv
        <3>2. s # t BY <1>1, <2>1, <2>6, <2>9, <3>1
        <3>3. QED BY <1>1, <2>2, <3>1, <3>2
    <2>10. ASSUME NEW s \in Thread, pc'[s] \in {"asleep", "awake"}, Cond(s)'.signals > 0
           PROVE  counted'[s] > 0
        <3>1. s # t /\ pc[s] \in {"asleep", "awake"} /\ pc[s] \in Queued BY <2>2, <2>10 DEF Queued
        <3>2. idx[s] \in 1 .. waiting - 1 /\ buf[s] = cur BY <2>5, <3>1
        <3>3. Cond(s)' = Cond(s) BY <1>1, <2>7, <3>2 DEF Cond
        <3>4. QED BY <1>1, <2>3, <2>10, <3>1, <3>3 DEF PlaceInv
    <2>11. ASSUME NEW s \in Thread, pc'[s] \in {"leaving", "returned"}, result'[s] = 0
           PROVE  counted'[s] > 0
        <3>1. pc[s] \in {"leaving", "returned"} /\ result[s] = 0 BY <1>1, <2>2, <2>11
        <3>2. QED BY <1>1, <2>3, <3>1 DEF PlaceInv
    <2>12. QED BY <2>8, <2>9, <2>10, <2>11 DEF PlaceInv
<1>4. QED BY <1>2, <1>3

\* A notify counts every thread whose entry gets a signal.
LEMMA PlaceNotified ==
    ASSUME QueueInv, PlaceInv, NEW a \in Addr, NEW c \in Counts, Notify(a, c)
    PROVE  PlaceInv'
<1> SUFFICES ASSUME ~displaced' PROVE PlaceInv'
  BY DEF PlaceInv
<1>. DEFINE S == Signalled(a, c)
            U == {i \in S : Unsignalled(i)}
<1>1. /\ UNCHANGED <<cur, waiting, displaced, idx, buf, result>> /\ ~displaced /\ cur \in Bufs
      /\ slots \in [Bufs -> [Index -> Slot]] /\ idx \in [Thread -> Index]
      /\ counted \in [Thread -> 0 .. MaxCounted]
    BY DEF Notify, listVars, QueueInv, WaitTypeOK
<1>2. S \subseteq 1 .. waiting /\ S \subseteq Index /\ IsFiniteSet(S)
    <2>1. waiting \in 0 .. Cardinality(Thread) /\ Cardinality(Thread) \in Nat
        BY ThreadSets DEF QueueInv, WaitTypeOK
    <2>2. S \subseteq 1 .. waiting BY DEF Signalled, Matching
    <2>3. 1 .. waiting \subseteq Index BY <2>1 DEF Index
    <2>4. IsFiniteSet(1 .. waiting) BY <2>1, FS_Interval
    <2>5. QED BY <2>2, <2>3, <2>4, FS_Subset
<1>3. \A s \in Thread : pc'[s] = pc[s] \/ (pc[s] = "asleep" /\ pc'[s] = "awake")
    <2>1. PICK W \in SUBSET UNION {Sleepers(i) : i \in U} :
              pc' = [s \in Thread |-> IF s \in W THEN "awake" ELSE pc[s]]
        BY DEF Notify
    <2>2. ASSUME NEW s \in W PROVE pc[s] = "asleep"
        <3>1. PICK i \in U : s \in Sleepers(i) BY <2>2, Zenon
        <3>2. QED BY <3>1 DEF Sleepers
    <2>3. QED BY <2>1, <2>2
<1>4. ASSUME NEW s \in Thread
      PROVE  /\ counted'[s] >= counted[s] /\ counted[s] \in Nat /\ counted'[s] \in Nat
             /\ (\E i \in S : slots[cur][i].owner = s) => counted'[s] > 0
    <2>. DEFINE mine == {i \in S : slots[cur][i].owner = s}
    <2>1. counted'[s] = counted[s] + Cardinality(mine) BY DEF Notify
    <2>2. IsFiniteSet(mine) /\ Cardinality(mine) \in Nat
        BY <1>2, FS_Subset, FS_CardinalityType
    <2>3. counted[s] \in Nat BY <1>1, WaitAssumption
    <2>4. mine # {} => Cardinality(mine) # 0 BY <2>2, FS_EmptySet
    <2>5. (\E i \in S : slots[cur][i].owner = s) => mine # {} OBVIOUS
    <2>. HIDE DEF mine
    <2>6. QED BY <2>1, <2>2, <2>3, <2>4, <2>5
<1>5. ASSUME NEW i \in Index
      PROVE  /\ slots'[cur][i].owner = slots[cur][i].owner
             /\ i \notin U => slots'[cur][i] = slots[cur][i]
    <2>. DEFINE g == [j \in Index |-> IF j \in U THEN [slots[cur][j] EXCEPT !.signals = @ + 1]
                                      ELSE slots[cur][j]]
    <2>1. slots' = [slots EXCEPT ![cur] = g] BY DEF Notify
    <2>2. slots'[cur] = g BY <1>1, <2>1
    <2>3. slots[cur][i] \in Slot BY <1>1
    <2>4. g[i] = IF i \in U THEN [slots[cur][i] EXCEPT !.signals = @ + 1] ELSE slots[cur][i]
        OBVIOUS
    <2>. HIDE DEF g
    <2>5. QED BY <2>2, <2>3, <2>4 DEF Slot
<1>6. \A s \in Thread : pc'[s] \in Queued <=> pc[s] \in Queued BY <1>3 DEF Queued
<1>7. ASSUME NEW s \in Thread, pc'[s] \in Queued PROVE InPlace(s)'
    <2>1. InPlace(s) BY <1>1, <1>6, <1>7 DEF PlaceInv
    <2>2. idx[s] \in Index BY <1>1
    <2>3. QED BY <1>1, <1>5, <2>1, <2>2 DEF InPlace
<1>8. ASSUME NEW i \in 1 .. waiting' PROVE \E s \in Thread : pc'[s] \in Queued /\ idx'[s] = i
    BY <1>1, <1>6, <1>8 DEF PlaceInv
<1>9. ASSUME NEW s \in Thread, pc'[s] \in {"asleep", "awake"}, Cond(s)'.signals > 0
      PROVE  counted'[s] > 0
    <2>1. pc[s] \in {"asleep", "awake"} /\ pc[s] \in Queued BY <1>3, <1>9 DEF Queued
    <2>2. InPlace(s) /\ idx[s] \in Index BY <1>1, <2>1 DEF PlaceInv
    <2>3. CASE idx[s] \in U
        BY <1>4, <2>2, <2>3 DEF InPlace
    <2>4. CASE idx[s] \notin U
        <3>1. slots'[cur][idx[s]] = slots[cur][idx[s]] BY <1>5, <2>2, <2>4
        <3>2. Cond(s)' = Cond(s) BY <1>1, <2>2, <3>1 DEF Cond, InPlace
        <3>3. counted[s] > 0 BY <1>1, <1>9, <2>1, <3>2 DEF PlaceInv
        <3>4. QED BY <1>4, <3>3
    <2>5. QED BY <2>3, <2>4
<1>10. ASSUME NEW s \in Thread, pc'[s] \in {"leaving", "returned"}, result'[s] = 0
       PROVE  counted'[s] > 0
    <2>1. pc[s] \in {"leaving", "returned"} /\ result[s] = 0 BY <1>1, <1>3, <1>10
    <2>2. counted[s] > 0 BY <1>1, <2>1 DEF PlaceInv
    <2>3. QED BY <1>4, <2>2
<1>. HIDE DEF S, U
<1>11. QED BY <1>7, <1>8, <1>9, <1>10 DEF PlaceInv

LEMMA PlaceStep == ASSUME QueueInv, PlaceInv, [WaitNext]_waitVars PROVE PlaceInv'
<1>1. CASE UNCHANGED waitVars
    BY <1>1 DEF waitVars, queueVars, listVars, PlaceInv, InPlace, Cond
<1>2. CASE \E t \in Thread : ThreadStep(t)
    BY <1>2, PlaceOutside, PlaceCreates, PlaceEnqueues, PlaceWakes, PlaceLeaves DEF ThreadStep, WaitStep
<1>3. CASE \/ \E a \in Addr : StoreWord(a)
           \/ \E a \in Addr, c \in Counts : NotifyPanic(a, c)
    <2>1. UNCHANGED <<queueVars, pc, idx, buf, result, counted>>
        BY <1>3 DEF StoreWord, NotifyPanic
    <2>2. QED BY <2>1 DEF queueVars, listVars, PlaceInv, InPlace, Cond
<1>4. CASE \E a \in Addr, c \in Counts : Notify(a, c) BY <1>4, PlaceNotified
<1>5. QED BY <1>1, <1>2, <1>3, <1>4 DEF WaitNext

\* For any number of waiting threads, timed or not, with notifies from any
\* others: a wait reports 0 only when a notify counted its thread, as long as
\* no entry has been displaced (condTimedWait, atomicNotify).
THEOREM WokenIsNotified ==
    ASSUME Thread # {}
    PROVE  WaitSpec => []WokenWasNotified
<1>. DEFINE Places == QueueInv /\ PlaceInv
<1>1. WaitInit => Places BY QueueInit, PlaceInit
<1>2. Places /\ [WaitNext]_waitVars => Places' BY QueueStep, PlaceStep
<1>3. Places => WokenWasNotified BY DEF PlaceInv, WokenWasNotified
<1>. HIDE DEF Places
<1>4. QED BY <1>1, <1>2, <1>3, PTL DEF WaitSpec

\* The three memories together, as the run composes them: linear memory, the
\* wait queue and the arena keep their types, and no memory grows beyond its
\* limits (Memory.grow).
THEOREM AllMemoryTypes ==
    ASSUME Thread # {}
    PROVE  MCSpec => []MemoryTypesOK
<1>. DEFINE All == MemInv /\ QueueInv /\ BoundsInv
<1>1. MCInit => All BY MemInit, QueueInit, BoundsInit DEF MCInit
<1>2. All /\ [MCNext]_<<vars, waitVars, arenaVars>> => All'
    <2>1. MCNext => [Next]_vars /\ [WaitNext]_waitVars /\ [ArenaNext]_arenaVars BY DEF MCNext
    <2>2. [MCNext]_<<vars, waitVars, arenaVars>> => [Next]_vars /\ [WaitNext]_waitVars /\ [ArenaNext]_arenaVars
        BY <2>1
    <2>3. QED BY <2>2, MemNext, QueueStep, BoundsNext
<1>3. All => MemoryTypesOK
    BY DEF MemInv, MemPart, MemTypes, RunPart, RunTypes, TypeOK, QueueInv, BoundsInv, MemoryTypesOK
<1>. HIDE DEF All
<1>4. QED BY <1>1, <1>2, <1>3, PTL DEF MCSpec
=============================================================================
