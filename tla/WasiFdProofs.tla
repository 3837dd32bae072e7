----------------------------- MODULE WasiFdProofs -----------------------------
(***************************************************************************)
(* The descriptor table for every number of handles, preopens and slots:   *)
(* every handle of the runtime is held in exactly one place, a handle of   *)
(* the embedding program is closed only as the preopen it was lent as, and *)
(* the table implements the map of descriptors.                            *)
(***************************************************************************)
EXTENDS WasiFd, FiniteSetTheorems, SequenceTheorems, WellFoundedInduction, TLAPS

Kinds == {"file", "dir"}
Slot == {Closed} \cup [host : Handles, kind : Kinds]
Preopen == [wasi_fd : 3 .. MaxPreopens + 2, host : Handles, kind : Kinds,
            ownership : {"own", "borrow"}, is_open : BOOLEAN]
Handle == [obj : Objects, by : {"host", "runtime"}]
Table == [Handles -> {Free} \cup Handle]

\* The places that keep a handle: a stream, an open preopen, a used slot.
\* The streams the runtime has closed at the end are not among them.
StreamHas(g, h) ==
    /\ phase # "done" \/ stdio_fds[g].ownership = "borrow"
    /\ stdio_fds[g].host = h
PreopenHas(p, i, h) == p[i].is_open /\ p[i].host = h
SlotHas(t, i, h) == t[i] # Closed /\ t[i].host = h

By(ownership) == IF ownership = "own" THEN "runtime" ELSE "host"
IsOf(o, h, who) == o[h] # Free /\ o[h].by = who

\* Who a handle kept somewhere belongs to, with o the handles of the process.
StreamsKept(o) ==
    \A g \in 0 .. 2, h \in Handles :
        StreamHas(g, h) => IsOf(o, h, By(stdio_fds[g].ownership))
PreopensKept(o, p) ==
    \A i \in DOMAIN p, h \in Handles : PreopenHas(p, i, h) => IsOf(o, h, By(p[i].ownership))
SlotsKept(o, t) ==
    \A i \in DOMAIN t, h \in Handles : SlotHas(t, i, h) => IsOf(o, h, "runtime")

\* No two places keep the same handle.
Apart(p, t) ==
    \A h \in Handles :
        /\ \A f, g \in 0 .. 2 : StreamHas(f, h) /\ StreamHas(g, h) => f = g
        /\ \A i, j \in DOMAIN p : PreopenHas(p, i, h) /\ PreopenHas(p, j, h) => i = j
        /\ \A i, j \in DOMAIN t : SlotHas(t, i, h) /\ SlotHas(t, j, h) => i = j
        /\ \A g \in 0 .. 2, i \in DOMAIN p : ~(StreamHas(g, h) /\ PreopenHas(p, i, h))
        /\ \A g \in 0 .. 2, i \in DOMAIN t : ~(StreamHas(g, h) /\ SlotHas(t, i, h))
        /\ \A i \in DOMAIN p, j \in DOMAIN t : ~(PreopenHas(p, i, h) /\ SlotHas(t, j, h))

Kept(p, t, h) ==
    \/ \E g \in 0 .. 2 : StreamHas(g, h)
    \/ \E i \in DOMAIN p : PreopenHas(p, i, h)
    \/ \E i \in DOMAIN t : SlotHas(t, i, h)

\* The runtime's handles are the ones kept, and those in tmp, which a call
\* has in its hands.
NoLeak(o, p, t, tmp) ==
    /\ \A h \in Handles : IsOf(o, h, "runtime") => h \in tmp \/ Kept(p, t, h)
    /\ \A h \in tmp : h \in Handles /\ IsOf(o, h, "runtime") /\ ~Kept(p, t, h)

HeldIn(o, p, t, tmp) ==
    /\ StreamsKept(o) /\ PreopensKept(o, p) /\ SlotsKept(o, t)
    /\ Apart(p, t) /\ NoLeak(o, p, t, tmp)

\* No descriptor names two things; base is fd_base.
Numbers(p, t, base) ==
    /\ \A i, j \in DOMAIN p : p[i].wasi_fd = p[j].wasi_fd => i = j
    /\ \A i \in DOMAIN p, j \in DOMAIN t :
          p[i].is_open /\ t[j] # Closed => p[i].wasi_fd # base + j - 1

\* What loading leaves behind.
LoadOrder ==
    /\ phase = "load" => fd_table = <<>> /\ fd_base = 0
    /\ Len(preopens) + 3 <= next_fd
    /\ \A i \in DOMAIN preopens : preopens[i].wasi_fd < next_fd
    /\ fd_base # 0 => \A i \in DOMAIN preopens : preopens[i].wasi_fd < fd_base

WasiInv ==
    /\ WasiTypeOK
    /\ HeldIn(os, preopens, fd_table, {})
    /\ Numbers(preopens, fd_table, fd_base)
    /\ LoadOrder

-----------------------------------------------------------------------------
\* The least and the greatest of a set of numbers.
LEMMA LowestIn ==
    ASSUME NEW S, S \subseteq Nat, S # {}
    PROVE  Lowest(S) \in S /\ \A g \in S : Lowest(S) <= g
<1>1. PICK x \in S : \A y \in S : ~(<<y, x>> \in OpToRel(<, Nat))
  BY NatLessThanWellFounded, WFMin
<1>2. \A y \in S : x <= y
  <2> TAKE y \in S
  <2>1. x \in Nat /\ y \in Nat OBVIOUS
  <2>2. ~(y < x) BY <1>1, <2>1 DEF OpToRel
  <2>3. QED BY <2>1, <2>2
<1>3. QED BY <1>2 DEF Lowest

LEMMA MaxIn ==
    ASSUME NEW S, S \subseteq Nat, S # {}, NEW b \in Nat, \A n \in S : n <= b
    PROVE  MaxOf(S) \in S /\ \A m \in S : m <= MaxOf(S)
<1> DEFINE T == {b - n : n \in S}
<1>1. T \subseteq Nat /\ T # {}
  <2>1. \A n \in S : n \in Nat /\ n <= b OBVIOUS
  <2>2. \A n \in S : b - n \in Nat BY <2>1
  <2>3. PICK n \in S : TRUE OBVIOUS
  <2>4. b - n \in T BY <2>3
  <2>5. QED BY <2>2, <2>4
<1>2. PICK k \in T : \A g \in T : k <= g BY <1>1, LowestIn
<1>3. PICK n \in S : k = b - n OBVIOUS
<1>4. \A m \in S : m <= n
  <2> TAKE m \in S
  <2>1. b - m \in T OBVIOUS
  <2>2. b - n <= b - m BY <1>2, <1>3, <2>1
  <2>3. m \in Nat /\ n \in Nat OBVIOUS
  <2>4. QED BY <2>2, <2>3
<1>5. QED BY <1>4 DEF MaxOf

\* The constants, and that no record is Free or Closed.
LEMMA Basics ==
    /\ MaxHandle \in Nat /\ 0 .. 2 \subseteq Handles /\ Handles \subseteq Nat
    /\ MaxPreopens \in Nat /\ MaxTable \in Nat /\ GuestFds \subseteq Nat
    /\ Stream \in Objects
    /\ \A r \in Handle : r # Free
    /\ \A f \in Objects : f # Free
    /\ \A o \in Objects, who \in {"host", "runtime"} :
          /\ Held(o, who) \in Handle /\ Held(o, who).obj = o /\ Held(o, who).by = who
    /\ \A h \in Handles, k \in Kinds :
          /\ [host |-> h, kind |-> k] \in Slot /\ [host |-> h, kind |-> k] # Closed
  BY WasiAssumption DEF Handles, Objects, Handle, Held, Slot, Kinds

\* A context is what a call works on.
Context == [os : Table, preopens : Seq(Preopen), fd_table : Seq(Slot)]

LEMMA ContextFacts ==
    ASSUME NEW c \in Context
    PROVE  /\ c.os \in Table /\ c.preopens \in Seq(Preopen) /\ c.fd_table \in Seq(Slot)
           /\ DOMAIN c.preopens = 1 .. Len(c.preopens) /\ Len(c.preopens) \in Nat
           /\ DOMAIN c.fd_table = 1 .. Len(c.fd_table) /\ Len(c.fd_table) \in Nat
           /\ \A i \in DOMAIN c.preopens :
                 /\ c.preopens[i] \in Preopen /\ c.preopens[i].host \in Handles
                 /\ c.preopens[i].wasi_fd \in Nat /\ c.preopens[i].wasi_fd >= 3
           /\ \A i \in DOMAIN c.fd_table : c.fd_table[i] # Closed =>
                 c.fd_table[i].host \in Handles /\ c.fd_table[i].kind \in Kinds
<1>1. c.os \in Table /\ c.preopens \in Seq(Preopen) /\ c.fd_table \in Seq(Slot)
  BY DEF Context
<1>2. /\ DOMAIN c.preopens = 1 .. Len(c.preopens) /\ Len(c.preopens) \in Nat
      /\ \A i \in DOMAIN c.preopens : c.preopens[i] \in Preopen
  BY <1>1
<1>3. /\ DOMAIN c.fd_table = 1 .. Len(c.fd_table) /\ Len(c.fd_table) \in Nat
      /\ \A i \in DOMAIN c.fd_table : c.fd_table[i] \in Slot
  BY <1>1
<1>4. \A p \in Preopen : p.host \in Handles /\ p.wasi_fd \in Nat /\ p.wasi_fd >= 3
  BY Basics DEF Preopen
<1>5. \A e \in Slot : e # Closed => e.host \in Handles /\ e.kind \in Kinds
  BY DEF Slot
<1>6. QED BY <1>1, <1>2, <1>3, <1>4, <1>5

\* What closing a preopen, and closing a slot, makes of a context.
ClosesPreopen(c, d, i) ==
    /\ i \in DOMAIN c.preopens /\ c.preopens[i].is_open
    /\ d.os = [c.os EXCEPT ![c.preopens[i].host] = Free]
    /\ d.fd_table = c.fd_table
    /\ DOMAIN d.preopens = DOMAIN c.preopens
    /\ \A j \in DOMAIN c.preopens :
          /\ d.preopens[j].wasi_fd = c.preopens[j].wasi_fd
          /\ d.preopens[j].host = c.preopens[j].host
          /\ d.preopens[j].kind = c.preopens[j].kind
          /\ d.preopens[j].ownership = c.preopens[j].ownership
          /\ d.preopens[j].is_open <=> (c.preopens[j].is_open /\ j # i)

ClosesSlot(c, d, i) ==
    /\ i \in DOMAIN c.fd_table /\ c.fd_table[i] # Closed
    /\ d.os = [c.os EXCEPT ![c.fd_table[i].host] = Free]
    /\ d.preopens = c.preopens
    /\ DOMAIN d.fd_table = DOMAIN c.fd_table
    /\ \A j \in DOMAIN c.fd_table :
          d.fd_table[j] = IF j = i THEN Closed ELSE c.fd_table[j]

LEMMA CloseFdCases ==
    ASSUME NEW c \in Context, NEW fd \in Nat, fd_base \in Nat
    PROVE  LET d == closeFd(c, fd)
           IN  /\ d \in Context
               /\ Len(d.preopens) = Len(c.preopens) /\ Len(d.fd_table) = Len(c.fd_table)
               /\ \/ \E i \in preopenOf(c, fd) : ClosesPreopen(c, d, i)
                  \/ /\ preopenOf(c, fd) = {}
                     /\ \E i \in getFdEntry(c, fd) : ClosesSlot(c, d, i)
                  \/ preopenOf(c, fd) = {} /\ getFdEntry(c, fd) = {} /\ d = c
<1> DEFINE p == preopenOf(c, fd)
           e == getFdEntry(c, fd)
           d == closeFd(c, fd)
<1>0. p \subseteq DOMAIN c.preopens /\ p \subseteq Nat /\ e \subseteq DOMAIN c.fd_table /\ e \subseteq Nat
  BY ContextFacts DEF preopenOf, getFdEntry
<1>1. CASE p # {}
  <2> DEFINE i == Lowest(p)
             q == [c.preopens[i] EXCEPT !.is_open = FALSE]
             r == [c.preopens EXCEPT ![i] = q]
             n == [c.os EXCEPT ![c.preopens[i].host] = Free]
  <2>1. i \in p /\ i \in DOMAIN c.preopens /\ c.preopens[i].is_open
    BY <1>0, <1>1, LowestIn DEF preopenOf
  <2>2. d = [os |-> n, preopens |-> r, fd_table |-> c.fd_table]
    BY <1>1 DEF closeFd, pfdClose, Context
  <2>3. q \in Preopen /\ q.is_open = FALSE /\ q.wasi_fd = c.preopens[i].wasi_fd
        /\ q.host = c.preopens[i].host /\ q.kind = c.preopens[i].kind
        /\ q.ownership = c.preopens[i].ownership
    BY <2>1, ContextFacts DEF Preopen
  <2> HIDE DEF q
  <2>4. /\ r \in Seq(Preopen) /\ Len(r) = Len(c.preopens)
        /\ \A j \in 1 .. Len(c.preopens) : r[j] = IF j = i THEN q ELSE c.preopens[j]
    BY <2>1, <2>3, ContextFacts, ExceptSeq
  <2>5. n \in Table BY <2>1, ContextFacts DEF Table
  <2>6. d \in Context /\ d.os = n /\ d.preopens = r /\ d.fd_table = c.fd_table
    BY <2>2, <2>4, <2>5, ContextFacts DEF Context
  <2>7. DOMAIN r = DOMAIN c.preopens BY <2>4, ContextFacts
  <2> HIDE DEF d, r, i
  <2>8. ClosesPreopen(c, d, i)
    BY <2>1, <2>3, <2>4, <2>6, <2>7, ContextFacts DEF ClosesPreopen
  <2>9. QED BY <2>1, <2>4, <2>6, <2>8 DEF d
<1>2. CASE p = {} /\ e # {}
  <2> DEFINE i == Lowest(e)
             r == [c.fd_table EXCEPT ![i] = Closed]
             n == [c.os EXCEPT ![c.fd_table[i].host] = Free]
  <2>1. i \in e /\ i \in DOMAIN c.fd_table /\ c.fd_table[i] # Closed
    BY <1>0, <1>2, LowestIn DEF getFdEntry
  <2>2. d = [os |-> n, preopens |-> c.preopens, fd_table |-> r]
    BY <1>2 DEF closeFd, pfdClose, Context
  <2>3. Closed \in Slot BY DEF Slot
  <2>4. /\ r \in Seq(Slot) /\ Len(r) = Len(c.fd_table)
        /\ \A j \in 1 .. Len(c.fd_table) : r[j] = IF j = i THEN Closed ELSE c.fd_table[j]
    BY <2>1, <2>3, ContextFacts, ExceptSeq
  <2>5. n \in Table BY <2>1, ContextFacts DEF Table
  <2>6. d \in Context /\ d.os = n /\ d.preopens = c.preopens /\ d.fd_table = r
    BY <2>2, <2>4, <2>5, ContextFacts DEF Context
  <2>7. DOMAIN r = DOMAIN c.fd_table BY <2>4, ContextFacts
  <2> HIDE DEF d, r, i
  <2>8. ClosesSlot(c, d, i)
    BY <2>1, <2>4, <2>6, <2>7, ContextFacts DEF ClosesSlot
  <2>9. QED BY <1>2, <2>1, <2>4, <2>6, <2>8 DEF d
<1>3. CASE p = {} /\ e = {} BY <1>3 DEF closeFd
<1>4. QED BY <1>1, <1>2, <1>3

-----------------------------------------------------------------------------
\* The handles when one of them is closed, or given to the runtime.
LEMMA ClosedHandle ==
    ASSUME NEW o \in Table, NEW k \in Handles, NEW n, n = [o EXCEPT ![k] = Free]
    PROVE  \A h \in Handles, who \in {"host", "runtime"} :
               IsOf(n, h, who) <=> IsOf(o, h, who) /\ h # k
  BY DEF IsOf, Table

LEMMA GivenHandle ==
    ASSUME NEW o \in Table, NEW k \in Handles, NEW f \in Objects, NEW w \in {"host", "runtime"},
           NEW n, n = [o EXCEPT ![k] = Held(f, w)]
    PROVE  /\ n \in Table
           /\ \A h \in Handles, who \in {"host", "runtime"} :
                 IsOf(n, h, who) <=> IF h = k THEN who = w ELSE IsOf(o, h, who)
<1>1. Held(f, w) \in Handle /\ Held(f, w) # Free /\ Held(f, w).by = w BY Basics
<1>2. QED BY <1>1 DEF IsOf, Table

LEMMA ByType == \A x : By(x) \in {"host", "runtime"}
  BY DEF By

\* A place is closed: the place keeps nothing any more, and nobody else kept
\* its handle.
LEMMA HeldClosePreopen ==
    ASSUME NEW c \in Context, NEW d \in Context, NEW tmp, NEW i,
           HeldIn(c.os, c.preopens, c.fd_table, tmp), ClosesPreopen(c, d, i)
    PROVE  HeldIn(d.os, d.preopens, d.fd_table, tmp)
<1> DEFINE k == c.preopens[i].host
           p == c.preopens
           q == d.preopens
           t == c.fd_table
<1>0. k \in Handles /\ i \in DOMAIN p /\ DOMAIN q = DOMAIN p /\ d.fd_table = t
  BY ContextFacts DEF ClosesPreopen
<1>1. /\ \A h \in Handles, who \in {"host", "runtime"} :
            IsOf(d.os, h, who) <=> IsOf(c.os, h, who) /\ h # k
  BY <1>0, ContextFacts, ClosedHandle DEF ClosesPreopen
<1>2. \A j \in DOMAIN p, h \in Handles : PreopenHas(q, j, h) <=> PreopenHas(p, j, h) /\ j # i
  BY DEF ClosesPreopen, PreopenHas
<1>3. PreopenHas(p, i, k) BY DEF ClosesPreopen, PreopenHas
<1>4. \A j \in DOMAIN p : q[j].ownership = p[j].ownership BY DEF ClosesPreopen
<1>5. /\ StreamsKept(c.os) /\ PreopensKept(c.os, p) /\ SlotsKept(c.os, t)
      /\ Apart(p, t) /\ NoLeak(c.os, p, t, tmp)
  BY DEF HeldIn
<1> HIDE DEF k, p, q, t
<1>6. StreamsKept(d.os)
  BY <1>0, <1>1, <1>3, <1>5, ByType DEF StreamsKept, Apart
<1>7. PreopensKept(d.os, q)
  BY <1>0, <1>1, <1>2, <1>3, <1>4, <1>5, ByType DEF PreopensKept, Apart
<1>8. SlotsKept(d.os, t)
  BY <1>0, <1>1, <1>3, <1>5 DEF SlotsKept, Apart
<1>9. Apart(q, t) BY <1>0, <1>2, <1>5 DEF Apart
<1>10. NoLeak(d.os, q, t, tmp)
  <2>1. \A h \in Handles : h # k => (Kept(q, t, h) <=> Kept(p, t, h))
    BY <1>0, <1>2, <1>3, <1>5 DEF Kept, PreopenHas
  <2>2. \A h \in Handles : Kept(q, t, h) => Kept(p, t, h)
    BY <1>0, <1>2 DEF Kept
  <2>3. Kept(p, t, k) BY <1>0, <1>3 DEF Kept
  <2>4. QED BY <1>0, <1>1, <1>5, <2>1, <2>2, <2>3 DEF NoLeak
<1>11. QED BY <1>0, <1>6, <1>7, <1>8, <1>9, <1>10 DEF HeldIn, q, t

LEMMA HeldCloseSlot ==
    ASSUME NEW c \in Context, NEW d \in Context, NEW tmp, NEW i,
           HeldIn(c.os, c.preopens, c.fd_table, tmp), ClosesSlot(c, d, i)
    PROVE  HeldIn(d.os, d.preopens, d.fd_table, tmp)
<1> DEFINE k == c.fd_table[i].host
           p == c.preopens
           t == c.fd_table
           u == d.fd_table
<1>0. k \in Handles /\ i \in DOMAIN t /\ DOMAIN u = DOMAIN t /\ d.preopens = p
  BY ContextFacts DEF ClosesSlot
<1>1. /\ \A h \in Handles, who \in {"host", "runtime"} :
            IsOf(d.os, h, who) <=> IsOf(c.os, h, who) /\ h # k
  BY <1>0, ContextFacts, ClosedHandle DEF ClosesSlot
<1>2. \A j \in DOMAIN t, h \in Handles : SlotHas(u, j, h) <=> SlotHas(t, j, h) /\ j # i
  BY DEF ClosesSlot, SlotHas
<1>3. SlotHas(t, i, k) BY DEF ClosesSlot, SlotHas
<1>5. /\ StreamsKept(c.os) /\ PreopensKept(c.os, p) /\ SlotsKept(c.os, t)
      /\ Apart(p, t) /\ NoLeak(c.os, p, t, tmp)
  BY DEF HeldIn
<1> HIDE DEF k, p, t, u
<1>6. StreamsKept(d.os)
  BY <1>0, <1>1, <1>3, <1>5, ByType DEF StreamsKept, Apart
<1>7. PreopensKept(d.os, p)
  BY <1>0, <1>1, <1>3, <1>5, ByType DEF PreopensKept, Apart
<1>8. SlotsKept(d.os, u)
  BY <1>0, <1>1, <1>2, <1>3, <1>5 DEF SlotsKept, Apart
<1>9. Apart(p, u) BY <1>0, <1>2, <1>5 DEF Apart
<1>10. NoLeak(d.os, p, u, tmp)
  <2>1. \A h \in Handles : h # k => (Kept(p, u, h) <=> Kept(p, t, h))
    BY <1>0, <1>2, <1>3, <1>5 DEF Kept, SlotHas
  <2>2. \A h \in Handles : Kept(p, u, h) => Kept(p, t, h)
    BY <1>0, <1>2 DEF Kept
  <2>3. Kept(p, t, k) BY <1>0, <1>3 DEF Kept
  <2>4. QED BY <1>0, <1>1, <1>5, <2>1, <2>2, <2>3 DEF NoLeak
<1>11. QED BY <1>0, <1>6, <1>7, <1>8, <1>9, <1>10 DEF HeldIn, p, u

LEMMA HeldClose ==
    ASSUME NEW c \in Context, NEW fd \in Nat, fd_base \in Nat, NEW tmp,
           HeldIn(c.os, c.preopens, c.fd_table, tmp)
    PROVE  LET d == closeFd(c, fd) IN HeldIn(d.os, d.preopens, d.fd_table, tmp)
<1> DEFINE d == closeFd(c, fd)
<1>1. d \in Context BY CloseFdCases
<1> HIDE DEF d
<1>2. \/ \E i : ClosesPreopen(c, d, i)
      \/ \E i : ClosesSlot(c, d, i)
      \/ d = c
  BY CloseFdCases DEF d
<1>3. HeldIn(d.os, d.preopens, d.fd_table, tmp)
  BY <1>1, <1>2, HeldClosePreopen, HeldCloseSlot
<1>4. QED BY <1>3 DEF d

\* A call opens or duplicates a handle; then it puts it into a slot that was
\* not used, or closes it.  The table may have grown by unused slots.
LEMMA HeldTake ==
    ASSUME NEW o \in Table, NEW p, NEW t, NEW h \in Handles, NEW f \in Objects,
           ~Kept(p, t, h), HeldIn(o, p, t, {}),
           NEW n, n = [o EXCEPT ![h] = Held(f, "runtime")]
    PROVE  HeldIn(n, p, t, {h})
<1>1. \A k \in Handles, who \in {"host", "runtime"} :
         IsOf(n, k, who) <=> IF k = h THEN who = "runtime" ELSE IsOf(o, k, who)
  <2>1. Held(f, "runtime") # Free /\ Held(f, "runtime").by = "runtime" BY Basics
  <2>2. QED BY <2>1 DEF IsOf, Table
<1>3. /\ StreamsKept(o) /\ PreopensKept(o, p) /\ SlotsKept(o, t)
      /\ Apart(p, t) /\ NoLeak(o, p, t, {})
  BY DEF HeldIn
<1>4. \A who : \A k \in Handles : k # h => (IsOf(n, k, who) <=> IsOf(o, k, who)) BY DEF IsOf, Table
<1>5. StreamsKept(n) BY <1>3, <1>4 DEF StreamsKept, Kept
<1>6. PreopensKept(n, p) BY <1>3, <1>4 DEF PreopensKept, Kept
<1>7. SlotsKept(n, t) BY <1>1, <1>3 DEF SlotsKept, Kept
<1>8. NoLeak(n, p, t, {h}) BY <1>1, <1>3 DEF NoLeak
<1>9. QED BY <1>3, <1>5, <1>6, <1>7, <1>8 DEF HeldIn

LEMMA FreeNotKept ==
    ASSUME NEW o, NEW p, NEW t, NEW h \in Handles, o[h] = Free, NEW tmp, HeldIn(o, p, t, tmp)
    PROVE  ~Kept(p, t, h)
<1>1. \A who : ~IsOf(o, h, who) BY DEF IsOf
<1>2. QED BY <1>1 DEF HeldIn, Kept, StreamsKept, PreopensKept, SlotsKept

LEMMA HeldNew ==
    ASSUME NEW o \in Table, NEW p, NEW t, NEW h \in Handles, NEW f \in Objects,
           o[h] = Free, HeldIn(o, p, t, {}),
           NEW n, n = [o EXCEPT ![h] = Held(f, "runtime")]
    PROVE  HeldIn(n, p, t, {h})
<1>1. ~Kept(p, t, h) BY FreeNotKept
<1>2. QED BY <1>1, HeldTake

\* u is t with handle h in slot i, and perhaps more unused slots.
Fills(t, u, i, h) ==
    /\ DOMAIN t \subseteq DOMAIN u
    /\ i \in DOMAIN u /\ u[i] # Closed /\ u[i].host = h
    /\ i \in DOMAIN t => t[i] = Closed
    /\ \A j \in DOMAIN u : j # i => u[j] = IF j \in DOMAIN t THEN t[j] ELSE Closed

LEMMA HeldFill ==
    ASSUME NEW o, NEW p, NEW t, NEW u, NEW i, NEW h \in Handles,
           HeldIn(o, p, t, {h}), Fills(t, u, i, h)
    PROVE  HeldIn(o, p, u, {})
<1>1. \A j \in DOMAIN u, k \in Handles :
         SlotHas(u, j, k) <=> \/ j = i /\ k = h
                              \/ j \in DOMAIN t /\ SlotHas(t, j, k)
  BY DEF Fills, SlotHas
<1>2. DOMAIN t \subseteq DOMAIN u /\ i \in DOMAIN u BY DEF Fills
<1>3. /\ StreamsKept(o) /\ PreopensKept(o, p) /\ SlotsKept(o, t)
      /\ Apart(p, t) /\ NoLeak(o, p, t, {h})
  BY DEF HeldIn
<1>4. IsOf(o, h, "runtime") /\ ~Kept(p, t, h) BY <1>3 DEF NoLeak
<1>5. SlotsKept(o, u) BY <1>1, <1>3, <1>4 DEF SlotsKept
<1>6. Apart(p, u) BY <1>1, <1>2, <1>3, <1>4 DEF Apart, Kept
<1>7. NoLeak(o, p, u, {}) BY <1>1, <1>2, <1>3 DEF NoLeak, Kept
<1>8. QED BY <1>3, <1>5, <1>6, <1>7 DEF HeldIn

LEMMA HeldDrop ==
    ASSUME NEW o \in Table, NEW p, NEW t, NEW u, NEW h \in Handles, NEW n,
           HeldIn(o, p, t, {h}), n = [o EXCEPT ![h] = Free],
           DOMAIN t \subseteq DOMAIN u,
           \A j \in DOMAIN u : u[j] = IF j \in DOMAIN t THEN t[j] ELSE Closed
    PROVE  HeldIn(n, p, u, {})
<1>1. \A j \in DOMAIN u, k \in Handles :
         SlotHas(u, j, k) <=> j \in DOMAIN t /\ SlotHas(t, j, k)
  BY DEF SlotHas
<1>2. \A k \in Handles, who \in {"host", "runtime"} :
         IsOf(n, k, who) <=> IsOf(o, k, who) /\ k # h
  BY DEF IsOf, Table
<1>3. /\ StreamsKept(o) /\ PreopensKept(o, p) /\ SlotsKept(o, t)
      /\ Apart(p, t) /\ NoLeak(o, p, t, {h})
  BY DEF HeldIn
<1>4. ~Kept(p, t, h) BY <1>3 DEF NoLeak
<1>5. StreamsKept(n)
  <2> SUFFICES ASSUME NEW g \in 0 .. 2, NEW k \in Handles, StreamHas(g, k)
               PROVE  IsOf(n, k, By(stdio_fds[g].ownership))
    BY DEF StreamsKept
  <2>1. k # h /\ IsOf(o, k, By(stdio_fds[g].ownership))
    BY <1>3, <1>4 DEF StreamsKept, Kept
  <2>2. By(stdio_fds[g].ownership) \in {"host", "runtime"} BY ByType
  <2>3. QED BY <1>2, <2>1, <2>2
<1>6. PreopensKept(n, p)
  <2> SUFFICES ASSUME NEW i \in DOMAIN p, NEW k \in Handles, PreopenHas(p, i, k)
               PROVE  IsOf(n, k, By(p[i].ownership))
    BY DEF PreopensKept
  <2>1. k # h /\ IsOf(o, k, By(p[i].ownership))
    BY <1>3, <1>4 DEF PreopensKept, Kept
  <2>2. By(p[i].ownership) \in {"host", "runtime"} BY ByType
  <2>3. QED BY <1>2, <2>1, <2>2
<1>7. SlotsKept(n, u) BY <1>1, <1>2, <1>3, <1>4 DEF SlotsKept, Kept
<1>8. Apart(p, u) BY <1>1, <1>3 DEF Apart
<1>9. NoLeak(n, p, u, {}) BY <1>1, <1>2, <1>3 DEF NoLeak, Kept
<1>10. QED BY <1>5, <1>6, <1>7, <1>8, <1>9 DEF HeldIn

-----------------------------------------------------------------------------
\* fd_renumber: the table extended with n of the slots that are missing.
LEMMA ExtendedFacts ==
    ASSUME NEW t \in Seq(Slot), NEW idx \in Nat, idx > Len(t), NEW entry \in Slot,
           NEW n \in 0 .. idx - Len(t)
    PROVE  LET u == Extended(t, idx, entry, n)
           IN  /\ u \in Seq(Slot) /\ Len(u) = Len(t) + n
               /\ \A j \in 1 .. Len(t) + n :
                    u[j] = IF j <= Len(t) THEN t[j] ELSE IF j = idx THEN entry ELSE Closed
<1> DEFINE gap == [i \in 1 .. idx - 1 - Len(t) |-> Closed]
           filled == t \o gap \o <<entry>>
           u == Extended(t, idx, entry, n)
<1>0. Len(t) \in Nat /\ idx - 1 - Len(t) \in Nat /\ n \in Nat /\ Closed \in Slot
  BY DEF Slot
<1>1. gap \in Seq(Slot) /\ Len(gap) = idx - 1 - Len(t)
  BY <1>0
<1>2. \A j \in 1 .. idx - 1 - Len(t) : gap[j] = Closed OBVIOUS
<1> HIDE DEF gap
<1>3. /\ t \o gap \in Seq(Slot) /\ Len(t \o gap) = idx - 1
      /\ \A j \in 1 .. idx - 1 : (t \o gap)[j] = IF j <= Len(t) THEN t[j] ELSE Closed
  <2>1. /\ t \o gap \in Seq(Slot) /\ Len(t \o gap) = Len(t) + Len(gap)
        /\ \A j \in 1 .. Len(t) + Len(gap) :
              (t \o gap)[j] = IF j <= Len(t) THEN t[j] ELSE gap[j - Len(t)]
    BY <1>1, ConcatProperties
  <2>2. Len(t) + Len(gap) = idx - 1 BY <1>0, <1>1
  <2>3. \A j \in 1 .. idx - 1 : j > Len(t) => j - Len(t) \in 1 .. idx - 1 - Len(t)
    BY <1>0
  <2>4. QED BY <1>0, <1>2, <2>1, <2>2, <2>3
<1>4. /\ filled \in Seq(Slot) /\ Len(filled) = idx
      /\ \A j \in 1 .. idx : filled[j] = IF j < idx THEN (t \o gap)[j] ELSE entry
  <2>1. <<entry>> \in Seq(Slot) /\ Len(<<entry>>) = 1 /\ <<entry>>[1] = entry OBVIOUS
  <2>2. /\ filled \in Seq(Slot) /\ Len(filled) = Len(t \o gap) + 1
        /\ \A j \in 1 .. Len(t \o gap) + 1 :
              filled[j] = IF j <= Len(t \o gap) THEN (t \o gap)[j]
                          ELSE <<entry>>[j - Len(t \o gap)]
    BY <1>3, <2>1, ConcatProperties
  <2>3. \A j \in 1 .. idx : j <= idx - 1 <=> j < idx OBVIOUS
  <2>4. \A j \in 1 .. idx : ~(j < idx) => j - (idx - 1) = 1 OBVIOUS
  <2>5. QED BY <1>3, <2>1, <2>2, <2>3, <2>4
<1>5. u = SubSeq(filled, 1, Len(t) + n) BY DEF Extended, gap
<1> HIDE DEF filled, u
<1>6. \A j \in 1 .. Len(t) + n : j \in 1 .. idx /\ filled[j] \in Slot
  BY <1>0, <1>4
<1>7. /\ u \in Seq(Slot) /\ Len(u) = IF 1 <= Len(t) + n THEN (Len(t) + n) - 1 + 1 ELSE 0
      /\ \A j \in 1 .. (Len(t) + n) - 1 + 1 : u[j] = filled[1 + j - 1]
  BY <1>0, <1>5, <1>6, SubSeqProperties
<1>8. Len(u) = Len(t) + n BY <1>0, <1>7
<1>9. \A j \in 1 .. Len(t) + n :
        u[j] = IF j <= Len(t) THEN t[j] ELSE IF j = idx THEN entry ELSE Closed
  <2> TAKE j \in 1 .. Len(t) + n
  <2>1. j \in 1 .. (Len(t) + n) - 1 + 1 /\ 1 + j - 1 = j BY <1>0
  <2>2. u[j] = filled[j] BY <1>7, <2>1
  <2>3. j \in 1 .. idx BY <1>6
  <2>4. CASE j = idx BY <1>0, <1>4, <2>2, <2>3, <2>4
  <2>5. CASE j # idx
    <3>1. j \in 1 .. idx - 1 /\ j < idx BY <2>3, <2>5
    <3>2. QED BY <1>3, <1>4, <2>2, <2>3, <2>5, <3>1
  <2>6. QED BY <2>4, <2>5
<1>10. QED BY <1>7, <1>8, <1>9 DEF u

\* u is t, and perhaps more unused slots.
Grows(t, u) ==
    /\ DOMAIN t \subseteq DOMAIN u
    /\ \A j \in DOMAIN u : u[j] = IF j \in DOMAIN t THEN t[j] ELSE Closed

LEMMA AssignCases ==
    ASSUME NEW c \in Context, NEW h \in Handles, NEW to \in Nat, fd_base \in Nat,
           to - fd_base < MaxTable, Len(c.fd_table) <= MaxTable,
           getFdEntry(c, to) = {}, NEW d \in Assign(c, h, to)
    PROVE  /\ d \in Context /\ d.preopens = c.preopens /\ Len(d.fd_table) <= MaxTable
           /\ \/ /\ d.os = c.os /\ to >= fd_base
                 /\ Fills(c.fd_table, d.fd_table, to - fd_base + 1, h)
              \/ /\ d.os = [c.os EXCEPT ![h] = Free]
                 /\ Grows(c.fd_table, d.fd_table)
<1> DEFINE idx == to - fd_base + 1
           t == c.fd_table
           entry == [host |-> h, kind |-> "file"]
           missing == idx - Len(t)
           n == [c.os EXCEPT ![h] = Free]
<1>0. /\ Len(t) \in Nat /\ t \in Seq(Slot) /\ DOMAIN t = 1 .. Len(t) /\ c.os \in Table
      /\ c.preopens \in Seq(Preopen) /\ MaxTable \in Nat /\ idx \in Int
      /\ c = [os |-> c.os, preopens |-> c.preopens, fd_table |-> t]
  BY ContextFacts, Basics DEF Context
<1>1. entry \in Slot /\ entry # Closed /\ entry.host = h BY Basics DEF Kinds
<1>2. n \in Table BY <1>0 DEF Table
<1> HIDE DEF n
<1>3. CASE to < fd_base
  <2>1. d = [os |-> n, preopens |-> c.preopens, fd_table |-> t]
    BY <1>0, <1>3 DEF Assign, pfdClose, n
  <2>2. QED BY <1>0, <1>2, <2>1 DEF Context, Grows, n
<1>4. CASE ~(to < fd_base) /\ missing <= 0
  <2> DEFINE u == [t EXCEPT ![idx] = entry]
  <2>1. idx \in Nat /\ idx \in 1 .. Len(t) BY <1>0, <1>4
  <2>2. d = [os |-> c.os, preopens |-> c.preopens, fd_table |-> u]
    BY <1>0, <1>4 DEF Assign
  <2>3. /\ u \in Seq(Slot) /\ Len(u) = Len(t)
        /\ \A j \in 1 .. Len(t) : u[j] = IF j = idx THEN entry ELSE t[j]
    BY <1>0, <1>1, <2>1, ExceptSeq
  <2> HIDE DEF u
  <2>4. DOMAIN u = DOMAIN t BY <1>0, <2>3
  <2>5. t[idx] = Closed BY <1>0, <1>4, <2>1 DEF getFdEntry
  <2> HIDE DEF entry, idx
  <2>6. Fills(t, u, idx, h) BY <1>0, <1>1, <2>1, <2>3, <2>4, <2>5 DEF Fills
  <2>7. to >= fd_base BY <1>4
  <2>8. QED BY <1>0, <2>2, <2>3, <2>6, <2>7 DEF Context, idx
<1>5. CASE ~(to < fd_base) /\ ~(missing <= 0)
  <2>1. /\ idx \in Nat /\ idx > Len(t) /\ missing \in Nat /\ Len(t) + missing = idx
        /\ idx <= MaxTable /\ to >= fd_base
    BY <1>0, <1>5
  <2>2. \A k \in 0 .. missing : LET u == Extended(t, idx, entry, k)
           IN  /\ u \in Seq(Slot) /\ Len(u) = Len(t) + k
               /\ \A j \in 1 .. Len(t) + k :
                    u[j] = IF j <= Len(t) THEN t[j] ELSE IF j = idx THEN entry ELSE Closed
    BY <1>0, <1>1, <2>1, ExtendedFacts, SMTT(30)
  <2> DEFINE full == Extended(t, idx, entry, missing)
  <2>3. \/ d = [os |-> c.os, preopens |-> c.preopens, fd_table |-> full]
        \/ \E k \in 0 .. missing - 1 :
              d = [os |-> n, preopens |-> c.preopens,
                   fd_table |-> Extended(t, idx, entry, k)]
    BY <1>0, <1>5 DEF Assign, pfdClose, n
  <2>4. CASE d = [os |-> c.os, preopens |-> c.preopens, fd_table |-> full]
    <3>1. missing \in 0 .. missing BY <2>1
    <3>2. /\ full \in Seq(Slot) /\ Len(full) = idx
          /\ \A j \in 1 .. idx :
                full[j] = IF j <= Len(t) THEN t[j] ELSE IF j = idx THEN entry ELSE Closed
      BY <2>1, <2>2, <3>1
    <3>3. DOMAIN full = 1 .. idx BY <3>2
    <3>a. idx \in DOMAIN full /\ ~(idx <= Len(t)) /\ DOMAIN t \subseteq DOMAIN full
      BY <1>0, <2>1, <3>3
    <3>b. full[idx] = entry BY <2>1, <3>2, <3>3, <3>a
    <3>c. idx \notin DOMAIN t BY <1>0, <3>a
    <3>d. \A j \in DOMAIN full : j # idx => full[j] = IF j \in DOMAIN t THEN t[j] ELSE Closed
      <4> TAKE j \in DOMAIN full
      <4>1. j \in 1 .. idx BY <3>3
      <4>2. j <= Len(t) <=> j \in DOMAIN t BY <1>0, <2>1, <4>1
      <4> HIDE DEF full, entry
      <4>3. QED BY <3>2, <4>1, <4>2
    <3> HIDE DEF full, entry, idx
    <3>4. Fills(t, full, idx, h)
      BY <1>1, <3>a, <3>b, <3>c, <3>d DEF Fills
    <3>5. QED BY <1>0, <2>1, <2>4, <3>2, <3>4 DEF Context, idx
  <2>5. ASSUME NEW k \in 0 .. missing - 1,
               d = [os |-> n, preopens |-> c.preopens,
                    fd_table |-> Extended(t, idx, entry, k)]
        PROVE  d \in Context /\ d.preopens = c.preopens /\ Len(d.fd_table) <= MaxTable
               /\ d.os = n /\ Grows(t, d.fd_table)
    <3> DEFINE u == Extended(t, idx, entry, k)
    <3>1. k \in 0 .. missing /\ k \in Nat /\ Len(t) + k < idx
      <4>1. \A m, l, i \in Nat : \A e \in 0 .. m - 1 : l + m = i => e \in 0 .. m /\ e \in Nat /\ l + e < i
        OBVIOUS
      <4> HIDE DEF missing, idx
      <4>2. QED BY <1>0, <2>1, <4>1
    <3>2. /\ u \in Seq(Slot) /\ Len(u) = Len(t) + k
          /\ \A j \in 1 .. Len(t) + k :
               u[j] = IF j <= Len(t) THEN t[j] ELSE IF j = idx THEN entry ELSE Closed
      BY <2>2, <3>1
    <3>3. DOMAIN u = 1 .. Len(t) + k BY <3>2
    <3> HIDE DEF u, entry
    <3>4. \A j \in DOMAIN u : u[j] = IF j \in DOMAIN t THEN t[j] ELSE Closed
      <4> TAKE j \in DOMAIN u
      <4>1. j \in 1 .. Len(t) + k /\ j # idx BY <2>1, <3>1, <3>3, <1>0
      <4>2. j <= Len(t) <=> j \in DOMAIN t BY <1>0, <4>1
      <4>3. QED BY <3>2, <4>1, <4>2
    <3>5. DOMAIN t \subseteq DOMAIN u BY <1>0, <3>1, <3>3
    <3>6. Grows(t, u) BY <3>4, <3>5 DEF Grows
    <3>7. Len(u) <= MaxTable BY <1>0, <2>1, <3>1, <3>2
    <3>8. d = [os |-> n, preopens |-> c.preopens, fd_table |-> u] BY <2>5 DEF u
    <3>9. QED BY <1>0, <1>2, <3>2, <3>6, <3>7, <3>8 DEF Context
  <2>6. QED BY <2>3, <2>4, <2>5 DEF n
<1>6. QED BY <1>3, <1>4, <1>5

-----------------------------------------------------------------------------
\* Closing a descriptor leaves nothing under its number and adds no name.
LEMMA CloseNames ==
    ASSUME NEW c \in Context, NEW fd \in Nat, fd_base \in Nat,
           Numbers(c.preopens, c.fd_table, fd_base)
    PROVE  LET d == closeFd(c, fd)
           IN  /\ preopenOf(d, fd) = {} /\ getFdEntry(d, fd) = {}
               /\ \A g : /\ preopenOf(d, g) \subseteq preopenOf(c, g)
                         /\ getFdEntry(d, g) \subseteq getFdEntry(c, g)
               /\ Numbers(d.preopens, d.fd_table, fd_base)
<1> DEFINE d == closeFd(c, fd)
<1>1. d \in Context BY CloseFdCases
<1>2. \/ \E i \in preopenOf(c, fd) : ClosesPreopen(c, d, i)
      \/ /\ preopenOf(c, fd) = {}
         /\ \E i \in getFdEntry(c, fd) : ClosesSlot(c, d, i)
      \/ preopenOf(c, fd) = {} /\ getFdEntry(c, fd) = {} /\ d = c
  BY CloseFdCases
<1> HIDE DEF d
<1>3. ASSUME NEW i \in preopenOf(c, fd), ClosesPreopen(c, d, i)
      PROVE  /\ preopenOf(d, fd) = {} /\ getFdEntry(d, fd) = {}
             /\ \A g : /\ preopenOf(d, g) \subseteq preopenOf(c, g)
                       /\ getFdEntry(d, g) \subseteq getFdEntry(c, g)
             /\ Numbers(d.preopens, d.fd_table, fd_base)
  <2>1. i \in DOMAIN c.preopens /\ c.preopens[i].wasi_fd = fd /\ c.preopens[i].is_open
    BY DEF preopenOf
  <2>2. preopenOf(d, fd) = {}
    BY <1>3, <2>1 DEF preopenOf, ClosesPreopen, Numbers
  <2>3. d.fd_table = c.fd_table BY <1>3 DEF ClosesPreopen
  <2>4. getFdEntry(d, fd) = {}
    <3> SUFFICES ASSUME NEW j \in DOMAIN c.fd_table, j = fd - fd_base + 1,
                        c.fd_table[j] # Closed
                 PROVE  FALSE
      BY <2>3 DEF getFdEntry
    <3>1. fd # fd_base + j - 1 BY <2>1 DEF Numbers
    <3>2. j \in Nat BY ContextFacts
    <3>3. QED BY <3>1, <3>2
  <2>5. \A g : /\ preopenOf(d, g) \subseteq preopenOf(c, g)
               /\ getFdEntry(d, g) \subseteq getFdEntry(c, g)
    BY <1>3, <2>3 DEF preopenOf, getFdEntry, ClosesPreopen
  <2>6. Numbers(d.preopens, d.fd_table, fd_base)
    BY <1>3, <2>3 DEF Numbers, ClosesPreopen
  <2>7. QED BY <2>2, <2>4, <2>5, <2>6
<1>4. ASSUME NEW i \in getFdEntry(c, fd), ClosesSlot(c, d, i), preopenOf(c, fd) = {}
      PROVE  /\ preopenOf(d, fd) = {} /\ getFdEntry(d, fd) = {}
             /\ \A g : /\ preopenOf(d, g) \subseteq preopenOf(c, g)
                       /\ getFdEntry(d, g) \subseteq getFdEntry(c, g)
             /\ Numbers(d.preopens, d.fd_table, fd_base)
  <2>1. i \in DOMAIN c.fd_table /\ i = fd - fd_base + 1 BY DEF getFdEntry
  <2>2. preopenOf(d, fd) = {} BY <1>4 DEF preopenOf, ClosesSlot
  <2>3. getFdEntry(d, fd) = {} BY <1>4, <2>1 DEF getFdEntry, ClosesSlot
  <2>4. \A g : /\ preopenOf(d, g) \subseteq preopenOf(c, g)
               /\ getFdEntry(d, g) \subseteq getFdEntry(c, g)
    BY <1>4 DEF preopenOf, getFdEntry, ClosesSlot
  <2>5. Numbers(d.preopens, d.fd_table, fd_base)
    BY <1>4 DEF Numbers, ClosesSlot
  <2>6. QED BY <2>2, <2>3, <2>4, <2>5
<1>5. QED BY <1>2, <1>3, <1>4 DEF d

LEMMA FillNumbers ==
    ASSUME NEW p, NEW t, NEW u, NEW i, NEW h, NEW base,
           Numbers(p, t, base), Fills(t, u, i, h),
           \A k \in DOMAIN p : p[k].is_open => p[k].wasi_fd # base + i - 1
    PROVE  Numbers(p, u, base)
  BY DEF Numbers, Fills

LEMMA GrowNumbers ==
    ASSUME NEW p, NEW t, NEW u, NEW base, Numbers(p, t, base), Grows(t, u)
    PROVE  Numbers(p, u, base)
  BY DEF Numbers, Grows

\* The context of the state, and back.
LEMMA CtxType ==
    ASSUME WasiTypeOK
    PROVE  /\ Ctx \in Context
           /\ Ctx.os = os /\ Ctx.preopens = preopens /\ Ctx.fd_table = fd_table
           /\ DOMAIN preopens = 1 .. Len(preopens) /\ Len(preopens) \in Nat
           /\ DOMAIN fd_table = 1 .. Len(fd_table) /\ Len(fd_table) \in Nat
           /\ fd_base \in Nat /\ next_fd \in Nat
           /\ os \in Table /\ preopens \in Seq(Preopen) /\ fd_table \in Seq(Slot)
           /\ stdio_fds \in [0 .. 2 -> [host : Handles, ownership : {"own", "borrow"}]]
<1>1. /\ os \in Table /\ preopens \in Seq(Preopen) /\ fd_table \in Seq(Slot)
  BY DEF WasiTypeOK, Table, Preopen, Slot, Handle, Kinds
<1>2. Ctx \in Context /\ Ctx.os = os /\ Ctx.preopens = preopens /\ Ctx.fd_table = fd_table
  BY <1>1 DEF Ctx, Context
<1>3. fd_base \in Nat /\ next_fd \in Nat BY Basics DEF WasiTypeOK
<1>4. QED BY <1>1, <1>2, <1>3 DEF WasiTypeOK

-----------------------------------------------------------------------------
\* Steps that leave the streams alone, and do not end the run, say what
\* becomes of the context only.
LEMMA HeldPrime ==
    ASSUME UNCHANGED stdio_fds, phase' = "done" <=> phase = "done",
           HeldIn(os', preopens', fd_table', {})
    PROVE  HeldIn(os, preopens, fd_table, {})'
<1>1. \A g \in 0 .. 2, h \in Handles : StreamHas(g, h)' <=> StreamHas(g, h)
  BY DEF StreamHas
<1>2. StreamsKept(os)'
  BY <1>1 DEF StreamsKept, HeldIn, IsOf
<1>3. PreopensKept(os, preopens)' /\ SlotsKept(os, fd_table)'
  BY DEF HeldIn, PreopensKept, SlotsKept, PreopenHas, SlotHas, IsOf
<1>4. Apart(preopens, fd_table)'
  <2>1. Apart(preopens', fd_table') BY DEF HeldIn
  <2>2. QED BY <1>1, <2>1 DEF Apart, PreopenHas, SlotHas
<1>5. NoLeak(os, preopens, fd_table, {})'
  <2>1. NoLeak(os', preopens', fd_table', {}) BY DEF HeldIn
  <2>2. \A h \in Handles : Kept(preopens, fd_table, h)' <=> Kept(preopens', fd_table', h)
    BY <1>1 DEF Kept, PreopenHas, SlotHas
  <2>3. QED BY <2>1, <2>2 DEF NoLeak, IsOf
<1>6. QED BY <1>2, <1>3, <1>4, <1>5 DEF HeldIn

LEMMA NumbersPrime ==
    ASSUME Numbers(preopens', fd_table', fd_base')
    PROVE  Numbers(preopens, fd_table, fd_base)'
  BY DEF Numbers

\* The embedding program takes a free handle, or closes one nobody keeps.
LEMMA HeldHost ==
    ASSUME NEW o \in Table, NEW p, NEW t, NEW h \in Handles, ~Kept(p, t, h),
           ~IsOf(o, h, "runtime"), HeldIn(o, p, t, {}), NEW n \in Table,
           ~IsOf(n, h, "runtime"), \A k \in Handles : k # h => n[k] = o[k]
    PROVE  HeldIn(n, p, t, {})
<1>1. \A who : \A k \in Handles : k # h => (IsOf(n, k, who) <=> IsOf(o, k, who)) BY DEF IsOf
<1>2. StreamsKept(n) BY <1>1 DEF HeldIn, StreamsKept, Kept
<1>3. PreopensKept(n, p) BY <1>1 DEF HeldIn, PreopensKept, Kept
<1>4. SlotsKept(n, t) BY <1>1 DEF HeldIn, SlotsKept, Kept
<1>5. NoLeak(n, p, t, {}) BY <1>1 DEF HeldIn, NoLeak
<1>6. QED BY <1>2, <1>3, <1>4, <1>5 DEF HeldIn

\* A preopen is added for a handle no place keeps.
LEMMA HeldAddPreopen ==
    ASSUME NEW o, NEW p \in Seq(Preopen), NEW t, NEW e \in Preopen, NEW tmp, NEW q,
           e.is_open, HeldIn(o, p, t, tmp), ~Kept(p, t, e.host),
           IsOf(o, e.host, By(e.ownership)), tmp \subseteq {e.host}, q = Append(p, e)
    PROVE  HeldIn(o, q, t, {})
<1> DEFINE h == e.host
           k == Len(p) + 1
<1>0. h \in Handles BY DEF Preopen
<1>1. /\ DOMAIN q = DOMAIN p \cup {k} /\ k \notin DOMAIN p
      /\ q[k] = e /\ \A j \in DOMAIN p : q[j] = p[j]
  BY AppendProperties
<1>2. \A j \in DOMAIN q, m \in Handles :
         PreopenHas(q, j, m) <=> \/ j = k /\ m = h
                                 \/ j \in DOMAIN p /\ PreopenHas(p, j, m)
  BY <1>1 DEF PreopenHas
<1>3. /\ StreamsKept(o) /\ PreopensKept(o, p) /\ SlotsKept(o, t)
      /\ Apart(p, t) /\ NoLeak(o, p, t, tmp)
  BY DEF HeldIn
<1>4. PreopensKept(o, q)
  <2> SUFFICES ASSUME NEW j \in DOMAIN q, NEW m \in Handles, PreopenHas(q, j, m)
               PROVE  IsOf(o, m, By(q[j].ownership))
    BY DEF PreopensKept
  <2>1. CASE j = k /\ m = h BY <1>1, <2>1
  <2>2. CASE j \in DOMAIN p /\ PreopenHas(p, j, m)
    BY <1>1, <1>3, <2>2 DEF PreopensKept
  <2>3. QED BY <1>2, <2>1, <2>2
<1> HIDE DEF k, h
<1>5. Apart(q, t) BY <1>0, <1>1, <1>2, <1>3 DEF Apart, Kept, h
<1>6. NoLeak(o, q, t, {})
  <2>1. \A m \in Handles : Kept(p, t, m) \/ m = h => Kept(q, t, m)
    BY <1>0, <1>1, <1>2 DEF Kept
  <2>2. QED BY <1>3, <2>1 DEF NoLeak, h
<1>7. QED BY <1>3, <1>4, <1>5, <1>6 DEF HeldIn

-----------------------------------------------------------------------------
\* What the steps that work on the context keep, whatever they do to it.
CtxInv(d) ==
    /\ d \in Context
    /\ Len(d.preopens) = Len(preopens) /\ Len(d.fd_table) <= MaxTable
    /\ \A i \in DOMAIN preopens : d.preopens[i].wasi_fd = preopens[i].wasi_fd
    /\ HeldIn(d.os, d.preopens, d.fd_table, {})
    /\ Numbers(d.preopens, d.fd_table, fd_base)

LEMMA CtxStep ==
    ASSUME WasiInv, phase = "run", NEW d, CtxInv(d), Become(d),
           UNCHANGED <<fd_base, stdio_fds, next_fd, phase>>
    PROVE  WasiInv'
<1>1. os' = d.os /\ preopens' = d.preopens /\ fd_table' = d.fd_table BY DEF Become
<1>2. d \in Context BY DEF CtxInv
<1>3. os' \in Table /\ preopens' \in Seq(Preopen) /\ fd_table' \in Seq(Slot)
  BY <1>1, <1>2, ContextFacts
<1>4. Len(preopens') = Len(preopens) /\ Len(fd_table') <= MaxTable
  BY <1>1 DEF CtxInv
<1>5. WasiTypeOK'
  <2>1. /\ os' \in [Handles -> {Free} \cup [obj : Objects, by : {"host", "runtime"}]]
        /\ preopens' \in Seq([wasi_fd : 3 .. MaxPreopens + 2, host : Handles, kind : {"file", "dir"},
                         ownership : {"own", "borrow"}, is_open : BOOLEAN])
        /\ fd_table' \in Seq({Closed} \cup [host : Handles, kind : {"file", "dir"}])
    BY <1>3 DEF Table, Preopen, Slot, Handle, Kinds
  <2>2. QED BY <1>4, <2>1 DEF WasiInv, WasiTypeOK
<1>6. HeldIn(os, preopens, fd_table, {})' BY <1>1, HeldPrime DEF CtxInv
<1>7. Numbers(preopens, fd_table, fd_base)' BY <1>1, NumbersPrime DEF CtxInv
<1>8. LoadOrder'
  <2>1. DOMAIN preopens' = DOMAIN preopens BY <1>3, <1>4, CtxType DEF WasiInv
  <2>2. QED BY <1>1, <1>4, <2>1 DEF LoadOrder, WasiInv, CtxInv
<1>9. QED BY <1>5, <1>6, <1>7, <1>8 DEF WasiInv

\* A descriptor is closed in a context; tmp is what the call has in its hands.
LEMMA CloseSame ==
    ASSUME NEW c \in Context, NEW fd \in Nat, fd_base \in Nat
    PROVE  LET d == closeFd(c, fd)
           IN  /\ Len(d.preopens) = Len(c.preopens) /\ Len(d.fd_table) = Len(c.fd_table)
               /\ DOMAIN d.preopens = DOMAIN c.preopens
               /\ \A i \in DOMAIN c.preopens : d.preopens[i].wasi_fd = c.preopens[i].wasi_fd
<1> DEFINE d == closeFd(c, fd)
<1>1. /\ Len(d.preopens) = Len(c.preopens) /\ Len(d.fd_table) = Len(c.fd_table)
      /\ \/ \E i : ClosesPreopen(c, d, i)
         \/ \E i : ClosesSlot(c, d, i)
         \/ d = c
  BY CloseFdCases
<1> HIDE DEF d
<1>2. /\ DOMAIN d.preopens = DOMAIN c.preopens
      /\ \A i \in DOMAIN c.preopens : d.preopens[i].wasi_fd = c.preopens[i].wasi_fd
  BY <1>1 DEF ClosesPreopen, ClosesSlot
<1>3. QED BY <1>1, <1>2 DEF d

LEMMA InvCtx ==
    ASSUME WasiInv
    PROVE  CtxInv(Ctx) /\ fd_base \in Nat /\ WasiTypeOK
<1>1. WasiTypeOK BY DEF WasiInv
<1>2. QED BY <1>1, CtxType DEF WasiInv, WasiTypeOK, CtxInv

LEMMA CloseInv ==
    ASSUME WasiInv, NEW fd \in Nat
    PROVE  CtxInv(closeFd(Ctx, fd))
<1> DEFINE d == closeFd(Ctx, fd)
<1>1. /\ CtxInv(Ctx) /\ fd_base \in Nat /\ Ctx \in Context /\ Ctx.os = os
      /\ Ctx.preopens = preopens /\ Ctx.fd_table = fd_table
  BY InvCtx, CtxType
<1>2. d \in Context BY <1>1, CloseFdCases
<1>3. /\ Len(d.preopens) = Len(preopens) /\ Len(d.fd_table) <= MaxTable
      /\ \A i \in DOMAIN preopens : d.preopens[i].wasi_fd = preopens[i].wasi_fd
  BY <1>1, CloseSame DEF CtxInv
<1>4. HeldIn(d.os, d.preopens, d.fd_table, {}) BY <1>1, HeldClose DEF CtxInv
<1>5. Numbers(d.preopens, d.fd_table, fd_base) BY <1>1, CloseNames DEF CtxInv
<1>6. QED BY <1>2, <1>3, <1>4, <1>5 DEF CtxInv

LEMMA FdCloseStep ==
    ASSUME WasiInv, NEW fd \in GuestFds, fd_close(fd)
    PROVE  WasiInv'
<1>1. fd \in Nat BY Basics
<1>2. QED BY <1>1, CloseInv, CtxStep DEF fd_close

\* The handle a descriptor resolves to.
LEMMA HostFdType ==
    ASSUME WasiTypeOK, NEW fd \in Nat, NEW h \in getHostFd(Ctx, fd)
    PROVE  h \in Handles
<1>1. CASE fd \in 0 .. 2
  <2>1. h = stdio_fds[fd].host BY <1>1 DEF getHostFd
  <2>2. QED BY <1>1, <2>1, CtxType
<1>2. CASE fd \notin 0 .. 2
  <2>1. PICK e \in getHostHandle(Ctx, fd) : h = e.host BY <1>2 DEF getHostFd
  <2>2. Ctx \in Context BY CtxType
  <2>3. CASE preopenOf(Ctx, fd) # {}
    <3>1. preopenOf(Ctx, fd) \subseteq DOMAIN Ctx.preopens BY DEF preopenOf
    <3>2. preopenOf(Ctx, fd) \subseteq Nat BY <2>2, <3>1, ContextFacts
    <3>3. Lowest(preopenOf(Ctx, fd)) \in DOMAIN Ctx.preopens BY <2>3, <3>1, <3>2, LowestIn
    <3>4. e.host = Ctx.preopens[Lowest(preopenOf(Ctx, fd))].host
      BY <2>1, <2>3 DEF getHostHandle
    <3>5. QED BY <2>1, <2>2, <3>3, <3>4, ContextFacts
  <2>4. CASE preopenOf(Ctx, fd) = {}
    <3>1. PICK i \in getFdEntry(Ctx, fd) : e = Ctx.fd_table[i]
      BY <2>1, <2>4 DEF getHostHandle
    <3>2. i \in DOMAIN Ctx.fd_table /\ Ctx.fd_table[i] # Closed BY DEF getFdEntry
    <3>3. QED BY <2>1, <2>2, <3>1, <3>2, ContextFacts
  <2>5. QED BY <2>3, <2>4
<1>3. QED BY <1>1, <1>2

\* The steps of fd_renumber after the first close: new is a duplicate of a
\* handle that names f.
Dup(c, new, f) == [c EXCEPT !.os = WithHandle(@, new, Held(f, "runtime"))]

LEMMA RenumberCases ==
    ASSUME WasiInv, NEW from \in GuestFds, NEW to \in GuestFds, fd_renumber(from, to)
    PROVE  LET c1 == closeFd(Ctx, to)
           IN  \E h \in Handles :
                 /\ h \in getHostFd(Ctx, from)
                 /\ \/ Become(c1)
                    \/ \E new \in Handles :
                         /\ c1.os[h] \in Handle /\ c1.os[new] = Free
                         /\ \E c \in Assign(closeFd(Dup(c1, new, c1.os[h].obj), from), new, to) :
                               Become(c)
<1> DEFINE c1 == closeFd(Ctx, to)
           free == FreeHandles(c1.os)
           new == Lowest(free)
<1>0. from \in Nat /\ to \in Nat /\ WasiTypeOK BY Basics DEF WasiInv
<1>1. c1 \in Context BY <1>0, CloseInv DEF CtxInv
<1>2. PICK h \in getHostFd(Ctx, from) :
         IF c1.os[h] = Free \/ free = {} THEN Become(c1)
         ELSE \E c \in Assign(closeFd(Dup(c1, new, c1.os[h].obj), from), new, to) : Become(c)
  BY DEF fd_renumber, Dup
<1>3. h \in Handles BY <1>0, HostFdType
<1>4. ASSUME c1.os[h] # Free, free # {}
      PROVE  c1.os[h] \in Handle /\ new \in Handles /\ c1.os[new] = Free
  <2>1. c1.os \in Table BY <1>1, ContextFacts
  <2> HIDE DEF c1
  <2>2. c1.os[h] \in Handle BY <1>3, <1>4, <2>1 DEF Table
  <2>3. free \subseteq Nat BY Basics DEF FreeHandles
  <2>4. new \in free BY <1>4, <2>3, LowestIn
  <2>5. QED BY <2>2, <2>4 DEF FreeHandles
<1> HIDE DEF c1, new, free
<1>5. QED BY <1>2, <1>3, <1>4 DEF c1

LEMMA DupFacts ==
    ASSUME NEW c \in Context, NEW new \in Handles, NEW f \in Objects
    PROVE  /\ Dup(c, new, f) \in Context
           /\ Dup(c, new, f).os = [c.os EXCEPT ![new] = Held(f, "runtime")]
           /\ Dup(c, new, f).preopens = c.preopens /\ Dup(c, new, f).fd_table = c.fd_table
           /\ \A g : /\ preopenOf(Dup(c, new, f), g) = preopenOf(c, g)
                     /\ getFdEntry(Dup(c, new, f), g) = getFdEntry(c, g)
<1>1. Held(f, "runtime") \in Handle BY Basics
<1>2. [c.os EXCEPT ![new] = Held(f, "runtime")] \in Table
  BY <1>1, ContextFacts DEF Table
<1>3. Dup(c, new, f) = [os |-> [c.os EXCEPT ![new] = Held(f, "runtime")],
                       preopens |-> c.preopens, fd_table |-> c.fd_table]
  BY DEF Dup, WithHandle, Context
<1>4. QED BY <1>2, <1>3, ContextFacts DEF Context, preopenOf, getFdEntry

\* c1 is the context after the first close, d the one at the end.
LEMMA RenumberInv ==
    ASSUME WasiInv, NEW from \in Nat, NEW to \in Nat, to - fd_base < MaxTable,
           NEW f \in Objects, NEW new \in Handles,
           closeFd(Ctx, to).os[new] = Free,
           NEW d \in Assign(closeFd(Dup(closeFd(Ctx, to), new, f), from), new, to)
    PROVE  CtxInv(d)
<1> DEFINE c1 == closeFd(Ctx, to)
           c2 == Dup(c1, new, f)
           c3 == closeFd(c2, from)
<1>0. /\ fd_base \in Nat /\ CtxInv(c1) /\ c1 \in Context
      /\ Ctx \in Context /\ Numbers(Ctx.preopens, Ctx.fd_table, fd_base)
      /\ DOMAIN preopens = 1 .. Len(preopens)
  BY CloseInv, InvCtx, CtxType DEF CtxInv
<1>1. preopenOf(c1, to) = {} /\ getFdEntry(c1, to) = {} BY <1>0, CloseNames
<1>e. c1.os[new] = Free OBVIOUS
<1> HIDE DEF c1
<1>2. /\ c2 \in Context /\ c2.os = [c1.os EXCEPT ![new] = Held(f, "runtime")]
      /\ c2.preopens = c1.preopens /\ c2.fd_table = c1.fd_table
      /\ preopenOf(c2, to) = {} /\ getFdEntry(c2, to) = {}
  BY <1>0, <1>1, DupFacts
<1> HIDE DEF c2
<1>3. HeldIn(c2.os, c2.preopens, c2.fd_table, {new})
  BY <1>0, <1>2, <1>e, HeldNew, ContextFacts DEF CtxInv
<1>4. Numbers(c2.preopens, c2.fd_table, fd_base) BY <1>0, <1>2 DEF CtxInv
<1>5. /\ c3 \in Context /\ HeldIn(c3.os, c3.preopens, c3.fd_table, {new})
      /\ Numbers(c3.preopens, c3.fd_table, fd_base)
      /\ preopenOf(c3, to) = {} /\ getFdEntry(c3, to) = {}
      /\ Len(c3.preopens) = Len(c2.preopens) /\ Len(c3.fd_table) = Len(c2.fd_table)
      /\ \A i \in DOMAIN c2.preopens : c3.preopens[i].wasi_fd = c2.preopens[i].wasi_fd
  <2>1. c3 \in Context BY <1>0, <1>2, CloseFdCases
  <2>2. HeldIn(c3.os, c3.preopens, c3.fd_table, {new}) BY <1>0, <1>2, <1>3, HeldClose
  <2>3. /\ Numbers(c3.preopens, c3.fd_table, fd_base)
        /\ preopenOf(c3, to) \subseteq preopenOf(c2, to)
        /\ getFdEntry(c3, to) \subseteq getFdEntry(c2, to)
    BY <1>0, <1>2, <1>4, CloseNames
  <2>4. /\ Len(c3.preopens) = Len(c2.preopens) /\ Len(c3.fd_table) = Len(c2.fd_table)
        /\ \A i \in DOMAIN c2.preopens : c3.preopens[i].wasi_fd = c2.preopens[i].wasi_fd
    BY <1>0, <1>2, CloseSame
  <2>5. QED BY <1>2, <2>1, <2>2, <2>3, <2>4
<1>d. d \in Assign(c3, new, to) BY DEF c1, c2
<1> HIDE DEF c3
<1>6. Len(c3.fd_table) <= MaxTable BY <1>0, <1>2, <1>5 DEF CtxInv
<1>7. /\ d \in Context /\ d.preopens = c3.preopens /\ Len(d.fd_table) <= MaxTable
      /\ \/ /\ d.os = c3.os /\ to >= fd_base
            /\ Fills(c3.fd_table, d.fd_table, to - fd_base + 1, new)
         \/ /\ d.os = [c3.os EXCEPT ![new] = Free]
            /\ Grows(c3.fd_table, d.fd_table)
  BY <1>0, <1>5, <1>6, <1>d, AssignCases
<1>8. HeldIn(d.os, d.preopens, d.fd_table, {})
  <2>1. CASE d.os = c3.os /\ Fills(c3.fd_table, d.fd_table, to - fd_base + 1, new)
    BY <1>5, <1>7, <2>1, HeldFill
  <2>2. CASE d.os = [c3.os EXCEPT ![new] = Free] /\ Grows(c3.fd_table, d.fd_table)
    <3>1. c3.os \in Table BY <1>5, ContextFacts
    <3>2. QED BY <1>5, <1>7, <2>2, <3>1, HeldDrop DEF Grows
  <2>3. QED BY <1>7, <2>1, <2>2
<1>9. Numbers(d.preopens, d.fd_table, fd_base)
  <2>1. CASE to >= fd_base /\ Fills(c3.fd_table, d.fd_table, to - fd_base + 1, new)
    <3>1. fd_base + (to - fd_base + 1) - 1 = to BY <1>0
    <3>2. \A k \in DOMAIN c3.preopens : c3.preopens[k].is_open => c3.preopens[k].wasi_fd # to
      BY <1>5 DEF preopenOf
    <3>3. QED BY <1>5, <1>7, <2>1, <3>1, <3>2, FillNumbers
  <2>2. CASE Grows(c3.fd_table, d.fd_table) BY <1>5, <1>7, <2>2, GrowNumbers
  <2>3. QED BY <1>7, <2>1, <2>2
<1>10. /\ Len(d.preopens) = Len(preopens)
       /\ \A i \in DOMAIN preopens : d.preopens[i].wasi_fd = preopens[i].wasi_fd
  <2>1. Len(c2.preopens) = Len(preopens) BY <1>0, <1>2 DEF CtxInv
  <2>2. DOMAIN c2.preopens = DOMAIN preopens BY <1>0, <1>2, <2>1, ContextFacts
  <2>3. \A i \in DOMAIN preopens : c2.preopens[i].wasi_fd = preopens[i].wasi_fd
    BY <1>0, <1>2 DEF CtxInv
  <2>4. QED BY <1>5, <1>7, <2>1, <2>2, <2>3
<1>11. QED BY <1>7, <1>8, <1>9, <1>10 DEF CtxInv

LEMMA FdRenumberStep ==
    ASSUME WasiInv, NEW from \in GuestFds, NEW to \in GuestFds, fd_renumber(from, to)
    PROVE  WasiInv'
<1> DEFINE c1 == closeFd(Ctx, to)
<1>1. from \in Nat /\ to \in Nat BY Basics
<1>2. CtxInv(c1) BY <1>1, CloseInv
<1>3. /\ phase = "run" /\ to - fd_base < MaxTable
      /\ UNCHANGED <<fd_base, stdio_fds, next_fd, phase>>
  BY DEF fd_renumber
<1>4. CASE Become(c1) BY <1>2, <1>3, <1>4, CtxStep
<1>5. ASSUME NEW h \in Handles, NEW new \in Handles, c1.os[h] \in Handle, c1.os[new] = Free,
             NEW c \in Assign(closeFd(Dup(c1, new, c1.os[h].obj), from), new, to), Become(c)
      PROVE  WasiInv'
  <2>1. c1.os[h].obj \in Objects BY <1>5 DEF Handle
  <2>2. CtxInv(c) BY <1>1, <1>3, <1>5, <2>1, RenumberInv
  <2>3. QED BY <1>3, <1>5, <2>2, CtxStep
<1>6. QED BY <1>4, <1>5, RenumberCases

-----------------------------------------------------------------------------
\* A slot of the table is taken by allocFd: the first unused one, or a new one.
LEMMA AllocFills ==
    ASSUME WasiTypeOK, NEW h \in Handles, NEW k \in Kinds, allocFd([host |-> h, kind |-> k])
    PROVE  /\ fd_table' \in Seq(Slot) /\ Len(fd_table') <= MaxTable
           /\ \E i \in DOMAIN fd_table' :
                 /\ Fills(fd_table, fd_table', i, h)
                 /\ fd_table'[i] = [host |-> h, kind |-> k]
<1> DEFINE e == [host |-> h, kind |-> k]
           closed == {i \in DOMAIN fd_table : fd_table[i] = Closed}
           j == Lowest(closed)
<1>0. e \in Slot /\ e # Closed /\ e.host = h BY Basics
<1>1. /\ fd_table \in Seq(Slot) /\ DOMAIN fd_table = 1 .. Len(fd_table)
      /\ Len(fd_table) \in Nat /\ Len(fd_table) <= MaxTable /\ MaxTable \in Nat
  BY CtxType, Basics DEF WasiTypeOK
<1>2. CASE closed # {} /\ fd_table' = [fd_table EXCEPT ![j] = e]
  <2>1. closed \subseteq Nat BY <1>1
  <2>2. j \in closed BY <1>2, <2>1, LowestIn
  <2>3. j \in 1 .. Len(fd_table) /\ fd_table[j] = Closed BY <1>1, <2>2
  <2> HIDE DEF e, j
  <2>4. /\ fd_table' \in Seq(Slot) /\ Len(fd_table') = Len(fd_table)
        /\ \A m \in 1 .. Len(fd_table) : fd_table'[m] = IF m = j THEN e ELSE fd_table[m]
    BY <1>0, <1>1, <1>2, <2>3, ExceptSeq
  <2>5. DOMAIN fd_table' = DOMAIN fd_table BY <1>1, <2>4
  <2>6. Fills(fd_table, fd_table', j, h) /\ fd_table'[j] = e /\ j \in DOMAIN fd_table'
    BY <1>0, <1>1, <2>3, <2>4, <2>5 DEF Fills
  <2>7. QED BY <1>1, <2>4, <2>6 DEF e
<1>3. CASE Len(fd_table) < MaxTable /\ fd_table' = Append(fd_table, e)
  <2> HIDE DEF e
  <2> DEFINE m == Len(fd_table) + 1
  <2>1. /\ fd_table' \in Seq(Slot) /\ Len(fd_table') = m /\ fd_table'[m] = e
        /\ \A i \in 1 .. Len(fd_table) : fd_table'[i] = fd_table[i]
    BY <1>0, <1>1, <1>3, AppendProperties
  <2>2. DOMAIN fd_table' = DOMAIN fd_table \cup {m} /\ m \notin DOMAIN fd_table
    BY <1>1, <2>1
  <2>3. Len(fd_table') <= MaxTable BY <1>1, <1>3, <2>1
  <2> HIDE DEF m
  <2>4. Fills(fd_table, fd_table', m, h) BY <1>0, <1>1, <2>1, <2>2 DEF Fills
  <2>5. QED BY <2>1, <2>2, <2>3, <2>4 DEF e
<1>4. QED BY <1>2, <1>3 DEF allocFd

\* The first number of the table, when it is not fixed yet, lies above those
\* of the preopens.
LEMMA FirstDynamicFacts ==
    ASSUME WasiInv
    PROVE  /\ FirstDynamicFd \in 3 .. MaxPreopens + 3
           /\ \A i \in DOMAIN preopens : preopens[i].wasi_fd < FirstDynamicFd
<1> DEFINE S == {2} \cup {preopens[i].wasi_fd : i \in DOMAIN preopens}
<1>0. MaxPreopens \in Nat /\ WasiTypeOK BY Basics DEF WasiInv
<1>1. \A i \in DOMAIN preopens : preopens[i].wasi_fd \in 3 .. MaxPreopens + 2
  <2>1. \A i \in DOMAIN preopens : preopens[i] \in Preopen
    BY <1>0, CtxType
  <2>2. QED BY <2>1 DEF Preopen
<1>2. S \subseteq Nat /\ S # {} /\ \A n \in S : n <= MaxPreopens + 2 /\ 2 <= n
  BY <1>0, <1>1
<1>3. MaxOf(S) \in S /\ \A m \in S : m <= MaxOf(S)
  <2>1. MaxPreopens + 2 \in Nat BY <1>0
  <2> HIDE DEF S
  <2>2. QED BY <1>2, <2>1, MaxIn
<1>4. FirstDynamicFd = MaxOf(S) + 1 BY DEF FirstDynamicFd
<1>5. MaxOf(S) \in Nat /\ 2 <= MaxOf(S) /\ MaxOf(S) <= MaxPreopens + 2
  BY <1>2, <1>3
<1>6. \A i \in DOMAIN preopens : preopens[i].wasi_fd <= MaxOf(S) BY <1>3
<1> HIDE DEF S
<1>7. QED BY <1>0, <1>1, <1>4, <1>5, <1>6

LEMMA BaseFacts ==
    ASSUME WasiInv, SetFdBase
    PROVE  /\ fd_base' \in 3 .. MaxPreopens + 3 /\ fd_base' # 0
           /\ \A i \in DOMAIN preopens : preopens[i].wasi_fd < fd_base'
<1>1. fd_base \in {0} \cup 3 .. MaxPreopens + 3 BY DEF WasiInv, WasiTypeOK
<1>2. CASE fd_base = 0
  BY <1>2, FirstDynamicFacts, Basics DEF SetFdBase
<1>3. CASE fd_base # 0
  BY <1>1, <1>3, Basics DEF SetFdBase, WasiInv, LoadOrder
<1>4. QED BY <1>2, <1>3

LEMMA PathOpenStep ==
    ASSUME WasiInv, NEW fd \in GuestFds, NEW o \in Objects, NEW asDir \in BOOLEAN,
           path_open(fd, o, asDir)
    PROVE  WasiInv'
<1> DEFINE h == Lowest(FreeHandles(os))
           k == IF asDir THEN "dir" ELSE "file"
<1>0. /\ phase = "run" /\ FreeHandles(os) # {} /\ SetFdBase
      /\ UNCHANGED <<preopens, stdio_fds, next_fd, phase>>
  BY DEF path_open
<1>1. h \in Handles /\ os[h] = Free
  <2>1. FreeHandles(os) \subseteq Nat BY Basics DEF FreeHandles
  <2>2. h \in FreeHandles(os) BY <1>0, <2>1, LowestIn
  <2>3. QED BY <2>2 DEF FreeHandles
<1>2. k \in Kinds BY DEF Kinds
<1>3. /\ WasiTypeOK /\ os \in Table /\ preopens \in Seq(Preopen) /\ fd_table \in Seq(Slot)
      /\ HeldIn(os, preopens, fd_table, {}) /\ Numbers(preopens, fd_table, fd_base)
      /\ LoadOrder
      /\ DOMAIN fd_table = 1 .. Len(fd_table) /\ Len(fd_table) \in Nat
  BY CtxType DEF WasiInv
<1>4. \/ os' = [os EXCEPT ![h] = Held(o, "runtime")] /\ allocFd([host |-> h, kind |-> k])
      \/ UNCHANGED <<os, fd_table>>
  BY DEF path_open, WithHandle
<1>5. /\ fd_base' \in 3 .. MaxPreopens + 3 /\ fd_base' # 0
      /\ \A i \in DOMAIN preopens : preopens[i].wasi_fd < fd_base'
  BY <1>0, BaseFacts
<1> HIDE DEF h, k
<1>6. /\ os' \in Table /\ fd_table' \in Seq(Slot) /\ Len(fd_table') <= MaxTable
      /\ HeldIn(os', preopens', fd_table', {})
  <2>1. CASE UNCHANGED <<os, fd_table>>
    BY <1>0, <1>3, <2>1 DEF WasiTypeOK
  <2>2. CASE os' = [os EXCEPT ![h] = Held(o, "runtime")] /\ allocFd([host |-> h, kind |-> k])
    <3>1. HeldIn(os', preopens, fd_table, {h}) BY <1>1, <1>3, <2>2, HeldNew
    <3>2. os' \in Table
      <4>1. Held(o, "runtime") \in Handle BY Basics
      <4>2. QED BY <1>1, <1>3, <2>2, <4>1 DEF Table
    <3>3. /\ fd_table' \in Seq(Slot) /\ Len(fd_table') <= MaxTable
          /\ \E i \in DOMAIN fd_table' : Fills(fd_table, fd_table', i, h)
      BY <1>1, <1>2, <1>3, <2>2, AllocFills
    <3>4. HeldIn(os', preopens, fd_table', {}) BY <1>1, <3>1, <3>3, HeldFill
    <3>5. QED BY <1>0, <3>2, <3>3, <3>4
  <2>3. QED BY <1>4, <2>1, <2>2
<1>7. Numbers(preopens', fd_table', fd_base')
  <2>1. \A i, j \in DOMAIN preopens :
          preopens[i].wasi_fd = preopens[j].wasi_fd => i = j
    BY <1>3 DEF Numbers
  <2>2. ASSUME NEW i \in DOMAIN preopens, NEW j \in DOMAIN fd_table'
        PROVE  preopens[i].wasi_fd # fd_base' + j - 1
    <3>1. j \in Nat \ {0} BY <1>6
    <3>2. preopens[i].wasi_fd \in Nat BY <1>3, CtxType, ContextFacts
    <3>3. preopens[i].wasi_fd < fd_base' /\ fd_base' \in Nat BY <1>5, Basics
    <3>4. QED BY <3>1, <3>2, <3>3
  <2>3. QED BY <1>0, <2>1, <2>2 DEF Numbers
<1>8. WasiTypeOK'
  <2>1. /\ os' \in [Handles -> {Free} \cup [obj : Objects, by : {"host", "runtime"}]]
        /\ fd_table' \in Seq({Closed} \cup [host : Handles, kind : {"file", "dir"}])
    BY <1>6 DEF Table, Slot, Handle, Kinds
  <2>2. QED BY <1>0, <1>3, <1>5, <1>6, <2>1 DEF WasiTypeOK
<1>9. LoadOrder' BY <1>0, <1>3, <1>5 DEF LoadOrder
<1>10. HeldIn(os, preopens, fd_table, {})' BY <1>0, <1>6, HeldPrime
<1>11. QED BY <1>7, <1>8, <1>9, <1>10, NumbersPrime DEF WasiInv

-----------------------------------------------------------------------------
\* A handle of the embedder that it has not lent is kept nowhere.
LEMMA NotLent ==
    ASSUME WasiInv, NEW h \in Handles, IsOf(os, h, "host"), h \notin Lent
    PROVE  ~Kept(preopens, fd_table, h)
<1>1. \A g \in 0 .. 2 : ~StreamHas(g, h) BY DEF Lent, StreamHas
<1>2. \A i \in DOMAIN preopens : ~PreopenHas(preopens, i, h) BY DEF Lent, PreopenHas
<1>3. ~IsOf(os, h, "runtime") BY DEF IsOf
<1>4. \A i \in DOMAIN fd_table : ~SlotHas(fd_table, i, h)
  BY <1>3 DEF WasiInv, HeldIn, SlotsKept
<1>5. QED BY <1>1, <1>2, <1>4 DEF Kept

LEMMA LowestFree ==
    ASSUME FreeHandles(os) # {}
    PROVE  /\ Lowest(FreeHandles(os)) \in Handles
           /\ os[Lowest(FreeHandles(os))] = Free
<1>1. FreeHandles(os) \subseteq Nat BY Basics DEF FreeHandles
<1>2. Lowest(FreeHandles(os)) \in FreeHandles(os) BY <1>1, LowestIn
<1>3. QED BY <1>2 DEF FreeHandles

LEMMA HostStep ==
    ASSUME WasiInv, HostOpens \/ \E h \in Handles : HostCloses(h)
    PROVE  WasiInv'
<1>0. /\ UNCHANGED <<preopens, fd_table, fd_base, stdio_fds, next_fd, phase>>
      /\ os \in Table /\ HeldIn(os, preopens, fd_table, {}) /\ WasiTypeOK
  BY CtxType DEF WasiInv, HostOpens, HostCloses
<1> DEFINE Moved(h) == /\ ~Kept(preopens, fd_table, h) /\ ~IsOf(os, h, "runtime")
                       /\ os' \in Table /\ ~IsOf(os', h, "runtime")
                       /\ \A k \in Handles : k # h => os'[k] = os[k]
<1>1. \E h \in Handles : Moved(h)
  <2>1. CASE HostOpens
    <3> DEFINE h == Lowest(FreeHandles(os))
    <3>1. h \in Handles /\ os[h] = Free BY <2>1, LowestFree DEF HostOpens
    <3>2. os' = [os EXCEPT ![h] = Held(Stream, "host")] BY <2>1 DEF HostOpens, WithHandle
    <3> HIDE DEF h
    <3>3. Held(Stream, "host") \in Handle /\ Held(Stream, "host").by = "host" BY Basics
    <3>4. ~Kept(preopens, fd_table, h) BY <1>0, <3>1, FreeNotKept
    <3>5. Moved(h) BY <1>0, <3>1, <3>2, <3>3, <3>4 DEF IsOf, Table
    <3> HIDE DEF Moved
    <3>6. QED BY <3>1, <3>5
  <2>2. ASSUME NEW h \in Handles, HostCloses(h) PROVE Moved(h)
    <3>1. IsOf(os, h, "host") /\ h \notin Lent /\ os' = [os EXCEPT ![h] = Free]
      BY <2>2 DEF HostCloses, pfdClose, IsOf
    <3>2. ~Kept(preopens, fd_table, h) BY <3>1, NotLent
    <3>3. QED BY <1>0, <3>1, <3>2 DEF IsOf, Table
  <2> HIDE DEF Moved
  <2>3. QED BY <2>1, <2>2
<1>2. os' \in Table /\ HeldIn(os', preopens, fd_table, {}) BY <1>0, <1>1, HeldHost
<1>3. HeldIn(os, preopens, fd_table, {})' BY <1>0, <1>2, HeldPrime
<1>4. QED
  BY <1>0, <1>2, <1>3 DEF WasiInv, WasiTypeOK, Numbers, LoadOrder, Table, Handle

\* A preopen e is added; what is left is that the handles stay held.
LEMMA AddPreopenStep ==
    ASSUME WasiInv, NEW e \in Preopen, phase = "load", e.wasi_fd = next_fd,
           preopens' = Append(preopens, e), next_fd' = next_fd + 1,
           next_fd < 3 + MaxPreopens, os' \in Table,
           UNCHANGED <<fd_table, fd_base, stdio_fds, phase>>,
           HeldIn(os', preopens', fd_table', {})
    PROVE  WasiInv'
<1>0. /\ WasiTypeOK /\ LoadOrder /\ Numbers(preopens, fd_table, fd_base)
      /\ preopens \in Seq(Preopen) /\ Len(preopens) \in Nat
      /\ DOMAIN preopens = 1 .. Len(preopens) /\ next_fd \in Nat /\ MaxPreopens \in Nat
  BY CtxType, Basics DEF WasiInv
<1> DEFINE k == Len(preopens) + 1
<1>1. /\ preopens' \in Seq(Preopen) /\ Len(preopens') = k
      /\ preopens'[k] = e /\ \A i \in DOMAIN preopens : preopens'[i] = preopens[i]
      /\ DOMAIN preopens' = DOMAIN preopens \cup {k}
  BY <1>0, AppendProperties
<1>2. Len(preopens) + 3 <= next_fd /\ Len(preopens) + 1 <= MaxPreopens
  BY <1>0 DEF LoadOrder
<1>3. WasiTypeOK'
  <2>1. /\ os' \in [Handles -> {Free} \cup [obj : Objects, by : {"host", "runtime"}]]
        /\ preopens' \in Seq([wasi_fd : 3 .. MaxPreopens + 2, host : Handles, kind : {"file", "dir"},
                         ownership : {"own", "borrow"}, is_open : BOOLEAN])
    BY <1>1 DEF Table, Preopen, Handle, Kinds
  <2>2. next_fd' \in 3 .. MaxPreopens + 3 /\ Len(preopens') <= MaxPreopens
    BY <1>0, <1>1, <1>2 DEF WasiTypeOK
  <2>3. QED BY <1>0, <2>1, <2>2 DEF WasiTypeOK
<1> HIDE DEF k
<1>4. \A i \in DOMAIN preopens : preopens[i].wasi_fd < next_fd /\ preopens[i].wasi_fd \in Nat
  BY <1>0, CtxType, ContextFacts DEF LoadOrder
<1>5. fd_table = <<>> /\ fd_base = 0 BY <1>0 DEF LoadOrder
<1>6. Numbers(preopens', fd_table', fd_base')
  <2>1. \A i, j \in DOMAIN preopens' :
          preopens'[i].wasi_fd = preopens'[j].wasi_fd => i = j
    <3>1. \A i \in DOMAIN preopens : preopens'[i].wasi_fd # next_fd BY <1>0, <1>1, <1>4
    <3>2. QED BY <1>0, <1>1, <3>1 DEF Numbers
  <2>2. DOMAIN fd_table' = {} BY <1>5
  <2>3. QED BY <2>1, <2>2 DEF Numbers
<1>7. LoadOrder'
  <2>1. \A i \in DOMAIN preopens' : preopens'[i].wasi_fd < next_fd'
    <3> TAKE i \in DOMAIN preopens'
    <3>1. CASE i = k BY <1>0, <1>1, <3>1
    <3>2. CASE i \in DOMAIN preopens BY <1>0, <1>1, <1>4, <3>2
    <3>3. QED BY <1>1, <3>1, <3>2
  <2>2. Len(preopens') + 3 <= next_fd' BY <1>0, <1>1, <1>2 DEF k
  <2>3. QED BY <1>5, <2>1, <2>2 DEF LoadOrder
<1>8. HeldIn(os, preopens, fd_table, {})' BY HeldPrime
<1>9. QED BY <1>3, <1>6, <1>7, <1>8, NumbersPrime DEF WasiInv

LEMMA AddPreopenPathStep ==
    ASSUME WasiInv, NEW dir \in Dirs, addPreopenPath(dir)
    PROVE  WasiInv'
<1>0. /\ phase = "load" /\ next_fd < 3 + MaxPreopens /\ next_fd' = next_fd + 1
      /\ UNCHANGED <<fd_table, fd_base, stdio_fds, phase>>
  BY DEF addPreopenPath
<1>1. /\ WasiTypeOK /\ os \in Table /\ preopens \in Seq(Preopen) /\ LoadOrder
      /\ HeldIn(os, preopens, fd_table, {}) /\ next_fd \in Nat /\ MaxPreopens \in Nat
      /\ Len(preopens) \in Nat
  BY CtxType, Basics DEF WasiInv
<1>2. CASE UNCHANGED <<os, preopens>>
  <2>1. HeldIn(os', preopens', fd_table', {}) BY <1>0, <1>1, <1>2
  <2>2. HeldIn(os, preopens, fd_table, {})' BY <1>0, <2>1, HeldPrime
  <2>3. next_fd' \in 3 .. MaxPreopens + 3 BY <1>0, <1>1 DEF WasiTypeOK
  <2>4. LoadOrder'
    <3>1. \A i \in DOMAIN preopens : preopens[i].wasi_fd \in Nat BY <1>1, CtxType, ContextFacts
    <3>2. QED BY <1>0, <1>1, <1>2, <3>1 DEF LoadOrder
  <2>5. QED BY <1>0, <1>1, <1>2, <2>2, <2>3, <2>4 DEF WasiInv, WasiTypeOK, Numbers
<1>3. CASE FreeHandles(os) # {} /\ ~UNCHANGED <<os, preopens>>
  <2> DEFINE h == Lowest(FreeHandles(os))
             e == [wasi_fd |-> next_fd, host |-> h, kind |-> "dir",
                   ownership |-> "own", is_open |-> TRUE]
  <2>1. h \in Handles /\ os[h] = Free BY <1>3, LowestFree
  <2>2. os' = [os EXCEPT ![h] = Held(dir, "runtime")] /\ preopens' = Append(preopens, e)
    BY <1>3 DEF addPreopenPath, WithHandle
  <2>3. dir \in Objects BY DEF Objects
  <2>4. next_fd \in 3 .. MaxPreopens + 2 BY <1>0, <1>1 DEF WasiTypeOK
  <2>5. e \in Preopen /\ e.is_open /\ e.host = h /\ e.ownership = "own" /\ e.wasi_fd = next_fd
    BY <2>1, <2>4 DEF Preopen, Kinds
  <2> HIDE DEF h, e
  <2>6. os' \in Table /\ IsOf(os', h, "runtime")
    <3>1. Held(dir, "runtime") \in Handle /\ Held(dir, "runtime").by = "runtime"
      BY <2>3, Basics
    <3>2. Held(dir, "runtime") # Free BY <3>1, Basics
    <3>3. QED BY <1>1, <2>1, <2>2, <3>1, <3>2 DEF Table, IsOf
  <2>7. HeldIn(os', preopens, fd_table, {h}) BY <1>1, <2>1, <2>2, <2>3, HeldNew
  <2>8. ~Kept(preopens, fd_table, h) BY <2>7 DEF HeldIn, NoLeak
  <2>9. HeldIn(os', preopens', fd_table, {})
    BY <1>1, <2>2, <2>5, <2>6, <2>7, <2>8, HeldAddPreopen DEF By
  <2>10. HeldIn(os', preopens', fd_table', {}) BY <1>0, <2>9
  <2>11. QED BY <1>0, <2>2, <2>5, <2>6, <2>10, AddPreopenStep
<1>4. QED BY <1>2, <1>3 DEF addPreopenPath

\* What the process's handles are after a handle has been passed.
LEMMA PassedFacts ==
    ASSUME WasiInv, NEW h \in Handles, NEW own \in {"own", "borrow"}, Passable(h)
    PROVE  /\ ~Kept(preopens, fd_table, h) /\ IsOf(os, h, "host") /\ os[h].obj \in Objects
           /\ WithHandle(os, h, PassedAs(h, own)) \in Table
           /\ IsOf(WithHandle(os, h, PassedAs(h, own)), h, By(own))
           /\ \A k \in Handles : k # h => WithHandle(os, h, PassedAs(h, own))[k] = os[k]
           /\ own = "borrow" => WithHandle(os, h, PassedAs(h, own)) = os
           /\ own = "own" => WithHandle(os, h, PassedAs(h, own)) =
                                [os EXCEPT ![h] = Held(os[h].obj, "runtime")]
<1>0. os \in Table BY CtxType DEF WasiInv
<1>1. IsOf(os, h, "host") /\ h \notin Lent BY DEF Passable, IsOf
<1>2. ~Kept(preopens, fd_table, h) BY <1>1, NotLent
<1>3. os[h] \in Handle BY <1>0, <1>1 DEF Table, IsOf
<1>4. os[h].obj \in Objects BY <1>3 DEF Handle
<1>5. CASE own = "borrow"
  <2>1. WithHandle(os, h, PassedAs(h, own)) = os BY <1>0, <1>5 DEF WithHandle, PassedAs, Table
  <2>2. QED BY <1>0, <1>1, <1>2, <1>4, <1>5, <2>1 DEF By
<1>6. CASE own = "own"
  <2>1. WithHandle(os, h, PassedAs(h, own)) = [os EXCEPT ![h] = Held(os[h].obj, "runtime")]
    BY <1>6 DEF WithHandle, PassedAs
  <2>2. /\ Held(os[h].obj, "runtime") \in Handle /\ Held(os[h].obj, "runtime") # Free
        /\ Held(os[h].obj, "runtime").by = "runtime"
    BY <1>4, Basics
  <2>3. QED BY <1>0, <1>1, <1>2, <1>4, <1>6, <2>1, <2>2 DEF By, IsOf, Table
<1>7. QED BY <1>5, <1>6

LEMMA AddPreopenFdStep ==
    ASSUME WasiInv, NEW h \in Handles, NEW own \in {"own", "borrow"}, addPreopenFd(h, own)
    PROVE  WasiInv'
<1> DEFINE e == [wasi_fd |-> next_fd, host |-> h, kind |-> KindOf(os[h].obj),
                 ownership |-> own, is_open |-> TRUE]
<1>0. /\ phase = "load" /\ next_fd < 3 + MaxPreopens /\ next_fd' = next_fd + 1
      /\ UNCHANGED <<fd_table, fd_base, stdio_fds, phase>> /\ Passable(h)
      /\ os' = WithHandle(os, h, PassedAs(h, own)) /\ preopens' = Append(preopens, e)
  BY DEF addPreopenFd
<1>1. /\ WasiTypeOK /\ os \in Table /\ preopens \in Seq(Preopen)
      /\ HeldIn(os, preopens, fd_table, {}) /\ next_fd \in Nat /\ MaxPreopens \in Nat
  BY CtxType, Basics DEF WasiInv
<1>2. next_fd \in 3 .. MaxPreopens + 2 BY <1>0, <1>1 DEF WasiTypeOK
<1>3. KindOf(os[h].obj) \in Kinds BY DEF KindOf, Kinds
<1>4. e \in Preopen /\ e.is_open /\ e.host = h /\ e.ownership = own /\ e.wasi_fd = next_fd
  BY <1>2, <1>3 DEF Preopen
<1> HIDE DEF e
<1>5. /\ ~Kept(preopens, fd_table, h) /\ os' \in Table /\ IsOf(os', h, By(own))
      /\ os[h].obj \in Objects
  BY <1>0, PassedFacts
<1>6. HeldIn(os', preopens', fd_table, {})
  <2>1. CASE own = "borrow"
    <3>1. os' = os BY <1>0, <2>1, PassedFacts
    <3>2. HeldIn(os', preopens, fd_table, {}) /\ {} \subseteq {e.host} BY <1>1, <3>1
    <3>3. ~Kept(preopens, fd_table, e.host) /\ IsOf(os', e.host, By(e.ownership))
      BY <1>4, <1>5
    <3>4. preopens' = Append(preopens, e) /\ e.is_open /\ e \in Preopen BY <1>0, <1>4
    <3>5. QED BY <1>1, <3>2, <3>3, <3>4, HeldAddPreopen, Zenon
  <2>2. CASE own = "own"
    <3>1. os' = [os EXCEPT ![h] = Held(os[h].obj, "runtime")] BY <1>0, <2>2, PassedFacts
    <3>2. HeldIn(os', preopens, fd_table, {h}) BY <1>1, <1>5, <3>1, HeldTake
    <3>3. {h} \subseteq {e.host} BY <1>4
    <3>4. QED BY <1>0, <1>1, <1>4, <1>5, <3>2, <3>3, HeldAddPreopen
  <2>3. QED BY <2>1, <2>2
<1>7. HeldIn(os', preopens', fd_table', {}) BY <1>0, <1>6
<1>8. QED BY <1>0, <1>4, <1>5, <1>7, AddPreopenStep

LEMMA SetStdioStep ==
    ASSUME WasiInv, NEW fd \in 0 .. 2, NEW h \in Handles, NEW own \in {"own", "borrow"},
           setStdioFd(fd, h, own)
    PROVE  WasiInv'
<1> DEFINE prev == stdio_fds[fd]
           kept == WithHandle(os, h, PassedAs(h, own))
           p == preopens
           t == fd_table
<1>0. /\ phase = "load" /\ Passable(h)
      /\ UNCHANGED <<preopens, fd_table, fd_base, next_fd, phase>>
      /\ stdio_fds' = [stdio_fds EXCEPT ![fd] = [host |-> h, ownership |-> own]]
      /\ os' = IF prev.ownership = "own" THEN [kept EXCEPT ![prev.host] = Free] ELSE kept
  BY DEF setStdioFd, pfdClose
<1>1. /\ WasiTypeOK /\ os \in Table
      /\ stdio_fds \in [0 .. 2 -> [host : Handles, ownership : {"own", "borrow"}]]
      /\ StreamsKept(os) /\ PreopensKept(os, p) /\ SlotsKept(os, t) /\ Apart(p, t)
      /\ NoLeak(os, p, t, {})
  BY CtxType DEF WasiInv, HeldIn
<1>2. /\ ~Kept(p, t, h) /\ IsOf(os, h, "host") /\ kept \in Table
      /\ IsOf(kept, h, By(own)) /\ \A k \in Handles : k # h => kept[k] = os[k]
  BY <1>0, PassedFacts
<1> HIDE DEF kept
<1>3. /\ prev.host \in Handles /\ prev.ownership \in {"own", "borrow"}
      /\ StreamHas(fd, prev.host) /\ prev.host # h
  BY <1>0, <1>1, <1>2 DEF StreamHas, Kept
<1>4. IsOf(os, prev.host, By(prev.ownership)) BY <1>1, <1>3 DEF StreamsKept
<1>5. os' \in Table BY <1>0, <1>2, <1>3 DEF Table
<1>6. stdio_fds' \in [0 .. 2 -> [host : Handles, ownership : {"own", "borrow"}]]
  BY <1>0, <1>1
\* Only h and the stream's handle of before change hands.
<1>7. \A who : \A k \in Handles : k # h /\ k # prev.host => (IsOf(os', k, who) <=> IsOf(os, k, who))
  BY <1>0, <1>2, <1>3 DEF IsOf, Table
<1>8. IsOf(os', h, By(own)) BY <1>0, <1>2, <1>3 DEF IsOf, Table
<1>9. prev.ownership = "own" => os'[prev.host] = Free BY <1>0, <1>2, <1>3 DEF Table
<1>10. prev.ownership = "borrow" => os'[prev.host] = os[prev.host] BY <1>0, <1>2, <1>3
<1>11. \A g \in 0 .. 2, k \in Handles :
         StreamHas(g, k)' <=> IF g = fd THEN k = h ELSE StreamHas(g, k)
  BY <1>0, <1>1 DEF StreamHas
<1>12. \A g \in 0 .. 2 : stdio_fds'[g].ownership = IF g = fd THEN own ELSE stdio_fds[g].ownership
  BY <1>0, <1>1
<1>13. /\ \A k \in Handles, g \in 0 .. 2 : StreamHas(g, k) => k # h
       /\ \A k \in Handles, i \in DOMAIN p : PreopenHas(p, i, k) => k # h /\ k # prev.host
       /\ \A k \in Handles, i \in DOMAIN t : SlotHas(t, i, k) => k # h /\ k # prev.host
       /\ \A k \in Handles, g \in 0 .. 2 : StreamHas(g, k) /\ g # fd => k # prev.host
  BY <1>1, <1>2, <1>3 DEF Kept, Apart
<1> HIDE DEF prev
<1>14. StreamsKept(os)'
  <2> SUFFICES ASSUME NEW g \in 0 .. 2, NEW k \in Handles, StreamHas(g, k)'
               PROVE  IsOf(os', k, By(stdio_fds'[g].ownership))
    BY DEF StreamsKept, IsOf, By
  <2>1. CASE g = fd BY <1>8, <1>11, <1>12, <2>1
  <2>2. CASE g # fd
    <3>1. StreamHas(g, k) /\ k # h /\ k # prev.host BY <1>11, <1>13, <2>2
    <3>2. IsOf(os, k, By(stdio_fds[g].ownership)) BY <1>1, <3>1 DEF StreamsKept
    <3>3. QED BY <1>7, <1>12, <2>2, <3>1, <3>2
  <2>3. QED BY <2>1, <2>2
<1>15. PreopensKept(os', p) BY <1>1, <1>7, <1>13 DEF PreopensKept
<1>16. SlotsKept(os', t) BY <1>1, <1>7, <1>13 DEF SlotsKept
<1>17. Apart(preopens, fd_table)'
  <2>1. \A k \in Handles :
        /\ \A f, g \in 0 .. 2 : StreamHas(f, k)' /\ StreamHas(g, k)' => f = g
        /\ \A g \in 0 .. 2, i \in DOMAIN p : ~(StreamHas(g, k)' /\ PreopenHas(p, i, k))
        /\ \A g \in 0 .. 2, i \in DOMAIN t : ~(StreamHas(g, k)' /\ SlotHas(t, i, k))
    BY <1>1, <1>11, <1>13 DEF Apart
  <2>2. \A i, k : PreopenHas(preopens, i, k)' <=> PreopenHas(p, i, k)
    BY <1>0 DEF PreopenHas
  <2>3. \A i, k : SlotHas(fd_table, i, k)' <=> SlotHas(t, i, k)
    BY <1>0 DEF SlotHas
  <2>4. QED BY <1>0, <1>1, <2>1, <2>2, <2>3 DEF Apart
<1>18. NoLeak(os, preopens, fd_table, {})'
  <2> SUFFICES ASSUME NEW k \in Handles, IsOf(os', k, "runtime")
               PROVE  Kept(preopens, fd_table, k)'
    BY DEF NoLeak, IsOf
  <2>1. k # prev.host
    <3>1. CASE prev.ownership = "own" BY <1>9, <3>1 DEF IsOf
    <3>2. CASE prev.ownership = "borrow" BY <1>4, <1>10, <3>2 DEF IsOf, By
    <3>3. QED BY <1>3, <3>1, <3>2
  <2>2. CASE k = h BY <1>11, <2>2 DEF Kept
  <2>3. CASE k # h
    <3>1. Kept(p, t, k) BY <1>1, <1>7, <2>1, <2>3 DEF NoLeak
    <3>2. \A g \in 0 .. 2 : StreamHas(g, k) => g # fd
      BY <1>1, <1>3, <2>1 DEF StreamHas
    <3>3. QED BY <1>0, <1>11, <3>1, <3>2 DEF Kept, PreopenHas, SlotHas
  <2>4. QED BY <2>2, <2>3
<1>19. HeldIn(os, preopens, fd_table, {})'
  BY <1>0, <1>14, <1>15, <1>16, <1>17, <1>18
  DEF HeldIn, PreopensKept, SlotsKept, PreopenHas, SlotHas, IsOf
<1>20. WasiTypeOK' BY <1>0, <1>1, <1>5, <1>6 DEF WasiTypeOK, Table, Handle
<1>21. QED BY <1>0, <1>19, <1>20 DEF WasiInv, Numbers, LoadOrder

LEMMA LoadedStep ==
    ASSUME WasiInv, Loaded
    PROVE  WasiInv'
<1>1. /\ phase = "load" /\ phase' = "run"
      /\ UNCHANGED <<os, preopens, fd_table, fd_base, stdio_fds, next_fd>>
  BY DEF Loaded
<1>2. HeldIn(os', preopens', fd_table', {}) BY <1>1 DEF WasiInv
<1>3. HeldIn(os, preopens, fd_table, {})' BY <1>1, <1>2, HeldPrime
<1>4. QED BY <1>1, <1>3 DEF WasiInv, WasiTypeOK, Numbers, LoadOrder

\* What deinit closes: all that is the runtime's, and nothing else.
Gone ==
    {stdio_fds[fd].host : fd \in {g \in 0 .. 2 : stdio_fds[g].ownership = "own"}}
    \cup {preopens[i].host : i \in {j \in DOMAIN preopens :
             preopens[j].is_open /\ preopens[j].ownership = "own"}}
    \cup {fd_table[i].host : i \in {j \in DOMAIN fd_table : fd_table[j] # Closed}}

LEMMA GoneIsRuntimes ==
    ASSUME WasiInv, phase # "done", NEW h \in Handles
    PROVE  h \in Gone <=> IsOf(os, h, "runtime")
<1>0. /\ StreamsKept(os) /\ PreopensKept(os, preopens) /\ SlotsKept(os, fd_table)
      /\ NoLeak(os, preopens, fd_table, {})
  BY DEF WasiInv, HeldIn
<1>1. /\ stdio_fds \in [0 .. 2 -> [host : Handles, ownership : {"own", "borrow"}]]
      /\ \A i \in DOMAIN preopens : preopens[i] \in Preopen
  BY CtxType, ContextFacts DEF WasiInv
<1>2. ASSUME h \in Gone PROVE IsOf(os, h, "runtime")
  <2>1. CASE \E g \in 0 .. 2 : stdio_fds[g].ownership = "own" /\ h = stdio_fds[g].host
    BY <1>0, <2>1 DEF StreamsKept, StreamHas, By
  <2>2. CASE \E i \in DOMAIN preopens : /\ preopens[i].is_open /\ preopens[i].ownership = "own"
                                        /\ h = preopens[i].host
    BY <1>0, <2>2 DEF PreopensKept, PreopenHas, By
  <2>3. CASE \E i \in DOMAIN fd_table : fd_table[i] # Closed /\ h = fd_table[i].host
    BY <1>0, <2>3 DEF SlotsKept, SlotHas
  <2>4. QED BY <1>2, <2>1, <2>2, <2>3 DEF Gone
<1>3. ASSUME IsOf(os, h, "runtime") PROVE h \in Gone
  <2>0. ~IsOf(os, h, "host") BY <1>3 DEF IsOf
  <2>1. Kept(preopens, fd_table, h) BY <1>0, <1>3 DEF NoLeak
  <2>2. ASSUME NEW g \in 0 .. 2, StreamHas(g, h) PROVE h \in Gone
    <3>1. stdio_fds[g].ownership # "borrow" BY <1>0, <2>0, <2>2 DEF StreamsKept, By
    <3>2. stdio_fds[g].ownership = "own" /\ stdio_fds[g].host = h
      BY <1>1, <2>2, <3>1 DEF StreamHas
    <3>3. QED BY <3>2 DEF Gone
  <2>3. ASSUME NEW i \in DOMAIN preopens, PreopenHas(preopens, i, h) PROVE h \in Gone
    <3>1. preopens[i].ownership # "borrow" BY <1>0, <2>0, <2>3 DEF PreopensKept, By
    <3>2. preopens[i].ownership = "own" BY <1>1, <3>1 DEF Preopen
    <3>3. QED BY <2>3, <3>2 DEF Gone, PreopenHas
  <2>4. ASSUME NEW i \in DOMAIN fd_table, SlotHas(fd_table, i, h) PROVE h \in Gone
    BY <2>4 DEF Gone, SlotHas
  <2>5. QED BY <2>1, <2>2, <2>3, <2>4 DEF Kept
<1>4. QED BY <1>2, <1>3

LEMMA DeinitStep ==
    ASSUME WasiInv, deinit
    PROVE  WasiInv'
<1>0. /\ phase # "done" /\ phase' = "done" /\ preopens' = <<>> /\ fd_table' = <<>>
      /\ UNCHANGED <<fd_base, stdio_fds, next_fd>>
      /\ os' = [h \in Handles |-> IF h \in Gone THEN Free ELSE os[h]]
  BY DEF deinit, Gone
<1>1. /\ os \in Table /\ WasiTypeOK /\ StreamsKept(os)
      /\ stdio_fds \in [0 .. 2 -> [host : Handles, ownership : {"own", "borrow"}]]
      /\ Apart(preopens, fd_table)
  BY CtxType DEF WasiInv, HeldIn
<1>2. os' \in Table BY <1>0, <1>1 DEF Table
<1>3. \A who : \A h \in Handles : IsOf(os', h, who) <=> IsOf(os, h, who) /\ ~IsOf(os, h, "runtime")
  BY <1>0, GoneIsRuntimes DEF IsOf
<1>4. \A g \in 0 .. 2, h \in Handles :
         StreamHas(g, h)' <=> StreamHas(g, h) /\ stdio_fds[g].ownership = "borrow"
  BY <1>0 DEF StreamHas
<1>5. StreamsKept(os)'
  <2> SUFFICES ASSUME NEW g \in 0 .. 2, NEW h \in Handles, StreamHas(g, h)'
               PROVE  IsOf(os', h, By(stdio_fds[g].ownership))
    BY <1>0 DEF StreamsKept, IsOf, By
  <2>1. IsOf(os, h, "host") /\ By(stdio_fds[g].ownership) = "host"
    BY <1>1, <1>4 DEF StreamsKept, By
  <2>2. ~IsOf(os, h, "runtime") BY <2>1 DEF IsOf
  <2>3. QED BY <1>3, <2>1, <2>2
<1>6. DOMAIN preopens' = {} /\ DOMAIN fd_table' = {} BY <1>0
<1>7. PreopensKept(os, preopens)' /\ SlotsKept(os, fd_table)'
  BY <1>6 DEF PreopensKept, SlotsKept
<1>8. Apart(preopens, fd_table)' BY <1>1, <1>4, <1>6 DEF Apart
<1>9. NoLeak(os, preopens, fd_table, {})' BY <1>3 DEF NoLeak, IsOf
<1>10. Numbers(preopens, fd_table, fd_base)' BY <1>6 DEF Numbers
<1>11. LoadOrder'
  <2>1. Len(preopens') = 0 BY <1>0
  <2>2. next_fd' \in Nat /\ 3 <= next_fd' BY <1>0, <1>1, Basics DEF WasiTypeOK
  <2>3. QED BY <1>0, <1>6, <2>1, <2>2 DEF LoadOrder
<1>12. WasiTypeOK'
  <2>1. /\ preopens' \in Seq([wasi_fd : 3 .. MaxPreopens + 2, host : Handles, kind : {"file", "dir"},
                         ownership : {"own", "borrow"}, is_open : BOOLEAN])
        /\ fd_table' \in Seq({Closed} \cup [host : Handles, kind : {"file", "dir"}])
        /\ Len(preopens') = 0 /\ Len(fd_table') = 0
    BY <1>0
  <2>2. Len(preopens') <= MaxPreopens /\ Len(fd_table') <= MaxTable BY <2>1, Basics
  <2>3. QED BY <1>0, <1>1, <1>2, <2>1, <2>2 DEF WasiTypeOK, Table, Handle
<1>13. QED BY <1>5, <1>7, <1>8, <1>9, <1>10, <1>11, <1>12 DEF WasiInv, HeldIn

LEMMA WasiInvInit == WasiInit => WasiInv
<1> SUFFICES ASSUME WasiInit PROVE WasiInv
  OBVIOUS
<1>0. /\ preopens = <<>> /\ fd_table = <<>> /\ fd_base = 0 /\ next_fd = 3 /\ phase = "load"
      /\ DOMAIN preopens = {} /\ DOMAIN fd_table = {}
      /\ stdio_fds = [fd \in 0 .. 2 |-> [host |-> fd, ownership |-> "borrow"]]
      /\ os = [h \in Handles |-> IF h <= 2 THEN Held(Stream, "host") ELSE Free]
  BY DEF WasiInit
<1>1. Held(Stream, "host") \in Handle /\ Held(Stream, "host").by = "host"
      /\ Held(Stream, "host") # Free
  BY Basics
<1>2. os \in Table BY <1>0, <1>1 DEF Table
<1>3. WasiTypeOK
  <2>1. /\ preopens \in Seq([wasi_fd : 3 .. MaxPreopens + 2, host : Handles, kind : {"file", "dir"},
                         ownership : {"own", "borrow"}, is_open : BOOLEAN])
        /\ fd_table \in Seq({Closed} \cup [host : Handles, kind : {"file", "dir"}])
        /\ Len(preopens) = 0 /\ Len(fd_table) = 0
    BY <1>0
  <2>2. Len(preopens) <= MaxPreopens /\ Len(fd_table) <= MaxTable /\ next_fd \in 3 .. MaxPreopens + 3
    BY <1>0, <2>1, Basics
  <2>3. stdio_fds \in [0 .. 2 -> [host : Handles, ownership : {"own", "borrow"}]]
    BY <1>0, Basics
  <2>4. QED BY <1>0, <1>2, <2>1, <2>2, <2>3 DEF WasiTypeOK, Table, Handle
<1>4. \A h \in Handles : /\ IsOf(os, h, "host") <=> h <= 2
                         /\ ~IsOf(os, h, "runtime")
  BY <1>0, <1>1 DEF IsOf
<1>5. \A g \in 0 .. 2, h \in Handles : StreamHas(g, h) <=> g = h
  BY <1>0 DEF StreamHas
<1>6. StreamsKept(os)
  <2> SUFFICES ASSUME NEW g \in 0 .. 2, NEW h \in Handles, StreamHas(g, h)
               PROVE  IsOf(os, h, "host")
    BY <1>0 DEF StreamsKept, By
  <2>1. h <= 2 BY <1>5
  <2>2. QED BY <1>4, <2>1
<1>7. HeldIn(os, preopens, fd_table, {})
  BY <1>0, <1>4, <1>5, <1>6 DEF HeldIn, PreopensKept, SlotsKept, Apart, NoLeak
<1>8. Numbers(preopens, fd_table, fd_base) /\ LoadOrder
  <2>1. Len(preopens) + 3 <= next_fd BY <1>0
  <2>2. QED BY <1>0, <2>1 DEF Numbers, LoadOrder
<1>9. QED BY <1>3, <1>7, <1>8 DEF WasiInv

LEMMA WasiInvNext == WasiInv /\ [WasiNext]_wasiVars => WasiInv'
<1> SUFFICES ASSUME WasiInv, [WasiNext]_wasiVars PROVE WasiInv'
  OBVIOUS
<1>1. CASE HostOpens \/ \E h \in Handles : HostCloses(h) BY <1>1, HostStep
<1>2. CASE \E d \in Dirs : addPreopenPath(d) BY <1>2, AddPreopenPathStep
<1>3. CASE \E h \in Handles, own \in {"own", "borrow"} : addPreopenFd(h, own)
  BY <1>3, AddPreopenFdStep
<1>4. CASE \E h \in Handles, own \in {"own", "borrow"} : \E fd \in Overrides : setStdioFd(fd, h, own)
  <2>1. Overrides \subseteq 0 .. 2 BY WasiAssumption
  <2>2. QED BY <1>4, <2>1, SetStdioStep
<1>5. CASE Loaded BY <1>5, LoadedStep
<1>6. CASE deinit BY <1>6, DeinitStep
<1>7. CASE \E fd \in GuestFds : fd_close(fd) BY <1>7, FdCloseStep
<1>8. CASE \E fd \in GuestFds, o \in Objects, asDir \in BOOLEAN : path_open(fd, o, asDir)
  BY <1>8, PathOpenStep
<1>9. CASE \E from, to \in GuestFds : fd_renumber(from, to) BY <1>9, FdRenumberStep
<1>10. CASE UNCHANGED wasiVars
  <2>1. HeldIn(os', preopens', fd_table', {}) BY <1>10 DEF WasiInv, wasiVars
  <2>2. HeldIn(os, preopens, fd_table, {})' BY <1>10, <2>1, HeldPrime DEF wasiVars
  <2>3. QED BY <1>10, <2>2 DEF WasiInv, WasiTypeOK, Numbers, LoadOrder, wasiVars
<1>11. QED
  BY <1>1, <1>2, <1>3, <1>4, <1>5, <1>6, <1>7, <1>8, <1>9, <1>10 DEF WasiNext

(* The variables of the descriptor table keep their types, for every bound: *)
(* fd_table and the preopens stay within theirs, and fd_base is 0 or above *)
(* the number of every preopen's descriptor.                               *)
THEOREM WasiTypes == WasiSpec => []WasiTypeOK
<1>1. WasiInv => WasiTypeOK BY DEF WasiInv
<1>2. QED BY WasiInvInit, WasiInvNext, <1>1, PTL DEF WasiSpec

\* The places that keep a handle are those that will close it, and the
\* borrowed ones.
LEMMA HoldersFacts ==
    ASSUME WasiInv, NEW h \in Handles
    PROVE  Cardinality(Holders(h)) = IF os[h] # Free /\ os[h].by = "runtime" THEN 1 ELSE 0
<1>0. /\ StreamsKept(os) /\ PreopensKept(os, preopens) /\ SlotsKept(os, fd_table)
      /\ NoLeak(os, preopens, fd_table, {}) /\ Apart(preopens, fd_table)
  BY DEF WasiInv, HeldIn
<1>1. /\ stdio_fds \in [0 .. 2 -> [host : Handles, ownership : {"own", "borrow"}]]
      /\ \A i \in DOMAIN preopens : preopens[i] \in Preopen
  BY CtxType, ContextFacts DEF WasiInv
<1> DEFINE S(x) == \E g \in 0 .. 2 : /\ StreamHas(g, h) /\ stdio_fds[g].ownership = "own"
                                     /\ x = <<"stdio", g>>
           P(x) == \E i \in DOMAIN preopens :
                      /\ PreopenHas(preopens, i, h) /\ preopens[i].ownership = "own"
                      /\ x = <<"preopen", i>>
           T(x) == \E i \in DOMAIN fd_table : SlotHas(fd_table, i, h) /\ x = <<"table", i>>
<1>2. \A x : x \in Holders(h) <=> S(x) \/ P(x) \/ T(x)
  <2>1. \A g \in 0 .. 2 : (phase # "done" /\ stdio_fds[g] = [host |-> h, ownership |-> "own"])
                          <=> (StreamHas(g, h) /\ stdio_fds[g].ownership = "own")
    BY <1>1 DEF StreamHas
  <2>2. QED BY <2>1 DEF Holders, PreopenHas, SlotHas
<1>3. ASSUME IsOf(os, h, "runtime") PROVE \E x : Holders(h) = {x}
  <2>0. ~IsOf(os, h, "host") BY <1>3 DEF IsOf
  <2>1. \A g \in 0 .. 2 : StreamHas(g, h) => stdio_fds[g].ownership = "own"
    BY <1>0, <1>1, <2>0 DEF StreamsKept, By
  <2>2. \A i \in DOMAIN preopens : PreopenHas(preopens, i, h) => preopens[i].ownership = "own"
    <3> TAKE i \in DOMAIN preopens
    <3> HAVE PreopenHas(preopens, i, h)
    <3>1. preopens[i].ownership # "borrow" BY <1>0, <2>0 DEF PreopensKept, By
    <3>2. QED BY <1>1, <3>1 DEF Preopen
  <2>3. Kept(preopens, fd_table, h) BY <1>0, <1>3 DEF NoLeak
  <2>4. CASE \E g \in 0 .. 2 : StreamHas(g, h)
    <3>1. PICK g \in 0 .. 2 : StreamHas(g, h) BY <2>4
    <3>2. \A x : x \in Holders(h) <=> x = <<"stdio", g>>
      BY <1>0, <1>2, <2>1, <3>1 DEF Apart
    <3>3. Holders(h) = {<<"stdio", g>>} BY <3>2
    <3>4. QED BY <3>3
  <2>5. CASE \E i \in DOMAIN preopens : PreopenHas(preopens, i, h)
    <3>1. PICK i \in DOMAIN preopens : PreopenHas(preopens, i, h) BY <2>5
    <3>2. \A x : x \in Holders(h) <=> x = <<"preopen", i>>
      BY <1>0, <1>2, <2>2, <3>1 DEF Apart
    <3>3. Holders(h) = {<<"preopen", i>>} BY <3>2
    <3>4. QED BY <3>3
  <2>6. CASE \E i \in DOMAIN fd_table : SlotHas(fd_table, i, h)
    <3>1. PICK i \in DOMAIN fd_table : SlotHas(fd_table, i, h) BY <2>6
    <3>2. \A x : x \in Holders(h) <=> x = <<"table", i>>
      BY <1>0, <1>2, <3>1 DEF Apart
    <3>3. Holders(h) = {<<"table", i>>} BY <3>2
    <3>4. QED BY <3>3
  <2>7. QED BY <2>3, <2>4, <2>5, <2>6 DEF Kept
<1>4. ASSUME ~IsOf(os, h, "runtime") PROVE Holders(h) = {}
  <2>1. \A x : ~S(x) BY <1>0, <1>4 DEF StreamsKept, By
  <2>2. \A x : ~P(x) BY <1>0, <1>4 DEF PreopensKept, By
  <2>3. \A x : ~T(x) BY <1>0, <1>4 DEF SlotsKept
  <2>4. QED BY <1>2, <2>1, <2>2, <2>3
<1>5. QED BY <1>3, <1>4, FS_Singleton, FS_EmptySet DEF IsOf

(* Whatever the guest closes, opens and renumbers, in whatever order, and  *)
(* whichever step of a call fails, every handle the runtime has to close   *)
(* is held in exactly one place and no place holds another: no leak, no    *)
(* double close (closeFd, fd_renumber, allocFd, setStdioFd, deinit).       *)
THEOREM EveryHandleHeldOnce == WasiSpec => []HandlesHeldOnce
<1>1. WasiInv => HandlesHeldOnce BY HoldersFacts DEF HandlesHeldOnce
<1>2. QED BY WasiInvInit, WasiInvNext, <1>1, PTL DEF WasiSpec

-----------------------------------------------------------------------------
\* Handle h is closed because the preopen it was lent as is closed.
LentBack(p, q, h) ==
    \E i \in DOMAIN p : p[i].host = h /\ p[i].is_open /\ ~q[i].is_open

LEMMA CloseHost ==
    ASSUME NEW c \in Context, NEW fd \in Nat, fd_base \in Nat, SlotsKept(c.os, c.fd_table)
    PROVE  LET d == closeFd(c, fd)
           IN  /\ \A i \in DOMAIN c.preopens : d.preopens[i].is_open => c.preopens[i].is_open
               /\ \A i \in DOMAIN c.preopens : d.preopens[i].host = c.preopens[i].host
               /\ \A h \in Handles : IsOf(c.os, h, "host") =>
                    d.os[h] = c.os[h] \/ LentBack(c.preopens, d.preopens, h)
<1> DEFINE d == closeFd(c, fd)
<1>1. \/ \E i : ClosesPreopen(c, d, i)
      \/ \E i : ClosesSlot(c, d, i)
      \/ d = c
  BY CloseFdCases
<1>2. c.os \in Table BY ContextFacts
<1> HIDE DEF d
<1>3. \A i \in DOMAIN c.preopens : /\ d.preopens[i].is_open => c.preopens[i].is_open
                                   /\ d.preopens[i].host = c.preopens[i].host
  BY <1>1 DEF ClosesPreopen, ClosesSlot
<1>4. ASSUME NEW h \in Handles, IsOf(c.os, h, "host"), d.os[h] # c.os[h]
      PROVE  LentBack(c.preopens, d.preopens, h)
  <2>1. ASSUME NEW i, ClosesPreopen(c, d, i) PROVE LentBack(c.preopens, d.preopens, h)
    <3>1. h = c.preopens[i].host BY <1>2, <1>4, <2>1 DEF ClosesPreopen, Table
    <3>2. QED BY <2>1, <3>1 DEF ClosesPreopen, LentBack
  <2>2. ASSUME NEW i, ClosesSlot(c, d, i) PROVE FALSE
    <3>1. h = c.fd_table[i].host BY <1>2, <1>4, <2>2 DEF ClosesSlot, Table
    <3>2. IsOf(c.os, h, "runtime") BY <2>2, <3>1 DEF ClosesSlot, SlotsKept, SlotHas
    <3>3. QED BY <1>4, <3>2 DEF IsOf
  <2>3. QED BY <1>1, <1>4, <2>1, <2>2
<1>5. QED BY <1>3, <1>4 DEF d

\* The same for the whole of fd_renumber: the duplicate is another handle.
LEMMA RenumberHost ==
    ASSUME WasiInv, NEW from \in Nat, NEW to \in Nat, to - fd_base < MaxTable,
           NEW f \in Objects, NEW new \in Handles,
           closeFd(Ctx, to).os[new] = Free,
           NEW d \in Assign(closeFd(Dup(closeFd(Ctx, to), new, f), from), new, to)
    PROVE  \A h \in Handles : IsOf(os, h, "host") =>
               d.os[h] = os[h] \/ LentBack(preopens, d.preopens, h)
<1> DEFINE c1 == closeFd(Ctx, to)
           c2 == Dup(c1, new, f)
           c3 == closeFd(c2, from)
<1>0. /\ fd_base \in Nat /\ CtxInv(c1) /\ c1 \in Context /\ c1.os[new] = Free
      /\ Ctx \in Context /\ CtxInv(Ctx)
      /\ Ctx.os = os /\ Ctx.preopens = preopens /\ Ctx.fd_table = fd_table
      /\ Numbers(Ctx.preopens, Ctx.fd_table, fd_base)
  BY CloseInv, InvCtx, CtxType DEF CtxInv
<1>1. /\ preopenOf(c1, to) = {} /\ getFdEntry(c1, to) = {}
      /\ Numbers(c1.preopens, c1.fd_table, fd_base)
  BY <1>0, CloseNames
<1>2. DOMAIN c1.preopens = DOMAIN preopens BY <1>0, CloseSame
<1>a. /\ \A i \in DOMAIN preopens : /\ c1.preopens[i].is_open => preopens[i].is_open
                                    /\ c1.preopens[i].host = preopens[i].host
      /\ \A h \in Handles : IsOf(os, h, "host") =>
            c1.os[h] = os[h] \/ LentBack(preopens, c1.preopens, h)
  BY <1>0, CloseHost DEF CtxInv, HeldIn
<1> HIDE DEF c1
<1>3. /\ c2 \in Context /\ c2.os = [c1.os EXCEPT ![new] = Held(f, "runtime")]
      /\ c2.preopens = c1.preopens /\ c2.fd_table = c1.fd_table
      /\ getFdEntry(c2, to) = {} /\ Numbers(c2.preopens, c2.fd_table, fd_base)
  BY <1>0, <1>1, DupFacts
<1> HIDE DEF c2
<1>4. SlotsKept(c2.os, c2.fd_table)
  <2>1. HeldIn(c2.os, c2.preopens, c2.fd_table, {new})
    BY <1>0, <1>3, HeldNew, ContextFacts DEF CtxInv
  <2>2. QED BY <2>1 DEF HeldIn
<1>b. /\ \A i \in DOMAIN c2.preopens : /\ c3.preopens[i].is_open => c2.preopens[i].is_open
                                       /\ c3.preopens[i].host = c2.preopens[i].host
      /\ \A h \in Handles : IsOf(c2.os, h, "host") =>
            c3.os[h] = c2.os[h] \/ LentBack(c2.preopens, c3.preopens, h)
  BY <1>0, <1>3, <1>4, CloseHost
<1>5. /\ c3 \in Context /\ getFdEntry(c3, to) \subseteq getFdEntry(c2, to)
      /\ Len(c3.fd_table) = Len(c2.fd_table)
  BY <1>0, <1>3, CloseFdCases, CloseNames
<1>d. d \in Assign(c3, new, to) BY DEF c1, c2
<1> HIDE DEF c3
<1>6. Len(c3.fd_table) <= MaxTable BY <1>0, <1>3, <1>5 DEF CtxInv
<1>e. getFdEntry(c3, to) = {} BY <1>3, <1>5
<1>7. d.preopens = c3.preopens /\ (d.os = c3.os \/ d.os = [c3.os EXCEPT ![new] = Free])
  <2>1. fd_base \in Nat /\ c3 \in Context BY <1>0, <1>5
  <2>2. /\ d \in Context /\ d.preopens = c3.preopens /\ Len(d.fd_table) <= MaxTable
        /\ \/ /\ d.os = c3.os /\ to >= fd_base
              /\ Fills(c3.fd_table, d.fd_table, to - fd_base + 1, new)
           \/ /\ d.os = [c3.os EXCEPT ![new] = Free]
              /\ Grows(c3.fd_table, d.fd_table)
    BY <2>1, <1>6, <1>d, <1>e, AssignCases
  <2>3. QED BY <2>2
<1>8. ASSUME NEW h \in Handles, IsOf(os, h, "host"), ~LentBack(preopens, d.preopens, h)
      PROVE  d.os[h] = os[h]
  <2>1. ~LentBack(preopens, c1.preopens, h)
    BY <1>2, <1>3, <1>7, <1>8, <1>a, <1>b DEF LentBack
  <2>2. c1.os[h] = os[h] BY <1>8, <1>a, <2>1
  <2>3. h # new BY <1>0, <1>8, <2>2 DEF IsOf
  <2>4. c1.os \in Table /\ c3.os \in Table BY <1>0, <1>5, ContextFacts
  <2>5. c2.os[h] = os[h] BY <1>3, <2>2, <2>3, <2>4 DEF Table
  <2>6. ~LentBack(c2.preopens, c3.preopens, h)
    BY <1>2, <1>3, <1>7, <1>8, <1>a DEF LentBack
  <2>7. c3.os[h] = os[h] BY <1>8, <1>b, <2>5, <2>6 DEF IsOf
  <2>8. QED BY <1>7, <2>3, <2>4, <2>7 DEF Table
<1>9. QED BY <1>8

(* A handle of the embedding program is closed only by it, or as the       *)
(* preopen it was lent as: no stale number of the guest's, no failed       *)
(* fd_renumber and no teardown ever closes another (Ownership in           *)
(* wasi.zig), for every number of handles, preopens and slots.             *)
THEOREM HostHandlesKept == WasiSpec => HostHandleKept
<1> DEFINE Back(h) == /\ phase = "run"
                      /\ \E i \in DOMAIN preopens : /\ preopens[i].host = h
                                                    /\ preopens[i].is_open
                                                    /\ ~preopens'[i].is_open
           Fine(h) == (os[h] # Free /\ os[h].by = "host" /\ os'[h] # os[h]) =>
                         \/ os'[h] # Free /\ phase = "load"
                         \/ HostCloses(h)
                         \/ Back(h)
<1>1. WasiInv /\ [WasiNext]_wasiVars => [\A h \in Handles : Fine(h)]_wasiVars
  <2> SUFFICES ASSUME WasiInv, WasiNext, NEW h \in Handles, IsOf(os, h, "host"), os'[h] # os[h]
               PROVE  \/ os'[h] # Free /\ phase = "load"
                      \/ HostCloses(h)
                      \/ Back(h)
    BY DEF IsOf
  <2>0. os \in Table /\ os[h] # Free /\ WasiTypeOK /\ ~IsOf(os, h, "runtime")
    BY CtxType DEF WasiInv, IsOf
  \* A free handle is taken: it is not h.
  <2>a. ASSUME NEW x, FreeHandles(os) # {}, os' = [os EXCEPT ![Lowest(FreeHandles(os))] = x]
        PROVE  FALSE
    BY <2>0, <2>a, LowestFree DEF Table
  <2>1. CASE HostOpens BY <2>1, <2>a DEF HostOpens, WithHandle
  <2>2. ASSUME NEW k \in Handles, HostCloses(k) PROVE HostCloses(h)
    BY <2>0, <2>2 DEF HostCloses, pfdClose, Table
  <2>3. ASSUME NEW d \in Dirs, addPreopenPath(d) PROVE FALSE
    BY <2>3, <2>a DEF addPreopenPath, WithHandle
  <2>4. ASSUME NEW k \in Handles, NEW own \in {"own", "borrow"}, addPreopenFd(k, own)
        PROVE  os'[h] # Free /\ phase = "load"
    <3>1. /\ phase = "load" /\ Passable(k) /\ os' = WithHandle(os, k, PassedAs(k, own))
      BY <2>4 DEF addPreopenFd
    <3>2. IsOf(os', k, By(own)) /\ \A m \in Handles : m # k => os'[m] = os[m]
      BY <3>1, PassedFacts
    <3>3. QED BY <3>1, <3>2 DEF IsOf
  <2>5. ASSUME NEW fd \in Overrides, NEW k \in Handles, NEW own \in {"own", "borrow"},
               setStdioFd(fd, k, own)
        PROVE  os'[h] # Free /\ phase = "load"
    <3> DEFINE kept == WithHandle(os, k, PassedAs(k, own))
               prev == stdio_fds[fd]
    <3>0. fd \in 0 .. 2 BY WasiAssumption
    <3>1. /\ phase = "load" /\ Passable(k)
          /\ os' = IF prev.ownership = "own" THEN [kept EXCEPT ![prev.host] = Free] ELSE kept
      BY <2>5 DEF setStdioFd, pfdClose
    <3>2. /\ kept \in Table /\ IsOf(kept, k, By(own))
          /\ \A m \in Handles : m # k => kept[m] = os[m]
      BY <3>1, PassedFacts
    <3>3. prev.ownership = "own" => prev.host # h
      <4>1. prev.host = h => StreamHas(fd, h) BY <3>1 DEF StreamHas
      <4>2. QED BY <2>0, <3>0, <4>1 DEF WasiInv, HeldIn, StreamsKept, By
    <3> HIDE DEF kept, prev
    <3>4. os'[h] = kept[h] BY <3>1, <3>2, <3>3 DEF Table
    <3>5. QED BY <2>0, <3>1, <3>2, <3>4 DEF IsOf
  <2>6. CASE deinit
    <3>1. h \notin Gone => os'[h] = os[h] BY <2>0, <2>6 DEF deinit, Gone, Table
    <3>2. phase # "done" BY <2>6 DEF deinit
    <3>3. QED BY <2>0, <3>1, <3>2, GoneIsRuntimes
  <2>7. ASSUME NEW fd \in GuestFds, fd_close(fd) PROVE Back(h)
    <3>1. phase = "run" /\ Become(closeFd(Ctx, fd)) BY <2>7 DEF fd_close
    <3>2. fd \in Nat /\ fd_base \in Nat /\ Ctx \in Context BY <2>0, Basics, CtxType
    <3>3. Ctx.os = os /\ Ctx.preopens = preopens /\ Ctx.fd_table = fd_table BY <2>0, CtxType
    <3>4. closeFd(Ctx, fd).os[h] = os[h] \/ LentBack(preopens, closeFd(Ctx, fd).preopens, h)
      BY <3>2, <3>3, CloseHost DEF WasiInv, HeldIn
    <3>5. LentBack(preopens, preopens', h) BY <3>1, <3>4 DEF Become
    <3>6. QED BY <3>1, <3>5 DEF LentBack
  <2>8. ASSUME NEW fd \in GuestFds, NEW o \in Objects, NEW asDir \in BOOLEAN,
               path_open(fd, o, asDir)
        PROVE  FALSE
    BY <2>8, <2>a DEF path_open, WithHandle
  <2>9. ASSUME NEW from \in GuestFds, NEW to \in GuestFds, fd_renumber(from, to) PROVE Back(h)
    <3> DEFINE c1 == closeFd(Ctx, to)
    <3>1. phase = "run" /\ to - fd_base < MaxTable BY <2>9 DEF fd_renumber
    <3>2. from \in Nat /\ to \in Nat /\ fd_base \in Nat /\ Ctx \in Context
      BY <2>0, Basics, CtxType
    <3>3. Ctx.os = os /\ Ctx.preopens = preopens /\ Ctx.fd_table = fd_table BY <2>0, CtxType
    <3>4. CASE Become(c1)
      <4>1. c1.os[h] = os[h] \/ LentBack(preopens, c1.preopens, h)
        BY <3>2, <3>3, CloseHost DEF WasiInv, HeldIn
      <4>2. QED BY <3>1, <3>4, <4>1 DEF Become, LentBack
    <3>5. ASSUME NEW k \in Handles, NEW new \in Handles, c1.os[k] \in Handle, c1.os[new] = Free,
                 NEW c \in Assign(closeFd(Dup(c1, new, c1.os[k].obj), from), new, to), Become(c)
          PROVE  Back(h)
      <4>1. c1.os[k].obj \in Objects BY <3>5 DEF Handle
      <4>2. c.os[h] = os[h] \/ LentBack(preopens, c.preopens, h)
        BY <3>1, <3>2, <3>5, <4>1, RenumberHost
      <4>3. QED BY <3>1, <3>5, <4>2 DEF Become, LentBack
    <3>6. QED BY <2>9, <3>4, <3>5, RenumberCases
  <2>10. CASE Loaded BY <2>10 DEF Loaded
  <2> HIDE DEF Back
  <2>11. QED
    BY <2>1, <2>2, <2>3, <2>4, <2>5, <2>6, <2>7, <2>8, <2>9, <2>10 DEF WasiNext
<1>2. QED BY WasiInvInit, WasiInvNext, <1>1, PTL DEF WasiSpec, HostHandleKept

-----------------------------------------------------------------------------
\* Descriptor fd names f: an open preopen does, or a used slot.
Names(o, p, t, b, fd, f) ==
    \/ \E i \in DOMAIN p : p[i].is_open /\ p[i].wasi_fd = fd /\ f = o[p[i].host].obj
    \/ \E j \in DOMAIN t : t[j] # Closed /\ fd = b + j - 1 /\ f = o[t[j].host].obj

NowNames(fd, f) == Names(os, preopens, fd_table, fd_base, fd, f)

\* FileOf computes it.
LEMMA FileOfNames ==
    ASSUME WasiInv, NEW fd \in Nat
    PROVE  /\ \A f : NowNames(fd, f) => f \in Objects /\ FileOf(fd) = f
           /\ FileOf(fd) # Free => NowNames(fd, FileOf(fd))
           /\ FileOf(fd) \in Objects \cup {Free}
<1> DEFINE p == preopenOf(Ctx, fd)
           e == getFdEntry(Ctx, fd)
           r == getHostHandle(Ctx, fd)
           x == CHOOSE y \in r : TRUE
<1>0. /\ WasiTypeOK /\ Ctx \in Context /\ Ctx.os = os /\ Ctx.preopens = preopens
      /\ Ctx.fd_table = fd_table /\ fd_base \in Nat /\ os \in Table
      /\ Numbers(preopens, fd_table, fd_base)
      /\ PreopensKept(os, preopens) /\ SlotsKept(os, fd_table)
      /\ DOMAIN preopens \subseteq Nat /\ DOMAIN fd_table \subseteq Nat
  BY CtxType DEF WasiInv, HeldIn
<1>1. /\ p = {i \in DOMAIN preopens : preopens[i].wasi_fd = fd /\ preopens[i].is_open}
      /\ e = {i \in DOMAIN fd_table : fd >= fd_base /\ i = fd - fd_base + 1
                                      /\ fd_table[i] # Closed}
  BY <1>0 DEF preopenOf, getFdEntry
<1>2. FileOf(fd) = IF r = {} THEN Free ELSE Named(x.host)
  BY DEF FileOf
<1>3. r = IF p # {} THEN {[host |-> preopens[i].host, kind |-> preopens[i].kind] : i \in {Lowest(p)}}
                    ELSE {fd_table[i] : i \in e}
  BY <1>0 DEF getHostHandle
<1>4. \A h \in Handles : os[h] # Free => os[h].obj \in Objects /\ Named(h) = os[h].obj
  BY <1>0 DEF Table, Handle, Named
<1>5. /\ \A i \in DOMAIN preopens : preopens[i].host \in Handles
      /\ \A i \in DOMAIN fd_table : fd_table[i] # Closed => fd_table[i].host \in Handles
  BY <1>0, ContextFacts
<1>6. CASE p # {}
  <2> DEFINE i == Lowest(p)
  <2>1. p \subseteq Nat BY <1>0, <1>1
  <2>2. i \in p BY <1>6, <2>1, LowestIn
  <2>3. i \in DOMAIN preopens /\ preopens[i].wasi_fd = fd /\ preopens[i].is_open BY <1>1, <2>2
  <2>4. r = {[host |-> preopens[i].host, kind |-> preopens[i].kind]} BY <1>3, <1>6
  <2> HIDE DEF r, i, p, e
  <2>5. x.host = preopens[i].host /\ r # {}
    <3>1. r # {} /\ x \in r BY <2>4
    <3>2. QED BY <2>4, <3>1
  <2>6. os[preopens[i].host] # Free
    BY <1>0, <1>5, <2>3 DEF PreopensKept, PreopenHas, IsOf
  <2>7. /\ FileOf(fd) = os[preopens[i].host].obj /\ FileOf(fd) \in Objects
    BY <1>2, <1>4, <1>5, <2>3, <2>5, <2>6
  <2>8. NowNames(fd, FileOf(fd)) BY <2>3, <2>7 DEF NowNames, Names
  <2>9. \A f : NowNames(fd, f) => f = os[preopens[i].host].obj
    <3> SUFFICES ASSUME NEW f, NowNames(fd, f) PROVE f = os[preopens[i].host].obj
      OBVIOUS
    <3>1. CASE \E j \in DOMAIN preopens : /\ preopens[j].is_open /\ preopens[j].wasi_fd = fd
                                          /\ f = os[preopens[j].host].obj
      BY <1>0, <2>3, <3>1 DEF Numbers
    <3>2. CASE \E j \in DOMAIN fd_table : fd_table[j] # Closed /\ fd = fd_base + j - 1
      BY <1>0, <2>3, <3>2 DEF Numbers
    <3>3. QED BY <3>1, <3>2 DEF NowNames, Names
  <2>10. QED BY <2>7, <2>8, <2>9
<1>7. CASE p = {} /\ e # {}
  <2>1. PICK i \in e : TRUE BY <1>7
  <2>2. /\ i \in DOMAIN fd_table /\ fd_table[i] # Closed /\ fd = fd_base + i - 1 /\ i \in Nat
    BY <1>0, <1>1, <2>1
  <2>3. e = {i} BY <1>1, <2>1
  <2>4. r = {fd_table[i]} BY <1>3, <1>7, <2>3
  <2> HIDE DEF r, p, e
  <2>5. x = fd_table[i] /\ r # {} BY <2>4
  <2>6. os[fd_table[i].host] # Free
    BY <1>0, <1>5, <2>2 DEF SlotsKept, SlotHas, IsOf
  <2>7. /\ FileOf(fd) = os[fd_table[i].host].obj /\ FileOf(fd) \in Objects
    BY <1>2, <1>4, <1>5, <2>2, <2>5, <2>6
  <2>8. NowNames(fd, FileOf(fd)) BY <2>2, <2>7 DEF NowNames, Names
  <2>9. \A f : NowNames(fd, f) => f = os[fd_table[i].host].obj
    <3> SUFFICES ASSUME NEW f, NowNames(fd, f) PROVE f = os[fd_table[i].host].obj
      OBVIOUS
    <3>1. \A j \in DOMAIN preopens : ~(preopens[j].is_open /\ preopens[j].wasi_fd = fd)
      BY <1>1, <1>7
    <3>2. \A j \in DOMAIN fd_table : fd = fd_base + j - 1 => j = i
      BY <1>0, <2>2
    <3>3. QED BY <3>1, <3>2 DEF NowNames, Names
  <2>10. QED BY <2>7, <2>8, <2>9
<1>8. CASE p = {} /\ e = {}
  <2>1. r = {} BY <1>3, <1>8
  <2>2. FileOf(fd) = Free BY <1>2, <2>1
  <2>3. \A j \in DOMAIN preopens : ~(preopens[j].is_open /\ preopens[j].wasi_fd = fd)
    BY <1>1, <1>8
  <2>4. \A j \in DOMAIN fd_table : ~(fd_table[j] # Closed /\ fd = fd_base + j - 1)
    <3> SUFFICES ASSUME NEW j \in DOMAIN fd_table, fd_table[j] # Closed, fd = fd_base + j - 1
                 PROVE  FALSE
      OBVIOUS
    <3>0. j \in Nat /\ j >= 1 BY <1>0, CtxType
    <3>1. fd >= fd_base /\ j = fd - fd_base + 1 BY <1>0, <3>0
    <3>2. QED BY <1>1, <1>8, <3>1
  <2>5. QED BY <2>2, <2>3, <2>4 DEF NowNames, Names
<1>9. QED BY <1>6, <1>7, <1>8

LEMMA FileOfNow ==
    WasiInv => \A fd \in Nat : /\ FileOf(fd) \in Objects \cup {Free}
                               /\ \A f : NowNames(fd, f) => f \in Objects
                               /\ \A f \in Objects : FileOf(fd) = f <=> NowNames(fd, f)
<1>1. Free \notin Objects BY Basics
<1>2. QED BY <1>1, FileOfNames

LEMMA FileOfNext ==
    WasiInv' => (\A fd \in Nat : /\ FileOf(fd) \in Objects \cup {Free}
                                 /\ \A f : NowNames(fd, f) => f \in Objects
                                 /\ \A f \in Objects : FileOf(fd) = f <=> NowNames(fd, f))'
  BY FileOfNow, PTL

\* What the descriptors are afterwards, when gd then names what fd names now.
LEMMA FileKept ==
    ASSUME WasiInv, WasiInv', NEW fd \in Nat, NEW gd \in Nat,
           \A f \in Objects : NowNames(gd, f)' <=> NowNames(fd, f)
    PROVE  FileOf(gd)' = FileOf(fd)
<1>1. /\ FileOf(fd) \in Objects \cup {Free}
      /\ \A f \in Objects : FileOf(fd) = f <=> NowNames(fd, f)
  BY FileOfNow
<1>2. /\ FileOf(gd)' \in Objects \cup {Free}
      /\ \A f \in Objects : FileOf(gd)' = f <=> NowNames(gd, f)'
  BY FileOfNext
<1>3. QED BY <1>1, <1>2

LEMMA FileGone ==
    ASSUME WasiInv', NEW gd \in Nat, \A f \in Objects : ~NowNames(gd, f)'
    PROVE  FileOf(gd)' = Free
  BY FileOfNext

LEMMA FileSet ==
    ASSUME WasiInv', NEW gd \in Nat, NEW f, NowNames(gd, f)'
    PROVE  FileOf(gd)' = f
  BY FileOfNext

\* The same descriptors, by the context of a call.
NamedBy(c, fd, f) == Names(c.os, c.preopens, c.fd_table, fd_base, fd, f)

\* What a stream names does not change from o to n.
StreamsSame(o, n) == \A g \in 0 .. 2 : n[stdio_fds[g].host] = o[stdio_fds[g].host]

\* A change of one handle that no preopen and no slot keeps renames nothing.
LEMMA NamesSame ==
    ASSUME NEW c \in Context, NEW n, NEW k, ~Kept(c.preopens, c.fd_table, k),
           \A h \in Handles : h # k => n[h] = c.os[h], NEW b, NEW fd, NEW f
    PROVE  Names(n, c.preopens, c.fd_table, b, fd, f)
             <=> Names(c.os, c.preopens, c.fd_table, b, fd, f)
<1>1. \A i \in DOMAIN c.preopens : c.preopens[i].is_open =>
         n[c.preopens[i].host] = c.os[c.preopens[i].host]
  BY ContextFacts DEF Kept, PreopenHas
<1>2. \A j \in DOMAIN c.fd_table : c.fd_table[j] # Closed =>
         n[c.fd_table[j].host] = c.os[c.fd_table[j].host]
  BY ContextFacts DEF Kept, SlotHas
<1>3. QED BY <1>1, <1>2 DEF Names

\* A descriptor with neither names nothing.
LEMMA NoNames ==
    ASSUME NEW c \in Context, NEW fd \in Nat, fd_base \in Nat,
           preopenOf(c, fd) = {}, getFdEntry(c, fd) = {}
    PROVE  \A f : ~NamedBy(c, fd, f)
<1>1. \A i \in DOMAIN c.preopens : ~(c.preopens[i].is_open /\ c.preopens[i].wasi_fd = fd)
  BY DEF preopenOf
<1>2. ASSUME NEW j \in DOMAIN c.fd_table, c.fd_table[j] # Closed, fd = fd_base + j - 1
      PROVE  FALSE
  <2>0. j \in Nat /\ j >= 1 BY ContextFacts
  <2>1. fd >= fd_base /\ j = fd - fd_base + 1 BY <1>2, <2>0
  <2>2. QED BY <1>2, <2>1 DEF getFdEntry
<1>3. QED BY <1>1, <1>2 DEF NamedBy, Names

\* Closing a descriptor unnames it, and nothing else.
LEMMA CloseUnnames ==
    ASSUME NEW c \in Context, NEW fd \in Nat, fd_base \in Nat, NEW tmp, WasiTypeOK,
           HeldIn(c.os, c.preopens, c.fd_table, tmp),
           Numbers(c.preopens, c.fd_table, fd_base), phase = "run"
    PROVE  LET d == closeFd(c, fd)
           IN  /\ \A f : \A g \in Nat : NamedBy(d, g, f) <=> g # fd /\ NamedBy(c, g, f)
               /\ StreamsSame(c.os, d.os)
<1> DEFINE d == closeFd(c, fd)
           p == c.preopens
           t == c.fd_table
<1>0. /\ d \in Context
      /\ \/ \E i \in preopenOf(c, fd) : ClosesPreopen(c, d, i)
         \/ /\ preopenOf(c, fd) = {}
            /\ \E i \in getFdEntry(c, fd) : ClosesSlot(c, d, i)
         \/ preopenOf(c, fd) = {} /\ getFdEntry(c, fd) = {} /\ d = c
  BY CloseFdCases
<1>1. \A i \in preopenOf(c, fd) : i \in DOMAIN p /\ p[i].is_open /\ p[i].wasi_fd = fd
  BY DEF preopenOf
<1>2. \A i \in getFdEntry(c, fd) : i \in DOMAIN t /\ t[i] # Closed /\ fd = fd_base + i - 1
  BY ContextFacts DEF getFdEntry
<1>3. /\ c.os \in Table /\ DOMAIN p \subseteq Nat /\ DOMAIN t = 1 .. Len(t) /\ Len(t) \in Nat
      /\ \A i \in DOMAIN p : p[i].host \in Handles
      /\ \A i \in DOMAIN t : t[i] # Closed => t[i].host \in Handles
      /\ \A g \in 0 .. 2 : stdio_fds[g].host \in Handles
  BY ContextFacts, CtxType
<1>4. Apart(p, t) BY DEF HeldIn
<1>5. \A g \in 0 .. 2 : StreamHas(g, stdio_fds[g].host) BY DEF StreamHas
<1> HIDE DEF d
<1>6. ASSUME NEW i \in preopenOf(c, fd), ClosesPreopen(c, d, i)
      PROVE  /\ \A f : \A g \in Nat : NamedBy(d, g, f) <=> g # fd /\ NamedBy(c, g, f)
             /\ StreamsSame(c.os, d.os)
  <2> DEFINE k == p[i].host
  <2>1. i \in DOMAIN p /\ p[i].is_open /\ p[i].wasi_fd = fd /\ k \in Handles BY <1>1, <1>3
  <2>2. PreopenHas(p, i, k) BY <2>1 DEF PreopenHas
  <2>3. \A h \in Handles : h # k => d.os[h] = c.os[h]
    BY <1>3, <1>6, <2>1 DEF ClosesPreopen, Table
  <2>4. \A j \in DOMAIN p : p[j].is_open /\ j # i => d.os[p[j].host] = c.os[p[j].host]
    BY <1>3, <1>4, <2>1, <2>2, <2>3 DEF Apart, PreopenHas
  <2>5. \A j \in DOMAIN t : t[j] # Closed => d.os[t[j].host] = c.os[t[j].host]
    BY <1>3, <1>4, <2>1, <2>2, <2>3 DEF Apart, SlotHas
  <2>6. StreamsSame(c.os, d.os)
    BY <1>3, <1>4, <1>5, <2>1, <2>2, <2>3 DEF Apart, StreamsSame
  <2>7. \A j \in DOMAIN p : p[j].wasi_fd = fd => j = i BY <2>1 DEF Numbers
  <2>8. \A j \in DOMAIN t : t[j] # Closed => fd # fd_base + j - 1 BY <2>1 DEF Numbers
  <2>9. /\ d.fd_table = t /\ DOMAIN d.preopens = DOMAIN p
        /\ \A j \in DOMAIN p : /\ d.preopens[j].wasi_fd = p[j].wasi_fd
                               /\ d.preopens[j].host = p[j].host
                               /\ d.preopens[j].is_open <=> (p[j].is_open /\ j # i)
    BY <1>6 DEF ClosesPreopen
  <2> HIDE DEF p, t, k
  <2>10. ASSUME NEW g \in Nat, NEW f
         PROVE  Names(d.os, d.preopens, d.fd_table, fd_base, g, f)
                  <=> g # fd /\ Names(c.os, p, t, fd_base, g, f)
    BY <2>1, <2>4, <2>5, <2>7, <2>8, <2>9 DEF Names
  <2>11. QED BY <2>6, <2>10 DEF NamedBy, p, t
<1>7. ASSUME preopenOf(c, fd) = {}, NEW i \in getFdEntry(c, fd), ClosesSlot(c, d, i)
      PROVE  /\ \A f : \A g \in Nat : NamedBy(d, g, f) <=> g # fd /\ NamedBy(c, g, f)
             /\ StreamsSame(c.os, d.os)
  <2> DEFINE k == t[i].host
  <2>1. i \in DOMAIN t /\ t[i] # Closed /\ fd = fd_base + i - 1 /\ k \in Handles BY <1>2, <1>3
  <2>2. SlotHas(t, i, k) BY <2>1 DEF SlotHas
  <2>3. \A h \in Handles : h # k => d.os[h] = c.os[h]
    BY <1>3, <1>7, <2>1 DEF ClosesSlot, Table
  <2>4. \A j \in DOMAIN p : p[j].is_open => d.os[p[j].host] = c.os[p[j].host]
    BY <1>3, <1>4, <2>1, <2>2, <2>3 DEF Apart, PreopenHas
  <2>5. \A j \in DOMAIN t : t[j] # Closed /\ j # i => d.os[t[j].host] = c.os[t[j].host]
    BY <1>3, <1>4, <2>1, <2>2, <2>3 DEF Apart, SlotHas
  <2>6. StreamsSame(c.os, d.os)
    BY <1>3, <1>4, <1>5, <2>1, <2>2, <2>3 DEF Apart, StreamsSame
  <2>7. \A j \in DOMAIN p : p[j].is_open => p[j].wasi_fd # fd BY <2>1 DEF Numbers
  <2>8. \A j \in DOMAIN t : fd = fd_base + j - 1 => j = i BY <1>3, <2>1
  <2>9. /\ d.preopens = p /\ DOMAIN d.fd_table = DOMAIN t
        /\ \A j \in DOMAIN t : d.fd_table[j] = IF j = i THEN Closed ELSE t[j]
    BY <1>7 DEF ClosesSlot
  <2> HIDE DEF p, t, k
  <2>10. ASSUME NEW g \in Nat, NEW f
         PROVE  Names(d.os, d.preopens, d.fd_table, fd_base, g, f)
                  <=> g # fd /\ Names(c.os, p, t, fd_base, g, f)
    BY <2>1, <2>4, <2>5, <2>7, <2>8, <2>9 DEF Names
  <2>11. QED BY <2>6, <2>10 DEF NamedBy, p, t
<1>8. ASSUME preopenOf(c, fd) = {}, getFdEntry(c, fd) = {}, d = c
      PROVE  /\ \A f : \A g \in Nat : NamedBy(d, g, f) <=> g # fd /\ NamedBy(c, g, f)
             /\ StreamsSame(c.os, d.os)
  <2>1. \A f : ~NamedBy(c, fd, f) BY <1>8, NoNames
  <2>2. QED BY <1>8, <2>1 DEF StreamsSame
<1>9. QED BY <1>0, <1>6, <1>7, <1>8 DEF d

-----------------------------------------------------------------------------
\* The state of FdMap, by the refinement mapping.
MapFds == [fd \in AllFds |-> FileOf(fd)]
StreamFile(g) == IF phase = "done" /\ stdio_fds[g].ownership = "own"
                 THEN Free ELSE Named(stdio_fds[g].host)
MapStreams == [fd \in 0 .. 2 |-> StreamFile(fd)]

LEMMA FdsAreNat ==
    /\ AllFds \subseteq Nat /\ 0 .. 2 \subseteq AllFds
    /\ \A n \in Nat : n <= MaxPreopens + 2 + MaxTable => n \in AllFds
    /\ \A n \in AllFds : n <= MaxPreopens + 2 + MaxTable
  BY Basics DEF AllFds

\* The steps of FdMap, of the mapped state.
LEMMA GuestSame ==
    ASSUME MapFds' = MapFds, MapStreams' = MapStreams, (fd_base' # 0) <=> (fd_base # 0)
    PROVE  Guest!FdMapNext
  BY DEF Guest!FdMapNext, Guest!fdMapVars, MapFds, MapStreams, StreamFile

LEMMA GuestChange ==
    ASSUME \/ Guest!Opens(MapFds, MapFds')
           \/ Guest!Closes(MapFds, MapFds')
           \/ Guest!Renumbers(MapFds, MapFds')
           \/ Guest!RenumberFails(MapFds, MapFds'),
           MapStreams' = MapStreams, (fd_base' # 0) <=> (fd_base # 0)
    PROVE  Guest!FdMapNext
<1>1. MapFds = [fd \in AllFds |-> FileOf(fd)] BY DEF MapFds
<1>2. MapFds' = [fd \in AllFds |-> FileOf(fd)'] BY DEF MapFds
<1>3. MapStreams = [fd \in 0 .. 2 |-> IF phase = "done" /\ stdio_fds[fd].ownership = "own"
                                      THEN Free ELSE Named(stdio_fds[fd].host)]
  BY DEF MapStreams, StreamFile
<1>4. QED BY <1>1, <1>2, <1>3 DEF Guest!FdMapNext, MapFds, MapStreams, StreamFile

\* The embedding program's handles are none of the guest's.
LEMMA HostMaps ==
    ASSUME WasiInv, WasiInv', HostOpens \/ \E h \in Handles : HostCloses(h)
    PROVE  Guest!FdMapNext
<1>0. /\ UNCHANGED <<preopens, fd_table, fd_base, stdio_fds, next_fd, phase>>
      /\ os \in Table /\ HeldIn(os, preopens, fd_table, {}) /\ WasiTypeOK
      /\ Ctx \in Context /\ Ctx.os = os /\ Ctx.preopens = preopens /\ Ctx.fd_table = fd_table
      /\ \A g \in 0 .. 2 : stdio_fds[g].host \in Handles
      /\ \A g \in 0 .. 2 : stdio_fds[g].ownership \in {"own", "borrow"}
  BY CtxType DEF WasiInv, HostOpens, HostCloses
<1>1. \E k \in Handles : /\ ~Kept(preopens, fd_table, k)
                         /\ \A h \in Handles : h # k => os'[h] = os[h]
  <2>1. CASE HostOpens
    <3>1. FreeHandles(os) # {} BY <2>1 DEF HostOpens
    <3>2. ~Kept(preopens, fd_table, Lowest(FreeHandles(os)))
      BY <1>0, <3>1, LowestFree, FreeNotKept
    <3>3. QED BY <1>0, <2>1, <3>1, <3>2, LowestFree DEF HostOpens, WithHandle, Table
  <2>2. ASSUME NEW h \in Handles, HostCloses(h)
        PROVE  \E k \in Handles : /\ ~Kept(preopens, fd_table, k)
                                  /\ \A j \in Handles : j # k => os'[j] = os[j]
    <3>1. IsOf(os, h, "host") /\ h \notin Lent BY <2>2 DEF HostCloses, IsOf
    <3>2. ~Kept(preopens, fd_table, h) BY <3>1, NotLent
    <3>3. QED BY <1>0, <2>2, <3>2 DEF HostCloses, pfdClose, Table
  <2>3. QED BY <2>1, <2>2
<1>2. PICK k \in Handles : /\ ~Kept(preopens, fd_table, k)
                           /\ \A h \in Handles : h # k => os'[h] = os[h]
  BY <1>1
<1>3. \A fd \in Nat, f \in Objects : NowNames(fd, f)' <=> NowNames(fd, f)
  <2>1. \A fd, f : NowNames(fd, f)' <=> Names(os', preopens, fd_table, fd_base, fd, f)
    BY <1>0 DEF NowNames, Names
  <2>2. \A fd, f : Names(os', preopens, fd_table, fd_base, fd, f) <=> NowNames(fd, f)
    BY <1>0, <1>2, NamesSame DEF NowNames
  <2>3. QED BY <2>1, <2>2
<1>4. \A fd \in Nat : FileOf(fd)' = FileOf(fd) BY <1>3, FileKept
<1>5. MapFds' = MapFds BY <1>4, FdsAreNat DEF MapFds
<1>6. ASSUME NEW g \in 0 .. 2 PROVE StreamFile(g)' = StreamFile(g)
  <2>1. CASE phase = "done" /\ stdio_fds[g].ownership = "own"
    BY <1>0, <2>1 DEF StreamFile
  <2>2. CASE ~(phase = "done" /\ stdio_fds[g].ownership = "own")
    <3>1. StreamHas(g, stdio_fds[g].host) BY <1>0, <2>2 DEF StreamHas
    <3>2. stdio_fds[g].host # k BY <1>2, <3>1 DEF Kept
    <3>3. os'[stdio_fds[g].host] = os[stdio_fds[g].host] BY <1>0, <1>2, <3>2
    <3>4. QED BY <1>0, <3>3 DEF StreamFile, Named
  <2>3. QED BY <2>1, <2>2
<1>7. MapStreams' = MapStreams BY <1>6 DEF MapStreams
<1>8. QED BY <1>0, <1>5, <1>7, GuestSame

\* A preopen is added: its number names its file from here on.
LEMMA AddPreopenMaps ==
    ASSUME WasiInv, WasiInv', NEW e \in Preopen, phase = "load", e.wasi_fd = next_fd, e.is_open,
           next_fd < 3 + MaxPreopens, preopens' = Append(preopens, e),
           ~Kept(preopens, fd_table, e.host),
           \A h \in Handles : h # e.host => os'[h] = os[h],
           UNCHANGED <<fd_table, fd_base, stdio_fds, phase>>
    PROVE  Guest!FdMapNext
<1> DEFINE k == Len(preopens) + 1
<1>0. /\ os \in Table /\ WasiTypeOK /\ LoadOrder
      /\ Ctx \in Context /\ Ctx.os = os /\ Ctx.preopens = preopens /\ Ctx.fd_table = fd_table
      /\ \A g \in 0 .. 2 : stdio_fds[g].host \in Handles
      /\ DOMAIN preopens = 1 .. Len(preopens) /\ Len(preopens) \in Nat
      /\ preopens \in Seq(Preopen) /\ MaxPreopens \in Nat /\ MaxTable \in Nat
      /\ next_fd \in Nat
  BY CtxType, Basics DEF WasiInv
<1>1. /\ DOMAIN preopens' = DOMAIN preopens \cup {k} /\ k \notin DOMAIN preopens
      /\ preopens'[k] = e /\ \A i \in DOMAIN preopens : preopens'[i] = preopens[i]
  BY <1>0
<1>a. PICK v \in Nat : v = next_fd BY <1>0
<1>b. PICK f : f = os'[e.host].obj OBVIOUS
<1>2. \A g, x : Names(os', preopens, fd_table, fd_base, g, x) <=> NowNames(g, x)
  BY <1>0, NamesSame DEF NowNames
<1>3. \A x : \A g \in Nat : NowNames(g, x)' <=> \/ NowNames(g, x)
                                                \/ g = v /\ x = f
  <2>1. \A g, x : NowNames(g, x)' <=> Names(os', preopens', fd_table, fd_base, g, x)
    BY DEF NowNames, Names
  <2>2. \A g, x : Names(os', preopens', fd_table, fd_base, g, x) <=>
                    \/ Names(os', preopens, fd_table, fd_base, g, x)
                    \/ g = v /\ x = f
    BY <1>1, <1>a, <1>b DEF Names
  <2>3. QED BY <1>2, <2>1, <2>2
<1>4. \A x : ~NowNames(v, x)
  <2>1. fd_table = <<>> BY <1>0 DEF LoadOrder
  <2>2. DOMAIN fd_table = {} BY <2>1
  <2>3. \A i \in DOMAIN preopens : preopens[i].wasi_fd # v
    <3> TAKE i \in DOMAIN preopens
    <3>1. preopens[i].wasi_fd \in Nat BY <1>0, ContextFacts
    <3>2. preopens[i].wasi_fd < v BY <1>0, <1>a DEF LoadOrder
    <3>3. QED BY <1>0, <3>1, <3>2
  <2>4. QED BY <2>2, <2>3 DEF NowNames, Names
<1>5. NowNames(v, f)' BY <1>3
<1>6. f \in Objects /\ FileOf(v)' = f
  BY <1>0, <1>5, FileOfNext, FileSet
<1>7. FileOf(v) = Free BY <1>0, <1>4, FileOfNow
<1>8. \A g \in Nat : g # v => FileOf(g)' = FileOf(g)
  BY <1>3, FileKept
<1>9. v \in AllFds BY <1>0, <1>a, FdsAreNat
<1>10. Guest!Opens(MapFds, MapFds')
  <2>1. MapFds' = [MapFds EXCEPT ![v] = f]
    BY <1>6, <1>8, <1>9, FdsAreNat DEF MapFds
  <2>2. MapFds[v] = Free BY <1>7, <1>9 DEF MapFds
  <2>3. QED BY <1>6, <1>9, <2>1, <2>2 DEF Guest!Opens
<1>11. MapStreams' = MapStreams
  <2> SUFFICES ASSUME NEW g \in 0 .. 2 PROVE StreamFile(g)' = StreamFile(g)
    BY DEF MapStreams
  <2>1. StreamHas(g, stdio_fds[g].host) BY DEF StreamHas
  <2>2. stdio_fds[g].host # e.host BY <2>1 DEF Kept
  <2>3. QED BY <1>0, <2>2 DEF StreamFile, Named
<1>12. QED BY <1>10, <1>11, GuestChange

LEMMA AddPreopenPathMaps ==
    ASSUME WasiInv, WasiInv', NEW d \in Dirs, addPreopenPath(d)
    PROVE  Guest!FdMapNext
<1> DEFINE h == Lowest(FreeHandles(os))
           e == [wasi_fd |-> next_fd, host |-> h, kind |-> "dir",
                 ownership |-> "own", is_open |-> TRUE]
<1>0. /\ phase = "load" /\ next_fd < 3 + MaxPreopens
      /\ UNCHANGED <<fd_table, fd_base, stdio_fds, phase>>
  BY DEF addPreopenPath
<1>1. /\ os \in Table /\ next_fd \in 3 .. MaxPreopens + 3 /\ MaxPreopens \in Nat
      /\ HeldIn(os, preopens, fd_table, {})
  BY CtxType, Basics DEF WasiInv, WasiTypeOK
<1>2. CASE UNCHANGED <<os, preopens>>
  <2>1. MapFds' = MapFds /\ MapStreams' = MapStreams
    BY <1>0, <1>2 DEF MapFds, MapStreams, StreamFile, Named, FileOf, getHostHandle, Ctx,
                      preopenOf, getFdEntry
  <2>2. QED BY <1>0, <2>1, GuestSame
<1>3. CASE /\ FreeHandles(os) # {} /\ os' = WithHandle(os, h, Held(d, "runtime"))
           /\ preopens' = Append(preopens, e)
  <2>1. h \in Handles /\ os[h] = Free BY <1>3, LowestFree
  <2>2. ~Kept(preopens, fd_table, h) BY <1>1, <2>1, FreeNotKept
  <2>3. \A j \in Handles : j # h => os'[j] = os[j] BY <1>1, <1>3, <2>1 DEF WithHandle, Table
  <2> HIDE DEF h
  <2>4. e \in Preopen /\ e.wasi_fd = next_fd /\ e.is_open /\ e.host = h
    BY <1>0, <1>1, <2>1 DEF Preopen, Kinds
  <2> HIDE DEF e
  <2>5. QED BY <1>0, <1>3, <2>2, <2>3, <2>4, AddPreopenMaps
<1>4. QED BY <1>2, <1>3 DEF addPreopenPath

LEMMA AddPreopenFdMaps ==
    ASSUME WasiInv, WasiInv', NEW h \in Handles, NEW own \in {"own", "borrow"},
           addPreopenFd(h, own)
    PROVE  Guest!FdMapNext
<1> DEFINE e == [wasi_fd |-> next_fd, host |-> h, kind |-> KindOf(os[h].obj),
                 ownership |-> own, is_open |-> TRUE]
<1>0. /\ phase = "load" /\ next_fd < 3 + MaxPreopens
      /\ UNCHANGED <<fd_table, fd_base, stdio_fds, phase>> /\ Passable(h)
      /\ os' = WithHandle(os, h, PassedAs(h, own)) /\ preopens' = Append(preopens, e)
  BY DEF addPreopenFd
<1>1. next_fd \in 3 .. MaxPreopens + 3 /\ MaxPreopens \in Nat
  BY Basics DEF WasiInv, WasiTypeOK
<1>2. ~Kept(preopens, fd_table, h) /\ \A j \in Handles : j # h => os'[j] = os[j]
  BY <1>0, PassedFacts
<1>3. e \in Preopen /\ e.wasi_fd = next_fd /\ e.is_open /\ e.host = h
  BY <1>0, <1>1 DEF Preopen, Kinds, KindOf
<1> HIDE DEF e
<1>4. QED BY <1>0, <1>2, <1>3, AddPreopenMaps

\* One of the streams is replaced; the handle it had is nobody else's.
LEMMA SetStdioMaps ==
    ASSUME WasiInv, WasiInv', NEW fd \in 0 .. 2, NEW h \in Handles, NEW own \in {"own", "borrow"},
           setStdioFd(fd, h, own)
    PROVE  Guest!FdMapNext
<1> DEFINE prev == stdio_fds[fd]
           kept == WithHandle(os, h, PassedAs(h, own))
           f == os[h].obj
<1>0. /\ phase = "load" /\ Passable(h)
      /\ UNCHANGED <<preopens, fd_table, fd_base, next_fd, phase>>
      /\ stdio_fds' = [stdio_fds EXCEPT ![fd] = [host |-> h, ownership |-> own]]
      /\ os' = IF prev.ownership = "own" THEN [kept EXCEPT ![prev.host] = Free] ELSE kept
  BY DEF setStdioFd, pfdClose
<1>1. /\ WasiTypeOK /\ os \in Table
      /\ stdio_fds \in [0 .. 2 -> [host : Handles, ownership : {"own", "borrow"}]]
      /\ Apart(preopens, fd_table)
      /\ Ctx \in Context /\ Ctx.os = os /\ Ctx.preopens = preopens /\ Ctx.fd_table = fd_table
  BY CtxType DEF WasiInv, HeldIn
<1>2. /\ ~Kept(preopens, fd_table, h) /\ IsOf(os, h, "host") /\ kept \in Table
      /\ os[h].obj \in Objects
      /\ \A k \in Handles : k # h => kept[k] = os[k]
  BY <1>0, PassedFacts
<1>3. kept[h] # Free /\ kept[h].obj = os[h].obj
  BY <1>1, <1>2, Basics DEF WithHandle, PassedAs, Table, IsOf
<1> HIDE DEF kept
<1>4. /\ prev.host \in Handles /\ StreamHas(fd, prev.host) /\ prev.host # h
  BY <1>0, <1>1, <1>2 DEF StreamHas, Kept
<1>5. /\ \A k \in Handles : k # h /\ k # prev.host => os'[k] = os[k]
      /\ os'[h] # Free /\ os'[h].obj = f
  BY <1>0, <1>2, <1>3, <1>4 DEF Table
<1>6. /\ \A i \in DOMAIN preopens : preopens[i].is_open =>
            os'[preopens[i].host] = os[preopens[i].host]
      /\ \A j \in DOMAIN fd_table : fd_table[j] # Closed =>
            os'[fd_table[j].host] = os[fd_table[j].host]
  <2>1. ASSUME NEW i \in DOMAIN preopens, preopens[i].is_open
        PROVE  os'[preopens[i].host] = os[preopens[i].host]
    <3>1. preopens[i].host \in Handles BY <1>1, ContextFacts
    <3>2. PreopenHas(preopens, i, preopens[i].host) BY <2>1 DEF PreopenHas
    <3>3. QED BY <1>1, <1>2, <1>4, <1>5, <3>1, <3>2 DEF Kept, Apart
  <2>2. ASSUME NEW j \in DOMAIN fd_table, fd_table[j] # Closed
        PROVE  os'[fd_table[j].host] = os[fd_table[j].host]
    <3>1. fd_table[j].host \in Handles BY <1>1, <2>2, ContextFacts
    <3>2. SlotHas(fd_table, j, fd_table[j].host) BY <2>2 DEF SlotHas
    <3>3. QED BY <1>1, <1>2, <1>4, <1>5, <3>1, <3>2 DEF Kept, Apart
  <2>3. QED BY <2>1, <2>2
<1>7. \A g \in Nat, x \in Objects : NowNames(g, x)' <=> NowNames(g, x)
  BY <1>0, <1>6 DEF NowNames, Names
<1>8. \A g \in Nat : FileOf(g)' = FileOf(g) BY <1>7, FileKept
<1>9. MapFds' = MapFds BY <1>8, FdsAreNat DEF MapFds
<1>10. ASSUME NEW g \in 0 .. 2, g # fd PROVE StreamFile(g)' = StreamFile(g)
  <2>1. StreamHas(g, stdio_fds[g].host) /\ stdio_fds[g].host \in Handles
    BY <1>0, <1>1 DEF StreamHas
  <2>2. stdio_fds[g].host # h /\ stdio_fds[g].host # prev.host
    BY <1>1, <1>2, <1>4, <1>10, <2>1 DEF Kept, Apart
  <2>3. stdio_fds'[g] = stdio_fds[g] BY <1>0, <1>1, <1>10
  <2>4. QED BY <1>0, <1>5, <2>1, <2>2, <2>3 DEF StreamFile, Named
<1>11. StreamFile(fd)' = f
  <2>1. stdio_fds'[fd].host = h BY <1>0, <1>1
  <2>2. QED BY <1>0, <1>5, <2>1 DEF StreamFile, Named
<1>12. MapStreams' = [MapStreams EXCEPT ![fd] = f]
  BY <1>10, <1>11 DEF MapStreams
<1>13. QED
  <2>1. f \in Objects /\ fd_base' = fd_base BY <1>0, <1>2
  <2> HIDE DEF f
  <2>2. QED BY <1>9, <1>12, <2>1 DEF Guest!FdMapNext, MapFds, MapStreams, StreamFile

LEMMA LoadedMaps ==
    ASSUME Loaded
    PROVE  Guest!FdMapNext
<1>1. /\ phase = "load" /\ phase' = "run"
      /\ UNCHANGED <<os, preopens, fd_table, fd_base, stdio_fds, next_fd>>
  BY DEF Loaded
<1>2. MapFds' = MapFds /\ MapStreams' = MapStreams
  BY <1>1 DEF MapFds, MapStreams, StreamFile, Named, FileOf, getHostHandle, Ctx,
              preopenOf, getFdEntry
<1>3. QED BY <1>1, <1>2, GuestSame

\* The module goes: its descriptors name nothing, and neither do the streams
\* it owned.
LEMMA DeinitMaps ==
    ASSUME WasiInv, WasiInv', deinit
    PROVE  Guest!FdMapNext
<1>0. /\ phase # "done" /\ phase' = "done" /\ preopens' = <<>> /\ fd_table' = <<>>
      /\ UNCHANGED <<fd_base, stdio_fds, next_fd>>
      /\ os' = [h \in Handles |-> IF h \in Gone THEN Free ELSE os[h]]
  BY DEF deinit, Gone
<1>1. /\ os \in Table /\ WasiTypeOK /\ StreamsKept(os)
      /\ stdio_fds \in [0 .. 2 -> [host : Handles, ownership : {"own", "borrow"}]]
  BY CtxType DEF WasiInv, HeldIn
<1>2. DOMAIN preopens' = {} /\ DOMAIN fd_table' = {} BY <1>0
<1>3. \A g \in Nat : FileOf(g)' = Free BY <1>2, FileGone DEF NowNames, Names
<1>4. MapFds' = [fd \in AllFds |-> Free] BY <1>3, FdsAreNat DEF MapFds
<1>5. ASSUME NEW g \in 0 .. 2
      PROVE  StreamFile(g)' \in {StreamFile(g), Free} /\ StreamFile(g)' \in Objects \cup {Free}
  <2> DEFINE h == stdio_fds[g].host
  <2>1. CASE stdio_fds[g].ownership = "own" BY <1>0, <2>1 DEF StreamFile
  <2>2. CASE stdio_fds[g].ownership = "borrow"
    <3>1. StreamHas(g, h) /\ h \in Handles BY <1>1, <2>2 DEF StreamHas
    <3>2. IsOf(os, h, "host") BY <1>1, <2>2, <3>1 DEF StreamsKept, By
    <3>3. h \notin Gone BY <1>0, <3>1, <3>2, GoneIsRuntimes DEF IsOf
    <3>4. os'[h] = os[h] BY <1>0, <3>1, <3>3
    <3>5. os[h].obj \in Objects /\ os[h] # Free BY <1>1, <3>1, <3>2 DEF Table, Handle, IsOf
    <3>6. QED BY <1>0, <2>2, <3>4, <3>5 DEF StreamFile, Named
  <2>3. QED BY <1>1, <2>1, <2>2
<1>6. /\ MapStreams' \in [0 .. 2 -> Objects \cup {Free}]
      /\ \A g \in 0 .. 2 : MapStreams'[g] \in {MapStreams[g], Free}
  BY <1>5 DEF MapStreams
<1>7. QED BY <1>0, <1>4, <1>6 DEF Guest!FdMapNext, MapFds, MapStreams, StreamFile

\* A call of the guest's that makes the context d.
LEMMA CallMaps ==
    ASSUME WasiInv, phase = "run", NEW d, Become(d), StreamsSame(os, d.os),
           UNCHANGED <<fd_base, stdio_fds, phase>>
    PROVE  /\ \A x : \A g \in Nat : NowNames(g, x)' <=> NamedBy(d, g, x)
           /\ MapStreams' = MapStreams
<1>1. \A x : \A g \in Nat : NowNames(g, x)' <=> NamedBy(d, g, x)
  BY DEF NowNames, NamedBy, Names, Become
<1>2. \A g \in 0 .. 2 : StreamFile(g)' = StreamFile(g)
  BY DEF StreamFile, Named, StreamsSame, Become
<1>3. QED BY <1>1, <1>2 DEF MapStreams

\* A descriptor, and no other, names nothing any more.
LEMMA CloseMaps ==
    ASSUME WasiInv, WasiInv', NEW fd \in Nat, phase = "run", Become(closeFd(Ctx, fd)),
           UNCHANGED <<fd_base, stdio_fds, next_fd, phase>>
    PROVE  Guest!FdMapNext
<1> DEFINE d == closeFd(Ctx, fd)
<1>0. /\ Ctx \in Context /\ CtxInv(Ctx) /\ fd_base \in Nat /\ WasiTypeOK
      /\ Ctx.os = os /\ Ctx.preopens = preopens /\ Ctx.fd_table = fd_table
  BY InvCtx, CtxType
<1>1. /\ \A x : \A g \in Nat : NamedBy(d, g, x) <=> g # fd /\ NowNames(g, x)
      /\ StreamsSame(os, d.os)
  BY <1>0, CloseUnnames DEF CtxInv, NamedBy, NowNames
<1> HIDE DEF d
<1>2. /\ \A x : \A g \in Nat : NowNames(g, x)' <=> g # fd /\ NowNames(g, x)
      /\ MapStreams' = MapStreams
  BY <1>1, CallMaps DEF d
<1>3. FileOf(fd)' = Free BY <1>2, FileGone
<1>4. \A g \in Nat : g # fd => FileOf(g)' = FileOf(g) BY <1>2, FileKept
<1>5. CASE fd \in AllFds
  <2>1. MapFds' = [MapFds EXCEPT ![fd] = Free]
    BY <1>3, <1>4, <1>5, FdsAreNat DEF MapFds
  <2>2. Guest!Closes(MapFds, MapFds') BY <1>5, <2>1 DEF Guest!Closes
  <2>3. QED BY <1>2, <2>2, GuestChange
<1>6. CASE fd \notin AllFds
  <2>1. MapFds' = MapFds BY <1>4, <1>6, FdsAreNat DEF MapFds
  <2>2. QED BY <1>2, <2>1, GuestSame
<1>7. QED BY <1>5, <1>6

\* The number of a descriptor that names something is one of AllFds.
LEMMA NamedInRange ==
    ASSUME WasiInv, NEW fd \in Nat, NEW f, NowNames(fd, f)
    PROVE  fd \in AllFds
<1>0. /\ WasiTypeOK /\ preopens \in Seq(Preopen) /\ DOMAIN preopens = 1 .. Len(preopens)
      /\ MaxPreopens \in Nat /\ MaxTable \in Nat /\ fd_base \in {0} \cup 3 .. MaxPreopens + 3
      /\ DOMAIN fd_table = 1 .. Len(fd_table) /\ Len(fd_table) \in Nat
      /\ Len(fd_table) <= MaxTable
  BY CtxType, Basics DEF WasiInv, WasiTypeOK
<1>1. ASSUME NEW i \in DOMAIN preopens, preopens[i].wasi_fd = fd PROVE fd \in AllFds
  <2>1. preopens[i] \in Preopen BY <1>0
  <2>2. fd <= MaxPreopens + 2 BY <1>0, <1>1, <2>1 DEF Preopen
  <2>3. QED BY <1>0, <2>2, FdsAreNat
<1>2. ASSUME NEW j \in DOMAIN fd_table, fd = fd_base + j - 1 PROVE fd \in AllFds
  <2>1. fd <= MaxPreopens + 2 + MaxTable BY <1>0, <1>2
  <2>2. QED BY <2>1, FdsAreNat
<1>3. QED BY <1>1, <1>2 DEF NowNames, Names

\* The place where the handle of a descriptor comes from.
LEMMA HandleOf ==
    ASSUME WasiInv, NEW fd \in Nat, fd \notin 0 .. 2, NEW h \in getHostFd(Ctx, fd)
    PROVE  /\ \/ \E i \in preopenOf(Ctx, fd) : preopens[i].host = h
              \/ /\ preopenOf(Ctx, fd) = {}
                 /\ \E i \in getFdEntry(Ctx, fd) : fd_table[i].host = h
           /\ NowNames(fd, os[h].obj)
<1>0. /\ Ctx \in Context /\ Ctx.os = os /\ Ctx.preopens = preopens /\ Ctx.fd_table = fd_table
      /\ fd_base \in Nat /\ DOMAIN preopens \subseteq Nat /\ DOMAIN fd_table \subseteq Nat
  BY CtxType DEF WasiInv
<1>1. PICK e \in getHostHandle(Ctx, fd) : h = e.host BY DEF getHostFd
<1>2. CASE preopenOf(Ctx, fd) # {}
  <2> DEFINE i == Lowest(preopenOf(Ctx, fd))
  <2>1. preopenOf(Ctx, fd) \subseteq Nat BY <1>0 DEF preopenOf
  <2>2. i \in preopenOf(Ctx, fd) BY <1>2, <2>1, LowestIn
  <2>3. e.host = preopens[i].host BY <1>0, <1>1, <1>2 DEF getHostHandle
  <2> HIDE DEF i
  <2>4. i \in DOMAIN preopens /\ preopens[i].is_open /\ preopens[i].wasi_fd = fd
    BY <1>0, <2>2 DEF preopenOf
  <2>5. QED BY <1>1, <2>2, <2>3, <2>4 DEF NowNames, Names
<1>3. CASE preopenOf(Ctx, fd) = {}
  <2>1. PICK i \in getFdEntry(Ctx, fd) : e = fd_table[i]
    BY <1>0, <1>1, <1>3 DEF getHostHandle
  <2>2. i \in DOMAIN fd_table /\ fd_table[i] # Closed /\ fd = fd_base + i - 1
    BY <1>0, <2>1 DEF getFdEntry
  <2>3. QED BY <1>1, <1>3, <2>1, <2>2 DEF NowNames, Names
<1>4. QED BY <1>2, <1>3

\* Closing frees the handle of the descriptor, and changes no other.
LEMMA CloseHandle ==
    ASSUME WasiInv, NEW fd \in Nat, NEW h \in Handles
    PROVE  LET d == closeFd(Ctx, fd)
           IN  /\ d.os[h] = os[h] \/ d.os[h] = Free
               /\ fd \notin 0 .. 2 /\ h \in getHostFd(Ctx, fd) => d.os[h] = Free
<1> DEFINE d == closeFd(Ctx, fd)
           p == preopenOf(Ctx, fd)
           e == getFdEntry(Ctx, fd)
<1>0. /\ Ctx \in Context /\ Ctx.os = os /\ Ctx.preopens = preopens /\ Ctx.fd_table = fd_table
      /\ fd_base \in Nat /\ os \in Table /\ Numbers(preopens, fd_table, fd_base)
      /\ DOMAIN fd_table \subseteq Nat
  BY CtxType DEF WasiInv
<1>1. \/ \E i \in p : ClosesPreopen(Ctx, d, i)
      \/ p = {} /\ \E i \in e : ClosesSlot(Ctx, d, i)
      \/ p = {} /\ e = {} /\ d = Ctx
  BY <1>0, CloseFdCases
<1>2. /\ \A i, j \in p : i = j
      /\ \A i, j \in e : i = j
  BY <1>0 DEF preopenOf, getFdEntry, Numbers
<1>3. ASSUME fd \notin 0 .. 2, h \in getHostFd(Ctx, fd)
      PROVE  \/ \E i \in p : preopens[i].host = h
             \/ p = {} /\ \E i \in e : fd_table[i].host = h
  BY <1>3, HandleOf
<1> HIDE DEF d, p, e
<1>4. ASSUME NEW i \in p, ClosesPreopen(Ctx, d, i)
      PROVE  /\ d.os[h] = os[h] \/ d.os[h] = Free
             /\ fd \notin 0 .. 2 /\ h \in getHostFd(Ctx, fd) => d.os[h] = Free
  <2>1. d.os = [os EXCEPT ![preopens[i].host] = Free] BY <1>0, <1>4 DEF ClosesPreopen
  <2>2. QED BY <1>0, <1>2, <1>3, <1>4, <2>1 DEF Table
<1>5. ASSUME p = {}, NEW i \in e, ClosesSlot(Ctx, d, i)
      PROVE  /\ d.os[h] = os[h] \/ d.os[h] = Free
             /\ fd \notin 0 .. 2 /\ h \in getHostFd(Ctx, fd) => d.os[h] = Free
  <2>1. d.os = [os EXCEPT ![fd_table[i].host] = Free] BY <1>0, <1>5 DEF ClosesSlot
  <2>2. QED BY <1>0, <1>2, <1>3, <1>5, <2>1 DEF Table
<1>6. QED BY <1>0, <1>1, <1>3, <1>4, <1>5 DEF d

\* The duplicate takes the place of to, or is closed again.
LEMMA AssignNames ==
    ASSUME NEW c \in Context, NEW new \in Handles, NEW to \in Nat, fd_base \in Nat,
           to - fd_base < MaxTable, Len(c.fd_table) <= MaxTable,
           getFdEntry(c, to) = {}, ~Kept(c.preopens, c.fd_table, new), \A x : ~NamedBy(c, to, x),
           NEW d \in Assign(c, new, to)
    PROVE  /\ \/ \A x : \A g \in Nat : NamedBy(d, g, x) <=> \/ g = to /\ x = c.os[new].obj
                                                            \/ g # to /\ NamedBy(c, g, x)
              \/ \A x : \A g \in Nat : NamedBy(d, g, x) <=> g # to /\ NamedBy(c, g, x)
           /\ \A h \in Handles : h # new => d.os[h] = c.os[h]
<1> DEFINE i == to - fd_base + 1
           t == c.fd_table
           u == d.fd_table
<1>1. /\ d.preopens = c.preopens
      /\ \/ /\ d.os = c.os /\ to >= fd_base
            /\ Fills(c.fd_table, d.fd_table, to - fd_base + 1, new)
         \/ /\ d.os = [c.os EXCEPT ![new] = Free]
            /\ Grows(c.fd_table, d.fd_table)
  <2>1. /\ d \in Context /\ d.preopens = c.preopens /\ Len(d.fd_table) <= MaxTable
        /\ \/ /\ d.os = c.os /\ to >= fd_base
              /\ Fills(c.fd_table, d.fd_table, to - fd_base + 1, new)
           \/ /\ d.os = [c.os EXCEPT ![new] = Free]
              /\ Grows(c.fd_table, d.fd_table)
    BY AssignCases
  <2>2. QED BY <2>1
<1>2. c.os \in Table /\ DOMAIN t \subseteq Nat BY ContextFacts
<1>3. CASE d.os = c.os /\ to >= fd_base /\ Fills(c.fd_table, d.fd_table, i, new)
  <2>1. /\ DOMAIN t \subseteq DOMAIN u /\ i \in DOMAIN u /\ u[i] # Closed /\ u[i].host = new
        /\ i \in DOMAIN t => t[i] = Closed
        /\ \A j \in DOMAIN u : j # i /\ u[j] # Closed => j \in DOMAIN t /\ u[j] = t[j]
        /\ \A j \in DOMAIN t : j # i => u[j] = t[j]
    BY <1>3 DEF Fills
  <2>2. to = fd_base + i - 1 /\ \A j \in DOMAIN t : to = fd_base + j - 1 => j = i
    BY <1>2
  <2> HIDE DEF i, t, u
  <2>3. \A x : \A g \in Nat : Names(d.os, d.preopens, u, fd_base, g, x) <=>
           \/ g = to /\ x = c.os[new].obj
           \/ Names(c.os, c.preopens, t, fd_base, g, x)
    BY <1>1, <1>3, <2>1, <2>2 DEF Names
  <2>4. \A x : \A g \in Nat : NamedBy(d, g, x) <=> \/ g = to /\ x = c.os[new].obj
                                                   \/ NamedBy(c, g, x)
    BY <2>3 DEF NamedBy, t, u
  <2>5. \A x : \A g \in Nat : NamedBy(d, g, x) <=> \/ g = to /\ x = c.os[new].obj
                                                   \/ g # to /\ NamedBy(c, g, x)
    BY <2>4
  <2>6. QED BY <1>3, <2>5
<1>4. CASE d.os = [c.os EXCEPT ![new] = Free] /\ Grows(c.fd_table, d.fd_table)
  <2>1. \A h \in Handles : h # new => d.os[h] = c.os[h] BY <1>2, <1>4 DEF Table
  <2>2. \A g, x : Names(d.os, c.preopens, t, fd_base, g, x)
                    <=> Names(c.os, c.preopens, t, fd_base, g, x)
    BY <2>1, NamesSame
  <2>3. \A g, x : Names(d.os, c.preopens, u, fd_base, g, x)
                    <=> Names(d.os, c.preopens, t, fd_base, g, x)
    BY <1>4 DEF Names, Grows
  <2>4. \A x : \A g \in Nat : NamedBy(d, g, x) <=> NamedBy(c, g, x)
    BY <1>1, <2>2, <2>3 DEF NamedBy
  <2>5. QED BY <2>1, <2>4
<1>5. QED BY <1>1, <1>3, <1>4

\* Closing leaves alone a handle that no preopen and no slot keeps.
LEMMA CloseOther ==
    ASSUME NEW c \in Context, NEW fd \in Nat, fd_base \in Nat, NEW h \in Handles,
           ~Kept(c.preopens, c.fd_table, h)
    PROVE  closeFd(c, fd).os[h] = c.os[h]
<1> DEFINE d == closeFd(c, fd)
<1>1. \/ \E i : ClosesPreopen(c, d, i)
      \/ \E i : ClosesSlot(c, d, i)
      \/ d = c
  BY CloseFdCases
<1>2. c.os \in Table BY ContextFacts
<1> HIDE DEF d
<1>3. ASSUME NEW i, ClosesPreopen(c, d, i) PROVE d.os[h] = c.os[h]
  <2>1. h # c.preopens[i].host BY <1>3 DEF ClosesPreopen, Kept, PreopenHas
  <2>2. QED BY <1>2, <1>3, <2>1 DEF ClosesPreopen, Table
<1>4. ASSUME NEW i, ClosesSlot(c, d, i) PROVE d.os[h] = c.os[h]
  <2>1. h # c.fd_table[i].host BY <1>4 DEF ClosesSlot, Kept, SlotHas
  <2>2. QED BY <1>2, <1>4, <2>1 DEF ClosesSlot, Table
<1>5. QED BY <1>1, <1>3, <1>4 DEF d

\* The whole of fd_renumber, once the duplicate has been made.
LEMMA RenumberNames ==
    ASSUME WasiInv, phase = "run", NEW from \in Nat, NEW to \in Nat, to - fd_base < MaxTable,
           NEW f \in Objects, NEW new \in Handles,
           closeFd(Ctx, to).os[new] = Free,
           NEW d \in Assign(closeFd(Dup(closeFd(Ctx, to), new, f), from), new, to)
    PROVE  /\ \/ \A x : \A g \in Nat : NamedBy(d, g, x) <=>
                   \/ g = to /\ x = f
                   \/ g # to /\ g # from /\ NowNames(g, x)
              \/ \A x : \A g \in Nat : NamedBy(d, g, x) <=> g # to /\ g # from /\ NowNames(g, x)
           /\ StreamsSame(os, d.os)
<1> DEFINE c1 == closeFd(Ctx, to)
           c2 == Dup(c1, new, f)
           c3 == closeFd(c2, from)
<1>0. /\ fd_base \in Nat /\ CtxInv(c1) /\ c1 \in Context /\ c1.os[new] = Free
      /\ Ctx \in Context /\ CtxInv(Ctx) /\ WasiTypeOK
      /\ Ctx.os = os /\ Ctx.preopens = preopens /\ Ctx.fd_table = fd_table
      /\ Numbers(Ctx.preopens, Ctx.fd_table, fd_base)
  BY CloseInv, InvCtx, CtxType DEF CtxInv
<1>a. \A g \in 0 .. 2 : stdio_fds[g].host \in Handles /\ StreamHas(g, stdio_fds[g].host)
  BY <1>0, CtxType DEF StreamHas
<1>1. /\ getFdEntry(c1, to) = {} /\ Numbers(c1.preopens, c1.fd_table, fd_base)
      /\ \A x : \A g \in Nat : NamedBy(c1, g, x) <=> g # to /\ NowNames(g, x)
      /\ StreamsSame(os, c1.os)
  BY <1>0, CloseNames, CloseUnnames DEF CtxInv, NamedBy, NowNames
<1> HIDE DEF c1
<1>2. /\ c2 \in Context /\ c2.os = [c1.os EXCEPT ![new] = Held(f, "runtime")]
      /\ c2.preopens = c1.preopens /\ c2.fd_table = c1.fd_table
      /\ getFdEntry(c2, to) = {} /\ Numbers(c2.preopens, c2.fd_table, fd_base)
  BY <1>0, <1>1, DupFacts
<1> HIDE DEF c2
<1>3. HeldIn(c2.os, c2.preopens, c2.fd_table, {new})
  BY <1>0, <1>2, HeldNew, ContextFacts DEF CtxInv
<1>4. ~Kept(c1.preopens, c1.fd_table, new) BY <1>2, <1>3 DEF HeldIn, NoLeak
<1>5. \A h \in Handles : h # new => c2.os[h] = c1.os[h] BY <1>0, <1>2, ContextFacts DEF Table
<1>6. \A x : \A g \in Nat : NamedBy(c2, g, x) <=> NamedBy(c1, g, x)
  BY <1>0, <1>2, <1>4, <1>5, NamesSame DEF NamedBy
<1>7. \A g \in 0 .. 2 : stdio_fds[g].host # new BY <1>4, <1>a DEF Kept
<1>8. StreamsSame(os, c2.os) BY <1>1, <1>5, <1>7, <1>a DEF StreamsSame
<1>9. /\ c3 \in Context /\ getFdEntry(c3, to) = {} /\ Len(c3.fd_table) = Len(c2.fd_table)
      /\ \A x : \A g \in Nat : NamedBy(c3, g, x) <=> g # from /\ NamedBy(c2, g, x)
      /\ StreamsSame(c2.os, c3.os)
      /\ HeldIn(c3.os, c3.preopens, c3.fd_table, {new})
  <2>1. c3 \in Context /\ Len(c3.fd_table) = Len(c2.fd_table)
    BY <1>0, <1>2, CloseFdCases
  <2>2. getFdEntry(c3, to) \subseteq getFdEntry(c2, to) BY <1>0, <1>2, CloseNames
  <2>3. /\ \A x : \A g \in Nat : NamedBy(c3, g, x) <=> g # from /\ NamedBy(c2, g, x)
        /\ StreamsSame(c2.os, c3.os)
    BY <1>0, <1>2, <1>3, CloseUnnames
  <2>4. HeldIn(c3.os, c3.preopens, c3.fd_table, {new}) BY <1>0, <1>2, <1>3, HeldClose
  <2>5. QED BY <1>2, <2>1, <2>2, <2>3, <2>4
<1>d. d \in Assign(c3, new, to) BY DEF c1, c2
<1>e. c3.os[new] = Held(f, "runtime")
  <2>1. c2.os[new] = Held(f, "runtime") BY <1>0, <1>2, ContextFacts DEF Table
  <2>2. ~Kept(c2.preopens, c2.fd_table, new) BY <1>3 DEF HeldIn, NoLeak
  <2>3. QED BY <1>0, <1>2, <2>1, <2>2, CloseOther
<1> HIDE DEF c3
<1>10. /\ Len(c3.fd_table) <= MaxTable /\ ~Kept(c3.preopens, c3.fd_table, new)
       /\ \A x : ~NamedBy(c3, to, x)
  BY <1>0, <1>1, <1>2, <1>6, <1>9 DEF CtxInv, HeldIn, NoLeak
<1>11. /\ \/ \A x : \A g \in Nat : NamedBy(d, g, x) <=> \/ g = to /\ x = c3.os[new].obj
                                                        \/ g # to /\ NamedBy(c3, g, x)
          \/ \A x : \A g \in Nat : NamedBy(d, g, x) <=> g # to /\ NamedBy(c3, g, x)
       /\ \A h \in Handles : h # new => d.os[h] = c3.os[h]
  <2>1. fd_base \in Nat /\ c3 \in Context /\ getFdEntry(c3, to) = {} BY <1>0, <1>9
  <2>2. QED BY <1>10, <1>d, <2>1, AssignNames
<1>12. c3.os[new].obj = f BY <1>e, Basics
<1>13. StreamsSame(os, d.os) BY <1>7, <1>8, <1>9, <1>11, <1>a DEF StreamsSame
<1>14. \A x : \A g \in Nat : NamedBy(c3, g, x) <=> g # from /\ g # to /\ NowNames(g, x)
  BY <1>1, <1>6, <1>9
<1>15. QED BY <1>11, <1>12, <1>13, <1>14

LEMMA FdRenumberMaps ==
    ASSUME WasiInv, WasiInv', NEW from \in GuestFds, NEW to \in GuestFds, fd_renumber(from, to)
    PROVE  Guest!FdMapNext
<1> DEFINE c1 == closeFd(Ctx, to)
<1>0. /\ from \in Nat /\ to \in Nat /\ fd_base \in Nat /\ phase = "run" /\ os \in Table
      /\ to - fd_base < MaxTable
      /\ UNCHANGED <<fd_base, stdio_fds, next_fd, phase>>
      /\ Ctx \in Context /\ CtxInv(Ctx) /\ WasiTypeOK
      /\ Ctx.os = os /\ Ctx.preopens = preopens /\ Ctx.fd_table = fd_table
  BY Basics, CtxType, InvCtx DEF WasiInv, fd_renumber
<1>1. to \in AllFds
  <2>1. MaxPreopens \in Nat /\ MaxTable \in Nat /\ fd_base <= MaxPreopens + 3
    BY Basics DEF WasiInv, WasiTypeOK
  <2>2. to <= MaxPreopens + 2 + MaxTable BY <1>0, <2>1
  <2>3. QED BY <1>0, <2>2, FdsAreNat
<1>2. CASE Become(c1) BY <1>0, <1>2, CloseMaps
<1>3. ASSUME NEW h \in Handles, h \in getHostFd(Ctx, from), NEW new \in Handles,
             c1.os[h] \in Handle, c1.os[new] = Free,
             NEW d \in Assign(closeFd(Dup(c1, new, c1.os[h].obj), from), new, to), Become(d)
      PROVE  Guest!FdMapNext
  <2>0. PICK f : f = c1.os[h].obj OBVIOUS
  <2>1. f \in Objects /\ f # Free BY <1>3, <2>0, Basics DEF Handle
  <2>2. c1.os[h] # Free /\ os[h] = c1.os[h]
    BY <1>0, <1>3, CloseHandle, Basics
  \* What was duplicated is what from named.
  <2>3. /\ from \in 0 .. 2 => f = StreamFile(from)
        /\ from \notin 0 .. 2 => /\ from # to /\ NowNames(from, f) /\ f = FileOf(from)
                                 /\ from \in AllFds
    <3>1. CASE from \in 0 .. 2
      <4>1. h = stdio_fds[from].host BY <1>3, <3>1 DEF getHostFd
      <4>2. QED BY <1>0, <2>0, <2>2, <3>1, <4>1 DEF StreamFile, Named
    <3>2. CASE from \notin 0 .. 2
      <4>1. from # to BY <1>0, <1>3, <2>2, <3>2, CloseHandle
      <4>2. NowNames(from, f) BY <1>0, <1>3, <2>0, <2>2, <3>2, HandleOf
      <4>3. f = FileOf(from) BY <1>0, <4>2, FileOfNames
      <4>4. QED BY <1>0, <3>2, <4>1, <4>2, <4>3, NamedInRange
    <3>3. QED BY <3>1, <3>2
  <2>4. /\ \/ \A x : \A g \in Nat : NamedBy(d, g, x) <=>
                \/ g = to /\ x = f
                \/ g # to /\ g # from /\ NowNames(g, x)
           \/ \A x : \A g \in Nat : NamedBy(d, g, x) <=> g # to /\ g # from /\ NowNames(g, x)
        /\ StreamsSame(os, d.os)
    BY <1>0, <1>3, <2>0, <2>1, RenumberNames
  <2>5. /\ \A x : \A g \in Nat : NowNames(g, x)' <=> NamedBy(d, g, x)
        /\ MapStreams' = MapStreams
    BY <1>0, <1>3, <2>4, CallMaps
  <2>6. \A g \in Nat : g # to /\ g # from => FileOf(g)' = FileOf(g)
    BY <2>4, <2>5, FileKept
  <2>7. from \in AllFds BY <2>3, FdsAreNat
  <2>8. CASE \A x : \A g \in Nat : NamedBy(d, g, x) <=> \/ g = to /\ x = f
                                                        \/ g # to /\ g # from /\ NowNames(g, x)
    <3>1. FileOf(to)' = f BY <1>0, <2>5, <2>8, FileSet
    <3>2. from # to => FileOf(from)' = Free BY <1>0, <2>5, <2>8, FileGone
    <3>3. MapFds' = [MapFds EXCEPT ![from] = Free, ![to] = f]
      BY <1>1, <2>6, <2>7, <3>1, <3>2, FdsAreNat DEF MapFds
    <3>4. MapFds'[to] # Free BY <1>1, <2>1, <3>1 DEF MapFds
    <3>5. /\ from \in 0 .. 2 => f = MapStreams[from]
          /\ from \notin 0 .. 2 => f = MapFds[from] /\ from # to
      BY <2>3 DEF MapFds, MapStreams
    <3>6. Guest!Renumbers(MapFds, MapFds')
      <4>1. MapStreams = [fd \in 0 .. 2 |-> IF phase = "done" /\ stdio_fds[fd].ownership = "own"
                                            THEN Free ELSE Named(stdio_fds[fd].host)]
        BY DEF MapStreams, StreamFile
      <4>2. QED BY <1>1, <2>1, <2>7, <3>3, <3>4, <3>5, <4>1 DEF Guest!Renumbers
    <3>7. QED BY <1>0, <2>5, <3>6, GuestChange
  <2>9. CASE \A x : \A g \in Nat : NamedBy(d, g, x) <=> g # to /\ g # from /\ NowNames(g, x)
    <3>1. FileOf(to)' = Free /\ FileOf(from)' = Free BY <1>0, <2>5, <2>9, FileGone
    <3>2. MapFds' = [MapFds EXCEPT ![from] = Free, ![to] = Free]
      BY <1>1, <2>6, <2>7, <3>1, FdsAreNat DEF MapFds
    <3>3. CASE MapFds[from] # Free
      <4>1. Guest!RenumberFails(MapFds, MapFds')
        BY <1>1, <2>7, <3>2, <3>3 DEF Guest!RenumberFails
      <4>2. QED BY <1>0, <2>5, <4>1, GuestChange
    <3>4. CASE MapFds[from] = Free
      <4>1. MapFds' = [MapFds EXCEPT ![to] = Free]
        BY <1>1, <2>7, <3>2, <3>4 DEF MapFds
      <4>2. Guest!Closes(MapFds, MapFds') BY <1>1, <4>1 DEF Guest!Closes
      <4>3. QED BY <1>0, <2>5, <4>2, GuestChange
    <3>5. QED BY <3>3, <3>4
  <2>10. QED BY <2>4, <2>8, <2>9
<1>4. QED BY <1>2, <1>3, RenumberCases

-----------------------------------------------------------------------------
\* The first path_open gives the slots other numbers: what the descriptors
\* name when their numbers start at b.
Slots0 == {j - 1 : j \in {i \in DOMAIN fd_table : fd_table[i] # Closed}}
Mid(moved, n) == [fd \in AllFds |-> IF fd - n \in moved THEN MapFds[fd - n]
                                    ELSE IF fd \in moved THEN Free ELSE MapFds[fd]]
IsMap(m, b) == \A g \in AllFds : /\ m[g] \in Objects \cup {Free}
                                 /\ \A f \in Objects :
                                      m[g] = f <=> Names(os, preopens, fd_table, b, g, f)

LEMMA FirstMoves ==
    ASSUME WasiInv, fd_base = 0
    PROVE  \E n \in AllFds :
             /\ Slots0 \subseteq {fd \in AllFds : MapFds[fd] # Free}
             /\ \A fd \in Slots0 : /\ fd + n \in AllFds
                                   /\ fd + n \in Slots0 \/ MapFds[fd + n] = Free
             /\ IsMap(Mid(Slots0, n), FirstDynamicFd)
<1> DEFINE b == FirstDynamicFd
<1>0. /\ WasiTypeOK /\ os \in Table /\ MaxPreopens \in Nat /\ MaxTable \in Nat
      /\ DOMAIN fd_table = 1 .. Len(fd_table) /\ Len(fd_table) \in Nat
      /\ Len(fd_table) <= MaxTable
      /\ Ctx \in Context /\ Ctx.preopens = preopens /\ Ctx.fd_table = fd_table
      /\ Numbers(preopens, fd_table, 0)
  BY CtxType, Basics DEF WasiInv, WasiTypeOK
<1>1. /\ b \in 3 .. MaxPreopens + 3
      /\ \A i \in DOMAIN preopens : preopens[i].wasi_fd < b
  BY FirstDynamicFacts
<1>2. \A i \in DOMAIN preopens : preopens[i].wasi_fd \in Nat BY <1>0, ContextFacts
<1>3. \A g \in AllFds : g \in Nat /\ MapFds[g] = FileOf(g) BY FdsAreNat DEF MapFds
<1>4. \A g \in AllFds : /\ MapFds[g] \in Objects \cup {Free}
                        /\ \A f : NowNames(g, f) => f \in Objects
                        /\ \A f \in Objects : MapFds[g] = f <=> NowNames(g, f)
  BY <1>3, FileOfNow
<1>5. \A fd \in Slots0 : fd \in Nat /\ fd < MaxTable BY <1>0 DEF Slots0
<1>6. \A fd : fd \in Slots0 <=> \E j \in DOMAIN fd_table : fd_table[j] # Closed /\ fd = j - 1
  BY DEF Slots0
<1>7. Slots0 \subseteq {fd \in AllFds : MapFds[fd] # Free}
  <2> SUFFICES ASSUME NEW fd \in Slots0 PROVE fd \in AllFds /\ MapFds[fd] # Free
    OBVIOUS
  <2>1. PICK j \in DOMAIN fd_table : fd_table[j] # Closed /\ fd = j - 1 BY <1>6
  <2>2. fd \in Nat /\ fd < MaxTable BY <1>5
  <2>3. fd <= MaxPreopens + 2 + MaxTable BY <1>0, <2>2
  <2>4. fd \in AllFds BY <2>2, <2>3, FdsAreNat
  <2>5. NowNames(fd, os[fd_table[j].host].obj) BY <1>0, <2>1 DEF NowNames, Names
  <2>6. QED BY <1>4, <2>4, <2>5, Basics
<1> HIDE DEF b
\* Only slots name anything from b on.
<1>8. \A f : \A g \in Nat : Names(os, preopens, fd_table, b, g, f) <=>
        \/ \E i \in DOMAIN preopens : /\ preopens[i].is_open /\ preopens[i].wasi_fd = g
                                      /\ f = os[preopens[i].host].obj
        \/ \E j \in DOMAIN fd_table : /\ fd_table[j] # Closed /\ g - b = j - 1
                                      /\ f = os[fd_table[j].host].obj
  BY <1>0, <1>1 DEF Names
<1>9. \A f : \A g \in Nat : NowNames(g, f) <=>
        \/ \E i \in DOMAIN preopens : /\ preopens[i].is_open /\ preopens[i].wasi_fd = g
                                      /\ f = os[preopens[i].host].obj
        \/ \E j \in DOMAIN fd_table : /\ fd_table[j] # Closed /\ g = j - 1
                                      /\ f = os[fd_table[j].host].obj
  BY <1>0 DEF NowNames, Names
<1>10. CASE Slots0 = {}
  <2>1. 0 \in AllFds BY FdsAreNat
  <2>2. \A g \in AllFds : Mid(Slots0, 0)[g] = MapFds[g] BY <1>10 DEF Mid
  <2>3. \A j \in DOMAIN fd_table : fd_table[j] = Closed BY <1>6, <1>10
  <2>4. \A f : \A g \in AllFds : Names(os, preopens, fd_table, b, g, f) <=> NowNames(g, f)
    BY <1>3, <1>8, <1>9, <2>3
  <2>5. IsMap(Mid(Slots0, 0), b) BY <1>4, <2>2, <2>4 DEF IsMap
  <2>6. QED BY <1>7, <1>10, <2>1, <2>5 DEF b
<1>11. CASE Slots0 # {}
  <2>1. b \in AllFds /\ b \in Nat
    <3>1. PICK fd \in Slots0 : TRUE BY <1>11
    <3>2. MaxTable >= 1 BY <1>0, <1>5, <3>1
    <3>3. QED BY <1>0, <1>1, <3>2, FdsAreNat
  <2>2. ASSUME NEW fd \in Slots0
        PROVE  /\ fd + b \in AllFds
               /\ fd + b \in Slots0 \/ MapFds[fd + b] = Free
    <3>1. fd \in Nat /\ fd < MaxTable /\ fd + b \in Nat BY <1>5, <2>1
    <3>2. fd + b <= MaxPreopens + 2 + MaxTable BY <1>0, <1>1, <2>1, <3>1
    <3>3. fd + b \in AllFds BY <3>1, <3>2, FdsAreNat
    <3>4. ASSUME fd + b \notin Slots0 PROVE MapFds[fd + b] = Free
      <4>1. \A i \in DOMAIN preopens : preopens[i].wasi_fd # fd + b
        BY <1>1, <1>2, <2>1, <3>1
      <4>2. \A f : ~NowNames(fd + b, f) BY <1>6, <1>9, <3>1, <3>4, <4>1
      <4>3. QED BY <1>4, <3>3, <4>2
    <3>5. QED BY <3>3, <3>4
  <2>3. IsMap(Mid(Slots0, b), b)
    <3> SUFFICES ASSUME NEW g \in AllFds
                 PROVE  /\ Mid(Slots0, b)[g] \in Objects \cup {Free}
                        /\ \A f \in Objects : Mid(Slots0, b)[g] = f
                              <=> Names(os, preopens, fd_table, b, g, f)
      BY DEF IsMap
    <3>0. g \in Nat BY <1>3
    <3>1. CASE g - b \in Slots0
      <4>1. g - b \in AllFds /\ g - b \in Nat BY <1>5, <1>7, <3>1
      <4>2. Mid(Slots0, b)[g] = MapFds[g - b] BY <3>1 DEF Mid
      <4>3. PICK k \in DOMAIN fd_table : fd_table[k] # Closed /\ g - b = k - 1 BY <1>6, <3>1
      <4>4. \A i \in DOMAIN preopens : preopens[i].is_open => preopens[i].wasi_fd # g - b
        BY <1>0, <1>7, <4>3 DEF Numbers
      <4>5. \A i \in DOMAIN preopens : preopens[i].wasi_fd # g
        BY <1>1, <1>2, <2>1, <3>0, <4>1
      <4>6. \A f : Names(os, preopens, fd_table, b, g, f) <=> NowNames(g - b, f)
        BY <1>8, <1>9, <3>0, <4>1, <4>4, <4>5
      <4>7. QED BY <1>4, <4>1, <4>2, <4>6
    <3>2. CASE g - b \notin Slots0 /\ g \in Slots0
      <4>1. Mid(Slots0, b)[g] = Free BY <3>2 DEF Mid
      <4>2. PICK k \in DOMAIN fd_table : fd_table[k] # Closed /\ g = k - 1 BY <1>6, <3>2
      <4>3. \A i \in DOMAIN preopens : preopens[i].is_open => preopens[i].wasi_fd # g
        BY <1>0, <4>2 DEF Numbers
      <4>4. \A f : ~Names(os, preopens, fd_table, b, g, f)
        BY <1>6, <1>8, <3>0, <3>2, <4>3
      <4>5. QED BY <4>1, <4>4, Basics
    <3>3. CASE g - b \notin Slots0 /\ g \notin Slots0
      <4>1. Mid(Slots0, b)[g] = MapFds[g] BY <3>3 DEF Mid
      <4>2. \A f : Names(os, preopens, fd_table, b, g, f) <=> NowNames(g, f)
        BY <1>6, <1>8, <1>9, <3>0, <3>3
      <4>3. QED BY <1>4, <4>1, <4>2
    <3>4. QED BY <3>1, <3>2, <3>3
  <2>4. QED BY <1>7, <2>1, <2>2, <2>3 DEF b
<1>12. QED BY <1>10, <1>11

\* path_open: one more descriptor, beside those that were, or none.
LEMMA PathOpenNames ==
    ASSUME WasiInv, WasiInv', NEW fd \in GuestFds, NEW o \in Objects, NEW asDir \in BOOLEAN,
           path_open(fd, o, asDir)
    PROVE  \/ \A x : \A g \in Nat : NowNames(g, x)' <=> Names(os, preopens, fd_table, fd_base', g, x)
           \/ \E n \in AllFds :
                /\ \A x : ~Names(os, preopens, fd_table, fd_base', n, x)
                /\ \A x : \A g \in Nat : NowNames(g, x)' <=>
                      \/ Names(os, preopens, fd_table, fd_base', g, x)
                      \/ g = n /\ x = o
<1> DEFINE h == Lowest(FreeHandles(os))
           k == IF asDir THEN "dir" ELSE "file"
           b == fd_base'
           t == fd_table
           u == fd_table'
<1>0. /\ phase = "run" /\ FreeHandles(os) # {} /\ SetFdBase
      /\ UNCHANGED <<preopens, stdio_fds, next_fd, phase>>
  BY DEF path_open
<1>1. /\ WasiTypeOK /\ os \in Table /\ HeldIn(os, preopens, fd_table, {})
      /\ Ctx \in Context /\ Ctx.os = os /\ Ctx.preopens = preopens /\ Ctx.fd_table = fd_table
      /\ DOMAIN t \subseteq Nat /\ MaxPreopens \in Nat /\ MaxTable \in Nat
  BY CtxType, Basics DEF WasiInv
<1>2. h \in Handles /\ os[h] = Free BY <1>0, LowestFree
<1>3. ~Kept(preopens, fd_table, h) BY <1>1, <1>2, FreeNotKept
<1>4. /\ b \in 3 .. MaxPreopens + 3 /\ \A i \in DOMAIN preopens : preopens[i].wasi_fd < b
  BY <1>0, BaseFacts
<1>5. CASE UNCHANGED <<os, fd_table>>
  BY <1>0, <1>5 DEF NowNames, Names
<1>6. CASE os' = WithHandle(os, h, Held(o, "runtime")) /\ allocFd([host |-> h, kind |-> k])
  <2>1. k \in Kinds BY DEF Kinds
  <2>2. /\ u \in Seq(Slot) /\ Len(u) <= MaxTable
        /\ \E i \in DOMAIN u : Fills(t, u, i, h)
    BY <1>1, <1>2, <1>6, <2>1, AllocFills
  <2>3. PICK i \in DOMAIN u : Fills(t, u, i, h) BY <2>2
  <2>4. i \in 1 .. Len(u) /\ Len(u) \in Nat BY <2>2
  <2>5. /\ DOMAIN t \subseteq DOMAIN u /\ u[i] # Closed /\ u[i].host = h
        /\ i \in DOMAIN t => t[i] = Closed
        /\ \A j \in DOMAIN u : j # i /\ u[j] # Closed => j \in DOMAIN t /\ u[j] = t[j]
        /\ \A j \in DOMAIN t : j # i => u[j] = t[j]
    BY <2>3 DEF Fills
  <2>6. os'[h].obj = o /\ \A j \in Handles : j # h => os'[j] = os[j]
    <3>1. Held(o, "runtime").obj = o BY Basics
    <3>2. QED BY <1>1, <1>2, <1>6, <3>1 DEF WithHandle, Table
  <2> HIDE DEF h, k
  <2>7. PICK n \in Nat : n = b + i - 1 BY <1>4, <2>4, <1>1
  <2>8. n \in AllFds
    <3>1. n <= MaxPreopens + 2 + MaxTable BY <1>1, <1>4, <2>2, <2>4, <2>7
    <3>2. QED BY <3>1, FdsAreNat
  <2>9. \A g, x : Names(os', preopens, t, b, g, x) <=> Names(os, preopens, t, b, g, x)
    BY <1>1, <1>3, <2>6, NamesSame
  <2>10. \A x : \A g \in Nat : Names(os', preopens, u, b, g, x) <=>
            \/ Names(os', preopens, t, b, g, x)
            \/ g = n /\ x = o
    BY <2>5, <2>6, <2>7 DEF Names
  <2>11. \A x : \A g \in Nat : NowNames(g, x)' <=> Names(os', preopens, u, b, g, x)
    BY <1>0 DEF NowNames, Names
  <2>12. \A x : ~Names(os, preopens, t, b, n, x)
    <3>1. \A j \in DOMAIN preopens : preopens[j].wasi_fd \in Nat BY <1>1, ContextFacts
    <3>2. \A j \in DOMAIN preopens : preopens[j].wasi_fd # n
      BY <1>1, <1>4, <2>4, <2>7, <3>1
    <3>3. \A j \in DOMAIN t : n = b + j - 1 => j = i BY <1>1, <1>4, <2>4, <2>7
    <3>4. QED BY <2>5, <3>2, <3>3 DEF Names
  <2>13. QED BY <2>8, <2>9, <2>10, <2>11, <2>12
<1>7. QED BY <1>5, <1>6 DEF path_open

LEMMA PathOpenMaps ==
    ASSUME WasiInv, WasiInv', NEW fd \in GuestFds, NEW o \in Objects, NEW asDir \in BOOLEAN,
           path_open(fd, o, asDir)
    PROVE  Guest!FdMapNext
<1> DEFINE Now(g, x) == Names(os, preopens, fd_table, fd_base', g, x)
<1>0. /\ phase = "run" /\ FreeHandles(os) # {} /\ SetFdBase
      /\ UNCHANGED <<preopens, stdio_fds, next_fd, phase>>
      /\ WasiTypeOK /\ os \in Table
      /\ \A g \in 0 .. 2 : stdio_fds[g].host \in Handles /\ StreamHas(g, stdio_fds[g].host)
      /\ HeldIn(os, preopens, fd_table, {})
  BY CtxType DEF path_open, WasiInv, StreamHas
<1>1. \/ \A x : \A g \in Nat : NowNames(g, x)' <=> Now(g, x)
      \/ \E n \in AllFds : /\ \A x : ~Now(n, x)
                           /\ \A x : \A g \in Nat : NowNames(g, x)' <=> Now(g, x) \/ (g = n /\ x = o)
  BY PathOpenNames
<1>2. /\ \A g \in AllFds : MapFds'[g] \in Objects \cup {Free}
      /\ \A g \in AllFds, f \in Objects : MapFds'[g] = f <=> NowNames(g, f)'
      /\ MapFds' = [g \in AllFds |-> MapFds'[g]]
  <2>1. \A g \in AllFds : g \in Nat /\ MapFds'[g] = FileOf(g)' BY FdsAreNat DEF MapFds
  <2>2. QED BY <2>1, FileOfNext DEF MapFds
<1>3. Free \notin Objects BY Basics
<1>4. MapStreams' = MapStreams
  <2> SUFFICES ASSUME NEW g \in 0 .. 2 PROVE StreamFile(g)' = StreamFile(g)
    BY DEF MapStreams
  <2>1. ~Kept(preopens, fd_table, Lowest(FreeHandles(os)))
    BY <1>0, LowestFree, FreeNotKept
  <2>2. stdio_fds[g].host # Lowest(FreeHandles(os)) BY <1>0, <2>1 DEF Kept
  <2>3. os'[stdio_fds[g].host] = os[stdio_fds[g].host]
    BY <1>0, <2>2 DEF path_open, WithHandle, Table
  <2>4. QED BY <1>0, <2>3 DEF StreamFile, Named
\* From a map m of the descriptors of before, by their numbers of now.
<1>5. ASSUME NEW m, m = [g \in AllFds |-> m[g]], IsMap(m, fd_base')
      PROVE  MapFds' = m \/ Guest!Opens(m, MapFds')
  <2>1. \A g \in AllFds : /\ m[g] \in Objects \cup {Free}
                          /\ \A f \in Objects : m[g] = f <=> Now(g, f)
    BY <1>5 DEF IsMap
  <2>2. \A g \in AllFds : g \in Nat BY FdsAreNat
  <2> HIDE DEF Now
  <2>3. CASE \A x : \A g \in Nat : NowNames(g, x)' <=> Now(g, x)
    <3>1. \A g \in AllFds : MapFds'[g] = m[g] BY <1>2, <2>1, <2>2, <2>3
    <3>2. QED BY <1>2, <1>5, <3>1
  <2>4. ASSUME NEW n \in AllFds, \A x : ~Now(n, x),
               \A x : \A g \in Nat : NowNames(g, x)' <=> Now(g, x) \/ (g = n /\ x = o)
        PROVE  Guest!Opens(m, MapFds')
    <3>1. m[n] = Free BY <2>1, <2>4
    <3>2. MapFds'[n] = o BY <1>2, <2>2, <2>4
    <3>3. \A g \in AllFds : g # n => MapFds'[g] = m[g] BY <1>2, <2>1, <2>2, <2>4
    <3>4. MapFds' = [m EXCEPT ![n] = o] BY <1>2, <1>5, <3>2, <3>3
    <3>5. QED BY <3>1, <3>4 DEF Guest!Opens
  <2>5. QED BY <1>1, <2>3, <2>4
<1>6. CASE fd_base # 0
  <2>1. fd_base' = fd_base BY <1>0, <1>6 DEF SetFdBase
  <2>2. \A g \in AllFds : g \in Nat /\ MapFds[g] = FileOf(g) BY FdsAreNat DEF MapFds
  <2>3. IsMap(MapFds, fd_base') BY <2>1, <2>2, FileOfNow DEF IsMap, NowNames
  <2>4. MapFds = [g \in AllFds |-> MapFds[g]] BY DEF MapFds
  <2>5. PICK m : m = MapFds OBVIOUS
  <2>6. m = [g \in AllFds |-> m[g]] /\ IsMap(m, fd_base') BY <2>3, <2>4, <2>5
  <2>7. MapFds' = m \/ Guest!Opens(m, MapFds') BY <1>5, <2>6
  <2>8. CASE MapFds' = m BY <1>4, <1>6, <2>1, <2>5, <2>8, GuestSame
  <2>9. CASE Guest!Opens(m, MapFds') BY <1>4, <1>6, <2>1, <2>5, <2>9, GuestChange
  <2>10. QED BY <2>7, <2>8, <2>9
<1>7. CASE fd_base = 0
  <2>1. fd_base' = FirstDynamicFd /\ fd_base' # 0 BY <1>0, <1>7, BaseFacts DEF SetFdBase
  <2>2. PICK n \in AllFds :
             /\ Slots0 \subseteq {g \in AllFds : MapFds[g] # Free}
             /\ \A g \in Slots0 : /\ g + n \in AllFds
                                  /\ g + n \in Slots0 \/ MapFds[g + n] = Free
             /\ IsMap(Mid(Slots0, n), FirstDynamicFd)
    BY <1>7, FirstMoves
  <2>3. PICK m : m = Mid(Slots0, n) OBVIOUS
  <2>4. m = [g \in AllFds |-> m[g]] /\ IsMap(m, fd_base') BY <2>1, <2>2, <2>3 DEF Mid
  <2>5. MapFds' = m \/ Guest!Opens(m, MapFds') BY <1>5, <2>4
  <2>6. m = [g \in AllFds |-> IF g - n \in Slots0 THEN MapFds[g - n]
                              ELSE IF g \in Slots0 THEN Free ELSE MapFds[g]]
    BY <2>3 DEF Mid
  <2>7. Guest!FirstOpens(MapFds, MapFds')
    BY <2>2, <2>5, <2>6 DEF Guest!FirstOpens
  <2>8. QED BY <1>4, <1>7, <2>1, <2>7
        DEF Guest!FdMapNext, MapFds, MapStreams, StreamFile
<1>8. QED BY <1>6, <1>7

\* Nothing changes that the map depends on.
LEMMA StutterMaps ==
    ASSUME UNCHANGED wasiVars
    PROVE  UNCHANGED Guest!fdMapVars
  BY DEF wasiVars, Guest!fdMapVars, Named, FileOf, getHostHandle, Ctx, preopenOf, getFdEntry

LEMMA InitMaps == WasiInit => Guest!FdMapInit
<1> SUFFICES ASSUME WasiInit PROVE Guest!FdMapInit
  OBVIOUS
<1>1. WasiInv BY WasiInvInit
<1>2. \A g \in AllFds : FileOf(g) \in Objects \cup {Free} BY <1>1, FileOfNow, FdsAreNat
<1>3. \A g \in 0 .. 2 : Named(stdio_fds[g].host) \in Objects \cup {Free}
  <2>1. os \in Table /\ \A g \in 0 .. 2 : stdio_fds[g].host \in Handles
    BY <1>1, CtxType DEF WasiInv
  <2>2. QED BY <2>1 DEF Named, Table, Handle
<1>4. fd_base = 0 BY DEF WasiInit
<1>5. QED BY <1>2, <1>3, <1>4 DEF Guest!FdMapInit, Guest!FdMapTypeOK

(* The descriptor table implements FdMap: whichever step of a call fails,  *)
(* no descriptor but those it was given changes what it names, and the     *)
(* numbers move at most once, all by the same distance, at the first       *)
(* path_open (closeFd, fd_renumber, path_open in wasi.zig).                *)
THEOREM TableImplementsMap == WasiSpec => ImplementsFdMap
<1>1. WasiInv /\ WasiInv' /\ [WasiNext]_wasiVars => [Guest!FdMapNext]_(Guest!fdMapVars)
  <2> SUFFICES ASSUME WasiInv, WasiInv', WasiNext PROVE Guest!FdMapNext
    BY StutterMaps
  <2>1. CASE HostOpens \/ \E h \in Handles : HostCloses(h) BY <2>1, HostMaps
  <2>2. CASE \E d \in Dirs : addPreopenPath(d) BY <2>2, AddPreopenPathMaps
  <2>3. CASE \E h \in Handles, own \in {"own", "borrow"} : addPreopenFd(h, own)
    BY <2>3, AddPreopenFdMaps
  <2>4. ASSUME NEW h \in Handles, NEW own \in {"own", "borrow"}, NEW fd \in Overrides,
               setStdioFd(fd, h, own)
        PROVE  Guest!FdMapNext
    <3>1. fd \in 0 .. 2 BY WasiAssumption
    <3>2. QED BY <2>4, <3>1, SetStdioMaps
  <2>5. CASE Loaded BY <2>5, LoadedMaps
  <2>6. CASE deinit BY <2>6, DeinitMaps
  <2>7. ASSUME NEW fd \in GuestFds, fd_close(fd) PROVE Guest!FdMapNext
    <3>1. fd \in Nat BY Basics
    <3>2. QED BY <2>7, <3>1, CloseMaps DEF fd_close
  <2>8. CASE \E fd \in GuestFds, o \in Objects, asDir \in BOOLEAN : path_open(fd, o, asDir)
    BY <2>8, PathOpenMaps
  <2>9. CASE \E from, to \in GuestFds : fd_renumber(from, to) BY <2>9, FdRenumberMaps
  <2>10. QED BY <2>1, <2>2, <2>3, <2>4, <2>5, <2>6, <2>7, <2>8, <2>9 DEF WasiNext
<1>2. QED
  BY WasiInvInit, WasiInvNext, InitMaps, <1>1, PTL DEF WasiSpec, ImplementsFdMap, Guest!FdMapSpec
=============================================================================
