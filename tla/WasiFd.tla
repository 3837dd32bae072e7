------------------------------- MODULE WasiFd -------------------------------
(***************************************************************************)
(* The descriptor table of the WASI host (WasiContext in src/src/wasi.zig) *)
(* on a POSIX system, with the operating system's own handle table under   *)
(* it.  A guest's descriptor is resolved through the host's streams (0 to  *)
(* 2), then the preopens the loader registered, then fd_table, whose       *)
(* numbers start at fd_base; fd_base is 0 until the first path_open.       *)
(*                                                                         *)
(* Handles are reused lowest first, as POSIX does, so that a handle closed *)
(* twice may be somebody else's by then; the embedding program opens and   *)
(* closes handles of its own meanwhile.  Rights, flags, offsets and the    *)
(* contents of files are left out.  A closed slot of fd_table is Closed,   *)
(* whatever it held.                                                       *)
(***************************************************************************)
EXTENDS Integers, Sequences, FiniteSets

CONSTANTS
    Files, Dirs,      \* what can be opened
    Stream,           \* what the embedder's handles name, its streams included
    Overrides,        \* the streams the embedder may replace, of 0 .. 2
    MaxHandle,        \* the process may have handles 0 .. MaxHandle
    MaxPreopens,      \* bound on the entries of WasiOptions
    GuestFds,         \* descriptors the guest names
    MaxTable,         \* bound on the length of fd_table
    Free, Closed      \* model values: an unused handle, a closed slot

ASSUME WasiAssumption ==
    /\ Files \cap Dirs = {}
    /\ Stream \in Files
    /\ Overrides \subseteq 0 .. 2
    /\ MaxHandle \in Nat /\ MaxHandle >= 2
    /\ MaxPreopens \in Nat /\ GuestFds \subseteq Nat /\ MaxTable \in Nat
    /\ Free \notin Files \cup Dirs \cup [obj : Files \cup Dirs, by : {"host", "runtime"}]
    /\ Closed \notin [host : 0 .. MaxHandle, kind : {"file", "dir"}]

VARIABLES
    os,        \* the process's handles: what each names and who holds it
    preopens,  \* wasi_fd, host, kind, ownership, is_open
    fd_table,  \* entries [host, kind], or Closed
    fd_base,   \* 0 until the first path_open
    stdio_fds, \* the handle and the ownership of streams 0 to 2
    next_fd,   \* the number the loader gives the next preopen
    phase      \* "load", "run", "done"

wasiVars == <<os, preopens, fd_table, fd_base, stdio_fds, next_fd, phase>>

Objects == Files \cup Dirs
Handles == 0 .. MaxHandle
KindOf(o) == IF o \in Dirs THEN "dir" ELSE "file"
Held(o, who) == [obj |-> o, by |-> who]

WasiInit ==
    /\ os = [h \in Handles |-> IF h <= 2 THEN Held(Stream, "host") ELSE Free]
    /\ preopens = <<>>
    /\ fd_table = <<>>
    /\ fd_base = 0
    /\ stdio_fds = [fd \in 0 .. 2 |-> [host |-> fd, ownership |-> "borrow"]]
    /\ next_fd = 3
    /\ phase = "load"

-----------------------------------------------------------------------------
\* The operating system: the lowest free handle, close, dup.
FreeHandles(o) == {h \in Handles : o[h] = Free}
Lowest(S) == CHOOSE h \in S : \A g \in S : h <= g
WithHandle(o, h, what) == [o EXCEPT ![h] = what]
pfdClose(o, h) == [o EXCEPT ![h] = Free]

\* The embedding program opens a file of its own, and closes one that it
\* has not lent to the runtime.
Lent == {preopens[i].host : i \in DOMAIN preopens} \cup {stdio_fds[fd].host : fd \in 0 .. 2}

HostOpens ==
    /\ FreeHandles(os) # {}
    /\ os' = WithHandle(os, Lowest(FreeHandles(os)), Held(Stream, "host"))
    /\ UNCHANGED <<preopens, fd_table, fd_base, stdio_fds, next_fd, phase>>

HostCloses(h) ==
    /\ os[h] # Free /\ os[h].by = "host" /\ h \notin Lent \cup 0 .. 2
    /\ os' = pfdClose(os, h)
    /\ UNCHANGED <<preopens, fd_table, fd_base, stdio_fds, next_fd, phase>>

-----------------------------------------------------------------------------
\* The context as one value, for the operations that change it twice.
Ctx == [os |-> os, preopens |-> preopens, fd_table |-> fd_table]

Become(c) ==
    /\ os' = c.os
    /\ preopens' = c.preopens
    /\ fd_table' = c.fd_table

\* The preopen, or the slot of fd_table, that wasi_fd names; or none.
preopenOf(c, fd) == {i \in DOMAIN c.preopens : /\ c.preopens[i].wasi_fd = fd
                                               /\ c.preopens[i].is_open}
getFdEntry(c, fd) == {i \in DOMAIN c.fd_table : /\ fd >= fd_base
                                                /\ i = fd - fd_base + 1
                                                /\ c.fd_table[i] # Closed}

getHostHandle(c, fd) ==
    LET p == preopenOf(c, fd)
        e == getFdEntry(c, fd)
    IN  IF p # {} THEN {[host |-> c.preopens[i].host, kind |-> c.preopens[i].kind] : i \in {Lowest(p)}}
        ELSE {c.fd_table[i] : i \in e}

\* The host's streams hide whatever else has their number.
getHostFd(c, fd) ==
    IF fd \in 0 .. 2 THEN {stdio_fds[fd].host}
    ELSE {e.host : e \in getHostHandle(c, fd)}

resolveDir(c, fd) == {e.host : e \in {d \in getHostHandle(c, fd) : d.kind = "dir"}}

\* Mutant: the handle of a closed preopen is not marked closed.
closeFdKeepsPreopen(c, fd) ==
    LET p == preopenOf(c, fd)
        e == getFdEntry(c, fd)
    IN  IF p # {} THEN LET i == Lowest(p)
                       IN  [c EXCEPT !.os = pfdClose(@, c.preopens[i].host)]
        ELSE IF e # {} THEN LET i == Lowest(e)
                            IN  [c EXCEPT !.os = pfdClose(@, c.fd_table[i].host),
                                          !.fd_table[i] = Closed]
        ELSE c

\* A preopen is closed even when its handle is only borrowed.
closeFd(c, fd) ==
    LET p == preopenOf(c, fd)
        e == getFdEntry(c, fd)
    IN  IF p # {} THEN LET i == Lowest(p)
                       IN  [c EXCEPT !.os = pfdClose(@, c.preopens[i].host),
                                     !.preopens[i].is_open = FALSE]
        ELSE IF e # {} THEN LET i == Lowest(e)
                            IN  [c EXCEPT !.os = pfdClose(@, c.fd_table[i].host),
                                          !.fd_table[i] = Closed]
        ELSE c

-----------------------------------------------------------------------------
\* Loading (applyWasiOptions).  A path that cannot be opened, or registered,
\* is skipped, its number with it; a handle passed with ownership own is the
\* runtime's from here on.  The loader takes the paths first, then the
\* handles, then the streams; here they come in any order.
addPreopenPath(d) ==
    /\ phase = "load" /\ next_fd < 3 + MaxPreopens
    /\ next_fd' = next_fd + 1
    /\ \/ /\ FreeHandles(os) # {}
          /\ LET h == Lowest(FreeHandles(os))
             IN  /\ os' = WithHandle(os, h, Held(d, "runtime"))
                 /\ preopens' = Append(preopens,
                        [wasi_fd |-> next_fd, host |-> h, kind |-> "dir",
                         ownership |-> "own", is_open |-> TRUE])
       \/ UNCHANGED <<os, preopens>>
    /\ UNCHANGED <<fd_table, fd_base, stdio_fds, phase>>

\* A handle the embedder can pass: its own, and not passed before.
Passable(h) == os[h] # Free /\ os[h].by = "host" /\ h \notin Lent
PassedAs(h, ownership) ==
    IF ownership = "own" THEN Held(os[h].obj, "runtime") ELSE os[h]

addPreopenFd(h, ownership) ==
    /\ phase = "load" /\ next_fd < 3 + MaxPreopens
    /\ Passable(h)
    /\ next_fd' = next_fd + 1
    /\ os' = WithHandle(os, h, PassedAs(h, ownership))
    /\ preopens' = Append(preopens,
           [wasi_fd |-> next_fd, host |-> h, kind |-> KindOf(os[h].obj),
            ownership |-> ownership, is_open |-> TRUE])
    /\ UNCHANGED <<fd_table, fd_base, stdio_fds, phase>>

setStdioFd(fd, h, ownership) ==
    /\ phase = "load" /\ Passable(h)
    /\ LET prev == stdio_fds[fd]
           kept == WithHandle(os, h, PassedAs(h, ownership))
       IN  os' = IF prev.ownership = "own" THEN pfdClose(kept, prev.host) ELSE kept
    /\ stdio_fds' = [stdio_fds EXCEPT ![fd] = [host |-> h, ownership |-> ownership]]
    /\ UNCHANGED <<preopens, fd_table, fd_base, next_fd, phase>>

Loaded ==
    /\ phase = "load" /\ phase' = "run"
    /\ UNCHANGED <<os, preopens, fd_table, fd_base, stdio_fds, next_fd>>

\* Mutant: borrowed preopens are closed at teardown.
deinitClosesBorrowed ==
    /\ phase # "done" /\ phase' = "done"
    /\ LET gone == {stdio_fds[fd].host : fd \in {g \in 0 .. 2 : stdio_fds[g].ownership = "own"}}
                   \cup {preopens[i].host : i \in {j \in DOMAIN preopens : preopens[j].is_open}}
                   \cup {fd_table[i].host : i \in {j \in DOMAIN fd_table : fd_table[j] # Closed}}
       IN  os' = [h \in Handles |-> IF h \in gone THEN Free ELSE os[h]]
    /\ preopens' = <<>> /\ fd_table' = <<>>
    /\ UNCHANGED <<fd_base, stdio_fds, next_fd>>

\* The module is unloaded, or loading it fails.
deinit ==
    /\ phase # "done" /\ phase' = "done"
    /\ LET gone == {stdio_fds[fd].host : fd \in {g \in 0 .. 2 : stdio_fds[g].ownership = "own"}}
                   \cup {preopens[i].host : i \in {j \in DOMAIN preopens :
                            preopens[j].is_open /\ preopens[j].ownership = "own"}}
                   \cup {fd_table[i].host : i \in {j \in DOMAIN fd_table : fd_table[j] # Closed}}
       IN  os' = [h \in Handles |-> IF h \in gone THEN Free ELSE os[h]]
    /\ preopens' = <<>> /\ fd_table' = <<>>
    /\ UNCHANGED <<fd_base, stdio_fds, next_fd>>

-----------------------------------------------------------------------------
\* The guest's calls.  Streams 0 to 2 are never closed; closing a number
\* that names nothing is BADF and changes nothing.
fd_close(fd) ==
    /\ phase = "run" /\ fd \notin 0 .. 2
    /\ Become(closeFd(Ctx, fd))
    /\ UNCHANGED <<fd_base, stdio_fds, next_fd, phase>>

MaxOf(S) == CHOOSE n \in S : \A m \in S : m <= n
FirstDynamicFd == MaxOf({2} \cup {preopens[i].wasi_fd : i \in DOMAIN preopens}) + 1

\* The first closed slot, else a new one.
allocFd(entry) ==
    LET closed == {i \in DOMAIN fd_table : fd_table[i] = Closed}
    IN  \/ /\ closed # {}
           /\ fd_table' = [fd_table EXCEPT ![Lowest(closed)] = entry]
        \/ /\ closed = {} /\ Len(fd_table) < MaxTable
           /\ fd_table' = Append(fd_table, entry)

SetFdBase == fd_base' = IF fd_base = 0 THEN FirstDynamicFd ELSE fd_base

\* o is opened below the directory fd; asDir is the flag O_DIRECTORY, and
\* decides the kind of the entry.  The last line is the call that runs out
\* of memory in allocFd and closes the handle again.  openat failing, or a
\* descriptor that is no directory, changes nothing.
path_open(fd, o, asDir) ==
    /\ phase = "run"
    /\ resolveDir(Ctx, fd) # {}
    /\ asDir => o \in Dirs
    /\ FreeHandles(os) # {}
    /\ LET h == Lowest(FreeHandles(os))
           entry == [host |-> h, kind |-> IF asDir THEN "dir" ELSE "file"]
       IN  \/ os' = WithHandle(os, h, Held(o, "runtime")) /\ allocFd(entry)
           \/ /\ \A i \in DOMAIN fd_table : fd_table[i] # Closed
              /\ UNCHANGED <<os, fd_table>>
    /\ SetFdBase
    /\ UNCHANGED <<preopens, stdio_fds, next_fd, phase>>

\* Placeholders up to position idx, then the entry; n of the appends succeed.
Extended(t, idx, entry, n) ==
    LET filled == t \o [i \in 1 .. idx - 1 - Len(t) |-> Closed] \o <<entry>>
    IN  SubSeq(filled, 1, Len(t) + n)

\* The new handle h becomes descriptor to, or is closed: because to is below
\* fd_base, or because the table cannot be extended that far.
Assign(c, h, to) ==
    LET idx == to - fd_base + 1
        entry == [host |-> h, kind |-> "file"]
        missing == idx - Len(c.fd_table)
    IN  IF to < fd_base THEN {[c EXCEPT !.os = pfdClose(@, h)]}
        ELSE IF missing <= 0 THEN {[c EXCEPT !.fd_table[idx] = entry]}
        ELSE {[c EXCEPT !.fd_table = Extended(@, idx, entry, missing)]}
             \cup {[c EXCEPT !.os = pfdClose(@, h),
                             !.fd_table = Extended(@, idx, entry, n)] : n \in 0 .. missing - 1}

\* Mutant: the source is not closed after it has been duplicated.
fd_renumberKeepsSource(from, to) ==
    /\ phase = "run"
    /\ to - fd_base < MaxTable
    /\ \E h \in getHostFd(Ctx, from) :
         LET c1 == closeFd(Ctx, to)
             free == FreeHandles(c1.os)
         IN  IF c1.os[h] = Free \/ free = {} THEN Become(c1)
             ELSE LET new == Lowest(free)
                      c2 == [c1 EXCEPT !.os = WithHandle(@, new, Held(c1.os[h].obj, "runtime"))]
                  IN  \E c \in Assign(c2, new, to) : Become(c)
    /\ UNCHANGED <<fd_base, stdio_fds, next_fd, phase>>

\* The handle of from is looked up, to is closed, the handle duplicated,
\* from closed and the duplicate put in the place of to, in this order.
\* dup fails on a handle that is closed by now and at the handle limit.
fd_renumber(from, to) ==
    /\ phase = "run"
    /\ to - fd_base < MaxTable
    /\ \E h \in getHostFd(Ctx, from) :
         LET c1 == closeFd(Ctx, to)
             free == FreeHandles(c1.os)
         IN  IF c1.os[h] = Free \/ free = {} THEN Become(c1)
             ELSE LET new == Lowest(free)
                      c2 == [c1 EXCEPT !.os = WithHandle(@, new, Held(c1.os[h].obj, "runtime"))]
                      c3 == closeFd(c2, from)
                  IN  \E c \in Assign(c3, new, to) : Become(c)
    /\ UNCHANGED <<fd_base, stdio_fds, next_fd, phase>>

WasiNext ==
    \/ HostOpens
    \/ \E h \in Handles : HostCloses(h)
    \/ \E d \in Dirs : addPreopenPath(d)
    \/ \E h \in Handles, own \in {"own", "borrow"} :
          \/ addPreopenFd(h, own)
          \/ \E fd \in Overrides : setStdioFd(fd, h, own)
    \/ Loaded
    \/ deinit
    \/ \E fd \in GuestFds : fd_close(fd)
    \/ \E fd \in GuestFds, o \in Objects, asDir \in BOOLEAN : path_open(fd, o, asDir)
    \/ \E from, to \in GuestFds : fd_renumber(from, to)

WasiSpec == WasiInit /\ [][WasiNext]_wasiVars

-----------------------------------------------------------------------------
\* Every variable keeps its type.
WasiTypeOK ==
    /\ os \in [Handles -> {Free} \cup [obj : Objects, by : {"host", "runtime"}]]
    /\ preopens \in Seq([wasi_fd : 3 .. MaxPreopens + 2, host : Handles, kind : {"file", "dir"},
                         ownership : {"own", "borrow"}, is_open : BOOLEAN])
    /\ Len(preopens) <= MaxPreopens
    /\ fd_table \in Seq({Closed} \cup [host : Handles, kind : {"file", "dir"}])
    /\ Len(fd_table) <= MaxTable
    /\ fd_base \in {0} \cup 3 .. MaxPreopens + 3
    /\ stdio_fds \in [0 .. 2 -> [host : Handles, ownership : {"own", "borrow"}]]
    /\ next_fd \in 3 .. MaxPreopens + 3
    /\ phase \in {"load", "run", "done"}

\* Where a handle is held: the places that will close it.
Holders(h) ==
    {<<"stdio", fd>> : fd \in {g \in 0 .. 2 : /\ phase # "done"
                                              /\ stdio_fds[g] = [host |-> h, ownership |-> "own"]}}
    \cup {<<"preopen", i>> : i \in {j \in DOMAIN preopens :
             preopens[j].host = h /\ preopens[j].is_open /\ preopens[j].ownership = "own"}}
    \cup {<<"table", i>> : i \in {j \in DOMAIN fd_table :
             fd_table[j] # Closed /\ fd_table[j].host = h}}

(* Whatever the guest closes and renumbers, and whichever step of it fails, *)
(* every handle that is the runtime's to close is held in exactly one place *)
(* (no handle leaks, none is closed twice), and no place holds a handle     *)
(* that is not the runtime's (closeFd, fd_renumber, allocFd, deinit).       *)
HandlesHeldOnce ==
    \A h \in Handles :
        Cardinality(Holders(h)) = IF os[h] # Free /\ os[h].by = "runtime" THEN 1 ELSE 0

(* A handle of the embedding program is closed by the runtime only when the *)
(* guest closes or replaces the preopen it was lent as: never at teardown,  *)
(* never because a stale handle number was closed once more (Ownership).    *)
HostHandleKept ==
    [][\A h \in Handles :
          (os[h] # Free /\ os[h].by = "host" /\ os'[h] # os[h]) =>
              \/ os'[h] # Free /\ phase = "load"
              \/ HostCloses(h)
              \/ /\ phase = "run"
                 /\ \E i \in DOMAIN preopens : /\ preopens[i].host = h
                                               /\ preopens[i].is_open
                                               /\ ~preopens'[i].is_open]_wasiVars

\* The descriptors as the guest sees them.
AllFds == 0 .. MaxPreopens + 2 + MaxTable
Named(h) == IF os[h] = Free THEN Free ELSE os[h].obj
FileOf(fd) == LET e == getHostHandle(Ctx, fd)
             IN  IF e = {} THEN Free ELSE Named((CHOOSE x \in e : TRUE).host)

Guest == INSTANCE FdMap WITH
    AnyFd <- AllFds, File <- Objects, Nothing <- Free,
    fds <- [fd \in AllFds |-> FileOf(fd)],
    stdio <- [fd \in 0 .. 2 |-> IF phase = "done" /\ stdio_fds[fd].ownership = "own"
                                THEN Free ELSE Named(stdio_fds[fd].host)],
    based <- fd_base # 0

(* The table implements the map of descriptors FdMap specifies: a call on   *)
(* one descriptor does not change what another one names, a failed          *)
(* fd_renumber loses at most its two descriptors, and the numbers move at   *)
(* most once, at the first path_open.                                       *)
ImplementsFdMap == Guest!FdMapSpec
=============================================================================
