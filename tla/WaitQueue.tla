----------------------------- MODULE WaitQueue ------------------------------
(***************************************************************************)
(* memory.atomic.wait32/64 and memory.atomic.notify on a shared memory     *)
(* (WaitQueue and Memory.atomicWait32, atomicWait64, atomicNotify,         *)
(* condTimedWait in src/src/memory.zig).                                   *)
(*                                                                         *)
(* A waiting thread appends an entry to a list and sleeps on the condition *)
(* variable inside that entry.  It remembers the entry by its index and by *)
(* its place in the list's buffer, while orderedRemove moves the entries   *)
(* of others and an append to a full list may move them all to another     *)
(* buffer.  Each critical section of the queue's mutex is one action;      *)
(* what the code does outside the mutex (loading the word, creating the    *)
(* queue, looking at the condition variable's counters) are steps of their *)
(* own.  The condition variable is std.Io.Condition as condTimedWait       *)
(* mirrors it: a count of waiters and one of signals; the futex below it   *)
(* may wake a sleeper at any time.                                         *)
(***************************************************************************)
EXTENDS Integers, FiniteSets

CONSTANTS
    Thread,      \* the threads that wait
    Addr,        \* word addresses of the shared memory
    Counts,      \* the count operands of notify
    MaxI32,      \* the largest i32, 2^31 - 1 in the code
    MaxState,    \* the largest value of the u16 counters of a condition
    TimedWaits,  \* which waits occur: TRUE has a timeout, FALSE has none
    LazyQueue,   \* does the first wait find no queue yet?
    MayOom,      \* can the append to the list fail?
    Spare,       \* the entries by which a full list grows (std.ArrayList)
    MaxMoves,    \* bound on the number of times growing moves the list
    MaxCounted   \* bound on how often one entry is counted by notify

ASSUME WaitAssumption ==
    /\ IsFiniteSet(Thread)
    /\ Counts \subseteq Nat
    /\ MaxI32 \in Nat /\ MaxState \in Nat \ {0} /\ MaxCounted \in Nat
    /\ Spare \in Nat \ {0} /\ MaxMoves \in Nat
    /\ TimedWaits \subseteq BOOLEAN
    /\ LazyQueue \in BOOLEAN /\ MayOom \in BOOLEAN

VARIABLES
    word,      \* the 32-bit word at each address, two values
    cur,       \* the buffer of the current queue; 0 is a null wait_queue
    slots,     \* slots[b][i]: the memory of entry i of buffer b
    waiting,   \* waiters.items.len of the current queue
    cap,       \* waiters.capacity of the current queue
    moves,     \* how often growing may still move the list
    displaced, \* history: has the entry of a queued thread been somewhere else
               \* than where the thread looks for it?
    pc,
    at,        \* the address a thread waits at, or None
    timed,     \* timeout_ns >= 0
    idx,       \* the index it appended its entry at
    buf,       \* the buffer that entry is in
    result,    \* what the wait returned
    panicked,  \* a safety check of the build stopped the process
    counted    \* history: how often notify has counted the thread as woken

listVars  == <<cur, waiting, cap, moves, displaced>>
queueVars == <<slots, listVars>>
callVars  == <<at, timed>>
waitVars == <<word, queueVars, pc, callVars, idx, buf, result, panicked, counted>>

None  == "none"
Index == 1 .. Cardinality(Thread)
Bufs  == 1 .. Cardinality(Thread) + MaxMoves
Slot  == [addr : Addr \cup {None}, owner : Thread \cup {None},
          waiters : 0 .. MaxState, signals : 0 .. MaxState]
NoSlot == [addr |-> None, owner |-> None, waiters |-> 0, signals |-> 0]
\* What a safe build writes over removed memory (0xaa bytes).
Poison == [addr |-> None, owner |-> None, waiters |-> MaxState,
           signals |-> MaxState]

Queued == {"asleep", "awake", "expiring", "leaving"}
PCs == {"idle", "checked", "creating", "ready", "returned"} \cup Queued

WaitInit ==
    /\ word = [a \in Addr |-> 0]
    /\ cur = IF LazyQueue THEN 0 ELSE 1
    /\ slots = [b \in Bufs |-> [i \in Index |-> NoSlot]]
    /\ waiting = 0 /\ cap = 0 /\ moves = MaxMoves /\ displaced = FALSE
    /\ pc = [t \in Thread |-> "idle"]
    /\ at = [t \in Thread |-> None]
    /\ timed = [t \in Thread |-> FALSE]
    /\ idx = [t \in Thread |-> 1] /\ buf = [t \in Thread |-> 1]
    /\ result = [t \in Thread |-> 0]
    /\ panicked = FALSE
    /\ counted = [t \in Thread |-> 0]

Goto(t, label) == pc' = [pc EXCEPT ![t] = label]
Cond(t) == slots[buf[t]][idx[t]]
SetCond(t, w, s) ==
    slots' = [slots EXCEPT ![buf[t]][idx[t]] =
                [@ EXCEPT !.waiters = w, !.signals = s]]

\* The entry of t is in the list, at the index and in the buffer t remembers.
InPlace(t) == buf[t] = cur /\ idx[t] <= waiting /\ slots[cur][idx[t]].owner = t
Displace ==
    displaced' = (displaced \/ \E t \in Thread : pc'[t] \in Queued /\ ~InPlace(t)')

-----------------------------------------------------------------------------
(***************************************************************************)
(* A wait.                                                                 *)
(***************************************************************************)

\* The word is loaded and compared with the operand e before the mutex is taken.
Load(t, a, e, d) ==
    /\ pc[t] = "idle"
    /\ at' = [at EXCEPT ![t] = a]
    /\ timed' = [timed EXCEPT ![t] = d]
    /\ IF word[a] # e
       THEN Goto(t, "returned") /\ result' = [result EXCEPT ![t] = 1]
       ELSE Goto(t, "checked") /\ UNCHANGED result
    /\ UNCHANGED <<word, queueVars, idx, buf, panicked, counted>>

\* ensureWaitQueue: the test for null, without a lock.
Ensure(t) ==
    /\ pc[t] = "checked"
    /\ Goto(t, IF cur = 0 THEN "creating" ELSE "ready")
    /\ UNCHANGED <<word, queueVars, callVars, idx, buf, result, panicked, counted>>

\* ... and the assignment of an empty queue.
Create(t) ==
    /\ pc[t] = "creating"
    /\ cur' = cur + 1 /\ waiting' = 0 /\ cap' = 0
    /\ Goto(t, "ready")
    /\ UNCHANGED <<word, slots, moves, callVars, idx, buf, result, panicked, counted>>
    /\ Displace

Entry(t) == [addr |-> at[t], owner |-> t, waiters |-> 1, signals |-> 0]

\* waiters.append: a full list grows where it is, or its entries are copied to
\* another buffer, and the old one is poisoned or keeps its bytes.
AppendEntry(t) ==
    /\ waiting' = waiting + 1
    /\ cap' = IF waiting < cap THEN cap ELSE cap + Spare
    /\ \/ /\ slots' = [slots EXCEPT ![cur][waiting + 1] = Entry(t)]
          /\ UNCHANGED <<cur, moves>>
       \/ /\ waiting >= cap /\ waiting > 0 /\ moves > 0
          /\ cur' = cur + 1 /\ moves' = moves - 1
          /\ \E left \in {slots[cur], [i \in Index |-> Poison]} :
               slots' = [slots EXCEPT ![cur] = left,
                           ![cur + 1] = [slots[cur] EXCEPT ![waiting + 1] = Entry(t)]]

\* lock; append the entry; join its condition and sleep, releasing the mutex.
Enqueue(t) ==
    /\ pc[t] = "ready"
    /\ AppendEntry(t)
    /\ idx' = [idx EXCEPT ![t] = waiting + 1]
    /\ buf' = [buf EXCEPT ![t] = cur']
    /\ Goto(t, "asleep")
    /\ UNCHANGED <<word, callVars, result, panicked, counted>>
    /\ Displace

\* The append fails: `treat alloc failure as timeout'.
EnqueueOom(t) ==
    /\ MayOom
    /\ pc[t] = "ready"
    /\ result' = [result EXCEPT ![t] = 2]
    /\ Goto(t, "returned")
    /\ UNCHANGED <<word, queueVars, callVars, idx, buf, panicked, counted>>

\* futexWait returns for any other reason than a signal.
Awaken(t) ==
    /\ pc[t] = "asleep"
    /\ Goto(t, "awake")
    /\ UNCHANGED <<word, queueVars, callVars, idx, buf, result, panicked, counted>>

\* Mutant: a wake-up counts as success without a signal.
ConsumeAny(t) ==
    /\ pc[t] = "awake"
    /\ SetCond(t, 0, 0)
    /\ result' = [result EXCEPT ![t] = 0]
    /\ Goto(t, "leaving")
    /\ UNCHANGED <<word, listVars, callVars, idx, buf, panicked, counted>>

\* A pending signal is consumed.  With no waiter left in the counter, the
\* subtraction stops a safe build and wraps in another (stops).
Consume(t) ==
    /\ pc[t] = "awake"
    /\ Cond(t).signals > 0
    /\ \E stops \in BOOLEAN :
         IF Cond(t).waiters = 0 /\ stops
         THEN panicked' = TRUE /\ UNCHANGED <<slots, result, pc>>
         ELSE /\ SetCond(t, IF Cond(t).waiters = 0 THEN MaxState ELSE Cond(t).waiters - 1,
                         Cond(t).signals - 1)
              /\ result' = [result EXCEPT ![t] = 0]
              /\ Goto(t, "leaving")
              /\ UNCHANGED panicked
    /\ UNCHANGED <<word, listVars, callVars, idx, buf, counted>>

\* No signal, and the deadline (if any) has not passed: wait again.
Resleep(t) ==
    /\ pc[t] = "awake"
    /\ Cond(t).signals = 0
    /\ Goto(t, "asleep")
    /\ UNCHANGED <<word, queueVars, callVars, idx, buf, result, panicked, counted>>

\* No signal and the deadline has passed.
GiveUp(t) ==
    /\ pc[t] = "awake"
    /\ timed[t]
    /\ Cond(t).signals = 0
    /\ Goto(t, "expiring")
    /\ UNCHANGED <<word, queueVars, callVars, idx, buf, result, panicked, counted>>

\* state.fetchSub of one waiter; from 0 the packed counters both wrap.
Expire(t) ==
    /\ pc[t] = "expiring"
    /\ IF Cond(t).waiters > 0
       THEN SetCond(t, Cond(t).waiters - 1, Cond(t).signals)
       ELSE SetCond(t, MaxState,
                    IF Cond(t).signals > 0 THEN Cond(t).signals - 1 ELSE MaxState)
    /\ result' = [result EXCEPT ![t] = 2]
    /\ Goto(t, "leaving")
    /\ UNCHANGED <<word, listVars, callVars, idx, buf, panicked, counted>>

\* What the list's buffer holds once entry i is gone: the entries above it
\* move down and the last place keeps its bytes or is poisoned.
Removed(b, i, last) ==
    [j \in Index |-> IF j >= i /\ j < waiting THEN b[j + 1]
                     ELSE IF j = waiting THEN last ELSE b[j]]

\* The memory that counts when t has left: the places of the list, and those
\* where another thread sleeps.  Of the rest nobody reads a byte before an
\* append writes it, so what it holds is not told apart.
Matters(t, b, i) ==
    \/ b = cur /\ i < waiting
    \/ \E s \in Thread \ {t} : pc[s] \in Queued /\ buf[s] = b /\ idx[s] = i

\* lock; removeWaiter(idx); unlock.  An index beyond the list is caught by
\* the bounds check of orderedRemove.
LeaveQueue(t) ==
    /\ pc[t] = "leaving"
    /\ UNCHANGED <<word, callVars, idx, buf, result, counted>>
    /\ IF idx[t] > waiting
       THEN panicked' = TRUE /\ UNCHANGED <<queueVars, pc>>
       ELSE /\ \E last \in {slots[cur][waiting], Poison} :
                 slots' = [b \in Bufs |-> [i \in Index |->
                    IF ~Matters(t, b, i) THEN NoSlot
                    ELSE IF b = cur THEN Removed(slots[b], idx[t], last)[i]
                    ELSE slots[b][i]]]
            /\ waiting' = waiting - 1
            /\ Goto(t, "returned")
            /\ UNCHANGED <<cur, cap, moves, panicked>>
            /\ Displace

\* The result is used and the thread goes on; the variables of the call, here
\* those that name the entry as well, are gone.
Return(t) ==
    /\ pc[t] = "returned"
    /\ Goto(t, "idle")
    /\ at' = [at EXCEPT ![t] = None] /\ timed' = [timed EXCEPT ![t] = FALSE]
    /\ idx' = [idx EXCEPT ![t] = 1] /\ buf' = [buf EXCEPT ![t] = 1]
    /\ result' = [result EXCEPT ![t] = 0]
    /\ counted' = [counted EXCEPT ![t] = 0]
    /\ UNCHANGED <<word, queueVars, panicked>>

-----------------------------------------------------------------------------
(***************************************************************************)
(* Another thread stores to the word and notifies.                         *)
(***************************************************************************)

StoreWord(a) ==
    /\ word' = [word EXCEPT ![a] = 1 - @]
    /\ UNCHANGED <<queueVars, pc, callVars, idx, buf, result, panicked, counted>>

Sleepers(i) == {t \in Thread : pc[t] = "asleep" /\ buf[t] = cur /\ idx[t] = i}
Matching(a) == {i \in 1 .. waiting : slots[cur][i].addr = a}
\* The entries the loop of atomicNotify signals: the first c matching ones.
Signalled(a, c) ==
    {i \in Matching(a) : Cardinality({j \in Matching(a) : j < i}) < c}

\* Condition.signal adds a signal if some waiter has none, and wakes one
\* sleeper of the futex.
Unsignalled(i) == slots[cur][i].waiters > slots[cur][i].signals

\* Mutant: counts without signalling.
NotifyNoSignal(a, c) ==
    /\ cur # 0 /\ c # 0
    /\ counted' = [t \in Thread |->
         counted[t] + Cardinality({i \in Signalled(a, c) : slots[cur][i].owner = t})]
    /\ \A t \in Thread : counted'[t] <= MaxCounted
    /\ UNCHANGED <<word, queueVars, pc, callVars, idx, buf, result, panicked>>

\* With no queue, or a count of 0, notify returns 0 and changes nothing.
Notify(a, c) ==
    /\ cur # 0 /\ c # 0
    /\ ~(c > MaxI32 /\ waiting > 0)
    /\ LET S == Signalled(a, c)
           U == {i \in S : Unsignalled(i)}
       IN  /\ slots' = [slots EXCEPT ![cur] = [i \in Index |->
                 IF i \in U THEN [slots[cur][i] EXCEPT !.signals = @ + 1]
                 ELSE slots[cur][i]]]
           /\ \E W \in SUBSET UNION {Sleepers(i) : i \in U} :
                /\ \A i \in U : Sleepers(i) # {} =>
                                Cardinality(W \cap Sleepers(i)) = 1
                /\ pc' = [t \in Thread |-> IF t \in W THEN "awake" ELSE pc[t]]
           /\ counted' = [t \in Thread |->
                 counted[t] + Cardinality({i \in S : slots[cur][i].owner = t})]
    /\ \A t \in Thread : counted'[t] <= MaxCounted
    /\ UNCHANGED <<word, listVars, callVars, idx, buf, result, panicked>>

\* @intCast of a count above the largest i32, evaluated when there is a waiter.
NotifyPanic(a, c) ==
    /\ cur # 0 /\ c > MaxI32 /\ waiting > 0
    /\ panicked' = TRUE
    /\ UNCHANGED <<word, queueVars, pc, callVars, idx, buf, result, counted>>

-----------------------------------------------------------------------------
WaitStep(t) ==
    \/ Ensure(t) \/ Create(t) \/ Enqueue(t) \/ Consume(t) \/ Expire(t)
    \/ LeaveQueue(t) \/ Return(t)

ThreadStep(t) ==
    \/ \E a \in Addr, e \in {0, 1}, d \in TimedWaits : Load(t, a, e, d)
    \/ WaitStep(t) \/ EnqueueOom(t) \/ Awaken(t) \/ Resleep(t) \/ GiveUp(t)

WaitNext ==
    /\ ~panicked
    /\ \/ \E t \in Thread : ThreadStep(t)
       \/ \E a \in Addr : StoreWord(a)
       \/ \E a \in Addr, c \in Counts : Notify(a, c) \/ NotifyPanic(a, c)

\* A thread that can run runs.  A sleeper need only wake by itself when it
\* has a timeout; its deadline passes in the end, however often it looks.
WaitFairness ==
    \A t \in Thread :
       /\ WF_waitVars(~panicked /\ WaitStep(t))
       /\ WF_waitVars(~panicked /\ timed[t] /\ Awaken(t))
       /\ SF_waitVars(~panicked /\ GiveUp(t))
       /\ WF_waitVars(~panicked /\ Resleep(t))

WaitSpec == WaitInit /\ [][WaitNext]_waitVars /\ WaitFairness

-----------------------------------------------------------------------------
\* Every variable keeps its type.
WaitTypeOK ==
    /\ word \in [Addr -> {0, 1}]
    /\ cur \in Bufs \cup {0}
    /\ slots \in [Bufs -> [Index -> Slot]]
    /\ waiting \in 0 .. Cardinality(Thread)
    /\ cap \in Nat /\ moves \in 0 .. MaxMoves /\ displaced \in BOOLEAN
    /\ pc \in [Thread -> PCs]
    /\ at \in [Thread -> Addr \cup {None}]
    /\ timed \in [Thread -> BOOLEAN]
    /\ idx \in [Thread -> Index] /\ buf \in [Thread -> Bufs]
    /\ result \in [Thread -> 0 .. 2]
    /\ panicked \in BOOLEAN
    /\ counted \in [Thread -> 0 .. MaxCounted]

(* A thread that leaves the queue (`Woken (or timed out) - remove self     *)
(* from waiters') removes the entry it added and no other.                 *)
RemovesSelf ==
    [][\A t \in Thread : pc[t] = "leaving" /\ pc'[t] = "returned" =>
          slots[cur][idx[t]].owner = t]_waitVars

(* A wait reports 0 (woken) only if a notify counted the thread, however   *)
(* notifies race with its deadline (condTimedWait, atomicNotify), as long  *)
(* as the comings and goings of others have displaced no entry.            *)
WokenWasNotified ==
    ~displaced => \A t \in Thread :
       pc[t] \in {"leaving", "returned"} /\ result[t] = 0 => counted[t] > 0

(* A sleeper that a notify has counted returns, and so does one with a     *)
(* timeout, whoever notifies or does not, unless the process stops or an   *)
(* entry is displaced, when a thread may sleep where nobody signals it     *)
(* (condTimedWait, atomicNotify).                                          *)
WaitReturns ==
    \A t \in Thread :
        ((pc[t] = "asleep" /\ timed[t]) \/ (pc[t] \in {"asleep", "awake"} /\ counted[t] > 0))
           ~> (pc[t] = "returned" \/ panicked \/ displaced)
=============================================================================
