------------------------------ MODULE MCMemory ------------------------------
(***************************************************************************)
(* The memories of a store for the model checker: linear memory, the queue *)
(* of its waiters, and the pages of object fields. In the models the three *)
(* share no state, so that their interleavings add nothing: each moves     *)
(* while the others are in their initial states. The queue is followed     *)
(* until the entry of a queued thread is displaced: its properties claim   *)
(* nothing from there on, and WaitRemove.cfg shows what can happen.        *)
(***************************************************************************)
EXTENDS LinearMemory, WaitQueue, FieldArena

MCInit == Init /\ WaitInit /\ ArenaInit
\* Init leaves a choice; what moves does not depend on it.
MemoryRests == Init /\ kind = "guarded"
QueueRests == WaitInit

MCNext ==
    \/ QueueRests /\ ArenaInit /\ Next /\ UNCHANGED <<waitVars, arenaVars>>
    \/ MemoryRests /\ ArenaInit /\ ~displaced /\ WaitNext /\ UNCHANGED <<vars, arenaVars>>
    \/ MemoryRests /\ QueueRests /\ ArenaNext /\ UNCHANGED <<vars, waitVars>>

MCSpec == MCInit /\ [][MCNext]_<<vars, waitVars, arenaVars>> /\ WaitFairness

(* The variables of linear memory, of the wait queue and of the arena keep *)
(* their types; no memory grows beyond its limits (Memory.grow).           *)
MemoryTypesOK == TypeOK /\ WaitTypeOK /\ ArenaTypeOK
=============================================================================
