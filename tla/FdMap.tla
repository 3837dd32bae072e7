-------------------------------- MODULE FdMap --------------------------------
(***************************************************************************)
(* What a guest may rely on when it uses WASI file descriptors: a map from *)
(* descriptor numbers to the files they name.  An operation on one         *)
(* descriptor never changes what another one names, with one exception the *)
(* host has: the first path_open may move descriptors that fd_renumber     *)
(* made before it, all by the same distance, and at most once.  WasiFd is  *)
(* shown to implement this specification.                                  *)
(***************************************************************************)
EXTENDS Integers

CONSTANTS
    AnyFd,     \* the descriptor numbers
    File,      \* what a descriptor can name
    Nothing     \* what a closed descriptor names

VARIABLES
    fds,       \* what every descriptor names
    stdio,     \* what the host's own streams, 0 to 2, name
    based      \* has a file been opened yet?

fdMapVars == <<fds, stdio, based>>

FdMapTypeOK ==
    /\ fds \in [AnyFd -> File \cup {Nothing}]
    /\ stdio \in [0 .. 2 -> File \cup {Nothing}]
    /\ based \in BOOLEAN

FdMapInit == FdMapTypeOK /\ ~based

-----------------------------------------------------------------------------
\* The ways in which the map may change from was to is.

\* A file is opened, or preopened, under a number that names nothing.
Opens(was, is) ==
    \E fd \in AnyFd, f \in File : was[fd] = Nothing /\ is = [was EXCEPT ![fd] = f]

Closes(was, is) == \E fd \in AnyFd : is = [was EXCEPT ![fd] = Nothing]

\* What from names is moved to the number to, whatever was there; a stream
\* of the host's is copied, over whatever hides behind its number.
Renumbers(was, is) ==
    \E from \in AnyFd, to \in {fd \in AnyFd : is[fd] # Nothing} :
        LET f == IF from \in 0 .. 2 THEN stdio[from] ELSE was[from]
        IN  /\ f # Nothing
            /\ from # to \/ from \in 0 .. 2
            /\ is = [was EXCEPT ![from] = Nothing, ![to] = f]

\* It fails: each of the two may have been closed, nothing else is touched.
RenumberFails(was, is) ==
    \E from \in {fd \in AnyFd : was[fd] # Nothing}, to \in AnyFd :
        /\ is = [was EXCEPT ![from] = Nothing, ![to] = Nothing]

\* The first path_open: the descriptors in moved go n numbers up, then the
\* file is opened, unless memory runs out.
FirstOpens(was, is) ==
    \E moved \in SUBSET {fd \in AnyFd : was[fd] # Nothing}, n \in AnyFd :
        LET mid == [fd \in AnyFd |-> IF fd - n \in moved THEN was[fd - n]
                                     ELSE IF fd \in moved THEN Nothing ELSE was[fd]]
        IN  /\ \A fd \in moved : /\ fd + n \in AnyFd
                                 /\ fd + n \in moved \/ was[fd + n] = Nothing
            /\ is = mid \/ Opens(mid, is)

FdMapNext ==
    \* a call that fails, or only reads, writes and seeks
    \/ UNCHANGED fdMapVars
    \/ /\ \/ Opens(fds, fds')
          \/ Closes(fds, fds')
          \/ Renumbers(fds, fds')
          \/ RenumberFails(fds, fds')
       /\ UNCHANGED <<stdio, based>>
    \/ ~based /\ based' /\ FirstOpens(fds, fds') /\ UNCHANGED stdio
    \* the loader replaces one of the host's streams
    \/ /\ \E fd \in 0 .. 2, f \in File : stdio' = [stdio EXCEPT ![fd] = f]
       /\ UNCHANGED <<fds, based>>
    \* the module is unloaded
    \/ /\ fds' = [fd \in AnyFd |-> Nothing]
       /\ stdio' \in [0 .. 2 -> File \cup {Nothing}]
       /\ \A fd \in 0 .. 2 : stdio'[fd] \in {stdio[fd], Nothing}
       /\ UNCHANGED based

FdMapSpec == FdMapInit /\ [][FdMapNext]_fdMapVars
=============================================================================
