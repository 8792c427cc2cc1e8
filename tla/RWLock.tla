------------------------------- MODULE RWLock -------------------------------
(***************************************************************************)
(* What every DataSpaces lock promises, whatever its type: a named lock is *)
(* held either by any number of clients for reading or by one client for   *)
(* writing.  DsgLock implements this specification for the three lock      *)
(* types of dataspaces.conf.                                               *)
(***************************************************************************)
EXTENDS FiniteSets

CONSTANTS Clients,  \* those who may hold a lock
          Locks     \* the names of the locks

VARIABLES readers,  \* readers[n]: the clients that hold n for reading
          writers   \* writers[n]: the clients that hold n for writing

vars == <<readers, writers>>

Init ==
    /\ readers = [n \in Locks |-> {}]
    /\ writers = [n \in Locks |-> {}]

AcquireRead(n, c) ==
    /\ writers[n] = {}
    /\ c \notin readers[n]
    /\ readers' = [readers EXCEPT ![n] = @ \cup {c}]
    /\ UNCHANGED writers

AcquireWrite(n, c) ==
    /\ readers[n] = {}
    /\ writers[n] = {}
    /\ writers' = [writers EXCEPT ![n] = {c}]
    /\ UNCHANGED readers

ReleaseRead(n, c) ==
    /\ c \in readers[n]
    /\ readers' = [readers EXCEPT ![n] = @ \ {c}]
    /\ UNCHANGED writers

ReleaseWrite(n, c) ==
    /\ c \in writers[n]
    /\ writers' = [writers EXCEPT ![n] = @ \ {c}]
    /\ UNCHANGED readers

Next ==
    \E n \in Locks, c \in Clients :
        \/ AcquireRead(n, c)
        \/ AcquireWrite(n, c)
        \/ ReleaseRead(n, c)
        \/ ReleaseWrite(n, c)

Spec == Init /\ [][Next]_vars
=============================================================================
