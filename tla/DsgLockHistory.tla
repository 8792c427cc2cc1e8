-------------------------- MODULE DsgLockHistory ---------------------------
(***************************************************************************)
(* The lock service with a record of what has been written: lock type 3    *)
(* promises that a read lock is granted only after the first write.        *)
(***************************************************************************)
EXTENDS DsgLock

VARIABLE written  \* history: the names a writing application has released

hvars == <<vars, written>>

(* The names whose write lock the step releases.  The master sends the     *)
(* release when all processes of its application are past their writing.   *)
ReleasedByWriter ==
    {op[p].name : p \in {q \in Procs : /\ op[q].mode = "write"
                                       /\ pc[q] = "releasing"
                                       /\ pc'[q] # "releasing"}}

HInit == Init /\ written = {}
HNext == Next /\ written' = written \cup ReleasedByWriter
HSpec == HInit /\ [][HNext]_hvars

(* Under the v3 lock an application reads only what has been written: a    *)
(* process is between dspaces_lock_on_read and dspaces_unlock_on_read only *)
(* after all processes of an application that writes have called           *)
(* dspaces_unlock_on_write on that name (lock_process_request_v3 with its  *)
(* wr_epoch, the barriers of the lock operations).                         *)
ReadAfterWrite ==
    \A p \in Procs, n \in Names : Holds(p, n, "read") => n \in written
=============================================================================
