------------------------------ MODULE DsgLock -------------------------------
(***************************************************************************)
(* The lock service: dspaces_lock_on_read/write and dspaces_unlock_on_     *)
(* read/write on the client side (src/src/dc_gspace.c), the lock manager   *)
(* that runs on server 0 (src/src/ds_gspace.c), and the connections        *)
(* between them.                                                           *)
(*                                                                         *)
(* An application is a group of processes that call the lock operations    *)
(* collectively.  Only its master (the process of lowest rank) talks to    *)
(* the server; the others meet it in a barrier, after the grant when they  *)
(* lock and before the release when they unlock.                           *)
(*                                                                         *)
(* The server is one thread.  One request is one Receive step, followed,   *)
(* when the request frees the lock, by one ProcessWaitList step per turn   *)
(* of the loop over the wait list; no other request is received until the  *)
(* loop ends, but the clients run on while it sends its grants.            *)
(***************************************************************************)
EXTENDS Integers, Sequences, FiniteSets

CONSTANTS
    Procs,       \* client processes
    Apps,        \* client applications
    AppOf,       \* AppOf[p]: the application of process p
    Master,      \* Master[a]: the process of application a of lowest rank
    Names,       \* lock names
    LockType,    \* ds_conf.lock_type
    MaxReaders,  \* ds_conf.max_readers
    ReadApps,    \* the applications that lock for reading
    WriteApps,   \* the applications that lock for writing
    MaxCalls     \* bound: lock operations a process performs

ASSUME TopologyAssumption ==
    /\ AppOf \in [Procs -> Apps]
    /\ Master \in [Apps -> Procs]
    /\ \A a \in Apps : AppOf[Master[a]] = a
    /\ IsFiniteSet(Procs)
    /\ Names # {}

ASSUME ConfAssumption ==
    /\ LockType \in {"generic", "custom", "v3"}
    /\ MaxReaders \in Nat \ {0}
    /\ MaxCalls \in Nat

VARIABLES
    pc,          \* pc[p]: where process p is in the lock operations
    op,          \* op[p]: the lock name and the mode of its current operation
    calls,       \* calls[p]: how many lock operations it has begun
    lock_num,    \* lock_num[p][n]: dcg_lock.lock_num
    ack,         \* ack[p][n]: dcg_lock.ack
    req,         \* req[p]: lock requests on the connection from p to server 0
    grant,       \* grant[p]: grants on the connection from server 0 to p
    lock,        \* lock[n]: the dsg_lock record of n
    wait_list,   \* wait_list[n]: dsg_lock.wait_list
    scan,        \* scan[n]: entry of wait_list[n] the server is at, 0 if none
    rd_holders,  \* history: whom the server granted n for reading
    wr_holders   \* history: whom the server granted n for writing

clientVars == <<pc, op, calls, lock_num, ack>>
serverVars == <<lock, wait_list, scan, rd_holders, wr_holders>>
vars == <<clientVars, req, grant, serverVars>>

Modes == {"read", "write"}
Calls == [name : Names, mode : Modes]
Requests == [kind : {"get", "release"}, mode : Modes, name : Names, num : Nat]
Pending == [proc : Procs, mode : Modes, num : Nat]
Grants == [name : Names, num : Nat]

IsMaster(p) == p = Master[AppOf[p]]
Members(a) == {p \in Procs : AppOf[p] = a}

(* The list without its i-th entry.                                         *)
list_del(s, i) == SubSeq(s, 1, i - 1) \o SubSeq(s, i + 1, Len(s))

-----------------------------------------------------------------------------
(* The lock manager: the three lock types.                                 *)

LockRecords ==
    [rd_cnt : Int, wr_cnt : Int, rd_notify_cnt : Nat, wr_notify_cnt : Nat,
     rd_epoch : Nat, wr_epoch : Nat,
     rd_lock_state : {"unlocked", "locked"},
     wr_lock_state : {"unlocked", "locked"}]

WrMax == 1

(* lock_init, sem_init and lock_init_v3 on the zeroed record of             *)
(* dsg_lock_alloc.                                                         *)
NewLock ==
    [rd_cnt |-> 0, wr_cnt |-> IF LockType = "custom" THEN WrMax ELSE 0,
     rd_notify_cnt |-> 0, wr_notify_cnt |-> 0, rd_epoch |-> 0, wr_epoch |-> 0,
     rd_lock_state |-> "unlocked", wr_lock_state |-> "unlocked"]

Result(dl, action) == [lock |-> dl, action |-> action]

lock_process_request(dl, m, may_grant) ==
    CASE m.kind = "get" /\ m.mode = "read" ->
           IF dl.wr_lock_state = "unlocked" /\ may_grant
           THEN Result([dl EXCEPT !.rd_cnt = @ + 1,
                                  !.rd_lock_state = "locked"], "grant")
           ELSE Result(dl, "wait")
      [] m.kind = "release" /\ m.mode = "read" ->
           IF dl.rd_cnt = 1
           THEN Result([dl EXCEPT !.rd_cnt = 0,
                                  !.rd_lock_state = "unlocked"], "notify")
           ELSE Result([dl EXCEPT !.rd_cnt = @ - 1], "none")
      [] m.kind = "get" /\ m.mode = "write" ->
           IF dl.rd_lock_state = "unlocked" /\ dl.wr_cnt = 0
           THEN Result([dl EXCEPT !.wr_cnt = @ + 1,
                                  !.wr_lock_state = "locked"], "grant")
           ELSE Result(dl, "wait")
      [] m.kind = "release" /\ m.mode = "write" ->
           IF dl.wr_cnt = 1
           THEN Result([dl EXCEPT !.wr_cnt = 0,
                                  !.wr_lock_state = "unlocked"], "notify")
           ELSE Result([dl EXCEPT !.wr_cnt = @ - 1], "none")

sem_process_request(dl, m) ==
    CASE m.kind = "get" /\ m.mode = "read" ->
           IF dl.rd_cnt > 0 /\ m.num = dl.rd_epoch
           THEN Result([dl EXCEPT !.rd_cnt = @ - 1], "grant")
           ELSE Result(dl, "wait")
      [] m.kind = "release" /\ m.mode = "read" ->
           IF dl.rd_notify_cnt + 1 = MaxReaders
           THEN Result([dl EXCEPT !.rd_notify_cnt = 0, !.wr_cnt = WrMax,
                                  !.rd_epoch = @ + 1], "notify")
           ELSE Result([dl EXCEPT !.rd_notify_cnt = @ + 1], "none")
      [] m.kind = "get" /\ m.mode = "write" ->
           IF dl.wr_cnt > 0 /\ m.num = dl.wr_epoch
           THEN Result([dl EXCEPT !.wr_cnt = @ - 1], "grant")
           ELSE Result(dl, "wait")
      [] m.kind = "release" /\ m.mode = "write" ->
           IF dl.wr_notify_cnt + 1 = WrMax
           THEN Result([dl EXCEPT !.wr_notify_cnt = 0, !.rd_cnt = MaxReaders,
                                  !.wr_epoch = @ + 1], "notify")
           ELSE Result([dl EXCEPT !.wr_notify_cnt = @ + 1], "none")

(* lock_process_request_v3 differs from lock_process_request in two lines:  *)
(* a read lock also needs wr_epoch > 0, and the last write release          *)
(* increments wr_epoch.                                                    *)
lock_process_request_v3(dl, m, may_grant) ==
    CASE m.kind = "get" /\ m.mode = "read" ->
           lock_process_request(dl, m, dl.wr_epoch > 0 /\ may_grant)
      [] m.kind = "release" /\ m.mode = "write" /\ dl.wr_cnt = 1 ->
           Result([dl EXCEPT !.wr_cnt = 0, !.wr_lock_state = "unlocked",
                             !.wr_epoch = @ + 1], "notify")
      [] OTHER -> lock_process_request(dl, m, may_grant)

(* Mutants of process_request: the state of the writer is forgotten; every   *)
(* reader may be granted, whoever waits; lock type 3 is taken for type 1; the *)
(* custom lock does not look at the epoch.                                    *)
process_request_forgets_writer(dl, m, may_grant) ==
    lock_process_request([dl EXCEPT !.wr_lock_state = "unlocked"], m, may_grant)

process_request_overtakes(dl, m, may_grant) == lock_process_request(dl, m, TRUE)

process_request_v3_overtakes(dl, m, may_grant) == lock_process_request_v3(dl, m, TRUE)

process_request_type_1(dl, m, may_grant) == lock_process_request(dl, m, may_grant)

process_request_any_epoch(dl, m, may_grant) ==
    sem_process_request(dl, [m EXCEPT !.num = IF m.mode = "read" THEN dl.rd_epoch
                                                               ELSE dl.wr_epoch])

(* dsg_lock.process_request, the pointer dsg_lock_alloc sets.               *)
process_request(dl, m, may_grant) ==
    CASE LockType = "generic" -> lock_process_request(dl, m, may_grant)
      [] LockType = "custom"  -> sem_process_request(dl, m)
      [] LockType = "v3"      -> lock_process_request_v3(dl, m, may_grant)

-----------------------------------------------------------------------------
(* The lock manager: the handler of cp_lock messages.                       *)

ServerIdle == \A n \in Names : scan[n] = 0

(* Mutant: lock_num goes down.                                              *)
dsg_lock_grant_down(n, p, num, mode) ==
    /\ grant' = [grant EXCEPT ![p] = Append(@, [name |-> n, num |-> num - 1])]
    /\ rd_holders' = IF mode = "read"
                     THEN [rd_holders EXCEPT ![n] = @ \cup {p}]
                     ELSE rd_holders
    /\ wr_holders' = IF mode = "write"
                     THEN [wr_holders EXCEPT ![n] = @ \cup {p}]
                     ELSE wr_holders

(* dsg_lock_grant: lock_num in the reply is the one of the request plus 1.  *)
dsg_lock_grant(n, p, num, mode) ==
    /\ grant' = [grant EXCEPT ![p] = Append(@, [name |-> n, num |-> num + 1])]
    /\ rd_holders' = IF mode = "read"
                     THEN [rd_holders EXCEPT ![n] = @ \cup {p}]
                     ELSE rd_holders
    /\ wr_holders' = IF mode = "write"
                     THEN [wr_holders EXCEPT ![n] = @ \cup {p}]
                     ELSE wr_holders

dsg_lock_put_on_wait(n, p, m) ==
    wait_list' = [wait_list EXCEPT ![n] =
                     Append(@, [proc |-> p, mode |-> m.mode, num |-> m.num])]

(* dsgrpc_lock_service and the service function of the lock type, up to the *)
(* loop over the wait list.                                                *)
Receive(p) ==
    /\ ServerIdle
    /\ req[p] # <<>>
    /\ LET m == Head(req[p])
           n == m.name
           r == process_request(lock[n], m, wait_list[n] = <<>>)
       IN /\ req' = [req EXCEPT ![p] = Tail(@)]
          /\ lock' = [lock EXCEPT ![n] = r.lock]
          /\ \/ /\ r.action = "grant"
                /\ dsg_lock_grant(n, p, m.num, m.mode)
                /\ UNCHANGED <<wait_list, scan>>
             \/ /\ r.action = "wait"
                /\ dsg_lock_put_on_wait(n, p, m)
                /\ UNCHANGED <<grant, scan, rd_holders, wr_holders>>
             \/ /\ r.action \in {"notify", "none"}
                /\ rd_holders' = IF m.mode = "read"
                                 THEN [rd_holders EXCEPT ![n] = @ \ {p}]
                                 ELSE rd_holders
                /\ wr_holders' = IF m.mode = "write"
                                 THEN [wr_holders EXCEPT ![n] = @ \ {p}]
                                 ELSE wr_holders
                /\ scan' = [scan EXCEPT ![n] =
                               IF r.action = "notify" THEN 1 ELSE 0]
                /\ UNCHANGED <<grant, wait_list>>
    /\ UNCHANGED clientVars

(* Mutant: the loop over the wait list does not leave an entry that waits.   *)
ProcessWaitList_stays(n) ==
    /\ scan[n] # 0
    /\ IF scan[n] > Len(wait_list[n])
       THEN /\ scan' = [scan EXCEPT ![n] = 0]
            /\ UNCHANGED <<lock, wait_list, grant, rd_holders, wr_holders>>
       ELSE LET w == wait_list[n][scan[n]]
                m == [kind |-> "get", mode |-> w.mode, name |-> n, num |-> w.num]
                r == process_request(lock[n], m, TRUE)
            IN /\ lock' = [lock EXCEPT ![n] = r.lock]
               /\ \/ /\ r.action = "grant"
                     /\ dsg_lock_grant(n, w.proc, w.num, w.mode)
                     /\ wait_list' = [wait_list EXCEPT ![n] = list_del(@, scan[n])]
                  \/ /\ r.action = "wait"
                     /\ UNCHANGED <<wait_list, grant, rd_holders, wr_holders>>
               /\ UNCHANGED scan
    /\ UNCHANGED <<clientVars, req>>

(* One turn of the loop of lock_process_wait_list, sem_process_wait_list or *)
(* lock_process_wait_list_v3.  A request that has to wait ends the loops of *)
(* the generic and the v3 lock; that of the custom lock goes on to the next *)
(* entry.                                                                  *)
ProcessWaitList(n) ==
    /\ scan[n] # 0
    /\ IF scan[n] > Len(wait_list[n])
       THEN /\ scan' = [scan EXCEPT ![n] = 0]
            /\ UNCHANGED <<lock, wait_list, grant, rd_holders, wr_holders>>
       ELSE LET w == wait_list[n][scan[n]]
                m == [kind |-> "get", mode |-> w.mode, name |-> n, num |-> w.num]
                r == process_request(lock[n], m, TRUE)
            IN /\ lock' = [lock EXCEPT ![n] = r.lock]
               /\ \/ /\ r.action = "grant"
                     /\ dsg_lock_grant(n, w.proc, w.num, w.mode)
                     /\ wait_list' = [wait_list EXCEPT ![n] = list_del(@, scan[n])]
                     /\ UNCHANGED scan
                  \/ /\ r.action = "wait"
                     /\ scan' = [scan EXCEPT ![n] =
                                    IF LockType = "custom" THEN @ + 1 ELSE 0]
                     /\ UNCHANGED <<wait_list, grant, rd_holders, wr_holders>>
    /\ UNCHANGED <<clientVars, req>>

-----------------------------------------------------------------------------
(* The client: dcg_lock_on_read, dcg_lock_on_write, dcg_unlock_on_read and  *)
(* dcg_unlock_on_write, split where a process waits.                        *)

(* dcg_lock_request: the request carries the lock_num of the client.        *)
dcg_lock_request(p, kind, c) ==
    /\ req' = [req EXCEPT ![p] = Append(@,
                  [kind |-> kind, mode |-> c.mode, name |-> c.name,
                   num |-> lock_num[p][c.name]])]
    /\ ack' = [ack EXCEPT ![p][c.name] = FALSE]

(* The operations are collective: a process calls the one that the          *)
(* processes of its application that are ahead of it have called.           *)
Collective(p, c) ==
    \A q \in Members(AppOf[p]) : pc[q] \in {"acking", "lock_barrier"} => op[q] = c

(* Up to the wait for the grant (master) or for the barrier (the others).   *)
LockCall(p, c) ==
    /\ pc[p] = "idle"
    /\ calls[p] < MaxCalls
    /\ AppOf[p] \in (IF c.mode = "read" THEN ReadApps ELSE WriteApps)
    /\ Collective(p, c)
    /\ op' = [op EXCEPT ![p] = c]
    /\ calls' = [calls EXCEPT ![p] = @ + 1]
    /\ IF IsMaster(p)
       THEN /\ dcg_lock_request(p, "get", c)
            /\ pc' = [pc EXCEPT ![p] = "acking"]
       ELSE /\ pc' = [pc EXCEPT ![p] = "lock_barrier"]
            /\ UNCHANGED <<req, ack>>
    /\ UNCHANGED <<lock_num, grant, serverVars>>

(* dcgrpc_lock_service, called by dc_process when a grant arrives.          *)
GrantArrives(p) ==
    /\ grant[p] # <<>>
    /\ LET g == Head(grant[p])
       IN /\ lock_num' = [lock_num EXCEPT ![p][g.name] = g.num]
          /\ ack' = [ack EXCEPT ![p][g.name] = TRUE]
    /\ grant' = [grant EXCEPT ![p] = Tail(@)]
    /\ UNCHANGED <<pc, op, calls, req, serverVars>>

(* The master leaves the loop that waits for the grant.                     *)
AckSeen(p) ==
    /\ pc[p] = "acking"
    /\ ack[p][op[p].name]
    /\ pc' = [pc EXCEPT ![p] = "lock_barrier"]
    /\ UNCHANGED <<op, calls, lock_num, ack, req, grant, serverVars>>

(* MPI_Barrier at the end of the lock operations.  Leaving it is one step   *)
(* for all: a process that stays longer is one that has left and has not    *)
(* done anything yet.                                                      *)
LockBarrier(a) ==
    /\ \A p \in Members(a) : pc[p] = "lock_barrier"
    /\ pc' = [p \in Procs |-> IF p \in Members(a) THEN "held" ELSE pc[p]]
    /\ UNCHANGED <<op, calls, lock_num, ack, req, grant, serverVars>>

(* Mutant: the master releases the lock without waiting for the others.      *)
UnlockCall_no_barrier(p) ==
    /\ pc[p] = "held"
    /\ pc' = [pc EXCEPT ![p] = IF IsMaster(p) THEN "releasing" ELSE "idle"]
    /\ UNCHANGED <<op, calls, lock_num, ack, req, grant, serverVars>>

UnlockCall(p) ==
    /\ pc[p] = "held"
    /\ pc' = [pc EXCEPT ![p] = "unlock_barrier"]
    /\ UNCHANGED <<op, calls, lock_num, ack, req, grant, serverVars>>

(* MPI_Barrier at the start of the unlock operations, after which all but   *)
(* the master return.                                                      *)
UnlockBarrier(a) ==
    /\ \A p \in Members(a) : pc[p] = "unlock_barrier"
    /\ pc' = [p \in Procs |-> IF p \notin Members(a) THEN pc[p]
                              ELSE IF IsMaster(p) THEN "releasing" ELSE "idle"]
    /\ UNCHANGED <<op, calls, lock_num, ack, req, grant, serverVars>>

SendRelease(p) ==
    /\ pc[p] = "releasing"
    /\ dcg_lock_request(p, "release", op[p])
    /\ pc' = [pc EXCEPT ![p] = "idle"]
    /\ UNCHANGED <<op, calls, lock_num, grant, serverVars>>

-----------------------------------------------------------------------------
Init ==
    /\ pc = [p \in Procs |-> "idle"]
    /\ op \in [Procs -> {CHOOSE c \in Calls : TRUE}]
    /\ calls = [p \in Procs |-> 0]
    /\ lock_num = [p \in Procs |-> [n \in Names |-> 0]]
    /\ ack = [p \in Procs |-> [n \in Names |-> FALSE]]
    /\ req = [p \in Procs |-> <<>>]
    /\ grant = [p \in Procs |-> <<>>]
    /\ lock = [n \in Names |-> NewLock]
    /\ wait_list = [n \in Names |-> <<>>]
    /\ scan = [n \in Names |-> 0]
    /\ rd_holders = [n \in Names |-> {}]
    /\ wr_holders = [n \in Names |-> {}]

(* Every process has made its calls and all traffic has been dealt with.    *)
Finished ==
    /\ \A p \in Procs : pc[p] = "idle" /\ calls[p] = MaxCalls /\ req[p] = <<>>
    /\ ServerIdle

Next ==
    \/ \E p \in Procs :
          \/ \E c \in Calls : LockCall(p, c)
          \/ GrantArrives(p)
          \/ AckSeen(p)
          \/ UnlockCall(p)
          \/ SendRelease(p)
          \/ Receive(p)
    \/ \E a \in Apps : LockBarrier(a) \/ UnlockBarrier(a)
    \/ \E n \in Names : ProcessWaitList(n)
    \/ Finished /\ UNCHANGED vars

Spec == Init /\ [][Next]_vars

(* The server and the clients poll their connections in a loop, visiting    *)
(* every peer in every turn (rpc_process_event), so no request is passed     *)
(* over forever.  An application that holds a lock releases it, and the      *)
(* processes of an application join a collective operation one of them has  *)
(* begun.  Nothing obliges an application to begin one.                     *)
JoinCall(p, c) ==
    /\ \E q \in Members(AppOf[p]) : pc[q] \in {"acking", "lock_barrier"}
    /\ LockCall(p, c)

Fairness ==
    /\ \A p \in Procs :
          /\ WF_vars(\E c \in Calls : JoinCall(p, c))
          /\ WF_vars(GrantArrives(p))
          /\ WF_vars(AckSeen(p))
          /\ WF_vars(UnlockCall(p))
          /\ WF_vars(SendRelease(p))
          /\ SF_vars(Receive(p))
    /\ \A a \in Apps : WF_vars(LockBarrier(a)) /\ WF_vars(UnlockBarrier(a))
    /\ \A n \in Names : WF_vars(ProcessWaitList(n))

FairSpec == Spec /\ Fairness

(* In a coupled workflow every application goes through all its rounds.     *)
WorkflowSpec ==
    /\ FairSpec
    /\ \A p \in Procs : WF_vars(\E c \in Calls : LockCall(p, c))

-----------------------------------------------------------------------------
(* Properties.                                                             *)

(* Every variable keeps its type.                                          *)
TypeOK ==
    /\ pc \in [Procs -> {"idle", "acking", "lock_barrier", "held",
                         "unlock_barrier", "releasing"}]
    /\ op \in [Procs -> Calls]
    /\ calls \in [Procs -> 0..MaxCalls]
    /\ lock_num \in [Procs -> [Names -> Nat]]
    /\ ack \in [Procs -> [Names -> BOOLEAN]]
    /\ req \in [Procs -> Seq(Requests)]
    /\ grant \in [Procs -> Seq(Grants)]
    /\ lock \in [Names -> LockRecords]
    /\ wait_list \in [Names -> Seq(Pending)]
    /\ scan \in [Names -> Nat]
    /\ rd_holders \in [Names -> SUBSET Procs]
    /\ wr_holders \in [Names -> SUBSET Procs]

Holds(p, n, mode) == pc[p] = "held" /\ op[p] = [name |-> n, mode |-> mode]

(* While any process of an application is between dspaces_lock_on_write and *)
(* dspaces_unlock_on_write on a name, no process of another application is  *)
(* between its lock and unlock calls on that name.  It takes the server's   *)
(* counters, the order of barrier and request in the lock operations, and   *)
(* the opposite order in the unlock operations.                            *)
Exclusion ==
    \A p, q \in Procs, n \in Names :
        Holds(p, n, "write") /\ AppOf[p] # AppOf[q]
            => ~Holds(q, n, "read") /\ ~Holds(q, n, "write")

(* The holders the server has granted and not yet seen released form a      *)
(* readers-writer lock, for each of the three lock types.                   *)
RW == INSTANCE RWLock WITH Clients <- Procs, Locks <- Names,
                           readers <- rd_holders, writers <- wr_holders
ImplementsRWLock == RW!Spec

(* No wake-up is lost: when the server has finished with a message, the     *)
(* request at the head of a wait list (any request, for the custom lock,    *)
(* whose loop passes over those that must wait) is one it would still       *)
(* refuse, so the releases to come are enough to have it looked at again.   *)
NoLostWakeup ==
    ServerIdle =>
        \A n \in Names : \A i \in DOMAIN wait_list[n] :
            i = 1 \/ LockType = "custom" =>
                process_request(lock[n],
                    [kind |-> "get", mode |-> wait_list[n][i].mode, name |-> n,
                     num |-> wait_list[n][i].num], TRUE).action = "wait"

(* First come, first served: the generic lock never grants an arriving      *)
(* request over one that waits, although its write branch ignores           *)
(* may_grant.  The v3 lock does so only for a writer before the first       *)
(* write, when all who wait are readers that a writer has to release.       *)
ServedInTurn(n) ==
    LET granted == (rd_holders'[n] \ rd_holders[n]) \cup (wr_holders'[n] \ wr_holders[n])
    IN granted # {} /\ wait_list'[n] = wait_list[n] /\ wait_list[n] # <<>>
          => /\ LockType = "v3" /\ lock[n].wr_epoch = 0
             /\ granted \subseteq wr_holders'[n]
             /\ \A i \in DOMAIN wait_list[n] : wait_list[n][i].mode = "read"

(* Every step of the server serves every wait list in turn.                 *)
NoOvertaking == [][\A n \in Names : ServedInTurn(n)]_vars

(* The wait list is served: nobody waits who could be granted the lock, and *)
(* nobody is granted it over one who came before.                           *)
WaitListServed == []NoLostWakeup /\ NoOvertaking

(* Under the custom lock the applications go through the rounds in step: a  *)
(* reader that holds the lock has had it as often as the writer, and a      *)
(* writer that holds it once more than every reader.  Every version is read *)
(* exactly once by every reading application before it is overwritten.      *)
RoundsInStep ==
    \A v, r \in Apps : v \in WriteApps /\ r \in ReadApps =>
        LET w == Master[v]
            s == Master[r]
        IN \A n \in Names :
              /\ Holds(s, n, "read") => lock_num[s][n] = lock_num[w][n]
              /\ Holds(w, n, "write") => lock_num[w][n] = lock_num[s][n] + 1

(* A lock request is eventually granted, provided holders release.          *)
EventuallyGranted ==
    \A p \in Procs : pc[p] = "acking" ~> pc[p] = "held"
=============================================================================
