------------------------------ MODULE ObjSpace ------------------------------
(***************************************************************************)
(* dspaces_put, dspaces_put_sync, dspaces_get and dspaces_remove: the      *)
(* client side (src/src/dc_gspace.c), the handlers of the servers          *)
(* (src/src/ds_gspace.c) and the connections between them.                 *)
(*                                                                         *)
(* A put goes to one server, the owner of the object, which fetches the    *)
(* data from the client and sends the descriptor to every server whose     *)
(* part of the domain the object meets.  A get asks these servers for the  *)
(* descriptors that meet the query, and the owners for the data.           *)
(*                                                                         *)
(* Connections are FIFO in each direction; a server is one thread that     *)
(* takes the next message of any connection.  On the "rdma" transports     *)
(* (InfiniBand, GNI) the data of a put arrives after its handler has       *)
(* returned, and only then does dspaces_put_sync let the client go; on     *)
(* "tcp" the data follows the message on the connection, and the client    *)
(* goes on as soon as it has written both.                                 *)
(*                                                                         *)
(* The lock that applications use around their calls is RWLock, which the  *)
(* lock service implements (DsgLock).                                      *)
(***************************************************************************)
EXTENDS Storage

CONSTANTS
    Servers,     \* server ranks
    Procs,       \* client processes
    Apps,        \* client applications
    AppOf,       \* AppOf[p]: the application of process p
    Master,      \* Master[a]: the process that talks to the lock service
    Cells,       \* the cells of the global domain
    Names,       \* variable names (and names of the locks that protect them)
    Workloads    \* what the processes do; a behaviour follows one of them

LockServer == 0

ASSUME SpaceAssumption ==
    /\ LockServer \in Servers
    /\ AppOf \in [Procs -> Apps]
    /\ Master \in [Apps -> Procs]
    /\ \A w \in Workloads :
          /\ w.peer \in [Procs -> Servers]
          /\ w.region \in [Servers -> SUBSET Cells]
          /\ w.transport \in {"tcp", "rdma"}
          /\ w.protected \in BOOLEAN
          /\ w.maxcalls \in Nat

VARIABLES
    work,     \* the workload
    pc,       \* pc[p]: where process p is in its calls
    calls,    \* calls[p]: how many calls it has begun
    sync_op,  \* sync_op[p]: sync_op.opid of its last put
    qte,      \* qte[p]: its query_tran_entry
    reply,    \* reply[p]: ss_obj_get_desc messages on their way to p
    result,   \* result[p]: what its last dspaces_get returned
    chan,     \* chan[x, s]: messages on the connection from x to server s
    xfer,     \* xfer[p]: objects whose data server Peer[p] is fetching from p
    ls,       \* ls[s]: dsg->ls of server s
    dht,      \* dht[s]: the descriptors of ssd->ent_self of server s
    stamp,    \* number of puts so far; the data of a put is its number
    store,    \* history: what the calls so far have put into the space
    readers,  \* RWLock: the applications that hold a lock for reading
    writers   \* RWLock: the applications that hold a lock for writing

lockVars == <<readers, writers>>
clientVars == <<pc, calls, sync_op, qte, reply, result>>
serverVars == <<ls, dht, xfer>>
vars == <<work, clientVars, chan, serverVars, stamp, store, lockVars>>

(* The fields of a workload: dcg_which_peer for every process, the cells     *)
(* whose descriptors a server keeps, the objects a process may put and ask   *)
(* for, the versions whose successor it asks for (dspaces_get_next_meta),    *)
(* the <<name, version>> it may remove, the transport, whether the           *)
(* applications use locks, and a bound on the calls of a process.            *)
Peer == work.peer
Region == work.region
Puts == work.puts
Gets == work.gets
Metas == work.metas
Removes == work.removes
Transport == work.transport
Protected == work.protected
MaxCalls == work.maxcalls

L == INSTANCE RWLock WITH Clients <- Apps, Locks <- Names

Hole == 0  \* what malloc left in a buffer nobody wrote
NoQuery == [q_obj |-> <<>>]
NoResult == [rc |-> "none"]
Members(a) == {p \in Procs : AppOf[p] = a}
Desc(d) == [name |-> d.name, ver |-> d.ver, box |-> d.box]

(* ssd_hash: the servers whose part of the domain a box meets.              *)
ssd_hash(box) == {s \in Servers : bbox_does_intersect(Region[s], box)}

Sent(ch, x, s, m) == [ch EXCEPT ![x, s] = Append(@, m)]
Taken(x, s) == [chan EXCEPT ![x, s] = Tail(@)]

(* The message type at the head of the connection from x to s.              *)
HasNext(x, s, type) == chan[x, s] # <<>> /\ Head(chan[x, s]).type = type

-----------------------------------------------------------------------------
(* What the space should hold: for every cell of every variable, in each    *)
(* of MaxVersions slots, the version and the data last put there.           *)

NoEntry == [ver |-> 0, data |-> Hole]

StorePut(d, data) ==
    [store EXCEPT ![d.name][BinOf(d.ver)] =
        [c \in Cells |-> IF c \in d.box THEN [ver |-> d.ver, data |-> data] ELSE @[c]]]

StoreRemove(name, ver) ==
    [store EXCEPT ![name][BinOf(ver)] =
        [c \in Cells |-> IF @[c].ver = ver THEN NoEntry ELSE @[c]]]

Stored(d, c) ==
    LET e == store[d.name][BinOf(d.ver)][c]
    IN IF e.ver = d.ver THEN e.data ELSE Hole

-----------------------------------------------------------------------------
(* Client: dspaces_put, dspaces_put_sync, dspaces_remove.                   *)

MayCall(p) == pc[p] = "idle" /\ calls[p] < MaxCalls
MayRead(p, name) == Protected => AppOf[p] \in readers[name] \cup writers[name]
MayWrite(p, name) == Protected => AppOf[p] \in writers[name]

(* dcg_obj_put.  On tcp rpc_send ends with the completion callback.         *)
dcg_obj_put(p, d) ==
    /\ MayCall(p) /\ MayWrite(p, d.name)
    /\ stamp' = stamp + 1
    /\ chan' = Sent(chan, p, Peer[p],
                    [type |-> "obj_put", odsc |-> d, data |-> stamp + 1])
    /\ sync_op' = [sync_op EXCEPT ![p] = Transport = "tcp"]
    /\ store' = StorePut(d, stamp + 1)
    /\ pc' = [pc EXCEPT ![p] = "syncing"]
    /\ calls' = [calls EXCEPT ![p] = @ + 1]
    /\ UNCHANGED <<work, qte, reply, result, serverVars, lockVars>>

(* dcg_obj_sync, which a client is told to call after every put.            *)
dcg_obj_sync(p) ==
    /\ pc[p] = "syncing"
    /\ sync_op[p]
    /\ pc' = [pc EXCEPT ![p] = "idle"]
    /\ UNCHANGED <<work, calls, sync_op, qte, reply, result, chan, serverVars,
                   stamp, store, lockVars>>

(* dcg_remove: one message to every server and no answer.                   *)
dcg_remove(p, name, ver) ==
    /\ MayCall(p) /\ MayWrite(p, name)
    /\ chan' = [e \in DOMAIN chan |->
                   IF e[1] = p
                   THEN Append(chan[e], [type |-> "remove", name |-> name, ver |-> ver])
                   ELSE chan[e]]
    /\ store' = StoreRemove(name, ver)
    /\ calls' = [calls EXCEPT ![p] = @ + 1]
    /\ UNCHANGED <<work, pc, sync_op, qte, reply, result, serverVars, stamp, lockVars>>

-----------------------------------------------------------------------------
(* Client: dcg_obj_get, split where it waits.                               *)

(* qte_alloc and get_dht_peers: ask the own server whom to ask.             *)
get_dht_peers(p, d) ==
    /\ MayCall(p) /\ MayRead(p, d.name)
    /\ qte' = [qte EXCEPT ![p] =
                  [q_obj |-> d, peers |-> {}, num_rep_received |-> 0,
                   od_list |-> <<>>, parts |-> <<>>, f_odsc_recv |-> FALSE,
                   f_err |-> FALSE]]
    /\ chan' = Sent(chan, p, Peer[p], [type |-> "get_dht_peers", odsc |-> d])
    /\ pc' = [pc EXCEPT ![p] = "peers"]
    /\ calls' = [calls EXCEPT ![p] = @ + 1]
    /\ UNCHANGED <<work, sync_op, reply, result, serverVars, stamp, store, lockVars>>

(* get_obj_descriptors: ask all of them.                                    *)
get_obj_descriptors(p) ==
    /\ pc[p] = "peers_received"
    /\ chan' = [e \in DOMAIN chan |->
                   IF e[1] = p /\ e[2] \in qte[p].peers
                   THEN Append(chan[e], [type |-> "get_desc", odsc |-> qte[p].q_obj])
                   ELSE chan[e]]
    /\ pc' = [pc EXCEPT ![p] = "descs"]
    /\ UNCHANGED <<work, calls, sync_op, qte, reply, result, serverVars, stamp, store,
                   lockVars>>

(* qt_find_obj and qt_add_obj for the descriptors of one answer, in order;  *)
(* the list grows at its head.                                              *)
AddObjects(od_list, odscs) ==
    FoldLeft(LAMBDA acc, d : IF \E i \in DOMAIN acc : obj_desc_equals(acc[i], d)
                             THEN acc ELSE <<d>> \o acc,
             od_list, odscs)

(* Mutant: the answer stays in the queue and is not counted.                 *)
dcgrpc_obj_get_desc_again(p) ==
    /\ \E m \in reply[p] :
          qte' = [qte EXCEPT ![p].od_list = AddObjects(@, m.odscs)]
    /\ UNCHANGED <<work, pc, calls, sync_op, reply, result, chan, serverVars, stamp, store,
                   lockVars>>

(* dcgrpc_obj_get_desc and obj_get_desc_completion.                         *)
dcgrpc_obj_get_desc(p) ==
    /\ \E m \in reply[p] :
          /\ reply' = [reply EXCEPT ![p] = @ \ {m}]
          /\ qte' = [qte EXCEPT ![p].num_rep_received = @ + 1,
                                ![p].od_list = AddObjects(@, m.odscs),
                                ![p].f_err = @ \/ m.odscs = <<>>,
                                ![p].f_odsc_recv =
                                    qte[p].num_rep_received + 1
                                        = Cardinality(qte[p].peers)]
    /\ UNCHANGED <<work, pc, calls, sync_op, result, chan, serverVars, stamp, store,
                   lockVars>>

(* dcg_obj_get returns -EAGAIN when some peer found nothing.                *)
GetFails(p) ==
    /\ pc[p] = "descs"
    /\ qte[p].f_odsc_recv
    /\ qte[p].f_err
    /\ result' = [result EXCEPT ![p] = [rc |-> "EAGAIN", odsc |-> qte[p].q_obj,
                                        data |-> <<>>]]
    /\ pc' = [pc EXCEPT ![p] = "returned"]
    /\ UNCHANGED <<work, calls, sync_op, qte, reply, chan, serverVars, stamp, store,
                   lockVars>>

(* dcg_obj_data_get: ask the owner of every piece.                          *)
dcg_obj_data_get(p) ==
    /\ pc[p] = "descs"
    /\ qte[p].f_odsc_recv
    /\ ~qte[p].f_err
    /\ LET od == qte[p].od_list
           requests(s) ==
               LET Request(i) == [type |-> "obj_get", odsc |-> Desc(od[i]), part |-> i]
               IN [i \in DOMAIN od |-> IF od[i].owner = s THEN <<Request(i)>> ELSE <<>>]
       IN /\ chan' = [e \in DOMAIN chan |->
                         IF e[1] = p THEN chan[e] \o FlattenSeq(requests(e[2]))
                         ELSE chan[e]]
          /\ qte' = [qte EXCEPT ![p].parts = [i \in DOMAIN od |-> <<>>]]
    /\ pc' = [pc EXCEPT ![p] = "data"]
    /\ UNCHANGED <<work, calls, sync_op, reply, result, serverVars, stamp, store, lockVars>>

(* f_complete: num_parts_rec has reached size_od, so dcg_obj_assemble copies *)
(* the pieces into the buffer of the caller in the order of the list.        *)
dcg_obj_assemble(p) ==
    /\ pc[p] = "data"
    /\ \A i \in DOMAIN qte[p].parts : qte[p].parts[i] # <<>>
    /\ LET od == qte[p].od_list
           Covering(c) == {i \in DOMAIN od : c \in od[i].box}
           buffer == [c \in qte[p].q_obj.box |->
                         IF Covering(c) = {} THEN Hole
                         ELSE qte[p].parts[Max(Covering(c))][c]]
       IN result' = [result EXCEPT ![p] = [rc |-> "ok", odsc |-> qte[p].q_obj,
                                           data |-> buffer]]
    /\ pc' = [pc EXCEPT ![p] = "returned"]
    /\ UNCHANGED <<work, calls, sync_op, qte, reply, chan, serverVars, stamp, store,
                   lockVars>>

(* The caller takes the result and goes on.                                 *)
GetReturn(p) ==
    /\ pc[p] = "returned"
    /\ pc' = [pc EXCEPT ![p] = "idle"]
    /\ qte' = [qte EXCEPT ![p] = NoQuery]
    /\ result' = [result EXCEPT ![p] = NoResult]
    /\ UNCHANGED <<work, calls, sync_op, reply, chan, serverVars, stamp, store, lockVars>>

-----------------------------------------------------------------------------
(* Client: dcg_obj_get_meta of the next version, which asks server 0 for the *)
(* version and the length of the metadata, and then for the metadata.        *)

dcg_obj_get_nvars(p, d) ==
    /\ MayCall(p) /\ MayRead(p, d.name)
    /\ qte' = [qte EXCEPT ![p] = [q_obj |-> d, var_array |-> 0, data |-> Hole]]
    /\ chan' = Sent(chan, p, 0, [type |-> "get_next_meta", odsc |-> d])
    /\ pc' = [pc EXCEPT ![p] = "nvars"]
    /\ calls' = [calls EXCEPT ![p] = @ + 1]
    /\ UNCHANGED <<work, sync_op, reply, result, serverVars, stamp, store, lockVars>>

(* The successor is -3 (here 0) when there is none.                          *)
NoMeta(p) ==
    /\ pc[p] = "nvars_received" /\ qte[p].var_array = 0
    /\ result' = [result EXCEPT ![p] = [rc |-> "end", odsc |-> qte[p].q_obj]]
    /\ pc' = [pc EXCEPT ![p] = "returned"]
    /\ UNCHANGED <<work, calls, sync_op, qte, reply, chan, serverVars, stamp, store,
                   lockVars>>

dcg_obj_get_varBuffer(p) ==
    /\ pc[p] = "nvars_received" /\ qte[p].var_array # 0
    /\ chan' = Sent(chan, p, 0, [type |-> "get_var_meta",
                                 odsc |-> [qte[p].q_obj EXCEPT !.ver = qte[p].var_array]])
    /\ pc' = [pc EXCEPT ![p] = "var"]
    /\ UNCHANGED <<work, calls, sync_op, qte, reply, result, serverVars, stamp, store,
                   lockVars>>

dcg_obj_get_meta(p) ==
    /\ pc[p] = "var_received"
    /\ result' = [result EXCEPT ![p] =
                     [rc |-> "meta", odsc |-> qte[p].q_obj,
                      version |-> qte[p].var_array, data |-> qte[p].data]]
    /\ pc' = [pc EXCEPT ![p] = "returned"]
    /\ UNCHANGED <<work, calls, sync_op, qte, reply, chan, serverVars, stamp, store,
                   lockVars>>

-----------------------------------------------------------------------------
(* Server handlers.                                                        *)

(* dsgrpc_obj_put with obj_put_update_dht, and on tcp the completion        *)
(* callback obj_put_completion, which rpc_receive_direct calls.             *)
dsgrpc_obj_put(p, s) ==
    /\ HasNext(p, s, "obj_put")
    /\ LET m == Head(chan[p, s])
           od == [name |-> m.odsc.name, ver |-> m.odsc.ver, box |-> m.odsc.box,
                  data |-> m.data]
           odsc == [name |-> od.name, ver |-> od.ver, box |-> od.box, owner |-> s]
           update == [type |-> "obj_update", odsc |-> odsc]
           dest == ssd_hash(od.box)
       IN /\ IF Transport = "tcp"
             THEN /\ ls' = [ls EXCEPT ![s] = ls_add_obj(@, od)]
                  /\ UNCHANGED xfer
             ELSE /\ xfer' = [xfer EXCEPT ![p] = Append(@, od)]
                  /\ UNCHANGED ls
          /\ dht' = IF s \in dest
                    THEN [dht EXCEPT ![s] = dht_add_entry(@, odsc)]
                    ELSE dht
          /\ chan' = [e \in DOMAIN chan |->
                         CASE e = <<p, s>> -> Tail(chan[e])
                           [] e[1] = s /\ e[2] \in dest \ {s} -> Append(chan[e], update)
                           [] OTHER -> chan[e]]
    /\ UNCHANGED <<work, clientVars, stamp, store, lockVars>>

(* The fetch of the data completes: obj_put_completion on the server, and   *)
(* on the client the completion that sets sync_op.                          *)
obj_put_completion(p) ==
    /\ xfer[p] # <<>>
    /\ ls' = [ls EXCEPT ![Peer[p]] = ls_add_obj(@, Head(xfer[p]))]
    /\ xfer' = [xfer EXCEPT ![p] = Tail(@)]
    /\ sync_op' = [sync_op EXCEPT ![p] = TRUE]
    /\ UNCHANGED <<work, pc, calls, qte, reply, result, chan, dht, stamp, store, lockVars>>

(* A descriptor from server s arrives at server r.                          *)
dsgrpc_obj_update(s, r) ==
    /\ HasNext(s, r, "obj_update")
    /\ dht' = [dht EXCEPT ![r] =
                  dht_add_entry(@, [Head(chan[s, r]).odsc EXCEPT !.owner = s])]
    /\ chan' = Taken(s, r)
    /\ UNCHANGED <<work, clientVars, ls, xfer, stamp, store, lockVars>>

(* The answer is written into the query of the client.                      *)
dsgrpc_obj_send_dht_peers(p, s) ==
    /\ HasNext(p, s, "get_dht_peers")
    /\ qte' = [qte EXCEPT ![p].peers = ssd_hash(Head(chan[p, s]).odsc.box)]
    /\ pc' = [pc EXCEPT ![p] = "peers_received"]
    /\ chan' = Taken(p, s)
    /\ UNCHANGED <<work, calls, sync_op, reply, result, serverVars, stamp, store, lockVars>>

(* No descriptor at all is the answer of obj_desc_not_found.                *)
dsgrpc_obj_get_desc(p, s) ==
    /\ HasNext(p, s, "get_desc")
    /\ LET q == Head(chan[p, s]).odsc
           found == dht_find_entry_all(dht[s], q)
       IN reply' = [reply EXCEPT ![p] = @ \cup
              {[from |-> s,
                odscs |-> [i \in DOMAIN found |->
                              [found[i] EXCEPT !.box = q.box \cap @]]]}]
    /\ chan' = Taken(p, s)
    /\ UNCHANGED <<work, pc, calls, sync_op, qte, result, serverVars, stamp, store, lockVars>>

(* ssd_copy copies what the piece and the stored object have in common.     *)
(* When there is no such object the client gets no answer.                  *)
dsgrpc_obj_get(p, s) ==
    /\ HasNext(p, s, "obj_get")
    /\ LET m == Head(chan[p, s])
           i == ls_find(ls[s], m.odsc)
           from_obj == ls[s][BinOf(m.odsc.ver)][i]
       IN qte' = IF i = 0 THEN qte
                 ELSE [qte EXCEPT ![p].parts[m.part] =
                          [c \in m.odsc.box |-> IF c \in from_obj.box
                                                THEN from_obj.data ELSE Hole]]
    /\ chan' = Taken(p, s)
    /\ UNCHANGED <<work, pc, calls, sync_op, reply, result, serverVars, stamp, store, lockVars>>

dsgrpc_obj_get_next_meta(p, s) ==
    /\ HasNext(p, s, "get_next_meta")
    /\ qte' = [qte EXCEPT ![p].var_array = ls_find_next(ls[s], Head(chan[p, s]).odsc)]
    /\ pc' = [pc EXCEPT ![p] = "nvars_received"]
    /\ chan' = Taken(p, s)
    /\ UNCHANGED <<work, calls, sync_op, reply, result, serverVars, stamp, store,
                   lockVars>>

(* When there is no such object the client gets no answer.                   *)
dsgrpc_obj_get_var_meta(p, s) ==
    /\ HasNext(p, s, "get_var_meta")
    /\ LET d == Head(chan[p, s]).odsc
           i == ls_find(ls[s], d)
       IN IF i = 0 THEN UNCHANGED <<qte, pc>>
          ELSE /\ qte' = [qte EXCEPT ![p].data = ls[s][BinOf(d.ver)][i].data]
               /\ pc' = [pc EXCEPT ![p] = "var_received"]
    /\ chan' = Taken(p, s)
    /\ UNCHANGED <<work, calls, sync_op, reply, result, serverVars, stamp, store,
                   lockVars>>

dsgrpc_remove_service(p, s) ==
    /\ HasNext(p, s, "remove")
    /\ LET m == Head(chan[p, s])
       IN ls' = [ls EXCEPT ![s] = ls_remove_all(@, m.name, m.ver)]
    /\ chan' = Taken(p, s)
    /\ UNCHANGED <<work, clientVars, dht, xfer, stamp, store, lockVars>>

-----------------------------------------------------------------------------
(* The lock around the calls.  The processes of an application lock and     *)
(* unlock together, between their calls; the release travels behind all     *)
(* else that the master has sent to the lock server.                        *)

Outside(a) == \A n \in Names : a \notin readers[n] \cup writers[n]
Between(a) == \A p \in Members(a) : pc[p] = "idle"

LockOnRead(a, n) ==
    /\ Protected /\ Outside(a) /\ Between(a)
    /\ L!AcquireRead(n, a)
    /\ UNCHANGED <<work, clientVars, chan, serverVars, stamp, store>>

LockOnWrite(a, n) ==
    /\ Protected /\ Outside(a) /\ Between(a)
    /\ L!AcquireWrite(n, a)
    /\ UNCHANGED <<work, clientVars, chan, serverVars, stamp, store>>

Unlock(a, n) ==
    /\ Between(a)
    /\ chan[Master[a], LockServer] = <<>>
    /\ L!ReleaseRead(n, a) \/ L!ReleaseWrite(n, a)
    /\ UNCHANGED <<work, clientVars, chan, serverVars, stamp, store>>

-----------------------------------------------------------------------------
Init ==
    /\ work \in Workloads
    /\ pc = [p \in Procs |-> "idle"]
    /\ calls = [p \in Procs |-> 0]
    /\ sync_op = [p \in Procs |-> TRUE]
    /\ qte = [p \in Procs |-> NoQuery]
    /\ reply = [p \in Procs |-> {}]
    /\ result = [p \in Procs |-> NoResult]
    /\ chan = [e \in (Procs \cup Servers) \X Servers |-> <<>>]
    /\ xfer = [p \in Procs |-> <<>>]
    /\ ls = [s \in Servers |-> EmptyTable]
    /\ dht = [s \in Servers |-> EmptyTable]
    /\ stamp = 0
    /\ store = [n \in Names |-> [i \in Bins |-> [c \in Cells |-> NoEntry]]]
    /\ L!Init

ClientStep(p) ==
    \/ dcg_obj_sync(p)
    \/ get_obj_descriptors(p)
    \/ dcgrpc_obj_get_desc(p)
    \/ GetFails(p)
    \/ dcg_obj_data_get(p)
    \/ dcg_obj_assemble(p)
    \/ NoMeta(p)
    \/ dcg_obj_get_varBuffer(p)
    \/ dcg_obj_get_meta(p)
    \/ GetReturn(p)

Handle(p, s) ==
    \/ dsgrpc_obj_put(p, s)
    \/ dsgrpc_obj_send_dht_peers(p, s)
    \/ dsgrpc_obj_get_desc(p, s)
    \/ dsgrpc_obj_get(p, s)
    \/ dsgrpc_obj_get_next_meta(p, s)
    \/ dsgrpc_obj_get_var_meta(p, s)
    \/ dsgrpc_remove_service(p, s)

(* Nothing is on its way to or between the servers.                         *)
Quiescent ==
    /\ \A e \in DOMAIN chan : chan[e] = <<>>
    /\ \A p \in Procs : xfer[p] = <<>>

(* The versions that some process may remove.                                *)
Removable(d) == \E p \in Procs : <<d.name, d.ver>> \in Removes[p]

(* A get of a removed version may wait for ever, and so may one of metadata  *)
(* that is evicted after its version was looked up.                          *)
Finished ==
    /\ Quiescent
    /\ \A p \in Procs : \/ pc[p] = "idle"
                        \/ pc[p] = "data" /\ Removable(qte[p].q_obj)
                        \/ pc[p] = "var" /\ ~Protected

Next ==
    \/ \E p \in Procs :
          \/ \E d \in Puts[p] : dcg_obj_put(p, d)
          \/ \E d \in Gets[p] : get_dht_peers(p, d)
          \/ \E d \in Metas[p] : dcg_obj_get_nvars(p, d)
          \/ \E r \in Removes[p] : dcg_remove(p, r[1], r[2])
          \/ ClientStep(p)
          \/ obj_put_completion(p)
          \/ \E s \in Servers : Handle(p, s)
    \/ \E r, s \in Servers : dsgrpc_obj_update(r, s)
    \/ \E a \in Apps, n \in Names : LockOnRead(a, n) \/ LockOnWrite(a, n) \/ Unlock(a, n)
    \/ Finished /\ UNCHANGED vars

Spec == Init /\ [][Next]_vars

(* Servers and clients poll in a loop that visits every connection, and a   *)
(* transfer that was posted completes.                                      *)
Fairness ==
    /\ \A p \in Procs :
          /\ WF_vars(ClientStep(p))
          /\ WF_vars(obj_put_completion(p))
          /\ \A s \in Servers : WF_vars(Handle(p, s))
    /\ \A r, s \in Servers : WF_vars(dsgrpc_obj_update(r, s))

FairSpec == Spec /\ Fairness

-----------------------------------------------------------------------------
(* Properties.                                                             *)

Descs == [name : Names, ver : Nat, box : SUBSET Cells]
OwnedDescs == [name : Names, ver : Nat, box : SUBSET Cells, owner : Servers]
Objects == [name : Names, ver : Nat, box : SUBSET Cells, data : Nat]
Messages ==
    [type : {"obj_put"}, odsc : Descs, data : Nat]
        \cup [type : {"obj_update"}, odsc : OwnedDescs]
        \cup [type : {"get_dht_peers", "get_desc", "get_next_meta", "get_var_meta"},
              odsc : Descs]
        \cup [type : {"obj_get"}, odsc : Descs, part : Nat]
        \cup [type : {"remove"}, name : Names, ver : Nat]

(* Every variable keeps its type.                                          *)
TypeOK ==
    /\ pc \in [Procs -> {"idle", "syncing", "peers", "peers_received", "descs",
                         "data", "nvars", "nvars_received", "var", "var_received",
                         "returned"}]
    /\ calls \in [Procs -> 0..MaxCalls]
    /\ sync_op \in [Procs -> BOOLEAN]
    /\ \A p \in Procs : pc[p] \in {"peers", "peers_received", "descs", "data"} =>
          /\ qte[p].q_obj \in Descs
          /\ qte[p].peers \subseteq Servers
          /\ qte[p].num_rep_received \in 0 .. Cardinality(qte[p].peers)
          /\ qte[p].od_list \in Seq(OwnedDescs)
    /\ \A p \in Procs : \A m \in reply[p] :
          m.from \in Servers /\ m.odscs \in Seq(OwnedDescs)
    /\ \A p \in Procs : result[p].rc \in {"none", "ok", "EAGAIN", "end", "meta"}
    /\ \A e \in (Procs \cup Servers) \X Servers : chan[e] \in Seq(Messages)
    /\ xfer \in [Procs -> Seq(Objects)]
    /\ ls \in [Servers -> [Bins -> Seq(Objects)]]
    /\ dht \in [Servers -> [Bins -> Seq(OwnedDescs)]]
    /\ stamp \in Nat
    /\ store \in [Names -> [Bins -> [Cells -> [ver : Nat, data : Nat]]]]
    /\ readers \in [Names -> SUBSET Apps]
    /\ writers \in [Names -> SUBSET Apps]

(* dspaces_put_sync blocks "till the completion of most recent data insert   *)
(* query" (dataspaces.h): on the transports with RDMA, once it has returned  *)
(* the object is in the storage of its server and no longer under way.       *)
PutSyncCompletes ==
    Transport = "rdma" => \A p \in Procs : pc[p] # "syncing" =>
        /\ xfer[p] = <<>>
        /\ \A s \in Servers : \A i \in DOMAIN chan[p, s] :
              chan[p, s][i].type # "obj_put"

(* A server that is asked for data has it.  "We assume that the requesting   *)
(* peer knows we have the data", says the comment on dsgrpc_obj_get; when    *)
(* the assumption fails the server sends nothing and the client waits for    *)
(* ever in dcg_obj_get.  It holds for the versions that nobody removes:      *)
(* dspaces_remove leaves the descriptors in the directory.                   *)
RequestedDataIsHeld ==
    \A p \in Procs, s \in Servers :
        HasNext(p, s, "obj_get") =>
            LET d == Head(chan[p, s]).odsc
            IN Removable(d) \/ ls_find(ls[s], d) # 0

ReturnedToReader(p, rcs) ==
    /\ pc[p] = "returned" /\ result[p].rc \in rcs
    /\ AppOf[p] \in readers[result[p].odsc.name]

(* A reader that holds the lock gets what the writers have put, and nothing  *)
(* else: when every cell it asks for has been put in that version (by        *)
(* processes that called dspaces_put_sync before they unlocked), dspaces_get *)
(* succeeds and fills the whole buffer with the data last put.               *)
SyncedPutIsVisible ==
    \A p \in Procs : ReturnedToReader(p, {"ok", "EAGAIN"}) =>
        LET r == result[p]
        IN (\A c \in r.odsc.box : Stored(r.odsc, c) # Hole)
               => /\ r.rc = "ok"
                  /\ \A c \in r.odsc.box : r.data[c] = Stored(r.odsc, c)

(* It is so when one server holds the objects and the directory, so that a   *)
(* descriptor is in the directory as soon as the put is handled.             *)
VisibleInOneDirectory ==
    (\A p \in Procs : ssd_hash(Cells) = {Peer[p]}) => SyncedPutIsVisible

(* What a reader that holds the lock finds in its buffer is the data last    *)
(* put, even if dspaces_get did not fill all of it.                          *)
NoStaleData ==
    \A p \in Procs : ReturnedToReader(p, {"ok", "EAGAIN"}) =>
        LET r == result[p]
        IN r.rc = "ok" => \A c \in r.odsc.box : r.data[c] \in {Hole, Stored(r.odsc, c)}

(* When nothing is under way, the objects the servers hold are those that    *)
(* the calls have put and not removed, up to the versions that gave way to   *)
(* later ones in their slot: no data is lost and none is kept.  It rests on  *)
(* boxes that stay the same from version to version.                         *)
StoreAgrees ==
    Quiescent =>
        \A n \in Names, i \in Bins, c \in Cells :
            LET held == {od \in UNION {ToSet(ls[s][i]) : s \in Servers} :
                            od.name = n /\ c \in od.box}
                e == store[n][i][c]
            IN {[ver |-> od.ver, data |-> od.data] : od \in held}
                   = IF e.data = Hole THEN {} ELSE {e}

(* When nothing is under way, the descriptors of a server are those of the   *)
(* objects, held anywhere, that meet its part of the domain, although the    *)
(* descriptors are sent before the data has arrived and nobody acknowledges  *)
(* them.  The descriptors of removed versions are left over.                 *)
DirectoryAgrees ==
    Quiescent =>
        \A s \in Servers, i \in Bins :
            {d \in ToSet(dht[s][i]) : ~Removable(d)} =
                UNION {{[name |-> od.name, ver |-> od.ver, box |-> od.box, owner |-> r] :
                           od \in {o \in ToSet(ls[r][i]) :
                                       s \in ssd_hash(o.box) /\ ~Removable(o)}} :
                       r \in Servers}

(* The tables of the servers are right: what dspaces_put_sync has reported   *)
(* complete is stored, and when nothing is under way the storage and the     *)
(* directory agree with the calls that were made.                            *)
TablesAgree == TypeOK /\ PutSyncCompletes /\ StoreAgrees /\ DirectoryAgrees

(* A call of dspaces_get returns, unless its version is one that may have    *)
(* been removed.                                                             *)
GetReturns ==
    \A p \in Procs :
        pc[p] = "peers" /\ ~Removable(qte[p].q_obj) ~> pc[p] = "returned"

(* To a reader that holds the lock, dspaces_get_next_meta gives the least    *)
(* version after the one it names among those that are still in their slot,  *)
(* with the data last put, and says that there is none only if so            *)
(* (ls_find_next, which visits the slots from that version on).              *)
MetaIsNext ==
    \A p \in Procs : ReturnedToReader(p, {"end", "meta"}) =>
        LET r == result[p]
            kept == {store[r.odsc.name][i][c] : i \in Bins, c \in r.odsc.box}
            later == {e \in kept : e.ver > r.odsc.ver}
        IN IF later = {} THEN r.rc = "end"
           ELSE /\ r.rc = "meta"
                /\ [ver |-> r.version, data |-> r.data] \in later
                /\ \A e \in later : r.version <= e.ver

(* A call of dspaces_get_next_meta under a lock returns: the metadata are    *)
(* still there when they are asked for ("Should not happen", says            *)
(* dsgrpc_obj_get_var_meta of the contrary, and sends no answer).            *)
MetaReturns ==
    \A p \in Procs : Protected /\ pc[p] = "nvars" ~> pc[p] = "returned"

(* Every call of the two kinds returns: no server leaves a request that it   *)
(* could answer without an answer, and no answer is missed.                  *)
CallsReturn == GetReturns /\ MetaReturns
=============================================================================
