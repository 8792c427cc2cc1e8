------------------------------- MODULE Dimes -------------------------------
(***************************************************************************)
(* DIMES: the data of a put stays in the memory of the client that made    *)
(* it, the servers keep a directory of where it is, and a get reads it     *)
(* from there (src/src/dimes_client.c, dimes_server.c, dimes_data.c,       *)
(* src/dart/ib/dart_rdma_ib.c).                                            *)
(*                                                                         *)
(* A client keeps its objects either in registered memory of their own or  *)
(* (shmem) in a memory segment shared with the clients of its node.  The   *)
(* clients are the processes of one application; in shmem mode it may      *)
(* write a checkpoint, end, and be followed by a second application that   *)
(* restarts from the segments (include/common_dataspaces.h, "dimes_shmem   *)
(* APIs ... in the following sequence").                                   *)
(*                                                                         *)
(* Put number n writes the value <<n, x>> to every point x of its box, so  *)
(* a value says which put and which point it comes from.                   *)
(***************************************************************************)
EXTENDS Bbox, DimesBuffer

CONSTANTS
    Clients, Servers,
    Readers,        \* the clients that get
    NodeOf,         \* the node of a client
    Region,         \* the points a server is responsible for, by ssd_hash
    Groups,
    DefaultGroup,   \* default_group_name
    ResetBy,        \* the servers whose directory a client resets
    MaxVersions,    \* dcg->max_versions, and size_hash of the servers
    SegSize,        \* the size of a shared memory segment, in elements
    MaxReads,       \* options.max_num_concurrent_rdma_read_op
    SizeT,          \* the range of size_t
    Workloads,      \* what the application does: see below
    None

(* A workload says whether segments are used (shmem) and checkpointed,      *)
(* which clients put (writers) and put locally (locals),                    *)
(* which boxes and versions they use, and how many elements fit into the    *)
(* registered memory (rdma: options.rdma_buffer_size); and it bounds the    *)
(* puts, gets, syncs and changes of group.                                  *)

ASSUME DimesAssumption ==
    /\ Readers \subseteq Clients
    /\ DefaultGroup \in Groups
    /\ MaxVersions \in Nat \ {0} /\ MaxReads \in Nat \ {0}
    /\ \A w \in Workloads : w.rdma < SizeT

VARIABLES
    load,        \* the workload, which never changes
    gen,         \* which application: 1, or the restarted 2
    late,        \* servers with a reset of the first application to handle
    erased,      \* whether a late reset erased what was announced anew
    pc,          \* where each client is in its life
    next_index,  \* local_obj_index_seed
    group,       \* current_group_name
    storage,     \* dimes_c->storage
    node_index,  \* dimes_c->node_local_obj_index
    usage,       \* options.rdma_buffer_usage
    buf,         \* free_blocks_list and used_blocks_list
    seg,         \* the shared memory segments
    files,       \* the *_storage_restart and *_allocator_restart segments
    node_file,   \* the nodes whose *_node_restart segment exists
    net,         \* messages from a client to a server, in order
    inbox,       \* replies on their way to a client
    meta_store,  \* the directory of a server
    q,           \* the get of a client: its query_tran_entry_d
    rdma_err,    \* ibv_rdma_error_flag
    broken,      \* the pairs of clients whose queue pair is in error
    puts,        \* the puts so far
    gets, syncs, regroups, \* how many gets, syncs and changes of group
    leaked,      \* receive buffers a failed get did not give back
    books,       \* whether usage counts what is stored
    reused       \* clients that allocated from a restarted segment

era == <<load, gen, late, erased>>
volatile == <<next_index, group, storage, node_index, usage, buf>>
saved == <<seg, files, node_file>>
wire == <<net, inbox, meta_store>>
ghosts == <<puts, gets, syncs, regroups, leaked, books, reused>>
rdma == <<rdma_err, broken>>
vars == <<era, pc, volatile, saved, wire, q, rdma, ghosts>>

(* options.enable_shmem_buffer and options.enable_get_local.                *)
shmem == load.shmem

-----------------------------------------------------------------------------
(* Objects and where they are kept.                                         *)

SameNode(c, d) == NodeOf[c] = NodeOf[d]
Peers(c) == {d \in Clients : SameNode(c, d)}

(* The servers of a box: ssd_hash finds those that own one of its points    *)
(* (SpaceHash).                                                             *)
Dht(b) == {s \in Servers : Region[s] \cap Cells(b) # {}}

Bin(version) == (version % MaxVersions) + 1

Sharing(type) == type \in {"shmem_rdma", "shmem_non_rdma"}
UsesRdma(type) == type \in {"rdma", "shmem_rdma"}

(* A storage is a list of groups, each with a list of objects per bin.      *)
NewGroup(g) == [name |-> g, tab |-> [i \in 1 .. MaxVersions |-> << >>]]

storage_lookup_group(st, g) == {i \in DOMAIN st : st[i].name = g}

storage_add_obj(st, g, obj) ==
    LET added == IF storage_lookup_group(st, g) = {}
                 THEN <<NewGroup(g)>> \o st ELSE st
        i == Min(storage_lookup_group(added, g))
    IN [added EXCEPT ![i].tab[Bin(obj.ver)] = <<obj>> \o @]

(* The objects of a storage in the order its lists are walked.              *)
GroupObjects(gr) == FlattenSeq(gr.tab)
Entries(st) ==
    FlattenSeq([i \in DOMAIN st |->
        [k \in DOMAIN GroupObjects(st[i]) |->
            [group |-> st[i].name, obj |-> GroupObjects(st[i])[k]]]])
Objects(st) ==
    UNION {Range(st[i].tab[v]) : i \in DOMAIN st, v \in 1 .. MaxVersions}

storage_lookup_obj(st, id, version) ==
    {o \in UNION {Range(st[i].tab[Bin(version)]) : i \in DOMAIN st} : o.id = id}

ObjSize(o) == bbox_volume(o.box)

-----------------------------------------------------------------------------
(* Memory.                                                                  *)

get_available_rdma_buffer_size(c) ==
    IF usage[c] > load.rdma THEN 0 ELSE load.rdma - usage[c]

CanAlloc(c, size, type) ==
    /\ UsesRdma(type) => get_available_rdma_buffer_size(c) >= size
    /\ Sharing(type) => HasRoom(buf[c], size)

UsageAfterAlloc(u, size, type) == IF UsesRdma(type) THEN u + size ELSE u

(* Mutant: the usage is left.                                               *)
FreeUncounted(mem, obj) ==
    [buf |-> IF Sharing(obj.type) THEN dimes_buffer_free(mem.buf, obj.off)
             ELSE mem.buf,
     usage |-> mem.usage]

(* dimes_memory_free of one object after another.                           *)
dimes_memory_free(mem, obj) ==
    [buf |-> IF Sharing(obj.type) THEN dimes_buffer_free(mem.buf, obj.off)
             ELSE mem.buf,
     usage |-> IF UsesRdma(obj.type)
               THEN (mem.usage - ObjSize(obj)) % SizeT ELSE mem.usage]

storage_free_groups(c, st) ==
    FoldLeft(LAMBDA mem, e : dimes_memory_free(mem, e.obj),
             [buf |-> buf[c], usage |-> usage[c]], Entries(st))

(* Arrays in memory, dimension 1 fastest: the place of a point, and the     *)
(* value a put leaves at a place.                                           *)
Offset(b, x) ==
    FoldRight(LAMBDA i, n : n * bbox_dist(b, i) + x[i] - b.lb[i],
              [i \in Dims(b) |-> i], 0)

ValueAt(n, b, k) ==
    LET at == {x \in Cells(b) : Offset(b, x) = k}
    IN IF at = {} THEN None ELSE <<n, CHOOSE x \in at : TRUE>>

CopyIn(memory, off, n, b) ==
    [a \in DOMAIN memory |->
        IF a - off \in 0 .. bbox_volume(b) - 1 THEN ValueAt(n, b, a - off)
        ELSE memory[a]]

(* What is k elements into the memory of an object.                         *)
MemoryAt(obj, k) ==
    IF shmem THEN IF obj.off + k < SegSize THEN seg[obj.owner][obj.off + k]
                  ELSE None
    ELSE ValueAt(obj.n, obj.box, k)

-----------------------------------------------------------------------------
(* Reads.  A read copies n elements from src in the source to dst in the    *)
(* receive buffer; a transaction is a set of reads.                         *)

(* One read per row of the common box.                                      *)
matrix_rdma_copy(to, from) ==
    LET bbcom == bbox_intersect(to, from)
    IN {[src |-> Offset(from, x), dst |-> Offset(to, x),
         n |-> bbox_dist(bbcom, 1)] :
            x \in {y \in Cells(bbcom) : y[1] = bbcom.lb[1]}}

schedule_rdma_reads(src, dst) ==
    IF bbox_equals(src, dst)
    THEN {[src |-> 0, dst |-> 0, n |-> bbox_volume(dst)]}
    ELSE matrix_rdma_copy(dst, src)

is_remote_data_contiguous_in_memory(src, dst) ==
    LET bb == bbox_intersect(dst, src)
    IN \A i \in Dims(src) \ {Len(src.lb)} : bbox_dist(bb, i) = bbox_dist(src, i)

(* Mutant: the offset of the part in its source is forgotten.               *)
OffsetOfStart(src, dst) == 0

calculate_offset_for_remote_data(src, dst) ==
    LET bb == bbox_intersect(dst, src)
        last == Len(src.lb)
    IN (bb.lb[last] - src.lb[last])
       * FoldLeft(LAMBDA n, i : n * bbox_dist(src, i), 1,
                  [i \in 1 .. last - 1 |-> i])

ContiguousRead(src, dst) ==
    {[src |-> calculate_offset_for_remote_data(src, dst), dst |-> 0,
      n |-> bbox_volume(dst)]}

(* The receive buffer of a transaction.                                     *)
Received(obj, reads, k) ==
    LET r == CHOOSE r \in reads : k \in r.dst .. r.dst + r.n - 1
    IN MemoryAt(obj, r.src + k - r.dst)

-----------------------------------------------------------------------------
(* Puts, groups and syncs.                                                  *)

Running(c) == pc[c] = "run" /\ q[c] = None

(* The application works before its checkpoint, and again once all of it    *)
(* has restarted: the sequence of calls that common_dataspaces.h documents. *)
Working(c) ==
    Running(c) /\ \A d \in Clients : pc[d] = "run" /\ files[d] = None

(* A get is clean while the puts made before it have reached the servers    *)
(* and nothing is put, freed or announced during it.                        *)
Quiet ==
    /\ late = {}
    /\ \A c \in Clients, s \in Servers :
          \A i \in DOMAIN net[c][s] : net[c][s][i].t = "locate"

Spoilt == [d \in Clients |-> IF q[d] = None THEN None
                             ELSE [q[d] EXCEPT !.clean = FALSE]]

Send(c, ss, m) ==
    net' = [net EXCEPT ![c] = [s \in Servers |->
                IF s \in ss THEN Append(@[s], m) ELSE @[s]]]

NewObject(c, b, v, type) ==
    [id |-> <<c, next_index[c]>>, gen |-> gen, owner |-> c,
     n |-> Len(puts) + 1, box |-> b, ver |-> v, type |-> type,
     off |-> IF Sharing(type)
             THEN buf[c].free[Chosen(buf[c], bbox_volume(b))].ptr ELSE 0]

Record(c, b, v, kind) ==
    puts' = Append(puts, [client |-> c, group |-> group[c], box |-> b,
                          ver |-> v, kind |-> kind])

(* Memory for the object, the user's data in it, the object in the storage. *)
KeepObject(c, obj) ==
    /\ usage' = [usage EXCEPT ![c] =
                    UsageAfterAlloc(@, ObjSize(obj), obj.type)]
    /\ buf' = IF Sharing(obj.type)
              THEN [buf EXCEPT ![c] = dimes_buffer_alloc(@, ObjSize(obj))]
              ELSE buf
    /\ seg' = IF Sharing(obj.type)
              THEN [seg EXCEPT ![c] = CopyIn(@, obj.off, obj.n, obj.box)]
              ELSE seg
    /\ storage' = [storage EXCEPT ![c] = storage_add_obj(@, group[c], obj)]
    /\ reused' = IF gen = 2 THEN reused \cup {c} ELSE reused

PutFails(c, b, v, type) ==
    /\ ~CanAlloc(c, bbox_volume(b), type)
    /\ Record(c, b, v, "failed")
    /\ UNCHANGED <<usage, buf, seg, storage, net, q, books, reused>>

(* dimes_client_put and dimes_obj_put: each server of the box is told.      *)
PutSucceeds(c, b, v, type) ==
    /\ CanAlloc(c, bbox_volume(b), type)
    /\ LET obj == NewObject(c, b, v, type)
       IN KeepObject(c, obj) /\ Send(c, Dht(b), [t |-> "put", obj |-> obj])
    /\ Record(c, b, v, "put")
    /\ q' = Spoilt
    /\ books' = IF books[c] = "restored" THEN [books EXCEPT ![c] = "off"]
                ELSE books

dimes_client_put(c, b, v) ==
    LET type == IF shmem THEN "shmem_rdma" ELSE "rdma"
    IN /\ Working(c) /\ c \in load.writers /\ Len(puts) < load.puts
       /\ next_index' = [next_index EXCEPT ![c] = @ + 1]
       /\ PutFails(c, b, v, type) \/ PutSucceeds(c, b, v, type)
       /\ UNCHANGED <<era, pc, group, node_index, files, node_file,
                      inbox, meta_store, rdma, gets, syncs, regroups,
                      leaked>>

(* Kept in the segment, and told to no server.                              *)
dimes_client_shmem_put_local(c, b, v) ==
    LET type == "shmem_non_rdma"
    IN /\ Working(c) /\ shmem /\ c \in load.locals /\ Len(puts) < load.puts
       /\ next_index' = [next_index EXCEPT ![c] = @ + 1]
       /\ \/ PutFails(c, b, v, type)
          \/ /\ CanAlloc(c, bbox_volume(b), type)
             /\ KeepObject(c, NewObject(c, b, v, type))
             /\ Record(c, b, v, "local")
             /\ q' = Spoilt
             /\ UNCHANGED <<net, books>>
       /\ UNCHANGED <<era, pc, group, node_index, files, node_file,
                      inbox, meta_store, rdma, gets, syncs, regroups,
                      leaked>>

dimes_client_put_set_group(c, g) ==
    /\ Working(c) /\ c \in load.writers \cup load.locals
    /\ group[c] # g /\ regroups < load.regroups
    /\ regroups' = regroups + 1
    /\ group' = [group EXCEPT ![c] = g]
    /\ UNCHANGED <<era, pc, next_index, storage, node_index, usage,
                   buf, saved, wire, q, rdma, puts, gets, syncs, leaked,
                   books, reused>>

(* The groups of gone leave the storage, with their memory.                 *)
FreeGroups(c, gone) ==
    LET Leaves(gr) == gr.name \in gone
        mem == storage_free_groups(c, SelectSeq(storage[c], Leaves))
    IN /\ storage' = [storage EXCEPT ![c] =
                         SelectSeq(@, LAMBDA gr : ~Leaves(gr))]
       /\ buf' = [buf EXCEPT ![c] = mem.buf]
       /\ usage' = [usage EXCEPT ![c] = mem.usage]
       /\ books' = IF books[c] = "restored" THEN [books EXCEPT ![c] = "off"]
                   ELSE books

Sync(c) ==
    /\ Working(c) /\ c \in load.writers \cup load.locals /\ syncs < load.syncs
    /\ syncs' = syncs + 1
    /\ q' = Spoilt
    /\ UNCHANGED <<era, pc, next_index, group, saved, wire, rdma,
                   puts, gets, regroups, leaked, reused>>

(* With nothing stored and nothing in the index there is nothing to do.     *)
dimes_client_put_sync_all(c) ==
    /\ Sync(c)
    /\ storage[c] # << >> \/ node_index[c] # << >>
    /\ FreeGroups(c, Groups)
    /\ node_index' = [node_index EXCEPT ![c] = << >>]

(* A group that is not there is not an error.                               *)
dimes_client_put_sync_group(c, g) ==
    /\ Sync(c)
    /\ storage_lookup_group(storage[c], g) # {}
    /\ FreeGroups(c, {g})
    /\ node_index' = [node_index EXCEPT ![c] =
                         SelectSeq(@, LAMBDA gr : gr.name # g)]

-----------------------------------------------------------------------------
(* The directory of a server: per bin the objects announced, newest first.  *)

metadata_s_alloc == [i \in 1 .. MaxVersions |-> << >>]

(* Mutant: nothing is evicted.                                              *)
AddKeepingOld(store, obj) ==
    [store EXCEPT ![Bin(obj.ver)] = <<obj>> \o @]

(* Every object of the bin that intersects the new one leaves.              *)
metadata_s_add_obj_location(store, obj) ==
    [store EXCEPT ![Bin(obj.ver)] =
        <<obj>> \o SelectSeq(@, LAMBDA o : ~bbox_does_intersect(obj.box, o.box))]

metadata_s_find_obj_location(store, b, v) ==
    Reverse(SelectSeq(store[Bin(v)], LAMBDA o :
                o.ver = v /\ bbox_does_intersect(b, o.box)))

Deliver(s, c, t) ==
    /\ net[c][s] # << >> /\ Head(net[c][s]).t = t
    /\ net' = [net EXCEPT ![c][s] = Tail(@)]
    /\ UNCHANGED <<era, pc, volatile, saved, q, rdma, ghosts>>

dsgrpc_dimes_put(s, c) ==
    /\ Deliver(s, c, "put")
    /\ meta_store' = [meta_store EXCEPT ![s] =
            metadata_s_add_obj_location(@, Head(net[c][s]).obj)]
    /\ UNCHANGED inbox

(* The table of the objects that hold part of the box, empty if none does.  *)
dsgrpc_dimes_locate_data(s, c) ==
    /\ Deliver(s, c, "locate")
    /\ LET m == Head(net[c][s])
           tab == metadata_s_find_obj_location(meta_store[s], m.box, m.ver)
       IN inbox' = [inbox EXCEPT ![c] =
                       @ \cup {[from |-> s, tab |-> tab, here |-> FALSE]}]
    /\ UNCHANGED meta_store

dsgrpc_dimes_shmem_reset_server(s, c) ==
    /\ Deliver(s, c, "reset")
    /\ meta_store' = [meta_store EXCEPT ![s] = metadata_s_alloc]
    /\ UNCHANGED inbox

LateReset(s) ==
    /\ s \in late /\ late' = late \ {s}
    /\ erased' = (erased \/ \E i \in DOMAIN meta_store[s] :
                                \E o \in Range(meta_store[s][i]) : o.gen = 2)
    /\ meta_store' = [meta_store EXCEPT ![s] = metadata_s_alloc]
    /\ UNCHANGED <<load, gen, pc, volatile, saved, net, inbox, q, rdma, ghosts>>

dsgrpc_dimes_shmem_update_server(s, c) ==
    /\ Deliver(s, c, "update")
    /\ meta_store' = [meta_store EXCEPT ![s] =
            metadata_s_add_obj_location(@, Head(net[c][s]).obj)]
    /\ UNCHANGED inbox

-----------------------------------------------------------------------------
(* A get: locate the data, fetch it, return.                                *)

NewQuery(b, v, local) ==
    [box |-> b, ver |-> v, local |-> local, phase |-> "locate",
     posted |-> 0, received |-> 0, list |-> << >>, tab |-> << >>, at |-> 0,
     one |-> FALSE, out |-> [x \in Cells(b) |-> None], rc |-> "none",
     clean |-> Quiet, flagged |-> FALSE]

GetFrame ==
    UNCHANGED <<era, pc, next_index, group, storage, node_index, buf,
                saved, meta_store, puts, syncs, regroups, books, reused>>

(* dimes_obj_get up to the wait: every server of the box is asked.          *)
dimes_locate_data(c, b, v) ==
    /\ Working(c) /\ c \in Readers /\ gets < load.gets
    /\ gets' = gets + 1
    /\ Send(c, Dht(b), [t |-> "locate", box |-> b, ver |-> v])
    /\ q' = [q EXCEPT ![c] =
                [NewQuery(b, v, FALSE) EXCEPT !.posted = Cardinality(Dht(b)),
                                              !.flagged = rdma_err[c]]]
    /\ GetFrame /\ UNCHANGED <<usage, inbox, rdma, leaked>>


(* An object already on the list, of the same owner and with the same part  *)
(* of the box, is not added again.                                          *)
qt_find_obj_d(list, owner, dst) ==
    \E i \in DOMAIN list : list[i].obj.owner = owner /\ list[i].dst = dst

qt_add_obj_with_cmd_d(list, b, obj) ==
    LET dst == bbox_intersect(b, obj.box)
    IN IF qt_find_obj_d(list, obj.owner, dst) THEN list
       ELSE <<[obj |-> obj, dst |-> dst]>> \o list

AddAll(list, b, objs) ==
    FoldLeft(LAMBDA l, o : qt_add_obj_with_cmd_d(l, b, o), list, objs)

CountReply(query) ==
    [query EXCEPT !.received = @ + 1,
        !.phase = IF query.received + 1 = query.posted THEN "fetch" ELSE @]

(* Mutant: a reply with no object is not counted.                           *)
EmptyReplyLost(c) ==
    \E m \in inbox[c] :
        /\ ~m.here
        /\ inbox' = [inbox EXCEPT ![c] = (@ \ {m}) \cup
                        IF m.tab = << >> THEN {} ELSE {[m EXCEPT !.here = TRUE]}]
        /\ GetFrame /\ UNCHANGED <<q, usage, net, rdma, gets, leaked>>

(* A reply without a table counts; a table is read from the server first.   *)
dcgrpc_dimes_locate_data(c) ==
    \E m \in inbox[c] :
        /\ ~m.here
        /\ IF m.tab = << >>
           THEN /\ q' = [q EXCEPT ![c] = CountReply(@)]
                /\ inbox' = [inbox EXCEPT ![c] = @ \ {m}]
           ELSE /\ inbox' = [inbox EXCEPT ![c] =
                                (@ \ {m}) \cup {[m EXCEPT !.here = TRUE]}]
                /\ UNCHANGED q
        /\ GetFrame /\ UNCHANGED <<usage, net, rdma, gets, leaked>>

locate_data_completion_client(c) ==
    \E m \in inbox[c] :
        /\ m.here
        /\ q' = [q EXCEPT ![c] =
                    [CountReply(@) EXCEPT !.list = AddAll(@, q[c].box, m.tab)]]
        /\ inbox' = [inbox EXCEPT ![c] = @ \ {m}]
        /\ GetFrame /\ UNCHANGED <<usage, net, rdma, gets, leaked>>

(* dimes_obj_get_local: the objects are found in the client's own storage   *)
(* and in its index of the node.                                            *)
LocalObjects(st, b, v) ==
    SelectSeq(FlattenSeq([i \in DOMAIN st |-> st[i].tab[Bin(v)]]),
              LAMBDA o : o.ver = v /\ bbox_does_intersect(b, o.box))

dimes_obj_get_local(c, b, v) ==
    /\ Working(c) /\ shmem /\ c \in Readers /\ gets < load.gets
    /\ gets' = gets + 1
    /\ LET list == AddAll(<< >>, b, LocalObjects(storage[c], b, v)
                                    \o LocalObjects(node_index[c], b, v))
       IN q' = [q EXCEPT ![c] =
                   [NewQuery(b, v, TRUE) EXCEPT !.list = list,
                       !.phase = IF list = << >> THEN "done" ELSE "fetch",
                       !.rc = IF list = << >> THEN "nodata" ELSE "none"]]
    /\ GetFrame /\ UNCHANGED <<usage, net, inbox, rdma, leaked>>

-----------------------------------------------------------------------------
(* dimes_fetch_data.                                                        *)

FetchSize(f) == bbox_volume(f.dst)
OnNode(c, f) == shmem /\ SameNode(c, f.obj.owner)
Contiguous(f) == is_remote_data_contiguous_in_memory(f.obj.box, f.dst)

PostedFetches(query) ==
    {i \in DOMAIN query.tab : query.tab[i].st = "posted"}

Finish(c, rc) == [q EXCEPT ![c].phase = "done", ![c].rc = rc]

FetchFrame == GetFrame /\ UNCHANGED <<net, inbox, gets>>

(* err_out_free: the buffers of the posted reads are given back.            *)
FetchError(c, rc) ==
    /\ q' = Finish(c, rc)
    /\ usage' = [usage EXCEPT ![c] =
            @ - MapThenSumSet(LAMBDA i : FetchSize(q[c].tab[i].f),
                              PostedFetches(q[c]))]

(* The first walk: what is remote and contiguous goes to the table.         *)
dimes_fetch_data(c) ==
    LET far == SelectSeq(q[c].list, LAMBDA f : ~OnNode(c, f))
        tab == SelectSeq(far, LAMBDA f : f.obj.owner # c /\ Contiguous(f))
        short == \E i \in DOMAIN far :
                    FetchSize(far[i]) > get_available_rdma_buffer_size(c)
    IN /\ q[c].phase = "fetch"
       /\ q' = IF short THEN Finish(c, "nomem")
               ELSE [q EXCEPT ![c].phase = "issue",
                        ![c].tab = [i \in DOMAIN tab |->
                                       [f |-> tab[i], st |-> "ready"]]]
       /\ FetchFrame /\ UNCHANGED <<usage, rdma, leaked>>

(* One more read is posted, or the reads are polled.                        *)
get_next_fetch(c) ==
    LET ready == {i \in DOMAIN q[c].tab : q[c].tab[i].st = "ready"}
        full == Cardinality(PostedFetches(q[c])) >= MaxReads
        i == Min(ready)
        size == FetchSize(q[c].tab[i].f)
    IN /\ q[c].phase = "issue"
       /\ IF full \/ ready = {}
          THEN q' = [q EXCEPT ![c].phase = "poll"] /\ UNCHANGED usage
          ELSE IF CanAlloc(c, size, "rdma")
          THEN /\ q' = [q EXCEPT ![c].tab[i].st = "posted"]
               /\ usage' = [usage EXCEPT ![c] =
                               UsageAfterAlloc(@, size, "rdma")]
          ELSE FetchError(c, "nomem")
       /\ FetchFrame /\ UNCHANGED <<rdma, leaked>>

(* A remote read works while the memory it reads is registered.             *)
Registered(obj) ==
    \E o \in Objects(storage[obj.owner]) :
        o.id = obj.id /\ o.gen = obj.gen /\ UsesRdma(o.type)

(* The reads of a client use the queue pair of its connection to the owner. *)
(* A read that fails leaves it in error on both sides, and nothing connects *)
(* the two again (rpc_connect is only called while conn.f_connected is 0).  *)
Readable(c, obj) == Registered(obj) /\ {c, obj.owner} \notin broken

Break(c, obj) == broken' = broken \cup {{c, obj.owner}}

(* Whether the object is still where its description says.                  *)
InPlace(obj) ==
    /\ obj.owner \notin reused
    /\ \E o \in Objects(storage[obj.owner]) : o.n = obj.n /\ o.off = obj.off

(* The reads of a fetch, then ssd_copy into the user's array.               *)
obj_assemble(out, f, source, reads) ==
    [x \in DOMAIN out |->
        IF x \in Cells(f.dst)
        THEN [v |-> Received(source, reads, Offset(f.dst, x)),
              sure |-> InPlace(source)]
        ELSE out[x]]

(* dart_rdma_check_reads of one posted read.  A failed one is reported by   *)
(* the dart_rdma_process_reads before the next round.                       *)
CheckReads(c, i) ==
    LET f == q[c].tab[i].f
    IN IF Readable(c, f.obj)
       THEN /\ q' = [q EXCEPT ![c].at = i, ![c].one = TRUE,
                        ![c].tab[i].st = "done",
                        ![c].out = obj_assemble(@, f, f.obj,
                                       ContiguousRead(f.obj.box, f.dst))]
            /\ usage' = [usage EXCEPT ![c] = @ - FetchSize(f)]
            /\ UNCHANGED rdma
       ELSE /\ q' = [q EXCEPT ![c].at = i]
            /\ rdma_err' = [rdma_err EXCEPT ![c] = TRUE]
            /\ Break(c, f.obj)
            /\ UNCHANGED usage

RoundEnds(c) ==
    LET next == IF PostedFetches(q[c]) = {} /\
                   \A i \in DOMAIN q[c].tab : q[c].tab[i].st = "done"
                THEN "rest" ELSE IF q[c].one THEN "issue" ELSE "poll"
    IN q' = [q EXCEPT ![c].phase = next, ![c].at = 0, ![c].one = FALSE]

(* Rounds over the posted reads until one of them is complete.              *)
all_fetch_done(c) ==
    LET left == {i \in PostedFetches(q[c]) : i > q[c].at}
    IN /\ q[c].phase = "poll"
       /\ IF q[c].at = 0 /\ left # {} /\ rdma_err[c]
          THEN /\ FetchError(c, "failed")
               /\ rdma_err' = [rdma_err EXCEPT ![c] = FALSE]
               /\ UNCHANGED broken
          ELSE IF left # {} THEN CheckReads(c, Min(left))
          ELSE RoundEnds(c) /\ UNCHANGED <<usage, rdma>>
       /\ FetchFrame /\ UNCHANGED leaked

(* The second walk, one object of the list at a time: what is on the node   *)
(* is read from its segment, what is the client's own from its memory, what *)
(* is remote and not contiguous with one read per row.                      *)
Took(c, source) ==
    LET f == q[c].list[q[c].at + 1]
    IN q' = [q EXCEPT ![c].at = @ + 1,
                ![c].out = obj_assemble(@, f, source,
                               schedule_rdma_reads(f.obj.box, f.dst))]

FetchOwn(c, f) ==
    LET found == storage_lookup_obj(storage[c], f.obj.id, f.obj.ver)
    IN /\ IF found = {} THEN q' = Finish(c, "nodata")
          ELSE Took(c, CHOOSE o \in found : TRUE)
       /\ UNCHANGED <<usage, rdma, leaked>>

(* The receive buffer of a read that fails is not given back, and           *)
(* dart_rdma_process_reads clears the flag the failed read has set.         *)
FetchRows(c, f) ==
    IF ~CanAlloc(c, FetchSize(f), "rdma")
    THEN q' = Finish(c, "nomem") /\ UNCHANGED <<usage, rdma, leaked>>
    ELSE IF Readable(c, f.obj)
    THEN Took(c, f.obj) /\ UNCHANGED <<usage, rdma, leaked>>
    ELSE /\ q' = Finish(c, "failed")
         /\ rdma_err' = [rdma_err EXCEPT ![c] = FALSE]
         /\ Break(c, f.obj)
         /\ usage' = [usage EXCEPT ![c] = @ + FetchSize(f)]
         /\ leaked' = [leaked EXCEPT ![c] = @ + FetchSize(f)]

FetchRest(c) ==
    LET f == q[c].list[q[c].at + 1]
    IN /\ q[c].phase = "rest"
       /\ IF q[c].at = Len(q[c].list)
          THEN q' = Finish(c, "ok") /\ UNCHANGED <<usage, rdma, leaked>>
          ELSE IF OnNode(c, f)
          THEN Took(c, f.obj) /\ UNCHANGED <<usage, rdma, leaked>>
          ELSE IF f.obj.owner = c THEN FetchOwn(c, f)
          ELSE IF ~Contiguous(f) THEN FetchRows(c, f)
          ELSE /\ q' = [q EXCEPT ![c].at = @ + 1]
               /\ UNCHANGED <<usage, rdma, leaked>>
       /\ FetchFrame

(* The transaction is freed and the call returns.                           *)
dimes_obj_get(c) ==
    /\ q[c].phase = "done"
    /\ q' = [q EXCEPT ![c] = None]
    /\ FetchFrame /\ UNCHANGED <<usage, rdma, leaked>>

-----------------------------------------------------------------------------
(* Checkpoint and restart of an application that uses segments.  The clients *)
(* of a node meet in MPI barriers in these calls, and what each does before *)
(* the barrier is in memory of its own: a call of all of them is one step.  *)

On(n) == {c \in Clients : NodeOf[c] = n}

(* The O_EXCL of create_shmem_obj lets a checkpoint be written once; the    *)
(* first client of the node writes what it gathered from all.               *)
dimes_client_shmem_checkpoint(n) ==
    /\ \A c \in On(n) : Running(c) /\ files[c] = None
    /\ shmem /\ load.checkpoint /\ gen = 1
    /\ files' = [c \in Clients |->
            IF c \in On(n)
            THEN [st |-> Entries(storage[c]),
                  buf |-> dimes_client_shmem_checkpoint_allocator(buf[c])]
            ELSE files[c]]
    /\ node_file' = node_file \cup {n}
    /\ UNCHANGED <<era, pc, volatile, seg, wire, q, rdma, ghosts>>

(* The application ends after its checkpoint.  The segments stay.           *)
dimes_client_shmem_finalize(n) ==
    /\ \A c \in On(n) : Running(c)
    /\ \A c \in Clients : NodeOf[c] \in node_file
    /\ node_index' = [c \in Clients |->
                         IF c \in On(n) THEN << >> ELSE node_index[c]]
    /\ buf' = [c \in Clients |->
                  IF c \in On(n) THEN dimes_buf_cleanup_list ELSE buf[c]]
    /\ pc' = [c \in Clients |-> IF c \in On(n) THEN "final" ELSE pc[c]]
    /\ UNCHANGED <<era, next_index, group, storage, usage, saved, wire,
                   q, rdma, ghosts>>

dimes_client_shmem_reset_server_state(c) ==
    /\ pc[c] = "final" /\ \A d \in Clients : pc[d] \in {"final", "reset"}
    /\ pc' = [pc EXCEPT ![c] = "reset"]
    /\ Send(c, ResetBy[c], [t |-> "reset"])
    /\ UNCHANGED <<era, volatile, saved, inbox, meta_store, q, rdma,
                   ghosts>>

(* dimes_client_free of every client.  Nobody waits for the resets: one     *)
(* that is under way is handled when the next application is there already, *)
(* which has connections of its own.  Bound: other messages have arrived.   *)
dimes_client_alloc ==
    /\ \A c \in Clients : pc[c] = "reset"
    /\ \A c \in Clients, s \in Servers :
          \A i \in DOMAIN net[c][s] : net[c][s][i].t = "reset"
    /\ late' = {s \in Servers : \E c \in Clients : net[c][s] # << >>}
    /\ net' = [c \in Clients |-> [s \in Servers |-> << >>]]
    /\ gen' = 2
    /\ pc' = [c \in Clients |-> "start"]
    /\ next_index' = [c \in Clients |-> 0]
    /\ group' = [c \in Clients |-> DefaultGroup]
    /\ storage' = [c \in Clients |-> << >>]
    /\ usage' = [c \in Clients |-> 0]
    /\ rdma_err' = [c \in Clients |-> FALSE] /\ broken' = {}
    /\ leaked' = [c \in Clients |-> 0]
    /\ books' = [c \in Clients |-> "restored"]
    /\ UNCHANGED <<load, erased, node_index, buf, q, saved, inbox, meta_store,
                   puts, gets, syncs, regroups, reused>>

(* A saved object goes to a storage, or to the index of another client of   *)
(* the node, with a new number.                                             *)
Insert(st, entry, c, index) ==
    storage_add_obj(st, entry.group,
        [entry.obj EXCEPT !.id = <<c, index>>, !.gen = 2])

InsertAll(entries, c, first) ==
    FoldLeft(LAMBDA st, k : Insert(st, entries[k], c, first + k - 1),
             << >>, [k \in DOMAIN entries |-> k])

OthersEntries(c) ==
    FoldSet(LAMBDA d, l : l \o files[d].st, << >>, Peers(c) \ {c})

(* The files are removed once every client of the node has read them.       *)
dimes_client_shmem_restart(n) ==
    LET Own(c) == files[c].st
        Others(c) == OthersEntries(c)
    IN /\ \A c \in On(n) : pc[c] = "start"
       /\ buf' = [c \in Clients |-> IF c \in On(n)
                     THEN dimes_client_shmem_restart_allocator(
                              dimes_buffer_init(SegSize), files[c].buf)
                     ELSE buf[c]]
       /\ storage' = [c \in Clients |-> IF c \in On(n)
                         THEN InsertAll(Own(c), c, 0) ELSE storage[c]]
       /\ node_index' = [c \in Clients |-> IF c \in On(n)
                            THEN InsertAll(Others(c), c, Len(Own(c)))
                            ELSE node_index[c]]
       /\ next_index' = [c \in Clients |-> IF c \in On(n)
                            THEN Len(Own(c)) + Len(Others(c))
                            ELSE next_index[c]]
       /\ pc' = [c \in Clients |-> IF c \in On(n) THEN "run" ELSE pc[c]]
       /\ files' = [c \in Clients |-> IF c \in On(n) THEN None ELSE files[c]]
       /\ node_file' = node_file \ {n}
       /\ UNCHANGED <<era, group, usage, seg, wire, q, rdma, ghosts>>

(* Each object that remote clients may read is announced, and counted.      *)
dimes_client_shmem_update_server_state(c) ==
    LET objs == SelectSeq([k \in DOMAIN Entries(storage[c]) |->
                              Entries(storage[c])[k].obj],
                          LAMBDA o : o.type # "shmem_non_rdma")
        To(s) == SelectSeq(objs, LAMBDA o : s \in Dht(o.box))
    IN /\ Working(c) /\ gen = 2 /\ books[c] = "restored"
       /\ net' = [net EXCEPT ![c] = [s \in Servers |->
                    @[s] \o [k \in DOMAIN To(s) |->
                                [t |-> "update", obj |-> To(s)[k]]]]]
       /\ usage' = [usage EXCEPT ![c] =
                       FoldLeft(LAMBDA u, o : u + ObjSize(o), @, objs)]
       /\ books' = [books EXCEPT ![c] = "exact"]
       /\ q' = Spoilt
       /\ UNCHANGED <<era, pc, next_index, group, storage, node_index,
                      buf, saved, inbox, meta_store, rdma, puts, gets,
                      syncs, regroups, leaked, reused>>

-----------------------------------------------------------------------------
Init ==
    /\ load \in Workloads
    /\ gen = 1 /\ late = {} /\ erased = FALSE
    /\ pc = [c \in Clients |-> "run"]
    /\ next_index = [c \in Clients |-> 0]
    /\ group = [c \in Clients |-> DefaultGroup]
    /\ storage = [c \in Clients |-> << >>]
    /\ node_index = [c \in Clients |-> << >>]
    /\ usage = [c \in Clients |-> 0]
    /\ rdma_err = [c \in Clients |-> FALSE] /\ broken = {}
    /\ q = [c \in Clients |-> None]
    /\ leaked = [c \in Clients |-> 0]
    /\ buf = [c \in Clients |-> IF shmem THEN dimes_buffer_init(SegSize)
                                ELSE dimes_buf_cleanup_list]
    /\ seg = [c \in Clients |-> [a \in 0 .. SegSize - 1 |-> None]]
    /\ files = [c \in Clients |-> None]
    /\ node_file = {}
    /\ net = [c \in Clients |-> [s \in Servers |-> << >>]]
    /\ inbox = [c \in Clients |-> {}]
    /\ meta_store = [s \in Servers |-> metadata_s_alloc]
    /\ puts = << >> /\ gets = 0 /\ syncs = 0 /\ regroups = 0
    /\ books = [c \in Clients |-> "exact"]
    /\ reused = {}

Server(s) ==
    \/ LateReset(s)
    \/ \E c \in Clients :
          \/ dsgrpc_dimes_put(s, c)
          \/ dsgrpc_dimes_locate_data(s, c)
          \/ dsgrpc_dimes_shmem_reset_server(s, c)
          \/ dsgrpc_dimes_shmem_update_server(s, c)

Getting(c) ==
    /\ q[c] # None
    /\ \/ dcgrpc_dimes_locate_data(c)
       \/ locate_data_completion_client(c)
       \/ dimes_fetch_data(c)
       \/ get_next_fetch(c)
       \/ all_fetch_done(c)
       \/ FetchRest(c)
       \/ dimes_obj_get(c)

Calls(c) ==
    \/ \E b \in load.boxes[c], v \in load.versions :
          dimes_client_put(c, b, v) \/ dimes_client_shmem_put_local(c, b, v)
    \/ \E g \in Groups : dimes_client_put_set_group(c, g)
    \/ dimes_client_put_sync_all(c)
    \/ \E g \in Groups : dimes_client_put_sync_group(c, g)
    \/ \E b \in load.wanted, v \in load.versions :
          dimes_locate_data(c, b, v) \/ dimes_obj_get_local(c, b, v)

Life ==
    \/ \E n \in Range(NodeOf) : \/ dimes_client_shmem_checkpoint(n)
                               \/ dimes_client_shmem_finalize(n)
                               \/ dimes_client_shmem_restart(n)
    \/ \E c \in Clients : \/ dimes_client_shmem_reset_server_state(c)
                          \/ dimes_client_shmem_update_server_state(c)
    \/ dimes_client_alloc

Next ==
    \/ \E s \in Servers : Server(s)
    \/ \E c \in Readers : Getting(c)
    \/ \E c \in Clients : Calls(c)
    \/ Life

(* A server handles its messages, and a client in a get polls for replies   *)
(* and completions; nothing makes an application call anything.             *)
Fairness ==
    /\ \A s \in Servers : WF_vars(Server(s))
    /\ \A c \in Readers : WF_vars(Getting(c))

Spec == Init /\ [][Next]_vars /\ Fairness

-----------------------------------------------------------------------------
Number == 1 .. Len(puts)
Value == {None} \cup (Number \X UNION {Cells(b) : b \in UNION Range(load.boxes)})

(* The types of the client's and the servers' state.                        *)
TypeOK ==
    /\ load \in Workloads /\ gen \in {1, 2}
    /\ pc \in [Clients -> {"run", "final", "reset", "start"}]
    /\ usage \in [Clients -> 0 .. SizeT - 1]
    /\ \A c \in Clients : seg[c] \in [0 .. SegSize - 1 -> Value]
    /\ \A c \in Clients : \A o \in Objects(storage[c]) :
          o.owner = c /\ o.n \in Number /\ o.gen = gen
    /\ \A c \in Clients : q[c] # None =>
          /\ q[c].received <= q[c].posted
          /\ (q[c].phase = "locate") <=> (q[c].received < q[c].posted)
          /\ Cardinality(PostedFetches(q[c])) <= MaxReads

(* The memory of a stored object holds what its put wrote, through every    *)
(* allocation, free and restart (dimes_buffer_alloc, dimes_buffer_free,     *)
(* dimes_client_shmem_restart), until a client allocates again from a       *)
(* restarted segment.                                                       *)
StoredIsIntact ==
    shmem => \A c \in Clients \ reused : \A o \in Objects(storage[c]) :
        \A k \in 0 .. ObjSize(o) - 1 :
            seg[c][o.off + k] = ValueAt(o.n, puts[o.n].box, k)

(* The blocks of a segment tile it, free neighbours are merged, both lists  *)
(* are in order, and the used blocks are those of the stored objects: no    *)
(* put, failed put or sync loses a block or leaves two objects in one       *)
(* (dimes_data.c, dimes_memory_free).  A restart breaks this.               *)
BlocksTile ==
    \A c \in Clients : shmem /\ gen = 1 /\ pc[c] = "run" =>
        /\ Tiles(buf[c], SegSize)
        /\ Len(buf[c].used) = Cardinality(Objects(storage[c]))
        /\ Range(buf[c].used) = {[ptr |-> o.off, size |-> ObjSize(o)] :
                                    o \in Objects(storage[c])}

(* The memory of the objects is right: its contents and the lists of the    *)
(* allocator that hands it out.                                             *)
MemoryIntact == TypeOK /\ StoredIsIntact /\ BlocksTile

Stored(c) ==
    MapThenSumSet(ObjSize, {o \in Objects(storage[c]) : UsesRdma(o.type)})
InFlight(c) ==
    IF q[c] = None \/ q[c].phase = "done" THEN 0
    ELSE MapThenSumSet(LAMBDA i : FetchSize(q[c].tab[i].f),
                       PostedFetches(q[c]))

(* rdma_buffer_usage is what is stored, the posted receive buffers and the  *)
(* buffers failed gets lost, and stays within the buffer: no path of a put, *)
(* sync or get counts memory twice or forgets it.  After a restart it is so *)
(* once dimes_client_shmem_update_server_state has counted the objects.     *)
Accounting ==
    \A c \in Clients : books[c] = "exact" =>
        /\ usage[c] = Stored(c) + InFlight(c) + leaked[c]
        /\ usage[c] <= load.rdma

(* What a get has copied to the user is the requested point of the          *)
(* requested version whenever the object it read was still in place, and in *)
(* registered memory of its own always: a read of freed memory fails.       *)
GetSound ==
    \A c \in Clients : q[c] # None =>
        \A x \in DOMAIN q[c].out :
            LET o == q[c].out[x]
            IN o # None /\ (o.sure \/ ~shmem) =>
                  o.v # None /\ o.v[2] = x /\ puts[o.v[1]].ver = q[c].ver

-----------------------------------------------------------------------------
Live(n) ==
    \E c \in Clients : \E o \in Objects(storage[c]) : o.n = n

Wanted(query) ==
    {n \in Number : /\ puts[n].kind = "put" /\ puts[n].ver = query.ver
                    /\ bbox_does_intersect(puts[n].box, query.box)}

(* Every put the query wants is still stored, its owner has announced it if *)
(* it was restarted, and no other box or version of its bin overlaps it.    *)
Settled(query) ==
    /\ \A n \in Wanted(query) :
          /\ Live(n)
          /\ books[puts[n].client] = "exact" /\ puts[n].client \notin reused
          /\ \A m \in Number :
                /\ puts[m].kind = "put"
                /\ Bin(puts[m].ver) = Bin(query.ver)
                /\ bbox_does_intersect(puts[m].box, puts[n].box)
                => puts[m].box = puts[n].box /\ puts[m].ver = puts[n].ver

Filled(query) == {x \in DOMAIN query.out : query.out[x] # None}

(* The parts that have to be received do not fit into what is free of the   *)
(* client's registered memory, all together.                                *)
NoRoom(c) ==
    LET far == {i \in DOMAIN q[c].list : ~OnNode(c, q[c].list[i])}
    IN MapThenSumSet(LAMBDA i : FetchSize(q[c].list[i]), far)
       > get_available_rdma_buffer_size(c)

(* An earlier read has left its mark: the flag of a failed read was set     *)
(* when the get began, or the queue pair to an owner is in error.           *)
Tainted(c) ==
    q[c].flagged \/ \E n \in Wanted(q[c]) : {c, puts[n].client} \in broken


(* A client that put the same box of the same version twice is never read   *)
(* through its first put again: the directory replaces the old description  *)
(* (metadata_s_add_obj_location), also after a restart, and a local get     *)
(* finds the new object first until a restart turns the lists around.       *)
GetFresh ==
    \A c \in Clients :
        /\ q[c] # None /\ q[c].clean
        /\ IF q[c].local THEN gen = 1 ELSE Settled(q[c])
        => \A x \in Filled(q[c]) : LET n == q[c].out[x].v[1] IN
              ~\E m \in Number :
                  /\ n < m /\ puts[n].client = puts[m].client
                  /\ puts[n].group = puts[m].group
                  /\ puts[n].ver = puts[m].ver /\ puts[n].box = puts[m].box
                  /\ puts[m].kind \in IF q[c].local THEN {"put", "local"}
                                                 ELSE {"put"}
                  /\ Live(m)

(* Every get returns: all servers answer, every table is read, the rounds   *)
(* over the posted reads end (DIMES_WAIT_COMPLETION, all_fetch_done).       *)
GetReturns == \A c \in Readers : q[c] # None ~> q[c] = None
=============================================================================
