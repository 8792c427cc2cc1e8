------------------------------- MODULE IbApps -------------------------------
(***************************************************************************)
(* Applications come and go over InfiniBand (dart/ib): the processes of an *)
(* application gather at their master client, it registers with server 0   *)
(* and sends it their addresses, server 0 announces the application to the *)
(* other servers, with DIMES to the applications that are there, and sends *)
(* back the addresses of all others; an application that finalizes is      *)
(* taken out of the tables again.  The servers have booted (IbServers).    *)
(*                                                                         *)
(* Process <<0, i>> is server i and <<a, r>> the process of rank r in      *)
(* application a; a process stands for its address.  A message and the     *)
(* data the receiver then reads from the sender's memory are one record of *)
(* chan; reads[p] holds the records whose RDMA read p has posted.          *)
(***************************************************************************)
EXTENDS Integers, Sequences, FiniteSets, SequencesExt

CONSTANTS num_sp,   \* the number of servers
          conf_cp,  \* the number of clients on the servers' command line (-c)
          Size      \* Size[a]: the number of processes of application a

Apps    == DOMAIN Size
Server0 == <<0, 0>>
Slaves  == {<<0, i>> : i \in 1 .. num_sp - 1}
Servers == {Server0} \cup Slaves
Members(a) == {<<a, r>> : r \in 0 .. Size[a] - 1}
Clients == UNION {Members(a) : a \in Apps}
Procs   == Servers \cup Clients
AppMaster(a) == <<a, 0>>

(* Who talks to whom: server 0 with all, and an application within itself.  *)
Channels == {c \in Procs \X Procs :
                /\ c[1] # c[2]
                /\ \/ Server0 \in {c[1], c[2]}
                   \/ c[1][1] = c[2][1] /\ c[1][1] # 0}
Senders == [p \in Procs |-> {q \in Procs : <<q, p>> \in Channels}]

ASSUME IbAppsAssumption ==
    /\ num_sp \in Nat \ {0} /\ conf_cp \in Nat /\ Apps \subseteq Nat \ {0}
    /\ \A a \in Apps : Size[a] \in Nat \ {0, 1}

VARIABLES
    dimes,      \* DS_HAVE_DIMES: without it the processes gather through MPI
    pc,         \* where the main thread of a client is
    id,         \* rpc_s->ptlmap.id
    peer_list,  \* peer_list[p]: sequence of entries, first one first
    cp_min_rank,\* of a client
    num_cp,     \* dc->num_cp of a client, ds->num_cp of a server
    f_reg, f_reg_all,
    connected,  \* dc->connected of a master client
    next_peer,  \* loop index of dc_disseminate_dc
    num_posted, num_unreg,
    deferred,   \* deferred_app_msg
    stalled,    \* handlers that process events before they end, innermost last
    ec, est,    \* connection requests at a listening id, and the answers
    chan,       \* messages, in order per pair of processes
    reads,      \* RDMA reads that p has posted
    app_list,   \* app_list[s]: the applications server s has, first one first
    app,        \* struct app_info of server 0
    cp_rank_cnt,
    current_client_size, \* of every server
    frames,     \* cp_disseminate_cs_completion of server 0, innermost last
    crashed,    \* server 0 has followed a removed list entry
    overlap,    \* history: two applications were registering at a time
    missed,     \* history: <<b, a>> when b has its table and is not told of a
    torn        \* history: whose table had an entry that nobody had filled in

client == <<pc, cp_min_rank, f_reg, f_reg_all, connected, next_peer, num_posted,
            num_unreg, deferred, stalled>>
server == <<app_list, app, cp_rank_cnt, current_client_size, frames, crashed>>
conn   == <<ec, est>>
hist   == <<overlap, missed, torn>>
vars   == <<dimes, client, id, peer_list, num_cp, conn, chan, reads, server, hist>>

Entry(p, i) == [proc |-> p, id |-> i]

(* What a peer entry is like that was read from memory nobody has written:  *)
(* no process has its address, and its id may be one in use (bound).        *)
Nobody    == <<0, num_sp>>
Leftovers == {0, num_sp + Cardinality(Clients)}

AppId(e) == e.proc[1]

(* rpc_server_find: the first entry with the id.                            *)
Find(p, i) == SelectInSeq(peer_list[p], LAMBDA e : e.id = i)

Known(p) == {e.proc : e \in Range(peer_list[p])}

(* list_add puts in front, so entries added one by one end up reversed.     *)
ListAddAll(list, new) == Reverse(new) \o list

Send(p, q, m) == [chan EXCEPT ![<<p, q>>] = Append(@, m)]

(* A process polls its channels while its main thread is in one of these    *)
(* places, not while it is in a barrier.                                    *)
Polling(p) ==
    IF p \in Servers THEN ~crashed
    ELSE pc[p] \in {"wait_reg", "announce", "wait_all", "run", "unreg", "unreg_wait"}

Message(p, q, cmd) ==
    /\ Polling(p) /\ <<q, p>> \in Channels /\ chan[<<q, p>>] # <<>>
    /\ Head(chan[<<q, p>>]).cmd = cmd

Take(q, p) == [chan EXCEPT ![<<q, p>>] = Tail(@)]

(* Takes the message and posts the read of its data.                        *)
PostRead(p, q, m) ==
    /\ chan' = Take(q, p)
    /\ reads' = [reads EXCEPT ![p] = Append(@, [from |-> q, m |-> m])]

(* The reads from one process complete in the order they were posted.       *)
ReadCompletes(p, k, cmd) ==
    /\ Polling(p) /\ k \in DOMAIN reads[p]
    /\ reads[p][k].m.cmd = cmd
    /\ \A j \in 1 .. k - 1 : reads[p][j].from # reads[p][k].from
    /\ reads' = [reads EXCEPT ![p] = RemoveAt(@, k)]

Connecting(a) == \E p \in Members(a) : pc[p] \notin {"start", "run", "unreg", "unreg_wait",
                                                     "left", "done"}
NoteOverlap(a) ==
    /\ overlap' = (overlap \/ \E b \in Apps \ {a} : Connecting(b))
    /\ UNCHANGED <<missed, torn>>

(* The applications are numbered in the order in which they reach server 0. *)
InTurn(a) == \A b \in Apps : b < a => pc[AppMaster(b)] \notin {"start", "collect"}
-----------------------------------------------------------------------------
(* The processes of an application gather.                                 *)

(* dc_boot with DIMES: the process of rank 0 writes its address to conf.a   *)
(* and starts its listening thread.                                         *)
dc_boot_rank_0(a) ==
    LET p == AppMaster(a)
    IN /\ dimes /\ pc[p] = "start" /\ InTurn(a)
       /\ peer_list' = [peer_list EXCEPT ![p] = <<Entry(p, 0)>>]
       /\ pc' = [pc EXCEPT ![p] = "collect"]
       /\ NoteOverlap(a)
       /\ UNCHANGED <<dimes, cp_min_rank, f_reg, f_reg_all, connected, next_peer,
                      num_posted, num_unreg, deferred, stalled, id, num_cp, conn, chan,
                      reads, server>>

(* dc_boot_slave: reads conf.a until it is there, and connects.             *)
dc_boot_slave(p) ==
    LET m == AppMaster(p[1])
    IN /\ dimes /\ pc[p] = "start" /\ p # m /\ pc[m] # "start"
       /\ peer_list' = [peer_list EXCEPT ![p] = <<Entry(m, 0)>>]
       /\ ec' = [ec EXCEPT ![m] = Append(@, [kind |-> "request", from |-> p])]
       /\ pc' = [pc EXCEPT ![p] = "connect"]
       /\ UNCHANGED <<dimes, cp_min_rank, f_reg, f_reg_all, connected, next_peer,
                      num_posted, num_unreg, deferred, stalled, id, num_cp, est, chan,
                      reads, server, hist>>

(* dc_master_listen: a process of the application becomes a peer, with the  *)
(* next id counted from 1; the event that the connection stands follows.    *)
dc_master_listen(m) ==
    /\ m \in Clients /\ ec[m] # <<>>
    /\ LET e == Head(ec[m])
       IN IF e.kind = "request"
          THEN /\ peer_list' = [peer_list EXCEPT ![m] = <<Entry(e.from, Len(@))>> \o @]
               /\ est' = [est EXCEPT ![e.from] = [id |-> Len(peer_list[m]), min |-> 0]]
               /\ UNCHANGED connected
          ELSE /\ connected' = [connected EXCEPT ![m] = @ + 1]
               /\ UNCHANGED <<peer_list, est>>
    /\ ec' = [ec EXCEPT ![m] = Tail(@)]
    /\ UNCHANGED <<dimes, pc, cp_min_rank, f_reg, f_reg_all, next_peer, num_posted,
                   num_unreg, deferred, stalled, id, num_cp, chan, reads, server, hist>>

(* rpc_connect of such a process returns.                                   *)
SlaveConnected(p) ==
    /\ pc[p] = "connect" /\ p # AppMaster(p[1]) /\ est[p] # <<>>
    /\ id' = [id EXCEPT ![p] = est[p].id]
    /\ est' = [est EXCEPT ![p] = <<>>]
    /\ ec' = [ec EXCEPT ![AppMaster(p[1])] = Append(@, [kind |-> "established", from |-> p])]
    /\ pc' = [pc EXCEPT ![p] = "wait_reg"]
    /\ UNCHANGED <<dimes, cp_min_rank, f_reg, f_reg_all, connected, next_peer, num_posted,
                   num_unreg, deferred, stalled, peer_list, num_cp, chan, reads, server,
                   hist>>

(* boot_client_processes without DIMES: the addresses are gathered at rank  *)
(* 0, which connects to server 0; the others keep rank 0 as peer 0 and wait *)
(* in the broadcast.                                                        *)
gather_peer_list(a) ==
    LET m == AppMaster(a)
        All == [r \in 1 .. Size[a] |-> Entry(<<a, Size[a] - r>>, Size[a] - r)]
    IN /\ ~dimes /\ InTurn(a) /\ \A p \in Members(a) : pc[p] = "start"
       /\ peer_list' = [p \in Procs |-> IF p = m THEN All
                                        ELSE IF p \in Members(a) THEN <<Entry(m, 0)>>
                                        ELSE peer_list[p]]
       /\ ec' = [ec EXCEPT ![Server0] = Append(@, [kind |-> "request", from |-> m])]
       /\ pc' = [p \in Clients |-> IF p = m THEN "connect"
                                   ELSE IF p \in Members(a) THEN "bcast" ELSE pc[p]]
       /\ NoteOverlap(a)
       /\ UNCHANGED <<dimes, cp_min_rank, f_reg, f_reg_all, connected, next_peer,
                      num_posted, num_unreg, deferred, stalled, id, num_cp, est, chan,
                      reads, server>>

(* dc_boot_master with DIMES: all are connected, so it connects to server 0. *)
dc_boot_master(a) ==
    LET m == AppMaster(a)
    IN /\ pc[m] = "collect" /\ connected[m] = Size[a] - 1
       /\ ec' = [ec EXCEPT ![Server0] = Append(@, [kind |-> "request", from |-> m])]
       /\ pc' = [pc EXCEPT ![m] = "connect"]
       /\ UNCHANGED <<dimes, cp_min_rank, f_reg, f_reg_all, connected, next_peer,
                      num_posted, num_unreg, deferred, stalled, id, peer_list, num_cp, est,
                      chan, reads, server, hist>>
-----------------------------------------------------------------------------
(* Registration with server 0.                                             *)

(* The listening thread of server 0 (ds_master_listen, dsrpc_cn_register)   *)
(* shares the lists with the main thread and takes no lock.  It links the   *)
(* entry of the master client, with the id 0, and counts it ...             *)
LinkClient ==
    /\ ec[Server0] # <<>> /\ ~crashed
    /\ LET m == Head(ec[Server0]).from
       IN /\ m \notin Known(Server0)
          /\ peer_list' = [peer_list EXCEPT ![Server0] = <<Entry(m, 0)>> \o @]
          /\ current_client_size' = [current_client_size EXCEPT ![Server0] = @ + 1]
          /\ num_cp' = [num_cp EXCEPT ![Server0] = @ + Size[m[1]]]
    /\ UNCHANGED <<dimes, client, id, conn, chan, reads, app_list, app, cp_rank_cnt, frames,
                   crashed, hist>>

(* ... enters the application, gives the entry its id and accepts.          *)
dsrpc_cn_register ==
    /\ ec[Server0] # <<>> /\ ~crashed
    /\ LET m == Head(ec[Server0]).from
           a == m[1]
           k == SelectInSeq(peer_list[Server0], LAMBDA e : e.proc = m)
       IN /\ k # 0
          /\ app_list' = [app_list EXCEPT ![Server0] = <<a>> \o @]
          /\ app' = [app EXCEPT ![a] = [min |-> cp_rank_cnt, cnt |-> 1, sent |-> FALSE]]
          /\ cp_rank_cnt' = cp_rank_cnt + Size[a]
          /\ peer_list' = [peer_list EXCEPT ![Server0][k].id = cp_rank_cnt]
          /\ est' = [est EXCEPT ![m] = [id |-> cp_rank_cnt, min |-> cp_rank_cnt]]
    /\ ec' = [ec EXCEPT ![Server0] = Tail(@)]
    /\ UNCHANGED <<dimes, client, id, num_cp, chan, reads, current_client_size, frames,
                   crashed, hist>>

(* dc_disseminate: the addresses of the application go to server 0.         *)
dc_disseminate(m, own) ==
    chan' = Send(m, Server0, [cmd |-> "cp_disseminate_cs", tab |-> own])

(* rpc_connect of the master client returns: the ids of the application are *)
(* moved up, and server 0 becomes a peer.                                   *)
MasterConnected(a) ==
    LET m   == AppMaster(a)
        min == est[m].min
        own == [k \in DOMAIN peer_list[m] |->
                   Entry(peer_list[m][k].proc, peer_list[m][k].id + min)]
    IN /\ pc[m] = "connect" /\ est[m] # <<>>
       /\ id' = [id EXCEPT ![m] = est[m].id]
       /\ cp_min_rank' = [cp_min_rank EXCEPT ![m] = min]
       /\ peer_list' = [peer_list EXCEPT ![m] = <<Entry(Server0, 0)>> \o own]
       /\ dc_disseminate(m, own)
       /\ est' = [est EXCEPT ![m] = <<>>]
       /\ pc' = [pc EXCEPT ![m] = "wait_reg"]
       /\ UNCHANGED <<dimes, f_reg, f_reg_all, connected, next_peer, num_posted, num_unreg,
                      deferred, stalled, num_cp, ec, reads, server, hist>>

dsrpc_cp_disseminate_cs(q) ==
    /\ Message(Server0, q, "cp_disseminate_cs")
    /\ PostRead(Server0, q, Head(chan[<<q, Server0>>]))
    /\ UNCHANGED <<dimes, client, id, peer_list, num_cp, conn, server, hist>>

(* Enters the processes after the first, which is the last of the table,    *)
(* and begins the announcements.                                            *)
cp_disseminate_cs_completion(k) ==
    /\ ReadCompletes(Server0, k, "cp_disseminate_cs")
    /\ LET r == reads[Server0][k]
           a == r.from[1]
           n == Size[a] - 1
       IN /\ peer_list' = [peer_list EXCEPT
                ![Server0] = ListAddAll(@, SubSeq(r.m.tab, 1, n))]
          /\ app' = [app EXCEPT ![a].cnt = @ + n]
          /\ current_client_size' = [current_client_size EXCEPT ![Server0] = @ + n]
          /\ frames' = Append(frames, [app |-> a, left |-> num_sp - 1, cur |-> 0,
                                       told |-> FALSE])
    /\ UNCHANGED <<dimes, client, id, num_cp, conn, chan, app_list, cp_rank_cnt, crashed,
                   hist>>

(* sp_announce_app: the entries of application a.                           *)
AppTable(a) ==
    [cmd |-> "sp_announce_app", app |-> a,
     tab |-> SelectSeq(peer_list[Server0], LAMBDA e : AppId(e) = a)]

Top == frames[Len(frames)]
SetTop(f) == frames' = [frames EXCEPT ![Len(frames)] = f]

(* ds_disseminate_app for the other servers, one after the other; events    *)
(* are processed in between.                                                *)
AnnounceToServer ==
    /\ frames # <<>> /\ Top.left > 0 /\ ~crashed
    /\ chan' = Send(Server0, <<0, Top.left>>, AppTable(Top.app))
    /\ SetTop([Top EXCEPT !.left = @ - 1])
    /\ UNCHANGED <<dimes, client, id, peer_list, num_cp, conn, reads, app_list, app,
                   cp_rank_cnt, current_client_size, crashed, hist>>

(* The entry after cur in app_list; 0 stands for the list's head.  An entry *)
(* that was removed has no next one.                                        *)
Removed(c) == c # 0 /\ ~Contains(app_list[Server0], c)
AppAfter(c) ==
    LET i == IF c = 0 THEN 0 ELSE SelectInSeq(app_list[Server0], LAMBDA a : a = c)
    IN IF i = Len(app_list[Server0]) THEN 0 ELSE app_list[Server0][i + 1]

(* With DIMES: the loop over app_list announces the application to those    *)
(* that have their tables.                                                  *)
AnnounceToApp ==
    /\ frames # <<>> /\ Top.left = 0 /\ ~Top.told /\ ~crashed
    /\ dimes /\ ~Removed(Top.cur) /\ AppAfter(Top.cur) # 0
    /\ LET b == AppAfter(Top.cur)
       IN /\ chan' = IF b # Top.app /\ app[b].sent
                     THEN Send(Server0, AppMaster(b), AppTable(Top.app))
                     ELSE chan
          /\ SetTop([Top EXCEPT !.cur = b])
          /\ missed' = IF \E f \in Range(Front(frames)) : f.app = b /\ f.told
                       THEN missed \cup {<<b, Top.app>>} ELSE missed
    /\ UNCHANGED <<dimes, client, id, peer_list, num_cp, conn, reads, app_list, app,
                   cp_rank_cnt, current_client_size, crashed, overlap, torn>>

(* The loop follows the pointer of a removed entry.                         *)
FollowRemoved ==
    /\ frames # <<>> /\ Top.left = 0 /\ ~Top.told /\ ~crashed
    /\ dimes /\ Removed(Top.cur)
    /\ crashed' = TRUE
    /\ UNCHANGED <<dimes, client, id, peer_list, num_cp, conn, chan, reads, app_list, app,
                   cp_rank_cnt, current_client_size, frames, hist>>

(* cs_disseminate_cp: the new application gets the addresses of the others. *)
(* An entry without its id is counted and not copied; the receiver then     *)
(* reads one that nobody has filled in.                                     *)
cs_disseminate_cp ==
    /\ frames # <<>> /\ Top.left = 0 /\ ~Top.told /\ ~crashed
    /\ dimes => ~Removed(Top.cur) /\ AppAfter(Top.cur) = 0
    /\ LET a   == Top.app
           tab == SelectSeq(peer_list[Server0], LAMBDA e : e.id # 0 /\ AppId(e) # a)
           n   == num_sp + current_client_size[Server0] - Size[a] - 1
       IN \E i \in Leftovers :
             /\ n = Len(tab) => i = 0
             /\ chan' = Send(Server0, AppMaster(a),
                   [cmd |-> "sp_announce_cp", num_cp |-> current_client_size[Server0],
                    tab |-> tab \o [k \in 1 .. n - Len(tab) |-> Entry(Nobody, i)]])
             /\ torn' = IF n = Len(tab) THEN torn ELSE torn \cup {a}
    /\ SetTop([Top EXCEPT !.told = TRUE])
    /\ UNCHANGED <<dimes, client, id, peer_list, num_cp, conn, reads, app_list, app,
                   cp_rank_cnt, current_client_size, crashed, overlap, missed>>

(* The application counts as told when the events after the message have    *)
(* been processed.                                                          *)
SentAnnounce ==
    /\ frames # <<>> /\ Top.told /\ ~crashed
    /\ app' = [app EXCEPT ![Top.app].sent = TRUE]
    /\ frames' = Front(frames)
    /\ UNCHANGED <<dimes, client, id, peer_list, num_cp, conn, chan, reads, app_list,
                   cp_rank_cnt, current_client_size, crashed, hist>>
-----------------------------------------------------------------------------
(* The other servers.                                                      *)

dsrpc_announce_app(s) ==
    /\ Message(s, Server0, "sp_announce_app")
    /\ LET m == Head(chan[<<Server0, s>>])
       IN /\ app_list' = [app_list EXCEPT ![s] = <<m.app>> \o @]
          /\ PostRead(s, Server0, m)
    /\ UNCHANGED <<dimes, client, id, peer_list, num_cp, conn, app, cp_rank_cnt,
                   current_client_size, frames, crashed, hist>>

(* Mutant: does not look whether the application is still there.            *)
announce_app_completion_always(s, k) ==
    /\ s \in Slaves /\ ReadCompletes(s, k, "sp_announce_app")
    /\ LET m == reads[s][k].m
       IN /\ peer_list' = [peer_list EXCEPT ![s] = ListAddAll(@, m.tab)]
          /\ num_cp' = [num_cp EXCEPT ![s] = @ + Size[m.app]]
    /\ UNCHANGED <<dimes, client, id, conn, chan, server, hist>>

(* announce_app_completion of a server: an application that has left        *)
(* meanwhile is not entered.                                                *)
announce_app_completion(s, k) ==
    /\ s \in Slaves /\ ReadCompletes(s, k, "sp_announce_app")
    /\ LET m == reads[s][k].m
       IN IF Contains(app_list[s], m.app)
          THEN /\ peer_list' = [peer_list EXCEPT ![s] = ListAddAll(@, m.tab)]
               /\ num_cp' = [num_cp EXCEPT ![s] = @ + Size[m.app]]
          ELSE UNCHANGED <<peer_list, num_cp>>
    /\ UNCHANGED <<dimes, client, id, conn, chan, server, hist>>
-----------------------------------------------------------------------------
(* The clients get their tables.                                           *)

(* dcrpc_announce_cp of a master client.                                    *)
dcrpc_announce_cp(p) ==
    /\ Message(p, Server0, "sp_announce_cp")
    /\ LET m == Head(chan[<<Server0, p>>])
       IN /\ num_cp' = [num_cp EXCEPT ![p] = m.num_cp]
          /\ IF num_sp + m.num_cp - Size[p[1]] - 1 = 0
             THEN /\ chan' = Take(Server0, p)
                  /\ f_reg' = [f_reg EXCEPT ![p] = TRUE]
                  /\ UNCHANGED reads
             ELSE PostRead(p, Server0, m) /\ UNCHANGED f_reg
    /\ UNCHANGED <<dimes, pc, cp_min_rank, f_reg_all, connected, next_peer, num_posted,
                   num_unreg, deferred, stalled, id, peer_list, conn, server, hist>>

announce_cp_completion(p, k) ==
    /\ ReadCompletes(p, k, "sp_announce_cp")
    /\ peer_list' = [peer_list EXCEPT ![p] = ListAddAll(@, reads[p][k].m.tab)]
    /\ f_reg' = [f_reg EXCEPT ![p] = TRUE]
    /\ UNCHANGED <<dimes, pc, cp_min_rank, f_reg_all, connected, next_peer, num_posted,
                   num_unreg, deferred, stalled, id, num_cp, conn, chan, server, hist>>

(* dc_disseminate_dc: the master client sends its whole list to the others, *)
(* and processes events after each message.                                 *)
dc_disseminate_dc(a) ==
    LET m == AppMaster(a)
        q == peer_list[m][Find(m, next_peer[m] + cp_min_rank[m])].proc
    IN /\ dimes /\ f_reg[m] /\ stalled[m] = <<>>
       /\ pc[m] \in {"wait_reg", "announce"} /\ next_peer[m] < Size[a]
       /\ chan' = Send(m, q, [cmd |-> "cp_announce_cp", tab |-> peer_list[m],
                              num_cp |-> num_cp[m], min |-> cp_min_rank[m]])
       /\ next_peer' = [next_peer EXCEPT ![m] = @ + 1]
       /\ pc' = [pc EXCEPT ![m] = IF next_peer[m] + 1 = Size[a] THEN "wait_all"
                                  ELSE "announce"]
       /\ UNCHANGED <<dimes, cp_min_rank, f_reg, f_reg_all, connected, num_posted, num_unreg,
                      deferred, stalled, id, peer_list, num_cp, conn, reads, server, hist>>

(* The other process gets its id and that of its master ...                 *)
dcrpc_announce_cp_all(p) ==
    LET m == AppMaster(p[1])
        k == Find(p, 0)
        c == Head(chan[<<m, p>>])
    IN /\ Message(p, m, "cp_announce_cp")
       /\ id' = [id EXCEPT ![p] = @ + c.min]
       /\ peer_list' = [peer_list EXCEPT ![p][k].id = c.min]
       /\ num_cp' = [num_cp EXCEPT ![p] = c.num_cp]
       /\ cp_min_rank' = [cp_min_rank EXCEPT ![p] = c.min]
       /\ PostRead(p, m, c)
       /\ UNCHANGED <<dimes, pc, f_reg, f_reg_all, connected, next_peer, num_posted,
                      num_unreg, deferred, stalled, conn, server, hist>>

(* ... and enters all others; the end of the read releases the message at   *)
(* the master.                                                              *)
announce_cp_completion_all(p, k) ==
    LET c == reads[p][k].m
        me == SelectInSeq(c.tab, LAMBDA e : e.proc = p)
    IN /\ ReadCompletes(p, k, "cp_announce_cp")
       /\ peer_list' = [peer_list EXCEPT ![p] =
             ListAddAll(@, SelectSeq(c.tab, LAMBDA e : e.id # cp_min_rank[p]))]
       /\ id' = [id EXCEPT ![p] = c.tab[me].id]
       /\ f_reg' = [f_reg EXCEPT ![p] = TRUE]
       /\ chan' = Send(p, AppMaster(p[1]), [cmd |-> "peer_rdma_done"])
       /\ UNCHANGED <<dimes, pc, cp_min_rank, f_reg_all, connected, next_peer, num_posted,
                      num_unreg, deferred, stalled, num_cp, conn, server, hist>>

(* Mutant: waits for as many as there are processes.                        *)
dc_disseminate_dc_completion_size(m, q) ==
    /\ Message(m, q, "peer_rdma_done")
    /\ chan' = Take(q, m)
    /\ num_posted' = [num_posted EXCEPT ![m] = @ + 1]
    /\ f_reg_all' = [f_reg_all EXCEPT ![m] = @ \/ num_posted[m] + 1 = Size[m[1]]]
    /\ UNCHANGED <<dimes, pc, cp_min_rank, f_reg, connected, next_peer, num_unreg, deferred,
                   stalled, id, peer_list, num_cp, conn, reads, server, hist>>

dc_disseminate_dc_completion(m, q) ==
    /\ Message(m, q, "peer_rdma_done")
    /\ chan' = Take(q, m)
    /\ num_posted' = [num_posted EXCEPT ![m] = @ + 1]
    /\ f_reg_all' = [f_reg_all EXCEPT ![m] = @ \/ num_posted[m] + 1 = Size[m[1]] - 1]
    /\ UNCHANGED <<dimes, pc, cp_min_rank, f_reg, connected, next_peer, num_unreg, deferred,
                   stalled, id, peer_list, num_cp, conn, reads, server, hist>>

(* Mutant: the broadcast entries are added behind the one that was there.   *)
dc_disseminate_dc_mpi_tail(a) ==
    LET m == AppMaster(a)
        others == Members(a) \ {m}
    IN /\ ~dimes /\ pc[m] = "wait_reg" /\ f_reg[m]
       /\ \A p \in others : pc[p] = "bcast"
       /\ peer_list' = [p \in Procs |-> IF p \in others THEN peer_list[p] \o peer_list[m]
                                        ELSE peer_list[p]]
       /\ id' = [p \in Procs |-> IF p \in others
                                 THEN peer_list[m][SelectInSeq(peer_list[m],
                                                     LAMBDA e : e.proc = p)].id
                                 ELSE id[p]]
       /\ num_cp' = [p \in Procs |-> IF p \in others THEN num_cp[m] ELSE num_cp[p]]
       /\ f_reg' = [p \in Clients |-> f_reg[p] \/ p \in others]
       /\ f_reg_all' = [p \in Clients |-> f_reg_all[p] \/ p \in Members(a)]
       /\ pc' = [p \in Clients |-> IF p \in Members(a) THEN "barrier" ELSE pc[p]]
       /\ UNCHANGED <<dimes, cp_min_rank, connected, next_peer, num_posted, num_unreg,
                      deferred, stalled, conn, chan, reads, server, hist>>

(* dc_disseminate_dc_mpi: the list of rank 0 is broadcast; the entry for    *)
(* rank 0 that the others began with stays, behind the new ones.            *)
dc_disseminate_dc_mpi(a) ==
    LET m == AppMaster(a)
        others == Members(a) \ {m}
    IN /\ ~dimes /\ pc[m] = "wait_reg" /\ f_reg[m]
       /\ \A p \in others : pc[p] = "bcast"
       /\ peer_list' = [p \in Procs |-> IF p \in others
                                        THEN ListAddAll(peer_list[p], peer_list[m])
                                        ELSE peer_list[p]]
       /\ id' = [p \in Procs |-> IF p \in others
                                 THEN peer_list[m][SelectInSeq(peer_list[m],
                                                     LAMBDA e : e.proc = p)].id
                                 ELSE id[p]]
       /\ num_cp' = [p \in Procs |-> IF p \in others THEN num_cp[m] ELSE num_cp[p]]
       /\ f_reg' = [p \in Clients |-> f_reg[p] \/ p \in others]
       /\ f_reg_all' = [p \in Clients |-> f_reg_all[p] \/ p \in Members(a)]
       /\ pc' = [p \in Clients |-> IF p \in Members(a) THEN "barrier" ELSE pc[p]]
       /\ UNCHANGED <<dimes, cp_min_rank, connected, next_peer, num_posted, num_unreg,
                      deferred, stalled, conn, chan, reads, server, hist>>

(* The wait for f_reg, or f_reg_all, is over.                               *)
Registered(p) ==
    /\ dimes /\ stalled[p] = <<>>
    /\ IF p = AppMaster(p[1]) THEN pc[p] = "wait_all" /\ f_reg_all[p]
                              ELSE pc[p] = "wait_reg" /\ f_reg[p]
    /\ f_reg_all' = [f_reg_all EXCEPT ![p] = TRUE]
    /\ pc' = [pc EXCEPT ![p] = "barrier"]
    /\ UNCHANGED <<dimes, cp_min_rank, f_reg, connected, next_peer, num_posted, num_unreg,
                   deferred, stalled, id, peer_list, num_cp, conn, chan, reads, server,
                   hist>>

(* The barrier at the end of dc_boot and of dc_alloc.                       *)
dc_barrier(a) ==
    /\ \A p \in Members(a) : pc[p] = "barrier"
    /\ pc' = [p \in Clients |-> IF p \in Members(a) THEN "run" ELSE pc[p]]
    /\ UNCHANGED <<dimes, cp_min_rank, f_reg, f_reg_all, connected, next_peer, num_posted,
                   num_unreg, deferred, stalled, id, peer_list, num_cp, conn, chan, reads,
                   server, hist>>
-----------------------------------------------------------------------------
(* A client hears of a new application.                                    *)

(* The handler waits for f_reg, processing events.                          *)
dcrpc_sp_announce_app(p, q) ==
    /\ p \in Clients /\ Message(p, q, "sp_announce_app")
    /\ LET m == Head(chan[<<q, p>>])
       IN IF f_reg[p]
          THEN PostRead(p, q, m) /\ UNCHANGED stalled
          ELSE /\ chan' = Take(q, p)
               /\ stalled' = [stalled EXCEPT ![p] = Append(@, [from |-> q, m |-> m,
                                                                to |-> <<>>])]
               /\ UNCHANGED reads
    /\ UNCHANGED <<dimes, pc, cp_min_rank, f_reg, f_reg_all, connected, next_peer,
                   num_posted, num_unreg, deferred, id, peer_list, num_cp, conn, server,
                   hist>>

ResumeAnnounceApp(p) ==
    /\ stalled[p] # <<>> /\ Last(stalled[p]).to = <<>> /\ f_reg[p]
    /\ LET f == Last(stalled[p])
       IN reads' = [reads EXCEPT ![p] = Append(@, [from |-> f.from, m |-> f.m])]
    /\ stalled' = [stalled EXCEPT ![p] = Front(@)]
    /\ UNCHANGED <<dimes, pc, cp_min_rank, f_reg, f_reg_all, connected, next_peer,
                   num_posted, num_unreg, deferred, id, peer_list, num_cp, conn, chan,
                   server, hist>>

(* The processes of p's application, as they are in the list of p.          *)
Others(p) == SelectSeq(peer_list[p], LAMBDA e : AppId(e) = p[1] /\ e.id # id[p])

(* Mutant: the master client keeps the news to itself.                      *)
install_app_cp_quiet(p, m) ==
    /\ peer_list' = [peer_list EXCEPT ![p] = ListAddAll(@, m.tab)]
    /\ num_cp' = [num_cp EXCEPT ![p] = @ + Len(m.tab)]
    /\ UNCHANGED stalled

(* install_app_cp: the new processes are entered; the master client passes  *)
(* them on to the processes of its application ...                          *)
install_app_cp(p, m) ==
    /\ peer_list' = [peer_list EXCEPT ![p] = ListAddAll(@, m.tab)]
    /\ num_cp' = [num_cp EXCEPT ![p] = @ + Len(m.tab)]
    /\ stalled' = IF id[p] = cp_min_rank[p]
                  THEN [stalled EXCEPT ![p] = Append(@, [from |-> p, m |-> m,
                                                         to |-> Others(p)])]
                  ELSE stalled

(* ... one after the other, and processes events after each.                *)
dc_disseminate_app(p) ==
    /\ stalled[p] # <<>> /\ Last(stalled[p]).to # <<>>
    /\ LET f == Last(stalled[p])
       IN /\ chan' = Send(p, Head(f.to).proc, f.m)
          /\ stalled' = [stalled EXCEPT ![p] =
                IF Len(f.to) = 1 THEN Front(@)
                ELSE Append(Front(@), [f EXCEPT !.to = Tail(@)])]
    /\ UNCHANGED <<dimes, pc, cp_min_rank, f_reg, f_reg_all, connected, next_peer,
                   num_posted, num_unreg, deferred, id, peer_list, num_cp, conn, reads,
                   server, hist>>

(* announce_app_completion of a client: a process that is not through with  *)
(* its boot puts the message aside.                                         *)
app_completion(p, k) ==
    /\ p \in Clients /\ ReadCompletes(p, k, "sp_announce_app")
    /\ LET m == reads[p][k].m
       IN IF f_reg_all[p] \/ id[p] = cp_min_rank[p]
          THEN install_app_cp(p, m) /\ UNCHANGED deferred
          ELSE /\ deferred' = [deferred EXCEPT ![p] = <<m>> \o @]
               /\ UNCHANGED <<peer_list, num_cp, stalled>>
    /\ UNCHANGED <<dimes, pc, cp_min_rank, f_reg, f_reg_all, connected, next_peer,
                   num_posted, num_unreg, id, conn, chan, server, hist>>
-----------------------------------------------------------------------------
(* An application finalizes.                                               *)

(* Bound: applications that registered at the same time run at the same     *)
(* time, and leave one after the other.                                     *)
MayLeave(a) ==
    overlap => \A q \in Clients : IF q[1] < a THEN pc[q] = "done" ELSE ~Connecting(q[1])

(* dc_unregister with DIMES: the others report to the master client.        *)
dc_unregister(p) ==
    /\ dimes /\ pc[p] = "run" /\ stalled[p] = <<>> /\ MayLeave(p[1])
    /\ IF p = AppMaster(p[1])
       THEN /\ num_unreg' = [num_unreg EXCEPT ![p] = @ + 1]
            /\ pc' = [pc EXCEPT ![p] = "unreg"]
            /\ UNCHANGED chan
       ELSE /\ chan' = Send(p, AppMaster(p[1]), [cmd |-> "cn_unregister_cp"])
            /\ pc' = [pc EXCEPT ![p] = "unreg_wait"]
            /\ UNCHANGED num_unreg
    /\ UNCHANGED <<dimes, cp_min_rank, f_reg, f_reg_all, connected, next_peer, num_posted,
                   deferred, stalled, id, peer_list, num_cp, conn, reads, server, hist>>

dcrpc_unregister_cp(p, q) ==
    /\ Message(p, q, "cn_unregister_cp")
    /\ num_unreg' = [num_unreg EXCEPT ![p] = @ + 1]
    /\ chan' = [Take(q, p) EXCEPT ![<<p, q>>] = Append(@, [cmd |-> "cn_unregister"])]
    /\ UNCHANGED <<dimes, pc, cp_min_rank, f_reg, f_reg_all, connected, next_peer,
                   num_posted, deferred, stalled, id, peer_list, num_cp, conn, reads, server,
                   hist>>

(* All have reported, so the master client tells server 0.                  *)
UnregisterApp(a) ==
    LET m == AppMaster(a)
    IN /\ pc[m] = "unreg" /\ num_unreg[m] = Size[a] /\ stalled[m] = <<>>
       /\ chan' = Send(m, Server0, [cmd |-> "cn_unregister"])
       /\ pc' = [pc EXCEPT ![m] = "unreg_wait"]
       /\ UNCHANGED <<dimes, cp_min_rank, f_reg, f_reg_all, connected, next_peer,
                      num_posted, num_unreg, deferred, stalled, id, peer_list, num_cp, conn,
                      reads, server, hist>>

(* dc_unregister_mpi: a barrier, then rank 0 tells server 0.                *)
dc_unregister_mpi(a) ==
    LET m == AppMaster(a)
    IN /\ ~dimes /\ MayLeave(a) /\ \A p \in Members(a) : pc[p] = "run"
       /\ chan' = Send(m, Server0, [cmd |-> "cn_unregister"])
       /\ pc' = [p \in Clients |-> IF p = m THEN "unreg_wait"
                                   ELSE IF p \in Members(a) THEN "left" ELSE pc[p]]
       /\ UNCHANGED <<dimes, cp_min_rank, f_reg, f_reg_all, connected, next_peer,
                      num_posted, num_unreg, deferred, stalled, id, peer_list, num_cp, conn,
                      reads, server, hist>>

Without(list, a) == SelectSeq(list, LAMBDA e : AppId(e) # a)

(* Server 0 answers, has the other servers remove the application (each is  *)
(* told twice), and removes it itself.                                      *)
dsrpc_cn_unregister(q) ==
    /\ Message(Server0, q, "cn_unregister")
    /\ LET a    == q[1]
           gone == Len(peer_list[Server0]) - Len(Without(peer_list[Server0], a))
           tell == [cmd |-> "cn_unregister_app", app |-> a]
       IN /\ chan' = [c \in DOMAIN chan |->
                 IF c = <<q, Server0>> THEN Tail(chan[c])
                 ELSE IF c = <<Server0, q>> THEN Append(chan[c], [cmd |-> "cn_unregister"])
                 ELSE IF c[1] = Server0 /\ c[2] \in Slaves THEN chan[c] \o <<tell, tell>>
                 ELSE chan[c]]
          /\ peer_list' = [peer_list EXCEPT ![Server0] = Without(@, a)]
          /\ num_cp' = [num_cp EXCEPT ![Server0] = @ - gone]
          /\ current_client_size' = [current_client_size EXCEPT ![Server0] = @ - gone]
          /\ app_list' = [app_list EXCEPT ![Server0] = SelectSeq(@, LAMBDA b : b # a)]
    /\ UNCHANGED <<dimes, client, id, conn, reads, app, cp_rank_cnt, frames, crashed, hist>>

dsrpc_cn_unregister_app(s) ==
    /\ Message(s, Server0, "cn_unregister_app")
    /\ LET a    == Head(chan[<<Server0, s>>]).app
           gone == Len(peer_list[s]) - Len(Without(peer_list[s], a))
       IN /\ peer_list' = [peer_list EXCEPT ![s] = Without(@, a)]
          /\ num_cp' = [num_cp EXCEPT ![s] = @ - gone]
          /\ current_client_size' = [current_client_size EXCEPT ![s] = @ - gone]
          /\ app_list' = [app_list EXCEPT ![s] = SelectSeq(@, LAMBDA b : b # a)]
    /\ chan' = Take(Server0, s)
    /\ UNCHANGED <<dimes, client, id, conn, reads, app, cp_rank_cnt, frames, crashed, hist>>

dcrpc_unregister(p, q) ==
    /\ p \in Clients /\ Message(p, q, "cn_unregister")
    /\ chan' = Take(q, p)
    /\ f_reg' = [f_reg EXCEPT ![p] = FALSE]
    /\ UNCHANGED <<dimes, pc, cp_min_rank, f_reg_all, connected, next_peer, num_posted,
                   num_unreg, deferred, stalled, id, peer_list, num_cp, conn, reads, server,
                   hist>>

Unregistered(p) ==
    /\ pc[p] = "unreg_wait" /\ ~f_reg[p] /\ stalled[p] = <<>>
    /\ pc' = [pc EXCEPT ![p] = "left"]
    /\ UNCHANGED <<dimes, cp_min_rank, f_reg, f_reg_all, connected, next_peer, num_posted,
                   num_unreg, deferred, stalled, id, peer_list, num_cp, conn, chan, reads,
                   server, hist>>

(* dc_free: the barrier, after which the process is gone.                   *)
dc_free(a) ==
    /\ \A p \in Members(a) : pc[p] = "left"
    /\ pc' = [p \in Clients |-> IF p \in Members(a) THEN "done" ELSE pc[p]]
    /\ UNCHANGED <<dimes, cp_min_rank, f_reg, f_reg_all, connected, next_peer, num_posted,
                   num_unreg, deferred, stalled, id, peer_list, num_cp, conn, chan, reads,
                   server, hist>>
-----------------------------------------------------------------------------
Init ==
    /\ dimes \in BOOLEAN
    /\ pc = [p \in Clients |-> "start"]
    /\ id = [p \in Procs |-> IF p \in Servers THEN p[2] ELSE 0]
    /\ peer_list = [p \in Procs |->
          IF p \in Servers THEN [k \in 1 .. num_sp |-> Entry(<<0, num_sp - k>>, num_sp - k)]
          ELSE <<>>]
    /\ cp_min_rank = [p \in Clients |-> 0]
    /\ num_cp = [p \in Procs |-> IF p \in Servers THEN conf_cp ELSE 0]
    /\ f_reg = [p \in Clients |-> FALSE] /\ f_reg_all = f_reg
    /\ connected = [p \in Clients |-> 0]
    /\ next_peer = [p \in Clients |-> 1]
    /\ num_posted = connected /\ num_unreg = connected
    /\ deferred = [p \in Clients |-> <<>>] /\ stalled = deferred
    /\ ec = [p \in Procs |-> <<>>] /\ est = ec /\ reads = ec
    /\ chan = [c \in Channels |-> <<>>]
    /\ app_list = [s \in Servers |-> <<>>]
    /\ app = [a \in Apps |-> [min |-> 0, cnt |-> 0, sent |-> FALSE]]
    /\ cp_rank_cnt = num_sp /\ current_client_size = [s \in Servers |-> 0]
    /\ frames = <<>> /\ crashed = FALSE
    /\ overlap = FALSE /\ missed = {} /\ torn = {}

AllDone == \A p \in Clients : pc[p] = "done"
Finished == (AllDone \/ crashed) /\ UNCHANGED vars

(* The steps by which the processes of an application find each other touch *)
(* nothing that others see, so they are taken without others in between.    *)
Gathering == \E a \in Apps : pc[AppMaster(a)] = "collect"

GatherStep ==
    \/ \E a \in Apps : dc_boot_master(a)
    \/ \E p \in Clients : dc_boot_slave(p) \/ dc_master_listen(p) \/ SlaveConnected(p)

BootStep ==
    \/ \E a \in Apps : dc_boot_rank_0(a) \/ gather_peer_list(a) \/ MasterConnected(a)
                       \/ dc_disseminate_dc(a) \/ dc_disseminate_dc_mpi(a) \/ dc_barrier(a)
    \/ \E p \in Clients : Registered(p)

ServerStep ==
    \/ LinkClient \/ dsrpc_cn_register
    \/ AnnounceToServer \/ AnnounceToApp \/ FollowRemoved \/ cs_disseminate_cp \/ SentAnnounce

ServerMessage(s, q) ==
    \/ s = Server0 /\ (dsrpc_cp_disseminate_cs(q) \/ dsrpc_cn_unregister(q))
    \/ s \in Slaves /\ (dsrpc_announce_app(s) \/ dsrpc_cn_unregister_app(s))

ClientMessage(p, q) ==
    \/ q = Server0 /\ dcrpc_announce_cp(p)
    \/ q = AppMaster(p[1]) /\ dcrpc_announce_cp_all(p)
    \/ dc_disseminate_dc_completion(p, q) \/ dcrpc_sp_announce_app(p, q)
    \/ dcrpc_unregister_cp(p, q) \/ dcrpc_unregister(p, q)

MessageStep ==
    \E c \in Channels :
        /\ chan[c] # <<>>
        /\ IF c[2] \in Servers THEN ServerMessage(c[2], c[1]) ELSE ClientMessage(c[2], c[1])

ReadStep ==
    \/ \E k \in DOMAIN reads[Server0] : cp_disseminate_cs_completion(k)
    \/ \E s \in Slaves : \E k \in DOMAIN reads[s] : announce_app_completion(s, k)
    \/ \E p \in Clients : \E k \in DOMAIN reads[p] :
          announce_cp_completion(p, k) \/ announce_cp_completion_all(p, k) \/ app_completion(p, k)

HandlerStep == \E p \in Clients : ResumeAnnounceApp(p) \/ dc_disseminate_app(p)

LeaveStep ==
    \/ \E p \in Clients : dc_unregister(p) \/ Unregistered(p)
    \/ \E a \in Apps : UnregisterApp(a) \/ dc_unregister_mpi(a) \/ dc_free(a)

Next ==
    \/ Gathering /\ GatherStep
    \/ ~Gathering /\ (\/ ServerStep \/ HandlerStep \/ MessageStep \/ ReadStep \/ LeaveStep
                      \/ BootStep \/ Finished)

Spec == Init /\ [][Next]_vars /\ WF_vars(Next)
-----------------------------------------------------------------------------
Tables == [proc : Procs \cup {Nobody}, id : Nat]
Joined == {"wait_reg", "announce", "wait_all", "barrier", "run", "unreg"}

(* Type invariant; num_cp of the servers never goes below what the command  *)
(* line gave, also when an application is removed twice.                    *)
TypeOK ==
    /\ dimes \in BOOLEAN /\ crashed \in BOOLEAN /\ overlap \in BOOLEAN
    /\ missed \subseteq Apps \X Apps /\ torn \subseteq Apps
    /\ pc \in [Clients -> Joined \cup {"start", "collect", "connect", "bcast", "unreg_wait",
                                       "left", "done"}]
    /\ id \in [Procs -> 0 .. num_sp + Cardinality(Clients) - 1]
    /\ \A p \in Procs : Range(peer_list[p]) \subseteq Tables
    /\ cp_min_rank \in [Clients -> Nat] /\ num_cp \in [Procs -> Nat]
    /\ \A s \in Servers : num_cp[s] >= conf_cp
    /\ f_reg \in [Clients -> BOOLEAN] /\ f_reg_all \in [Clients -> BOOLEAN]
    /\ \A p \in Clients : connected[p] < Size[p[1]] /\ num_posted[p] < Size[p[1]]
                          /\ num_unreg[p] <= Size[p[1]]
    /\ \A s \in Servers : Range(app_list[s]) \subseteq Apps
    /\ \A a \in Apps : app[a].cnt \in 0 .. Size[a]
    /\ cp_rank_cnt \in Nat /\ current_client_size \in [Servers -> Int]

(* The listening thread has linked an entry and not given it its id.        *)
HalfRegistered == ec[Server0] # <<>> /\ Head(ec[Server0]).from \in Known(Server0)

(* The servers have nothing left to do, and no application is between       *)
(* connecting and sending its addresses.                                    *)
Settled ==
    /\ ec[Server0] = <<>> /\ frames = <<>> /\ ~crashed
    /\ \A s \in Servers : reads[s] = <<>> /\ \A p \in Senders[s] : chan[<<p, s>>] = <<>>
    /\ \A a \in Apps : pc[AppMaster(a)] # "connect"

(* When the servers are done with what they were sent, every server has     *)
(* each process of each registered application once, with the same id; all  *)
(* have the same num_cp, the one of the command line and the processes that *)
(* are registered; and current_client_size of server 0, by which it sizes   *)
(* the tables it sends, counts those alone (dsrpc_cn_register,              *)
(* dsrpc_announce_app, the two removals and their completions).             *)
ServersAgree ==
    Settled =>
    \A s \in Servers :
        LET list == peer_list[s]
        IN /\ Range(list) = Range(peer_list[Server0])
           /\ Len(list) = Cardinality(Range(list))
           /\ {e.proc : e \in Range(list)} =
                 Servers \cup UNION {Members(a) : a \in Range(app_list[s])}
           /\ num_cp[s] = conf_cp + Len(list) - num_sp
           /\ current_client_size[Server0] = Len(list) - num_sp
           /\ {a \in Apps : pc[AppMaster(a)] \in Joined} \subseteq Range(app_list[s])
           /\ \A a \in Range(app_list[s]) : pc[AppMaster(a)] \in Joined \cup {"unreg_wait"}

(* The tables of the servers are right whoever comes and goes.               *)
ServersRight == TypeOK /\ ServersAgree

Running == {p \in Clients : pc[p] \in {"run", "unreg"}}

(* Where a running process or a server looks up the id of another running   *)
(* process that it has in its list, it finds that process: ids are not used *)
(* twice, and the entries that an application began with do not hide later  *)
(* ones (rpc_server_find takes the first).  Two windows of the listening    *)
(* thread are excepted: server 0, which looks itself up to see whether an   *)
(* object is its own, finds a client that is being registered; and a client *)
(* whose table was filled meanwhile has an entry with any id.               *)
LookupRight ==
    \A p \in Servers \cup Running :
        \A q \in (Servers \cup Running) \cap Known(p) :
            p[1] \notin torn /\ ~(HalfRegistered /\ p = Server0 /\ q = Server0)
            => \E k \in DOMAIN peer_list[p] :
                  /\ peer_list[p][k] = Entry(q, id[q])
                  /\ \A j \in 1 .. k - 1 : peer_list[p][j].id # id[q]

(* What client p has put aside; only the master client takes it up again.   *)
PutAside(p, a) == \E k \in DOMAIN deferred[p] : deferred[p][k].app = a

(* With DIMES, every process that runs knows every other, once the messages *)
(* are handled; without, it knows the servers and its own application.      *)
(* It is so however many applications register at a time, with two          *)
(* exceptions: application a is announced while server 0 processes the      *)
(* events after it has sent b its table, when b does not count as told yet; *)
(* or the announcement gets to a process of b that has not ended its boot.  *)
KnowsRunning ==
    (/\ Settled
     /\ \A p \in Running : /\ reads[p] = <<>> /\ stalled[p] = <<>>
                           /\ \A q \in Senders[p] : chan[<<q, p>>] = <<>>)
    => \A p \in Running :
          /\ Servers \subseteq Known(p)
          /\ \A q \in Running :
                (dimes \/ q[1] = p[1]) /\ <<p[1], q[1]>> \notin missed /\ ~PutAside(p, q[1])
                    => q \in Known(p)

(* The number of peers a running client goes by is the length of its list;  *)
(* without DIMES all but rank 0 have the entry they began with besides.     *)
CountsAgree ==
    \A p \in Running : Len(peer_list[p]) = num_sp + num_cp[p]
                          + (IF ~dimes /\ p # AppMaster(p[1]) THEN 1 ELSE 0)

(* The tables of the clients are right: they have whom they should, and the  *)
(* counters by which they walk the list say so (install_app_cp).             *)
ClientsRight == KnowsRunning /\ CountsAgree

(* An announcement that is handled after the answer to cn_unregister waits  *)
(* for f_reg, which nobody sets any more.                                   *)
Trapped(p) == /\ pc[p] = "unreg_wait" /\ ~f_reg[p]
              /\ \E k \in DOMAIN stalled[p] : stalled[p][k].to = <<>>

(* Every application gets its tables and runs, and leaves again, unless     *)
(* server 0 has crashed, a process is trapped, or a table was torn.         *)
AllLeave == <>(AllDone \/ crashed \/ torn # {} \/ \E p \in Clients : Trapped(p))

(* Applications may come and go, and server 0 goes on.                      *)
ServerStaysUp == ~crashed
=============================================================================
