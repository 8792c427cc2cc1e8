------------------------------ MODULE DartTcp ------------------------------
(***************************************************************************)
(* Start and end of a run over tcp (dart/tcp): the master server writes    *)
(* the file conf, the other servers and the clients connect to it, its     *)
(* listening thread gives them their ids in the order it accepts them, the *)
(* addresses travel back, every server takes charge of a part of the       *)
(* clients, and the servers stop once all clients have unregistered.       *)
(*                                                                         *)
(* A process stands for its socket address.  sock[p][i] is the process at  *)
(* the other end of peer_tab[i].sockfd when f_connected is set; chan[p, q] *)
(* is what p has written to its socket to q and q has not read.            *)
(*                                                                         *)
(* The clients start when the servers have registered: README.md asks the  *)
(* job to wait for the initialization of the servers.                      *)
(***************************************************************************)
EXTENDS Integers, Sequences, FiniteSets, TLC

CONSTANTS Master,   \* the server of MPI rank 0
          Slaves,   \* the other servers
          Clients,  \* the processes of the applications
          AppOf,    \* AppOf[c]: the application id of a client
          None      \* no process: the entry is not connected, or not known

Servers == {Master} \cup Slaves
Procs   == Servers \cup Clients
Apps    == {AppOf[c] : c \in Clients}
Members(a) == {c \in Clients : AppOf[c] = a}

size_sp == Cardinality(Servers)
size_cp == Cardinality(Clients)
Ids     == 0 .. size_sp + size_cp - 1

ASSUME TcpAssumption ==
    /\ IsFiniteSet(Slaves) /\ IsFiniteSet(Clients) /\ Clients # {}
    /\ Master \notin Slaves /\ Servers \cap Clients = {} /\ None \notin Procs

VARIABLES
    pc,       \* where the main thread of a process is
    id,       \* rpc_s->ptlmap.id
    sock,     \* the connected entries of peer_tab
    ptlmap,   \* ptlmap[p][i]: the address p has for peer i
    backlog,  \* connections the listening thread has still to accept
    chan,     \* messages under way
    srv,      \* the counters and the app_list of struct dart_server
    lpc,      \* the listening thread of the master
    f_reg,    \* f_reg of a server or client
    refused,  \* pairs <<p, q>>: q has closed a connection p had opened
    early     \* history: registration ended inside the listening thread's
              \* update of num_cp and app_list

vars == <<pc, id, sock, ptlmap, backlog, chan, srv, lpc, f_reg, refused, early>>

NoPeers == [i \in Ids |-> None]

(* What a process writes to a socket that the other end has closed is lost. *)
SendAll(out) ==
    chan' = [c \in DOMAIN chan |->
                IF c \in DOMAIN out /\ c \notin refused
                THEN chan[c] \o out[c] ELSE chan[c]]

(* rpc_connect: the peer's kernel queues the connection with the info that  *)
(* says who connects.                                                       *)
rpc_connect(p, peers) ==
    backlog' = [q \in Procs |->
                   IF q \in peers
                   THEN Append(backlog[q], [from |-> p, id |-> id[p]])
                   ELSE backlog[q]]

(* A message from q that the main thread of p finds on a connected entry.   *)
Incoming(p, q, cmd) ==
    /\ pc[p] \in {"boot", "serve"}
    /\ \E i \in Ids : sock[p][i] = q
    /\ chan[q, p] # <<>>
    /\ Head(chan[q, p]).cmd = cmd

Took(q, p) == <<q, p>> :> Tail(chan[q, p])

Index(p, q) == CHOOSE i \in Ids : sock[p][i] = q

(* rpc_send connects to an entry that is not connected.                     *)
OtherEnd(p, i) == IF sock[p][i] = None THEN ptlmap[p][i] ELSE sock[p][i]
-----------------------------------------------------------------------------
(* Boot.                                                                   *)

ds_boot_master ==
    /\ pc[Master] = "start"
    /\ pc' = [pc EXCEPT ![Master] = "boot"]
    /\ id' = [id EXCEPT ![Master] = 0]
    /\ ptlmap' = [ptlmap EXCEPT ![Master][0] = Master]
    /\ UNCHANGED <<sock, backlog, chan, srv, lpc, f_reg, refused, early>>

(* Connects to the master and sends its registration.                      *)
Register(p, cmd) ==
    /\ pc[p] = "start"
    /\ pc[Master] # "start"
    /\ pc' = [pc EXCEPT ![p] = "boot"]
    /\ rpc_connect(p, {Master})
    /\ sock' = [sock EXCEPT ![p][0] = Master]
    /\ ptlmap' = [ptlmap EXCEPT ![p][0] = Master]
    /\ SendAll(<<p, Master>> :> <<[cmd |-> cmd]>>)
    /\ UNCHANGED <<id, srv, lpc, f_reg, refused, early>>

ds_boot_slave(s) == Register(s, "sp_reg_request")

dc_register_at_master(c) ==
    /\ \A s \in Slaves : id[s] # -1 /\ pc[s] = "boot"
    /\ Register(c, "cn_register")

(* The listening thread of a server takes a connection.  A server that has  *)
(* no id yet becomes peer num_sp, a client the next one of its application. *)
(* The processes of a new application are counted before its entry is in    *)
(* app_list.                                                                *)
AcceptAt(s, i, q) ==
    /\ sock' = [sock EXCEPT ![s][i] = q]
    /\ backlog' = [backlog EXCEPT ![s] = Tail(@)]
    /\ UNCHANGED <<pc, id, ptlmap, chan, f_reg, refused, early>>

ds_listen_server(s) ==
    /\ lpc = "accept" /\ backlog[s] # <<>>
    /\ LET in == Head(backlog[s])
       IN /\ in.id = -1 /\ in.from \in Slaves
          /\ AcceptAt(s, srv[s].num_sp, in.from)
          /\ srv' = [srv EXCEPT ![s].num_sp = @ + 1]
          /\ UNCHANGED lpc

ds_listen_new_app(s) ==
    /\ lpc = "accept" /\ backlog[s] # <<>>
    /\ LET in == Head(backlog[s])
       IN /\ in.id = -1 /\ in.from \in Clients
          /\ AppOf[in.from] \notin DOMAIN srv[s].app_list
          /\ srv' = [srv EXCEPT ![s].num_cp = @ + Cardinality(Members(AppOf[in.from]))]
          /\ lpc' = "counted"
    /\ UNCHANGED <<pc, id, sock, ptlmap, backlog, chan, f_reg, refused, early>>

ds_listen_client(s) ==
    /\ backlog[s] # <<>>
    /\ LET in  == Head(backlog[s])
           a   == AppOf[in.from]
           new == [first |-> size_sp + srv[s].num_cp - Cardinality(Members(a)),
                   cnt |-> 0, reg |-> 0]
           app == IF lpc = "counted" THEN new ELSE srv[s].app_list[a]
       IN /\ in.id = -1 /\ in.from \in Clients
          /\ lpc = "counted" \/ a \in DOMAIN srv[s].app_list
          /\ AcceptAt(s, app.first + app.cnt, in.from)
          /\ srv' = [srv EXCEPT ![s].app_list =
                        (a :> [app EXCEPT !.cnt = @ + 1]) @@ @]
          /\ lpc' = "accept"

(* A server that already has its id; the entry may have been connected from *)
(* this side, then the new connection is closed.                            *)
ds_listen_peer(s) ==
    /\ backlog[s] # <<>>
    /\ LET in == Head(backlog[s])
       IN /\ in.id # -1
          /\ IF sock[s][in.id] = None
             THEN AcceptAt(s, in.id, in.from)
             ELSE /\ refused' = refused \cup {<<in.from, s>>}
                  /\ chan' = [chan EXCEPT ![in.from, s] = <<>>]
                  /\ backlog' = [backlog EXCEPT ![s] = Tail(@)]
                  /\ UNCHANGED <<pc, id, sock, ptlmap, f_reg, early>>
    /\ UNCHANGED <<srv, lpc>>

ds_listen(s) ==
    \/ ds_listen_server(s)
    \/ ds_listen_new_app(s)
    \/ ds_listen_client(s)
    \/ ds_listen_peer(s)
-----------------------------------------------------------------------------
(* Registration of the servers.                                            *)

(* The last registration is answered with the table of the servers; then    *)
(* the master waits for them in a barrier.                                  *)
rpc_handler_sp_reg_request(s) ==
    /\ Incoming(Master, s, "sp_reg_request")
    /\ LET tab  == [ptlmap[Master] EXCEPT ![Index(Master, s)] = s]
           last == srv[Master].num_sp_reg + 1 = size_sp
           Reply(q) == <<[cmd |-> "sp_reg_reply", id |-> Index(Master, q), tab |-> tab]>>
       IN /\ ptlmap' = [ptlmap EXCEPT ![Master] = tab]
          /\ srv' = [srv EXCEPT ![Master].num_sp_reg = @ + 1]
          /\ chan' = [c \in DOMAIN chan |->
                         IF c = <<s, Master>> THEN Tail(chan[c])
                         ELSE IF last /\ c[1] = Master /\ c[2] \in Slaves
                              THEN chan[c] \o Reply(c[2]) ELSE chan[c]]
          /\ pc' = [pc EXCEPT ![Master] = IF last THEN "reg_barrier" ELSE @]
    /\ UNCHANGED <<id, sock, backlog, lpc, f_reg, refused, early>>

rpc_handler_sp_reg_reply(s) ==
    /\ Incoming(s, Master, "sp_reg_reply")
    /\ LET m == Head(chan[Master, s])
       IN /\ id' = [id EXCEPT ![s] = m.id]
          /\ ptlmap' = [ptlmap EXCEPT ![s] =
                           [i \in Ids |-> IF i < size_sp THEN m.tab[i] ELSE @[i]]]
    /\ chan' = Took(Master, s) @@ chan
    /\ pc' = [pc EXCEPT ![s] = "reg_barrier"]
    /\ UNCHANGED <<sock, backlog, srv, lpc, f_reg, refused, early>>

(* ds_barrier, after which every slave connects to the servers before it.   *)
RegBarrier ==
    /\ \A s \in Servers : pc[s] = "reg_barrier"
    /\ pc' = [p \in Procs |-> IF p \in Slaves THEN "connect"
                              ELSE IF p = Master THEN "boot" ELSE pc[p]]
    /\ UNCHANGED <<id, sock, ptlmap, backlog, chan, srv, lpc, f_reg, refused, early>>

rpc_cb_recv_sp_reg_reply(s) ==
    /\ pc[s] = "connect"
    /\ LET lower == {i \in 1 .. id[s] - 1 : sock[s][i] = None}
       IN /\ rpc_connect(s, {ptlmap[s][i] : i \in lower})
          /\ sock' = [sock EXCEPT ![s] =
                         [i \in Ids |-> IF i \in lower THEN ptlmap[s][i] ELSE @[i]]]
    /\ pc' = [pc EXCEPT ![s] = "boot"]
    /\ UNCHANGED <<id, ptlmap, chan, srv, lpc, f_reg, refused, early>>
-----------------------------------------------------------------------------
(* Registration of the clients.                                            *)

(* ds_announce_cp: the addresses of a complete application go to all slaves. *)
Announcement(a, app, tab) ==
    [c \in {Master} \X Slaves |->
        <<[cmd |-> "sp_announce_cp", app |-> a, first |-> app.first, tab |-> tab]>>]

(* Mutant: registration ends when the applications are known.               *)
AllRegistered_known(apps) == srv[Master].num_cp = size_cp

(* Registration ends when num_cp is complete and so is every application in *)
(* app_list.                                                                *)
AllRegistered(apps) ==
    /\ srv[Master].num_cp = size_cp
    /\ \A b \in DOMAIN apps : apps[b].reg = Cardinality(Members(b))

(* The master enters the address of the client at the index that ds_listen  *)
(* has given its connection.  The last client of an application has the     *)
(* application announced.                                                   *)
rpc_handler_cn_register(c) ==
    /\ Incoming(Master, c, "cn_register")
    /\ LET a    == AppOf[c]
           tab  == [ptlmap[Master] EXCEPT ![Index(Master, c)] = c]
           apps == [srv[Master].app_list EXCEPT ![a].reg = @ + 1]
           out  == IF apps[a].reg = Cardinality(Members(a))
                   THEN Announcement(a, apps[a], tab) ELSE <<>>
       IN /\ ptlmap' = [ptlmap EXCEPT ![Master] = tab]
          /\ srv' = [srv EXCEPT ![Master].app_list = apps]
          /\ chan' = [k \in DOMAIN chan |->
                         IF k = <<c, Master>> THEN Tail(chan[k])
                         ELSE IF k \in DOMAIN out THEN chan[k] \o out[k] ELSE chan[k]]
          /\ f_reg' = [f_reg EXCEPT ![Master] = @ \/ AllRegistered(apps)]
          /\ early' = (early \/ (AllRegistered(apps) /\ lpc = "counted"))
    /\ UNCHANGED <<pc, id, sock, backlog, lpc, refused>>

rpc_handler_sp_announce_cp(s) ==
    /\ Incoming(s, Master, "sp_announce_cp")
    /\ LET m == Head(chan[Master, s])
           n == Cardinality(Members(m.app))
           new == [first |-> m.first, cnt |-> n, reg |-> n]
       IN /\ srv' = [srv EXCEPT ![s].num_cp = @ + n,
                                ![s].app_list = (m.app :> new) @@ @]
          /\ ptlmap' = [ptlmap EXCEPT ![s] =
                [i \in Ids |-> IF i \in m.first .. m.first + n - 1 THEN m.tab[i] ELSE @[i]]]
          /\ f_reg' = [f_reg EXCEPT ![s] = @ \/ srv[s].num_cp + n = size_cp]
    /\ chan' = Took(Master, s) @@ chan
    /\ UNCHANGED <<pc, id, sock, backlog, lpc, refused, early>>

(* The clients a server is in charge of.                                    *)
Charge(s) == {i \in Ids : i >= size_sp /\ (i - size_sp) % size_sp = id[s]}

(* A server sends its clients their id and the whole table, connecting to   *)
(* those it has no connection with, and enters the barrier of the servers.  *)
(* It gives up at a client that has not registered.  ds_alloc then sets the *)
(* number of clients the server is in charge of.                            *)
ds_register_cp(s) ==
    /\ pc[s] = "boot" /\ f_reg[s]
    /\ LET mine == {i \in Charge(s) : i < size_sp + srv[s].num_cp}
           good == {i \in mine : \A j \in mine : j <= i => ptlmap[s][j] # None}
           far  == {i \in good : sock[s][i] = None}
           Reply(c) == [cmd |-> "cn_register", tab |-> ptlmap[s],
                        id |-> CHOOSE i \in good : OtherEnd(s, i) = c]
       IN /\ rpc_connect(s, {ptlmap[s][i] : i \in far})
          /\ sock' = [sock EXCEPT ![s] =
                         [i \in Ids |-> IF i \in far THEN ptlmap[s][i] ELSE @[i]]]
          /\ SendAll([c \in {<<s, OtherEnd(s, i)>> : i \in good} |-> <<Reply(c[2])>>])
          /\ pc' = [pc EXCEPT ![s] = IF good = mine THEN "cp_barrier" ELSE "serve"]
          /\ srv' = [srv EXCEPT ![s].num_charge =
                        (size_cp - 1 - id[s] + size_sp) \div size_sp]
    /\ UNCHANGED <<id, ptlmap, lpc, f_reg, refused, early>>

CpBarrier ==
    /\ \A s \in Servers : pc[s] = "cp_barrier"
    /\ pc' = [p \in Procs |-> IF p \in Servers THEN "serve" ELSE pc[p]]
    /\ UNCHANGED <<id, sock, ptlmap, backlog, chan, srv, lpc, f_reg, refused, early>>

(* The listening thread of a client takes the connection of its server.     *)
dc_listen(c) ==
    /\ backlog[c] # <<>>
    /\ LET in == Head(backlog[c])
       IN IF ~f_reg[c] /\ \A i \in Ids \ {0} : sock[c][i] = None
          THEN /\ sock' = [sock EXCEPT ![c][in.id] = in.from]
               /\ UNCHANGED <<chan, refused>>
          ELSE /\ refused' = refused \cup {<<in.from, c>>}
               /\ chan' = [chan EXCEPT ![in.from, c] = <<>>]
               /\ UNCHANGED sock
    /\ backlog' = [backlog EXCEPT ![c] = Tail(@)]
    /\ UNCHANGED <<pc, id, ptlmap, srv, lpc, f_reg, early>>

(* rpc_handler_cn_register and rpc_cb_recv_cn_register of a client; then it  *)
(* waits for its application in dc_barrier.                                 *)
ClientRegistered(c, s) ==
    /\ Incoming(c, s, "cn_register")
    /\ LET m == Head(chan[s, c])
       IN /\ id' = [id EXCEPT ![c] = m.id]
          /\ ptlmap' = [ptlmap EXCEPT ![c] = m.tab]
    /\ f_reg' = [f_reg EXCEPT ![c] = TRUE]
    /\ chan' = Took(s, c) @@ chan
    /\ pc' = [pc EXCEPT ![c] = "app_barrier"]
    /\ UNCHANGED <<sock, backlog, srv, lpc, refused, early>>

dc_barrier(a) ==
    /\ \A c \in Members(a) : pc[c] = "app_barrier"
    /\ pc' = [p \in Procs |-> IF p \in Members(a) THEN "run" ELSE pc[p]]
    /\ UNCHANGED <<id, sock, ptlmap, backlog, chan, srv, lpc, f_reg, refused, early>>
-----------------------------------------------------------------------------
(* The end.                                                                *)

(* The client tells the server at index i.                                  *)
Unregister(c, i) ==
    /\ pc[c] = "run"
    /\ SendAll(<<c, OtherEnd(c, i)>> :> <<[cmd |-> "cn_unregister", num |-> 1]>>)
    /\ pc' = [pc EXCEPT ![c] = "done"]
    /\ UNCHANGED <<id, sock, ptlmap, backlog, srv, lpc, f_reg, refused, early>>

(* Mutant: the client tells the first server.                               *)
dc_unregister_at_master(c) == Unregister(c, 0)

dc_unregister(c) == Unregister(c, id[c] % size_sp)

(* A server counts the client, or the clients another server reports, and   *)
(* stops when all are gone; when the last client in its charge has left it  *)
(* reports n of them to the other servers.                                  *)
CountGone(s, q, n) ==
    /\ Incoming(s, q, "cn_unregister")
    /\ IF srv[s].f_stop
       THEN /\ chan' = Took(q, s) @@ chan
            /\ UNCHANGED <<srv, sock, backlog>>
       ELSE LET gone   == srv[s].num_cn_unreg + Head(chan[q, s]).num
                charge == srv[s].num_charge - (IF q \in Clients THEN 1 ELSE 0)
                tell   == IF q \in Clients /\ charge = 0
                          THEN (0 .. size_sp - 1) \ {id[s]} ELSE {}
                far    == {i \in tell : sock[s][i] = None}
                to     == {<<s, OtherEnd(s, i)>> : i \in tell}
                m      == [cmd |-> "cn_unregister", num |-> n]
            IN /\ srv' = [srv EXCEPT ![s].num_cn_unreg = gone,
                                     ![s].num_charge = charge,
                                     ![s].f_stop = gone = size_cp]
               /\ rpc_connect(s, {ptlmap[s][i] : i \in far})
               /\ sock' = [sock EXCEPT ![s] =
                              [i \in Ids |-> IF i \in far THEN ptlmap[s][i] ELSE @[i]]]
               /\ chan' = [c \in DOMAIN chan |->
                              IF c = <<q, s>> THEN Tail(chan[c])
                              ELSE IF c \in to \ refused THEN Append(chan[c], m) ELSE chan[c]]
    /\ UNCHANGED <<pc, id, ptlmap, lpc, f_reg, refused, early>>

(* Mutant: the report is about all clients.                                 *)
rpc_handler_cn_unregister_all(s, q) == CountGone(s, q, size_cp)

rpc_handler_cn_unregister(s, q) == CountGone(s, q, Cardinality(Charge(s)))

(* The loop on dsg_complete ends and the server is freed.                   *)
ds_free(s) ==
    /\ pc[s] = "serve" /\ srv[s].f_stop
    /\ pc' = [pc EXCEPT ![s] = "stopped"]
    /\ UNCHANGED <<id, sock, ptlmap, backlog, chan, srv, lpc, f_reg, refused, early>>
-----------------------------------------------------------------------------
(* ds_alloc: num_sp and the static num_sp_reg begin at 1.                   *)
Init ==
    /\ pc = [p \in Procs |-> "start"]
    /\ id = [p \in Procs |-> -1]
    /\ sock = [p \in Procs |-> NoPeers]
    /\ ptlmap = [p \in Procs |-> NoPeers]
    /\ backlog = [p \in Procs |-> <<>>]
    /\ chan = [c \in Procs \X Procs |-> <<>>]
    /\ srv = [s \in Servers |->
                 [num_sp |-> 1, num_cp |-> 0, num_sp_reg |-> 1, app_list |-> <<>>,
                  num_charge |-> 0, num_cn_unreg |-> 0, f_stop |-> FALSE]]
    /\ lpc = "accept"
    /\ f_reg = [p \in Procs |-> FALSE]
    /\ refused = {}
    /\ early = FALSE

Finished ==
    /\ \A s \in Servers : pc[s] = "stopped"
    /\ \A c \in Clients : pc[c] = "done"

Next ==
    \/ ds_boot_master
    \/ RegBarrier
    \/ CpBarrier
    \/ \E s \in Slaves :
          \/ ds_boot_slave(s)
          \/ rpc_handler_sp_reg_request(s)
          \/ rpc_handler_sp_reg_reply(s)
          \/ rpc_cb_recv_sp_reg_reply(s)
          \/ rpc_handler_sp_announce_cp(s)
    \/ \E s \in Servers :
          \/ ds_listen(s)
          \/ ds_register_cp(s)
          \/ ds_free(s)
          \/ \E q \in Procs : rpc_handler_cn_unregister(s, q)
    \/ \E c \in Clients :
          \/ dc_register_at_master(c)
          \/ rpc_handler_cn_register(c)
          \/ dc_listen(c)
          \/ \E s \in Servers : ClientRegistered(c, s)
          \/ dc_unregister(c)
    \/ \E a \in Apps : dc_barrier(a)
    \/ Finished /\ UNCHANGED vars

Spec == Init /\ [][Next]_vars

(* The job starts all processes, they poll their connections in a loop, the *)
(* listening threads run, and an application that has run finalizes.        *)
Fairness ==
    /\ WF_vars(ds_boot_master) /\ WF_vars(RegBarrier) /\ WF_vars(CpBarrier)
    /\ \A s \in Slaves :
          /\ WF_vars(ds_boot_slave(s))
          /\ WF_vars(rpc_handler_sp_reg_request(s))
          /\ WF_vars(rpc_handler_sp_reg_reply(s))
          /\ WF_vars(rpc_cb_recv_sp_reg_reply(s))
          /\ WF_vars(rpc_handler_sp_announce_cp(s))
    /\ \A s \in Servers :
          /\ WF_vars(ds_listen(s)) /\ WF_vars(ds_register_cp(s)) /\ WF_vars(ds_free(s))
          /\ \A q \in Procs : WF_vars(rpc_handler_cn_unregister(s, q))
    /\ \A c \in Clients :
          /\ WF_vars(dc_register_at_master(c)) /\ WF_vars(rpc_handler_cn_register(c))
          /\ WF_vars(dc_listen(c)) /\ WF_vars(dc_unregister(c))
          /\ \A s \in Servers : WF_vars(ClientRegistered(c, s))
    /\ \A a \in Apps : WF_vars(dc_barrier(a))

FairSpec == Spec /\ Fairness
-----------------------------------------------------------------------------
(* Properties.                                                             *)

(* Every variable keeps its type.                                          *)
TypeOK ==
    /\ pc \in [Procs -> {"start", "boot", "reg_barrier", "connect", "cp_barrier",
                         "serve", "stopped", "app_barrier", "run", "done"}]
    /\ id \in [Procs -> Ids \cup {-1}]
    /\ sock \in [Procs -> [Ids -> Procs \cup {None}]]
    /\ ptlmap \in [Procs -> [Ids -> Procs \cup {None}]]
    /\ lpc \in {"accept", "counted"}
    /\ \A s \in Servers : /\ srv[s].num_sp \in 1 .. size_sp
                           /\ srv[s].num_cp \in 0 .. size_cp
                           /\ srv[s].num_cn_unreg \in 0 .. size_cp
                           /\ srv[s].num_charge \in 0 .. size_cp
    /\ f_reg \in [Procs -> BOOLEAN]
    /\ refused \subseteq Procs \X Procs
    /\ early \in BOOLEAN

(* Every process that has learned its id has one of its own, and whoever    *)
(* knows an address for that id knows that of this process, although ids    *)
(* are given in the order of the connections, and addresses arrive with the *)
(* later registration message.                                              *)
IdsAgree ==
    \A p, q \in Procs :
        /\ id[p] # -1 /\ id[p] = id[q] => p = q
        /\ id[p] # -1 => ptlmap[q][id[p]] \in {p, None}

(* A client that leaves its registration has an id, can reach the server    *)
(* that is in charge of it, and knows the address of every process; so does *)
(* every server that serves.  The exception is a registration that ends     *)
(* while ds_listen is between num_cp and app_list.                          *)
TablesComplete ==
    \A p \in Procs :
        pc[p] \in {"app_barrier", "run", "serve"} /\ ~early =>
            /\ id[p] # -1
            /\ {ptlmap[p][i] : i \in Ids} = Procs
            /\ p \in Clients => sock[p][id[p] % size_sp] = ptlmap[p][id[p] % size_sp]

(* The tables of peers are right, while ids, addresses and connections       *)
(* reach a process on different ways (ds_listen, rpc_handler_cn_register).   *)
TablesRight == TypeOK /\ IdsAgree /\ TablesComplete

(* A server stops only after every client has finalized.                    *)
NoEarlyStop ==
    \A s \in Servers : srv[s].f_stop => \A c \in Clients : pc[c] = "done"

(* Every process registers and every server stops: no registration, reply,  *)
(* announcement or report is lost or counted twice, and nobody is left in a *)
(* barrier.  The exceptions are a registration that ends early, and two     *)
(* processes that connect to each other at the same time: each closes the   *)
(* connection of the other, and what was written to it is lost.             *)
AllStop == <>(Finished \/ early \/ refused # {})
=============================================================================
