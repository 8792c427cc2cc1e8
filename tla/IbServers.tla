----------------------------- MODULE IbServers -----------------------------
(***************************************************************************)
(* The servers over InfiniBand (dart/ib): the first one to take the lock   *)
(* file becomes the master, the others connect to it and get their ids     *)
(* from its listening thread, the master sends every one the table of the  *)
(* servers, they connect to each other, and from then on they meet in the  *)
(* barrier of rpc_barrier, which sends its numbers over the system         *)
(* channels that the boot has set up.                                      *)
(*                                                                         *)
(* A server stands for its address; the servers are named in the order in  *)
(* which they take the lock file and connect to the master.  ec[s] is what *)
(* the event channel of its listening id holds: the connection requests    *)
(* still to be accepted.  A process that connects waits for the answer, so *)
(* it has one request under way at most; est[s] is the answer.             *)
(***************************************************************************)
EXTENDS Integers, Sequences

CONSTANTS num_sp,   \* the number of servers
          BarNums   \* the barrier numbers are 0 .. BarNums - 1; the code keeps 8 bits

Ids     == 0 .. num_sp - 1
Servers == Ids
None    == -1       \* no server

ASSUME IbServersAssumption ==
    /\ num_sp \in Nat /\ num_sp > 1
    /\ BarNums \in Nat /\ BarNums > 4

VARIABLES
    conf,         \* the server whose address the file conf.0 holds
    pc,           \* where the main thread of a server is
    id,           \* rpc_s->ptlmap.id
    peer_list,    \* peer_list[s][i]: the address s has for peer i
    rpc_conn,     \* pairs <<s, t>>: s has set rpc_conn.f_connected for t
    sys_conn,     \* the same for sys_conn
    ec,           \* connection requests at a listening id
    est,          \* RDMA_CM_EVENT_ESTABLISHED, with the private data
    counted,      \* the master's listening thread is inside a request
    s_connected,  \* ds->s_connected of the master
    sp_rank_cnt,  \* the next id the master gives
    chan,         \* chan[s]: messages of the master to s
    next_peer,    \* the peer a booting slave connects to
    bar_num, round, bar_tab,  \* the barrier
    sys_chan      \* sys_chan[s, t]: barrier numbers under way from s to t

boot == <<conf, id, peer_list, rpc_conn, sys_conn, ec, est, counted,
          s_connected, sp_rank_cnt, chan, next_peer>>
bar  == <<bar_num, round, bar_tab, sys_chan>>
vars == <<boot, bar, pc>>

(* Mutant: one round too few.                                               *)
log2_short(n) == CHOOSE k \in 0 .. n : 2^(k + 1) >= n /\ \A j \in 0 .. k - 1 : 2^(j + 1) < n

(* The number of rounds of a barrier.                                       *)
log2_ceil(n) == CHOOSE k \in 0 .. n : 2^k >= n /\ \A j \in 0 .. k - 1 : 2^j < n

(* The partners of rank r in the rounds of a barrier.                       *)
NextRank(r, rd) == (r + 2^rd) % num_sp
PrevRank(r, rd) == (num_sp + r - 2^rd) % num_sp
-----------------------------------------------------------------------------
(* Connecting: the request carries the sender's address, id and the kind of *)
(* channel.                                                                 *)
Request(s, t, kind) ==
    ec' = [ec EXCEPT ![t] = Append(@, [from |-> s, id |-> id[s], kind |-> kind])]

(* The listening thread of s accepts the request at the head.               *)
Accept(s, given) ==
    LET r == Head(ec[s])
    IN /\ ec' = [ec EXCEPT ![s] = Tail(@)]
       /\ est' = [est EXCEPT ![r.from] = given]
       /\ rpc_conn' = IF r.kind = "rpc" THEN rpc_conn \cup {<<s, r.from>>} ELSE rpc_conn
       /\ sys_conn' = IF r.kind = "sys" THEN sys_conn \cup {<<s, r.from>>} ELSE sys_conn

(* ds_boot: with the lock file held, an empty conf.0 makes the master; it   *)
(* writes its address there and starts its listening thread.                *)
ds_boot(s) ==
    /\ pc[s] = "start" /\ \A t \in 0 .. s - 1 : pc[t] # "start"
    /\ IF conf = None
       THEN /\ conf' = s
            /\ id' = [id EXCEPT ![s] = 0]
            /\ peer_list' = [peer_list EXCEPT ![s][0] = s]
            /\ pc' = [pc EXCEPT ![s] = "gather"]
            /\ UNCHANGED ec
       ELSE /\ peer_list' = [peer_list EXCEPT ![s][0] = conf]
            /\ Request(s, conf, "rpc")
            /\ pc' = [pc EXCEPT ![s] = "rpc"]
            /\ UNCHANGED <<conf, id>>
    /\ UNCHANGED <<rpc_conn, sys_conn, est, counted, s_connected, sp_rank_cnt,
                   chan, next_peer, bar>>

(* rpc_connect of a slave returns: it has its id, and asks for the system   *)
(* channel.                                                                 *)
RpcEstablished(s) ==
    /\ pc[s] = "rpc" /\ est[s] # None
    /\ id' = [id EXCEPT ![s] = est[s]]
    /\ rpc_conn' = rpc_conn \cup {<<s, conf>>}
    /\ est' = [est EXCEPT ![s] = None]
    /\ ec' = [ec EXCEPT ![conf] = Append(@, [from |-> s, id |-> est[s], kind |-> "sys"])]
    /\ pc' = [pc EXCEPT ![s] = "sys"]
    /\ UNCHANGED <<conf, peer_list, sys_conn, counted, s_connected, sp_rank_cnt,
                   chan, next_peer, bar>>

(* sys_connect returns; the slave starts its listening thread and waits for *)
(* the table.                                                               *)
SysEstablished(s) ==
    /\ pc[s] = "sys" /\ est[s] # None
    /\ sys_conn' = sys_conn \cup {<<s, conf>>}
    /\ est' = [est EXCEPT ![s] = None]
    /\ pc' = [pc EXCEPT ![s] = "wait"]
    /\ UNCHANGED <<conf, id, peer_list, rpc_conn, ec, counted, s_connected,
                   sp_rank_cnt, chan, next_peer, bar>>

(* The master's listening thread counts a request before it accepts it; a   *)
(* new server enters peer_list with the next id.                            *)
ds_master_listen_count ==
    /\ conf # None /\ ec[conf] # <<>> /\ ~counted
    /\ LET r == Head(ec[conf])
       IN IF r.kind = "rpc"
          THEN /\ peer_list' = [peer_list EXCEPT ![conf][sp_rank_cnt] = r.from]
               /\ sp_rank_cnt' = sp_rank_cnt + 1
          ELSE UNCHANGED <<peer_list, sp_rank_cnt>>
    /\ s_connected' = s_connected + 1
    /\ counted' = TRUE
    /\ UNCHANGED <<conf, id, rpc_conn, sys_conn, ec, est, chan, next_peer, bar, pc>>

ds_master_listen_accept ==
    /\ counted
    /\ Accept(conf, CHOOSE i \in Ids : peer_list[conf][i] = Head(ec[conf]).from)
    /\ counted' = FALSE
    /\ UNCHANGED <<conf, id, peer_list, s_connected, sp_rank_cnt, chan, next_peer,
                   bar, pc>>

SendTable(s) ==
    /\ chan' = [t \in Servers |->
                   IF t # s /\ \E i \in Ids : peer_list[s][i] = t
                   THEN Append(chan[t], peer_list[s]) ELSE chan[t]]
    /\ pc' = [pc EXCEPT ![s] = "out"]
    /\ UNCHANGED <<conf, id, peer_list, rpc_conn, sys_conn, ec, est, counted,
                   s_connected, sp_rank_cnt, next_peer, bar>>

(* Mutant: one channel of every slave is enough.                            *)
ds_boot_master_early(s) ==
    /\ pc[s] = "gather" /\ s_connected >= num_sp - 1
    /\ SendTable(s)

(* Once both channels of every slave are counted the master sends the table *)
(* to the slaves it has in peer_list.                                       *)
ds_boot_master(s) ==
    /\ pc[s] = "gather"
    /\ s_connected = 2 * (num_sp - 1)
    /\ SendTable(s)

(* dsrpc_announce_cp reads the table from the master's memory, and          *)
(* announce_cp_completion enters it; the master's entry is there already.   *)
announce_cp_completion(s) ==
    /\ pc[s] = "wait" /\ chan[s] # <<>>
    /\ peer_list' = [peer_list EXCEPT ![s] =
                        [i \in Ids |-> IF i = 0 THEN @[0] ELSE Head(chan[s])[i]]]
    /\ chan' = [chan EXCEPT ![s] = Tail(@)]
    /\ pc' = [pc EXCEPT ![s] = "connect"]
    /\ next_peer' = [next_peer EXCEPT ![s] = 1]
    /\ UNCHANGED <<conf, id, rpc_conn, sys_conn, ec, est, counted, s_connected,
                   sp_rank_cnt, bar>>

(* The servers with which id shares a round of the barrier.                 *)
check_sp(i) ==
    {k \in Ids : \E j \in 0 .. log2_ceil(num_sp) - 1 :
                     NextRank(i, j) = k \/ NextRank(k, j) = i}

(* The end of ds_boot_slave: the slave connects to the slaves before it,    *)
(* with a system channel to those in check_sp, one after the other.         *)
ds_boot_slave(s) ==
    /\ pc[s] = "connect" /\ est[s] = None
    /\ IF next_peer[s] >= id[s]
       THEN pc' = [pc EXCEPT ![s] = "out"] /\ UNCHANGED ec
       ELSE /\ Request(s, peer_list[s][next_peer[s]], "rpc")
            /\ pc' = [pc EXCEPT ![s] = "peer_rpc"]
    /\ UNCHANGED <<conf, id, peer_list, rpc_conn, sys_conn, est, counted,
                   s_connected, sp_rank_cnt, chan, next_peer, bar>>

PeerRpcEstablished(s) ==
    /\ pc[s] = "peer_rpc" /\ est[s] # None
    /\ LET t == peer_list[s][next_peer[s]]
       IN /\ rpc_conn' = rpc_conn \cup {<<s, t>>}
          /\ IF next_peer[s] \in check_sp(id[s])
             THEN /\ Request(s, t, "sys")
                  /\ pc' = [pc EXCEPT ![s] = "peer_sys"]
                  /\ UNCHANGED next_peer
             ELSE /\ pc' = [pc EXCEPT ![s] = "connect"]
                  /\ next_peer' = [next_peer EXCEPT ![s] = @ + 1]
                  /\ UNCHANGED ec
    /\ est' = [est EXCEPT ![s] = None]
    /\ UNCHANGED <<conf, id, peer_list, sys_conn, counted, s_connected,
                   sp_rank_cnt, chan, bar>>

PeerSysEstablished(s) ==
    /\ pc[s] = "peer_sys" /\ est[s] # None
    /\ sys_conn' = sys_conn \cup {<<s, peer_list[s][next_peer[s]]>>}
    /\ est' = [est EXCEPT ![s] = None]
    /\ pc' = [pc EXCEPT ![s] = "connect"]
    /\ next_peer' = [next_peer EXCEPT ![s] = @ + 1]
    /\ UNCHANGED <<conf, id, peer_list, rpc_conn, ec, counted, s_connected,
                   sp_rank_cnt, chan, bar>>

(* The listening thread of a slave; it yields until the main thread has     *)
(* entered the peer.                                                        *)
ds_listen(s) ==
    /\ s # conf /\ pc[s] \notin {"start", "rpc", "sys"}
    /\ ec[s] # <<>>
    /\ peer_list[s][Head(ec[s]).id] # None
    /\ Accept(s, Head(ec[s]).id)
    /\ UNCHANGED <<conf, id, peer_list, counted, s_connected, sp_rank_cnt, chan,
                   next_peer, bar, pc>>
-----------------------------------------------------------------------------
(* rpc_barrier.  A server that is not in it serves requests.                *)

rpc_barrier(s) ==
    /\ pc[s] = "out"
    /\ bar_num' = [bar_num EXCEPT ![s] = (@ + 1) % BarNums]
    /\ round' = [round EXCEPT ![s] = 0]
    /\ pc' = [pc EXCEPT ![s] = "send"]
    /\ UNCHANGED <<boot, bar_tab, sys_chan>>

(* sys_bar_send: sys_send spins until the channel is up.                    *)
sys_bar_send(s) ==
    /\ pc[s] = "send"
    /\ LET t == peer_list[s][NextRank(id[s], round[s])]
       IN /\ <<s, t>> \in sys_conn
          /\ sys_chan' = [sys_chan EXCEPT ![s, t] = Append(@, bar_num[s])]
    /\ pc' = [pc EXCEPT ![s] = "recv"]
    /\ UNCHANGED <<boot, bar_num, round, bar_tab>>

(* sys_process, sys_bar_arrive: events are polled on the channels that are  *)
(* flagged, in the barrier's wait and in the server's loop.                 *)
sys_bar_arrive(s, t) ==
    /\ pc[s] \in {"recv", "out", "wait"} /\ <<s, t>> \in sys_conn
    /\ sys_chan[t, s] # <<>>
    /\ bar_tab' = [bar_tab EXCEPT ![s][id[t]] = Head(sys_chan[t, s])]
    /\ sys_chan' = [sys_chan EXCEPT ![t, s] = Tail(@)]
    /\ UNCHANGED <<boot, bar_num, round, pc>>

EndRound(s) ==
    /\ IF round[s] + 1 < log2_ceil(num_sp)
       THEN pc' = [pc EXCEPT ![s] = "send"] /\ round' = [round EXCEPT ![s] = @ + 1]
       ELSE pc' = [pc EXCEPT ![s] = "out"] /\ UNCHANGED round
    /\ UNCHANGED <<boot, bar_num, bar_tab, sys_chan>>

(* Mutant: only the number of this barrier ends the wait.                   *)
BarWaitExact(s) ==
    /\ pc[s] = "recv"
    /\ \/ bar_tab[s][PrevRank(id[s], round[s])] = bar_num[s] /\ EndRound(s)
       \/ UNCHANGED vars

(* SYS_WAIT_COMPLETION: the previous rank has reached this barrier, or is   *)
(* already in the next one.                                                 *)
BarWait(s) ==
    /\ pc[s] = "recv"
    /\ bar_tab[s][PrevRank(id[s], round[s])] \in {bar_num[s], (bar_num[s] + 1) % BarNums}
    /\ EndRound(s)
-----------------------------------------------------------------------------
Init ==
    /\ conf = None
    /\ pc = [s \in Servers |-> "start"]
    /\ id = [s \in Servers |-> 0]
    /\ peer_list = [s \in Servers |-> [i \in Ids |-> None]]
    /\ rpc_conn = {} /\ sys_conn = {}
    /\ ec = [s \in Servers |-> <<>>]
    /\ est = [s \in Servers |-> None]
    /\ counted = FALSE /\ s_connected = 0 /\ sp_rank_cnt = 1
    /\ chan = [s \in Servers |-> <<>>]
    /\ next_peer = [s \in Servers |-> 1]
    /\ bar_num = [s \in Servers |-> 0]
    /\ round = [s \in Servers |-> 0]
    /\ bar_tab = [s \in Servers |-> [i \in Ids |-> 0]]
    /\ sys_chan = [c \in Servers \X Servers |-> <<>>]

Boot(s) ==
    \/ ds_boot(s)
    \/ RpcEstablished(s)
    \/ SysEstablished(s)
    \/ ds_boot_master(s)
    \/ announce_cp_completion(s)
    \/ ds_boot_slave(s)
    \/ PeerRpcEstablished(s)
    \/ PeerSysEstablished(s)

Barrier(s) == rpc_barrier(s) \/ sys_bar_send(s) \/ BarWait(s)

Next ==
    \/ ds_master_listen_count
    \/ ds_master_listen_accept
    \/ \E s \in Servers : Boot(s) \/ ds_listen(s) \/ Barrier(s)
    \/ \E s, t \in Servers : sys_bar_arrive(s, t)

Spec == Init /\ [][Next]_vars

(* Main and listening threads run, events are polled, and the servers call  *)
(* the barrier equally often.                                               *)
Fairness ==
    /\ WF_vars(ds_master_listen_count) /\ WF_vars(ds_master_listen_accept)
    /\ \A s \in Servers :
          /\ WF_vars(Boot(s)) /\ WF_vars(ds_listen(s)) /\ WF_vars(Barrier(s))
          /\ \A t \in Servers : WF_vars(sys_bar_arrive(s, t))

FairSpec == Spec /\ Fairness
-----------------------------------------------------------------------------
(* Properties.                                                             *)

Booted == {s \in Servers : pc[s] \in {"out", "send", "recv"}}

(* Every variable keeps its type.                                          *)
TypeOK ==
    /\ conf \in Servers \cup {None}
    /\ pc \in [Servers -> {"start", "gather", "rpc", "sys", "wait", "connect",
                           "peer_rpc", "peer_sys", "out", "send", "recv"}]
    /\ id \in [Servers -> Ids]
    /\ peer_list \in [Servers -> [Ids -> Servers \cup {None}]]
    /\ rpc_conn \subseteq Servers \X Servers /\ sys_conn \subseteq Servers \X Servers
    /\ est \in [Servers -> Ids \cup {None}]
    /\ counted \in BOOLEAN
    /\ s_connected \in 0 .. 2 * (num_sp - 1) /\ sp_rank_cnt \in 1 .. num_sp
    /\ bar_num \in [Servers -> 0 .. BarNums - 1]
    /\ round \in [Servers -> 0 .. log2_ceil(num_sp) - 1]
    /\ bar_tab \in [Servers -> [Ids -> 0 .. BarNums - 1]]

(* A server that has finished its boot has the address of every server      *)
(* under the id that server has: the master sends the table after the last  *)
(* request is counted, which is before that request is accepted.            *)
TableAgrees ==
    \A s \in Booted : \A i \in Ids :
        /\ peer_list[s][i] # None
        /\ \A t \in Servers : (peer_list[s][i] = t /\ t \in Booted) => id[t] = i

(* The master has a connection to every server it sends the table to, and a *)
(* booted server one to each server with a smaller id.                      *)
ChannelsUp ==
    \A s \in Booted : \A i \in Ids :
        (s = conf \/ i < id[s]) /\ i # id[s] => <<s, peer_list[s][i]>> \in rpc_conn

(* A server that has finished its boot has the right tables and channels     *)
(* (ds_boot_master, ds_boot_slave, ds_master_listen).                        *)
BootAgrees == TypeOK /\ TableAgrees /\ ChannelsUp

(* The boot and the rounds of rpc_barrier implement a barrier (module        *)
(* Barrier) across the wrap of the barrier numbers: no server leaves one     *)
(* that another has not entered, although it hears from log2 of the others   *)
(* only and takes the number of the next barrier for that of its own.        *)
InBarrier == {s \in Servers : pc[s] \in {"send", "recv"}}
Abs == INSTANCE Barrier WITH Procs <- Servers, Numbers <- BarNums,
                             num <- bar_num, inside <- InBarrier
IsBarrier == Abs!Spec

(* Every server boots, and whoever enters a barrier leaves it: the boot has *)
(* set up every system channel the barrier uses, and a number overwritten   *)
(* by the next one is not missed.                                           *)
AllBoot == <>(Booted = Servers)
BarrierEnds == \A s \in Servers : pc[s] = "send" ~> pc[s] = "out"

(* The servers go from boot to barrier to barrier and never stop.            *)
Progress == AllBoot /\ BarrierEnds
=============================================================================
