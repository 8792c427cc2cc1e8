------------------------------- MODULE IbRpc -------------------------------
(***************************************************************************)
(* A connection of the InfiniBand RPC layer (src/dart/ib/dart_rpc_ib.c):   *)
(* commands are sent from one end to the other, the data that belong to a  *)
(* command are read or written by the other end with RDMA, and             *)
(* peer_rdma_done tells the first end that its memory is free again.       *)
(*                                                                         *)
(* The code of an end is one thread, but calls nest: a send may process    *)
(* events, an event runs a handler, and a handler may send.  An end has a  *)
(* stack of the calls that are under way.  A queue pair (sq), a completion *)
(* queue (cq) and its event channel (armed, event) model the device.       *)
(*                                                                         *)
(* An operation is started by the application at one end: "tell" sends a   *)
(* command, "ask" a command whose handler answers with another, "push" a   *)
(* command with data for the other end to read (rpc_send), "pull" a        *)
(* command with room for data that the other end writes (rpc_receive).     *)
(* A request is named <<o, role>>: "cmd" is the command of operation o,    *)
(* "xfer" the RDMA transfer, "done" the peer_rdma_done, "reply" the answer. *)
(* One record stands for a struct rpc_request and its struct msg_buf.      *)
(***************************************************************************)
EXTENDS Integers, Sequences, FiniteSets, Functions

CONSTANTS
    Ops,      \* the operations
    Workloads, \* sets of operations; a behaviour performs those of one
    By, Kind, \* who starts an operation, and its kind
    Clients,  \* the ends with com_type DART_CLIENT
    NumBuf,   \* rpc_s->num_buf, and the 100 of peer_process_send_list
    Rounds,   \* the 10 rounds of peer_process_send_list
    None

Ends == {1, 2}
Other(p) == 3 - p

(* A struct rpc_request: rr->data_mr is set while the data are registered,  *)
(* full once they are there, cbs counts the calls of msg->cb.               *)
Requests == [refcont : Int, data_mr : BOOLEAN, full : BOOLEAN, cbs : Nat, live : BOOLEAN]

ASSUME IbRpcAssumption ==
    /\ By \in [Ops -> Ends]
    /\ Kind \in [Ops -> {"tell", "ask", "push", "pull"}]
    /\ Workloads \subseteq SUBSET Ops
    /\ Clients \subseteq Ends
    /\ NumBuf \in Nat \ {0} /\ Rounds \in Nat
    /\ None \notin Requests

VARIABLES
    todo,     \* the operations the application has not started
    req,      \* the requests: None before they are allocated
    req_list, \* peer->req_list
    posted,   \* peer->req_posted
    num_recv, \* peer->num_recv_buf: the receives that are posted
    stack,    \* the calls under way, innermost first
    sq,       \* work requests the device has not completed
    cq,       \* completions that are not polled
    armed,    \* whether the next completion raises an event
    event,    \* whether the event channel is readable
    issued,   \* the commands each end gave to rpc_send, in order
    handled,  \* the commands each end decoded, in order
    lost      \* requests that ibv_post_send refused

device == <<sq, cq, armed, event>>
vars == <<todo, req, req_list, posted, num_recv, stack, device, issued, handled, lost>>

Roles == {"cmd", "xfer", "done", "reply"}
Ids == Ops \X Roles
Cmd(id) == <<id[1], "cmd">>
HasData(id) == id[2] = "cmd" /\ Kind[id[1]] \in {"push", "pull"}
Owner(id) == IF id[2] = "cmd" THEN By[id[1]] ELSE Other(By[id[1]])

-----------------------------------------------------------------------------
(* Requests.                                                                *)

NewRequest(full) ==
    [refcont |-> 0, data_mr |-> FALSE, full |-> full, cbs |-> 0, live |-> TRUE]

Allocate(rs, id) == [rs EXCEPT ![id] = NewRequest(Kind[id[1]] = "push" /\ id[2] = "cmd")]

(* Mutant: the data are not counted as a reference.                         *)
PrepareUncounted(rs, id) == [rs EXCEPT ![id].data_mr = TRUE]

rpc_prepare_buffers(rs, id) ==
    [rs EXCEPT ![id].data_mr = TRUE, ![id].refcont = @ + 1]

(* The reference of a work request; an error of ibv_post_send is positive,  *)
(* and taken for success.                                                   *)
rpc_post_request(rs, id) ==
    [rs EXCEPT ![id].data_mr = @ \/ id[2] = "xfer", ![id].refcont = @ + 1]

rpc_fetch_request(rs, id) ==
    [rs EXCEPT ![id].data_mr = TRUE, ![id].refcont = @ + 1]

(* Work requests are posted, in order, while the queue has room.            *)
InDevice(p) ==
    {i \in DOMAIN sq[p] : TRUE} \cup {-i : i \in {j \in DOMAIN cq[p] : ~cq[p][j].recv}}

PostSend(p, id) ==
    IF Cardinality(InDevice(p)) >= NumBuf
    THEN lost' = lost \cup {id} /\ UNCHANGED sq
    ELSE sq' = [sq EXCEPT ![p] = Append(@, [id |-> id, sent |-> FALSE])]
         /\ UNCHANGED lost

Push(p, frames) == stack' = [stack EXCEPT ![p] = frames \o @]
Pop(p) == stack' = [stack EXCEPT ![p] = Tail(@)]
Replace(p, frames) == stack' = [stack EXCEPT ![p] = frames \o Tail(@)]
Top(p) == IF stack[p] = << >> THEN [at |-> "idle"] ELSE Head(stack[p])

(* peer_process_send_list before it sends the first request of its list: a  *)
(* client processes events before every send, n is peer->req_posted.        *)
Sending(p, n) ==
    [at |-> "wait", left |-> IF p \in Clients \/ n > NumBuf THEN Rounds ELSE 0]

-----------------------------------------------------------------------------
(* Sending.                                                                 *)

(* Mutant: the request is put at the head of the list.                      *)
EnqueueFirst(p, rs, id) ==
    /\ req' = Allocate(rs, id)
    /\ req_list' = [req_list EXCEPT ![p] = <<id>> \o @]
    /\ issued' = [issued EXCEPT ![p] = Append(@, id)]

(* The request joins the list.                                              *)
Enqueue(p, rs, id) ==
    /\ req' = Allocate(rs, id)
    /\ req_list' = [req_list EXCEPT ![p] = Append(@, id)]
    /\ issued' = [issued EXCEPT ![p] = Append(@, id)]

(* The application calls rpc_send or rpc_receive, and the list is sent.     *)
SendCommand(p, o) ==
    /\ stack[p] = << >> /\ By[o] = p
    /\ todo' = todo \ {o}
    /\ Enqueue(p, req, <<o, "cmd">>)
    /\ posted' = [posted EXCEPT ![p] = @ + 1]
    /\ Push(p, <<Sending(p, posted'[p])>>)
    /\ UNCHANGED <<num_recv, device, handled, lost>>

rpc_send(p, o) == Kind[o] # "pull" /\ SendCommand(p, o)

rpc_receive(p, o) == Kind[o] = "pull" /\ SendCommand(p, o)

(* A round without an event: the poll times out.                            *)
RoundTimesOut(p) ==
    /\ Top(p).at = "wait" /\ Top(p).left > 0 /\ ~event[p]
    /\ Replace(p, <<[Top(p) EXCEPT !.left = @ - 1]>>)
    /\ UNCHANGED <<todo, req, req_list, posted, num_recv, device, issued, handled,
                   lost>>

(* Mutant: events are processed once more after the last send.              *)
SendHeadAndWait(p) ==
    /\ Top(p).at = "wait" /\ Top(p).left = 0
    /\ IF req_list[p] = << >>
       THEN Pop(p) /\ UNCHANGED <<req, req_list, sq, lost>>
       ELSE /\ req' = rpc_post_request(req, Head(req_list[p]))
            /\ PostSend(p, Head(req_list[p]))
            /\ req_list' = [req_list EXCEPT ![p] = Tail(@)]
            /\ Replace(p, <<Sending(p, posted[p])>>)
    /\ UNCHANGED <<todo, posted, num_recv, cq, armed, event, issued, handled>>

(* When the events have emptied the list, rr->msg is read from the two      *)
(* flags that follow the list in struct node_id; they are never set, so it  *)
(* is a null pointer and the call returns.                                  *)
SendHead(p) ==
    /\ Top(p).at = "wait" /\ Top(p).left = 0
    /\ IF req_list[p] = << >>
       THEN Pop(p) /\ UNCHANGED <<req, req_list, sq, lost>>
       ELSE LET id == Head(req_list[p])
                prepared == IF HasData(id) THEN rpc_prepare_buffers(req, id)
                            ELSE req
            IN /\ req' = rpc_post_request(prepared, id)
               /\ PostSend(p, id)
               /\ req_list' = [req_list EXCEPT ![p] = Tail(@)]
               /\ Replace(p, IF Tail(req_list[p]) = << >> THEN << >>
                             ELSE <<Sending(p, posted[p])>>)
    /\ UNCHANGED <<todo, posted, num_recv, cq, armed, event, issued, handled>>

-----------------------------------------------------------------------------
(* The device.                                                              *)

Complete(c, p, entry) == [c EXCEPT ![p] = Append(@, entry)]

Raise(p) ==
    /\ event' = [event EXCEPT ![p] = @ \/ armed[p]]
    /\ armed' = [armed EXCEPT ![p] = FALSE]

(* The next work request takes effect at the other end: a command needs a   *)
(* receive that is posted there, and is sent again until it finds one.      *)
Transmit(p) ==
    \E i \in DOMAIN sq[p] :
        LET id == sq[p][i].id
        IN /\ ~sq[p][i].sent /\ \A j \in 1 .. i - 1 : sq[p][j].sent
           /\ sq' = [sq EXCEPT ![p][i].sent = TRUE]
           /\ IF id[2] = "xfer"
              THEN /\ req' = IF Kind[id[1]] = "push"
                             THEN [req EXCEPT ![id].full = req[Cmd(id)].full]
                             ELSE [req EXCEPT ![Cmd(id)].full = TRUE]
                   /\ UNCHANGED <<cq, armed, event, num_recv>>
              ELSE /\ num_recv[Other(p)] > 0
                   /\ num_recv' = [num_recv EXCEPT ![Other(p)] = @ - 1]
                   /\ cq' = Complete(cq, Other(p), [recv |-> TRUE, id |-> id])
                   /\ Raise(Other(p))
                   /\ UNCHANGED req
           /\ UNCHANGED <<todo, req_list, posted, stack, issued, handled, lost>>

(* The oldest work request is acknowledged.                                 *)
Acknowledge(p) ==
    /\ sq[p] # << >> /\ Head(sq[p]).sent
    /\ sq' = [sq EXCEPT ![p] = Tail(@)]
    /\ cq' = Complete(cq, p, [recv |-> FALSE, id |-> Head(sq[p]).id])
    /\ Raise(p)
    /\ UNCHANGED <<todo, req, req_list, posted, num_recv, stack, issued, handled, lost>>

-----------------------------------------------------------------------------
(* Processing events.                                                       *)

(* __process_event finds the channel readable; rpc_process takes the event  *)
(* and asks for the next one before it polls.                               *)
TakeEvent(p) ==
    /\ event[p]
    /\ event' = [event EXCEPT ![p] = FALSE]
    /\ armed' = [armed EXCEPT ![p] = TRUE]

rpc_process_event(p) ==
    /\ \/ stack[p] = << >> /\ Push(p, <<[at |-> "poll"]>>)
       \/ /\ Top(p).at = "wait" /\ Top(p).left > 0
          /\ Replace(p, <<[at |-> "poll"], [Top(p) EXCEPT !.left = @ - 1]>>)
    /\ TakeEvent(p)
    /\ UNCHANGED <<todo, req, req_list, posted, num_recv, sq, cq, issued, handled, lost>>

(* rpc_process ends when the completion queue is empty.                     *)
PollNothing(p) ==
    /\ Top(p).at = "poll" /\ cq[p] = << >>
    /\ Pop(p)
    /\ UNCHANGED <<todo, req, req_list, posted, num_recv, device, issued, handled,
                   lost>>

Poll(p, recv) ==
    /\ Top(p).at = "poll" /\ cq[p] # << >> /\ Head(cq[p]).recv = recv
    /\ cq' = [cq EXCEPT ![p] = Tail(@)]
    /\ UNCHANGED <<armed, event>>

(* Mutant: the callback runs without a look at the references.              *)
FreedAtOnce(rs, id) ==
    [rs EXCEPT ![id].data_mr = FALSE, ![id].cbs = @ + 1, ![id].live = FALSE]

(* The rest of rpc_cb_req_completion: without references the memory is      *)
(* deregistered, the callback runs and the request is freed.                *)
Freed(rs, id) ==
    IF rs[id].refcont = 0
    THEN [rs EXCEPT ![id].data_mr = FALSE, ![id].cbs = @ + 1, ![id].live = FALSE]
    ELSE rs

Unreferenced(rs, id) == [rs EXCEPT ![id].refcont = @ - 1]

(* rpc_cb_req_completion of a work request that is complete.  A transfer is *)
(* first reported to the other end.                                         *)
rpc_cb_req_completion(p) ==
    LET id == Head(cq[p]).id
        done == <<id[1], "done">>
    IN /\ Poll(p, FALSE)
       /\ IF id[2] = "xfer"
          THEN /\ Enqueue(p, Unreferenced(req, id), done)
               /\ posted' = [posted EXCEPT ![p] = (@ - 1) + 1]
               /\ Push(p, <<Sending(p, posted'[p]), [at |-> "finish", id |-> id]>>)
          ELSE /\ req' = Freed(Unreferenced(req, id), id)
               /\ posted' = [posted EXCEPT ![p] = @ - 1]
               /\ UNCHANGED <<req_list, issued, stack>>
       /\ UNCHANGED <<todo, num_recv, sq, handled, lost>>

Finish(p) ==
    /\ Top(p).at = "finish"
    /\ req' = Freed(req, Top(p).id)
    /\ Pop(p)
    /\ UNCHANGED <<todo, req_list, posted, num_recv, device, issued, handled, lost>>

(* Mutant: the receive is not posted again.                                 *)
NotReposted(p) == UNCHANGED num_recv

(* The receive is posted again once the handler has returned.               *)
Repost(p) == num_recv' = [num_recv EXCEPT ![p] = @ + 1]

(* rpc_receive_direct and rpc_send_direct post the transfer at once.        *)
Transfer(p, id) ==
    /\ \/ /\ Kind[id[1]] = "push"
          /\ req' = rpc_fetch_request(Allocate(req, id), id)
       \/ /\ Kind[id[1]] = "pull"
          /\ req' = rpc_post_request(Allocate(req, id), id)
    /\ posted' = [posted EXCEPT ![p] = @ + 1]
    /\ PostSend(p, id)
    /\ Repost(p)
    /\ UNCHANGED <<req_list, stack, issued>>

Answer(p, id) ==
    /\ Enqueue(p, req, id)
    /\ posted' = [posted EXCEPT ![p] = @ + 1]
    /\ Push(p, <<Sending(p, posted'[p]), [at |-> "repost"]>>)
    /\ UNCHANGED <<num_recv, sq, lost>>

(* peer_rdma_done: one reference to the command of the operation less.      *)
rpc_cb_cleanup(p, id) ==
    /\ req' = Freed(Unreferenced(req, id), id)
    /\ Repost(p)
    /\ UNCHANGED <<req_list, posted, stack, sq, issued, lost>>

rpc_cb_decode(p) ==
    LET id == Head(cq[p]).id
        o == id[1]
    IN /\ Poll(p, TRUE)
       /\ handled' = [handled EXCEPT ![p] = Append(@, id)]
       /\ \/ /\ id[2] = "done" /\ rpc_cb_cleanup(p, <<o, "cmd">>)
          \/ /\ id[2] = "cmd" /\ Kind[o] \in {"push", "pull"}
             /\ Transfer(p, <<o, "xfer">>)
          \/ /\ id[2] = "cmd" /\ Kind[o] = "ask" /\ Answer(p, <<o, "reply">>)
          \/ /\ id[2] = "reply" \/ (id[2] = "cmd" /\ Kind[o] = "tell")
             /\ Repost(p)
             /\ UNCHANGED <<req, req_list, posted, stack, sq, issued, lost>>
       /\ UNCHANGED todo

PostRecv(p) ==
    /\ Top(p).at = "repost"
    /\ Repost(p)
    /\ Pop(p)
    /\ UNCHANGED <<todo, req, req_list, posted, device, issued, handled, lost>>

-----------------------------------------------------------------------------
Init ==
    /\ todo \in Workloads
    /\ req = [id \in Ids |-> None]
    /\ req_list = [p \in Ends |-> << >>]
    /\ posted = [p \in Ends |-> 0]
    /\ num_recv = [p \in Ends |-> NumBuf]
    /\ stack = [p \in Ends |-> << >>]
    /\ sq = [p \in Ends |-> << >>]
    /\ cq = [p \in Ends |-> << >>]
    /\ armed = [p \in Ends |-> TRUE]
    /\ event = [p \in Ends |-> FALSE]
    /\ issued = [p \in Ends |-> << >>]
    /\ handled = [p \in Ends |-> << >>]
    /\ lost = {}

Working(p) ==
    \/ RoundTimesOut(p) \/ SendHead(p)
    \/ rpc_process_event(p) \/ PollNothing(p)
    \/ rpc_cb_req_completion(p) \/ Finish(p) \/ rpc_cb_decode(p) \/ PostRecv(p)

Next ==
    \E p \in Ends : \/ \E o \in todo : rpc_send(p, o) \/ rpc_receive(p, o)
                    \/ Working(p)
                    \/ Transmit(p)
                    \/ Acknowledge(p)

(* The device makes progress, and an end goes on with its calls and with    *)
(* rpc_process_event, which servers call in their main loop and clients     *)
(* while they wait.                                                         *)
Fairness ==
    \A p \in Ends : WF_vars(Working(p)) /\ WF_vars(Transmit(p))
                    /\ WF_vars(Acknowledge(p))

Spec == Init /\ [][Next]_vars /\ Fairness

-----------------------------------------------------------------------------
(* Properties.                                                              *)

Queued(p) == Range(req_list[p])
Outstanding(p) ==
    {w.id : w \in Range(sq[p])} \cup {c.id : c \in {d \in Range(cq[p]) : ~d.recv}}
Finishing(p) == {f.id : f \in {g \in Range(stack[p]) : g.at = "finish"}}
Arriving(p) ==
    {c.id : c \in {d \in Range(cq[p]) : d.recv}}
    \cup {w.id : w \in {v \in Range(sq[Other(p)]) : ~v.sent /\ v.id[2] # "xfer"}}
Live(id) == req[id] # None /\ req[id].live

(* The variables have their types; no more receives are posted than there   *)
(* are buffers (rpc_post_recv), and the sends that are counted are never    *)
(* fewer than none (peer->req_posted).                                      *)
TypeOK ==
    /\ \A id \in Ids :
           req[id] # None =>
               req[id] \in [refcont : 0 .. 2, data_mr : BOOLEAN, full : BOOLEAN,
                            cbs : 0 .. 1, live : BOOLEAN]
    /\ posted \in [Ends -> Nat]
    /\ num_recv \in [Ends -> 0 .. NumBuf]
    /\ armed \in [Ends -> BOOLEAN] /\ event \in [Ends -> BOOLEAN]
    /\ \A p \in Ends : /\ \A id \in Queued(p) \cup Outstanding(p) : Owner(id) = p
                       /\ \A f \in Range(stack[p]) :
                              f.at \in {"wait", "poll", "finish", "repost"}
    /\ lost \subseteq Ids

(* Memory is not freed while it is in use (rpc_cb_req_completion): a        *)
(* request is live while it is in the send list, in the device or in a      *)
(* completion that is under way; the command of an operation is live and    *)
(* its data registered while a transfer may touch them, and live while the  *)
(* peer_rdma_done that carries its address may arrive (rpc_cb_cleanup).     *)
MemoryHeld ==
    \A p \in Ends :
        /\ \A id \in Queued(p) \cup Outstanding(p) \cup Finishing(p) : Live(id)
        /\ \A w \in Range(sq[p]) :
               w.id[2] = "xfer" /\ ~w.sent =>
                   Live(Cmd(w.id)) /\ req[Cmd(w.id)].data_mr
        /\ \A id \in Arriving(p) : id[2] = "done" => Live(Cmd(id))

(* A request has one reference for its work request and, when it has data,  *)
(* one until peer_rdma_done is decoded; so it is freed, and its callback    *)
(* called, exactly when both have happened, in whatever order they do       *)
(* (rpc_prepare_buffers, rpc_post_request, rpc_cb_req_completion).          *)
References ==
    \A p \in Ends : \A id \in {i \in Ids : Owner(i) = p /\ req[i] # None} :
        LET work == id \in Outstanding(p) \cup lost
            data == HasData(id) /\ <<id[1], "done">> \notin Range(handled[p])
        IN id \notin Queued(p) =>
               /\ req[id].refcont = (IF work THEN 1 ELSE 0) + (IF data THEN 1 ELSE 0)
               /\ req[id].live <=> work \/ data \/ id \in Finishing(p)
               /\ req[id].cbs = 1 <=> ~req[id].live

(* When the callback of a request runs, its data are in place: those that   *)
(* the other end writes for rpc_receive, and those this end reads with      *)
(* rpc_receive_direct.                                                      *)
DataInPlace ==
    \A o \in Ops : \A role \in {"cmd", "xfer"} :
        /\ req[<<o, role>>] # None /\ req[<<o, role>>].cbs = 1
        /\ Kind[o] = (IF role = "cmd" THEN "pull" ELSE "push")
        => req[<<o, role>>].full

(* Commands are handled once and in the order in which rpc_send was called, *)
(* although calls of rpc_send nest, and a nested call sends what the outer  *)
(* call has put into the list (peer_process_send_list): what was issued     *)
(* before a command that is handled was handled before it, or refused.      *)
InOrder ==
    \A p \in Ends :
        LET done == handled[Other(p)]
        IN \A k \in DOMAIN done : \E j \in DOMAIN issued[p] :
               /\ done[k] = issued[p][j]
               /\ done[k] \notin lost
               /\ \A i \in 1 .. j - 1 :
                      \/ issued[p][i] \in lost
                      \/ \E m \in 1 .. k - 1 : done[m] = issued[p][i]
               /\ \A m \in 1 .. k - 1 : done[m] # done[k]

(* A completion is never left unseen: when one is in the queue, an event is *)
(* pending or rpc_process is under way and polls again (rpc_process asks    *)
(* for the next event before it polls).                                     *)
NoLostWakeup ==
    \A p \in Ends :
        cq[p] # << >> =>
            \/ event[p]
            \/ \E f \in Range(stack[p]) : f.at = "poll"

(* What is sent is delivered in order and what has completed is noticed.     *)
Delivery == InOrder /\ NoLostWakeup

(* The answer to a command is handled before rpc_send of the command has    *)
(* returned.                                                                *)
Early(p, o) ==
    /\ By[o] = p /\ <<o, "reply">> \in Range(handled[p])
    /\ stack[p] # << >> /\ stack[p][Len(stack[p])].at = "wait"
    /\ \A i \in DOMAIN issued[p] :
           issued[p][i] = <<o, "cmd">> =>
               \A j \in i + 1 .. Len(issued[p]) : issued[p][j][2] # "cmd"

(* An answer is not handled before rpc_send has returned: dcg_lock_request  *)
(* clears lock->ack after rpc_send, and would forget a grant that came      *)
(* before.  The exception is a send that a nested one has carried out, the  *)
(* peer_rdma_done of a transfer or the answer to a command that the other   *)
(* end had asked for.                                                       *)
AnswerAfterSend ==
    \A p \in Ends : \A o \in Ops :
        Early(p, o) => \E id \in Range(issued[p]) : id[2] \in {"done", "reply"}

(* peer->req_posted, by which peer_process_send_list throttles, counts the  *)
(* requests in the list and in the device.                                  *)
PostedCounts ==
    \A p \in Ends :
        posted[p] = Cardinality(Queued(p) \cup Outstanding(p))
                    + Cardinality({id \in lost : Owner(id) = p})

(* The memory and the counters of the requests are right at every moment of   *)
(* a transfer (rpc_post_request, rpc_cb_req_completion, peer_rdma_done).     *)
MemoryRight == TypeOK /\ MemoryHeld /\ References /\ PostedCounts

RolesOf(o) ==
    CASE Kind[o] = "tell" -> {"cmd"}
      [] Kind[o] = "ask" -> {"cmd", "reply"}
      [] OTHER -> {"cmd", "xfer", "done"}

Completed(o) ==
    /\ \A role \in RolesOf(o) : req[<<o, role>>] # None /\ req[<<o, role>>].cbs = 1
    /\ \A p \in Ends : num_recv[p] = NumBuf /\ stack[p] = << >>

(* Every operation completes unless the device refused a request: all its   *)
(* requests are called back and freed.  Both ends come to rest with all     *)
(* receives posted again.                                                   *)
AllComplete ==
    \A o \in Ops : req[<<o, "cmd">>] # None ~> Completed(o) \/ lost # {}
============================================================================
