---------------------------- MODULE IbRpcTheorems ---------------------------
(***************************************************************************)
(* What is proved of a connection of the InfiniBand RPC layer, for every   *)
(* set of operations, whoever starts them and of whatever kinds they are,  *)
(* every number of buffers and of rounds, and with or without clients      *)
(* among the two ends.                                                     *)
(***************************************************************************)
EXTENDS IbRpcCalls, IbRpcOrder, FiniteSetTheorems

(* While rpc_send waits, its command is still in the list; what has not     *)
(* left cannot have been answered.                                          *)
LEMMA NoEarlyAnswer ==
    ASSUME Core, Order, NotNested
    PROVE  AnswerAfterSend
  <1> SUFFICES ASSUME NEW p \in Ends, NEW o \in Ops, Early(p, o),
                      ~ \E id \in Range(issued[p]) : id[2] \in {"done", "reply"}
               PROVE  FALSE
    BY ZenonT(40) DEF AnswerAfterSend
  <1> DEFINE s == issued[p]
             c == <<o, "cmd">>
             r == <<o, "reply">>
             n == Len(s)
  <1>1. OrderOf(p) /\ s \in Seq(Ids) /\ handled[p] \in Seq(Ids)
    BY ZenonT(40) DEF Order, Core, Rest, Queues, HandledOK
  <1>2. \A x \in Ids : x[2] \in Roles
    BY DEF Ids
  <1>3. OnlyCommands(p)
    <2>1. ASSUME NEW i \in DOMAIN s PROVE s[i][2] = "cmd"
      <3> DEFINE x == s[i]
      <3>1. x \in Range(s)
        BY ZenonT(40) DEF Range
      <3>2. x[2] # "xfer" /\ x \in Ids
        BY ZenonT(40), <1>1, <3>1 DEF OrderOf, Commands
      <3>3. x[2] \in Roles /\ x[2] \notin {"done", "reply"}
        BY ZenonT(40), <1>2, <3>1, <3>2
      <3> HIDE DEF x
      <3>4. x[2] = "cmd"
        BY SMTT(30), <3>2, <3>3 DEF Roles
      <3> QED
        BY ZenonT(40), <3>4 DEF x
    <2> QED
      BY ZenonT(40), <2>1 DEF OnlyCommands
  <1>4. c \in Ids /\ r \in Ids /\ Owner(c) = By[o] /\ By[o] = p /\ c[2] # "xfer"
    BY SMTT(30) DEF Early, Ids, Roles, Owner
  <1>5. r \in Decoded
    BY ZenonT(40), <1>4 DEF Early, Decoded
  <1>6. c \in Decoded
    BY ZenonT(40), <1>5 DEF Core, Places, Stages, StageOf, Apart
  <1>7. c \in Range(s)
    BY ZenonT(40), <1>1, <1>4, <1>6 DEF OrderOf, Launched, Commands
  <1>8. PICK i \in DOMAIN s : s[i] = c
    BY ZenonT(40), <1>7 DEF Range
  <1>9. \A j \in i + 1 .. n : s[j][2] # "cmd"
    BY ZenonT(40), <1>8 DEF Early
  <1>10. i = n
    <2>1. i \in 1 .. n /\ n \in Nat /\ DOMAIN s = 1 .. n
      BY SMTT(30), <1>1
    <2> HIDE DEF n, s
    <2>2. CASE i # n
      <3>1. n \in i + 1 .. n /\ n \in DOMAIN s
        BY SMTT(30), <2>1, <2>2
      <3>2. s[n][2] = "cmd"
        BY ZenonT(40), <1>3, <3>1 DEF OnlyCommands, s
      <3> QED
        BY ZenonT(40), <1>9, <3>1, <3>2
    <2> QED
      BY SMTT(30), <2>2
  <1>11. Sends(p)
    <2>1. stack[p] # << >> /\ stack[p][Len(stack[p])].at = "wait"
      BY ZenonT(40) DEF Early
    <2>2. ASSUME Quietly(p) PROVE FALSE
      <3>1. stack[p] = <<PollFrame>>
        BY ZenonT(40), <2>1, <2>2 DEF Quietly
      <3>2. stack[p][Len(stack[p])] = PollFrame
        BY SMTT(30), <3>1
      <3> QED
        BY SMTT(30), <2>1, <3>2 DEF PollFrame
    <2> QED
      BY ZenonT(40), <1>3, <2>2 DEF NotNested, NestOf
  <1>12. req_list[p] = <<c>>
    BY ZenonT(40), <1>8, <1>10, <1>11 DEF Sends
  <1> HIDE DEF c
  <1>13. c \in Range(<<c>>)
    BY SMTT(30) DEF Range
  <1>14. c \in Listed
    BY ZenonT(40), <1>4, <1>12, <1>13 DEF Listed
  <1> QED
    BY ZenonT(40), <1>6, <1>14 DEF Core, Places, Apart

-----------------------------------------------------------------------------
(* The library's facts about finite sets.                                   *)
LEMMA FiniteSetsObey == FiniteSetFacts
<1>1. IsFiniteSet({}) /\ Cardinality({}) = 0
  BY SMTT(30), FS_EmptySet
<1>2. ASSUME NEW S, IsFiniteSet(S)
      PROVE  Cardinality(S) \in Nat
  BY SMTT(30), <1>2, FS_CardinalityType
<1>3. ASSUME NEW S, IsFiniteSet(S), NEW x
      PROVE  /\ IsFiniteSet(S \cup {x})
             /\ x \notin S => Cardinality(S \cup {x}) = Cardinality(S) + 1
             /\ IsFiniteSet(S \ {x})
             /\ x \in S => Cardinality(S \ {x}) = Cardinality(S) - 1
  BY SMTT(30), <1>3, FS_AddElement, FS_RemoveElement
<1> QED
  BY ZenonT(40), <1>1, <1>2, <1>3 DEF FiniteSetFacts

(* The invariants together: the places of the requests, the counters, the   *)
(* order of the messages, the wake-ups and the calls.                       *)
IInv == Core /\ Counts /\ Order /\ Wakeup /\ NotNested

(* IInv is an invariant.                                                    *)
LEMMA Invariant == Spec => []IInv
<1>1. Init => IInv
  BY ZenonT(40), FiniteSetsObey, InitCore, InitCounts, InitOrder, InitWakeup, InitNest DEF IInv
<1>2. IInv /\ [Next]_vars => IInv'
  BY ZenonT(40), FiniteSetsObey, CoreStep, CountsStep, OrderStep, WakeupStep, NestStep DEF IInv
<1> QED
  BY <1>1, <1>2, PTL DEF Spec

(* No request is freed while the send list, the device, a call under way or *)
(* the other end's transfer still uses it; refcont counts what refers to a  *)
(* request, so that rpc_cb_req_completion frees it exactly once, whichever  *)
(* of its completion and peer_rdma_done comes first; and req_posted and     *)
(* num_recv_buf count the sends and the receives.                           *)
THEOREM MemoryIsRight == Spec => []MemoryRight
<1>1. IInv => MemoryRight
  BY ZenonT(40), FiniteSetsObey, MemoryStep DEF IInv
<1> QED
  BY <1>1, Invariant, PTL

(* When the callback of a request runs, the data of the transfer are where  *)
(* they were meant to be (rpc_receive, rpc_receive_direct).                 *)
THEOREM DataAreInPlace == Spec => []DataInPlace
<1>1. IInv => DataInPlace
  BY ZenonT(40), FiniteSetsObey, MemoryStep DEF IInv
<1> QED
  BY <1>1, Invariant, PTL

(* Messages are handled once and in the order in which rpc_send was called  *)
(* at the other end, but for those that ibv_post_send refused, although the *)
(* calls nest (peer_process_send_list); and a completion that is not polled *)
(* has raised an event, or rpc_process has yet to find its queue empty.     *)
THEOREM DeliveryInOrder == Spec => []Delivery
<1>1. IInv => Delivery
  BY ZenonT(40), HandledInOrder, WakeupSeen DEF IInv, Delivery
<1> QED
  BY <1>1, Invariant, PTL

(* The answer to a command is not handled before the rpc_send of the        *)
(* command has returned, unless the end has answered or reported something  *)
(* itself (dcg_lock_request relies on it when it clears lock->ack).         *)
THEOREM AnswersComeAfterSends == Spec => []AnswerAfterSend
<1>1. IInv => AnswerAfterSend
  BY ZenonT(40), NoEarlyAnswer DEF IInv
<1> QED
  BY <1>1, Invariant, PTL
=============================================================================
