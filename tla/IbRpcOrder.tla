----------------------------- MODULE IbRpcOrder -----------------------------
(***************************************************************************)
(* Messages are handled in the order in which they were sent.              *)
(*                                                                         *)
(* Order follows a message from the list of its end through the send queue *)
(* and the completion queue of the other end to its handler: of two        *)
(* messages the one that was issued first is ahead at every place (Ahead), *)
(* or was refused. Calls of rpc_send nest, and a nested call sends what    *)
(* the outer one has put into the list; the order is that of the list, not *)
(* that of the calls.                                                      *)
(***************************************************************************)
EXTENDS IbRpcInv

-----------------------------------------------------------------------------
(* Order in a sequence and in a queue.                                      *)

(* x stands before y in a sequence.                                         *)
First(s, x, y) == \E i, j \in DOMAIN s : i < j /\ s[i] = x /\ s[j] = y

(* The entry of x stands before the entry of y in a queue.                  *)
FirstId(s, x, y) == \E i, j \in DOMAIN s : i < j /\ s[i].id = x /\ s[j].id = y

(* Append puts its element behind all others and keeps their order.         *)
LEMMA FirstAppend ==
    ASSUME NEW S, NEW s \in Seq(S), NEW e \in S
    PROVE  /\ \A x, y : First(s, x, y) => First(Append(s, e), x, y)
           /\ \A x \in Range(s) : First(Append(s, e), x, e)
           /\ \A x, y : First(Append(s, e), x, y) => First(s, x, y) \/ (x \in Range(s) /\ y = e)
  <1> DEFINE t == Append(s, e)
             n == Len(s) + 1
  <1>1. /\ t[n] = e /\ n \in DOMAIN t /\ n \notin DOMAIN s
        /\ \A i \in DOMAIN s : i \in DOMAIN t /\ t[i] = s[i]
        /\ \A i \in DOMAIN t : i \in DOMAIN s \/ i = n
    BY ZenonT(40), AppendAt
  <1>2. /\ \A i \in DOMAIN s : i < n /\ ~(n < i)
        /\ ~(n < n)
    BY AppendAt
  <1> HIDE DEF t, n
  <1>3. \A x, y : First(s, x, y) => First(t, x, y)
    BY ZenonT(40), <1>1 DEF First
  <1>4. \A x \in Range(s) : First(t, x, e)
    BY ZenonT(40), <1>1, <1>2 DEF First, Range
  <1>5. ASSUME NEW x, NEW y, First(t, x, y) PROVE First(s, x, y) \/ (x \in Range(s) /\ y = e)
    <2>1. PICK i, j \in DOMAIN t : i < j /\ t[i] = x /\ t[j] = y
      BY ZenonT(40), <1>5 DEF First
    <2>2. i \in DOMAIN s
      BY ZenonT(40), <1>1, <1>2, <2>1
    <2> QED
      BY ZenonT(40), <1>1, <2>1, <2>2 DEF First, Range
  <1> QED
    BY ZenonT(40), <1>3, <1>4, <1>5 DEF t

(* t is s with e at its end (a name of its own keeps the equation from      *)
(* being rewritten).                                                        *)
Grown(t, s, e) == t = Append(s, e)

(* What FirstAppend says of a sequence that has grown.                      *)
OrderGrown(t, s, e) ==
    /\ \A x, y : First(s, x, y) => First(t, x, y)
    /\ \A x \in Range(s) : First(t, x, e)
    /\ \A x, y : First(t, x, y) => First(s, x, y) \/ (x \in Range(s) /\ y = e)

(* FirstAppend for sequences of requests that have grown.                   *)
LEMMA FirstMore ==
    ASSUME NEW s \in Seq(Ids), NEW e \in Ids, NEW t, Grown(t, s, e)
    PROVE  OrderGrown(t, s, e)
  BY ZenonT(40), FirstAppend DEF Grown, OrderGrown

(* Tail keeps the order of what it leaves, and nothing stood before the     *)
(* head.                                                                    *)
LEMMA FirstTail ==
    ASSUME NEW S, NEW s \in Seq(S), s # << >>
    PROVE  /\ \A x, y : First(s, x, y) /\ x # Head(s) => First(Tail(s), x, y)
           /\ Once(s) => \A x : ~First(s, x, Head(s))
  <1> DEFINE t == Tail(s)
  <1>1. /\ 1 \in DOMAIN s /\ Head(s) = s[1] /\ DOMAIN s \subseteq Int
        /\ \A i \in DOMAIN s : i # 1 => i - 1 \in DOMAIN t /\ t[i - 1] = s[i]
        /\ \A i \in DOMAIN s : ~(i < 1)
    BY TailAt
  <1> HIDE DEF t
  <1>2. ASSUME NEW x, NEW y, First(s, x, y), x # Head(s) PROVE First(t, x, y)
    <2>1. PICK i, j \in DOMAIN s : i < j /\ s[i] = x /\ s[j] = y
      BY ZenonT(40), <1>2 DEF First
    <2>2. i # 1 /\ j # 1
      BY ZenonT(40), <1>1, <1>2, <2>1
    <2>3. i - 1 < j - 1
      BY SMTT(30), <1>1, <2>1
    <2> QED
      BY ZenonT(40), <1>1, <2>1, <2>2, <2>3 DEF First
  <1>3. Once(s) => \A x : ~First(s, x, Head(s))
    BY ZenonT(40), <1>1 DEF First, Once
  <1> QED
    BY ZenonT(40), <1>2, <1>3 DEF t

(* An entry that joins a queue is behind all others.                        *)
LEMMA FirstIdAppend ==
    ASSUME NEW S, NEW s \in Seq(S), NEW e \in S
    PROVE  /\ \A x, y : FirstId(s, x, y) => FirstId(Append(s, e), x, y)
           /\ \A i \in DOMAIN s : FirstId(Append(s, e), s[i].id, e.id)
  <1> DEFINE t == Append(s, e)
             n == Len(s) + 1
  <1>1. /\ t[n] = e /\ n \in DOMAIN t
        /\ \A i \in DOMAIN s : i \in DOMAIN t /\ t[i] = s[i]
    BY ZenonT(40), AppendAt
  <1>2. \A i \in DOMAIN s : i < n
    BY AppendAt
  <1> HIDE DEF t, n
  <1>3. \A x, y : FirstId(s, x, y) => FirstId(t, x, y)
    BY ZenonT(40), <1>1 DEF FirstId
  <1>4. \A i \in DOMAIN s : FirstId(t, s[i].id, e.id)
    BY ZenonT(40), <1>1, <1>2 DEF FirstId
  <1> QED
    BY ZenonT(40), <1>3, <1>4 DEF t

(* An entry that leaves a queue keeps the order of the others, and none was *)
(* before it.                                                               *)
LEMMA FirstIdTail ==
    ASSUME NEW S, NEW s \in Seq(S), s # << >>
    PROVE  /\ \A x, y : FirstId(s, x, y) /\ x # Head(s).id => FirstId(Tail(s), x, y)
           /\ OnceIds(s) => \A x : ~FirstId(s, x, Head(s).id)
  <1> DEFINE t == Tail(s)
  <1>1. /\ 1 \in DOMAIN s /\ Head(s) = s[1] /\ DOMAIN s \subseteq Int
        /\ \A i \in DOMAIN s : i # 1 => i - 1 \in DOMAIN t /\ t[i - 1] = s[i]
        /\ \A i \in DOMAIN s : ~(i < 1)
    BY TailAt
  <1> HIDE DEF t
  <1>2. ASSUME NEW x, NEW y, FirstId(s, x, y), x # Head(s).id PROVE FirstId(t, x, y)
    <2>1. PICK i, j \in DOMAIN s : i < j /\ s[i].id = x /\ s[j].id = y
      BY ZenonT(40), <1>2 DEF FirstId
    <2>2. i # 1 /\ j # 1
      BY ZenonT(40), <1>1, <1>2, <2>1
    <2>3. i - 1 < j - 1
      BY SMTT(30), <1>1, <2>1
    <2> QED
      BY ZenonT(40), <1>1, <2>1, <2>2, <2>3 DEF FirstId
  <1>3. OnceIds(s) => \A x : ~FirstId(s, x, Head(s).id)
    BY ZenonT(40), <1>1 DEF FirstId, OnceIds
  <1> QED
    BY ZenonT(40), <1>2, <1>3 DEF t

-----------------------------------------------------------------------------
(* The order of the messages.                                               *)

(* The messages of an end: all its requests but the transfers.              *)
Commands(e) == {x \in Ids : Owner(x) = e /\ x[2] # "xfer"}

(* The requests that were issued, wherever they are.                        *)
Launched == Listed \cup Unsent \cup lost \cup Arrived \cup Decoded

(* x, which was issued before y, is ahead of it on the way to the other     *)
(* end, or was refused.                                                     *)
Ahead(e, x, y) ==
    \/ x \in lost
    \/ /\ y \in Decoded => First(handled[Other(e)], x, y)
       /\ y \in Arrived => x \in Decoded \/ FirstId(cq[Other(e)], x, y)
       /\ y \in Unsent => \/ x \in Decoded \/ x \in Arrived
                          \/ x \in Unsent /\ FirstId(sq[e], x, y)
       /\ y \in Listed => \/ x \in Decoded \/ x \in Arrived \/ x \in Unsent
                          \/ First(req_list[e], x, y)

(* The messages of an end are on their way in the order in which they were  *)
(* issued, and each was issued, and is handled, once.                       *)
OrderOf(e) ==
    /\ Once(issued[e]) /\ Once(handled[Other(e)])
    /\ \A x : x \in Range(issued[e]) <=> x \in Launched /\ x \in Commands(e)
    /\ \A x, y : First(issued[e], x, y) => Ahead(e, x, y)

-----------------------------------------------------------------------------
(* What happens to the messages of one end.                                 *)

(* What stands in an order stands in the sequence.                          *)
LEMMA FirstMembers ==
    ASSUME NEW s, NEW x, NEW y, First(s, x, y)
    PROVE  x \in Range(s) /\ y \in Range(s)
  BY ZenonT(40) DEF First, Range

(* Two messages that were issued one after the other are ahead of each      *)
(* other on the way.                                                        *)
LEMMA IssuedPair ==
    ASSUME NEW e, OrderOf(e), NEW x, NEW y, First(issued[e], x, y)
    PROVE  x \in Commands(e) /\ y \in Commands(e) /\ x \in Launched /\ y \in Launched /\ Ahead(e, x, y)
  BY ZenonT(40), FirstMembers DEF OrderOf

(* Nothing happens to the messages of the end.                              *)
LEMMA OrderStays ==
    ASSUME NEW e, OrderOf(e),
           \A x \in Commands(e) : /\ x \in Listed' <=> x \in Listed
                                  /\ x \in Unsent' <=> x \in Unsent
                                  /\ x \in Arrived' <=> x \in Arrived
                                  /\ x \in Decoded' <=> x \in Decoded
                                  /\ x \in lost' <=> x \in lost,
           issued'[e] = issued[e], req_list'[e] = req_list[e],
           handled'[Other(e)] = handled[Other(e)],
           \A x, y \in Commands(e) : FirstId(cq[Other(e)], x, y) => FirstId(cq'[Other(e)], x, y),
           \A x, y \in Commands(e) :
               x \in Unsent /\ FirstId(sq[e], x, y) => FirstId(sq'[e], x, y)
    PROVE  OrderOf(e)'
  <1>1. ASSUME NEW x, NEW y, First(issued'[e], x, y) PROVE Ahead(e, x, y)'
    <2>1. First(issued[e], x, y)
      BY ZenonT(40), <1>1
    <2>2. x \in Commands(e) /\ y \in Commands(e) /\ Ahead(e, x, y)
      BY ZenonT(40), <2>1, IssuedPair
    <2> QED
      BY ZenonT(40), <2>2 DEF Ahead
  <1>2. \A x : x \in Range(issued'[e]) <=> x \in Launched' /\ x \in Commands(e)
    <2>1. \A x \in Commands(e) : x \in Launched' <=> x \in Launched
      BY ZenonT(40) DEF Launched
    <2> QED
      BY ZenonT(40), <2>1 DEF OrderOf
  <1>3. Once(issued'[e]) /\ Once(handled'[Other(e)])
    BY ZenonT(40) DEF OrderOf
  <1> QED
    BY ZenonT(40), <1>1, <1>2, <1>3 DEF OrderOf, Commands

(* Where a message of an end stands.                                        *)
LEMMA CommandAt ==
    ASSUME Core, NEW e \in Ends, NEW x \in Commands(e)
    PROVE  /\ x \in Listed => x \in Range(req_list[e])
           /\ x \in Unsent => \E i \in DOMAIN sq[e] : sq[e][i].id = x
           /\ x \in Arrived => \E i \in DOMAIN cq[Other(e)] : cq[Other(e)][i].id = x
           /\ x \in Decoded => x \in Range(handled[Other(e)])
  <1>1. Owner(x) = e /\ x[2] # "xfer" /\ Other(e) \in Ends /\ Other(Other(e)) = e
    BY ZenonT(40), TwoEnds DEF Commands
  <1>2. WorkOK /\ CqOK
    BY ZenonT(40) DEF Core, Queues
  <1>3. x \in Listed => x \in Range(req_list[e])
    BY ZenonT(40), <1>1, QueuedAre DEF Queued
  <1>4. x \in Unsent => \E i \in DOMAIN sq[e] : sq[e][i].id = x
    <2>1. x \in Unsent => x \in UnsentIn(sq[e])
      BY ZenonT(40), <1>1, <1>2 DEF Unsent, WorkOK
    <2> QED
      BY ZenonT(40), <2>1 DEF UnsentIn
  <1>5. x \in Arrived => \E i \in DOMAIN cq[Other(e)] : cq[Other(e)][i].id = x
    <2>1. \A q \in Ends : Other(q) = e => q = Other(e)
      BY ZenonT(40), TwoEnds
    <2>2. x \in Arrived => x \in ArrivedIn(cq[Other(e)])
      BY ZenonT(40), <1>1, <1>2, <2>1 DEF Arrived, CqOK
    <2> QED
      BY ZenonT(40), <2>2 DEF ArrivedIn
  <1>6. x \in Decoded => x \in Range(handled[Other(e)])
    BY ZenonT(40), <1>1, HandledAre
  <1> QED
    BY ZenonT(40), <1>3, <1>4, <1>5, <1>6

(* A request that does not exist is nowhere.                                *)
LEMMA NotKnownNowhere ==
    ASSUME Core, NEW x, x \notin Known
    PROVE  /\ x \notin Listed /\ x \notin Unsent /\ x \notin Arrived /\ x \notin Decoded
           /\ x \notin lost /\ x \notin Launched
  BY ZenonT(40) DEF Core, Places, Apart, InWork, Launched

(* A message is issued: it is behind all others.                            *)
LEMMA OrderIssue ==
    ASSUME Core, NEW e \in Ends, OrderOf(e), NEW id \in Commands(e), id \notin Known,
           \A x \in Commands(e) : /\ x \in Listed' <=> x \in Listed \/ x = id
                                  /\ x \in Unsent' <=> x \in Unsent
                                  /\ x \in Arrived' <=> x \in Arrived
                                  /\ x \in Decoded' <=> x \in Decoded
                                  /\ x \in lost' <=> x \in lost,
           Grown(issued'[e], issued[e], id), Grown(req_list'[e], req_list[e], id),
           handled'[Other(e)] = handled[Other(e)], cq'[Other(e)] = cq[Other(e)],
           sq'[e] = sq[e]
    PROVE  OrderOf(e)'
  <1>1. /\ issued[e] \in Seq(Ids) /\ req_list[e] \in Seq(Ids) /\ id \in Ids
    BY ZenonT(40) DEF Core, Rest, Queues, ListOK, Commands
  <1>2. OrderGrown(issued'[e], issued[e], id) /\ OrderGrown(req_list'[e], req_list[e], id)
    BY ZenonT(40), <1>1, FirstMore
  <1>3. /\ \A x, y : First(req_list[e], x, y) => First(req_list'[e], x, y)
        /\ \A x \in Range(req_list[e]) : First(req_list'[e], x, id)
        /\ \A x, y : First(issued'[e], x, y) =>
              First(issued[e], x, y) \/ (x \in Range(issued[e]) /\ y = id)
    BY ZenonT(40), <1>2 DEF OrderGrown
  <1>4. id \notin Range(issued[e]) /\ Once(issued[e])
    BY ZenonT(40), NotKnownNowhere DEF OrderOf
  <1>5. Once(issued'[e]) /\ Range(issued'[e]) = Range(issued[e]) \cup {id}
    BY ZenonT(40), <1>1, <1>4, ListAppend DEF Grown
  <1>6. \A x : x \in Range(issued'[e]) <=> x \in Launched' /\ x \in Commands(e)
    <2>1. \A x \in Commands(e) : x \in Launched' <=> x \in Launched \/ x = id
      BY ZenonT(40) DEF Launched
    <2> QED
      BY ZenonT(40), <1>5, <2>1 DEF OrderOf
  <1>7. ASSUME NEW x, NEW y, First(issued'[e], x, y) PROVE Ahead(e, x, y)'
    <2>1. First(issued[e], x, y) \/ (x \in Range(issued[e]) /\ y = id)
      BY SMTT(30), <1>3, <1>7
    <2>2. CASE First(issued[e], x, y)
      <3>1. /\ x \in Commands(e) /\ y \in Commands(e) /\ y \in Launched /\ Ahead(e, x, y)
        BY ZenonT(40), <2>2, IssuedPair
      <3>2. y # id
        BY ZenonT(40), <3>1, NotKnownNowhere
      <3>3. First(req_list[e], x, y) => First(req_list'[e], x, y)
        BY ZenonT(40), <1>3
      <3> QED
        BY ZenonT(40), <3>1, <3>2, <3>3 DEF Ahead
    <2>3. CASE x \in Range(issued[e]) /\ y = id
      <3>1. x \in Launched /\ x \in Commands(e)
        BY ZenonT(40), <2>3 DEF OrderOf
      <3>2. /\ x \in Listed \/ x \in Unsent \/ x \in lost \/ x \in Arrived \/ x \in Decoded
            /\ x \in Listed => x \in Range(req_list[e])
        BY ZenonT(40), <3>1, CommandAt DEF Launched
      <3>3. y \notin Unsent' /\ y \notin Arrived' /\ y \notin Decoded'
        BY ZenonT(40), <2>3, NotKnownNowhere
      <3>4. x \in Range(req_list[e]) => First(req_list'[e], x, y)
        BY ZenonT(40), <1>3, <2>3
      <3> QED
        BY ZenonT(40), <3>1, <3>2, <3>3, <3>4 DEF Ahead
    <2> QED
      BY SMTT(30), <2>1, <2>2, <2>3
  <1>8. Once(handled'[Other(e)])
    BY ZenonT(40) DEF OrderOf
  <1> QED
    BY ZenonT(40), <1>5, <1>6, <1>7, <1>8 DEF OrderOf, Commands

(* The first message of the list is posted or refused.                      *)
LEMMA OrderPost ==
    ASSUME Core, NEW e \in Ends, OrderOf(e), req_list[e] # << >>,
           NEW id \in Commands(e), id = Head(req_list[e]), id \in Listed,
           \A x \in Commands(e) : /\ x \in Listed' <=> x \in Listed /\ x # id
                                  /\ x \in Arrived' <=> x \in Arrived
                                  /\ x \in Decoded' <=> x \in Decoded,
           \/ /\ Unsent' = Unsent \cup {id} /\ lost' = lost
              /\ sq'[e] = Append(sq[e], [id |-> id, sent |-> FALSE])
           \/ Unsent' = Unsent /\ lost' = lost \cup {id} /\ sq'[e] = sq[e],
           issued'[e] = issued[e], req_list'[e] = Tail(req_list[e]),
           handled'[Other(e)] = handled[Other(e)], cq'[Other(e)] = cq[Other(e)]
    PROVE  OrderOf(e)'
  <1>1. /\ req_list[e] \in Seq(Ids) /\ Once(req_list[e]) /\ sq[e] \in Seq(Works)
    BY ZenonT(40) DEF Core, Queues, ListOK, WorkOK
  <1>2. /\ \A x, y : First(req_list[e], x, y) /\ x # id => First(req_list'[e], x, y)
        /\ \A x : ~First(req_list[e], x, id)
    <2> DEFINE h == Head(req_list[e])
               t == Tail(req_list[e])
    <2>1. /\ \A x, y : First(req_list[e], x, y) /\ x # h => First(t, x, y)
          /\ \A x : ~First(req_list[e], x, h)
      BY ZenonT(40), <1>1, FirstTail
    <2>2. h = id /\ t = req_list'[e]
      OBVIOUS
    <2> HIDE DEF h, t
    <2> QED
      BY ZenonT(40), <2>1, <2>2
  <1> DEFINE w == [id |-> id, sent |-> FALSE]
  <1>3. w \in Works /\ w.id = id
    BY DEF Works, Commands
  <1> HIDE DEF w
  <1>4. \/ Unsent' = Unsent \cup {id} /\ lost' = lost /\ sq'[e] = Append(sq[e], w)
        \/ Unsent' = Unsent /\ lost' = lost \cup {id} /\ sq'[e] = sq[e]
    BY ZenonT(40) DEF w
  <1>5. \A x, y : FirstId(sq[e], x, y) => FirstId(sq'[e], x, y)
    BY ZenonT(40), <1>1, <1>3, <1>4, FirstIdAppend
  <1>6. ASSUME NEW x \in Commands(e), x \in Unsent, id \in Unsent', id \notin Unsent
        PROVE  FirstId(sq'[e], x, id)
    <2>1. sq'[e] = Append(sq[e], w)
      BY ZenonT(40), <1>4, <1>6
    <2>2. PICK i \in DOMAIN sq[e] : sq[e][i].id = x
      BY ZenonT(40), <1>6, CommandAt
    <2> QED
      BY ZenonT(40), <1>1, <1>3, <2>1, <2>2, FirstIdAppend
  <1>7. id \notin Unsent /\ id \notin Arrived /\ id \notin Decoded
    BY ZenonT(40) DEF Core, Places, Apart, InWork
  <1>8. ASSUME NEW x, NEW y, First(issued'[e], x, y) PROVE Ahead(e, x, y)'
    <2>1. First(issued[e], x, y)
      BY ZenonT(40), <1>8
    <2>2. /\ x \in Commands(e) /\ y \in Commands(e) /\ Ahead(e, x, y)
      BY ZenonT(40), <2>1, IssuedPair
    <2>3. CASE x \in lost \/ x \in lost'
      BY ZenonT(40), <1>4, <2>3 DEF Ahead
    <2>4. CASE x \notin lost /\ x \notin lost'
      <3>1. x = id => x \in Unsent'
        BY ZenonT(40), <1>4, <2>4
      <3>2. x \in Unsent => x \in Unsent'
        BY ZenonT(40), <1>4
      <3>3. y \in Decoded' => First(handled'[Other(e)], x, y)
        BY ZenonT(40), <2>2, <2>4 DEF Ahead
      <3>4. y \in Arrived' => x \in Decoded' \/ FirstId(cq'[Other(e)], x, y)
        BY ZenonT(40), <2>2, <2>4 DEF Ahead
      <3>5. ASSUME y \in Unsent'
            PROVE  x \in Decoded' \/ x \in Arrived' \/ (x \in Unsent' /\ FirstId(sq'[e], x, y))
        <4>1. CASE y = id
          <5>1. x \in Decoded \/ x \in Arrived \/ x \in Unsent
            BY ZenonT(40), <1>2, <2>2, <2>4, <4>1 DEF Ahead
          <5>2. x \in Unsent => FirstId(sq'[e], x, y)
            BY ZenonT(40), <1>6, <1>7, <2>2, <3>5, <4>1
          <5> QED
            BY ZenonT(40), <2>2, <3>2, <5>1, <5>2
        <4>2. CASE y # id
          <5>1. y \in Unsent
            BY ZenonT(40), <1>4, <3>5, <4>2
          <5> QED
            BY ZenonT(40), <1>5, <2>2, <2>4, <3>2, <5>1 DEF Ahead
        <4> QED
          BY SMTT(30), <4>1, <4>2
      <3>6. ASSUME y \in Listed'
            PROVE  x \in Decoded' \/ x \in Arrived' \/ x \in Unsent' \/ First(req_list'[e], x, y)
        <4>1. y \in Listed
          BY ZenonT(40), <2>2, <3>6
        <4> QED
          BY ZenonT(40), <1>2, <2>2, <2>4, <3>1, <3>2, <4>1 DEF Ahead
      <3> QED
        BY ZenonT(40), <3>3, <3>4, <3>5, <3>6 DEF Ahead
    <2> QED
      BY SMTT(30), <2>3, <2>4
  <1>9. \A x : x \in Range(issued'[e]) <=> x \in Launched' /\ x \in Commands(e)
    <2>1. \A x \in Commands(e) : x \in Launched' <=> x \in Launched
      BY ZenonT(40) DEF Launched
    <2> QED
      BY ZenonT(40), <2>1 DEF OrderOf
  <1>10. Once(issued'[e]) /\ Once(handled'[Other(e)])
    BY ZenonT(40) DEF OrderOf
  <1> QED
    BY ZenonT(40), <1>8, <1>9, <1>10 DEF OrderOf, Commands

(* A message reaches the other end: all that were posted before it did.     *)
LEMMA OrderArrive ==
    ASSUME Core, NEW e \in Ends, OrderOf(e), NEW id \in Commands(e), id \in Unsent,
           \A x \in Commands(e) : /\ x \in Listed' <=> x \in Listed
                                  /\ x \in Unsent' <=> x \in Unsent /\ x # id
                                  /\ x \in Arrived' <=> x \in Arrived \/ x = id
                                  /\ x \in Decoded' <=> x \in Decoded
                                  /\ x \in lost' <=> x \in lost,
           issued'[e] = issued[e], req_list'[e] = req_list[e],
           handled'[Other(e)] = handled[Other(e)],
           cq'[Other(e)] = Append(cq[Other(e)], [recv |-> TRUE, id |-> id]),
           \A x, y : FirstId(sq[e], x, y) => FirstId(sq'[e], x, y),
           \A x \in Unsent : ~FirstId(sq[e], x, id)
    PROVE  OrderOf(e)'
  <1> DEFINE c == [recv |-> TRUE, id |-> id]
             q == Other(e)
  <1>1. c \in Completions /\ c.id = id
    BY DEF Completions, Commands
  <1>2. cq[q] \in Seq(Completions) /\ cq'[q] = Append(cq[q], c)
    BY ZenonT(40), TwoEnds DEF Core, Queues, CqOK
  <1> HIDE DEF c
  <1>3. \A x, y : FirstId(cq[q], x, y) => FirstId(cq'[q], x, y)
    BY ZenonT(40), <1>1, <1>2, FirstIdAppend
  <1>4. ASSUME NEW x \in Commands(e), x \in Arrived PROVE FirstId(cq'[q], x, id)
    <2>1. PICK i \in DOMAIN cq[q] : cq[q][i].id = x
      BY ZenonT(40), <1>4, CommandAt
    <2> QED
      BY ZenonT(40), <1>1, <1>2, <2>1, FirstIdAppend
  <1>5. ASSUME NEW x, NEW y, First(issued'[e], x, y) PROVE Ahead(e, x, y)'
    <2>1. First(issued[e], x, y)
      BY ZenonT(40), <1>5
    <2>2. /\ x \in Commands(e) /\ y \in Commands(e) /\ Ahead(e, x, y)
      BY ZenonT(40), <2>1, IssuedPair
    <2>3. CASE x \in lost
      BY ZenonT(40), <2>2, <2>3 DEF Ahead
    <2>4. CASE x \notin lost
      <3>1. x \in Unsent => x \in Unsent' \/ x \in Arrived'
        BY ZenonT(40), <2>2
      <3>2. y \in Decoded' => First(handled'[q], x, y)
        BY ZenonT(40), <2>2, <2>4 DEF Ahead
      <3>3. ASSUME y \in Arrived' PROVE x \in Decoded' \/ FirstId(cq'[q], x, y)
        <4>1. CASE y = id
          <5>1. x \in Decoded \/ x \in Arrived
            BY ZenonT(40), <2>2, <2>4, <4>1 DEF Ahead
          <5> QED
            BY ZenonT(40), <1>4, <2>2, <4>1, <5>1
        <4>2. CASE y # id
          BY ZenonT(40), <1>3, <2>2, <2>4, <3>3, <4>2 DEF Ahead
        <4> QED
          BY SMTT(30), <4>1, <4>2
      <3>4. ASSUME y \in Unsent'
            PROVE  x \in Decoded' \/ x \in Arrived' \/ (x \in Unsent' /\ FirstId(sq'[e], x, y))
        <4>1. y \in Unsent
          BY ZenonT(40), <2>2, <3>4
        <4> QED
          BY ZenonT(40), <2>2, <2>4, <3>1, <4>1 DEF Ahead
      <3>5. ASSUME y \in Listed'
            PROVE  x \in Decoded' \/ x \in Arrived' \/ x \in Unsent' \/ First(req_list'[e], x, y)
        BY ZenonT(40), <2>2, <2>4, <3>1, <3>5 DEF Ahead
      <3> QED
        BY ZenonT(40), <3>2, <3>3, <3>4, <3>5 DEF Ahead
    <2> QED
      BY SMTT(30), <2>3, <2>4
  <1>6. \A x : x \in Range(issued'[e]) <=> x \in Launched' /\ x \in Commands(e)
    <2>1. \A x \in Commands(e) : x \in Launched' <=> x \in Launched
      BY ZenonT(40) DEF Launched
    <2> QED
      BY ZenonT(40), <2>1 DEF OrderOf
  <1>7. Once(issued'[e]) /\ Once(handled'[Other(e)])
    BY ZenonT(40) DEF OrderOf
  <1> QED
    BY ZenonT(40), <1>5, <1>6, <1>7 DEF OrderOf, Commands

(* The oldest message in the completion queue is decoded by the other end.  *)
LEMMA OrderDecode ==
    ASSUME Core, NEW e \in Ends, OrderOf(e), NEW id \in Commands(e), id \in Arrived,
           \A x \in Commands(e) : /\ x \in Listed' <=> x \in Listed
                                  /\ x \in Unsent' <=> x \in Unsent
                                  /\ x \in Arrived' <=> x \in Arrived /\ x # id
                                  /\ x \in Decoded' <=> x \in Decoded \/ x = id
                                  /\ x \in lost' <=> x \in lost,
           issued'[e] = issued[e], req_list'[e] = req_list[e],
           cq[Other(e)] # << >>, id = Head(cq[Other(e)]).id,
           cq'[Other(e)] = Tail(cq[Other(e)]),
           Grown(handled'[Other(e)], handled[Other(e)], id),
           sq'[e] = sq[e]
    PROVE  OrderOf(e)'
  <1> DEFINE q == Other(e)
  <1>1. /\ cq[q] \in Seq(Completions) /\ OnceIds(cq[q]) /\ handled[q] \in Seq(Ids) /\ id \in Ids
    BY ZenonT(40), TwoEnds DEF Core, Queues, CqOK, HandledOK, Commands
  <1>2. /\ \A x, y : FirstId(cq[q], x, y) /\ x # id => FirstId(cq'[q], x, y)
        /\ \A x : ~FirstId(cq[q], x, id)
    <2> DEFINE h == Head(cq[q]).id
               t == Tail(cq[q])
    <2>1. cq[q] # << >> /\ h = id /\ t = cq'[q]
      BY ZenonT(40)
    <2> HIDE DEF q
    <2>2. /\ \A x, y : FirstId(cq[q], x, y) /\ x # h => FirstId(t, x, y)
          /\ \A x : ~FirstId(cq[q], x, h)
      BY ZenonT(40), <1>1, <2>1, FirstIdTail
    <2> HIDE DEF h, t
    <2> QED
      BY ZenonT(40), <2>1, <2>2
  <1>3. /\ \A x, y : First(handled[q], x, y) => First(handled'[q], x, y)
        /\ \A x \in Range(handled[q]) : First(handled'[q], x, id)
    <2>1. OrderGrown(handled'[q], handled[q], id)
      BY ZenonT(40), <1>1, FirstMore
    <2> QED
      BY ZenonT(40), <2>1 DEF OrderGrown
  <1>4. id \notin Range(handled[q])
    <2>1. id \notin Decoded
      BY ZenonT(40) DEF Core, Places, Apart
    <2>2. q \in Ends
      BY ZenonT(40), TwoEnds
    <2> QED
      BY ZenonT(40), <2>1, <2>2, HandledAre
  <1>5. Once(handled'[q])
    <2>1. Once(handled[q])
      BY ZenonT(40) DEF OrderOf
    <2> QED
      BY ZenonT(40), <1>1, <1>4, <2>1, ListAppend DEF Grown
  <1>6. ASSUME NEW x, NEW y, First(issued'[e], x, y) PROVE Ahead(e, x, y)'
    <2>1. First(issued[e], x, y)
      BY ZenonT(40), <1>6
    <2>2. /\ x \in Commands(e) /\ y \in Commands(e) /\ Ahead(e, x, y)
      BY ZenonT(40), <2>1, IssuedPair
    <2>3. CASE x \in lost
      BY ZenonT(40), <2>2, <2>3 DEF Ahead
    <2>4. CASE x \notin lost
      <3>1. x \in Arrived => x \in Decoded' \/ x \in Arrived'
        BY ZenonT(40), <2>2
      <3>2. ASSUME y \in Decoded' PROVE First(handled'[q], x, y)
        <4>1. CASE y = id
          <5>1. x \in Decoded
            BY ZenonT(40), <1>2, <2>2, <2>4, <4>1 DEF Ahead
          <5>2. x \in Range(handled[q])
            BY ZenonT(40), <2>2, <5>1, CommandAt
          <5> QED
            BY ZenonT(40), <1>3, <4>1, <5>2
        <4>2. CASE y # id
          BY ZenonT(40), <1>3, <2>2, <2>4, <3>2, <4>2 DEF Ahead
        <4> QED
          BY SMTT(30), <4>1, <4>2
      <3>3. ASSUME y \in Arrived' PROVE x \in Decoded' \/ FirstId(cq'[q], x, y)
        BY ZenonT(40), <1>2, <2>2, <2>4, <3>3 DEF Ahead
      <3>4. ASSUME y \in Unsent'
            PROVE  x \in Decoded' \/ x \in Arrived' \/ (x \in Unsent' /\ FirstId(sq'[e], x, y))
        BY ZenonT(40), <2>2, <2>4, <3>1, <3>4 DEF Ahead
      <3>5. ASSUME y \in Listed'
            PROVE  x \in Decoded' \/ x \in Arrived' \/ x \in Unsent' \/ First(req_list'[e], x, y)
        BY ZenonT(40), <2>2, <2>4, <3>1, <3>5 DEF Ahead
      <3> QED
        BY ZenonT(40), <3>2, <3>3, <3>4, <3>5 DEF Ahead
    <2> QED
      BY SMTT(30), <2>3, <2>4
  <1>7. \A x : x \in Range(issued'[e]) <=> x \in Launched' /\ x \in Commands(e)
    <2>1. \A x \in Commands(e) : x \in Launched' <=> x \in Launched
      BY ZenonT(40) DEF Launched
    <2> QED
      BY ZenonT(40), <2>1 DEF OrderOf
  <1>8. Once(issued'[e])
    BY ZenonT(40) DEF OrderOf
  <1> QED
    BY ZenonT(40), <1>5, <1>6, <1>7, <1>8 DEF OrderOf, Commands

(* The messages of both ends are on their way in order.                     *)
Order == \A e \in Ends : OrderOf(e)

-----------------------------------------------------------------------------
(* The steps.                                                               *)

(* What happens at one end leaves the messages of the other end as they     *)
(* are.                                                                     *)
LEMMA OtherOrder ==
    ASSUME Order, NEW p \in Ends, NEW q \in Ends, q # p,
           \A x \in Commands(q) : /\ x \in Listed' <=> x \in Listed
                                  /\ x \in Unsent' <=> x \in Unsent
                                  /\ x \in Arrived' <=> x \in Arrived
                                  /\ x \in Decoded' <=> x \in Decoded
                                  /\ x \in lost' <=> x \in lost,
           issued'[q] = issued[q], req_list'[q] = req_list[q], sq'[q] = sq[q],
           handled'[p] = handled[p],
           \A x, y \in Commands(q) : FirstId(cq[p], x, y) => FirstId(cq'[p], x, y)
    PROVE  OrderOf(q)'
  <1>1. p = Other(q) /\ OrderOf(q)
    BY ZenonT(40), TwoEnds DEF Order
  <1>2. \A x, y \in Commands(q) : x \in Unsent /\ FirstId(sq[q], x, y) => FirstId(sq'[q], x, y)
    BY ZenonT(40)
  <1>3. /\ handled'[Other(q)] = handled[Other(q)]
        /\ \A x, y \in Commands(q) :
               FirstId(cq[Other(q)], x, y) => FirstId(cq'[Other(q)], x, y)
    BY ZenonT(40), <1>1
  <1> QED
    BY ZenonT(40), <1>1, <1>2, <1>3, OrderStays

(* A step at one end leaves its own messages as they are when it keeps the  *)
(* order of its work requests.                                              *)
LEMMA OwnOrder ==
    ASSUME Order, NEW p \in Ends, NEW q \in Ends, q # p,
           \A x \in Commands(p) : /\ x \in Listed' <=> x \in Listed
                                  /\ x \in Unsent' <=> x \in Unsent
                                  /\ x \in Arrived' <=> x \in Arrived
                                  /\ x \in Decoded' <=> x \in Decoded
                                  /\ x \in lost' <=> x \in lost,
           issued'[p] = issued[p], req_list'[p] = req_list[p],
           handled'[q] = handled[q], cq'[q] = cq[q],
           \A x, y \in Commands(p) :
               x \in Unsent /\ FirstId(sq[p], x, y) => FirstId(sq'[p], x, y)
    PROVE  OrderOf(p)'
  <1>1. q = Other(p) /\ OrderOf(p)
    BY ZenonT(40), TwoEnds DEF Order
  <1>2. /\ handled'[Other(p)] = handled[Other(p)]
        /\ \A x, y \in Commands(p) :
               FirstId(cq[Other(p)], x, y) => FirstId(cq'[Other(p)], x, y)
    BY ZenonT(40), <1>1
  <1> QED
    BY ZenonT(40), <1>1, <1>2, OrderStays

(* The ends are taken one by one.                                           *)
LEMMA BothOrders ==
    ASSUME NEW p \in Ends, OrderOf(p)', \A q \in Ends : q # p => OrderOf(q)'
    PROVE  Order'
  BY ZenonT(40) DEF Order

(* A step that changes no queue keeps the order.                            *)
LEMMA QuietOrder ==
    ASSUME Order, UNCHANGED <<req_list, sq, cq, issued, handled, lost>>
    PROVE  Order'
  <1>1. /\ Listed' = Listed /\ Unsent' = Unsent /\ Arrived' = Arrived /\ Decoded' = Decoded
    BY ZenonT(40) DEF Listed, Unsent, Arrived, Decoded
  <1>2. ASSUME NEW q \in Ends PROVE OrderOf(q)'
    <2>1. OrderOf(q)
      BY ZenonT(40) DEF Order
    <2> QED
      BY ZenonT(40), <1>1, <2>1, OrderStays
  <1> QED
    BY ZenonT(40), <1>2 DEF Order

(* A handler or the application issues a message.                           *)
LEMMA IssueOrder ==
    ASSUME Core, Order, NEW p \in Ends, NEW id \in Ids, Owner(id) = p, id[2] # "xfer",
           id \notin Known, Listed' = Listed \cup {id}, Unsent' = Unsent, lost' = lost,
           \A x \in Commands(p) : /\ x \in Arrived' <=> x \in Arrived
                                  /\ x \in Decoded' <=> x \in Decoded,
           issued' = [issued EXCEPT ![p] = Append(@, id)],
           req_list' = [req_list EXCEPT ![p] = Append(@, id)], sq' = sq,
           \A q \in Ends : q # p => cq'[q] = cq[q] /\ handled'[q] = handled[q]
    PROVE  OrderOf(p)'
  <1>1. id \in Commands(p) /\ OrderOf(p) /\ Other(p) \in Ends /\ Other(p) # p
    BY ZenonT(40), TwoEnds DEF Commands, Order
  <1>2. issued \in [Ends -> Seq(Ids)] /\ req_list \in [Ends -> Seq(Ids)]
    BY ZenonT(40) DEF Core, Rest, Queues, ListOK
  <1>3. Grown(issued'[p], issued[p], id) /\ Grown(req_list'[p], req_list[p], id)
    BY ZenonT(40), <1>2 DEF Grown
  <1>4. /\ handled'[Other(p)] = handled[Other(p)] /\ cq'[Other(p)] = cq[Other(p)]
        /\ sq'[p] = sq[p]
    BY ZenonT(40), <1>1
  <1>5. \A x \in Commands(p) : /\ x \in Listed' <=> x \in Listed \/ x = id
                               /\ x \in Unsent' <=> x \in Unsent
                               /\ x \in Arrived' <=> x \in Arrived
                               /\ x \in Decoded' <=> x \in Decoded
                               /\ x \in lost' <=> x \in lost
    BY ZenonT(40)
  <1> QED
    BY ZenonT(40), <1>1, <1>3, <1>4, <1>5, OrderIssue

(* A completion is added to one queue: the order of the others stays.       *)
LEMMA CqMore ==
    ASSUME CqOK, NEW p \in Ends, NEW c \in Completions, cq' = [cq EXCEPT ![p] = Append(@, c)]
    PROVE  /\ \A x, y : FirstId(cq[p], x, y) => FirstId(cq'[p], x, y)
           /\ cq'[p] = Append(cq[p], c) /\ \A q \in Ends : q # p => cq'[q] = cq[q]
  <1>1. cq[p] \in Seq(Completions) /\ cq'[p] = Append(cq[p], c)
    BY ZenonT(40) DEF CqOK
  <1>2. \A q \in Ends : q # p => cq'[q] = cq[q]
    BY ZenonT(40) DEF CqOK
  <1> DEFINE t == Append(cq[p], c)
  <1>3. \A x, y : FirstId(cq[p], x, y) => FirstId(t, x, y)
    BY ZenonT(40), <1>1, FirstIdAppend
  <1>4. cq'[p] = t
    BY ZenonT(40), <1>1
  <1> HIDE DEF t
  <1> QED
    BY ZenonT(40), <1>1, <1>2, <1>3, <1>4

(* A completion is polled: the order of the others stays.                   *)
LEMMA CqLess ==
    ASSUME CqOK, NEW p \in Ends, cq[p] # << >>, cq' = [cq EXCEPT ![p] = Tail(@)]
    PROVE  /\ \A x, y : FirstId(cq[p], x, y) /\ x # Head(cq[p]).id => FirstId(cq'[p], x, y)
           /\ cq'[p] = Tail(cq[p]) /\ \A q \in Ends : q # p => cq'[q] = cq[q]
  <1>1. cq[p] \in Seq(Completions) /\ cq'[p] = Tail(cq[p])
    BY ZenonT(40) DEF CqOK
  <1>2. \A q \in Ends : q # p => cq'[q] = cq[q]
    BY ZenonT(40) DEF CqOK
  <1> DEFINE t == Tail(cq[p])
  <1>3. \A x, y : FirstId(cq[p], x, y) /\ x # Head(cq[p]).id => FirstId(t, x, y)
    BY ZenonT(40), <1>1, FirstIdTail
  <1>4. cq'[p] = t
    BY ZenonT(40), <1>1
  <1> HIDE DEF t
  <1> QED
    BY ZenonT(40), <1>1, <1>2, <1>3, <1>4

(* SendCommand keeps the order.                                             *)
LEMMA CommandOrder ==
    ASSUME Core, Order, NEW p \in Ends, NEW o \in todo, SendCommand(p, o)
    PROVE  Order'
  <1> DEFINE id == <<o, "cmd">>
  <1>1. /\ id \in Ids /\ Owner(id) = p /\ id \notin Known
        /\ Listed' = Listed \cup {id} /\ Unsent' = Unsent
        /\ Arrived' = Arrived /\ Decoded' = Decoded
    BY ZenonT(40), CommandSets
  <1>2. id[2] # "xfer"
    OBVIOUS
  <1>3. /\ issued' = [issued EXCEPT ![p] = Append(@, id)]
        /\ req_list' = [req_list EXCEPT ![p] = Append(@, id)]
        /\ sq' = sq /\ cq' = cq /\ handled' = handled /\ lost' = lost
    BY ZenonT(40) DEF SendCommand, Enqueue, device
  <1> HIDE DEF id
  <1>4. OrderOf(p)'
    BY ZenonT(40), <1>1, <1>2, <1>3, IssueOrder
  <1>5. ASSUME NEW q \in Ends, q # p PROVE OrderOf(q)'
    <2>1. \A x \in Commands(q) : x # id
      BY ZenonT(40), <1>1, <1>5 DEF Commands
    <2>2. issued'[q] = issued[q] /\ req_list'[q] = req_list[q]
      BY ZenonT(40), <1>3, <1>5 DEF Core, Rest, Queues, ListOK
    <2> QED
      BY ZenonT(40), <1>1, <1>3, <1>5, <2>1, <2>2, OtherOrder
  <1> QED
    BY ZenonT(40), <1>4, <1>5, BothOrders

(* ibv_post_send puts the request behind all others, or refuses it.         *)
LEMMA PostSendOrder ==
    ASSUME WorkOK, NEW p \in Ends, NEW id \in Ids, Owner(id) = p,
           id \notin Unsent, id \notin Sent, PostSend(p, id)
    PROVE  /\ \A q \in Ends : q # p => sq'[q] = sq[q]
           /\ \/ /\ Unsent' = Unsent \cup {id} /\ lost' = lost
                 /\ sq'[p] = Append(sq[p], [id |-> id, sent |-> FALSE])
              \/ Unsent' = Unsent /\ lost' = lost \cup {id} /\ sq'[p] = sq[p]
  <1>1. CASE Cardinality(InDevice(p)) >= NumBuf
    <2>1. lost' = lost \cup {id} /\ sq' = sq
      BY ZenonT(40), <1>1 DEF PostSend
    <2>2. Unsent' = Unsent
      BY ZenonT(40), <2>1, SameWork
    <2> QED
      BY ZenonT(40), <2>1, <2>2
  <1>2. CASE ~(Cardinality(InDevice(p)) >= NumBuf)
    <2> DEFINE w == [id |-> id, sent |-> FALSE]
    <2>1. lost' = lost /\ sq' = [sq EXCEPT ![p] = Append(@, w)]
      BY ZenonT(40), <1>2 DEF PostSend
    <2>2. Unsent' = Unsent \cup {id}
      BY ZenonT(40), <2>1, WorkAdd
    <2> HIDE DEF w
    <2>3. sq'[p] = Append(sq[p], w) /\ \A q \in Ends : q # p => sq'[q] = sq[q]
      BY ZenonT(40), <2>1 DEF WorkOK
    <2> QED
      BY ZenonT(40), <2>1, <2>2, <2>3 DEF w
  <1> QED
    BY SMTT(30), <1>1, <1>2

(* peer_process_send_list keeps the order.                                  *)
LEMMA SendOrder ==
    ASSUME Core, Order, NEW p \in Ends, SendHead(p)
    PROVE  Order'
  <1>1. CASE req_list[p] = << >>
    <2>1. UNCHANGED <<req_list, sq, cq, issued, handled, lost>>
      BY ZenonT(40), <1>1 DEF SendHead
    <2> QED
      BY ZenonT(40), <2>1, QuietOrder
  <1>2. CASE req_list[p] # << >>
    <2> DEFINE id == Head(req_list[p])
    <2>1. id = Head(req_list[p])
      OBVIOUS
    <2> HIDE DEF id
    <2>2. /\ id \in Listed /\ Owner(id) = p /\ Listed' = Listed \ {id}
          /\ Arrived' = Arrived /\ Decoded' = Decoded
      BY ZenonT(40), <1>2, <2>1, SendSets
    <2>3. /\ PostSend(p, id) /\ req_list' = [req_list EXCEPT ![p] = Tail(@)]
          /\ UNCHANGED <<cq, issued, handled>>
      BY ZenonT(40), <1>2, <2>1 DEF SendHead
    <2>4. /\ req_list'[p] = Tail(req_list[p])
          /\ \A q \in Ends : q # p => req_list'[q] = req_list[q]
      BY ZenonT(40), <2>3 DEF Core, Queues, ListOK
    <2>5. id \in Commands(p) /\ id \notin Unsent /\ id \notin Sent /\ id \in Ids
      <3>1. id \in Ids /\ id[2] # "xfer"
        BY ZenonT(40), <2>2 DEF Listed, Core, Places, Stages
      <3> QED
        BY ZenonT(40), <2>2, <3>1 DEF Commands, Core, Places, Apart, InWork
    <2>6. /\ \A q \in Ends : q # p => sq'[q] = sq[q]
          /\ \/ /\ Unsent' = Unsent \cup {id} /\ lost' = lost
                /\ sq'[p] = Append(sq[p], [id |-> id, sent |-> FALSE])
             \/ Unsent' = Unsent /\ lost' = lost \cup {id} /\ sq'[p] = sq[p]
      BY ZenonT(40), <2>2, <2>3, <2>5, PostSendOrder DEF Core, Queues
    <2>7. OrderOf(p)'
      <3>1. OrderOf(p) /\ Other(p) \in Ends
        BY ZenonT(40), TwoEnds DEF Order
      <3>2. /\ issued'[p] = issued[p] /\ handled'[Other(p)] = handled[Other(p)]
            /\ cq'[Other(p)] = cq[Other(p)]
        BY ZenonT(40), <2>3
      <3>3. \A x \in Commands(p) : /\ x \in Listed' <=> x \in Listed /\ x # id
                                   /\ x \in Arrived' <=> x \in Arrived
                                   /\ x \in Decoded' <=> x \in Decoded
        BY ZenonT(40), <2>2
      <3> QED
        BY ZenonT(40), <1>2, <2>1, <2>2, <2>4, <2>5, <2>6, <3>1, <3>2, <3>3, OrderPost
    <2>8. ASSUME NEW q \in Ends, q # p PROVE OrderOf(q)'
      <3>1. \A x \in Commands(q) : x # id
        BY ZenonT(40), <2>2, <2>8 DEF Commands
      <3>2. \A x \in Commands(q) : /\ x \in Listed' <=> x \in Listed
                                   /\ x \in Unsent' <=> x \in Unsent
                                   /\ x \in lost' <=> x \in lost
        BY ZenonT(40), <2>2, <2>6, <3>1
      <3> QED
        BY ZenonT(40), <2>2, <2>3, <2>4, <2>6, <2>8, <3>2, OtherOrder
    <2> QED
      BY ZenonT(40), <2>7, <2>8, BothOrders
  <1> QED
    BY SMTT(30), <1>1, <1>2

(* A work request that takes effect stays where it is in the send queue.    *)
LEMMA SentFirst ==
    ASSUME WorkOK, NEW p \in Ends, NEW i \in DOMAIN sq[p], sq' = [sq EXCEPT ![p][i].sent = TRUE]
    PROVE  /\ \A x, y : FirstId(sq[p], x, y) => FirstId(sq'[p], x, y)
           /\ \A q \in Ends : q # p => sq'[q] = sq[q]
  <1>1. sq \in [Ends -> Seq(Works)] /\ sq[p] \in Seq(Works)
    BY ZenonT(40) DEF WorkOK
  <1>2. \A q \in Ends : q # p => sq'[q] = sq[q]
    BY ZenonT(40), <1>1
  <1> DEFINE s == sq[p]
             t == [s EXCEPT ![i].sent = TRUE]
  <1>3. sq'[p] = t
    BY SMTT(30), <1>1
  <1>4. s \in Seq(Works) /\ i \in DOMAIN s /\ s = sq[p]
    BY SMTT(30), <1>1
  <1> HIDE DEF s
  <1>5. DOMAIN t = DOMAIN s /\ \A k \in DOMAIN s : t[k].id = s[k].id
    BY SMTT(30), <1>4 DEF Works
  <1> HIDE DEF t
  <1>6. \A x, y : FirstId(s, x, y) => FirstId(t, x, y)
    BY ZenonT(40), <1>5 DEF FirstId
  <1> QED
    BY ZenonT(40), <1>2, <1>3, <1>4, <1>6

(* All that was posted before a work request that takes effect has taken    *)
(* effect.                                                                  *)
LEMMA NoneUnsentBefore ==
    ASSUME Core, NEW p \in Ends, NEW i \in DOMAIN sq[p], \A j \in 1 .. i - 1 : sq[p][j].sent
    PROVE  \A x \in Unsent : ~FirstId(sq[p], x, sq[p][i].id)
  <1> SUFFICES ASSUME NEW x \in Unsent, FirstId(sq[p], x, sq[p][i].id)
               PROVE  FALSE
    OBVIOUS
  <1>1. sq[p] \in Seq(Works) /\ OnceIds(sq[p])
    BY ZenonT(40) DEF Core, Queues, WorkOK
  <1>2. PICK a, b \in DOMAIN sq[p] : a < b /\ sq[p][a].id = x /\ sq[p][b].id = sq[p][i].id
    BY ZenonT(40) DEF FirstId
  <1>3. b = i
    BY ZenonT(40), <1>1, <1>2 DEF OnceIds
  <1>4. a \in 1 .. i - 1
    BY SMTT(30), <1>1, <1>2, <1>3
  <1>5. sq[p][a].sent /\ a \in DOMAIN sq[p]
    BY ZenonT(40), <1>2, <1>4
  <1>6. x \in Sent
    <2>1. x \in Ids
      BY ZenonT(40) DEF Unsent
    <2> DEFINE s == sq[p]
    <2>2. a \in DOMAIN s /\ s[a].id = x /\ s[a].sent
      BY ZenonT(40), <1>2, <1>5
    <2>3. s = sq[p]
      OBVIOUS
    <2> HIDE DEF s
    <2>4. x \in SentIn(s)
      BY ZenonT(40), <2>1, <2>2 DEF SentIn
    <2>5. x \in SentIn(sq[p])
      BY ZenonT(40), <2>3, <2>4
    <2> QED
      BY ZenonT(40), <2>1, <2>5 DEF Sent
  <1> QED
    BY ZenonT(40), <1>6 DEF Core, Places, Apart

(* A work request that takes effect keeps the order.                        *)
LEMMA TransmitOrder ==
    ASSUME Core, Order, NEW p \in Ends, Transmit(p)
    PROVE  Order'
  <1>1. PICK i \in DOMAIN sq[p] :
          LET id == sq[p][i].id
          IN /\ ~sq[p][i].sent /\ \A j \in 1 .. i - 1 : sq[p][j].sent
             /\ sq' = [sq EXCEPT ![p][i].sent = TRUE]
             /\ IF id[2] = "xfer"
                THEN UNCHANGED <<cq, armed, event, num_recv>>
                ELSE /\ num_recv' = [num_recv EXCEPT ![Other(p)] = @ - 1]
                     /\ num_recv[Other(p)] > 0
                     /\ cq' = Complete(cq, Other(p), [recv |-> TRUE, id |-> id])
                     /\ Raise(Other(p))
             /\ UNCHANGED <<todo, req_list, posted, stack, issued, handled, lost>>
    BY ZenonT(40) DEF Transmit
  <1> DEFINE id == sq[p][i].id
             c == [recv |-> TRUE, id |-> id]
  <1>2. id = sq[p][i].id
    OBVIOUS
  <1>3. /\ ~sq[p][i].sent /\ sq' = [sq EXCEPT ![p][i].sent = TRUE]
        /\ UNCHANGED <<todo, req_list, posted, stack, issued, handled, lost>>
        /\ \A j \in 1 .. i - 1 : sq[p][j].sent
    BY ZenonT(40), <1>1
  <1>4. id[2] = "xfer" => cq' = cq
    BY ZenonT(40), <1>1
  <1>5. id[2] # "xfer" => /\ cq' = Complete(cq, Other(p), c)
                          /\ num_recv[Other(p)] > 0
                          /\ num_recv' = [num_recv EXCEPT ![Other(p)] = @ - 1]
                          /\ Raise(Other(p))
    BY ZenonT(40), <1>1
  <1> HIDE DEF id
  <1>6. /\ id \in Unsent /\ Owner(id) = p /\ id \in Ids
        /\ id \notin Arrived /\ id \notin Decoded
        /\ Unsent' = Unsent \ {id} /\ Listed' = Listed /\ Decoded' = Decoded
    BY ZenonT(40), <1>2, <1>3, TransmitSets
  <1>7. /\ \A x, y : FirstId(sq[p], x, y) => FirstId(sq'[p], x, y)
        /\ \A q \in Ends : q # p => sq'[q] = sq[q]
    BY ZenonT(40), <1>3, SentFirst DEF Core, Queues
  <1>8. \A x \in Unsent : ~FirstId(sq[p], x, id)
    BY ZenonT(40), <1>2, <1>3, NoneUnsentBefore
  <1>9. \A q \in Ends : q # p => \A x \in Commands(q) : x # id
    BY ZenonT(40), <1>6 DEF Commands
  <1>10. CASE id[2] = "xfer"
    <2>1. Arrived' = Arrived /\ \A x \in Commands(p) : x # id
      BY ZenonT(40), <1>4, <1>10 DEF Arrived, Commands
    <2>2. PICK q \in Ends : q # p
      BY ZenonT(40), TwoEnds
    <2>3. OrderOf(p)'
      BY ZenonT(40), <1>3, <1>4, <1>6, <1>7, <1>10, <2>1, <2>2, OwnOrder
    <2>4. ASSUME NEW r \in Ends, r # p PROVE OrderOf(r)'
      BY ZenonT(40), <1>3, <1>4, <1>6, <1>7, <1>9, <1>10, <2>1, <2>4, OtherOrder
    <2> QED
      BY ZenonT(40), <2>3, <2>4, BothOrders
  <1>11. CASE id[2] # "xfer"
    <2>1. Arrived' = Arrived \cup {id}
      BY ZenonT(40), <1>3, <1>5, <1>6, <1>11, ArriveSets DEF c
    <2>2. id \in Commands(p)
      BY ZenonT(40), <1>6, <1>11 DEF Commands
    <2>3. /\ Other(p) \in Ends /\ Other(p) # p /\ OrderOf(p)
          /\ \A r \in Ends : r # p => r = Other(p)
      BY ZenonT(40), TwoEnds DEF Order
    <2>4. cq'[Other(p)] = Append(cq[Other(p)], c) /\ cq'[p] = cq[p]
      <3> HIDE DEF c
      <3> QED
        BY ZenonT(40), <1>5, <1>11, <2>3 DEF Complete, Core, Queues, CqOK
    <2>5. OrderOf(p)'
      BY ZenonT(40), <1>3, <1>6, <1>7, <1>8, <2>1, <2>2, <2>3, <2>4, OrderArrive
    <2>6. ASSUME NEW r \in Ends, r # p PROVE OrderOf(r)'
      BY ZenonT(40), <1>3, <1>6, <1>7, <1>9, <2>1, <2>4, <2>6, OtherOrder
    <2> QED
      BY ZenonT(40), <2>5, <2>6, BothOrders
  <1> QED
    BY SMTT(30), <1>10, <1>11

(* An acknowledgement keeps the order.                                      *)
LEMMA AckOrder ==
    ASSUME Core, Order, NEW p \in Ends, Acknowledge(p)
    PROVE  Order'
  <1> DEFINE id == Head(sq[p]).id
             c == [recv |-> FALSE, id |-> id]
  <1>1. id = Head(sq[p]).id
    OBVIOUS
  <1>2. /\ sq[p] # << >> /\ Head(sq[p]).sent /\ sq' = [sq EXCEPT ![p] = Tail(@)]
        /\ cq' = [cq EXCEPT ![p] = Append(@, c)]
        /\ UNCHANGED <<req_list, issued, handled, lost>>
    BY ZenonT(40) DEF Acknowledge, Complete
  <1> HIDE DEF id
  <1>3. /\ id \in Sent /\ Owner(id) = p /\ Unsent' = Unsent /\ Arrived' = Arrived
        /\ Listed' = Listed /\ Decoded' = Decoded
    BY ZenonT(40), <1>1, AckSets
  <1>4. id \in Ids /\ id \notin Unsent /\ sq[p] \in Seq(Works)
    <2>1. id \notin Unsent /\ sq[p] \in Seq(Works)
      BY ZenonT(40), <1>3 DEF Core, Places, Apart, Queues, WorkOK
    <2>2. id \in Ids
      <3> DEFINE s == sq[p]
      <3>1. s \in Seq(Works) /\ s # << >> /\ id = Head(s).id
        BY ZenonT(40), <1>1, <1>2, <2>1
      <3> HIDE DEF s
      <3>2. Head(s) \in Works
        BY SMTT(30), <3>1
      <3> QED
        BY SMTT(30), <3>1, <3>2 DEF Works
    <2> QED
      BY ZenonT(40), <2>1, <2>2
  <1>5. c \in Completions
    BY SMTT(30), <1>4 DEF Completions
  <1> HIDE DEF c
  <1>6. /\ \A x, y : FirstId(cq[p], x, y) => FirstId(cq'[p], x, y)
        /\ \A q \in Ends : q # p => cq'[q] = cq[q]
    BY ZenonT(40), <1>2, <1>5, CqMore DEF Core, Queues
  <1>7. \A x, y : FirstId(sq[p], x, y) /\ x # id => FirstId(sq'[p], x, y)
    <2> DEFINE t == Tail(sq[p])
    <2>1. \A x, y : FirstId(sq[p], x, y) /\ x # id => FirstId(t, x, y)
      BY ZenonT(40), <1>1, <1>2, <1>4, FirstIdTail DEF Core, Queues, WorkOK
    <2>2. sq'[p] = t
      BY ZenonT(40), <1>2 DEF Core, Queues, WorkOK
    <2> HIDE DEF t
    <2> QED
      BY ZenonT(40), <2>1, <2>2
  <1>8. \A q \in Ends : q # p => sq'[q] = sq[q]
    BY ZenonT(40), <1>2 DEF Core, Queues, WorkOK
  <1>9. PICK q \in Ends : q # p
    BY ZenonT(40), TwoEnds
  <1>10. OrderOf(p)'
    BY ZenonT(40), <1>2, <1>3, <1>4, <1>6, <1>7, <1>9, OwnOrder
  <1>11. ASSUME NEW r \in Ends, r # p PROVE OrderOf(r)'
    BY ZenonT(40), <1>2, <1>3, <1>6, <1>8, <1>11, OtherOrder
  <1> QED
    BY ZenonT(40), <1>10, <1>11, BothOrders

(* rpc_cb_req_completion keeps the order: peer_rdma_done joins the list     *)
(* last.                                                                    *)
LEMMA CompletionOrder ==
    ASSUME Core, Order, NEW p \in Ends, rpc_cb_req_completion(p)
    PROVE  Order'
  <1> DEFINE id == Head(cq[p]).id
             dn == <<id[1], "done">>
  <1>1. id = Head(cq[p]).id /\ dn = <<id[1], "done">> /\ dn[2] # "xfer"
    OBVIOUS
  <1>2. /\ Poll(p, FALSE) /\ UNCHANGED <<sq, handled, lost>>
        /\ id[2] # "xfer" => UNCHANGED <<req_list, issued>>
        /\ id[2] = "xfer" => /\ req_list' = [req_list EXCEPT ![p] = Append(@, dn)]
                             /\ issued' = [issued EXCEPT ![p] = Append(@, dn)]
    BY ZenonT(40) DEF rpc_cb_req_completion, Enqueue
  <1> HIDE DEF id, dn
  <1>3. cq[p] # << >> /\ cq' = [cq EXCEPT ![p] = Tail(@)]
    BY ZenonT(40), <1>2 DEF Poll
  <1>4. /\ \A x, y : FirstId(cq[p], x, y) /\ x # id => FirstId(cq'[p], x, y)
        /\ \A q \in Ends : q # p => cq'[q] = cq[q]
    BY ZenonT(40), <1>1, <1>3, CqLess DEF Core, Queues
  <1>5. PICK q \in Ends : q # p
    BY ZenonT(40), TwoEnds
  <1>6. /\ Owner(id) = p /\ Unsent' = Unsent /\ Arrived' = Arrived /\ Decoded' = Decoded
    <2>1. CASE id[2] = "xfer"
      BY ZenonT(40), <1>1, <2>1, ReportSets
    <2>2. CASE id[2] # "xfer"
      BY ZenonT(40), <1>1, <2>2, CompleteSets
    <2> QED
      BY SMTT(30), <2>1, <2>2
  <1>7. \A r \in Ends : r # p => \A x \in Commands(r) : x # id
    BY ZenonT(40), <1>6 DEF Commands
  <1>8. CASE id[2] = "xfer"
    <2>1. dn \in Ids /\ Owner(dn) = p /\ dn \notin Known /\ Listed' = Listed \cup {dn}
      BY ZenonT(40), <1>1, <1>8, ReportSets
    <2>2. OrderOf(p)'
      BY ZenonT(40), <1>1, <1>2, <1>4, <1>6, <1>8, <2>1, IssueOrder
    <2>3. ASSUME NEW r \in Ends, r # p PROVE OrderOf(r)'
      <3>1. issued'[r] = issued[r] /\ req_list'[r] = req_list[r]
        BY ZenonT(40), <1>2, <1>8, <2>3 DEF Core, Rest, Queues, ListOK
      <3>2. \A x \in Commands(r) : x # dn
        BY ZenonT(40), <2>1, <2>3 DEF Commands
      <3> QED
        BY ZenonT(40), <1>2, <1>4, <1>6, <1>7, <2>1, <2>3, <3>1, <3>2, OtherOrder
    <2> QED
      BY ZenonT(40), <2>2, <2>3, BothOrders
  <1>9. CASE id[2] # "xfer"
    <2>1. Listed' = Listed /\ UNCHANGED <<req_list, issued>>
      BY ZenonT(40), <1>1, <1>2, <1>9, CompleteSets
    <2>2. OrderOf(p)'
      BY ZenonT(40), <1>2, <1>4, <1>5, <1>6, <2>1, OwnOrder
    <2>3. ASSUME NEW r \in Ends, r # p PROVE OrderOf(r)'
      BY ZenonT(40), <1>2, <1>4, <1>6, <1>7, <2>1, <2>3, OtherOrder
    <2> QED
      BY ZenonT(40), <2>2, <2>3, BothOrders
  <1> QED
    BY SMTT(30), <1>8, <1>9

(* The message that is handled is the oldest of the other end's.            *)
LEMMA TakenOrder ==
    ASSUME Core, Order, NEW p \in Ends, NEW q \in Ends, q # p, Poll(p, TRUE),
           NEW id, id = Head(cq[p]).id, handled' = [handled EXCEPT ![p] = Append(@, id)],
           \A x \in Commands(q) : /\ x \in Listed' <=> x \in Listed
                                  /\ x \in Unsent' <=> x \in Unsent
                                  /\ x \in lost' <=> x \in lost,
           issued'[q] = issued[q], req_list'[q] = req_list[q], sq'[q] = sq[q]
    PROVE  OrderOf(q)'
  <1>1. /\ id \in Ids /\ id \in Arrived /\ Owner(id) = Other(p) /\ Arrived' = Arrived \ {id}
        /\ Decoded' = Decoded \cup {id}
    BY ZenonT(40), DecodeSets
  <1>2. p = Other(q) /\ q = Other(p) /\ OrderOf(q)
    BY ZenonT(40), TwoEnds DEF Order
  <1>3. id \in Commands(q)
    BY ZenonT(40), <1>1, <1>2 DEF Commands, Core, Places, Stages
  <1>4. cq[p] # << >> /\ cq' = [cq EXCEPT ![p] = Tail(@)]
    BY ZenonT(40) DEF Poll
  <1>5. cq'[p] = Tail(cq[p])
    BY ZenonT(40), <1>4, CqLess DEF Core, Queues
  <1>6. Grown(handled'[p], handled[p], id)
    BY ZenonT(40) DEF Grown, Core, Queues, HandledOK
  <1>7. /\ cq[Other(q)] # << >> /\ id = Head(cq[Other(q)]).id
        /\ cq'[Other(q)] = Tail(cq[Other(q)])
        /\ Grown(handled'[Other(q)], handled[Other(q)], id)
    BY ZenonT(40), <1>2, <1>4, <1>5, <1>6
  <1>8. \A x \in Commands(q) : /\ x \in Arrived' <=> x \in Arrived /\ x # id
                               /\ x \in Decoded' <=> x \in Decoded \/ x = id
    BY ZenonT(40), <1>1
  <1> QED
    BY ZenonT(40), <1>1, <1>2, <1>3, <1>7, <1>8, OrderDecode

(* A message is handled that starts no other message.                       *)
LEMMA PlainOrder ==
    ASSUME Core, Order, NEW p \in Ends, Poll(p, TRUE), NEW id, id = Head(cq[p]).id,
           handled' = [handled EXCEPT ![p] = Append(@, id)],
           \A r \in Ends : \A x \in Commands(r) : /\ x \in Listed' <=> x \in Listed
                                                  /\ x \in Unsent' <=> x \in Unsent
                                                  /\ x \in lost' <=> x \in lost,
           UNCHANGED <<req_list, issued>>,
           \A x, y : FirstId(sq[p], x, y) => FirstId(sq'[p], x, y),
           \A q \in Ends : q # p => sq'[q] = sq[q]
    PROVE  Order'
  <1>1. ASSUME NEW r \in Ends, r # p PROVE OrderOf(r)'
    BY ZenonT(40), <1>1, TakenOrder
  <1>2. /\ Owner(id) = Other(p) /\ Arrived' = Arrived \ {id} /\ Decoded' = Decoded \cup {id}
    BY ZenonT(40), DecodeSets
  <1>3. \A x \in Commands(p) : x # id
    BY ZenonT(40), <1>2, TwoEnds DEF Commands
  <1>4. PICK q \in Ends : q # p
    BY ZenonT(40), TwoEnds
  <1>5. cq'[q] = cq[q] /\ handled'[q] = handled[q]
    <2>1. cq[p] # << >> /\ cq' = [cq EXCEPT ![p] = Tail(@)]
      BY ZenonT(40) DEF Poll
    <2> QED
      BY ZenonT(40), <1>4, <2>1, CqLess DEF Core, Queues, HandledOK
  <1>6. OrderOf(p)'
    BY ZenonT(40), <1>2, <1>3, <1>4, <1>5, OwnOrder
  <1> QED
    BY ZenonT(40), <1>1, <1>6, BothOrders

(* rpc_cb_decode keeps the order.                                           *)
LEMMA DecodeOrder ==
    ASSUME Core, Order, NEW p \in Ends, rpc_cb_decode(p)
    PROVE  Order'
  <1> DEFINE id == Head(cq[p]).id
             o == id[1]
  <1>1. id = Head(cq[p]).id /\ o = id[1]
    OBVIOUS
  <1> HIDE DEF id, o
  <1>2. /\ o \in Ops /\ id = <<o, id[2]>> /\ Poll(p, TRUE) /\ todo' = todo
        /\ handled' = [handled EXCEPT ![p] = Append(@, id)]
    BY ZenonT(40), <1>1, DecodeFacts
  <1>3. CASE UNCHANGED <<req_list, sq, issued, lost>>
    <2>1. Listed' = Listed /\ Unsent' = Unsent
      BY ZenonT(40), <1>3 DEF Listed, Unsent
    <2> QED
      BY ZenonT(40), <1>1, <1>2, <1>3, <2>1, PlainOrder
  <1>4. CASE id[2] = "cmd" /\ Transfer(p, <<o, "xfer">>)
    <2> DEFINE x == <<o, "xfer">>
    <2>1. x = <<o, "xfer">> /\ x[2] = "xfer" /\ id = <<o, "cmd">>
      BY SMTT(30), <1>2, <1>4
    <2> HIDE DEF x
    <2>2. Transfer(p, x)
      BY ZenonT(40), <1>4, <2>1
    <2>3. /\ x \in Ids /\ x \notin Known /\ Owner(x) = p /\ Listed' = Listed
          /\ \/ Unsent' = Unsent \cup {x} /\ lost' = lost
             \/ Unsent' = Unsent /\ lost' = lost \cup {x}
      BY ZenonT(40), <1>1, <1>2, <2>1, <2>2, TransferSets
    <2>4. PostSend(p, x) /\ UNCHANGED <<req_list, issued>>
      BY ZenonT(40), <2>2 DEF Transfer
    <2>5. x \notin Unsent /\ x \notin Sent
      BY ZenonT(40), <2>3 DEF Core, Places, Apart, InWork
    <2>6. /\ \A q \in Ends : q # p => sq'[q] = sq[q]
          /\ sq'[p] = sq[p] \/ sq'[p] = Append(sq[p], [id |-> x, sent |-> FALSE])
      BY ZenonT(40), <2>3, <2>4, <2>5, PostSendOrder DEF Core, Queues
    <2>7. \A y, z : FirstId(sq[p], y, z) => FirstId(sq'[p], y, z)
      <3> DEFINE w == [id |-> x, sent |-> FALSE]
                 t == Append(sq[p], w)
      <3>1. w \in Works
        BY SMTT(30), <2>3 DEF Works
      <3> HIDE DEF w
      <3>2. \A y, z : FirstId(sq[p], y, z) => FirstId(t, y, z)
        BY ZenonT(40), <3>1, FirstIdAppend DEF Core, Queues, WorkOK
      <3>3. sq'[p] = sq[p] \/ sq'[p] = t
        BY ZenonT(40), <2>6 DEF w
      <3> HIDE DEF t
      <3> QED
        BY ZenonT(40), <3>2, <3>3
    <2>8. \A r \in Ends : \A y \in Commands(r) : y # x
      BY ZenonT(40), <2>1 DEF Commands
    <2>9. \A r \in Ends : \A y \in Commands(r) : /\ y \in Listed' <=> y \in Listed
                                                 /\ y \in Unsent' <=> y \in Unsent
                                                 /\ y \in lost' <=> y \in lost
      BY ZenonT(40), <2>3, <2>8
    <2> QED
      BY ZenonT(40), <1>1, <1>2, <2>4, <2>6, <2>7, <2>9, PlainOrder
  <1>5. CASE id[2] = "cmd" /\ Answer(p, <<o, "reply">>)
    <2> DEFINE x == <<o, "reply">>
    <2>1. x = <<o, "reply">> /\ id = <<o, "cmd">>
      BY SMTT(30), <1>2, <1>5
    <2>0. x[2] # "xfer"
      OBVIOUS
    <2> HIDE DEF x
    <2>2. Answer(p, x)
      BY ZenonT(40), <1>5, <2>1
    <2>3. /\ x \in Ids /\ x \notin Known /\ Owner(x) = p /\ Listed' = Listed \cup {x}
          /\ Unsent' = Unsent /\ lost' = lost
      BY ZenonT(40), <1>1, <1>2, <2>1, <2>2, AnswerSets
    <2>4. /\ req_list' = [req_list EXCEPT ![p] = Append(@, x)]
          /\ issued' = [issued EXCEPT ![p] = Append(@, x)] /\ sq' = sq
      BY ZenonT(40), <2>2 DEF Answer, Enqueue
    <2>5. /\ Owner(id) = Other(p) /\ Arrived' = Arrived \ {id} /\ Decoded' = Decoded \cup {id}
      BY ZenonT(40), <1>1, <1>2, DecodeSets
    <2>6. \A y \in Commands(p) : y # id
      BY ZenonT(40), <2>5, TwoEnds DEF Commands
    <2>7. cq[p] # << >> /\ cq' = [cq EXCEPT ![p] = Tail(@)]
      BY ZenonT(40), <1>2 DEF Poll
    <2>8. \A q \in Ends : q # p => cq'[q] = cq[q] /\ handled'[q] = handled[q]
      BY ZenonT(40), <1>2, <2>7, CqLess DEF Core, Queues, HandledOK
    <2>9. OrderOf(p)'
      BY ZenonT(40), <2>0, <2>3, <2>4, <2>5, <2>6, <2>8, IssueOrder
    <2>10. ASSUME NEW r \in Ends, r # p PROVE OrderOf(r)'
      <3>1. issued'[r] = issued[r] /\ req_list'[r] = req_list[r] /\ sq'[r] = sq[r]
        BY ZenonT(40), <2>4, <2>10 DEF Core, Rest, Queues, ListOK
      <3>2. \A y \in Commands(r) : y # x
        BY ZenonT(40), <2>3, <2>10 DEF Commands
      <3> QED
        BY ZenonT(40), <1>1, <1>2, <2>3, <2>10, <3>1, <3>2, TakenOrder
    <2> QED
      BY ZenonT(40), <2>9, <2>10, BothOrders
  <1> QED
    <2>1. \/ UNCHANGED <<req_list, sq, issued, lost>>
          \/ id[2] = "cmd" /\ Transfer(p, <<o, "xfer">>)
          \/ id[2] = "cmd" /\ Answer(p, <<o, "reply">>)
      BY ZenonT(40), <1>1, DecodeCases DEF rpc_cb_cleanup
    <2> QED
      BY ZenonT(40), <1>3, <1>4, <1>5, <2>1

-----------------------------------------------------------------------------
(* Every step, and the property.                                            *)

(* Every step keeps the order.                                              *)
LEMMA OrderStep ==
    ASSUME Core, Order, [Next]_vars
    PROVE  Order'
  <1>1. CASE UNCHANGED <<req_list, sq, cq, issued, handled, lost>>
    BY ZenonT(40), <1>1, QuietOrder
  <1>2. CASE UNCHANGED vars
    BY ZenonT(40), <1>1, <1>2 DEF vars, device
  <1>3. CASE Next
    <2>1. PICK p \in Ends : \/ \E o \in todo : rpc_send(p, o) \/ rpc_receive(p, o)
                            \/ Working(p)
                            \/ Transmit(p)
                            \/ Acknowledge(p)
      BY ZenonT(40), <1>3 DEF Next
    <2>2. CASE \E o \in todo : rpc_send(p, o) \/ rpc_receive(p, o)
      BY ZenonT(40), <2>2, CommandOrder DEF rpc_send, rpc_receive
    <2>3. CASE RoundTimesOut(p) \/ rpc_process_event(p) \/ PollNothing(p) \/ Finish(p) \/ PostRecv(p)
      <3>1. UNCHANGED <<req_list, issued, handled, lost, sq, cq>>
        BY ZenonT(40), <2>3 DEF RoundTimesOut, rpc_process_event, PollNothing, Finish, PostRecv,
           device
      <3> QED
        BY ZenonT(40), <1>1, <3>1
    <2>4. CASE SendHead(p) \/ rpc_cb_req_completion(p) \/ rpc_cb_decode(p)
      BY ZenonT(40), <2>4, SendOrder, CompletionOrder, DecodeOrder
    <2> QED
      BY ZenonT(40), <2>1, <2>2, <2>3, <2>4, TransmitOrder, AckOrder DEF Working
  <1> QED
    BY SMTT(30), <1>2, <1>3

(* The order is right at the start.                                         *)
LEMMA InitOrder ==
    ASSUME Init
    PROVE  Order
  <1>1. /\ \A p \in Ends : /\ req_list[p] = << >> /\ sq[p] = << >> /\ cq[p] = << >>
                           /\ handled[p] = << >> /\ issued[p] = << >>
        /\ lost = {}
    BY ZenonT(40) DEF Init
  <1>2. \A i : i \notin DOMAIN << >>
    OBVIOUS
  <1>3. /\ \A x : x \notin Range(<< >>) /\ x \notin UnsentIn(<< >>) /\ x \notin ArrivedIn(<< >>)
        /\ Once(<< >>) /\ \A x, y : ~First(<< >>, x, y)
    BY ZenonT(40), <1>2 DEF Range, UnsentIn, ArrivedIn, Once, First
  <1>4. \A x : x \notin Launched
    BY ZenonT(40), <1>1, <1>3 DEF Launched, Listed, Unsent, Arrived, Decoded
  <1>5. ASSUME NEW e \in Ends PROVE OrderOf(e)
    <2>1. issued[e] = << >> /\ handled[Other(e)] = << >>
      BY ZenonT(40), <1>1, TwoEnds
    <2> QED
      BY ZenonT(40), <1>3, <1>4, <2>1 DEF OrderOf
  <1> QED
    BY ZenonT(40), <1>5 DEF Order

(* The order on the way is the order in which the messages are handled.     *)
LEMMA HandledInOrder ==
    ASSUME Core, Order
    PROVE  InOrder
  <1> SUFFICES ASSUME NEW p \in Ends, NEW k \in DOMAIN handled[Other(p)]
               PROVE  \E j \in DOMAIN issued[p] :
                        /\ handled[Other(p)][k] = issued[p][j]
                        /\ handled[Other(p)][k] \notin lost
                        /\ \A i \in 1 .. j - 1 :
                              \/ issued[p][i] \in lost
                              \/ \E m \in 1 .. k - 1 : handled[Other(p)][m] = issued[p][i]
                        /\ \A m \in 1 .. k - 1 : handled[Other(p)][m] # handled[Other(p)][k]
    BY ZenonT(40) DEF InOrder
  <1> DEFINE h == handled[Other(p)]
             s == issued[p]
             y == h[k]
  <1>1. Other(p) \in Ends /\ OrderOf(p) /\ Other(Other(p)) = p
    BY ZenonT(40), TwoEnds DEF Order
  <1>2. h \in Seq(Ids) /\ s \in Seq(Ids) /\ Once(h) /\ k \in DOMAIN h
    BY ZenonT(40), <1>1 DEF Core, Queues, Rest, HandledOK, OrderOf
  <1>3. y \in Ids
    BY SMTT(30), <1>2
  <1>4. y \in Range(h)
    BY ZenonT(40), <1>2 DEF Range
  <1>5. y \in Decoded /\ Owner(y) = p
    BY ZenonT(40), <1>1, <1>3, <1>4 DEF Decoded, Core, Queues, HandledOK
  <1>5a. y \notin lost
    BY ZenonT(40), <1>5 DEF Core, Places, Apart
  <1>6. y[2] # "xfer"
    BY ZenonT(40), <1>5 DEF Core, Places, Stages
  <1>7. y \in Range(s)
    BY ZenonT(40), <1>1, <1>3, <1>5, <1>6 DEF OrderOf, Launched, Commands
  <1>8. PICK j \in DOMAIN s : s[j] = y
    BY ZenonT(40), <1>7 DEF Range
  <1>9. ASSUME NEW i \in 1 .. j - 1, s[i] \notin lost
        PROVE  \E m \in 1 .. k - 1 : h[m] = s[i]
    <2>1. i \in DOMAIN s /\ i < j
      BY SMTT(30), <1>2
    <2>2. First(s, s[i], y)
      BY ZenonT(40), <1>8, <2>1 DEF First
    <2>3. First(h, s[i], y)
      BY ZenonT(40), <1>1, <1>5, <1>9, <2>2 DEF OrderOf, Ahead
    <2>4. PICK m, n \in DOMAIN h : m < n /\ h[m] = s[i] /\ h[n] = y
      BY ZenonT(40), <2>3 DEF First
    <2>5. n = k
      BY ZenonT(40), <1>2, <2>4 DEF Once
    <2>6. m \in 1 .. k - 1
      BY SMTT(30), <1>2, <2>4, <2>5
    <2> QED
      BY ZenonT(40), <2>4, <2>6
  <1>10. ASSUME NEW m \in 1 .. k - 1, h[m] = y PROVE FALSE
    <2>1. m \in DOMAIN h /\ m # k
      BY <1>2
    <2> QED
      BY ZenonT(40), <1>2, <1>10, <2>1 DEF Once
  <1> QED
    BY ZenonT(40), <1>5a, <1>8, <1>9, <1>10
=============================================================================
