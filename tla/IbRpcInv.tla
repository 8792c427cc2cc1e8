------------------------------ MODULE IbRpcInv ------------------------------
(***************************************************************************)
(* The inductive invariant of a connection of the InfiniBand RPC layer,    *)
(* and the proof that every step keeps it.                                 *)
(*                                                                         *)
(* The properties of IbRpc speak of the lists and queues; what happens to  *)
(* a request does not depend on where in a queue it stands. So the         *)
(* invariant comes in two parts. Queues says of every list, queue and      *)
(* stack that it holds requests of the right end, each once. Places speaks *)
(* of the sets of requests that are listed, unsent, sent, acknowledged,    *)
(* ending, arrived and decoded: a request is in one of them (Apart), an    *)
(* operation is at one of its stages (Stages), the references of a request *)
(* are counted (Counted) and its data are in place (Filled).               *)
(*                                                                         *)
(* For every action there is a lemma that says how it moves requests       *)
(* between those sets (CommandSets, SendSets, ...), one that says that     *)
(* such a move keeps Places (IssueKept, PostKept, ...), and one that puts  *)
(* them together (CommandCore, SendCore, ...). CoreStep is the result.     *)
(***************************************************************************)
EXTENDS IbRpc, TLAPS

-----------------------------------------------------------------------------
(* The calls and the entries of the queues, and what stands in them.        *)

(* A call under way: rpc_send with the rounds it has left, rpc_process      *)
(* polling, a receive that is to be posted again, a transfer whose request  *)
(* is to be freed.                                                          *)
Frames ==
    [at : {"wait"}, left : Int] \cup [at : {"poll", "repost"}] \cup [at : {"finish"}, id : Ids]

(* An entry of a send queue.                                                *)
Works == [id : Ids, sent : BOOLEAN]

(* An entry of a completion queue.                                          *)
Completions == [recv : BOOLEAN, id : Ids]

(* Nothing stands twice in a sequence.                                      *)
Once(s) == \A i, j \in DOMAIN s : s[i] = s[j] => i = j

(* No request has two entries in a queue.                                   *)
OnceIds(s) == \A i, j \in DOMAIN s : s[i].id = s[j].id => i = j

(* No transfer is finished by two calls.                                    *)
OnceFinish(s) ==
    \A i, j \in DOMAIN s :
        s[i].at = "finish" /\ s[j].at = "finish" /\ s[i].id = s[j].id => i = j

(* The work requests that have had no effect yet.                           *)
UnsentIn(s) == {id \in Ids : \E i \in DOMAIN s : s[i].id = id /\ ~s[i].sent}

(* The work requests that have had their effect and wait to be              *)
(* acknowledged.                                                            *)
SentIn(s) == {id \in Ids : \E i \in DOMAIN s : s[i].id = id /\ s[i].sent}

(* The requests whose completion is in the queue.                           *)
AckedIn(s) == {id \in Ids : \E i \in DOMAIN s : s[i].id = id /\ ~s[i].recv}

(* The messages that a completion queue announces.                          *)
ArrivedIn(s) == {id \in Ids : \E i \in DOMAIN s : s[i].id = id /\ s[i].recv}

(* The transfers that the calls of a stack are going to finish.             *)
FinishIn(s) == {id \in Ids : \E i \in DOMAIN s : s[i].at = "finish" /\ s[i].id = id}

(* The receives that the calls of a stack are going to post again, each     *)
(* named by its distance from the bottom, which no push or pop of another   *)
(* call changes.                                                            *)
Depths(s) == {Len(s) - i : i \in {k \in DOMAIN s : s[k].at = "repost"}}

-----------------------------------------------------------------------------
(* Sequences.                                                               *)

(* Append, element by element.                                              *)
LEMMA AppendAt ==
    ASSUME NEW S, NEW s \in Seq(S), NEW e \in S
    PROVE  /\ Append(s, e) \in Seq(S)
           /\ Len(s) \in Nat /\ DOMAIN s = 1 .. Len(s)
           /\ DOMAIN Append(s, e) = 1 .. Len(s) + 1
           /\ \A i \in DOMAIN s : i \in DOMAIN Append(s, e) /\ Append(s, e)[i] = s[i]
           /\ Append(s, e)[Len(s) + 1] = e
           /\ Len(s) + 1 \in DOMAIN Append(s, e) /\ Len(s) + 1 \notin DOMAIN s
           /\ \A i \in DOMAIN Append(s, e) : i \in DOMAIN s \/ i = Len(s) + 1
           /\ Len(Append(s, e)) = Len(s) + 1
  BY SMTT(20)

(* Tail, element by element.                                                *)
LEMMA TailAt ==
    ASSUME NEW S, NEW s \in Seq(S), s # << >>
    PROVE  /\ 1 \in DOMAIN s /\ Head(s) = s[1] /\ s[1] \in S
           /\ Tail(s) \in Seq(S) /\ DOMAIN Tail(s) = 1 .. Len(s) - 1
           /\ DOMAIN s = 1 .. Len(s) /\ Len(s) \in Nat
           /\ Len(Tail(s)) = Len(s) - 1
           /\ \A i \in DOMAIN Tail(s) : i + 1 \in DOMAIN s /\ Tail(s)[i] = s[i + 1] /\ i + 1 # 1
           /\ \A i \in DOMAIN s : i # 1 => i - 1 \in DOMAIN Tail(s) /\ Tail(s)[i - 1] = s[i]
  <1>1. /\ Tail(s) \in Seq(S) /\ Len(Tail(s)) = Len(s) - 1 /\ Head(s) \in S
        /\ \A i \in 1 .. Len(Tail(s)) : Tail(s)[i] = s[i + 1]
    OBVIOUS
  <1>2. Len(s) \in Nat \ {0} /\ DOMAIN s = 1 .. Len(s) /\ s \in [1 .. Len(s) -> S]
    OBVIOUS
  <1>3. DOMAIN Tail(s) = 1 .. Len(Tail(s))
    BY <1>1
  <1>4. Head(s) = s[1]
    BY <1>2
  <1> QED
    BY <1>1, <1>2, <1>3, <1>4

(* A call put on top of a stack, element by element.                        *)
LEMMA PushAt ==
    ASSUME NEW S, NEW s \in Seq(S), NEW e \in S
    PROVE  /\ <<e>> \o s \in Seq(S)
           /\ DOMAIN (<<e>> \o s) = 1 .. Len(s) + 1
           /\ Len(s) \in Nat /\ DOMAIN s = 1 .. Len(s)
           /\ Len(<<e>> \o s) = Len(s) + 1
           /\ (<<e>> \o s)[1] = e
           /\ \A i \in DOMAIN s : i + 1 \in DOMAIN (<<e>> \o s) /\ (<<e>> \o s)[i + 1] = s[i]
           /\ \A i \in DOMAIN (<<e>> \o s) :
                 i # 1 => i - 1 \in DOMAIN s /\ (<<e>> \o s)[i] = s[i - 1]
  <1>1. <<e>> \in Seq(S) /\ Len(<<e>>) = 1 /\ <<e>>[1] = e
    OBVIOUS
  <1>2. Len(s) \in Nat /\ DOMAIN s = 1 .. Len(s)
    OBVIOUS
  <1>3. /\ <<e>> \o s \in Seq(S) /\ Len(<<e>> \o s) = 1 + Len(s)
        /\ \A i \in 1 .. 1 + Len(s) : (<<e>> \o s)[i] = IF i <= 1 THEN <<e>>[i] ELSE s[i - 1]
    BY <1>1
  <1>4. DOMAIN (<<e>> \o s) = 1 .. Len(s) + 1
    BY <1>2, <1>3
  <1> QED
    BY <1>1, <1>2, <1>3, <1>4

(* A request joins a send list that does not hold it.                       *)
LEMMA ListAppend ==
    ASSUME NEW s \in Seq(Ids), NEW id \in Ids, id \notin Range(s), Once(s)
    PROVE  /\ Append(s, id) \in Seq(Ids)
           /\ Range(Append(s, id)) = Range(s) \cup {id}
           /\ Once(Append(s, id))
  <1> DEFINE t == Append(s, id)
  <1>1. /\ t \in Seq(Ids) /\ t[Len(s) + 1] = id
        /\ Len(s) + 1 \in DOMAIN t /\ Len(s) + 1 \notin DOMAIN s
        /\ \A i \in DOMAIN s : i \in DOMAIN t /\ t[i] = s[i]
        /\ \A i \in DOMAIN t : i \in DOMAIN s \/ i = Len(s) + 1
    BY ZenonT(40), AppendAt
  <1>2. \A i \in DOMAIN s : s[i] # id
    BY ZenonT(40) DEF Range
  <1> HIDE DEF t
  <1>3. \A x : x \in Range(t) <=> x \in Range(s) \cup {id}
    BY <1>1, ZenonT(20) DEF Range
  <1>4. Once(t)
    BY <1>1, <1>2, ZenonT(20) DEF Once
  <1> QED
    BY ZenonT(40), <1>1, <1>3, <1>4 DEF t

(* The first request leaves a send list.                                    *)
LEMMA ListTail ==
    ASSUME NEW s \in Seq(Ids), s # << >>, Once(s)
    PROVE  /\ Tail(s) \in Seq(Ids) /\ Head(s) \in Range(s) /\ Head(s) \in Ids
           /\ Range(Tail(s)) = Range(s) \ {Head(s)}
           /\ Once(Tail(s))
  <1>1. /\ 1 \in DOMAIN s /\ Head(s) = s[1] /\ s[1] \in Ids /\ Tail(s) \in Seq(Ids)
        /\ DOMAIN s \subseteq Int /\ DOMAIN Tail(s) \subseteq Int
        /\ \A i \in DOMAIN Tail(s) : i + 1 \in DOMAIN s /\ Tail(s)[i] = s[i + 1] /\ i + 1 # 1
        /\ \A i \in DOMAIN s : i # 1 => i - 1 \in DOMAIN Tail(s) /\ Tail(s)[i - 1] = s[i]
    BY TailAt
  <1>2. ASSUME NEW x
        PROVE  x \in Range(Tail(s)) <=> x \in Range(s) \ {Head(s)}
    <2>1. ASSUME x \in Range(Tail(s))
          PROVE  x \in Range(s) \ {Head(s)}
      <3>1. PICK i \in DOMAIN Tail(s) : Tail(s)[i] = x
        BY ZenonT(40), <2>1 DEF Range
      <3>2. i + 1 \in DOMAIN s /\ s[i + 1] = x /\ i + 1 # 1
        BY ZenonT(40), <1>1, <3>1
      <3> QED
        BY <1>1, <3>2, ZenonT(20) DEF Range, Once
    <2>2. ASSUME x \in Range(s) \ {Head(s)}
          PROVE  x \in Range(Tail(s))
      <3>1. PICK i \in DOMAIN s : s[i] = x
        BY ZenonT(40), <2>2 DEF Range
      <3>2. i # 1
        BY ZenonT(40), <1>1, <2>2, <3>1
      <3> QED
        BY <1>1, <3>1, <3>2, ZenonT(20) DEF Range
    <2> QED
      BY ZenonT(40), <2>1, <2>2
  <1>3. Once(Tail(s))
    BY <1>1, SMTT(20) DEF Once
  <1> QED
    BY ZenonT(40), <1>1, <1>2, <1>3 DEF Range

(* A work request joins a send queue that has no entry for it.              *)
LEMMA SqAppend ==
    ASSUME NEW s \in Seq(Works), NEW id \in Ids, OnceIds(s),
           id \notin UnsentIn(s) \cup SentIn(s),
           NEW w, w = [id |-> id, sent |-> FALSE]
    PROVE  /\ Append(s, w) \in Seq(Works)
           /\ UnsentIn(Append(s, w)) = UnsentIn(s) \cup {id}
           /\ SentIn(Append(s, w)) = SentIn(s)
           /\ OnceIds(Append(s, w))
  <1> DEFINE t == Append(s, w)
  <1>0. w \in Works /\ w.id = id /\ ~w.sent
    BY ZenonT(40) DEF Works
  <1>1. /\ t \in Seq(Works) /\ t[Len(s) + 1] = w
        /\ Len(s) + 1 \in DOMAIN t /\ Len(s) + 1 \notin DOMAIN s
        /\ \A i \in DOMAIN s : i \in DOMAIN t /\ t[i] = s[i]
        /\ \A i \in DOMAIN t : i \in DOMAIN s \/ i = Len(s) + 1
    BY <1>0, AppendAt
  <1>2. \A i \in DOMAIN s : s[i].id # id
    BY ZenonT(20) DEF UnsentIn, SentIn
  <1> HIDE DEF t
  <1>3. \A x : x \in UnsentIn(t) <=> x \in UnsentIn(s) \cup {id}
    BY <1>0, <1>1, ZenonT(20) DEF UnsentIn
  <1>4. \A x : x \in SentIn(t) <=> x \in SentIn(s)
    BY <1>0, <1>1, ZenonT(20) DEF SentIn
  <1>5. OnceIds(t)
    BY <1>0, <1>1, <1>2, SMTT(30) DEF OnceIds
  <1> QED
    BY ZenonT(40), <1>1, <1>3, <1>4, <1>5 DEF t

(* The oldest work request of a send queue is acknowledged.                 *)
LEMMA SqTail ==
    ASSUME NEW s \in Seq(Works), s # << >>, OnceIds(s), Head(s).sent
    PROVE  /\ Tail(s) \in Seq(Works)
           /\ Head(s).id \in SentIn(s)
           /\ UnsentIn(Tail(s)) = UnsentIn(s)
           /\ SentIn(Tail(s)) = SentIn(s) \ {Head(s).id}
           /\ OnceIds(Tail(s))
  <1>1. /\ 1 \in DOMAIN s /\ Head(s) = s[1] /\ s[1] \in Works /\ Tail(s) \in Seq(Works)
        /\ DOMAIN s \subseteq Int /\ DOMAIN Tail(s) \subseteq Int
        /\ \A i \in DOMAIN Tail(s) : i + 1 \in DOMAIN s /\ Tail(s)[i] = s[i + 1] /\ i + 1 # 1
        /\ \A i \in DOMAIN s : i # 1 => i - 1 \in DOMAIN Tail(s) /\ Tail(s)[i - 1] = s[i]
    BY TailAt
  <1>2. Head(s).id \in Ids /\ Head(s).id \in SentIn(s)
    BY ZenonT(40), <1>1 DEF SentIn, Works
  <1>3. \A x : x \in UnsentIn(Tail(s)) <=> x \in UnsentIn(s)
    BY <1>1, ZenonT(20) DEF UnsentIn
  <1>4. ASSUME NEW x
        PROVE  x \in SentIn(Tail(s)) <=> x \in SentIn(s) \ {Head(s).id}
    <2>1. ASSUME x \in SentIn(Tail(s))
          PROVE  x \in SentIn(s) \ {Head(s).id}
      <3>1. PICK i \in DOMAIN Tail(s) : Tail(s)[i].id = x /\ Tail(s)[i].sent
        BY ZenonT(40), <2>1 DEF SentIn
      <3>2. i + 1 \in DOMAIN s /\ s[i + 1].id = x /\ s[i + 1].sent /\ i + 1 # 1
        BY ZenonT(40), <1>1, <3>1
      <3> QED
        BY <1>1, <2>1, <3>2, ZenonT(20) DEF SentIn, OnceIds
    <2>2. ASSUME x \in SentIn(s) \ {Head(s).id}
          PROVE  x \in SentIn(Tail(s))
      <3>1. PICK i \in DOMAIN s : s[i].id = x /\ s[i].sent
        BY ZenonT(40), <2>2 DEF SentIn
      <3>2. i # 1
        BY ZenonT(40), <1>1, <2>2, <3>1
      <3> QED
        BY <1>1, <2>2, <3>1, <3>2, ZenonT(20) DEF SentIn
    <2> QED
      BY ZenonT(40), <2>1, <2>2
  <1>5. OnceIds(Tail(s))
    BY <1>1, SMTT(20) DEF OnceIds
  <1> QED
    BY ZenonT(40), <1>1, <1>2, <1>3, <1>4, <1>5

(* A work request of a send queue takes effect.                             *)
LEMMA SqSent ==
    ASSUME NEW s \in Seq(Works), OnceIds(s), NEW i \in DOMAIN s, ~s[i].sent
    PROVE  LET t == [s EXCEPT ![i].sent = TRUE]
           IN /\ t \in Seq(Works) /\ s[i].id \in UnsentIn(s)
              /\ UnsentIn(t) = UnsentIn(s) \ {s[i].id}
              /\ SentIn(t) = SentIn(s) \cup {s[i].id}
              /\ OnceIds(t)
  <1> DEFINE w == [s[i] EXCEPT !.sent = TRUE]
             t == [s EXCEPT ![i] = w]
  <1>1. DOMAIN s = 1 .. Len(s) /\ s[i] \in Works /\ Len(s) \in Nat
    OBVIOUS
  <1>2. w \in Works /\ w.id = s[i].id /\ w.sent /\ s[i].id \in Ids
    BY ZenonT(40), <1>1 DEF Works
  <1>3. t \in Seq(Works) /\ DOMAIN t = DOMAIN s
    BY <1>1, <1>2
  <1>4. t[i] = w /\ \A j \in DOMAIN s : j # i => t[j] = s[j]
    BY ZenonT(40), <1>1
  <1>5. t = [s EXCEPT ![i].sent = TRUE]
    BY ZenonT(40)
  <1> HIDE DEF t, w
  <1>6. \A x : x \in UnsentIn(t) <=> x \in UnsentIn(s) \ {s[i].id}
    BY <1>2, <1>3, <1>4, ZenonT(20) DEF UnsentIn, OnceIds
  <1>7. \A x : x \in SentIn(t) <=> x \in SentIn(s) \cup {s[i].id}
    BY <1>2, <1>3, <1>4, ZenonT(20) DEF SentIn
  <1>8. OnceIds(t)
    <2>1. \A j \in DOMAIN s : t[j].id = s[j].id
      BY ZenonT(40), <1>2, <1>4
    <2> QED
      BY ZenonT(40), <1>3, <2>1 DEF OnceIds
  <1>9. s[i].id \in UnsentIn(s)
    BY <1>2, ZenonT(20) DEF UnsentIn
  <1> QED
    BY ZenonT(40), <1>3, <1>5, <1>6, <1>7, <1>8, <1>9

(* A completion joins a completion queue that has no entry for its request. *)
LEMMA CqAppend ==
    ASSUME NEW s \in Seq(Completions), NEW c \in Completions, OnceIds(s),
           c.id \notin AckedIn(s) \cup ArrivedIn(s)
    PROVE  /\ Append(s, c) \in Seq(Completions)
           /\ c.recv => /\ ArrivedIn(Append(s, c)) = ArrivedIn(s) \cup {c.id}
                        /\ AckedIn(Append(s, c)) = AckedIn(s)
           /\ ~c.recv => /\ AckedIn(Append(s, c)) = AckedIn(s) \cup {c.id}
                         /\ ArrivedIn(Append(s, c)) = ArrivedIn(s)
           /\ OnceIds(Append(s, c))
  <1> DEFINE t == Append(s, c)
  <1>0. c.id \in Ids /\ c.recv \in BOOLEAN
    BY ZenonT(40) DEF Completions
  <1>1. /\ t \in Seq(Completions) /\ t[Len(s) + 1] = c
        /\ Len(s) + 1 \in DOMAIN t /\ Len(s) + 1 \notin DOMAIN s
        /\ \A i \in DOMAIN s : i \in DOMAIN t /\ t[i] = s[i]
        /\ \A i \in DOMAIN t : i \in DOMAIN s \/ i = Len(s) + 1
    BY ZenonT(40), AppendAt
  <1>2. \A i \in DOMAIN s : s[i].id # c.id
    BY <1>0, ZenonT(20) DEF AckedIn, ArrivedIn
  <1> HIDE DEF t
  <1>3. ASSUME c.recv
        PROVE  \A x : /\ x \in ArrivedIn(t) <=> x \in ArrivedIn(s) \cup {c.id}
                      /\ x \in AckedIn(t) <=> x \in AckedIn(s)
    <2>1. \A x : x \in ArrivedIn(t) <=> x \in ArrivedIn(s) \cup {c.id}
      BY <1>0, <1>1, <1>3, ZenonT(20) DEF ArrivedIn
    <2>2. \A x : x \in AckedIn(t) <=> x \in AckedIn(s)
      BY <1>0, <1>1, <1>3, ZenonT(20) DEF AckedIn
    <2> QED
      BY ZenonT(40), <2>1, <2>2
  <1>4. ASSUME ~c.recv
        PROVE  \A x : /\ x \in AckedIn(t) <=> x \in AckedIn(s) \cup {c.id}
                      /\ x \in ArrivedIn(t) <=> x \in ArrivedIn(s)
    <2>1. \A x : x \in AckedIn(t) <=> x \in AckedIn(s) \cup {c.id}
      BY <1>0, <1>1, <1>4, ZenonT(20) DEF AckedIn
    <2>2. \A x : x \in ArrivedIn(t) <=> x \in ArrivedIn(s)
      BY <1>0, <1>1, <1>4, ZenonT(20) DEF ArrivedIn
    <2> QED
      BY ZenonT(40), <2>1, <2>2
  <1>5. OnceIds(t)
    BY ZenonT(40), <1>1, <1>2 DEF OnceIds
  <1> QED
    BY ZenonT(40), <1>1, <1>3, <1>4, <1>5 DEF t

(* ibv_poll_cq takes the oldest completion of a queue.                      *)
LEMMA CqTail ==
    ASSUME NEW s \in Seq(Completions), s # << >>, OnceIds(s)
    PROVE  LET c == Head(s)
           IN /\ Tail(s) \in Seq(Completions) /\ c \in Completions /\ c = s[1] /\ 1 \in DOMAIN s
              /\ c.recv => /\ c.id \in ArrivedIn(s)
                           /\ ArrivedIn(Tail(s)) = ArrivedIn(s) \ {c.id}
                           /\ AckedIn(Tail(s)) = AckedIn(s)
              /\ ~c.recv => /\ c.id \in AckedIn(s)
                            /\ AckedIn(Tail(s)) = AckedIn(s) \ {c.id}
                            /\ ArrivedIn(Tail(s)) = ArrivedIn(s)
              /\ OnceIds(Tail(s))
  <1>1. /\ 1 \in DOMAIN s /\ Head(s) = s[1] /\ s[1] \in Completions
        /\ Tail(s) \in Seq(Completions)
        /\ DOMAIN s \subseteq Int /\ DOMAIN Tail(s) \subseteq Int
        /\ \A i \in DOMAIN Tail(s) : i + 1 \in DOMAIN s /\ Tail(s)[i] = s[i + 1] /\ i + 1 # 1
        /\ \A i \in DOMAIN s : i # 1 => i - 1 \in DOMAIN Tail(s) /\ Tail(s)[i - 1] = s[i]
    BY TailAt
  <1>2. s[1].id \in Ids /\ s[1].recv \in BOOLEAN
    BY ZenonT(40), <1>1 DEF Completions
  <1> DEFINE t == Tail(s)
             c == s[1]
  <1>3. \A x : x \in AckedIn(t) => x \in AckedIn(s) /\ x # c.id
    <2> SUFFICES ASSUME NEW x \in AckedIn(t) PROVE x \in AckedIn(s) /\ x # c.id
      BY ZenonT(40)
    <2>1. PICK i \in DOMAIN t : t[i].id = x /\ ~t[i].recv
      BY ZenonT(40) DEF AckedIn
    <2>2. i + 1 \in DOMAIN s /\ s[i + 1].id = x /\ ~s[i + 1].recv /\ i + 1 # 1 /\ x \in Ids
      BY ZenonT(40), <1>1, <2>1 DEF AckedIn
    <2> QED
      BY <1>1, <2>2, ZenonT(20) DEF AckedIn, OnceIds
  <1>4. \A x : x \in ArrivedIn(t) => x \in ArrivedIn(s) /\ x # c.id
    <2> SUFFICES ASSUME NEW x \in ArrivedIn(t) PROVE x \in ArrivedIn(s) /\ x # c.id
      BY ZenonT(40)
    <2>1. PICK i \in DOMAIN t : t[i].id = x /\ t[i].recv
      BY ZenonT(40) DEF ArrivedIn
    <2>2. i + 1 \in DOMAIN s /\ s[i + 1].id = x /\ s[i + 1].recv /\ i + 1 # 1 /\ x \in Ids
      BY ZenonT(40), <1>1, <2>1 DEF ArrivedIn
    <2> QED
      BY <1>1, <2>2, ZenonT(20) DEF ArrivedIn, OnceIds
  <1>5. \A x : x \in AckedIn(s) /\ (x # c.id \/ c.recv) => x \in AckedIn(t)
    <2> SUFFICES ASSUME NEW x \in AckedIn(s), x # c.id \/ c.recv PROVE x \in AckedIn(t)
      BY ZenonT(40)
    <2>1. PICK i \in DOMAIN s : s[i].id = x /\ ~s[i].recv
      BY ZenonT(40) DEF AckedIn
    <2>2. i # 1 /\ x \in Ids
      BY ZenonT(40), <2>1 DEF AckedIn
    <2> QED
      BY <1>1, <2>1, <2>2, ZenonT(20) DEF AckedIn
  <1>6. \A x : x \in ArrivedIn(s) /\ (x # c.id \/ ~c.recv) => x \in ArrivedIn(t)
    <2> SUFFICES ASSUME NEW x \in ArrivedIn(s), x # c.id \/ ~c.recv PROVE x \in ArrivedIn(t)
      BY ZenonT(40)
    <2>1. PICK i \in DOMAIN s : s[i].id = x /\ s[i].recv
      BY ZenonT(40) DEF ArrivedIn
    <2>2. i # 1 /\ x \in Ids
      BY ZenonT(40), <2>1 DEF ArrivedIn
    <2> QED
      BY <1>1, <2>1, <2>2, ZenonT(20) DEF ArrivedIn
  <1>7. OnceIds(t)
    BY <1>1, SMTT(20) DEF OnceIds
  <1>8. /\ c.recv => c.id \in ArrivedIn(s) /\ c.id \notin AckedIn(s)
        /\ ~c.recv => c.id \in AckedIn(s) /\ c.id \notin ArrivedIn(s)
    BY <1>1, <1>2, ZenonT(20) DEF ArrivedIn, AckedIn, OnceIds
  <1> HIDE DEF t, c
  <1>9. /\ c.recv => ArrivedIn(t) = ArrivedIn(s) \ {c.id} /\ AckedIn(t) = AckedIn(s)
        /\ ~c.recv => AckedIn(t) = AckedIn(s) \ {c.id} /\ ArrivedIn(t) = ArrivedIn(s)
    BY ZenonT(40), <1>3, <1>4, <1>5, <1>6, <1>8
  <1> QED
    BY ZenonT(40), <1>1, <1>7, <1>8, <1>9 DEF t, c

(* A call is put on top of a stack.                                         *)
LEMMA FramePush ==
    ASSUME NEW s \in Seq(Frames), NEW f \in Frames
    PROVE  /\ <<f>> \o s \in Seq(Frames)
           /\ f.at # "finish" => /\ FinishIn(<<f>> \o s) = FinishIn(s)
                                 /\ OnceFinish(s) => OnceFinish(<<f>> \o s)
           /\ f.at = "finish" =>
                 /\ FinishIn(<<f>> \o s) = FinishIn(s) \cup {f.id}
                 /\ OnceFinish(s) /\ f.id \notin FinishIn(s) => OnceFinish(<<f>> \o s)
           /\ f.at # "repost" => Depths(<<f>> \o s) = Depths(s)
           /\ f.at = "repost" => Depths(<<f>> \o s) = Depths(s) \cup {Len(s)}
           /\ Len(s) \notin Depths(s)
  <1> DEFINE t == <<f>> \o s
  <1>1. /\ t \in Seq(Frames)
        /\ DOMAIN t = 1 .. Len(s) + 1
        /\ Len(s) \in Nat /\ DOMAIN s = 1 .. Len(s)
        /\ Len(t) = Len(s) + 1
        /\ t[1] = f
        /\ \A i \in DOMAIN s : i + 1 \in DOMAIN t /\ t[i + 1] = s[i]
        /\ \A i \in DOMAIN t : i # 1 => i - 1 \in DOMAIN s /\ t[i] = s[i - 1]
    BY PushAt
  <1>2. \A i \in DOMAIN s : s[i] \in Frames
    BY <1>1
  <1>3. \A g \in Frames : g.at = "finish" => g.id \in Ids
    BY ZenonT(40) DEF Frames
  <1> HIDE DEF t
  <1>4. \A x : x \in FinishIn(t) <=> x \in FinishIn(s) \/ (f.at = "finish" /\ x = f.id)
    <2>1. ASSUME NEW x \in FinishIn(t)
          PROVE  x \in FinishIn(s) \/ (f.at = "finish" /\ x = f.id)
      <3>1. PICK i \in DOMAIN t : t[i].at = "finish" /\ t[i].id = x /\ x \in Ids
        BY ZenonT(40) DEF FinishIn
      <3> QED
        BY <1>1, <3>1, ZenonT(20) DEF FinishIn
    <2>2. ASSUME NEW x \in FinishIn(s)
          PROVE  x \in FinishIn(t)
      <3>1. PICK i \in DOMAIN s : s[i].at = "finish" /\ s[i].id = x /\ x \in Ids
        BY ZenonT(40) DEF FinishIn
      <3> QED
        BY <1>1, <3>1, ZenonT(20) DEF FinishIn
    <2>3. ASSUME f.at = "finish"
          PROVE  f.id \in FinishIn(t)
      <3>1. 1 \in DOMAIN t /\ f.id \in Ids
        BY <1>1, <1>3, <2>3
      <3> QED
        BY <1>1, <2>3, <3>1, ZenonT(20) DEF FinishIn
    <2> QED
      BY ZenonT(40), <2>1, <2>2, <2>3
  <1>5. ASSUME OnceFinish(s), f.at # "finish" \/ f.id \notin FinishIn(s)
        PROVE  OnceFinish(t)
    <2> SUFFICES ASSUME NEW i \in DOMAIN t, NEW j \in DOMAIN t,
                        t[i].at = "finish", t[j].at = "finish", t[i].id = t[j].id
                 PROVE  i = j
      BY ZenonT(40) DEF OnceFinish
    <2>1. CASE i = 1 /\ j # 1
      <3>1. j - 1 \in DOMAIN s /\ s[j - 1] = t[j] /\ t[1] = f /\ f.id \in Ids
        BY ZenonT(40), <1>1, <1>3, <2>1
      <3>2. f.id \in FinishIn(s)
        BY <2>1, <3>1, ZenonT(20) DEF FinishIn
      <3> QED
        BY ZenonT(40), <1>5, <2>1, <3>1, <3>2
    <2>2. CASE i # 1 /\ j = 1
      <3>1. i - 1 \in DOMAIN s /\ s[i - 1] = t[i] /\ t[1] = f /\ f.id \in Ids
        BY ZenonT(40), <1>1, <1>3, <2>2
      <3>2. f.id \in FinishIn(s)
        BY <2>2, <3>1, ZenonT(20) DEF FinishIn
      <3> QED
        BY ZenonT(40), <1>5, <2>2, <3>1, <3>2
    <2>3. CASE i # 1 /\ j # 1
      <3>1. i - 1 \in DOMAIN s /\ s[i - 1] = t[i] /\ j - 1 \in DOMAIN s /\ s[j - 1] = t[j]
        BY ZenonT(40), <1>1, <2>3
      <3>2. i - 1 = j - 1
        BY ZenonT(40), <1>5, <3>1 DEF OnceFinish
      <3> QED
        BY <1>1, <3>2
    <2> QED
      BY ZenonT(40), <2>1, <2>2, <2>3
  <1>6. \A x : x \in Depths(t) <=> x \in Depths(s) \/ (f.at = "repost" /\ x = Len(s))
    <2>1. ASSUME NEW x \in Depths(t)
          PROVE  x \in Depths(s) \/ (f.at = "repost" /\ x = Len(s))
      <3>1. PICK i \in DOMAIN t : t[i].at = "repost" /\ x = Len(t) - i
        BY ZenonT(40) DEF Depths
      <3>2. CASE i = 1
        BY <1>1, <3>1, <3>2
      <3>3. CASE i # 1
        <4>1. i - 1 \in DOMAIN s /\ s[i - 1].at = "repost" /\ x = Len(s) - (i - 1)
          BY SMTT(30), <1>1, <3>1, <3>3
        <4> QED
          BY <4>1, ZenonT(20) DEF Depths
      <3> QED
        BY ZenonT(40), <3>2, <3>3
    <2>2. ASSUME NEW x \in Depths(s)
          PROVE  x \in Depths(t)
      <3>1. PICK i \in DOMAIN s : s[i].at = "repost" /\ x = Len(s) - i
        BY ZenonT(40) DEF Depths
      <3>2. i + 1 \in DOMAIN t /\ t[i + 1].at = "repost" /\ x = Len(t) - (i + 1)
        BY <1>1, <3>1
      <3> QED
        BY <3>2, ZenonT(20) DEF Depths
    <2>3. ASSUME f.at = "repost"
          PROVE  Len(s) \in Depths(t)
      <3>1. 1 \in DOMAIN t /\ t[1].at = "repost" /\ Len(s) = Len(t) - 1
        BY <1>1, <2>3
      <3> QED
        BY <3>1, ZenonT(20) DEF Depths
    <2> QED
      BY ZenonT(40), <2>1, <2>2, <2>3
  <1>7. Len(s) \notin Depths(s)
    BY <1>1 DEF Depths
  <1>8. /\ f.at # "finish" => FinishIn(t) = FinishIn(s)
        /\ f.at = "finish" => FinishIn(t) = FinishIn(s) \cup {f.id}
    BY ZenonT(40), <1>4
  <1>9. /\ f.at # "repost" => Depths(t) = Depths(s)
        /\ f.at = "repost" => Depths(t) = Depths(s) \cup {Len(s)}
    BY ZenonT(40), <1>6
  <1> QED
    BY ZenonT(40), <1>1, <1>5, <1>7, <1>8, <1>9 DEF t

(* The call on top of a stack returns.                                      *)
LEMMA FramePop ==
    ASSUME NEW s \in Seq(Frames), s # << >>
    PROVE  /\ Tail(s) \in Seq(Frames) /\ Head(s) \in Frames
           /\ s = <<Head(s)>> \o Tail(s)
           /\ OnceFinish(s) => OnceFinish(Tail(s))
           /\ OnceFinish(s) /\ Head(s).at = "finish" => Head(s).id \notin FinishIn(Tail(s))
           /\ Head(s).at = "finish" => Head(s).id \in FinishIn(s)
  <1>1. /\ 1 \in DOMAIN s /\ Head(s) = s[1] /\ s[1] \in Frames /\ Tail(s) \in Seq(Frames)
        /\ DOMAIN s = 1 .. Len(s) /\ Len(s) \in Nat /\ DOMAIN Tail(s) = 1 .. Len(s) - 1
        /\ Len(Tail(s)) = Len(s) - 1
        /\ \A i \in DOMAIN Tail(s) : i + 1 \in DOMAIN s /\ Tail(s)[i] = s[i + 1] /\ i + 1 # 1
        /\ \A i \in DOMAIN s : i # 1 => i - 1 \in DOMAIN Tail(s) /\ Tail(s)[i - 1] = s[i]
    BY ZenonT(40), TailAt
  <1> DEFINE t == Tail(s)
             u == <<Head(s)>> \o Tail(s)
  <1>2. /\ u \in Seq(Frames) /\ Len(u) = Len(t) + 1 /\ u[1] = Head(s) /\ DOMAIN u = 1 .. Len(t) + 1
        /\ \A i \in DOMAIN u : i # 1 => i - 1 \in DOMAIN t /\ u[i] = t[i - 1]
    BY <1>1, PushAt
  <1> HIDE DEF t, u
  <1>3. s = u
    <2>1. Len(s) = Len(u)
      BY <1>1, <1>2 DEF t
    <2>2. \A i \in 1 .. Len(s) : s[i] = u[i]
      BY <1>1, <1>2 DEF t
    <2> QED
      BY <1>1, <1>2, <2>1, <2>2
  <1>4. OnceFinish(s) => OnceFinish(Tail(s))
    BY <1>1, SMTT(20) DEF OnceFinish
  <1>5. OnceFinish(s) /\ Head(s).at = "finish" => Head(s).id \notin FinishIn(Tail(s))
    <2> SUFFICES ASSUME OnceFinish(s), Head(s).at = "finish", Head(s).id \in FinishIn(Tail(s))
                 PROVE  FALSE
      BY ZenonT(40)
    <2>1. PICK i \in DOMAIN Tail(s) : Tail(s)[i].at = "finish" /\ Tail(s)[i].id = Head(s).id
      BY ZenonT(40) DEF FinishIn
    <2>2. i + 1 \in DOMAIN s /\ s[i + 1].at = "finish" /\ s[i + 1].id = s[1].id /\ i + 1 # 1
      BY ZenonT(40), <1>1, <2>1
    <2> QED
      BY <1>1, <2>2, ZenonT(20) DEF OnceFinish
  <1>6. Head(s).at = "finish" => Head(s).id \in FinishIn(s)
    <2>1. Head(s).at = "finish" => Head(s).id \in Ids
      BY ZenonT(40), <1>1 DEF Frames
    <2> QED
      BY <1>1, <2>1, ZenonT(20) DEF FinishIn
  <1> QED
    BY ZenonT(40), <1>1, <1>3, <1>4, <1>5, <1>6 DEF u

-----------------------------------------------------------------------------
(* Where a request is.                                                      *)

(* Every variable has its type.                                             *)
Typed ==
    /\ todo \subseteq Ops
    /\ req \in [Ids -> Requests \cup {None}]
    /\ req_list \in [Ends -> Seq(Ids)]
    /\ posted \in [Ends -> Int]
    /\ num_recv \in [Ends -> Nat]
    /\ stack \in [Ends -> Seq(Frames)]
    /\ sq \in [Ends -> Seq(Works)]
    /\ cq \in [Ends -> Seq(Completions)]
    /\ armed \in [Ends -> BOOLEAN] /\ event \in [Ends -> BOOLEAN]
    /\ issued \in [Ends -> Seq(Ids)]
    /\ handled \in [Ends -> Seq(Ids)]
    /\ lost \subseteq Ids

(* The requests that were allocated.                                        *)
Known == {id \in Ids : req[id] # None}

(* The requests in a send list.                                             *)
Listed == {id \in Ids : \E p \in Ends : id \in Range(req_list[p])}

(* The requests in a send queue that have had no effect.                    *)
Unsent == {id \in Ids : \E p \in Ends : id \in UnsentIn(sq[p])}

(* The requests in a send queue that took effect and are not acknowledged.  *)
Sent == {id \in Ids : \E p \in Ends : id \in SentIn(sq[p])}

(* The requests whose send completion has not been polled.                  *)
Acked == {id \in Ids : \E p \in Ends : id \in AckedIn(cq[p])}

(* The transfers that rpc_cb_req_completion is about to free.               *)
Ending == {id \in Ids : \E p \in Ends : id \in FinishIn(stack[p])}

(* The messages whose receive completion has not been polled.               *)
Arrived == {id \in Ids : \E p \in Ends : id \in ArrivedIn(cq[p])}

(* The messages that rpc_cb_decode handled.                                 *)
Decoded == {id \in Ids : \E p \in Ends : id \in Range(handled[p])}

(* The requests that a work request refers to, or did before ibv_post_send  *)
(* refused it.                                                              *)
InWork == Unsent \cup Sent \cup Acked \cup lost

(* A request is at one place on its way: the send list, the send queue, the *)
(* completion queue and the call that frees it exclude each other, and a    *)
(* message arrives, and is decoded, once.                                   *)
Apart ==
    /\ Listed \cap (InWork \cup Ending) = {}
    /\ Unsent \cap (Sent \cup Acked \cup lost \cup Ending) = {}
    /\ Sent \cap (Acked \cup lost \cup Ending) = {}
    /\ Acked \cap (lost \cup Ending) = {}
    /\ lost \cap Ending = {}
    /\ Arrived \cap (Listed \cup Unsent \cup lost \cup Decoded) = {}
    /\ Decoded \cap (Listed \cup Unsent \cup lost) = {}
    /\ Listed \cup InWork \cup Ending \cup Arrived \cup Decoded \subseteq Known

(* A message that was issued is on its way, refused, or there.              *)
Pipeline(id) == id \in Listed \cup Unsent \cup lost \cup Arrived \cup Decoded

(* The requests of one operation exist in the order command, transfer or    *)
(* answer, peer_rdma_done, and each comes from the one before.              *)
StageOf(o) ==
    /\ o \in todo => <<o, "cmd">> \notin Known
    /\ <<o, "xfer">> \in Known => <<o, "cmd">> \in Decoded /\ Kind[o] \in {"push", "pull"}
    /\ <<o, "reply">> \in Known => <<o, "cmd">> \in Decoded /\ Kind[o] = "ask"
    /\ <<o, "done">> \in Known => <<o, "xfer">> \in Known \ InWork

(* Every message is on its way and every operation at one of its stages.    *)
Stages ==
    /\ \A id \in Listed \cup Arrived \cup Decoded : id[2] # "xfer"
    /\ \A id \in Ending : id[2] = "xfer"
    /\ \A id \in Known : id[2] # "xfer" => Pipeline(id)
    /\ \A o \in Ops : StageOf(o)

(* The command of the request has a data buffer that its owner still needs. *)
NeedsData(id) == HasData(id) /\ <<id[1], "done">> \notin Decoded

(* refcont of a request is the number of work requests and data transfers   *)
(* that refer to it; the request is freed, by one call of its callback,     *)
(* when there is none, and its data are registered as long as they are      *)
(* needed.                                                                  *)
CountOf(id) ==
    /\ id \in Listed => req[id].refcont = 0 /\ req[id].live /\ req[id].cbs = 0
    /\ id \notin Listed =>
          /\ req[id].refcont = (IF id \in InWork THEN 1 ELSE 0) + (IF NeedsData(id) THEN 1 ELSE 0)
          /\ req[id].live <=> (id \in InWork \cup Ending \/ NeedsData(id))
          /\ req[id].cbs = IF req[id].live THEN 0 ELSE 1
          /\ NeedsData(id) => req[id].data_mr

(* Every request is counted right.                                          *)
Counted == \A id \in Known : CountOf(id)

(* The buffer of a pushed command has its data from the start, and the      *)
(* buffer on the receiving side has them once the transfer took effect.     *)
FillOf(o) ==
    /\ Kind[o] = "push" /\ <<o, "cmd">> \in Known => req[<<o, "cmd">>].full
    /\ <<o, "xfer">> \in Known \ (Unsent \cup lost) =>
          req[<<o, IF Kind[o] = "push" THEN "xfer" ELSE "cmd">>].full

(* The data are where they should be.                                       *)
Filled == \A o \in Ops : FillOf(o)

(* The part of the inductive invariant that speaks of the places of the     *)
(* requests and not of the queues they stand in.                            *)
Places == Apart /\ Stages /\ Counted /\ Filled

-----------------------------------------------------------------------------
(* What each step does to the places of the requests.                       *)

(* A step that does not touch a request keeps its count right.              *)
LEMMA SameCount ==
    ASSUME NEW x, CountOf(x), req'[x] = req[x],
           x \in Listed' <=> x \in Listed, x \in InWork' <=> x \in InWork,
           x \in Ending' <=> x \in Ending, NeedsData(x)' <=> NeedsData(x)
    PROVE  CountOf(x)'
  BY ZenonT(40) DEF CountOf

(* A step that keeps the buffers of an operation keeps its data in place.   *)
LEMMA SameFill ==
    ASSUME NEW o \in Ops, FillOf(o),
           \A r \in {"cmd", "xfer"} : <<o, r>> \in Known' =>
               <<o, r>> \in Known /\ req'[<<o, r>>].full = req[<<o, r>>].full,
           <<o, "xfer">> \in Known' => <<o, "cmd">> \in Known',
           <<o, "xfer">> \notin Unsent' \cup lost' => <<o, "xfer">> \notin Unsent \cup lost
    PROVE  FillOf(o)'
  BY ZenonT(40) DEF FillOf

(* A request is named by its operation and its role.                        *)
LEMMA IdParts ==
    ASSUME NEW id \in Ids
    PROVE  id[1] \in Ops /\ id[2] \in Roles /\ id = <<id[1], id[2]>>
  BY DEF Ids

(* Every role of an operation names a request.                              *)
LEMMA OpIds ==
    ASSUME NEW o \in Ops
    PROVE  \A r \in Roles : <<o, r>> \in Ids /\ <<o, r>>[1] = o /\ <<o, r>>[2] = r
  BY ZenonT(40) DEF Ids

(* The data of a command are needed while its peer_rdma_done is not         *)
(* decoded, which is so in particular before it is decoded itself.          *)
LEMMA DataNeeded ==
    ASSUME Places, NEW id \in Ids, id \notin Decoded, HasData(id)
    PROVE  NeedsData(id)
  <1>1. id = <<id[1], "cmd">> /\ id[1] \in Ops
    BY ZenonT(40), IdParts DEF HasData
  <1>2. <<id[1], "xfer">> \notin Known
    BY ZenonT(40), <1>1 DEF Places, Stages, StageOf
  <1> QED
    BY ZenonT(40), <1>1, <1>2 DEF Places, Stages, StageOf, Apart, NeedsData

(* peer_process_send_list: the request at the head of the list is prepared  *)
(* and posted.                                                              *)
LEMMA PostKept ==
    ASSUME Typed, Places, NEW id \in Listed,
           Listed' = Listed \ {id},
           \/ Unsent' = Unsent \cup {id} /\ lost' = lost
           \/ Unsent' = Unsent /\ lost' = lost \cup {id},
           Sent' = Sent, Acked' = Acked, Ending' = Ending, Arrived' = Arrived,
           Decoded' = Decoded, todo' = todo,
           req' = rpc_post_request(IF HasData(id) THEN rpc_prepare_buffers(req, id) ELSE req, id)
    PROVE  req' \in [Ids -> Requests \cup {None}] /\ Places'
  <1>1. id \in Ids /\ id \in Known /\ req[id] # None
    BY ZenonT(40) DEF Places, Apart, Known
  <1>2. /\ req[id] \in Requests /\ id[2] # "xfer"
        /\ req[id].refcont = 0 /\ req[id].live /\ req[id].cbs = 0
    BY ZenonT(40), <1>1 DEF Places, Typed, Stages, Counted, CountOf
  <1>3. /\ req' \in [Ids -> Requests \cup {None}]
        /\ \A j \in Ids : j # id => req'[j] = req[j]
        /\ req'[id] \in Requests
        /\ req'[id].refcont = IF HasData(id) THEN 2 ELSE 1
        /\ req'[id].live /\ req'[id].cbs = 0 /\ req'[id].full = req[id].full
        /\ HasData(id) => req'[id].data_mr
    BY <1>1, <1>2, SMTT(30) DEF Typed, rpc_post_request, rpc_prepare_buffers, Requests
  <1>4. Known' = Known /\ Known \subseteq Ids
    BY <1>1, <1>3, IbRpcAssumption DEF Known
  <1>5. InWork' = InWork \cup {id}
    BY ZenonT(40) DEF InWork
  <1>6. id \notin InWork /\ id \notin Decoded /\ id \notin Arrived /\ id \notin Ending
    BY ZenonT(40) DEF Places, Apart
  <1>7. \A y : NeedsData(y)' <=> NeedsData(y)
    BY ZenonT(40) DEF NeedsData
  <1>8. Apart'
    BY <1>1, <1>4, <1>5, <1>6 DEF Places, Apart, InWork
  <1>9. Stages'
    BY <1>2, <1>4, <1>5 DEF Places, Stages, StageOf, Pipeline
  <1>10. ASSUME NEW x \in Known' PROVE CountOf(x)'
    <2>1. CASE x # id
      BY ZenonT(40), <1>3, <1>4, <1>5, <1>7, <2>1, SameCount DEF Places, Counted
    <2>2. CASE x = id
      <3>1. NeedsData(id) <=> HasData(id)
        BY ZenonT(40), <1>1, <1>6, DataNeeded DEF NeedsData
      <3> QED
        BY <1>3, <1>5, <1>6, <1>7, <2>2, <3>1 DEF CountOf
    <2> QED
      BY ZenonT(40), <2>1, <2>2
  <1>11. ASSUME NEW o \in Ops PROVE FillOf(o)'
    <2>1. \A r \in {"cmd", "xfer"} : <<o, r>> \in Known' =>
             <<o, r>> \in Known /\ req'[<<o, r>>].full = req[<<o, r>>].full
      BY ZenonT(40), <1>3, <1>4
    <2>2. <<o, "xfer">> \in Known' => <<o, "cmd">> \in Known'
      BY ZenonT(40), <1>4 DEF Places, Stages, StageOf, Apart
    <2>3. <<o, "xfer">> \notin Unsent' \cup lost' => <<o, "xfer">> \notin Unsent \cup lost
      BY ZenonT(40)
    <2> QED
      BY ZenonT(40), <2>1, <2>2, <2>3, SameFill DEF Places, Filled
  <1> QED
    BY ZenonT(40), <1>3, <1>8, <1>9, <1>10, <1>11 DEF Places, Counted, Filled

(* rpc_send: a command is allocated and joins the send list.                *)
LEMMA IssueKept ==
    ASSUME Typed, Places, NEW o \in todo,
           todo' = todo \ {o},
           Listed' = Listed \cup {<<o, "cmd">>},
           Unsent' = Unsent, lost' = lost, Sent' = Sent, Acked' = Acked, Ending' = Ending,
           Arrived' = Arrived, Decoded' = Decoded,
           req' = Allocate(req, <<o, "cmd">>)
    PROVE  req' \in [Ids -> Requests \cup {None}] /\ Places'
  <1> DEFINE id == <<o, "cmd">>
  <1>1. o \in Ops /\ id \in Ids /\ id[1] = o /\ id[2] = "cmd"
    BY ZenonT(40), OpIds DEF Typed, Roles
  <1>2. id \notin Known
    BY ZenonT(40), <1>1 DEF Places, Stages, StageOf
  <1> HIDE DEF id
  <1>3. /\ req' \in [Ids -> Requests \cup {None}]
        /\ \A j \in Ids : j # id => req'[j] = req[j]
        /\ req'[id] \in Requests
        /\ req'[id].refcont = 0 /\ req'[id].live /\ req'[id].cbs = 0
        /\ req'[id].full = (Kind[o] = "push")
    BY <1>1, SMTT(30) DEF Typed, Allocate, NewRequest, Requests, id
  <1>4. Known' = Known \cup {id} /\ Known \subseteq Ids
    BY <1>1, <1>3, IbRpcAssumption DEF Known
  <1>5. InWork' = InWork
    BY ZenonT(40) DEF InWork
  <1>6. /\ id \notin InWork /\ id \notin Decoded /\ id \notin Arrived /\ id \notin Ending
        /\ id \notin Listed
    BY ZenonT(40), <1>2 DEF Places, Apart
  <1>7. \A y : NeedsData(y)' <=> NeedsData(y)
    BY ZenonT(40) DEF NeedsData
  <1>8. Apart'
    BY <1>1, <1>2, <1>4, <1>5, <1>6 DEF Places, Apart, InWork, id
  <1>9. Stages'
    <2>1. ASSUME NEW q \in Ops PROVE StageOf(q)'
      <3>1. \A r \in {"xfer", "reply", "done"} : <<q, r>> \in Known' => <<q, r>> \in Known
        BY ZenonT(40), <1>4 DEF id
      <3>2. q # o => (<<q, "cmd">> \in Known' => <<q, "cmd">> \in Known)
        BY ZenonT(40), <1>4 DEF id
      <3> QED
        BY ZenonT(40), <1>4, <1>5, <3>1, <3>2 DEF Places, Stages, StageOf
    <2>2. \A x \in Known' : x[2] # "xfer" => Pipeline(x)'
      BY ZenonT(40), <1>4 DEF Places, Stages, Pipeline, id
    <2>3. /\ \A x \in Listed' \cup Arrived' \cup Decoded' : x[2] # "xfer"
          /\ \A x \in Ending' : x[2] = "xfer"
      BY ZenonT(40), <1>1 DEF Places, Stages, id
    <2> QED
      BY ZenonT(40), <2>1, <2>2, <2>3 DEF Stages
  <1>10. ASSUME NEW x \in Known' PROVE CountOf(x)'
    <2>1. CASE x # id
      BY ZenonT(40), <1>3, <1>4, <1>5, <1>7, <2>1, SameCount DEF Places, Counted, id
    <2>2. CASE x = id
      BY ZenonT(40), <1>3, <2>2 DEF CountOf, id
    <2> QED
      BY ZenonT(40), <2>1, <2>2
  <1>11. ASSUME NEW q \in Ops PROVE FillOf(q)'
    <2>1. <<q, "xfer">> \in Known' => <<q, "xfer">> \in Known /\ req'[<<q, "xfer">>] = req[<<q, "xfer">>]
      BY ZenonT(40), <1>3, <1>4 DEF id
    <2>2. <<q, "xfer">> \in Known => <<q, "cmd">> \in Known
      BY ZenonT(40) DEF Places, Stages, StageOf, Apart
    <2>3. CASE q # o
      <3>1. <<q, "cmd">> \in Known' => <<q, "cmd">> \in Known /\ req'[<<q, "cmd">>] = req[<<q, "cmd">>]
        BY ZenonT(40), <1>3, <1>4, <2>3 DEF id
      <3> QED
        BY ZenonT(40), <1>4, <2>1, <2>2, <3>1, SameFill DEF Places, Filled
    <2>4. CASE q = o
      <3>1. <<o, "xfer">> \notin Known
        BY ZenonT(40), <1>1, <1>6 DEF Places, Stages, StageOf, id
      <3> QED
        BY ZenonT(40), <1>3, <2>1, <2>4, <3>1 DEF FillOf, id
    <2> QED
      BY ZenonT(40), <2>3, <2>4
  <1> QED
    BY ZenonT(40), <1>3, <1>8, <1>9, <1>10, <1>11 DEF Places, Counted, Filled

(* A message takes effect: it leaves the send queue and arrives.            *)
LEMMA SendKept ==
    ASSUME Typed, Places, NEW id \in Unsent, id[2] # "xfer",
           Unsent' = Unsent \ {id}, Sent' = Sent \cup {id}, Arrived' = Arrived \cup {id},
           Listed' = Listed, lost' = lost, Acked' = Acked, Ending' = Ending,
           Decoded' = Decoded, todo' = todo, req' = req
    PROVE  Places'
  <1>1. id \in Known /\ Known' = Known
    BY ZenonT(40) DEF Places, Apart, Known, InWork
  <1>2. InWork' = InWork
    BY ZenonT(40) DEF InWork
  <1>3. \A y : NeedsData(y)' <=> NeedsData(y)
    BY ZenonT(40) DEF NeedsData
  <1>4. Apart'
    BY <1>1, <1>2 DEF Places, Apart, InWork
  <1>5. Stages'
    BY ZenonT(40), <1>1, <1>2 DEF Places, Stages, StageOf, Pipeline
  <1>6. ASSUME NEW x \in Known' PROVE CountOf(x)'
    BY ZenonT(40), <1>1, <1>2, <1>3, SameCount DEF Places, Counted
  <1>7. ASSUME NEW q \in Ops PROVE FillOf(q)'
    <2>1. <<q, "xfer">> # id
      OBVIOUS
    <2>2. <<q, "xfer">> \in Known => <<q, "cmd">> \in Known
      BY ZenonT(40) DEF Places, Stages, StageOf, Apart
    <2> QED
      BY ZenonT(40), <1>1, <2>1, <2>2, SameFill DEF Places, Filled
  <1> QED
    BY ZenonT(40), <1>4, <1>5, <1>6, <1>7 DEF Places, Counted, Filled

(* The device reads or writes the data of an operation.                     *)
LEMMA CopyKept ==
    ASSUME Typed, Places, NEW id \in Unsent, id[2] = "xfer",
           Unsent' = Unsent \ {id}, Sent' = Sent \cup {id}, Arrived' = Arrived,
           Listed' = Listed, lost' = lost, Acked' = Acked, Ending' = Ending,
           Decoded' = Decoded, todo' = todo,
           req' = IF Kind[id[1]] = "push" THEN [req EXCEPT ![id].full = req[Cmd(id)].full]
                  ELSE [req EXCEPT ![Cmd(id)].full = TRUE]
    PROVE  req' \in [Ids -> Requests \cup {None}] /\ Places'
  <1> DEFINE o == id[1]
  <1>1. id \in Known /\ id \in Ids /\ o \in Ops /\ id = <<o, "xfer">> /\ req[id] # None
    BY ZenonT(40), IdParts DEF Places, Apart, Known, InWork
  <1>2. <<o, "cmd">> \in Decoded /\ Kind[o] \in {"push", "pull"}
    BY ZenonT(40), <1>1 DEF Places, Stages, StageOf
  <1>3. <<o, "cmd">> \in Known /\ <<o, "cmd">> \in Ids /\ Cmd(id) = <<o, "cmd">>
    BY ZenonT(40), <1>2 DEF Places, Apart, Known, Cmd
  <1> DEFINE to == IF Kind[o] = "push" THEN id ELSE <<o, "cmd">>
  <1>4. to \in Known /\ to \in Ids /\ req[to] \in Requests /\ req[<<o, "cmd">>] \in Requests
    BY ZenonT(40), <1>1, <1>3 DEF Typed, Known
  <1>5. req' = [req EXCEPT ![to].full = TRUE]
    <2>1. Kind[o] = "push" => req[<<o, "cmd">>].full
      BY ZenonT(40), <1>1, <1>3 DEF Places, Filled, FillOf
    <2>2. req[<<o, "cmd">>].full \in BOOLEAN
      BY ZenonT(40), <1>4 DEF Requests
    <2> QED
      BY ZenonT(40), <1>2, <1>3, <2>1, <2>2
  <1> HIDE DEF to
  <1>6. /\ req' \in [Ids -> Requests \cup {None}]
        /\ \A j \in Ids : j # to => req'[j] = req[j]
        /\ req'[to] \in Requests
        /\ req'[to].refcont = req[to].refcont /\ req'[to].live = req[to].live
        /\ req'[to].cbs = req[to].cbs /\ req'[to].data_mr = req[to].data_mr
        /\ req'[to].full
    <2> DEFINE r == [req[to] EXCEPT !.full = TRUE]
    <2>1. /\ r \in Requests /\ r.refcont = req[to].refcont /\ r.live = req[to].live
          /\ r.cbs = req[to].cbs /\ r.data_mr = req[to].data_mr /\ r.full
      BY ZenonT(40), <1>4 DEF Requests
    <2>2. req' = [req EXCEPT ![to] = r]
      BY ZenonT(40), <1>5
    <2> HIDE DEF r
    <2>3. req \in [Ids -> Requests \cup {None}]
      BY ZenonT(40) DEF Typed
    <2>4. /\ req' \in [Ids -> Requests \cup {None}] /\ req'[to] = r
          /\ \A j \in Ids : j # to => req'[j] = req[j]
      BY ZenonT(40), <1>4, <2>1, <2>2, <2>3
    <2> QED
      BY ZenonT(40), <2>1, <2>4
  <1>7. Known' = Known /\ Known \subseteq Ids
    <2>1. req'[to] # None /\ req[to] # None
      BY ZenonT(40), <1>4, <1>6, IbRpcAssumption
    <2>2. \A y \in Ids : req'[y] # None <=> req[y] # None
      BY ZenonT(40), <1>4, <1>6, <2>1
    <2> QED
      BY ZenonT(40), <2>2 DEF Known
  <1>8. InWork' = InWork
    BY ZenonT(40) DEF InWork
  <1>9. \A y : NeedsData(y)' <=> NeedsData(y)
    BY ZenonT(40) DEF NeedsData
  <1>10. Apart'
    BY <1>1, <1>7, <1>8 DEF Places, Apart, InWork
  <1>11. Stages'
    BY ZenonT(40), <1>1, <1>7, <1>8 DEF Places, Stages, StageOf, Pipeline
  <1>12. ASSUME NEW x \in Known' PROVE CountOf(x)'
    <2>1. CASE x # to
      BY ZenonT(40), <1>6, <1>7, <1>8, <1>9, <2>1, SameCount DEF Places, Counted
    <2>2. CASE x = to
      <3>1. CountOf(to)
        BY ZenonT(40), <1>4 DEF Places, Counted
      <3> QED
        BY ZenonT(40), <1>6, <1>8, <1>9, <2>2, <3>1 DEF CountOf
    <2> QED
      BY ZenonT(40), <2>1, <2>2
  <1>13. ASSUME NEW q \in Ops PROVE FillOf(q)'
    <2>1. <<q, "xfer">> \in Known => <<q, "cmd">> \in Known
      BY ZenonT(40) DEF Places, Stages, StageOf, Apart
    <2>2. \A x \in Known : req[x].full => req'[x].full
      BY ZenonT(40), <1>6, <1>7
    <2>3. CASE q = o
      <3>1. <<q, IF Kind[q] = "push" THEN "xfer" ELSE "cmd">> = to
        BY ZenonT(40), <1>1, <2>3 DEF to
      <3> QED
        BY ZenonT(40), <1>6, <1>7, <2>1, <2>2, <3>1 DEF Places, Filled, FillOf
    <2>4. CASE q # o
      <3>1. <<q, "xfer">> # id
        BY <1>1, <2>4
      <3> QED
        BY ZenonT(40), <1>7, <2>1, <2>2, <3>1 DEF Places, Filled, FillOf
    <2> QED
      BY ZenonT(40), <2>3, <2>4
  <1> QED
    BY ZenonT(40), <1>6, <1>10, <1>11, <1>12, <1>13 DEF Places, Counted, Filled

(* A work request is acknowledged.                                          *)
LEMMA AckKept ==
    ASSUME Typed, Places, NEW id \in Sent,
           Sent' = Sent \ {id}, Acked' = Acked \cup {id},
           Unsent' = Unsent, Arrived' = Arrived, Listed' = Listed, lost' = lost,
           Ending' = Ending, Decoded' = Decoded, todo' = todo, req' = req
    PROVE  Places'
  <1>1. id \in Known /\ Known' = Known
    BY ZenonT(40) DEF Places, Apart, Known, InWork
  <1>2. InWork' = InWork
    BY ZenonT(40) DEF InWork
  <1>3. \A y : NeedsData(y)' <=> NeedsData(y)
    BY ZenonT(40) DEF NeedsData
  <1>4. Apart'
    BY <1>1, <1>2 DEF Places, Apart, InWork
  <1>5. Stages'
    BY ZenonT(40), <1>1, <1>2 DEF Places, Stages, StageOf, Pipeline
  <1>6. ASSUME NEW x \in Known' PROVE CountOf(x)'
    BY ZenonT(40), <1>1, <1>2, <1>3, SameCount DEF Places, Counted
  <1>7. ASSUME NEW q \in Ops PROVE FillOf(q)'
    <2>1. <<q, "xfer">> \in Known => <<q, "cmd">> \in Known
      BY ZenonT(40) DEF Places, Stages, StageOf, Apart
    <2> QED
      BY ZenonT(40), <1>1, <2>1, SameFill DEF Places, Filled
  <1> QED
    BY ZenonT(40), <1>4, <1>5, <1>6, <1>7 DEF Places, Counted, Filled

(* What Unreferenced does to the record of a request.                       *)
LEMMA UnreferencedFields ==
    ASSUME NEW rs \in [Ids -> Requests \cup {None}], NEW id \in Ids, rs[id] \in Requests
    PROVE  /\ Unreferenced(rs, id) \in [Ids -> Requests \cup {None}]
           /\ \A j \in Ids : j # id => Unreferenced(rs, id)[j] = rs[j]
           /\ Unreferenced(rs, id)[id] \in Requests
           /\ Unreferenced(rs, id)[id].refcont = rs[id].refcont - 1
           /\ Unreferenced(rs, id)[id].live = rs[id].live
           /\ Unreferenced(rs, id)[id].cbs = rs[id].cbs
           /\ Unreferenced(rs, id)[id].full = rs[id].full
           /\ Unreferenced(rs, id)[id].data_mr = rs[id].data_mr
  <1> DEFINE r == [rs[id] EXCEPT !.refcont = @ - 1]
  <1>1. /\ r \in Requests /\ r.refcont = rs[id].refcont - 1 /\ r.live = rs[id].live
        /\ r.cbs = rs[id].cbs /\ r.data_mr = rs[id].data_mr /\ r.full = rs[id].full
    BY DEF Requests
  <1>2. Unreferenced(rs, id) = [rs EXCEPT ![id] = r]
    BY ZenonT(40) DEF Unreferenced
  <1> HIDE DEF r
  <1> QED
    BY ZenonT(40), <1>1, <1>2

(* What Freed does to the record of a request: it counts as freed when      *)
(* nothing refers to it.                                                    *)
LEMMA FreedFields ==
    ASSUME NEW rs \in [Ids -> Requests \cup {None}], NEW id \in Ids, rs[id] \in Requests
    PROVE  /\ Freed(rs, id) \in [Ids -> Requests \cup {None}]
           /\ \A j \in Ids : j # id => Freed(rs, id)[j] = rs[j]
           /\ Freed(rs, id)[id] \in Requests
           /\ Freed(rs, id)[id].refcont = rs[id].refcont
           /\ Freed(rs, id)[id].full = rs[id].full
           /\ rs[id].refcont = 0 =>
                 ~Freed(rs, id)[id].live /\ Freed(rs, id)[id].cbs = rs[id].cbs + 1
           /\ rs[id].refcont # 0 => Freed(rs, id)[id] = rs[id]
  <1>1. CASE rs[id].refcont # 0
    BY ZenonT(40), <1>1 DEF Freed
  <1>2. CASE rs[id].refcont = 0
    <2> DEFINE r == [rs[id] EXCEPT !.data_mr = FALSE, !.cbs = @ + 1, !.live = FALSE]
    <2>0. rs[id].cbs + 1 \in Nat
      BY DEF Requests
    <2>1. /\ r \in Requests /\ r.refcont = rs[id].refcont /\ r.live = FALSE
          /\ r.cbs = rs[id].cbs + 1 /\ r.full = rs[id].full
      BY ZenonT(40), <2>0 DEF Requests
    <2>2. Freed(rs, id) = [rs EXCEPT ![id] = r]
      BY ZenonT(40), <1>2 DEF Freed
    <2> HIDE DEF r
    <2> QED
      BY ZenonT(40), <1>2, <2>1, <2>2
  <1> QED
    BY ZenonT(40), <1>1, <1>2

(* What Allocate does to the record of a request.                           *)
LEMMA AllocateFields ==
    ASSUME NEW rs \in [Ids -> Requests \cup {None}], NEW id \in Ids
    PROVE  /\ Allocate(rs, id) \in [Ids -> Requests \cup {None}]
           /\ \A j \in Ids : j # id => Allocate(rs, id)[j] = rs[j]
           /\ Allocate(rs, id)[id] \in Requests
           /\ Allocate(rs, id)[id].refcont = 0 /\ Allocate(rs, id)[id].live
           /\ Allocate(rs, id)[id].cbs = 0
           /\ Allocate(rs, id)[id].full = (Kind[id[1]] = "push" /\ id[2] = "cmd")
  <1> DEFINE r == NewRequest(Kind[id[1]] = "push" /\ id[2] = "cmd")
  <1>1. /\ r \in Requests /\ r.refcont = 0 /\ r.live /\ r.cbs = 0
        /\ r.full = (Kind[id[1]] = "push" /\ id[2] = "cmd")
    BY DEF Requests, NewRequest
  <1>2. Allocate(rs, id) = [rs EXCEPT ![id] = r]
    BY ZenonT(40) DEF Allocate
  <1> HIDE DEF r
  <1> QED
    BY ZenonT(40), <1>1, <1>2

(* rpc_cb_req_completion: the work request of a message is complete.        *)
LEMMA CompleteKept ==
    ASSUME Typed, Places, NEW id \in Acked, id[2] # "xfer",
           Acked' = Acked \ {id}, Sent' = Sent,
           Unsent' = Unsent, Arrived' = Arrived, Listed' = Listed, lost' = lost,
           Ending' = Ending, Decoded' = Decoded, todo' = todo,
           req' = Freed(Unreferenced(req, id), id)
    PROVE  req' \in [Ids -> Requests \cup {None}] /\ Places'
  <1>1. /\ id \in Known /\ id \in Ids /\ req[id] \in Requests /\ req[id] # None
        /\ req \in [Ids -> Requests \cup {None}]
    BY ZenonT(40) DEF Places, Apart, Known, InWork, Typed
  <1>2. /\ id \in InWork /\ id \notin Listed /\ id \notin Ending
        /\ id \notin Unsent /\ id \notin Sent /\ id \notin lost
    BY ZenonT(40) DEF Places, Apart, InWork
  <1>3. /\ req[id].refcont = 1 + (IF NeedsData(id) THEN 1 ELSE 0)
        /\ req[id].live /\ req[id].cbs = 0
        /\ NeedsData(id) => req[id].data_mr
    BY ZenonT(40), <1>1, <1>2 DEF Places, Counted, CountOf
  <1> DEFINE u == Unreferenced(req, id)
  <1>4. /\ u \in [Ids -> Requests \cup {None}] /\ u[id] \in Requests
        /\ \A j \in Ids : j # id => u[j] = req[j]
        /\ u[id].refcont = req[id].refcont - 1 /\ u[id].live = req[id].live
        /\ u[id].cbs = req[id].cbs /\ u[id].full = req[id].full
        /\ u[id].data_mr = req[id].data_mr
    BY ZenonT(40), <1>1, UnreferencedFields
  <1> HIDE DEF u
  <1>5. /\ req' \in [Ids -> Requests \cup {None}]
        /\ \A j \in Ids : j # id => req'[j] = u[j]
        /\ req'[id] \in Requests /\ req'[id].refcont = u[id].refcont
        /\ req'[id].full = u[id].full
        /\ u[id].refcont = 0 => ~req'[id].live /\ req'[id].cbs = u[id].cbs + 1
        /\ u[id].refcont # 0 => req'[id] = u[id]
    BY ZenonT(40), <1>1, <1>4, FreedFields DEF u
  <1>6. req'[id].full = req[id].full /\ \A j \in Ids : j # id => req'[j] = req[j]
    BY ZenonT(40), <1>4, <1>5
  <1>14. /\ req'[id].refcont = IF NeedsData(id) THEN 1 ELSE 0
         /\ req'[id].live <=> NeedsData(id)
         /\ req'[id].cbs = IF NeedsData(id) THEN 0 ELSE 1
         /\ NeedsData(id) => req'[id].data_mr
    <2>1. CASE NeedsData(id)
      <3>1. u[id].refcont = 1
        BY <1>3, <1>4, <2>1
      <3>2. req'[id] = u[id]
        BY <3>1, <1>5
      <3>3. u[id].live /\ u[id].data_mr
        BY <1>3, <1>4, <2>1, ZenonT(20)
      <3>4. req'[id].live /\ req'[id].data_mr /\ req'[id].refcont = 1
        BY ZenonT(40), <3>1, <3>2, <3>3
      <3>5. req'[id].cbs = 0
        BY ZenonT(40), <1>3, <1>4, <3>2
      <3> QED
        BY ZenonT(40), <2>1, <3>4, <3>5
    <2>2. CASE ~NeedsData(id)
      <3>1. u[id].refcont = 0
        BY <1>3, <1>4, <2>2
      <3>2. req'[id].refcont = 0 /\ ~req'[id].live /\ req'[id].cbs = 1
        BY <1>3, <1>4, <1>5, <3>1
      <3> QED
        BY ZenonT(40), <2>2, <3>2
    <2> QED
      BY ZenonT(40), <2>1, <2>2
  <1>7. Known' = Known /\ Known \subseteq Ids
    BY <1>1, <1>5, <1>6, IbRpcAssumption DEF Known
  <1>8. InWork' = InWork \ {id}
    BY ZenonT(40), <1>2 DEF InWork
  <1>9. \A y : NeedsData(y)' <=> NeedsData(y)
    BY ZenonT(40) DEF NeedsData
  <1>10. Apart'
    BY ZenonT(40), <1>7, <1>8 DEF Places, Apart, InWork
  <1>11. Stages'
    BY ZenonT(40), <1>7, <1>8 DEF Places, Stages, StageOf, Pipeline
  <1>12. ASSUME NEW x \in Known' PROVE CountOf(x)'
    <2>1. CASE x # id
      BY ZenonT(40), <1>6, <1>7, <1>8, <1>9, <2>1, SameCount DEF Places, Counted
    <2>2. CASE x = id
      <3>1. CASE NeedsData(id)
        BY SMTT(30), <1>2, <1>14, <1>8, <1>9, <2>2, <3>1 DEF CountOf
      <3>2. CASE ~NeedsData(id)
        BY <1>2, <1>14, <1>8, <1>9, <2>2, <3>2 DEF CountOf
      <3> QED
        BY ZenonT(40), <3>1, <3>2
    <2> QED
      BY ZenonT(40), <2>1, <2>2
  <1>13. ASSUME NEW q \in Ops PROVE FillOf(q)'
    <2>1. <<q, "xfer">> \in Known => <<q, "cmd">> \in Known
      BY ZenonT(40) DEF Places, Stages, StageOf, Apart
    <2>2. \A r \in {"cmd", "xfer"} : <<q, r>> \in Known' =>
             <<q, r>> \in Known /\ req'[<<q, r>>].full = req[<<q, r>>].full
      BY ZenonT(40), <1>6, <1>7
    <2> QED
      BY ZenonT(40), <1>7, <2>1, <2>2, SameFill DEF Places, Filled
  <1> QED
    BY ZenonT(40), <1>5, <1>10, <1>11, <1>12, <1>13 DEF Places, Counted, Filled

(* rpc_cb_req_completion: the request of a transfer is freed once the other *)
(* end has been told.                                                       *)
LEMMA FinishKept ==
    ASSUME Typed, Places, NEW id \in Ending,
           Ending' = Ending \ {id}, Acked' = Acked, Sent' = Sent,
           Unsent' = Unsent, Arrived' = Arrived, Listed' = Listed, lost' = lost,
           Decoded' = Decoded, todo' = todo,
           req' = Freed(req, id)
    PROVE  req' \in [Ids -> Requests \cup {None}] /\ Places'
  <1>1. /\ id \in Known /\ id \in Ids /\ req[id] \in Requests /\ req[id] # None
        /\ req \in [Ids -> Requests \cup {None}]
    BY ZenonT(40) DEF Places, Apart, Known, InWork, Typed
  <1>2. id \notin InWork /\ id \notin Listed /\ ~NeedsData(id)
    BY ZenonT(40) DEF Places, Apart, InWork, Stages, NeedsData, HasData
  <1>3. req[id].refcont = 0 /\ req[id].live /\ req[id].cbs = 0
    BY <1>1, <1>2 DEF Places, Counted, CountOf
  <1>4. /\ req' \in [Ids -> Requests \cup {None}]
        /\ \A j \in Ids : j # id => req'[j] = req[j]
        /\ req'[id] \in Requests /\ req'[id].refcont = 0
        /\ req'[id].full = req[id].full /\ ~req'[id].live /\ req'[id].cbs = 1
    BY <1>1, <1>3, FreedFields
  <1>5. Known' = Known /\ Known \subseteq Ids
    BY ZenonT(40), <1>1, <1>4, IbRpcAssumption DEF Known
  <1>6. InWork' = InWork
    BY ZenonT(40) DEF InWork
  <1>7. \A y : NeedsData(y)' <=> NeedsData(y)
    BY ZenonT(40) DEF NeedsData
  <1>8. Apart'
    BY ZenonT(40), <1>5, <1>6 DEF Places, Apart, InWork
  <1>9. Stages'
    BY ZenonT(40), <1>5, <1>6 DEF Places, Stages, StageOf, Pipeline
  <1>10. ASSUME NEW x \in Known' PROVE CountOf(x)'
    <2>1. CASE x # id
      BY ZenonT(40), <1>4, <1>5, <1>6, <1>7, <2>1, SameCount DEF Places, Counted
    <2>2. CASE x = id
      BY <1>2, <1>4, <1>6, <1>7, <2>2 DEF CountOf
    <2> QED
      BY ZenonT(40), <2>1, <2>2
  <1>11. ASSUME NEW q \in Ops PROVE FillOf(q)'
    <2>1. <<q, "xfer">> \in Known => <<q, "cmd">> \in Known
      BY ZenonT(40) DEF Places, Stages, StageOf, Apart
    <2>2. \A r \in {"cmd", "xfer"} : <<q, r>> \in Known' =>
             <<q, r>> \in Known /\ req'[<<q, r>>].full = req[<<q, r>>].full
      BY ZenonT(40), <1>4, <1>5
    <2> QED
      BY ZenonT(40), <1>5, <2>1, <2>2, SameFill DEF Places, Filled
  <1> QED
    BY ZenonT(40), <1>4, <1>8, <1>9, <1>10, <1>11 DEF Places, Counted, Filled

(* rpc_cb_req_completion: a transfer is complete and peer_rdma_done joins   *)
(* the list.                                                                *)
LEMMA XferKept ==
    ASSUME Typed, Places, NEW o \in Ops, NEW id, id = <<o, "xfer">>, id \in Acked,
           NEW dn, dn = <<o, "done">>,
           Acked' = Acked \ {id}, Ending' = Ending \cup {id}, Listed' = Listed \cup {dn},
           Sent' = Sent, Unsent' = Unsent, Arrived' = Arrived, lost' = lost,
           Decoded' = Decoded, todo' = todo,
           req' = Allocate(Unreferenced(req, id), dn)
    PROVE  req' \in [Ids -> Requests \cup {None}] /\ Places' /\ dn \notin Known
  <1>1. /\ id \in Known /\ id \in Ids /\ req[id] \in Requests /\ req[id] # None
        /\ req \in [Ids -> Requests \cup {None}]
    BY ZenonT(40) DEF Places, Apart, Known, InWork, Typed
  <1>2. /\ id \in InWork /\ id \notin Listed /\ id \notin Ending
        /\ id \notin Unsent /\ id \notin Sent /\ id \notin lost /\ id[2] = "xfer"
    BY ZenonT(40) DEF Places, Apart, InWork
  <1>3. /\ ~NeedsData(id) /\ id # dn /\ dn \in Ids /\ dn[2] = "done"
    BY ZenonT(40), OpIds DEF NeedsData, HasData, Roles
  <1>4. req[id].refcont = 1 /\ req[id].live /\ req[id].cbs = 0
    BY <1>1, <1>2, <1>3 DEF Places, Counted, CountOf
  <1>5. dn \notin Known
    BY ZenonT(40), <1>2 DEF Places, Stages, StageOf
  <1> DEFINE u == Unreferenced(req, id)
  <1>6. /\ u \in [Ids -> Requests \cup {None}] /\ u[id] \in Requests
        /\ \A j \in Ids : j # id => u[j] = req[j]
        /\ u[id].refcont = req[id].refcont - 1 /\ u[id].live = req[id].live
        /\ u[id].cbs = req[id].cbs /\ u[id].full = req[id].full
    BY ZenonT(40), <1>1, UnreferencedFields
  <1> HIDE DEF u
  <1>7. /\ req' \in [Ids -> Requests \cup {None}]
        /\ \A j \in Ids : j # dn => req'[j] = u[j]
        /\ req'[dn] \in Requests /\ req'[dn].refcont = 0 /\ req'[dn].live
        /\ req'[dn].cbs = 0
    BY ZenonT(40), <1>3, <1>6, AllocateFields DEF u
  <1>8. /\ req'[id].full = req[id].full /\ req'[id].refcont = 0 /\ req'[id].live
        /\ req'[id].cbs = 0 /\ req'[id] \in Requests
        /\ \A j \in Ids : j # id /\ j # dn => req'[j] = req[j]
    <2>1. req'[id] = u[id]
      BY ZenonT(40), <1>1, <1>3, <1>7
    <2>2. u[id].refcont = 0 /\ u[id].live /\ u[id].cbs = 0
      BY <1>4, <1>6
    <2> QED
      BY ZenonT(40), <1>6, <1>7, <2>1, <2>2
  <1>9. Known' = Known \cup {dn} /\ Known \subseteq Ids
    BY <1>1, <1>3, <1>7, <1>8, IbRpcAssumption DEF Known
  <1>10. InWork' = InWork \ {id}
    BY ZenonT(40), <1>2 DEF InWork
  <1>11. \A y : NeedsData(y)' <=> NeedsData(y)
    BY ZenonT(40) DEF NeedsData
  <1>12. /\ dn \notin Listed /\ dn \notin InWork /\ dn \notin Ending
         /\ dn \notin Arrived /\ dn \notin Decoded
    BY ZenonT(40), <1>5 DEF Places, Apart
  <1>13. Apart'
    BY <1>1, <1>2, <1>3, <1>9, <1>10, <1>12 DEF Places, Apart, InWork
  <1>14. ASSUME NEW q \in Ops PROVE StageOf(q)'
    <2>1. StageOf(q)
      BY ZenonT(40) DEF Places, Stages
    <2>2. CASE q = o
      BY ZenonT(40), <1>1, <1>2, <1>3, <1>9, <1>10, <2>1, <2>2 DEF StageOf
    <2>3. CASE q # o
      BY ZenonT(40), <1>9, <1>10, <2>1, <2>3 DEF StageOf
    <2> QED
      BY ZenonT(40), <2>2, <2>3
  <1>15. Stages'
    <2>1. \A x \in Listed' \cup Arrived' \cup Decoded' : x[2] # "xfer"
      BY ZenonT(40), <1>3 DEF Places, Stages
    <2>2. \A x \in Ending' : x[2] = "xfer"
      BY ZenonT(40), <1>2 DEF Places, Stages
    <2>3. \A x \in Known' : x[2] # "xfer" => Pipeline(x)'
      BY ZenonT(40), <1>9 DEF Places, Stages, Pipeline
    <2> QED
      BY ZenonT(40), <1>14, <2>1, <2>2, <2>3 DEF Stages
  <1>16. ASSUME NEW x \in Known' PROVE CountOf(x)'
    <2>1. CASE x # id /\ x # dn
      <3>1. x \in Known /\ req'[x] = req[x]
        BY ZenonT(40), <1>8, <1>9, <2>1
      <3>2. /\ x \in Listed' <=> x \in Listed
            /\ x \in InWork' <=> x \in InWork
            /\ x \in Ending' <=> x \in Ending
        BY ZenonT(40), <1>10, <2>1
      <3> QED
        BY ZenonT(40), <3>1, <3>2, <1>11, SameCount DEF Places, Counted
    <2>2. CASE x = id
      BY <1>2, <1>3, <1>8, <1>10, <1>11, <2>2 DEF CountOf
    <2>3. CASE x = dn
      BY ZenonT(40), <1>7, <2>3 DEF CountOf
    <2> QED
      BY ZenonT(40), <2>1, <2>2, <2>3
  <1>17. ASSUME NEW q \in Ops PROVE FillOf(q)'
    <2>1. <<q, "xfer">> \in Known => <<q, "cmd">> \in Known
      BY ZenonT(40) DEF Places, Stages, StageOf, Apart
    <2>2. <<q, "cmd">> # dn /\ <<q, "xfer">> # dn
      BY ZenonT(40)
    <2>3. \A r \in {"cmd", "xfer"} : <<q, r>> \in Known' =>
             <<q, r>> \in Known /\ req'[<<q, r>>].full = req[<<q, r>>].full
      BY ZenonT(40), <1>8, <1>9, <2>2
    <2> QED
      BY ZenonT(40), <1>9, <2>1, <2>3, SameFill DEF Places, Filled
  <1> QED
    BY ZenonT(40), <1>5, <1>7, <1>13, <1>15, <1>16, <1>17 DEF Places, Counted, Filled

(* rpc_cb_decode: a command without data, or an answer, is handled.         *)
LEMMA DecodeKept ==
    ASSUME Typed, Places, NEW id \in Arrived, id[2] # "done",
           Arrived' = Arrived \ {id}, Decoded' = Decoded \cup {id},
           Acked' = Acked, Ending' = Ending, Listed' = Listed,
           Sent' = Sent, Unsent' = Unsent, lost' = lost, todo' = todo, req' = req
    PROVE  req' \in [Ids -> Requests \cup {None}] /\ Places'
  <1>1. Known' = Known /\ Known \subseteq Ids
    BY ZenonT(40) DEF Known
  <1>2. InWork' = InWork
    BY ZenonT(40) DEF InWork
  <1>3. \A y : NeedsData(y)' <=> NeedsData(y)
    BY DEF NeedsData
  <1>4. Apart'
    BY <1>1, <1>2 DEF Places, Apart, InWork
  <1>5. Stages'
    BY ZenonT(40), <1>1, <1>2 DEF Places, Stages, StageOf, Pipeline
  <1>6. Counted'
    BY ZenonT(40), <1>1, <1>2, <1>3, SameCount DEF Places, Counted
  <1>7. ASSUME NEW q \in Ops PROVE FillOf(q)'
    <2>1. <<q, "xfer">> \in Known => <<q, "cmd">> \in Known
      BY ZenonT(40) DEF Places, Stages, StageOf, Apart
    <2> QED
      BY ZenonT(40), <1>1, <2>1, SameFill DEF Places, Filled
  <1> QED
    BY ZenonT(40), <1>4, <1>5, <1>6, <1>7 DEF Typed, Places, Filled

(* rpc_cb_decode: a peer_rdma_done is handled, and its command no longer    *)
(* needs its data.                                                          *)
LEMMA DoneKept ==
    ASSUME Typed, Places, NEW o \in Ops, NEW id, id = <<o, "done">>, id \in Arrived,
           NEW cm, cm = <<o, "cmd">>,
           Arrived' = Arrived \ {id}, Decoded' = Decoded \cup {id},
           Acked' = Acked, Ending' = Ending, Listed' = Listed,
           Sent' = Sent, Unsent' = Unsent, lost' = lost, todo' = todo,
           req' = Freed(Unreferenced(req, cm), cm)
    PROVE  req' \in [Ids -> Requests \cup {None}] /\ Places'
  <1>1. /\ id \in Known /\ id \notin Decoded
        /\ <<o, "xfer">> \in Known /\ cm \in Decoded /\ Kind[o] \in {"push", "pull"}
    BY ZenonT(40) DEF Places, Apart, Stages, StageOf
  <1>2. /\ cm \in Known /\ cm \in Ids /\ req[cm] \in Requests /\ req[cm] # None
        /\ cm \notin Listed /\ cm \notin Ending /\ cm # id /\ cm[1] = o /\ cm[2] = "cmd"
        /\ req \in [Ids -> Requests \cup {None}]
    BY ZenonT(40), <1>1 DEF Places, Apart, Stages, Known, Typed
  <1>3. NeedsData(cm) /\ ~NeedsData(cm)'
    BY ZenonT(40), <1>1, <1>2 DEF NeedsData, HasData
  <1>4. \A y \in Ids : y # cm => (NeedsData(y)' <=> NeedsData(y))
    <2>1. ASSUME NEW y \in Ids, y # cm, HasData(y) PROVE <<y[1], "done">> # id
      BY ZenonT(40), <2>1, IdParts DEF HasData
    <2> QED
      BY ZenonT(40), <2>1 DEF NeedsData
  <1>5. /\ req[cm].refcont = 1 + (IF cm \in InWork THEN 1 ELSE 0)
        /\ req[cm].live /\ req[cm].cbs = 0
    BY <1>2, <1>3 DEF Places, Counted, CountOf
  <1> DEFINE u == Unreferenced(req, cm)
  <1>6. /\ u \in [Ids -> Requests \cup {None}] /\ u[cm] \in Requests
        /\ \A j \in Ids : j # cm => u[j] = req[j]
        /\ u[cm].refcont = req[cm].refcont - 1 /\ u[cm].live = req[cm].live
        /\ u[cm].cbs = req[cm].cbs /\ u[cm].full = req[cm].full
    BY ZenonT(40), <1>2, UnreferencedFields
  <1> HIDE DEF u
  <1>7. /\ req' \in [Ids -> Requests \cup {None}]
        /\ \A j \in Ids : j # cm => req'[j] = u[j]
        /\ req'[cm] \in Requests /\ req'[cm].refcont = u[cm].refcont
        /\ req'[cm].full = u[cm].full
        /\ u[cm].refcont = 0 => ~req'[cm].live /\ req'[cm].cbs = u[cm].cbs + 1
        /\ u[cm].refcont # 0 => req'[cm] = u[cm]
    BY ZenonT(40), <1>2, <1>6, FreedFields DEF u
  <1>8. req'[cm].full = req[cm].full /\ \A j \in Ids : j # cm => req'[j] = req[j]
    BY ZenonT(40), <1>6, <1>7
  <1>9. /\ req'[cm].refcont = IF cm \in InWork THEN 1 ELSE 0
        /\ req'[cm].live <=> cm \in InWork
        /\ req'[cm].cbs = IF cm \in InWork THEN 0 ELSE 1
    <2>1. CASE cm \in InWork
      <3>1. u[cm].refcont = 1
        BY <1>5, <1>6, <2>1
      <3>2. req'[cm] = u[cm]
        BY <3>1, <1>7
      <3> QED
        BY ZenonT(40), <1>5, <1>6, <2>1, <3>1, <3>2
    <2>2. CASE cm \notin InWork
      <3>1. u[cm].refcont = 0
        BY <1>5, <1>6, <2>2
      <3> QED
        BY <1>5, <1>6, <1>7, <2>2, <3>1
    <2> QED
      BY ZenonT(40), <2>1, <2>2
  <1>10. Known' = Known /\ Known \subseteq Ids
    BY ZenonT(40), <1>2, <1>7, <1>8, IbRpcAssumption DEF Known
  <1>11. InWork' = InWork
    BY ZenonT(40) DEF InWork
  <1>12. Apart'
    BY <1>10, <1>11 DEF Places, Apart, InWork
  <1>13. Stages'
    BY ZenonT(40), <1>10, <1>11 DEF Places, Stages, StageOf, Pipeline
  <1>14. ASSUME NEW x \in Known' PROVE CountOf(x)'
    <2>1. CASE x # cm
      BY ZenonT(40), <1>4, <1>8, <1>10, <1>11, <2>1, SameCount DEF Places, Counted
    <2>2. CASE x = cm
      <3>1. CASE cm \in InWork
        BY SMTT(30), <1>2, <1>3, <1>9, <1>11, <2>2, <3>1 DEF CountOf
      <3>2. CASE cm \notin InWork
        BY <1>2, <1>3, <1>9, <1>11, <2>2, <3>2 DEF CountOf
      <3> QED
        BY ZenonT(40), <3>1, <3>2
    <2> QED
      BY ZenonT(40), <2>1, <2>2
  <1>15. ASSUME NEW q \in Ops PROVE FillOf(q)'
    <2>1. <<q, "xfer">> \in Known => <<q, "cmd">> \in Known
      BY ZenonT(40) DEF Places, Stages, StageOf, Apart
    <2>2. \A r \in {"cmd", "xfer"} : <<q, r>> \in Known' =>
             <<q, r>> \in Known /\ req'[<<q, r>>].full = req[<<q, r>>].full
      BY ZenonT(40), <1>8, <1>10
    <2> QED
      BY ZenonT(40), <1>10, <2>1, <2>2, SameFill DEF Places, Filled
  <1> QED
    BY ZenonT(40), <1>7, <1>12, <1>13, <1>14, <1>15 DEF Places, Counted, Filled

(* rpc_cb_decode: a command with data is handled, and its transfer is       *)
(* posted at once.                                                          *)
LEMMA TransferKept ==
    ASSUME Typed, Places, NEW o \in Ops, NEW id, id = <<o, "cmd">>, id \in Arrived,
           NEW x, x = <<o, "xfer">>, Kind[o] \in {"push", "pull"},
           Arrived' = Arrived \ {id}, Decoded' = Decoded \cup {id},
           \/ Unsent' = Unsent \cup {x} /\ lost' = lost
           \/ Unsent' = Unsent /\ lost' = lost \cup {x},
           Acked' = Acked, Ending' = Ending, Listed' = Listed,
           Sent' = Sent, todo' = todo,
           \/ req' = rpc_fetch_request(Allocate(req, x), x)
           \/ req' = rpc_post_request(Allocate(req, x), x)
    PROVE  req' \in [Ids -> Requests \cup {None}] /\ Places' /\ x \notin Known
  <1>1. /\ id \in Known /\ id \notin Decoded /\ id # x /\ x \in Ids /\ x[2] = "xfer"
        /\ id[2] = "cmd" /\ id \in Ids /\ req \in [Ids -> Requests \cup {None}]
    BY ZenonT(40), OpIds DEF Places, Apart, Roles, Typed
  <1>2. x \notin Known
    BY ZenonT(40), <1>1 DEF Places, Stages, StageOf
  <1>3. /\ x \notin Listed /\ x \notin InWork /\ x \notin Ending
        /\ x \notin Arrived /\ x \notin Decoded
    BY ZenonT(40), <1>2 DEF Places, Apart
  <1> DEFINE a == Allocate(req, x)
  <1>4. /\ a \in [Ids -> Requests \cup {None}]
        /\ \A j \in Ids : j # x => a[j] = req[j]
        /\ a[x] \in Requests /\ a[x].refcont = 0 /\ a[x].live /\ a[x].cbs = 0
    BY ZenonT(40), <1>1, AllocateFields
  <1> HIDE DEF a
  <1>5. /\ req' \in [Ids -> Requests \cup {None}]
        /\ \A j \in Ids : j # x => req'[j] = req[j]
        /\ req'[x] \in Requests /\ req'[x].refcont = 1 /\ req'[x].live
        /\ req'[x].cbs = 0
    <2>1. PICK d \in BOOLEAN :
             req' = [a EXCEPT ![x].data_mr = d, ![x].refcont = @ + 1]
      <3>1. CASE req' = rpc_fetch_request(a, x)
        BY ZenonT(40), <3>1 DEF rpc_fetch_request
      <3>2. CASE req' = rpc_post_request(a, x)
        <4>1. req' = [a EXCEPT ![x].data_mr = TRUE, ![x].refcont = @ + 1]
          BY ZenonT(40), <1>1, <3>2 DEF rpc_post_request
        <4> QED
          BY ZenonT(40), <4>1
      <3> QED
        BY ZenonT(40), <3>1, <3>2 DEF a
    <2> DEFINE r == [a[x] EXCEPT !.data_mr = d, !.refcont = @ + 1]
    <2>4. a[x].refcont + 1 \in Int /\ a[x].refcont + 1 = 1
      BY <1>4
    <2>2. r \in Requests /\ r.refcont = 1 /\ r.live /\ r.cbs = 0
      BY ZenonT(40), <1>4, <2>4 DEF Requests
    <2>3. req' = [a EXCEPT ![x] = r]
      BY ZenonT(40), <2>1, <1>1, <1>4
    <2> HIDE DEF r
    <2> QED
      BY ZenonT(40), <1>1, <1>4, <2>2, <2>3
  <1>6. Known' = Known \cup {x} /\ Known \subseteq Ids
    BY <1>1, <1>5, IbRpcAssumption DEF Known
  <1>7. InWork' = InWork \cup {x}
    BY ZenonT(40) DEF InWork
  <1>8. \A y : NeedsData(y)' <=> NeedsData(y)
    BY ZenonT(40), <1>1 DEF NeedsData
  <1>9. Apart'
    BY <1>1, <1>3, <1>6, <1>7 DEF Places, Apart, InWork
  <1>10. ASSUME NEW q \in Ops PROVE StageOf(q)'
    <2>1. StageOf(q)
      BY ZenonT(40) DEF Places, Stages
    <2>2. CASE q = o
      <3>1. /\ <<o, "done">> \notin Known /\ <<o, "reply">> \notin Known
            /\ <<o, "done">> # x /\ <<o, "reply">> # x /\ id \in Decoded' /\ id \in Known'
        BY ZenonT(40), <1>1, <1>2, <1>6, <2>1, <2>2 DEF StageOf
      <3>2. o \notin todo
        BY ZenonT(40), <1>1, <2>1, <2>2 DEF StageOf
      <3> QED
        BY ZenonT(40), <1>6, <2>2, <3>1, <3>2 DEF StageOf
    <2>3. CASE q # o
      BY ZenonT(40), <1>6, <1>7, <2>1, <2>3 DEF StageOf
    <2> QED
      BY ZenonT(40), <2>2, <2>3
  <1>11. Stages'
    <2>1. \A y \in Listed' \cup Arrived' \cup Decoded' : y[2] # "xfer"
      BY ZenonT(40), <1>1 DEF Places, Stages
    <2>2. \A y \in Ending' : y[2] = "xfer"
      BY ZenonT(40) DEF Places, Stages
    <2>3. \A y \in Known' : y[2] # "xfer" => Pipeline(y)'
      BY ZenonT(40), <1>1, <1>6 DEF Places, Stages, Pipeline
    <2> QED
      BY ZenonT(40), <1>10, <2>1, <2>2, <2>3 DEF Stages
  <1>12. ASSUME NEW y \in Known' PROVE CountOf(y)'
    <2>1. CASE y # x
      <3>1. y \in Known /\ req'[y] = req[y]
        BY ZenonT(40), <1>5, <1>6, <2>1
      <3>2. y \in InWork' <=> y \in InWork
        BY ZenonT(40), <1>7, <2>1
      <3> QED
        BY ZenonT(40), <3>1, <3>2, <1>8, SameCount DEF Places, Counted
    <2>2. CASE y = x
      <3>1. ~NeedsData(x) /\ x \in InWork' /\ x \notin Listed'
        BY ZenonT(40), <1>1, <1>3, <1>7 DEF NeedsData, HasData
      <3> QED
        BY <1>5, <1>8, <2>2, <3>1 DEF CountOf
    <2> QED
      BY ZenonT(40), <2>1, <2>2
  <1>13. ASSUME NEW q \in Ops PROVE FillOf(q)'
    <2>0. FillOf(q)
      BY ZenonT(40) DEF Places, Filled
    <2>1. CASE q # o
      <3>1. <<q, "xfer">> \in Known => <<q, "cmd">> \in Known
        BY ZenonT(40) DEF Places, Stages, StageOf, Apart
      <3>2. \A r \in {"cmd", "xfer"} : <<q, r>> # x
        BY ZenonT(40), <2>1
      <3>3. \A r \in {"cmd", "xfer"} : <<q, r>> \in Known' =>
               <<q, r>> \in Known /\ req'[<<q, r>>].full = req[<<q, r>>].full
        BY ZenonT(40), <1>5, <1>6, <3>2
      <3> QED
        BY ZenonT(40), <1>6, <2>0, <3>1, <3>2, <3>3, SameFill
    <2>2. CASE q = o
      <3>1. x \in Unsent' \cup lost'
        BY ZenonT(40)
      <3>2. Kind[o] = "push" => req'[id].full
        BY ZenonT(40), <1>1, <1>5, <2>0, <2>2 DEF FillOf
      <3> QED
        BY ZenonT(40), <2>2, <3>1, <3>2 DEF FillOf
    <2> QED
      BY ZenonT(40), <2>1, <2>2
  <1> QED
    BY ZenonT(40), <1>2, <1>5, <1>9, <1>11, <1>12, <1>13 DEF Places, Counted, Filled

(* rpc_cb_decode: a command that asks for an answer is handled, and the     *)
(* answer joins the list.                                                   *)
LEMMA AnswerKept ==
    ASSUME Typed, Places, NEW o \in Ops, NEW id, id = <<o, "cmd">>, id \in Arrived,
           NEW x, x = <<o, "reply">>, Kind[o] = "ask",
           Arrived' = Arrived \ {id}, Decoded' = Decoded \cup {id},
           Listed' = Listed \cup {x}, Unsent' = Unsent, lost' = lost,
           Acked' = Acked, Ending' = Ending,
           Sent' = Sent, todo' = todo, req' = Allocate(req, x)
    PROVE  req' \in [Ids -> Requests \cup {None}] /\ Places' /\ x \notin Known
  <1>1. /\ id \in Known /\ id \notin Decoded /\ id # x /\ x \in Ids /\ x[2] = "reply"
        /\ id[2] = "cmd" /\ id \in Ids /\ req \in [Ids -> Requests \cup {None}]
    BY ZenonT(40), OpIds DEF Places, Apart, Roles, Typed
  <1>2. x \notin Known
    BY ZenonT(40), <1>1 DEF Places, Stages, StageOf
  <1>3. /\ x \notin Listed /\ x \notin InWork /\ x \notin Ending
        /\ x \notin Arrived /\ x \notin Decoded
    BY ZenonT(40), <1>2 DEF Places, Apart
  <1> DEFINE a == Allocate(req, x)
  <1>4. /\ a \in [Ids -> Requests \cup {None}]
        /\ \A j \in Ids : j # x => a[j] = req[j]
        /\ a[x] \in Requests /\ a[x].refcont = 0 /\ a[x].live /\ a[x].cbs = 0
    BY ZenonT(40), <1>1, AllocateFields
  <1>14. req' = a
    BY ZenonT(40)
  <1> HIDE DEF a
  <1>5. /\ req' \in [Ids -> Requests \cup {None}]
        /\ \A j \in Ids : j # x => req'[j] = req[j]
        /\ req'[x] \in Requests /\ req'[x].refcont = 0 /\ req'[x].live
        /\ req'[x].cbs = 0
    BY ZenonT(40), <1>4, <1>14
  <1>6. Known' = Known \cup {x} /\ Known \subseteq Ids
    BY <1>1, <1>5, IbRpcAssumption DEF Known
  <1>7. InWork' = InWork
    BY ZenonT(40) DEF InWork
  <1>8. \A y : NeedsData(y)' <=> NeedsData(y)
    BY ZenonT(40), <1>1 DEF NeedsData
  <1>9. Apart'
    BY <1>1, <1>3, <1>6, <1>7 DEF Places, Apart, InWork
  <1>10. ASSUME NEW q \in Ops PROVE StageOf(q)'
    <2>1. StageOf(q)
      BY ZenonT(40) DEF Places, Stages
    <2>2. CASE q = o
      <3>1. /\ <<o, "done">> \notin Known /\ <<o, "xfer">> \notin Known
            /\ <<o, "done">> # x /\ <<o, "xfer">> # x /\ id \in Decoded' /\ id \in Known'
        BY ZenonT(40), <1>1, <1>2, <1>6, <2>1, <2>2 DEF StageOf
      <3>2. o \notin todo
        BY ZenonT(40), <1>1, <2>1, <2>2 DEF StageOf
      <3> QED
        BY ZenonT(40), <1>6, <2>2, <3>1, <3>2 DEF StageOf
    <2>3. CASE q # o
      BY ZenonT(40), <1>6, <1>7, <2>1, <2>3 DEF StageOf
    <2> QED
      BY ZenonT(40), <2>2, <2>3
  <1>11. Stages'
    <2>1. \A y \in Listed' \cup Arrived' \cup Decoded' : y[2] # "xfer"
      BY ZenonT(40), <1>1 DEF Places, Stages
    <2>2. \A y \in Ending' : y[2] = "xfer"
      BY ZenonT(40) DEF Places, Stages
    <2>3. \A y \in Known' : y[2] # "xfer" => Pipeline(y)'
      BY ZenonT(40), <1>1, <1>6 DEF Places, Stages, Pipeline
    <2> QED
      BY ZenonT(40), <1>10, <2>1, <2>2, <2>3 DEF Stages
  <1>12. ASSUME NEW y \in Known' PROVE CountOf(y)'
    <2>1. CASE y # x
      <3>1. y \in Known /\ req'[y] = req[y]
        BY ZenonT(40), <1>5, <1>6, <2>1
      <3>2. y \in Listed' <=> y \in Listed
        BY ZenonT(40), <2>1
      <3> QED
        BY ZenonT(40), <3>1, <3>2, <1>7, <1>8, SameCount DEF Places, Counted
    <2>2. CASE y = x
      BY ZenonT(40), <1>5, <2>2 DEF CountOf
    <2> QED
      BY ZenonT(40), <2>1, <2>2
  <1>13. ASSUME NEW q \in Ops PROVE FillOf(q)'
    <2>1. <<q, "xfer">> \in Known => <<q, "cmd">> \in Known
      BY ZenonT(40) DEF Places, Stages, StageOf, Apart
    <2>2. \A r \in {"cmd", "xfer"} : <<q, r>> # x
      BY ZenonT(40)
    <2>3. \A r \in {"cmd", "xfer"} : <<q, r>> \in Known' =>
             <<q, r>> \in Known /\ req'[<<q, r>>].full = req[<<q, r>>].full
      BY ZenonT(40), <1>5, <1>6, <2>2
    <2> QED
      BY ZenonT(40), <1>6, <2>1, <2>3, SameFill DEF Places, Filled
  <1> QED
    BY ZenonT(40), <1>2, <1>5, <1>9, <1>11, <1>12, <1>13 DEF Places, Counted, Filled

-----------------------------------------------------------------------------
(* The queues that the places are read from.                                *)

(* The send lists: each holds requests of its end, each once.               *)
ListOK ==
    /\ req_list \in [Ends -> Seq(Ids)]
    /\ \A p \in Ends : Once(req_list[p]) /\ \A x \in Range(req_list[p]) : Owner(x) = p

(* The send queues: each holds work requests of its end, each once.         *)
WorkOK ==
    /\ sq \in [Ends -> Seq(Works)]
    /\ \A p \in Ends : /\ OnceIds(sq[p])
                       /\ \A x \in UnsentIn(sq[p]) : Owner(x) = p
                       /\ \A x \in SentIn(sq[p]) : Owner(x) = p

(* The completion queues: each holds completions of its own sends and of    *)
(* the other end's messages, each once.                                     *)
CqOK ==
    /\ cq \in [Ends -> Seq(Completions)]
    /\ \A p \in Ends : /\ OnceIds(cq[p])
                       /\ \A x \in AckedIn(cq[p]) : Owner(x) = p
                       /\ \A x \in ArrivedIn(cq[p]) : Owner(x) = Other(p)

(* The calls under way: each transfer that is to be freed belongs to the    *)
(* end and is freed by one call.                                            *)
StackOK ==
    /\ stack \in [Ends -> Seq(Frames)]
    /\ \A p \in Ends : OnceFinish(stack[p]) /\ \A x \in FinishIn(stack[p]) : Owner(x) = p

(* The messages that an end handled came from the other end.                *)
HandledOK ==
    /\ handled \in [Ends -> Seq(Ids)]
    /\ \A p \in Ends : \A x \in Range(handled[p]) : Owner(x) = Other(p)

(* The part of the inductive invariant that speaks of the queues.           *)
Queues == ListOK /\ WorkOK /\ CqOK /\ StackOK /\ HandledOK

(* There are two ends.                                                      *)
LEMMA TwoEnds ==
    ASSUME NEW p \in Ends
    PROVE  /\ Other(p) \in Ends /\ Other(p) # p /\ Other(Other(p)) = p
           /\ \A q \in Ends : q # p => q = Other(p)
  BY DEF Ends, Other

(* The elements of a sequence over a set belong to the set.                 *)
LEMMA SeqRange ==
    ASSUME NEW S, NEW s \in Seq(S)
    PROVE  \A x \in Range(s) : x \in S
  BY DEF Range

(* Append adds one element to the range of a sequence.                      *)
LEMMA RangeAppend ==
    ASSUME NEW S, NEW s \in Seq(S), NEW e \in S
    PROVE  Append(s, e) \in Seq(S) /\ Range(Append(s, e)) = Range(s) \cup {e}
  <1> DEFINE t == Append(s, e)
  <1>1. /\ t \in Seq(S) /\ t[Len(s) + 1] = e /\ Len(s) + 1 \in DOMAIN t
        /\ \A i \in DOMAIN s : i \in DOMAIN t /\ t[i] = s[i]
        /\ \A i \in DOMAIN t : i \in DOMAIN s \/ i = Len(s) + 1
    BY ZenonT(40), AppendAt
  <1> HIDE DEF t
  <1>2. \A x : x \in Range(t) <=> x \in Range(s) \cup {e}
    BY ZenonT(40), <1>1 DEF Range
  <1> QED
    BY ZenonT(40), <1>1, <1>2 DEF t

-----------------------------------------------------------------------------
(* One queue changes.                                                       *)

(* One send list is replaced: which requests are listed then.               *)
LEMMA ListAt ==
    ASSUME ListOK, NEW p \in Ends, NEW t \in Seq(Ids), Once(t),
           \A x \in Range(t) : Owner(x) = p,
           req_list' = [req_list EXCEPT ![p] = t]
    PROVE  /\ ListOK' /\ req_list'[p] = t
           /\ \A q \in Ends : q # p => req_list'[q] = req_list[q]
           /\ \A x : x \in Listed' <=> x \in Range(t) \/ (x \in Listed /\ Owner(x) # p)
           /\ \A x : x \in Range(req_list[p]) <=> x \in Listed /\ Owner(x) = p
  <1>1. req_list \in [Ends -> Seq(Ids)]
    BY ZenonT(40) DEF ListOK
  <1>2. /\ req_list' \in [Ends -> Seq(Ids)] /\ req_list'[p] = t
        /\ \A q \in Ends : q # p => req_list'[q] = req_list[q]
    BY ZenonT(40), <1>1
  <1>3. ASSUME NEW q \in Ends
        PROVE  /\ Once(req_list'[q])
                 /\ \A x \in Range(req_list'[q]) : Owner(x) = q
    <2>1. CASE q = p
      BY ZenonT(40), <1>2, <2>1
    <2>2. CASE q # p
      BY ZenonT(40), <1>2, <2>2 DEF ListOK
    <2> QED
      BY <2>1, <2>2
  <1>4. ListOK'
    BY ZenonT(40), <1>2, <1>3 DEF ListOK
  <1>5. \A a, b \in Ends : a # b => Other(a) # Other(b)
    BY DEF Ends, Other
  <1>6. \A a \in Ends : \A x \in Range(req_list[a]) : x \in Ids /\ Owner(x) = a
    BY ZenonT(40), SeqRange DEF ListOK
  <1>7. \A x \in Range(t) : x \in Ids
    BY ZenonT(40), SeqRange
  <1>8. \A x : x \in Range(req_list[p]) <=> x \in Listed /\ Owner(x) = p
    BY ZenonT(40), <1>5, <1>6 DEF Listed
  <1>9. \A x : x \in Listed' <=> x \in Range(t) \/ (x \in Listed /\ Owner(x) # p)
    BY ZenonT(40), <1>2, <1>5, <1>6, <1>7 DEF Listed
  <1> QED
    BY ZenonT(40), <1>2, <1>4, <1>8, <1>9

(* One send queue is replaced: which requests are unsent and sent then.     *)
LEMMA WorkAt ==
    ASSUME WorkOK, NEW p \in Ends, NEW t \in Seq(Works), OnceIds(t),
           \A x \in UnsentIn(t) : Owner(x) = p,
           \A x \in SentIn(t) : Owner(x) = p,
           sq' = [sq EXCEPT ![p] = t]
    PROVE  /\ WorkOK' /\ sq'[p] = t
           /\ \A q \in Ends : q # p => sq'[q] = sq[q]
           /\ \A x : x \in Unsent' <=> x \in UnsentIn(t) \/ (x \in Unsent /\ Owner(x) # p)
           /\ \A x : x \in UnsentIn(sq[p]) <=> x \in Unsent /\ Owner(x) = p
           /\ \A x : x \in Sent' <=> x \in SentIn(t) \/ (x \in Sent /\ Owner(x) # p)
           /\ \A x : x \in SentIn(sq[p]) <=> x \in Sent /\ Owner(x) = p
  <1>1. sq \in [Ends -> Seq(Works)]
    BY ZenonT(40) DEF WorkOK
  <1>2. /\ sq' \in [Ends -> Seq(Works)] /\ sq'[p] = t
        /\ \A q \in Ends : q # p => sq'[q] = sq[q]
    BY ZenonT(40), <1>1
  <1>3. ASSUME NEW q \in Ends
        PROVE  /\ OnceIds(sq'[q])
               /\ \A x \in UnsentIn(sq'[q]) : Owner(x) = q
               /\ \A x \in SentIn(sq'[q]) : Owner(x) = q
    <2>1. CASE q = p
      BY ZenonT(40), <1>2, <2>1
    <2>2. CASE q # p
      BY ZenonT(40), <1>2, <2>2 DEF WorkOK
    <2> QED
      BY <2>1, <2>2
  <1>4. WorkOK'
    BY ZenonT(40), <1>2, <1>3 DEF WorkOK
  <1>5. \A a, b \in Ends : a # b => Other(a) # Other(b)
    BY DEF Ends, Other
  <1>6. \A a \in Ends : \A x \in UnsentIn(sq[a]) : x \in Ids /\ Owner(x) = a
    BY ZenonT(40) DEF WorkOK, UnsentIn
  <1>7. \A x \in UnsentIn(t) : x \in Ids
    BY ZenonT(40) DEF UnsentIn
  <1>8. \A x : x \in UnsentIn(sq[p]) <=> x \in Unsent /\ Owner(x) = p
    BY ZenonT(40), <1>5, <1>6 DEF Unsent
  <1>9. \A x : x \in Unsent' <=> x \in UnsentIn(t) \/ (x \in Unsent /\ Owner(x) # p)
    BY ZenonT(40), <1>2, <1>5, <1>6, <1>7 DEF Unsent
  <1>10. \A a \in Ends : \A x \in SentIn(sq[a]) : x \in Ids /\ Owner(x) = a
    BY ZenonT(40) DEF WorkOK, SentIn
  <1>11. \A x \in SentIn(t) : x \in Ids
    BY ZenonT(40) DEF SentIn
  <1>12. \A x : x \in SentIn(sq[p]) <=> x \in Sent /\ Owner(x) = p
    BY ZenonT(40), <1>5, <1>10 DEF Sent
  <1>13. \A x : x \in Sent' <=> x \in SentIn(t) \/ (x \in Sent /\ Owner(x) # p)
    BY ZenonT(40), <1>2, <1>5, <1>10, <1>11 DEF Sent
  <1> QED
    BY ZenonT(40), <1>2, <1>4, <1>8, <1>9, <1>12, <1>13

(* One completion queue is replaced: which requests are acknowledged and    *)
(* arrived then.                                                            *)
LEMMA CqAt ==
    ASSUME CqOK, NEW p \in Ends, NEW t \in Seq(Completions), OnceIds(t),
           \A x \in AckedIn(t) : Owner(x) = p,
           \A x \in ArrivedIn(t) : Owner(x) = Other(p),
           cq' = [cq EXCEPT ![p] = t]
    PROVE  /\ CqOK' /\ cq'[p] = t
           /\ \A q \in Ends : q # p => cq'[q] = cq[q]
           /\ \A x : x \in Acked' <=> x \in AckedIn(t) \/ (x \in Acked /\ Owner(x) # p)
           /\ \A x : x \in AckedIn(cq[p]) <=> x \in Acked /\ Owner(x) = p
           /\ \A x : x \in Arrived' <=> x \in ArrivedIn(t) \/ (x \in Arrived /\ Owner(x) # Other(p))
           /\ \A x : x \in ArrivedIn(cq[p]) <=> x \in Arrived /\ Owner(x) = Other(p)
  <1>1. cq \in [Ends -> Seq(Completions)]
    BY ZenonT(40) DEF CqOK
  <1>2. /\ cq' \in [Ends -> Seq(Completions)] /\ cq'[p] = t
        /\ \A q \in Ends : q # p => cq'[q] = cq[q]
    BY ZenonT(40), <1>1
  <1>3. ASSUME NEW q \in Ends
        PROVE  /\ OnceIds(cq'[q])
               /\ \A x \in AckedIn(cq'[q]) : Owner(x) = q
               /\ \A x \in ArrivedIn(cq'[q]) : Owner(x) = Other(q)
    <2>1. CASE q = p
      BY ZenonT(40), <1>2, <2>1
    <2>2. CASE q # p
      BY ZenonT(40), <1>2, <2>2 DEF CqOK
    <2> QED
      BY <2>1, <2>2
  <1>4. CqOK'
    BY ZenonT(40), <1>2, <1>3 DEF CqOK
  <1>5. \A a, b \in Ends : a # b => Other(a) # Other(b)
    BY DEF Ends, Other
  <1>6. \A a \in Ends : \A x \in AckedIn(cq[a]) : x \in Ids /\ Owner(x) = a
    BY ZenonT(40) DEF CqOK, AckedIn
  <1>7. \A x \in AckedIn(t) : x \in Ids
    BY ZenonT(40) DEF AckedIn
  <1>8. \A x : x \in AckedIn(cq[p]) <=> x \in Acked /\ Owner(x) = p
    BY ZenonT(40), <1>5, <1>6 DEF Acked
  <1>9. \A x : x \in Acked' <=> x \in AckedIn(t) \/ (x \in Acked /\ Owner(x) # p)
    BY ZenonT(40), <1>2, <1>5, <1>6, <1>7 DEF Acked
  <1>10. \A a \in Ends : \A x \in ArrivedIn(cq[a]) : x \in Ids /\ Owner(x) = Other(a)
    BY ZenonT(40) DEF CqOK, ArrivedIn
  <1>11. \A x \in ArrivedIn(t) : x \in Ids
    BY ZenonT(40) DEF ArrivedIn
  <1>12. \A x : x \in ArrivedIn(cq[p]) <=> x \in Arrived /\ Owner(x) = Other(p)
    BY ZenonT(40), <1>5, <1>10 DEF Arrived
  <1>13. \A x : x \in Arrived' <=> x \in ArrivedIn(t) \/ (x \in Arrived /\ Owner(x) # Other(p))
    BY ZenonT(40), <1>2, <1>5, <1>10, <1>11 DEF Arrived
  <1> QED
    BY ZenonT(40), <1>2, <1>4, <1>8, <1>9, <1>12, <1>13

(* One stack is replaced: which transfers are being finished then.          *)
LEMMA StackAt ==
    ASSUME StackOK, NEW p \in Ends, NEW t \in Seq(Frames), OnceFinish(t),
           \A x \in FinishIn(t) : Owner(x) = p,
           stack' = [stack EXCEPT ![p] = t]
    PROVE  /\ StackOK' /\ stack'[p] = t
           /\ \A q \in Ends : q # p => stack'[q] = stack[q]
           /\ \A x : x \in Ending' <=> x \in FinishIn(t) \/ (x \in Ending /\ Owner(x) # p)
           /\ \A x : x \in FinishIn(stack[p]) <=> x \in Ending /\ Owner(x) = p
  <1>1. stack \in [Ends -> Seq(Frames)]
    BY ZenonT(40) DEF StackOK
  <1>2. /\ stack' \in [Ends -> Seq(Frames)] /\ stack'[p] = t
        /\ \A q \in Ends : q # p => stack'[q] = stack[q]
    BY ZenonT(40), <1>1
  <1>3. ASSUME NEW q \in Ends
        PROVE  /\ OnceFinish(stack'[q])
                 /\ \A x \in FinishIn(stack'[q]) : Owner(x) = q
    <2>1. CASE q = p
      BY ZenonT(40), <1>2, <2>1
    <2>2. CASE q # p
      BY ZenonT(40), <1>2, <2>2 DEF StackOK
    <2> QED
      BY <2>1, <2>2
  <1>4. StackOK'
    BY ZenonT(40), <1>2, <1>3 DEF StackOK
  <1>5. \A a, b \in Ends : a # b => Other(a) # Other(b)
    BY DEF Ends, Other
  <1>6. \A a \in Ends : \A x \in FinishIn(stack[a]) : x \in Ids /\ Owner(x) = a
    BY ZenonT(40) DEF StackOK, FinishIn
  <1>7. \A x \in FinishIn(t) : x \in Ids
    BY ZenonT(40) DEF FinishIn
  <1>8. \A x : x \in FinishIn(stack[p]) <=> x \in Ending /\ Owner(x) = p
    BY ZenonT(40), <1>5, <1>6 DEF Ending
  <1>9. \A x : x \in Ending' <=> x \in FinishIn(t) \/ (x \in Ending /\ Owner(x) # p)
    BY ZenonT(40), <1>2, <1>5, <1>6, <1>7 DEF Ending
  <1> QED
    BY ZenonT(40), <1>2, <1>4, <1>8, <1>9

(* The messages handled at one end are replaced.                            *)
LEMMA HandledAt ==
    ASSUME HandledOK, NEW p \in Ends, NEW t \in Seq(Ids),
           \A x \in Range(t) : Owner(x) = Other(p),
           handled' = [handled EXCEPT ![p] = t]
    PROVE  /\ HandledOK' /\ handled'[p] = t
           /\ \A q \in Ends : q # p => handled'[q] = handled[q]
           /\ \A x : x \in Decoded' <=> x \in Range(t) \/ (x \in Decoded /\ Owner(x) # Other(p))
           /\ \A x : x \in Range(handled[p]) <=> x \in Decoded /\ Owner(x) = Other(p)
  <1>1. handled \in [Ends -> Seq(Ids)]
    BY ZenonT(40) DEF HandledOK
  <1>2. /\ handled' \in [Ends -> Seq(Ids)] /\ handled'[p] = t
        /\ \A q \in Ends : q # p => handled'[q] = handled[q]
    BY ZenonT(40), <1>1
  <1>3. ASSUME NEW q \in Ends
        PROVE  /\ \A x \in Range(handled'[q]) : Owner(x) = Other(q)
    <2>1. CASE q = p
      BY ZenonT(40), <1>2, <2>1
    <2>2. CASE q # p
      BY ZenonT(40), <1>2, <2>2 DEF HandledOK
    <2> QED
      BY <2>1, <2>2
  <1>4. HandledOK'
    BY ZenonT(40), <1>2, <1>3 DEF HandledOK
  <1>5. \A a, b \in Ends : a # b => Other(a) # Other(b)
    BY DEF Ends, Other
  <1>6. \A a \in Ends : \A x \in Range(handled[a]) : x \in Ids /\ Owner(x) = Other(a)
    BY ZenonT(40), SeqRange DEF HandledOK
  <1>7. \A x \in Range(t) : x \in Ids
    BY ZenonT(40), SeqRange
  <1>8. \A x : x \in Range(handled[p]) <=> x \in Decoded /\ Owner(x) = Other(p)
    BY ZenonT(40), <1>5, <1>6 DEF Decoded
  <1>9. \A x : x \in Decoded' <=> x \in Range(t) \/ (x \in Decoded /\ Owner(x) # Other(p))
    BY ZenonT(40), <1>2, <1>5, <1>6, <1>7 DEF Decoded
  <1> QED
    BY ZenonT(40), <1>2, <1>4, <1>8, <1>9

(* A request joins the send list of its end.                                *)
LEMMA ListAdd ==
    ASSUME ListOK, NEW p \in Ends, NEW id \in Ids, Owner(id) = p, id \notin Listed,
           req_list' = [req_list EXCEPT ![p] = Append(@, id)]
    PROVE  ListOK' /\ Listed' = Listed \cup {id}
  <1>1. /\ req_list[p] \in Seq(Ids) /\ Once(req_list[p]) /\ id \notin Range(req_list[p])
        /\ \A x \in Range(req_list[p]) : Owner(x) = p
    BY ZenonT(40) DEF ListOK, Listed
  <1> DEFINE t == Append(req_list[p], id)
  <1>2. t \in Seq(Ids) /\ Range(t) = Range(req_list[p]) \cup {id} /\ Once(t)
    BY ZenonT(40), <1>1, ListAppend
  <1>3. req_list' = [req_list EXCEPT ![p] = t]
    BY ZenonT(40)
  <1> HIDE DEF t
  <1>4. \A x \in Range(t) : Owner(x) = p
    BY ZenonT(40), <1>1, <1>2
  <1>5. /\ ListOK'
        /\ \A x : x \in Listed' <=> x \in Range(t) \/ (x \in Listed /\ Owner(x) # p)
        /\ \A x : x \in Range(req_list[p]) <=> x \in Listed /\ Owner(x) = p
    BY ZenonT(40), <1>2, <1>3, <1>4, ListAt
  <1>6. \A x : x \in Listed' <=> x \in Listed \cup {id}
    BY ZenonT(40), <1>2, <1>5
  <1> QED
    BY ZenonT(40), <1>5, <1>6

(* The head of a send list leaves it.                                       *)
LEMMA ListRemove ==
    ASSUME ListOK, NEW p \in Ends, req_list[p] # << >>,
           req_list' = [req_list EXCEPT ![p] = Tail(@)]
    PROVE  /\ ListOK' /\ Listed' = Listed \ {Head(req_list[p])}
           /\ Head(req_list[p]) \in Listed /\ Owner(Head(req_list[p])) = p
  <1> DEFINE t == Tail(req_list[p])
             id == Head(req_list[p])
  <1>1. /\ req_list[p] \in Seq(Ids) /\ Once(req_list[p])
        /\ \A x \in Range(req_list[p]) : Owner(x) = p
    BY ZenonT(40) DEF ListOK
  <1>2. /\ t \in Seq(Ids) /\ id \in Range(req_list[p]) /\ id \in Ids
        /\ Range(t) = Range(req_list[p]) \ {id} /\ Once(t)
    BY ZenonT(40), <1>1, ListTail
  <1>3. req_list' = [req_list EXCEPT ![p] = t]
    BY ZenonT(40)
  <1> HIDE DEF t, id
  <1>4. \A x \in Range(t) : Owner(x) = p
    BY ZenonT(40), <1>1, <1>2
  <1>5. /\ ListOK'
        /\ \A x : x \in Listed' <=> x \in Range(t) \/ (x \in Listed /\ Owner(x) # p)
        /\ \A x : x \in Range(req_list[p]) <=> x \in Listed /\ Owner(x) = p
    BY ZenonT(40), <1>2, <1>3, <1>4, ListAt
  <1>6. id \in Listed /\ Owner(id) = p
    BY ZenonT(40), <1>2, <1>5
  <1>7. \A x : x \in Listed' <=> x \in Listed \ {id}
    BY ZenonT(40), <1>2, <1>5, <1>6
  <1>8. Listed' = Listed \ {id}
    BY ZenonT(40), <1>7
  <1> QED
    BY ZenonT(40), <1>5, <1>6, <1>8 DEF id

(* A request is posted to the send queue of its end.                        *)
LEMMA WorkAdd ==
    ASSUME WorkOK, NEW p \in Ends, NEW id \in Ids, Owner(id) = p,
           id \notin Unsent, id \notin Sent,
           sq' = [sq EXCEPT ![p] = Append(@, [id |-> id, sent |-> FALSE])]
    PROVE  WorkOK' /\ Unsent' = Unsent \cup {id} /\ Sent' = Sent
  <1> DEFINE w == [id |-> id, sent |-> FALSE]
             t == Append(sq[p], w)
  <1>1. /\ sq[p] \in Seq(Works) /\ OnceIds(sq[p])
        /\ \A x \in UnsentIn(sq[p]) : Owner(x) = p
        /\ \A x \in SentIn(sq[p]) : Owner(x) = p
    BY ZenonT(40) DEF WorkOK
  <1>2. id \notin UnsentIn(sq[p]) \cup SentIn(sq[p])
    BY ZenonT(40) DEF Unsent, Sent
  <1>3. /\ t \in Seq(Works) /\ UnsentIn(t) = UnsentIn(sq[p]) \cup {id}
        /\ SentIn(t) = SentIn(sq[p]) /\ OnceIds(t)
    BY ZenonT(40), <1>1, <1>2, SqAppend
  <1>4. sq' = [sq EXCEPT ![p] = t]
    BY ZenonT(40)
  <1> HIDE DEF t, w
  <1>5. /\ \A x \in UnsentIn(t) : Owner(x) = p
        /\ \A x \in SentIn(t) : Owner(x) = p
    BY ZenonT(40), <1>1, <1>3
  <1>6. /\ WorkOK'
        /\ \A x : x \in Unsent' <=> x \in UnsentIn(t) \/ (x \in Unsent /\ Owner(x) # p)
        /\ \A x : x \in UnsentIn(sq[p]) <=> x \in Unsent /\ Owner(x) = p
        /\ \A x : x \in Sent' <=> x \in SentIn(t) \/ (x \in Sent /\ Owner(x) # p)
        /\ \A x : x \in SentIn(sq[p]) <=> x \in Sent /\ Owner(x) = p
    BY ZenonT(40), <1>3, <1>4, <1>5, WorkAt
  <1>7. \A x : x \in Unsent' <=> x \in Unsent \cup {id}
    BY ZenonT(40), <1>3, <1>6
  <1>8. \A x : x \in Sent' <=> x \in Sent
    BY ZenonT(40), <1>3, <1>6
  <1> QED
    BY ZenonT(40), <1>6, <1>7, <1>8

(* A work request of a send queue takes effect.                             *)
LEMMA WorkSent ==
    ASSUME WorkOK, NEW p \in Ends, NEW i \in DOMAIN sq[p], ~sq[p][i].sent,
           sq' = [sq EXCEPT ![p][i].sent = TRUE]
    PROVE  /\ WorkOK' /\ sq[p][i].id \in Unsent /\ Owner(sq[p][i].id) = p
           /\ Unsent' = Unsent \ {sq[p][i].id} /\ Sent' = Sent \cup {sq[p][i].id}
  <1> DEFINE t == [sq[p] EXCEPT ![i].sent = TRUE]
             id == sq[p][i].id
  <1>1. /\ sq[p] \in Seq(Works) /\ OnceIds(sq[p])
        /\ \A x \in UnsentIn(sq[p]) : Owner(x) = p
        /\ \A x \in SentIn(sq[p]) : Owner(x) = p
    BY ZenonT(40) DEF WorkOK
  <1>2. /\ t \in Seq(Works) /\ id \in UnsentIn(sq[p])
        /\ UnsentIn(t) = UnsentIn(sq[p]) \ {id}
        /\ SentIn(t) = SentIn(sq[p]) \cup {id} /\ OnceIds(t)
    BY ZenonT(40), <1>1, SqSent
  <1>3. sq' = [sq EXCEPT ![p] = t]
    BY ZenonT(40)
  <1> HIDE DEF t, id
  <1>4. /\ \A x \in UnsentIn(t) : Owner(x) = p
        /\ \A x \in SentIn(t) : Owner(x) = p
    BY ZenonT(40), <1>1, <1>2
  <1>5. /\ WorkOK'
        /\ \A x : x \in Unsent' <=> x \in UnsentIn(t) \/ (x \in Unsent /\ Owner(x) # p)
        /\ \A x : x \in UnsentIn(sq[p]) <=> x \in Unsent /\ Owner(x) = p
        /\ \A x : x \in Sent' <=> x \in SentIn(t) \/ (x \in Sent /\ Owner(x) # p)
        /\ \A x : x \in SentIn(sq[p]) <=> x \in Sent /\ Owner(x) = p
    BY ZenonT(40), <1>2, <1>3, <1>4, WorkAt
  <1>6. id \in Unsent /\ Owner(id) = p
    BY ZenonT(40), <1>2, <1>5
  <1>7. \A x : x \in Unsent' <=> x \in Unsent \ {id}
    BY ZenonT(40), <1>2, <1>5, <1>6
  <1>8. \A x : x \in Sent' <=> x \in Sent \cup {id}
    BY ZenonT(40), <1>2, <1>5
  <1>9. Unsent' = Unsent \ {id} /\ Sent' = Sent \cup {id}
    BY ZenonT(40), <1>7, <1>8
  <1> QED
    BY ZenonT(40), <1>5, <1>6, <1>9 DEF id

(* The oldest work request is acknowledged and leaves the send queue.       *)
LEMMA WorkRemove ==
    ASSUME WorkOK, NEW p \in Ends, sq[p] # << >>, Head(sq[p]).sent,
           sq' = [sq EXCEPT ![p] = Tail(@)]
    PROVE  /\ WorkOK' /\ Head(sq[p]).id \in Sent /\ Owner(Head(sq[p]).id) = p
           /\ Unsent' = Unsent /\ Sent' = Sent \ {Head(sq[p]).id}
  <1> DEFINE t == Tail(sq[p])
             id == Head(sq[p]).id
  <1>1. /\ sq[p] \in Seq(Works) /\ OnceIds(sq[p])
        /\ \A x \in UnsentIn(sq[p]) : Owner(x) = p
        /\ \A x \in SentIn(sq[p]) : Owner(x) = p
    BY ZenonT(40) DEF WorkOK
  <1>2. /\ t \in Seq(Works) /\ id \in SentIn(sq[p])
        /\ UnsentIn(t) = UnsentIn(sq[p])
        /\ SentIn(t) = SentIn(sq[p]) \ {id} /\ OnceIds(t)
    BY ZenonT(40), <1>1, SqTail
  <1>3. sq' = [sq EXCEPT ![p] = t]
    BY ZenonT(40)
  <1> HIDE DEF t, id
  <1>4. /\ \A x \in UnsentIn(t) : Owner(x) = p
        /\ \A x \in SentIn(t) : Owner(x) = p
    BY ZenonT(40), <1>1, <1>2
  <1>5. /\ WorkOK'
        /\ \A x : x \in Unsent' <=> x \in UnsentIn(t) \/ (x \in Unsent /\ Owner(x) # p)
        /\ \A x : x \in UnsentIn(sq[p]) <=> x \in Unsent /\ Owner(x) = p
        /\ \A x : x \in Sent' <=> x \in SentIn(t) \/ (x \in Sent /\ Owner(x) # p)
        /\ \A x : x \in SentIn(sq[p]) <=> x \in Sent /\ Owner(x) = p
    BY ZenonT(40), <1>2, <1>3, <1>4, WorkAt
  <1>6. id \in Sent /\ Owner(id) = p
    BY ZenonT(40), <1>2, <1>5
  <1>7. \A x : x \in Unsent' <=> x \in Unsent
    BY ZenonT(40), <1>2, <1>5
  <1>8. \A x : x \in Sent' <=> x \in Sent \ {id}
    BY ZenonT(40), <1>2, <1>5, <1>6
  <1>9. Unsent' = Unsent /\ Sent' = Sent \ {id}
    BY ZenonT(40), <1>7, <1>8
  <1> QED
    BY ZenonT(40), <1>5, <1>6, <1>9 DEF id

(* A completion joins a completion queue.                                   *)
LEMMA CqAdd ==
    ASSUME CqOK, NEW p \in Ends, NEW c \in Completions,
           Owner(c.id) = IF c.recv THEN Other(p) ELSE p,
           c.id \notin IF c.recv THEN Arrived ELSE Acked,
           cq' = [cq EXCEPT ![p] = Append(@, c)]
    PROVE  /\ CqOK'
           /\ c.recv => Arrived' = Arrived \cup {c.id} /\ Acked' = Acked
           /\ ~c.recv => Acked' = Acked \cup {c.id} /\ Arrived' = Arrived
  <1> DEFINE t == Append(cq[p], c)
  <1>1. /\ cq[p] \in Seq(Completions) /\ OnceIds(cq[p])
        /\ \A x \in AckedIn(cq[p]) : x \in Ids /\ Owner(x) = p
        /\ \A x \in ArrivedIn(cq[p]) : x \in Ids /\ Owner(x) = Other(p)
    BY ZenonT(40) DEF CqOK, AckedIn, ArrivedIn
  <1>2. c.id \notin AckedIn(cq[p]) \cup ArrivedIn(cq[p])
    <2>1. \A x \in AckedIn(cq[p]) : x \in Acked
      BY ZenonT(40), <1>1 DEF Acked
    <2>2. \A x \in ArrivedIn(cq[p]) : x \in Arrived
      BY ZenonT(40), <1>1 DEF Arrived
    <2> QED
      BY ZenonT(40), <1>1, <2>1, <2>2, TwoEnds
  <1>3. /\ t \in Seq(Completions) /\ OnceIds(t)
        /\ c.recv => /\ ArrivedIn(t) = ArrivedIn(cq[p]) \cup {c.id}
                     /\ AckedIn(t) = AckedIn(cq[p])
        /\ ~c.recv => /\ AckedIn(t) = AckedIn(cq[p]) \cup {c.id}
                      /\ ArrivedIn(t) = ArrivedIn(cq[p])
    BY ZenonT(40), <1>1, <1>2, CqAppend
  <1>4. cq' = [cq EXCEPT ![p] = t]
    BY ZenonT(40)
  <1> HIDE DEF t
  <1>5. /\ \A x \in AckedIn(t) : Owner(x) = p
        /\ \A x \in ArrivedIn(t) : Owner(x) = Other(p)
    BY ZenonT(40), <1>1, <1>3
  <1>6. /\ CqOK'
        /\ \A x : x \in Acked' <=> x \in AckedIn(t) \/ (x \in Acked /\ Owner(x) # p)
        /\ \A x : x \in AckedIn(cq[p]) <=> x \in Acked /\ Owner(x) = p
        /\ \A x : x \in Arrived' <=> x \in ArrivedIn(t) \/ (x \in Arrived /\ Owner(x) # Other(p))
        /\ \A x : x \in ArrivedIn(cq[p]) <=> x \in Arrived /\ Owner(x) = Other(p)
    BY ZenonT(40), <1>3, <1>4, <1>5, CqAt
  <1>7. CASE c.recv
    <2>1. \A x : x \in Arrived' <=> x \in Arrived \cup {c.id}
      BY ZenonT(40), <1>3, <1>6, <1>7
    <2>2. \A x : x \in Acked' <=> x \in Acked
      BY ZenonT(40), <1>3, <1>6, <1>7
    <2> QED
      BY ZenonT(40), <1>6, <1>7, <2>1, <2>2
  <1>8. CASE ~c.recv
    <2>1. \A x : x \in Acked' <=> x \in Acked \cup {c.id}
      BY ZenonT(40), <1>3, <1>6, <1>8
    <2>2. \A x : x \in Arrived' <=> x \in Arrived
      BY ZenonT(40), <1>3, <1>6, <1>8
    <2> QED
      BY ZenonT(40), <1>6, <1>8, <2>1, <2>2
  <1> QED
    BY ZenonT(40), <1>7, <1>8

(* A completion is polled.                                                  *)
LEMMA CqRemove ==
    ASSUME CqOK, NEW p \in Ends, cq[p] # << >>,
           cq' = [cq EXCEPT ![p] = Tail(@)],
           NEW id, id = Head(cq[p]).id
    PROVE  /\ CqOK' /\ id \in Ids
           /\ Head(cq[p]).recv => /\ id \in Arrived /\ Owner(id) = Other(p)
                                  /\ Arrived' = Arrived \ {id} /\ Acked' = Acked
           /\ ~Head(cq[p]).recv => /\ id \in Acked /\ Owner(id) = p
                                   /\ Acked' = Acked \ {id} /\ Arrived' = Arrived
  <1> DEFINE t == Tail(cq[p])
             c == Head(cq[p])
  <1>1. /\ cq[p] \in Seq(Completions) /\ OnceIds(cq[p])
        /\ \A x \in AckedIn(cq[p]) : Owner(x) = p
        /\ \A x \in ArrivedIn(cq[p]) : Owner(x) = Other(p)
    BY ZenonT(40) DEF CqOK
  <1>2. /\ t \in Seq(Completions) /\ c \in Completions /\ OnceIds(t)
        /\ c.recv => /\ id \in ArrivedIn(cq[p])
                     /\ ArrivedIn(t) = ArrivedIn(cq[p]) \ {id}
                     /\ AckedIn(t) = AckedIn(cq[p])
        /\ ~c.recv => /\ id \in AckedIn(cq[p])
                      /\ AckedIn(t) = AckedIn(cq[p]) \ {id}
                      /\ ArrivedIn(t) = ArrivedIn(cq[p])
    BY ZenonT(40), <1>1, CqTail
  <1>3. cq' = [cq EXCEPT ![p] = t]
    BY ZenonT(40)
  <1>4. id \in Ids
    BY ZenonT(40), <1>2 DEF AckedIn, ArrivedIn
  <1> HIDE DEF t, c
  <1>5. /\ \A x \in AckedIn(t) : Owner(x) = p
        /\ \A x \in ArrivedIn(t) : Owner(x) = Other(p)
    BY ZenonT(40), <1>1, <1>2
  <1>6. /\ CqOK'
        /\ \A x : x \in Acked' <=> x \in AckedIn(t) \/ (x \in Acked /\ Owner(x) # p)
        /\ \A x : x \in AckedIn(cq[p]) <=> x \in Acked /\ Owner(x) = p
        /\ \A x : x \in Arrived' <=> x \in ArrivedIn(t) \/ (x \in Arrived /\ Owner(x) # Other(p))
        /\ \A x : x \in ArrivedIn(cq[p]) <=> x \in Arrived /\ Owner(x) = Other(p)
    BY ZenonT(40), <1>2, <1>3, <1>5, CqAt
  <1>7. ASSUME c.recv
        PROVE  /\ id \in Arrived /\ Owner(id) = Other(p)
               /\ Arrived' = Arrived \ {id} /\ Acked' = Acked
    <2>1. id \in Arrived /\ Owner(id) = Other(p)
      BY ZenonT(40), <1>2, <1>6, <1>7
    <2>2. \A x : x \in Arrived' <=> x \in Arrived \ {id}
      BY ZenonT(40), <1>2, <1>6, <1>7, <2>1
    <2>3. \A x : x \in Acked' <=> x \in Acked
      BY ZenonT(40), <1>2, <1>6, <1>7
    <2> QED
      BY ZenonT(40), <2>1, <2>2, <2>3
  <1>8. ASSUME ~c.recv
        PROVE  /\ id \in Acked /\ Owner(id) = p
               /\ Acked' = Acked \ {id} /\ Arrived' = Arrived
    <2>1. id \in Acked /\ Owner(id) = p
      BY ZenonT(40), <1>2, <1>6, <1>8
    <2>2. \A x : x \in Acked' <=> x \in Acked \ {id}
      BY ZenonT(40), <1>2, <1>6, <1>8, <2>1
    <2>3. \A x : x \in Arrived' <=> x \in Arrived
      BY ZenonT(40), <1>2, <1>6, <1>8
    <2> QED
      BY ZenonT(40), <2>1, <2>2, <2>3
  <1> QED
    BY ZenonT(40), <1>4, <1>6, <1>7, <1>8 DEF c

(* The calls under way change and the transfers that are being finished do  *)
(* not.                                                                     *)
LEMMA StackKept ==
    ASSUME StackOK, NEW p \in Ends, NEW t \in Seq(Frames), OnceFinish(t),
           FinishIn(t) = FinishIn(stack[p]),
           stack' = [stack EXCEPT ![p] = t]
    PROVE  StackOK' /\ Ending' = Ending
  <1>1. \A x \in FinishIn(t) : Owner(x) = p
    BY ZenonT(40) DEF StackOK
  <1>2. /\ StackOK'
        /\ \A x : x \in Ending' <=> x \in FinishIn(t) \/ (x \in Ending /\ Owner(x) # p)
        /\ \A x : x \in FinishIn(stack[p]) <=> x \in Ending /\ Owner(x) = p
    BY ZenonT(40), <1>1, StackAt
  <1>3. \A x : x \in Ending' <=> x \in Ending
    BY ZenonT(40), <1>2
  <1> QED
    BY ZenonT(40), <1>2, <1>3

(* A call that finishes a transfer is put on the stack.                     *)
LEMMA StackAdd ==
    ASSUME StackOK, NEW p \in Ends, NEW t \in Seq(Frames), OnceFinish(t), NEW id, Owner(id) = p,
           FinishIn(t) = FinishIn(stack[p]) \cup {id},
           stack' = [stack EXCEPT ![p] = t]
    PROVE  StackOK' /\ Ending' = Ending \cup {id}
  <1>1. \A x \in FinishIn(t) : Owner(x) = p
    BY ZenonT(40) DEF StackOK
  <1>2. /\ StackOK'
        /\ \A x : x \in Ending' <=> x \in FinishIn(t) \/ (x \in Ending /\ Owner(x) # p)
        /\ \A x : x \in FinishIn(stack[p]) <=> x \in Ending /\ Owner(x) = p
    BY ZenonT(40), <1>1, StackAt
  <1>3. \A x : x \in Ending' <=> x \in Ending \cup {id}
    BY ZenonT(40), <1>2
  <1> QED
    BY ZenonT(40), <1>2, <1>3

(* The call that finishes a transfer returns.                               *)
LEMMA StackRemove ==
    ASSUME StackOK, NEW p \in Ends, NEW t \in Seq(Frames), OnceFinish(t), NEW id,
           id \in FinishIn(stack[p]), FinishIn(t) = FinishIn(stack[p]) \ {id},
           stack' = [stack EXCEPT ![p] = t]
    PROVE  StackOK' /\ Ending' = Ending \ {id} /\ id \in Ending
  <1>1. \A x \in FinishIn(t) : Owner(x) = p
    BY ZenonT(40) DEF StackOK
  <1>2. /\ StackOK'
        /\ \A x : x \in Ending' <=> x \in FinishIn(t) \/ (x \in Ending /\ Owner(x) # p)
        /\ \A x : x \in FinishIn(stack[p]) <=> x \in Ending /\ Owner(x) = p
    BY ZenonT(40), <1>1, StackAt
  <1>3. \A x : x \in Ending' <=> x \in Ending \ {id}
    BY ZenonT(40), <1>2
  <1> QED
    BY ZenonT(40), <1>2, <1>3

(* A message is handled.                                                    *)
LEMMA HandledAdd ==
    ASSUME HandledOK, NEW p \in Ends, NEW id \in Ids, Owner(id) = Other(p),
           handled' = [handled EXCEPT ![p] = Append(@, id)]
    PROVE  HandledOK' /\ Decoded' = Decoded \cup {id}
  <1> DEFINE t == Append(handled[p], id)
  <1>1. handled[p] \in Seq(Ids) /\ \A x \in Range(handled[p]) : Owner(x) = Other(p)
    BY ZenonT(40) DEF HandledOK
  <1>2. t \in Seq(Ids) /\ Range(t) = Range(handled[p]) \cup {id}
    BY ZenonT(40), <1>1, RangeAppend
  <1>3. handled' = [handled EXCEPT ![p] = t]
    BY ZenonT(40)
  <1> HIDE DEF t
  <1>4. \A x \in Range(t) : Owner(x) = Other(p)
    BY ZenonT(40), <1>1, <1>2
  <1>5. /\ HandledOK'
        /\ \A x : x \in Decoded' <=> x \in Range(t) \/ (x \in Decoded /\ Owner(x) # Other(p))
        /\ \A x : x \in Range(handled[p]) <=> x \in Decoded /\ Owner(x) = Other(p)
    BY ZenonT(40), <1>2, <1>3, <1>4, HandledAt
  <1>6. \A x : x \in Decoded' <=> x \in Decoded \cup {id}
    BY ZenonT(40), <1>2, <1>5
  <1> QED
    BY ZenonT(40), <1>5, <1>6

-----------------------------------------------------------------------------
(* The calls under way.                                                     *)

(* A call that neither finishes a transfer nor posts a receive.             *)
Plain(f) == f \in Frames /\ f.at \in {"wait", "poll"}

(* A plain call on top of a stack adds nothing to finish or to post.        *)
LEMMA PlainPush ==
    ASSUME NEW s \in Seq(Frames), NEW f, Plain(f), OnceFinish(s)
    PROVE  LET t == <<f>> \o s
           IN t \in Seq(Frames) /\ OnceFinish(t) /\ FinishIn(t) = FinishIn(s) /\ Depths(t) = Depths(s)
  <1>1. f \in Frames /\ f.at # "finish" /\ f.at # "repost"
    BY DEF Plain
  <1> QED
    BY ZenonT(40), <1>1, FramePush

(* A plain call that returns leaves what is to finish and to post.          *)
LEMMA PlainPop ==
    ASSUME NEW s \in Seq(Frames), s # << >>, Plain(Head(s)), OnceFinish(s)
    PROVE  LET t == Tail(s)
           IN t \in Seq(Frames) /\ OnceFinish(t) /\ FinishIn(t) = FinishIn(s) /\ Depths(t) = Depths(s)
  <1> DEFINE t == Tail(s)
             f == Head(s)
  <1>1. t \in Seq(Frames) /\ s = <<f>> \o t /\ OnceFinish(t)
    BY ZenonT(40), FramePop
  <1>2. Plain(f)
    OBVIOUS
  <1> HIDE DEF t, f
  <1>3. FinishIn(<<f>> \o t) = FinishIn(t) /\ Depths(<<f>> \o t) = Depths(t)
    BY ZenonT(40), <1>1, <1>2, PlainPush
  <1>4. FinishIn(t) = FinishIn(s) /\ Depths(t) = Depths(s)
    BY ZenonT(40), <1>1, <1>3
  <1> QED
    BY ZenonT(40), <1>1, <1>4 DEF t

(* Two calls put on a stack are one call put on top of the other.           *)
LEMMA PushTwo ==
    ASSUME NEW s \in Seq(Frames), NEW f \in Frames, NEW g \in Frames
    PROVE  <<f, g>> \o s = <<f>> \o (<<g>> \o s)
  <1> DEFINE u == <<g>> \o s
             v == <<f>> \o u
             w == <<f, g>> \o s
  <1>1. /\ u \in Seq(Frames) /\ Len(u) = Len(s) + 1 /\ u[1] = g
        /\ DOMAIN u = 1 .. Len(s) + 1 /\ Len(s) \in Nat /\ DOMAIN s = 1 .. Len(s)
        /\ \A i \in DOMAIN s : u[i + 1] = s[i]
    BY PushAt
  <1> HIDE DEF u
  <1>2. /\ v \in Seq(Frames) /\ Len(v) = Len(u) + 1 /\ v[1] = f
        /\ \A i \in DOMAIN u : v[i + 1] = u[i]
    BY <1>1, PushAt
  <1>3. <<f, g>> \in Seq(Frames) /\ Len(<<f, g>>) = 2 /\ <<f, g>>[1] = f /\ <<f, g>>[2] = g
    OBVIOUS
  <1>4. /\ w \in Seq(Frames) /\ Len(w) = 2 + Len(s)
        /\ \A i \in 1 .. 2 + Len(s) : w[i] = IF i <= 2 THEN <<f, g>>[i] ELSE s[i - 2]
    BY <1>3
  <1> HIDE DEF v, w
  <1>5. Len(v) = Len(w) /\ Len(v) = Len(s) + 2
    BY <1>1, <1>2, <1>4
  <1>6. ASSUME NEW i \in 1 .. Len(w) PROVE v[i] = w[i]
    <2>1. CASE i = 1
      BY SMTT(30), <1>1, <1>2, <1>3, <1>4, <2>1
    <2>2. CASE i = 2
      <3>1. 1 \in DOMAIN u
        BY <1>1
      <3>2. v[2] = u[1]
        BY <1>2, <3>1
      <3> QED
        BY SMTT(30), <1>1, <1>3, <1>4, <2>2, <3>2
    <2>3. CASE i \notin {1, 2}
      <3>1. i - 2 \in DOMAIN s /\ i - 1 \in DOMAIN u /\ i \in 1 .. 2 + Len(s) /\ ~(i <= 2)
        BY <1>1, <1>4, <2>3
      <3>2. v[(i - 1) + 1] = u[i - 1] /\ u[(i - 2) + 1] = s[i - 2]
        BY ZenonT(40), <1>1, <1>2, <3>1
      <3>3. (i - 1) + 1 = i /\ (i - 2) + 1 = i - 1
        BY <1>5
      <3>4. w[i] = s[i - 2]
        BY ZenonT(40), <1>4, <3>1
      <3> QED
        BY ZenonT(40), <3>2, <3>3, <3>4
    <2> QED
      BY <2>1, <2>2, <2>3
  <1>7. v = w
    BY SMTT(30), <1>2, <1>4, <1>5, <1>6
  <1> QED
    BY <1>7 DEF u, v, w

(* rpc_send, waiting for its command to leave, is a plain call.             *)
LEMMA SendingFrame ==
    ASSUME NEW p, NEW n
    PROVE  Plain(Sending(p, n))
  <1>1. CASE p \in Clients \/ n > NumBuf
    BY <1>1, IbRpcAssumption DEF Plain, Frames, Sending
  <1>2. CASE ~(p \in Clients \/ n > NumBuf)
    BY <1>2, IbRpcAssumption DEF Plain, Frames, Sending
  <1> QED
    BY <1>1, <1>2

(* No receive was posted again and none is newly owed.                      *)
SameDepths == \A q \in Ends : Depths(stack'[q]) = Depths(stack[q])

(* The calls under way change and what they owe does not.                   *)
LEMMA StackPlain ==
    ASSUME StackOK, NEW p \in Ends, NEW t \in Seq(Frames), OnceFinish(t),
           FinishIn(t) = FinishIn(stack[p]), Depths(t) = Depths(stack[p]),
           stack' = [stack EXCEPT ![p] = t]
    PROVE  StackOK' /\ Ending' = Ending /\ SameDepths
  <1>1. StackOK' /\ Ending' = Ending
    BY ZenonT(40), StackKept
  <1>2. stack'[p] = t /\ \A q \in Ends : q # p => stack'[q] = stack[q]
    BY ZenonT(40) DEF StackOK
  <1> QED
    BY ZenonT(40), <1>1, <1>2 DEF SameDepths

(* The kind of the call on top tells what it holds.                         *)
LEMMA TopFrame ==
    ASSUME StackOK, NEW p \in Ends, Top(p).at \in {"wait", "poll", "finish", "repost"}
    PROVE  /\ stack[p] # << >> /\ Head(stack[p]) = Top(p) /\ Top(p) \in Frames
           /\ stack[p] \in Seq(Frames) /\ OnceFinish(stack[p])
           /\ Top(p).at = "wait" => Top(p) = [at |-> "wait", left |-> Top(p).left] /\ Top(p).left \in Int
           /\ Top(p).at = "finish" => Top(p).id \in Ids
           /\ Top(p).at \in {"wait", "poll"} => Plain(Top(p))
  <1>1. stack[p] \in Seq(Frames) /\ OnceFinish(stack[p])
    BY ZenonT(40) DEF StackOK
  <1>2. stack[p] # << >>
    BY DEF Top
  <1>3. Head(stack[p]) = Top(p)
    BY ZenonT(40), <1>2 DEF Top
  <1>4. Top(p) \in Frames
    BY SMTT(30), <1>1, <1>2, <1>3
  <1>5. Top(p).at = "wait" => Top(p) = [at |-> "wait", left |-> Top(p).left] /\ Top(p).left \in Int
    BY <1>4 DEF Frames
  <1>6. Top(p).at = "finish" => Top(p).id \in Ids
    BY <1>4 DEF Frames
  <1> QED
    BY ZenonT(40), <1>1, <1>2, <1>3, <1>4, <1>5, <1>6 DEF Plain

-----------------------------------------------------------------------------
(* The inductive invariant.                                                 *)

(* The variables that are in none of the queues.                            *)
Rest ==
    /\ todo \subseteq Ops
    /\ posted \in [Ends -> Int]
    /\ num_recv \in [Ends -> Nat]
    /\ armed \in [Ends -> BOOLEAN] /\ event \in [Ends -> BOOLEAN]
    /\ issued \in [Ends -> Seq(Ids)]
    /\ lost \subseteq Ids

(* The inductive invariant. Counts, Order, Wakeup and NotNested of the      *)
(* modules that extend this one rest on it.                                 *)
Core == Rest /\ req \in [Ids -> Requests \cup {None}] /\ Queues /\ Places

(* What the invariant says of the types and places alone.                   *)
LEMMA CoreTyped ==
    ASSUME Core
    PROVE  Typed /\ Places
  BY ZenonT(40) DEF Core, Rest, Typed, Queues, ListOK, WorkOK, CqOK, StackOK, HandledOK

(* The send lists stay as they are.                                         *)
LEMMA SameList ==
    ASSUME ListOK, req_list' = req_list
    PROVE  ListOK' /\ Listed' = Listed
  BY ZenonT(40) DEF ListOK, Listed

(* The send queues stay as they are.                                        *)
LEMMA SameWork ==
    ASSUME WorkOK, sq' = sq
    PROVE  WorkOK' /\ Unsent' = Unsent /\ Sent' = Sent
  BY ZenonT(40) DEF WorkOK, Unsent, Sent

(* The completion queues stay as they are.                                  *)
LEMMA SameCq ==
    ASSUME CqOK, cq' = cq
    PROVE  CqOK' /\ Acked' = Acked /\ Arrived' = Arrived
  BY ZenonT(40) DEF CqOK, Acked, Arrived

(* The calls under way stay as they are.                                    *)
LEMMA SameStack ==
    ASSUME StackOK, stack' = stack
    PROVE  StackOK' /\ Ending' = Ending /\ SameDepths
  BY ZenonT(40) DEF StackOK, Ending, SameDepths

(* The messages that were handled stay as they are.                         *)
LEMMA SameHandled ==
    ASSUME HandledOK, handled' = handled
    PROVE  HandledOK' /\ Decoded' = Decoded
  BY ZenonT(40) DEF HandledOK, Decoded

(* A command belongs to the end that runs the operation, its transfer,      *)
(* answer and peer_rdma_done to the other.                                  *)
LEMMA OwnerOf ==
    ASSUME NEW o \in Ops
    PROVE  /\ By[o] \in Ends
           /\ Owner(<<o, "cmd">>) = By[o]
           /\ \A r \in {"xfer", "reply", "done"} : Owner(<<o, r>>) = Other(By[o])
  BY IbRpcAssumption DEF Owner

-----------------------------------------------------------------------------
(* Sending.                                                                 *)

(* SendCommand adds a command that was unknown to the send list of its end. *)
LEMMA CommandSets ==
    ASSUME Core, NEW p \in Ends, NEW o \in todo, SendCommand(p, o)
    PROVE  /\ Queues' /\ Rest' /\ SameDepths
           /\ <<o, "cmd">> \in Ids /\ Owner(<<o, "cmd">>) = p /\ <<o, "cmd">> \notin Known
           /\ Listed' = Listed \cup {<<o, "cmd">>}
           /\ Unsent' = Unsent /\ Sent' = Sent /\ Acked' = Acked /\ Arrived' = Arrived
           /\ Ending' = Ending /\ Decoded' = Decoded
  <1> DEFINE id == <<o, "cmd">>
  <1>1. /\ o \in Ops /\ By[o] = p /\ stack[p] = << >>
        /\ ListOK /\ WorkOK /\ CqOK /\ StackOK /\ HandledOK
        /\ issued \in [Ends -> Seq(Ids)] /\ posted \in [Ends -> Int]
    BY ZenonT(40) DEF SendCommand, Core, Rest, Queues
  <1>2. id \in Ids /\ Owner(id) = p
    BY ZenonT(40), <1>1, OpIds, OwnerOf DEF Roles
  <1>3. id \notin Known /\ id \notin Listed
    BY ZenonT(40), <1>1 DEF Core, Places, Stages, StageOf, Apart
  <1> HIDE DEF id
  <1>4. ListOK' /\ Listed' = Listed \cup {id}
    <2>1. req_list' = [req_list EXCEPT ![p] = Append(@, id)]
      BY ZenonT(40) DEF SendCommand, Enqueue, id
    <2> QED
      BY ZenonT(40), <1>1, <1>2, <1>3, <2>1, ListAdd
  <1>5. /\ WorkOK' /\ Unsent' = Unsent /\ Sent' = Sent
        /\ CqOK' /\ Acked' = Acked /\ Arrived' = Arrived
        /\ HandledOK' /\ Decoded' = Decoded
    BY ZenonT(40), <1>1, SameWork, SameCq, SameHandled DEF SendCommand, device
  <1>6. StackOK' /\ Ending' = Ending /\ SameDepths
    <2> DEFINE f == Sending(p, posted'[p])
               t == <<f>> \o stack[p]
    <2>1. Plain(f)
      BY ZenonT(40), SendingFrame
    <2>2. stack' = [stack EXCEPT ![p] = t]
      BY ZenonT(40) DEF SendCommand, Push
    <2> HIDE DEF f
    <2>3. stack[p] \in Seq(Frames) /\ OnceFinish(stack[p])
      BY ZenonT(40), <1>1 DEF StackOK
    <2>4. /\ t \in Seq(Frames) /\ OnceFinish(t) /\ FinishIn(t) = FinishIn(stack[p])
          /\ Depths(t) = Depths(stack[p])
      BY ZenonT(40), <2>1, <2>3, PlainPush
    <2> HIDE DEF t
    <2> QED
      BY ZenonT(40), <1>1, <2>2, <2>4, StackPlain
  <1>7. Rest'
    <2>1. issued' \in [Ends -> Seq(Ids)]
      <3>1. Append(issued[p], id) \in Seq(Ids)
        BY ZenonT(40), <1>1, <1>2, RangeAppend
      <3>2. issued' = [issued EXCEPT ![p] = Append(issued[p], id)]
        BY ZenonT(40) DEF SendCommand, Enqueue, id
      <3> QED
        BY ZenonT(40), <1>1, <3>1, <3>2
    <2>2. posted' \in [Ends -> Int]
      BY <1>1 DEF SendCommand
    <2>3. /\ todo' \subseteq todo /\ num_recv' = num_recv /\ armed' = armed
          /\ event' = event /\ lost' = lost
      BY ZenonT(40) DEF SendCommand, device
    <2> QED
      BY ZenonT(40), <2>1, <2>2, <2>3 DEF Core, Rest
  <1> QED
    BY ZenonT(40), <1>2, <1>3, <1>4, <1>5, <1>6, <1>7 DEF Queues, id

(* SendCommand keeps the invariant.                                         *)
LEMMA CommandCore ==
    ASSUME Core, NEW p \in Ends, NEW o \in todo, SendCommand(p, o)
    PROVE  Core'
  <1>1. req' = Allocate(req, <<o, "cmd">>) /\ todo' = todo \ {o} /\ lost' = lost
    BY ZenonT(40) DEF SendCommand, Enqueue
  <1>2. req' \in [Ids -> Requests \cup {None}] /\ Places'
    BY ZenonT(40), <1>1, CommandSets, CoreTyped, IssueKept
  <1> QED
    BY ZenonT(40), <1>2, CommandSets DEF Core

(* A waiting or polling call on top of the stack is plain, and what is      *)
(* below it owes the same.                                                  *)
LEMMA TopPlain ==
    ASSUME StackOK, NEW p \in Ends, Top(p).at \in {"wait", "poll"}
    PROVE  LET u == Tail(stack[p])
           IN u \in Seq(Frames) /\ OnceFinish(u) /\ FinishIn(u) = FinishIn(stack[p])
              /\ Depths(u) = Depths(stack[p])
  <1>1. /\ stack[p] # << >> /\ Plain(Head(stack[p])) /\ stack[p] \in Seq(Frames)
        /\ OnceFinish(stack[p])
    BY ZenonT(40), TopFrame
  <1> QED
    BY ZenonT(40), <1>1, PlainPop

(* rpc_send with one round less to wait is still rpc_send.                  *)
LEMMA FewerRounds ==
    ASSUME StackOK, NEW p \in Ends, Top(p).at = "wait"
    PROVE  Plain([Top(p) EXCEPT !.left = @ - 1])
  <1>1. Top(p) = [at |-> "wait", left |-> Top(p).left] /\ Top(p).left \in Int
    BY ZenonT(40), TopFrame
  <1> DEFINE n == Top(p).left
             f == Top(p)
  <1>2. f = [at |-> "wait", left |-> n] /\ n \in Int
    BY <1>1
  <1> HIDE DEF f, n
  <1>3. Plain([f EXCEPT !.left = @ - 1])
    BY <1>2 DEF Plain, Frames
  <1> QED
    BY <1>3 DEF f

(* A waiting or polling call returns.                                       *)
LEMMA PopPlain ==
    ASSUME StackOK, NEW p \in Ends, Top(p).at \in {"wait", "poll"}, Pop(p)
    PROVE  StackOK' /\ Ending' = Ending /\ SameDepths
  <1> DEFINE t == Tail(stack[p])
  <1>1. /\ t \in Seq(Frames) /\ OnceFinish(t) /\ FinishIn(t) = FinishIn(stack[p])
        /\ Depths(t) = Depths(stack[p])
    BY ZenonT(40), TopPlain
  <1>2. stack' = [stack EXCEPT ![p] = t]
    BY ZenonT(40) DEF Pop
  <1> HIDE DEF t
  <1> QED
    BY ZenonT(40), <1>1, <1>2, StackPlain

(* A waiting or polling call on top of the stack is replaced by another.    *)
LEMMA ReplacePlain ==
    ASSUME StackOK, NEW p \in Ends, Top(p).at \in {"wait", "poll"}, NEW f, Plain(f),
           Replace(p, <<f>>)
    PROVE  StackOK' /\ Ending' = Ending /\ SameDepths
  <1> DEFINE u == Tail(stack[p])
             t == <<f>> \o u
  <1>1. /\ u \in Seq(Frames) /\ OnceFinish(u) /\ FinishIn(u) = FinishIn(stack[p])
        /\ Depths(u) = Depths(stack[p])
    BY ZenonT(40), TopPlain
  <1>2. stack' = [stack EXCEPT ![p] = t]
    BY ZenonT(40) DEF Replace
  <1> HIDE DEF u
  <1>3. t \in Seq(Frames) /\ OnceFinish(t) /\ FinishIn(t) = FinishIn(u) /\ Depths(t) = Depths(u)
    BY ZenonT(40), <1>1, PlainPush
  <1> HIDE DEF t
  <1>4. FinishIn(t) = FinishIn(stack[p]) /\ Depths(t) = Depths(stack[p])
    BY ZenonT(40), <1>1, <1>3
  <1> QED
    BY ZenonT(40), <1>2, <1>3, <1>4, StackPlain

(* A waiting or polling call is put on the stack.                           *)
LEMMA PushPlain ==
    ASSUME StackOK, NEW p \in Ends, NEW f, Plain(f), Push(p, <<f>>)
    PROVE  StackOK' /\ Ending' = Ending /\ SameDepths
  <1> DEFINE t == <<f>> \o stack[p]
  <1>1. stack[p] \in Seq(Frames) /\ OnceFinish(stack[p])
    BY ZenonT(40) DEF StackOK
  <1>2. stack' = [stack EXCEPT ![p] = t]
    BY ZenonT(40) DEF Push
  <1>3. /\ t \in Seq(Frames) /\ OnceFinish(t) /\ FinishIn(t) = FinishIn(stack[p])
        /\ Depths(t) = Depths(stack[p])
    BY ZenonT(40), <1>1, PlainPush
  <1> HIDE DEF t
  <1> QED
    BY ZenonT(40), <1>2, <1>3, StackPlain

(* What a step that only works on the calls under way leaves alone.         *)
Quiet ==
    /\ Queues' /\ Rest' /\ SameDepths
    /\ Listed' = Listed /\ Unsent' = Unsent /\ Sent' = Sent /\ Acked' = Acked
    /\ Arrived' = Arrived /\ Ending' = Ending /\ Decoded' = Decoded
    /\ req' = req /\ todo' = todo /\ lost' = lost /\ posted' = posted /\ num_recv' = num_recv

(* A quiet step keeps the invariant.                                        *)
LEMMA QuietCore ==
    ASSUME Core, Quiet
    PROVE  Core'
  <1>1. Known' = Known
    BY ZenonT(40) DEF Quiet, Known
  <1>2. InWork' = InWork
    BY ZenonT(40) DEF Quiet, InWork
  <1>3. Apart'
    BY ZenonT(40), <1>1, <1>2 DEF Core, Places, Apart, Quiet
  <1>4. Stages'
    BY ZenonT(40), <1>1, <1>2 DEF Core, Places, Stages, StageOf, Pipeline, Quiet
  <1>5. Counted'
    BY ZenonT(40), <1>1, <1>2, SameCount DEF Core, Places, Counted, NeedsData, Quiet
  <1>6. Filled'
    BY ZenonT(40), <1>1 DEF Core, Places, Filled, FillOf, Quiet
  <1> QED
    BY ZenonT(40), <1>3, <1>4, <1>5, <1>6 DEF Core, Places, Quiet

(* A step that changes plain calls and the event channel only is quiet.     *)
LEMMA QuietStep ==
    ASSUME Core, StackOK', Ending' = Ending, SameDepths,
           UNCHANGED <<todo, req, req_list, posted, num_recv, sq, cq, issued, handled, lost>>,
           armed' \in [Ends -> BOOLEAN], event' \in [Ends -> BOOLEAN]
    PROVE  Quiet
  <1>1. ListOK /\ WorkOK /\ CqOK /\ StackOK /\ HandledOK
    BY ZenonT(40) DEF Core, Queues
  <1>2. /\ ListOK' /\ Listed' = Listed /\ WorkOK' /\ Unsent' = Unsent /\ Sent' = Sent
        /\ CqOK' /\ Acked' = Acked /\ Arrived' = Arrived
        /\ HandledOK' /\ Decoded' = Decoded
    BY ZenonT(40), <1>1, SameList, SameWork, SameCq, SameHandled
  <1>3. Rest'
    BY ZenonT(40) DEF Core, Rest
  <1> QED
    BY ZenonT(40), <1>2, <1>3 DEF Quiet, Queues

(* A round of rpc_send that times out is quiet.                             *)
LEMMA RoundQuiet ==
    ASSUME Core, NEW p \in Ends, RoundTimesOut(p)
    PROVE  Quiet
  <1>1. StackOK /\ Top(p).at = "wait"
    BY ZenonT(40) DEF Core, Queues, RoundTimesOut
  <1>2. Replace(p, <<[Top(p) EXCEPT !.left = @ - 1]>>)
    BY ZenonT(40) DEF RoundTimesOut
  <1>3. StackOK' /\ Ending' = Ending /\ SameDepths
    BY ZenonT(40), <1>1, <1>2, FewerRounds, ReplacePlain
  <1>4. /\ UNCHANGED <<todo, req, req_list, posted, num_recv, sq, cq, issued, handled, lost>>
        /\ armed' \in [Ends -> BOOLEAN] /\ event' \in [Ends -> BOOLEAN]
    BY ZenonT(40) DEF RoundTimesOut, device, Core, Rest
  <1> QED
    BY ZenonT(40), <1>3, <1>4, QuietStep

(* A poll that finds nothing is quiet.                                      *)
LEMMA NothingQuiet ==
    ASSUME Core, NEW p \in Ends, PollNothing(p)
    PROVE  Quiet
  <1>1. StackOK /\ Top(p).at = "poll" /\ Pop(p)
    BY ZenonT(40) DEF Core, Queues, PollNothing
  <1>2. StackOK' /\ Ending' = Ending /\ SameDepths
    BY ZenonT(40), <1>1, PopPlain
  <1>3. /\ UNCHANGED <<todo, req, req_list, posted, num_recv, sq, cq, issued, handled, lost>>
        /\ armed' \in [Ends -> BOOLEAN] /\ event' \in [Ends -> BOOLEAN]
    BY ZenonT(40) DEF PollNothing, device, Core, Rest
  <1> QED
    BY ZenonT(40), <1>2, <1>3, QuietStep

(* Taking an event from the completion channel is quiet.                    *)
LEMMA EventQuiet ==
    ASSUME Core, NEW p \in Ends, rpc_process_event(p)
    PROVE  Quiet
  <1> DEFINE f == [at |-> "poll"]
  <1>1. StackOK /\ armed \in [Ends -> BOOLEAN] /\ event \in [Ends -> BOOLEAN]
    BY ZenonT(40) DEF Core, Queues, Rest
  <1>2. Plain(f)
    BY DEF Plain, Frames
  <1> HIDE DEF f
  <1>3. StackOK' /\ Ending' = Ending /\ SameDepths
    <2>1. CASE stack[p] = << >> /\ Push(p, <<f>>)
      BY ZenonT(40), <1>1, <1>2, <2>1, PushPlain
    <2>2. CASE /\ Top(p).at = "wait" /\ Top(p).left > 0
               /\ Replace(p, <<f, [Top(p) EXCEPT !.left = @ - 1]>>)
      <3> DEFINE g == [Top(p) EXCEPT !.left = @ - 1]
                 u == Tail(stack[p])
                 v == <<g>> \o u
                 t == <<f>> \o v
      <3>1. /\ u \in Seq(Frames) /\ OnceFinish(u) /\ FinishIn(u) = FinishIn(stack[p])
            /\ Depths(u) = Depths(stack[p])
        BY ZenonT(40), <1>1, <2>2, TopPlain
      <3>2. Plain(g)
        BY ZenonT(40), <1>1, <2>2, FewerRounds
      <3>3. stack' = [stack EXCEPT ![p] = <<f, g>> \o u]
        BY ZenonT(40), <2>2 DEF Replace
      <3> HIDE DEF u, g
      <3>4. v \in Seq(Frames) /\ OnceFinish(v) /\ FinishIn(v) = FinishIn(u) /\ Depths(v) = Depths(u)
        BY ZenonT(40), <3>1, <3>2, PlainPush
      <3>5. <<f, g>> \o u = t
        BY ZenonT(40), <1>2, <3>1, <3>2, PushTwo DEF Plain
      <3> HIDE DEF v
      <3>6. t \in Seq(Frames) /\ OnceFinish(t) /\ FinishIn(t) = FinishIn(v) /\ Depths(t) = Depths(v)
        BY ZenonT(40), <1>2, <3>4, PlainPush
      <3> HIDE DEF t
      <3>7. /\ FinishIn(t) = FinishIn(stack[p]) /\ Depths(t) = Depths(stack[p])
            /\ stack' = [stack EXCEPT ![p] = t]
        BY ZenonT(40), <3>1, <3>3, <3>4, <3>5, <3>6
      <3> QED
        BY ZenonT(40), <1>1, <3>6, <3>7, StackPlain
    <2> QED
      BY ZenonT(40), <2>1, <2>2 DEF rpc_process_event, f
  <1>4. /\ UNCHANGED <<todo, req, req_list, posted, num_recv, sq, cq, issued, handled, lost>>
        /\ armed' \in [Ends -> BOOLEAN] /\ event' \in [Ends -> BOOLEAN]
    <2>1. UNCHANGED <<todo, req, req_list, posted, num_recv, sq, cq, issued, handled, lost>>
      BY ZenonT(40) DEF rpc_process_event
    <2>2. armed' = [armed EXCEPT ![p] = TRUE] /\ event' = [event EXCEPT ![p] = FALSE]
      BY ZenonT(40) DEF rpc_process_event, TakeEvent
    <2> QED
      BY ZenonT(40), <1>1, <2>1, <2>2
  <1> QED
    BY ZenonT(40), <1>3, <1>4, QuietStep

(* ibv_post_send puts a request into the send queue, or refuses it and the  *)
(* request is lost.                                                         *)
LEMMA PostSendSets ==
    ASSUME WorkOK, lost \subseteq Ids, NEW p \in Ends, NEW id \in Ids, Owner(id) = p,
           id \notin Unsent, id \notin Sent, PostSend(p, id)
    PROVE  /\ WorkOK' /\ Sent' = Sent /\ lost' \subseteq Ids
           /\ \/ Unsent' = Unsent \cup {id} /\ lost' = lost
              \/ Unsent' = Unsent /\ lost' = lost \cup {id}
  <1>1. CASE Cardinality(InDevice(p)) >= NumBuf
    <2>1. lost' = lost \cup {id} /\ sq' = sq
      BY ZenonT(40), <1>1 DEF PostSend
    <2>2. WorkOK' /\ Unsent' = Unsent /\ Sent' = Sent
      BY ZenonT(40), <2>1, SameWork
    <2> QED
      BY ZenonT(40), <2>1, <2>2
  <1>2. CASE ~(Cardinality(InDevice(p)) >= NumBuf)
    <2>1. lost' = lost /\ sq' = [sq EXCEPT ![p] = Append(@, [id |-> id, sent |-> FALSE])]
      BY ZenonT(40), <1>2 DEF PostSend
    <2>2. WorkOK' /\ Unsent' = Unsent \cup {id} /\ Sent' = Sent
      BY ZenonT(40), <2>1, WorkAdd
    <2> QED
      BY ZenonT(40), <2>1, <2>2
  <1> QED
    BY SMTT(30), <1>1, <1>2

(* peer_process_send_list with an empty list is quiet.                      *)
LEMMA NothingToSend ==
    ASSUME Core, NEW p \in Ends, SendHead(p), req_list[p] = << >>
    PROVE  Quiet
  <1>1. StackOK /\ Top(p).at = "wait" /\ Pop(p)
    BY ZenonT(40) DEF Core, Queues, SendHead
  <1>2. StackOK' /\ Ending' = Ending /\ SameDepths
    BY ZenonT(40), <1>1, PopPlain
  <1>3. /\ UNCHANGED <<todo, req, req_list, posted, num_recv, sq, cq, issued, handled, lost>>
        /\ armed' \in [Ends -> BOOLEAN] /\ event' \in [Ends -> BOOLEAN]
    BY ZenonT(40) DEF SendHead, Core, Rest
  <1> QED
    BY ZenonT(40), <1>2, <1>3, QuietStep

(* peer_process_send_list moves the head of the send list to the send       *)
(* queue, or loses it.                                                      *)
LEMMA SendSets ==
    ASSUME Core, NEW p \in Ends, SendHead(p), req_list[p] # << >>,
           NEW id, id = Head(req_list[p])
    PROVE  /\ Queues' /\ Rest' /\ SameDepths
           /\ id \in Listed /\ Owner(id) = p
           /\ Listed' = Listed \ {id}
           /\ \/ Unsent' = Unsent \cup {id} /\ lost' = lost
              \/ Unsent' = Unsent /\ lost' = lost \cup {id}
           /\ Sent' = Sent /\ Acked' = Acked /\ Arrived' = Arrived
           /\ Ending' = Ending /\ Decoded' = Decoded
           /\ todo' = todo /\ posted' = posted /\ num_recv' = num_recv
           /\ req' = rpc_post_request(IF HasData(id) THEN rpc_prepare_buffers(req, id)
                                      ELSE req, id)
  <1>1. /\ ListOK /\ WorkOK /\ CqOK /\ StackOK /\ HandledOK /\ lost \subseteq Ids
        /\ Top(p).at = "wait"
    BY ZenonT(40) DEF SendHead, Core, Rest, Queues
  <1>2. /\ PostSend(p, id) /\ req_list' = [req_list EXCEPT ![p] = Tail(@)]
        /\ Replace(p, IF Tail(req_list[p]) = << >> THEN << >> ELSE <<Sending(p, posted[p])>>)
        /\ req' = rpc_post_request(IF HasData(id) THEN rpc_prepare_buffers(req, id) ELSE req, id)
        /\ UNCHANGED <<todo, posted, num_recv, cq, armed, event, issued, handled>>
    BY ZenonT(40) DEF SendHead
  <1>3. ListOK' /\ Listed' = Listed \ {id} /\ id \in Listed /\ Owner(id) = p
    BY ZenonT(40), <1>1, <1>2, ListRemove
  <1>4. id \in Ids /\ id \notin Unsent /\ id \notin Sent
    BY ZenonT(40), <1>3 DEF Listed, Core, Places, Apart, InWork
  <1>5. /\ WorkOK' /\ Sent' = Sent /\ lost' \subseteq Ids
        /\ \/ Unsent' = Unsent \cup {id} /\ lost' = lost
           \/ Unsent' = Unsent /\ lost' = lost \cup {id}
    BY ZenonT(40), <1>1, <1>2, <1>3, <1>4, PostSendSets
  <1>6. StackOK' /\ Ending' = Ending /\ SameDepths
    <2>1. CASE Tail(req_list[p]) = << >>
      <3>1. Tail(stack[p]) \in Seq(Frames)
        BY ZenonT(40), <1>1, TopPlain
      <3>2. << >> \o Tail(stack[p]) = Tail(stack[p])
        BY <3>1
      <3>3. Pop(p)
        BY ZenonT(40), <1>2, <2>1, <3>2 DEF Pop, Replace
      <3> QED
        BY ZenonT(40), <1>1, <3>3, PopPlain
    <2>2. CASE Tail(req_list[p]) # << >>
      <3>1. Replace(p, <<Sending(p, posted[p])>>)
        BY ZenonT(40), <1>2, <2>2
      <3> QED
        BY ZenonT(40), <1>1, <3>1, SendingFrame, ReplacePlain
    <2> QED
      BY <2>1, <2>2
  <1>7. CqOK' /\ Acked' = Acked /\ Arrived' = Arrived /\ HandledOK' /\ Decoded' = Decoded
    BY ZenonT(40), <1>1, <1>2, SameCq, SameHandled
  <1>8. Rest'
    BY ZenonT(40), <1>2, <1>5 DEF Core, Rest
  <1> QED
    BY ZenonT(40), <1>2, <1>3, <1>5, <1>6, <1>7, <1>8 DEF Queues

(* peer_process_send_list keeps the invariant.                              *)
LEMMA SendCore ==
    ASSUME Core, NEW p \in Ends, SendHead(p)
    PROVE  Core'
  <1>1. CASE req_list[p] = << >>
    BY ZenonT(40), <1>1, NothingToSend, QuietCore
  <1>2. CASE req_list[p] # << >>
    <2> DEFINE id == Head(req_list[p])
    <2>1. id = Head(req_list[p])
      OBVIOUS
    <2> HIDE DEF id
    <2>2. /\ Queues' /\ Rest' /\ id \in Listed /\ Listed' = Listed \ {id}
          /\ \/ Unsent' = Unsent \cup {id} /\ lost' = lost
             \/ Unsent' = Unsent /\ lost' = lost \cup {id}
          /\ Sent' = Sent /\ Acked' = Acked /\ Arrived' = Arrived
          /\ Ending' = Ending /\ Decoded' = Decoded /\ todo' = todo
          /\ req' = rpc_post_request(IF HasData(id) THEN rpc_prepare_buffers(req, id)
                                     ELSE req, id)
      BY ZenonT(40), <1>2, <2>1, SendSets
    <2>3. req' \in [Ids -> Requests \cup {None}] /\ Places'
      BY ZenonT(40), <2>2, CoreTyped, PostKept
    <2> QED
      BY ZenonT(40), <2>2, <2>3 DEF Core
  <1> QED
    BY <1>1, <1>2

-----------------------------------------------------------------------------
(* The device.                                                              *)

(* An event raised on a completion channel keeps the types.                 *)
LEMMA RaiseTyped ==
    ASSUME Rest, NEW p \in Ends, Raise(p)
    PROVE  armed' \in [Ends -> BOOLEAN] /\ event' \in [Ends -> BOOLEAN]
  <1>1. armed \in [Ends -> BOOLEAN] /\ event \in [Ends -> BOOLEAN]
    BY ZenonT(40) DEF Rest
  <1> DEFINE b == event[p] \/ armed[p]
  <1>2. armed' = [armed EXCEPT ![p] = FALSE] /\ event' = [event EXCEPT ![p] = b]
    BY ZenonT(40) DEF Raise
  <1>3. b \in BOOLEAN
    BY ZenonT(40), <1>1
  <1> HIDE DEF b
  <1> QED
    BY ZenonT(40), <1>1, <1>2, <1>3

(* An acknowledgement moves a request from the send queue to the completion *)
(* queue.                                                                   *)
LEMMA AckSets ==
    ASSUME Core, NEW p \in Ends, Acknowledge(p), NEW id, id = Head(sq[p]).id
    PROVE  /\ Queues' /\ Rest' /\ SameDepths
           /\ id \in Sent /\ Owner(id) = p /\ id \notin Acked
           /\ Sent' = Sent \ {id} /\ Acked' = Acked \cup {id}
           /\ Unsent' = Unsent /\ Arrived' = Arrived /\ Listed' = Listed
           /\ Ending' = Ending /\ Decoded' = Decoded
           /\ todo' = todo /\ lost' = lost /\ req' = req
  <1> DEFINE c == [recv |-> FALSE, id |-> id]
  <1>1. /\ ListOK /\ WorkOK /\ CqOK /\ StackOK /\ HandledOK /\ Rest
        /\ sq[p] # << >> /\ Head(sq[p]).sent
        /\ sq' = [sq EXCEPT ![p] = Tail(@)]
        /\ cq' = [cq EXCEPT ![p] = Append(@, c)]
        /\ Raise(p)
        /\ UNCHANGED <<todo, req, req_list, posted, num_recv, stack, issued, handled, lost>>
    BY ZenonT(40) DEF Acknowledge, Complete, Core, Queues
  <1>2. WorkOK' /\ id \in Sent /\ Owner(id) = p /\ Unsent' = Unsent /\ Sent' = Sent \ {id}
    BY ZenonT(40), <1>1, WorkRemove
  <1>3. id \in Ids /\ id \notin Acked
    BY ZenonT(40), <1>2 DEF Sent, Core, Places, Apart
  <1>4. c \in Completions /\ c.id = id /\ ~c.recv
    BY <1>3 DEF Completions
  <1> HIDE DEF c
  <1>5. CqOK' /\ Acked' = Acked \cup {id} /\ Arrived' = Arrived
    BY ZenonT(40), <1>1, <1>2, <1>3, <1>4, CqAdd
  <1>6. /\ ListOK' /\ Listed' = Listed /\ StackOK' /\ Ending' = Ending /\ SameDepths
        /\ HandledOK' /\ Decoded' = Decoded
    BY ZenonT(40), <1>1, SameList, SameStack, SameHandled
  <1>7. Rest'
    BY ZenonT(40), <1>1, RaiseTyped DEF Rest
  <1> QED
    BY ZenonT(40), <1>1, <1>2, <1>3, <1>5, <1>6, <1>7 DEF Queues

(* An acknowledgement keeps the invariant.                                  *)
LEMMA AckCore ==
    ASSUME Core, NEW p \in Ends, Acknowledge(p)
    PROVE  Core'
  <1> DEFINE id == Head(sq[p]).id
  <1>1. id = Head(sq[p]).id
    OBVIOUS
  <1> HIDE DEF id
  <1>2. /\ Queues' /\ Rest' /\ id \in Sent /\ Sent' = Sent \ {id} /\ Acked' = Acked \cup {id}
        /\ Unsent' = Unsent /\ Arrived' = Arrived /\ Listed' = Listed
        /\ Ending' = Ending /\ Decoded' = Decoded
        /\ todo' = todo /\ lost' = lost /\ req' = req
    BY ZenonT(40), <1>1, AckSets
  <1>3. Places'
    BY ZenonT(40), <1>2, CoreTyped, AckKept
  <1> QED
    BY ZenonT(40), <1>2, <1>3 DEF Core

(* A work request that takes effect is no longer unsent.                    *)
LEMMA TransmitSets ==
    ASSUME Core, NEW p \in Ends, NEW i \in DOMAIN sq[p], ~sq[p][i].sent,
           NEW id, id = sq[p][i].id,
           sq' = [sq EXCEPT ![p][i].sent = TRUE],
           UNCHANGED <<todo, req_list, posted, stack, issued, handled, lost>>
    PROVE  /\ ListOK' /\ WorkOK' /\ StackOK' /\ HandledOK' /\ SameDepths
           /\ id \in Unsent /\ Owner(id) = p /\ id \in Ids
           /\ id \notin Arrived /\ id \notin Decoded
           /\ Unsent' = Unsent \ {id} /\ Sent' = Sent \cup {id}
           /\ Listed' = Listed /\ Ending' = Ending /\ Decoded' = Decoded
  <1>1. ListOK /\ WorkOK /\ StackOK /\ HandledOK
    BY ZenonT(40) DEF Core, Queues
  <1>2. /\ WorkOK' /\ id \in Unsent /\ Owner(id) = p
        /\ Unsent' = Unsent \ {id} /\ Sent' = Sent \cup {id}
    BY ZenonT(40), <1>1, WorkSent
  <1>3. /\ ListOK' /\ Listed' = Listed /\ StackOK' /\ Ending' = Ending /\ SameDepths
        /\ HandledOK' /\ Decoded' = Decoded
    BY ZenonT(40), <1>1, SameList, SameStack, SameHandled
  <1>4. id \in Ids /\ id \notin Arrived /\ id \notin Decoded
    BY ZenonT(40), <1>2 DEF Unsent, Core, Places, Apart
  <1> QED
    BY ZenonT(40), <1>2, <1>3, <1>4

(* A message takes one of the receives and its completion joins the queue   *)
(* of the other end.                                                        *)
LEMMA ArriveSets ==
    ASSUME Core, NEW p \in Ends, NEW id \in Ids, Owner(id) = p, id \notin Arrived,
           num_recv[Other(p)] > 0,
           num_recv' = [num_recv EXCEPT ![Other(p)] = @ - 1],
           cq' = Complete(cq, Other(p), [recv |-> TRUE, id |-> id]), Raise(Other(p)),
           UNCHANGED <<todo, posted, issued, lost>>
    PROVE  CqOK' /\ Rest' /\ Acked' = Acked /\ Arrived' = Arrived \cup {id}
  <1> DEFINE c == [recv |-> TRUE, id |-> id]
             q == Other(p)
  <1>1. /\ CqOK /\ Rest /\ q \in Ends /\ Other(q) = p
        /\ cq' = [cq EXCEPT ![q] = Append(@, c)] /\ Raise(q)
    BY ZenonT(40), TwoEnds DEF Complete, Core, Queues
  <1>2. c \in Completions /\ c.id = id /\ c.recv
    BY DEF Completions
  <1>3. num_recv' \in [Ends -> Nat]
    <2>1. num_recv \in [Ends -> Nat] /\ num_recv[q] > 0 /\ num_recv' = [num_recv EXCEPT ![q] = @ - 1]
      BY ZenonT(40), <1>1 DEF Rest
    <2> HIDE DEF q
    <2>2. num_recv[q] - 1 \in Nat
      BY SMTT(30), <1>1, <2>1
    <2> QED
      BY ZenonT(40), <1>1, <2>1, <2>2
  <1> HIDE DEF c, q
  <1>4. CqOK' /\ Arrived' = Arrived \cup {id} /\ Acked' = Acked
    BY ZenonT(40), <1>1, <1>2, CqAdd
  <1>5. armed' \in [Ends -> BOOLEAN] /\ event' \in [Ends -> BOOLEAN]
    BY ZenonT(40), <1>1, RaiseTyped
  <1>6. Rest'
    BY ZenonT(40), <1>1, <1>3, <1>5 DEF Rest
  <1> QED
    BY ZenonT(40), <1>4, <1>6

(* A work request that takes effect keeps the invariant.                    *)
LEMMA TransmitCore ==
    ASSUME Core, NEW p \in Ends, Transmit(p)
    PROVE  Core'
  <1>1. PICK i \in DOMAIN sq[p] :
          LET id == sq[p][i].id
          IN /\ ~sq[p][i].sent
             /\ sq' = [sq EXCEPT ![p][i].sent = TRUE]
             /\ IF id[2] = "xfer"
                THEN /\ req' = IF Kind[id[1]] = "push"
                               THEN [req EXCEPT ![id].full = req[Cmd(id)].full]
                               ELSE [req EXCEPT ![Cmd(id)].full = TRUE]
                     /\ UNCHANGED <<cq, armed, event, num_recv>>
                ELSE /\ num_recv[Other(p)] > 0
                     /\ num_recv' = [num_recv EXCEPT ![Other(p)] = @ - 1]
                     /\ cq' = Complete(cq, Other(p), [recv |-> TRUE, id |-> id])
                     /\ Raise(Other(p))
                     /\ UNCHANGED req
             /\ UNCHANGED <<todo, req_list, posted, stack, issued, handled, lost>>
    BY ZenonT(40) DEF Transmit
  <1> DEFINE id == sq[p][i].id
  <1>2. id = sq[p][i].id
    OBVIOUS
  <1>3. /\ ~sq[p][i].sent /\ sq' = [sq EXCEPT ![p][i].sent = TRUE]
        /\ UNCHANGED <<todo, req_list, posted, stack, issued, handled, lost>>
    BY ZenonT(40), <1>1
  <1>4. id[2] = "xfer" =>
            /\ req' = IF Kind[id[1]] = "push"
                      THEN [req EXCEPT ![id].full = req[Cmd(id)].full]
                      ELSE [req EXCEPT ![Cmd(id)].full = TRUE]
            /\ UNCHANGED <<cq, armed, event, num_recv>>
    BY ZenonT(40), <1>1
  <1>5. id[2] # "xfer" =>
            /\ num_recv[Other(p)] > 0
            /\ num_recv' = [num_recv EXCEPT ![Other(p)] = @ - 1]
            /\ cq' = Complete(cq, Other(p), [recv |-> TRUE, id |-> id])
            /\ Raise(Other(p))
            /\ UNCHANGED req
    BY ZenonT(40), <1>1
  <1> HIDE DEF id
  <1>6. /\ ListOK' /\ WorkOK' /\ StackOK' /\ HandledOK' /\ SameDepths
        /\ id \in Unsent /\ Owner(id) = p /\ id \in Ids
        /\ id \notin Arrived /\ id \notin Decoded
        /\ Unsent' = Unsent \ {id} /\ Sent' = Sent \cup {id}
        /\ Listed' = Listed /\ Ending' = Ending /\ Decoded' = Decoded
    BY ZenonT(40), <1>2, <1>3, TransmitSets
  <1>7. Typed /\ Places
    BY ZenonT(40), CoreTyped
  <1>8. CASE id[2] = "xfer"
    <2>1. CqOK' /\ Acked' = Acked /\ Arrived' = Arrived
      BY ZenonT(40), <1>4, <1>8, SameCq DEF Core, Queues
    <2>2. req' \in [Ids -> Requests \cup {None}] /\ Places'
      BY ZenonT(40), <1>3, <1>4, <1>6, <1>7, <1>8, <2>1, CopyKept
    <2>3. Rest'
      BY ZenonT(40), <1>3, <1>4, <1>8 DEF Core, Rest
    <2> QED
      BY ZenonT(40), <1>6, <2>1, <2>2, <2>3 DEF Core, Queues
  <1>9. CASE id[2] # "xfer"
    <2>1. CqOK' /\ Rest' /\ Acked' = Acked /\ Arrived' = Arrived \cup {id}
      BY ZenonT(40), <1>3, <1>5, <1>6, <1>9, ArriveSets
    <2>2. Places'
      BY ZenonT(40), <1>3, <1>5, <1>6, <1>7, <1>9, <2>1, SendKept
    <2> QED
      BY ZenonT(40), <1>5, <1>6, <1>9, <2>1, <2>2 DEF Core, Queues
  <1> QED
    BY SMTT(30), <1>8, <1>9

-----------------------------------------------------------------------------
(* Processing completions.                                                  *)

(* The call that finishes a transfer takes it off the stack.                *)
LEMMA FinishSets ==
    ASSUME Core, NEW p \in Ends, Finish(p), NEW id, id = Top(p).id
    PROVE  /\ Queues' /\ Rest' /\ SameDepths
           /\ id \in Ending /\ Ending' = Ending \ {id}
           /\ Listed' = Listed /\ Unsent' = Unsent /\ Sent' = Sent /\ Acked' = Acked
           /\ Arrived' = Arrived /\ Decoded' = Decoded
           /\ todo' = todo /\ lost' = lost
  <1> DEFINE s == stack[p]
             t == Tail(s)
             f == Head(s)
  <1>1. /\ ListOK /\ WorkOK /\ CqOK /\ StackOK /\ HandledOK /\ Rest
        /\ Top(p).at = "finish" /\ Pop(p)
        /\ UNCHANGED <<todo, req_list, posted, num_recv, sq, cq, armed, event, issued, handled,
                       lost>>
    BY ZenonT(40) DEF Finish, Core, Queues, device
  <1>2. s # << >> /\ s \in Seq(Frames) /\ OnceFinish(s) /\ f = Top(p) /\ f \in Frames /\ f.id \in Ids
    BY ZenonT(40), <1>1, TopFrame
  <1>3. stack' = [stack EXCEPT ![p] = t]
    BY ZenonT(40), <1>1 DEF Pop
  <1>4. f.at = "finish" /\ f.id = id /\ f.at # "repost"
    BY ZenonT(40), <1>1, <1>2
  <1>5. stack[p] = s
    OBVIOUS
  <1> HIDE DEF s
  <1>6. /\ t \in Seq(Frames) /\ s = <<f>> \o t /\ OnceFinish(t)
        /\ id \notin FinishIn(t) /\ id \in FinishIn(s)
    <2>1. /\ t \in Seq(Frames) /\ s = <<f>> \o t /\ OnceFinish(t)
          /\ f.at = "finish" => f.id \notin FinishIn(t) /\ f.id \in FinishIn(s)
      BY ZenonT(40), <1>2, FramePop
    <2> HIDE DEF t, f
    <2> QED
      BY ZenonT(40), <1>4, <2>1
  <1> HIDE DEF t, f
  <1>7. FinishIn(s) = FinishIn(t) \cup {id} /\ Depths(s) = Depths(t)
    <2>1. FinishIn(<<f>> \o t) = FinishIn(t) \cup {f.id} /\ Depths(<<f>> \o t) = Depths(t)
      BY ZenonT(40), <1>2, <1>4, <1>6, FramePush
    <2> QED
      BY ZenonT(40), <1>2, <1>4, <1>6, <2>1
  <1>8. \A x : x \in FinishIn(t) <=> x \in FinishIn(s) \ {id}
    BY ZenonT(40), <1>6, <1>7
  <1>9. FinishIn(t) = FinishIn(s) \ {id}
    BY ZenonT(40), <1>8
  <1>10. StackOK' /\ Ending' = Ending \ {id} /\ id \in Ending
    BY ZenonT(40), <1>1, <1>3, <1>5, <1>6, <1>9, StackRemove
  <1>11. stack'[p] = t /\ \A q \in Ends : q # p => stack'[q] = stack[q]
    BY ZenonT(40), <1>1, <1>3 DEF StackOK
  <1>12. SameDepths
    BY ZenonT(40), <1>5, <1>7, <1>11 DEF SameDepths
  <1>13. /\ ListOK' /\ Listed' = Listed /\ WorkOK' /\ Unsent' = Unsent /\ Sent' = Sent
         /\ CqOK' /\ Acked' = Acked /\ Arrived' = Arrived
         /\ HandledOK' /\ Decoded' = Decoded
    BY ZenonT(40), <1>1, SameList, SameWork, SameCq, SameHandled
  <1>14. Rest'
    BY ZenonT(40), <1>1 DEF Rest
  <1> QED
    BY ZenonT(40), <1>1, <1>10, <1>12, <1>13, <1>14 DEF Queues

(* The call that finishes a transfer keeps the invariant.                   *)
LEMMA FinishCore ==
    ASSUME Core, NEW p \in Ends, Finish(p)
    PROVE  Core'
  <1> DEFINE id == Top(p).id
  <1>1. id = Top(p).id /\ req' = Freed(req, id)
    BY ZenonT(40) DEF Finish
  <1> HIDE DEF id
  <1>2. /\ Queues' /\ Rest' /\ id \in Ending /\ Ending' = Ending \ {id}
        /\ Listed' = Listed /\ Unsent' = Unsent /\ Sent' = Sent /\ Acked' = Acked
        /\ Arrived' = Arrived /\ Decoded' = Decoded /\ todo' = todo /\ lost' = lost
    BY ZenonT(40), <1>1, FinishSets
  <1>3. req' \in [Ids -> Requests \cup {None}] /\ Places'
    BY ZenonT(40), <1>1, <1>2, CoreTyped, FinishKept
  <1> QED
    BY ZenonT(40), <1>2, <1>3 DEF Core

(* rpc_cb_req_completion sends peer_rdma_done before it finishes the        *)
(* transfer: two calls go onto the stack.                                   *)
LEMMA PushReport ==
    ASSUME StackOK, NEW p \in Ends, NEW f, Plain(f), NEW id \in Ids, Owner(id) = p,
           id \notin Ending, Push(p, <<f, [at |-> "finish", id |-> id]>>)
    PROVE  StackOK' /\ Ending' = Ending \cup {id} /\ SameDepths
  <1> DEFINE g == [at |-> "finish", id |-> id]
             s == stack[p]
             v == <<g>> \o s
             t == <<f>> \o v
  <1>1. s \in Seq(Frames) /\ OnceFinish(s) /\ id \notin FinishIn(s)
    BY ZenonT(40) DEF StackOK, Ending
  <1>2. g \in Frames /\ g.at = "finish" /\ g.id = id /\ g.at # "repost"
    BY DEF Frames
  <1>3. stack' = [stack EXCEPT ![p] = <<f, g>> \o s] /\ stack[p] = s
    BY ZenonT(40) DEF Push
  <1> HIDE DEF g, s
  <1>4. /\ v \in Seq(Frames) /\ FinishIn(v) = FinishIn(s) \cup {id} /\ OnceFinish(v)
        /\ Depths(v) = Depths(s)
    BY ZenonT(40), <1>1, <1>2, FramePush
  <1>5. <<f, g>> \o s = t
    BY ZenonT(40), <1>1, <1>2, PushTwo DEF Plain
  <1> HIDE DEF v
  <1>6. t \in Seq(Frames) /\ FinishIn(t) = FinishIn(v) /\ OnceFinish(t) /\ Depths(t) = Depths(v)
    BY ZenonT(40), <1>4, PlainPush
  <1> HIDE DEF t
  <1>7. stack' = [stack EXCEPT ![p] = t] /\ FinishIn(t) = FinishIn(stack[p]) \cup {id}
    BY ZenonT(40), <1>3, <1>4, <1>5, <1>6
  <1>8. StackOK' /\ Ending' = Ending \cup {id}
    BY ZenonT(40), <1>6, <1>7, StackAdd
  <1>9. stack'[p] = t /\ \A q \in Ends : q # p => stack'[q] = stack[q]
    BY ZenonT(40), <1>7 DEF StackOK
  <1> QED
    BY ZenonT(40), <1>3, <1>4, <1>6, <1>8, <1>9 DEF SameDepths

(* The requests issued by an end stay a sequence of requests.               *)
LEMMA IssuedTyped ==
    ASSUME issued \in [Ends -> Seq(Ids)], NEW p \in Ends, NEW id \in Ids,
           issued' = [issued EXCEPT ![p] = Append(@, id)]
    PROVE  issued' \in [Ends -> Seq(Ids)]
  <1>1. Append(issued[p], id) \in Seq(Ids)
    BY ZenonT(40), RangeAppend
  <1> QED
    BY ZenonT(40), <1>1

(* ibv_poll_cq takes the oldest completion: a message of the other end or a *)
(* send of its own.                                                         *)
LEMMA PollSets ==
    ASSUME Core, NEW p \in Ends, NEW recv \in BOOLEAN, Poll(p, recv), NEW id, id = Head(cq[p]).id
    PROVE  /\ CqOK' /\ id \in Ids /\ id[1] \in Ops /\ id = <<id[1], id[2]>> /\ id[2] \in Roles
           /\ recv => /\ id \in Arrived /\ Owner(id) = Other(p)
                      /\ Arrived' = Arrived \ {id} /\ Acked' = Acked
           /\ ~recv => /\ id \in Acked /\ Owner(id) = p
                       /\ Acked' = Acked \ {id} /\ Arrived' = Arrived
           /\ armed' = armed /\ event' = event
  <1>1. /\ CqOK /\ cq[p] # << >> /\ Head(cq[p]).recv = recv /\ cq' = [cq EXCEPT ![p] = Tail(@)]
        /\ armed' = armed /\ event' = event
    BY ZenonT(40) DEF Poll, Core, Queues
  <1>2. /\ CqOK' /\ id \in Ids
        /\ Head(cq[p]).recv => /\ id \in Arrived /\ Owner(id) = Other(p)
                               /\ Arrived' = Arrived \ {id} /\ Acked' = Acked
        /\ ~Head(cq[p]).recv => /\ id \in Acked /\ Owner(id) = p
                                /\ Acked' = Acked \ {id} /\ Arrived' = Arrived
    BY ZenonT(40), <1>1, CqRemove
  <1>3. id[1] \in Ops /\ id = <<id[1], id[2]>> /\ id[2] \in Roles
    BY ZenonT(40), <1>2, IdParts
  <1> QED
    BY ZenonT(40), <1>1, <1>2, <1>3

(* rpc_cb_req_completion of a transfer: peer_rdma_done joins the list and   *)
(* the transfer is to be finished.                                          *)
LEMMA ReportSets ==
    ASSUME Core, NEW p \in Ends, rpc_cb_req_completion(p), NEW id, id = Head(cq[p]).id,
           id[2] = "xfer", NEW dn, dn = <<id[1], "done">>
    PROVE  /\ Queues' /\ Rest' /\ SameDepths
           /\ id \in Acked /\ Owner(id) = p /\ Acked' = Acked \ {id}
           /\ dn \in Ids /\ Owner(dn) = p /\ dn \notin Known /\ Listed' = Listed \cup {dn}
           /\ Ending' = Ending \cup {id}
           /\ Sent' = Sent /\ Unsent' = Unsent /\ Arrived' = Arrived /\ Decoded' = Decoded
           /\ lost' = lost /\ todo' = todo /\ num_recv' = num_recv
           /\ posted' = [posted EXCEPT ![p] = (@ - 1) + 1]
           /\ req' = Allocate(Unreferenced(req, id), dn)
  <1>1. /\ ListOK /\ WorkOK /\ CqOK /\ StackOK /\ HandledOK /\ Rest
        /\ Poll(p, FALSE)
        /\ req_list' = [req_list EXCEPT ![p] = Append(@, dn)]
        /\ issued' = [issued EXCEPT ![p] = Append(@, dn)]
        /\ req' = Allocate(Unreferenced(req, id), dn)
        /\ posted' = [posted EXCEPT ![p] = (@ - 1) + 1]
        /\ Push(p, <<Sending(p, posted'[p]), [at |-> "finish", id |-> id]>>)
        /\ UNCHANGED <<todo, num_recv, sq, handled, lost>>
    BY ZenonT(40) DEF rpc_cb_req_completion, Enqueue, Core, Queues
  <1>2. /\ CqOK' /\ id \in Ids /\ id[1] \in Ops /\ id = <<id[1], "xfer">>
        /\ id \in Acked /\ Owner(id) = p /\ Acked' = Acked \ {id} /\ Arrived' = Arrived
        /\ armed' = armed /\ event' = event
    BY ZenonT(40), <1>1, PollSets
  <1>3. Owner(id) = Other(By[id[1]]) /\ Owner(dn) = Other(By[id[1]]) /\ dn \in Ids
    <2>1. id[1] \in Ops /\ id = <<id[1], "xfer">>
      BY ZenonT(40), <1>2
    <2> DEFINE o == id[1]
    <2>2. o \in Ops /\ id = <<o, "xfer">> /\ dn = <<o, "done">> /\ o = id[1]
      BY <2>1
    <2> HIDE DEF o
    <2>3. Owner(<<o, "xfer">>) = Other(By[o]) /\ Owner(<<o, "done">>) = Other(By[o])
      BY ZenonT(40), <2>2, OwnerOf
    <2>4. <<o, "done">> \in Ids
      BY ZenonT(40), <2>2, OpIds DEF Roles
    <2>5. Owner(id) = Other(By[o]) /\ Owner(dn) = Other(By[o]) /\ dn \in Ids
      BY ZenonT(40), <2>2, <2>3, <2>4
    <2> QED
      BY SMTT(30), <2>2, <2>5
  <1>4. id \notin Ending /\ dn \notin Known
    <2>1. id \notin Ending
      BY ZenonT(40), <1>2 DEF Core, Places, Apart
    <2>2. <<id[1], "xfer">> \in InWork
      BY ZenonT(40), <1>2 DEF InWork
    <2>3. StageOf(id[1])
      BY ZenonT(40), <1>2 DEF Core, Places, Stages
    <2> QED
      BY ZenonT(40), <2>1, <2>2, <2>3 DEF StageOf
  <1>5. dn \notin Listed
    BY ZenonT(40), <1>4 DEF Core, Places, Apart
  <1>6. ListOK' /\ Listed' = Listed \cup {dn}
    BY ZenonT(40), <1>1, <1>2, <1>3, <1>5, ListAdd
  <1>7. StackOK' /\ Ending' = Ending \cup {id} /\ SameDepths
    BY ZenonT(40), <1>1, <1>2, <1>4, SendingFrame, PushReport
  <1>8. WorkOK' /\ Unsent' = Unsent /\ Sent' = Sent /\ HandledOK' /\ Decoded' = Decoded
    BY ZenonT(40), <1>1, SameWork, SameHandled
  <1>9. Rest'
    <2>1. issued' \in [Ends -> Seq(Ids)]
      BY ZenonT(40), <1>1, <1>3, IssuedTyped DEF Rest
    <2>2. posted' \in [Ends -> Int]
      BY SMTT(30), <1>1 DEF Rest
    <2> QED
      BY ZenonT(40), <1>1, <1>2, <2>1, <2>2 DEF Rest
  <1> QED
    BY ZenonT(40), <1>1, <1>2, <1>3, <1>4, <1>6, <1>7, <1>8, <1>9 DEF Queues

(* rpc_cb_req_completion of a message: nothing but its reference goes.      *)
LEMMA CompleteSets ==
    ASSUME Core, NEW p \in Ends, rpc_cb_req_completion(p), NEW id, id = Head(cq[p]).id,
           id[2] # "xfer"
    PROVE  /\ Queues' /\ Rest' /\ SameDepths
           /\ id \in Acked /\ Owner(id) = p /\ Acked' = Acked \ {id}
           /\ Listed' = Listed /\ Ending' = Ending
           /\ Sent' = Sent /\ Unsent' = Unsent /\ Arrived' = Arrived /\ Decoded' = Decoded
           /\ lost' = lost /\ todo' = todo /\ num_recv' = num_recv
           /\ posted' = [posted EXCEPT ![p] = @ - 1]
           /\ req' = Freed(Unreferenced(req, id), id)
  <1>1. /\ ListOK /\ WorkOK /\ CqOK /\ StackOK /\ HandledOK /\ Rest
        /\ Poll(p, FALSE)
        /\ req' = Freed(Unreferenced(req, id), id)
        /\ posted' = [posted EXCEPT ![p] = @ - 1]
        /\ UNCHANGED <<req_list, issued, stack, todo, num_recv, sq, handled, lost>>
    BY ZenonT(40) DEF rpc_cb_req_completion, Core, Queues
  <1>2. /\ CqOK' /\ id \in Acked /\ Owner(id) = p /\ Acked' = Acked \ {id} /\ Arrived' = Arrived
        /\ armed' = armed /\ event' = event
    BY ZenonT(40), <1>1, PollSets
  <1>3. /\ ListOK' /\ Listed' = Listed /\ StackOK' /\ Ending' = Ending /\ SameDepths
        /\ WorkOK' /\ Unsent' = Unsent /\ Sent' = Sent /\ HandledOK' /\ Decoded' = Decoded
    BY ZenonT(40), <1>1, SameList, SameWork, SameStack, SameHandled
  <1>4. Rest'
    <2>1. posted' \in [Ends -> Int]
      BY SMTT(30), <1>1 DEF Rest
    <2> QED
      BY ZenonT(40), <1>1, <1>2, <2>1 DEF Rest
  <1> QED
    BY ZenonT(40), <1>1, <1>2, <1>3, <1>4 DEF Queues

(* rpc_cb_req_completion keeps the invariant.                               *)
LEMMA CompletionCore ==
    ASSUME Core, NEW p \in Ends, rpc_cb_req_completion(p)
    PROVE  Core'
  <1> DEFINE id == Head(cq[p]).id
  <1>1. id = Head(cq[p]).id
    OBVIOUS
  <1>2. Poll(p, FALSE)
    BY ZenonT(40) DEF rpc_cb_req_completion
  <1> HIDE DEF id
  <1>3. id[1] \in Ops /\ id = <<id[1], id[2]>>
    BY ZenonT(40), <1>1, <1>2, PollSets
  <1>4. Typed /\ Places
    BY ZenonT(40), CoreTyped
  <1>5. CASE id[2] = "xfer"
    <2> DEFINE dn == <<id[1], "done">>
    <2>1. dn = <<id[1], "done">> /\ id = <<id[1], "xfer">>
      BY ZenonT(40), <1>3, <1>5
    <2> HIDE DEF dn
    <2>2. /\ Queues' /\ Rest' /\ id \in Acked /\ Acked' = Acked \ {id}
          /\ Listed' = Listed \cup {dn} /\ Ending' = Ending \cup {id}
          /\ Sent' = Sent /\ Unsent' = Unsent /\ Arrived' = Arrived /\ Decoded' = Decoded
          /\ lost' = lost /\ todo' = todo /\ req' = Allocate(Unreferenced(req, id), dn)
      BY ZenonT(40), <1>1, <1>5, <2>1, ReportSets
    <2>3. req' \in [Ids -> Requests \cup {None}] /\ Places'
      BY ZenonT(40), <1>3, <1>4, <2>1, <2>2, XferKept
    <2> QED
      BY ZenonT(40), <2>2, <2>3 DEF Core
  <1>6. CASE id[2] # "xfer"
    <2>1. /\ Queues' /\ Rest' /\ id \in Acked /\ Acked' = Acked \ {id}
          /\ Listed' = Listed /\ Ending' = Ending
          /\ Sent' = Sent /\ Unsent' = Unsent /\ Arrived' = Arrived /\ Decoded' = Decoded
          /\ lost' = lost /\ todo' = todo /\ req' = Freed(Unreferenced(req, id), id)
      BY ZenonT(40), <1>1, <1>6, CompleteSets
    <2>2. req' \in [Ids -> Requests \cup {None}] /\ Places'
      BY ZenonT(40), <1>4, <1>6, <2>1, CompleteKept
    <2> QED
      BY ZenonT(40), <2>1, <2>2 DEF Core
  <1> QED
    BY SMTT(30), <1>5, <1>6

(* The transfer or answer of a command that has not been decoded does not   *)
(* exist.                                                                   *)
LEMMA FreshNext ==
    ASSUME Core, NEW o \in Ops, <<o, "cmd">> \in Arrived
    PROVE  \A r \in {"xfer", "reply"} :
              <<o, r>> \notin Known /\ <<o, r>> \notin Listed /\ <<o, r>> \notin Unsent
              /\ <<o, r>> \notin Sent
  <1>1. <<o, "cmd">> \notin Decoded
    BY ZenonT(40) DEF Core, Places, Apart
  <1>2. StageOf(o)
    BY ZenonT(40) DEF Core, Places, Stages
  <1>3. \A r \in {"xfer", "reply"} : <<o, r>> \notin Known
    BY ZenonT(40), <1>1, <1>2 DEF StageOf
  <1>4. \A x : x \notin Known => x \notin Listed /\ x \notin Unsent /\ x \notin Sent
    BY ZenonT(40) DEF Core, Places, Apart, InWork
  <1> QED
    BY ZenonT(40), <1>3, <1>4

(* One more receive waits to be posted again at an end.                     *)
OneMoreDepth(p) ==
    /\ \E k : k \notin Depths(stack[p]) /\ Depths(stack'[p]) = Depths(stack[p]) \cup {k}
    /\ \A q \in Ends : q # p => Depths(stack'[q]) = Depths(stack[q])

(* One receive fewer waits to be posted again at an end.                    *)
OneLessDepth(p) ==
    /\ \E k : k \notin Depths(stack'[p]) /\ Depths(stack[p]) = Depths(stack'[p]) \cup {k}
    /\ \A q \in Ends : q # p => Depths(stack'[q]) = Depths(stack[q])

(* rpc_cb_decode of a command that is answered posts its receive after the  *)
(* answer is sent.                                                          *)
LEMMA PushAnswer ==
    ASSUME StackOK, NEW p \in Ends, NEW f, Plain(f), Push(p, <<f, [at |-> "repost"]>>)
    PROVE  StackOK' /\ Ending' = Ending /\ OneMoreDepth(p)
  <1> DEFINE g == [at |-> "repost"]
             s == stack[p]
             v == <<g>> \o s
             t == <<f>> \o v
  <1>1. s \in Seq(Frames) /\ OnceFinish(s)
    BY ZenonT(40) DEF StackOK
  <1>2. g \in Frames /\ g.at = "repost" /\ g.at # "finish"
    BY DEF Frames
  <1>3. stack' = [stack EXCEPT ![p] = <<f, g>> \o s] /\ stack[p] = s
    BY ZenonT(40) DEF Push
  <1> HIDE DEF g, s
  <1>4. /\ v \in Seq(Frames) /\ FinishIn(v) = FinishIn(s) /\ OnceFinish(v)
        /\ Depths(v) = Depths(s) \cup {Len(s)} /\ Len(s) \notin Depths(s)
    BY ZenonT(40), <1>1, <1>2, FramePush
  <1>5. <<f, g>> \o s = t
    BY ZenonT(40), <1>1, <1>2, PushTwo DEF Plain
  <1> HIDE DEF v
  <1>6. t \in Seq(Frames) /\ FinishIn(t) = FinishIn(v) /\ OnceFinish(t) /\ Depths(t) = Depths(v)
    BY ZenonT(40), <1>4, PlainPush
  <1> HIDE DEF t
  <1>7. stack' = [stack EXCEPT ![p] = t] /\ FinishIn(t) = FinishIn(stack[p])
    BY ZenonT(40), <1>3, <1>4, <1>5, <1>6
  <1>8. StackOK' /\ Ending' = Ending
    BY ZenonT(40), <1>6, <1>7, StackKept
  <1>9. stack'[p] = t /\ \A q \in Ends : q # p => stack'[q] = stack[q]
    BY ZenonT(40), <1>7 DEF StackOK
  <1>10. Depths(stack'[p]) = Depths(stack[p]) \cup {Len(s)} /\ Len(s) \notin Depths(stack[p])
    BY ZenonT(40), <1>3, <1>4, <1>6, <1>9
  <1> QED
    BY ZenonT(40), <1>8, <1>9, <1>10 DEF OneMoreDepth

(* The call that posts a receive again returns.                             *)
LEMMA PopRepost ==
    ASSUME StackOK, NEW p \in Ends, Top(p).at = "repost", Pop(p)
    PROVE  StackOK' /\ Ending' = Ending /\ OneLessDepth(p)
  <1> DEFINE s == stack[p]
             t == Tail(s)
             f == Head(s)
  <1>1. s # << >> /\ s \in Seq(Frames) /\ OnceFinish(s) /\ f = Top(p) /\ f \in Frames
    BY ZenonT(40), TopFrame
  <1>2. stack' = [stack EXCEPT ![p] = t] /\ stack[p] = s
    BY ZenonT(40) DEF Pop
  <1>3. f.at = "repost" /\ f.at # "finish"
    BY ZenonT(40), <1>1
  <1> HIDE DEF s
  <1>4. t \in Seq(Frames) /\ s = <<f>> \o t /\ OnceFinish(t)
    BY ZenonT(40), <1>1, FramePop
  <1> HIDE DEF t, f
  <1>5. /\ FinishIn(s) = FinishIn(t) /\ Depths(s) = Depths(t) \cup {Len(t)}
        /\ Len(t) \notin Depths(t)
    BY ZenonT(40), <1>1, <1>3, <1>4, FramePush
  <1>6. StackOK' /\ Ending' = Ending
    BY ZenonT(40), <1>2, <1>4, <1>5, StackKept
  <1>7. stack'[p] = t /\ \A q \in Ends : q # p => stack'[q] = stack[q]
    BY ZenonT(40), <1>2 DEF StackOK
  <1>8. Depths(stack[p]) = Depths(stack'[p]) \cup {Len(t)} /\ Len(t) \notin Depths(stack'[p])
    BY ZenonT(40), <1>2, <1>5, <1>7
  <1> QED
    BY ZenonT(40), <1>6, <1>7, <1>8 DEF OneLessDepth

(* ibv_post_recv after an answer: one more receive, one fewer owed.         *)
LEMMA RepostSets ==
    ASSUME Core, NEW p \in Ends, PostRecv(p)
    PROVE  /\ Queues' /\ Rest' /\ OneLessDepth(p)
           /\ Listed' = Listed /\ Unsent' = Unsent /\ Sent' = Sent /\ Acked' = Acked
           /\ Arrived' = Arrived /\ Ending' = Ending /\ Decoded' = Decoded
           /\ req' = req /\ todo' = todo /\ lost' = lost /\ posted' = posted
           /\ num_recv' = [num_recv EXCEPT ![p] = @ + 1]
  <1>1. /\ ListOK /\ WorkOK /\ CqOK /\ StackOK /\ HandledOK /\ Rest
        /\ Top(p).at = "repost" /\ Pop(p) /\ num_recv' = [num_recv EXCEPT ![p] = @ + 1]
        /\ UNCHANGED <<todo, req, req_list, posted, sq, cq, armed, event, issued, handled, lost>>
    BY ZenonT(40) DEF PostRecv, Repost, Core, Queues, device
  <1>2. StackOK' /\ Ending' = Ending /\ OneLessDepth(p)
    BY ZenonT(40), <1>1, PopRepost
  <1>3. /\ ListOK' /\ Listed' = Listed /\ WorkOK' /\ Unsent' = Unsent /\ Sent' = Sent
        /\ CqOK' /\ Acked' = Acked /\ Arrived' = Arrived /\ HandledOK' /\ Decoded' = Decoded
    BY ZenonT(40), <1>1, SameList, SameWork, SameCq, SameHandled
  <1>4. Rest'
    <2>1. num_recv' \in [Ends -> Nat]
      BY SMTT(30), <1>1 DEF Rest
    <2> QED
      BY ZenonT(40), <1>1, <2>1 DEF Rest
  <1> QED
    BY ZenonT(40), <1>1, <1>2, <1>3, <1>4 DEF Queues

(* A step that moves no request keeps the places right.                     *)
LEMMA SamePlaces ==
    ASSUME Places,
           Listed' = Listed, Unsent' = Unsent, Sent' = Sent, Acked' = Acked,
           Arrived' = Arrived, Ending' = Ending, Decoded' = Decoded,
           req' = req, todo' = todo, lost' = lost
    PROVE  Places'
  <1>1. Known' = Known
    BY ZenonT(40) DEF Known
  <1>2. InWork' = InWork
    BY ZenonT(40) DEF InWork
  <1>3. Apart'
    BY ZenonT(40), <1>1, <1>2 DEF Places, Apart
  <1>4. Stages'
    BY ZenonT(40), <1>1, <1>2 DEF Places, Stages, StageOf, Pipeline
  <1>5. Counted'
    BY ZenonT(40), <1>1, <1>2, SameCount DEF Places, Counted, NeedsData
  <1>6. Filled'
    BY ZenonT(40), <1>1 DEF Places, Filled, FillOf
  <1> QED
    BY ZenonT(40), <1>3, <1>4, <1>5, <1>6 DEF Places

(* Posting a receive again keeps the invariant.                             *)
LEMMA RepostCore ==
    ASSUME Core, NEW p \in Ends, PostRecv(p)
    PROVE  Core'
  <1>1. Places'
    BY ZenonT(40), RepostSets, SamePlaces DEF Core
  <1> QED
    BY ZenonT(40), <1>1, RepostSets DEF Core

-----------------------------------------------------------------------------
(* Processing messages.                                                     *)

(* rpc_cb_decode takes a message from the completion queue and handles it.  *)
LEMMA DecodeSets ==
    ASSUME Core, NEW p \in Ends, Poll(p, TRUE), NEW id, id = Head(cq[p]).id,
           handled' = [handled EXCEPT ![p] = Append(@, id)]
    PROVE  /\ CqOK' /\ HandledOK' /\ id \in Ids /\ id[1] \in Ops /\ id = <<id[1], id[2]>>
           /\ id[2] \in Roles
           /\ id \in Arrived /\ Owner(id) = Other(p) /\ Arrived' = Arrived \ {id}
           /\ Acked' = Acked /\ Decoded' = Decoded \cup {id}
           /\ armed' = armed /\ event' = event
  <1>1. /\ CqOK' /\ id \in Ids /\ id[1] \in Ops /\ id = <<id[1], id[2]>> /\ id[2] \in Roles
        /\ id \in Arrived /\ Owner(id) = Other(p) /\ Arrived' = Arrived \ {id} /\ Acked' = Acked
        /\ armed' = armed /\ event' = event
    BY ZenonT(40), PollSets
  <1>2. HandledOK' /\ Decoded' = Decoded \cup {id}
    BY ZenonT(40), <1>1, HandledAdd DEF Core, Queues
  <1> QED
    BY ZenonT(40), <1>1, <1>2

(* What every message that is decoded does to the places of the requests.   *)
Received(p, id) ==
    /\ Queues' /\ Rest' /\ id \in Arrived /\ Owner(id) = Other(p)
    /\ Arrived' = Arrived \ {id} /\ Decoded' = Decoded \cup {id}
    /\ Acked' = Acked /\ Ending' = Ending /\ Sent' = Sent /\ todo' = todo

(* The receive of the message is posted again at once.                      *)
Reposted(p) == SameDepths /\ num_recv' = [num_recv EXCEPT ![p] = @ + 1]

(* The number of receives stays a natural number.                           *)
LEMMA RepostTyped ==
    ASSUME Rest, NEW p \in Ends, Repost(p)
    PROVE  num_recv' \in [Ends -> Nat]
  BY DEF Rest, Repost

(* A message that starts nothing is decoded.                                *)
LEMMA PlainDecode ==
    ASSUME Core, NEW p \in Ends, Poll(p, TRUE), NEW id, id = Head(cq[p]).id,
           handled' = [handled EXCEPT ![p] = Append(@, id)],
           Repost(p), UNCHANGED <<todo, req_list, posted, stack, sq, issued, lost>>
    PROVE  /\ Received(p, id) /\ Reposted(p)
           /\ Listed' = Listed /\ Unsent' = Unsent /\ lost' = lost /\ posted' = posted
  <1>1. /\ CqOK' /\ HandledOK' /\ id \in Arrived /\ Owner(id) = Other(p)
        /\ Arrived' = Arrived \ {id} /\ Acked' = Acked /\ Decoded' = Decoded \cup {id}
        /\ armed' = armed /\ event' = event
    BY ZenonT(40), DecodeSets
  <1>2. /\ ListOK' /\ Listed' = Listed /\ WorkOK' /\ Unsent' = Unsent /\ Sent' = Sent
        /\ StackOK' /\ Ending' = Ending /\ SameDepths
    BY ZenonT(40), SameList, SameWork, SameStack DEF Core, Queues
  <1>3. Rest'
    <2>1. num_recv' \in [Ends -> Nat]
      BY ZenonT(40), RepostTyped DEF Core
    <2> QED
      BY ZenonT(40), <1>1, <2>1 DEF Core, Rest
  <1> QED
    BY ZenonT(40), <1>1, <1>2, <1>3 DEF Received, Reposted, Queues, Repost

(* A command with data is decoded and its transfer is posted.               *)
LEMMA TransferSets ==
    ASSUME Core, NEW p \in Ends, Poll(p, TRUE), NEW id, id = Head(cq[p]).id,
           handled' = [handled EXCEPT ![p] = Append(@, id)], todo' = todo,
           NEW o \in Ops, id = <<o, "cmd">>, NEW x, x = <<o, "xfer">>, Transfer(p, x)
    PROVE  /\ Received(p, id) /\ Reposted(p)
           /\ x \in Ids /\ x \notin Known /\ Owner(x) = p
           /\ Listed' = Listed /\ posted' = [posted EXCEPT ![p] = @ + 1]
           /\ \/ Unsent' = Unsent \cup {x} /\ lost' = lost
              \/ Unsent' = Unsent /\ lost' = lost \cup {x}
  <1>1. /\ CqOK' /\ HandledOK' /\ id \in Arrived /\ Owner(id) = Other(p)
        /\ Arrived' = Arrived \ {id} /\ Acked' = Acked /\ Decoded' = Decoded \cup {id}
        /\ armed' = armed /\ event' = event
    BY ZenonT(40), DecodeSets
  <1>2. /\ posted' = [posted EXCEPT ![p] = @ + 1] /\ PostSend(p, x) /\ Repost(p)
        /\ UNCHANGED <<req_list, stack, issued>>
    BY ZenonT(40) DEF Transfer
  <1>3. /\ ListOK' /\ Listed' = Listed /\ StackOK' /\ Ending' = Ending /\ SameDepths
    BY ZenonT(40), <1>2, SameList, SameStack DEF Core, Queues
  <1>4. x \in Ids /\ Owner(id) = By[o] /\ Owner(x) = Other(By[o]) /\ By[o] \in Ends
    BY ZenonT(40), OpIds, OwnerOf DEF Roles
  <1>5. Owner(x) = p
    BY ZenonT(40), <1>1, <1>4, TwoEnds
  <1>6. x \notin Known /\ x \notin Unsent /\ x \notin Sent
    BY ZenonT(40), <1>1, FreshNext
  <1>7. WorkOK /\ lost \subseteq Ids
    BY ZenonT(40) DEF Core, Queues, Rest
  <1>8. /\ WorkOK' /\ Sent' = Sent /\ lost' \subseteq Ids
        /\ \/ Unsent' = Unsent \cup {x} /\ lost' = lost
           \/ Unsent' = Unsent /\ lost' = lost \cup {x}
    BY ZenonT(40), <1>2, <1>4, <1>5, <1>6, <1>7, PostSendSets
  <1>9. Rest'
    <2>1. num_recv' \in [Ends -> Nat]
      BY ZenonT(40), <1>2, RepostTyped DEF Core
    <2>2. posted' \in [Ends -> Int]
      BY SMTT(30), <1>2 DEF Core, Rest
    <2> QED
      BY ZenonT(40), <1>1, <1>2, <1>8, <2>1, <2>2 DEF Core, Rest
  <1>10. Received(p, id) /\ Reposted(p)
    BY ZenonT(40), <1>1, <1>2, <1>3, <1>8, <1>9 DEF Received, Reposted, Queues, Repost
  <1> QED
    BY ZenonT(40), <1>2, <1>3, <1>4, <1>5, <1>6, <1>8, <1>10

(* A command is decoded and its answer joins the send list.                 *)
LEMMA AnswerSets ==
    ASSUME Core, NEW p \in Ends, Poll(p, TRUE), NEW id, id = Head(cq[p]).id,
           handled' = [handled EXCEPT ![p] = Append(@, id)], todo' = todo,
           NEW o \in Ops, id = <<o, "cmd">>, NEW x, x = <<o, "reply">>, Answer(p, x)
    PROVE  /\ Received(p, id) /\ OneMoreDepth(p) /\ num_recv' = num_recv
           /\ x \in Ids /\ x \notin Known /\ Owner(x) = p
           /\ Listed' = Listed \cup {x} /\ posted' = [posted EXCEPT ![p] = @ + 1]
           /\ Unsent' = Unsent /\ lost' = lost
  <1>1. /\ CqOK' /\ HandledOK' /\ id \in Arrived /\ Owner(id) = Other(p)
        /\ Arrived' = Arrived \ {id} /\ Acked' = Acked /\ Decoded' = Decoded \cup {id}
        /\ armed' = armed /\ event' = event
    BY ZenonT(40), DecodeSets
  <1>2. /\ posted' = [posted EXCEPT ![p] = @ + 1]
        /\ req_list' = [req_list EXCEPT ![p] = Append(@, x)]
        /\ issued' = [issued EXCEPT ![p] = Append(@, x)]
        /\ Push(p, <<Sending(p, posted'[p]), [at |-> "repost"]>>)
        /\ UNCHANGED <<num_recv, sq, lost>>
    BY ZenonT(40) DEF Answer, Enqueue
  <1>3. x \in Ids /\ Owner(id) = By[o] /\ Owner(x) = Other(By[o]) /\ By[o] \in Ends
    BY ZenonT(40), OpIds, OwnerOf DEF Roles
  <1>4. Owner(x) = p
    BY ZenonT(40), <1>1, <1>3, TwoEnds
  <1>5. x \notin Known /\ x \notin Listed
    BY ZenonT(40), <1>1, FreshNext
  <1>6. ListOK /\ WorkOK /\ StackOK /\ issued \in [Ends -> Seq(Ids)]
    BY ZenonT(40) DEF Core, Queues, Rest
  <1>7. ListOK' /\ Listed' = Listed \cup {x}
    BY ZenonT(40), <1>2, <1>3, <1>4, <1>5, <1>6, ListAdd
  <1>8. WorkOK' /\ Unsent' = Unsent /\ Sent' = Sent
    BY ZenonT(40), <1>2, <1>6, SameWork
  <1>9. StackOK' /\ Ending' = Ending /\ OneMoreDepth(p)
    BY ZenonT(40), <1>2, <1>6, SendingFrame, PushAnswer
  <1>10. Rest'
    <2>1. issued' \in [Ends -> Seq(Ids)]
      BY ZenonT(40), <1>2, <1>3, <1>6, IssuedTyped
    <2>2. posted' \in [Ends -> Int]
      BY SMTT(30), <1>2 DEF Core, Rest
    <2> QED
      BY ZenonT(40), <1>1, <1>2, <2>1, <2>2 DEF Core, Rest
  <1>11. Received(p, id)
    BY ZenonT(40), <1>1, <1>7, <1>8, <1>9, <1>10 DEF Received, Queues
  <1> QED
    BY ZenonT(40), <1>2, <1>3, <1>4, <1>5, <1>7, <1>8, <1>9, <1>11

(* The four kinds of messages that rpc_cb_decode tells apart.               *)
LEMMA DecodeCases ==
    ASSUME NEW p \in Ends, rpc_cb_decode(p), NEW id, id = Head(cq[p]).id, NEW o, o = id[1]
    PROVE  \/ id[2] = "done" /\ rpc_cb_cleanup(p, <<o, "cmd">>)
           \/ id[2] = "cmd" /\ Kind[o] \in {"push", "pull"} /\ Transfer(p, <<o, "xfer">>)
           \/ id[2] = "cmd" /\ Kind[o] = "ask" /\ Answer(p, <<o, "reply">>)
           \/ /\ id[2] = "reply" \/ id[2] = "cmd"
              /\ Repost(p) /\ UNCHANGED <<req, req_list, posted, stack, sq, issued, lost>>
  BY ZenonT(40) DEF rpc_cb_decode

(* What rpc_cb_decode does whatever the message is.                         *)
LEMMA DecodeFacts ==
    ASSUME Core, NEW p \in Ends, rpc_cb_decode(p), NEW id, id = Head(cq[p]).id, NEW o, o = id[1]
    PROVE  /\ o \in Ops /\ id = <<o, id[2]>> /\ Poll(p, TRUE) /\ todo' = todo
           /\ handled' = [handled EXCEPT ![p] = Append(@, id)]
  <1>1. Poll(p, TRUE) /\ todo' = todo /\ handled' = [handled EXCEPT ![p] = Append(@, id)]
    BY ZenonT(40) DEF rpc_cb_decode
  <1>2. o \in Ops /\ id = <<o, id[2]>>
    BY ZenonT(40), <1>1, DecodeSets
  <1> QED
    BY ZenonT(40), <1>1, <1>2

(* rpc_cb_decode keeps the invariant.                                       *)
LEMMA DecodeCore ==
    ASSUME Core, NEW p \in Ends, rpc_cb_decode(p)
    PROVE  Core'
  <1> DEFINE id == Head(cq[p]).id
             o == id[1]
  <1>1. id = Head(cq[p]).id /\ o = id[1]
    OBVIOUS
  <1> HIDE DEF id, o
  <1>2. /\ o \in Ops /\ id = <<o, id[2]>> /\ Poll(p, TRUE) /\ todo' = todo
        /\ handled' = [handled EXCEPT ![p] = Append(@, id)]
    BY ZenonT(40), <1>1, DecodeFacts
  <1>3. Typed /\ Places
    BY ZenonT(40), CoreTyped
  <1>4. CASE id = <<o, "done">> /\ rpc_cb_cleanup(p, <<o, "cmd">>)
    <2> DEFINE cm == <<o, "cmd">>
    <2>1. cm = <<o, "cmd">>
      OBVIOUS
    <2> HIDE DEF cm
    <2>2. /\ req' = Freed(Unreferenced(req, cm), cm) /\ Repost(p)
          /\ UNCHANGED <<todo, req_list, posted, stack, sq, issued, lost>>
      BY ZenonT(40), <1>2, <1>4, <2>1 DEF rpc_cb_cleanup
    <2>3. Received(p, id) /\ Listed' = Listed /\ Unsent' = Unsent
      BY ZenonT(40), <1>1, <1>2, <2>2, PlainDecode
    <2>4. req' \in [Ids -> Requests \cup {None}] /\ Places'
      BY ZenonT(40), <1>2, <1>3, <1>4, <2>1, <2>2, <2>3, DoneKept DEF Received
    <2> QED
      BY ZenonT(40), <2>3, <2>4 DEF Core, Received
  <1>5. CASE id = <<o, "cmd">> /\ Kind[o] \in {"push", "pull"} /\ Transfer(p, <<o, "xfer">>)
    <2> DEFINE x == <<o, "xfer">>
    <2>1. x = <<o, "xfer">>
      OBVIOUS
    <2> HIDE DEF x
    <2>2. Transfer(p, x)
      BY ZenonT(40), <1>5, <2>1
    <2>3. /\ Received(p, id) /\ Listed' = Listed
          /\ \/ Unsent' = Unsent \cup {x} /\ lost' = lost
             \/ Unsent' = Unsent /\ lost' = lost \cup {x}
      BY ZenonT(40), <1>1, <1>2, <1>5, <2>1, <2>2, TransferSets
    <2>4. \/ req' = rpc_fetch_request(Allocate(req, x), x)
          \/ req' = rpc_post_request(Allocate(req, x), x)
      BY ZenonT(40), <2>2 DEF Transfer
    <2>5. req' \in [Ids -> Requests \cup {None}] /\ Places'
      BY ZenonT(40), <1>2, <1>3, <1>5, <2>1, <2>3, <2>4, TransferKept DEF Received
    <2> QED
      BY ZenonT(40), <2>3, <2>5 DEF Core, Received
  <1>6. CASE id = <<o, "cmd">> /\ Kind[o] = "ask" /\ Answer(p, <<o, "reply">>)
    <2> DEFINE x == <<o, "reply">>
    <2>1. x = <<o, "reply">>
      OBVIOUS
    <2> HIDE DEF x
    <2>2. Answer(p, x) /\ req' = Allocate(req, x)
      BY ZenonT(40), <1>6, <2>1 DEF Answer, Enqueue
    <2>3. /\ Received(p, id) /\ Listed' = Listed \cup {x} /\ Unsent' = Unsent /\ lost' = lost
      BY ZenonT(40), <1>1, <1>2, <1>6, <2>1, <2>2, AnswerSets
    <2>4. req' \in [Ids -> Requests \cup {None}] /\ Places'
      BY ZenonT(40), <1>2, <1>3, <1>6, <2>1, <2>2, <2>3, AnswerKept DEF Received
    <2> QED
      BY ZenonT(40), <2>3, <2>4 DEF Core, Received
  <1>7. CASE /\ id[2] = "reply" \/ id[2] = "cmd"
             /\ Repost(p) /\ UNCHANGED <<req, req_list, posted, stack, sq, issued, lost>>
    <2>1. Received(p, id) /\ Listed' = Listed /\ Unsent' = Unsent
      BY ZenonT(40), <1>1, <1>2, <1>7, PlainDecode
    <2>2. id[2] # "done"
      BY SMTT(30), <1>7
    <2>3. req' \in [Ids -> Requests \cup {None}] /\ Places'
      BY ZenonT(40), <1>2, <1>3, <1>7, <2>1, <2>2, DecodeKept DEF Received
    <2> QED
      BY ZenonT(40), <2>1, <2>3 DEF Core, Received
  <1>8. \/ id[2] = "done" /\ rpc_cb_cleanup(p, <<o, "cmd">>)
        \/ id[2] = "cmd" /\ Kind[o] \in {"push", "pull"} /\ Transfer(p, <<o, "xfer">>)
        \/ id[2] = "cmd" /\ Kind[o] = "ask" /\ Answer(p, <<o, "reply">>)
        \/ /\ id[2] = "reply" \/ id[2] = "cmd"
           /\ Repost(p) /\ UNCHANGED <<req, req_list, posted, stack, sq, issued, lost>>
    BY ZenonT(40), <1>1, DecodeCases
  <1>9. \A r : id[2] = r => id = <<o, r>>
    BY ZenonT(40), <1>2
  <1> QED
    BY ZenonT(40), <1>4, <1>5, <1>6, <1>7, <1>8, <1>9

(* Every step keeps the invariant.                                          *)
LEMMA CoreStep ==
    ASSUME Core, [Next]_vars
    PROVE  Core'
  <1>1. CASE UNCHANGED vars
    <2>1. /\ UNCHANGED <<todo, req, req_list, posted, num_recv, sq, cq, issued, handled, lost>>
          /\ stack' = stack /\ armed' \in [Ends -> BOOLEAN] /\ event' \in [Ends -> BOOLEAN]
      BY ZenonT(40), <1>1 DEF vars, device, Core, Rest
    <2>2. StackOK' /\ Ending' = Ending /\ SameDepths
      BY ZenonT(40), <2>1, SameStack DEF Core, Queues
    <2> QED
      BY ZenonT(40), <2>1, <2>2, QuietStep, QuietCore
  <1>2. CASE Next
    <2>1. PICK p \in Ends : \/ \E o \in todo : rpc_send(p, o) \/ rpc_receive(p, o)
                            \/ Working(p)
                            \/ Transmit(p)
                            \/ Acknowledge(p)
      BY ZenonT(40), <1>2 DEF Next
    <2>2. CASE \E o \in todo : rpc_send(p, o) \/ rpc_receive(p, o)
      BY ZenonT(40), <2>2, CommandCore DEF rpc_send, rpc_receive
    <2>3. CASE Working(p)
      BY ZenonT(40), <2>3, RoundQuiet, EventQuiet, NothingQuiet, QuietCore, SendCore,
         CompletionCore, FinishCore, DecodeCore, RepostCore DEF Working
    <2> QED
      BY ZenonT(40), <2>1, <2>2, <2>3, TransmitCore, AckCore
  <1> QED
    BY SMTT(30), <1>1, <1>2

-----------------------------------------------------------------------------
(* The start, and what the invariant says of the state functions of the     *)
(* properties.                                                              *)

(* The invariant holds at the start.                                        *)
LEMMA InitCore ==
    ASSUME Init
    PROVE  Core
  <1>1. /\ req = [id \in Ids |-> None] /\ req_list = [p \in Ends |-> << >>]
        /\ stack = [p \in Ends |-> << >>] /\ sq = [p \in Ends |-> << >>]
        /\ cq = [p \in Ends |-> << >>] /\ handled = [p \in Ends |-> << >>]
        /\ issued = [p \in Ends |-> << >>] /\ lost = {}
    BY ZenonT(40) DEF Init
  <1>2. /\ << >> \in Seq(Ids) /\ << >> \in Seq(Frames) /\ << >> \in Seq(Works)
        /\ << >> \in Seq(Completions) /\ \A i : i \notin DOMAIN << >>
    OBVIOUS
  <1>3. /\ \A x : x \notin Range(<< >>) /\ x \notin UnsentIn(<< >>) /\ x \notin SentIn(<< >>)
        /\ \A x : x \notin AckedIn(<< >>) /\ x \notin ArrivedIn(<< >>) /\ x \notin FinishIn(<< >>)
        /\ Once(<< >>) /\ OnceIds(<< >>) /\ OnceFinish(<< >>)
    BY ZenonT(40), <1>2 DEF Range, UnsentIn, SentIn, AckedIn, ArrivedIn, FinishIn, Once, OnceIds,
       OnceFinish
  <1>4. /\ \A p \in Ends : /\ req_list[p] = << >> /\ stack[p] = << >> /\ sq[p] = << >>
                           /\ cq[p] = << >> /\ handled[p] = << >>
        /\ \A id \in Ids : req[id] = None
    BY ZenonT(40), <1>1
  <1>5. Queues
    <2>1. ListOK
      BY ZenonT(40), <1>1, <1>2, <1>3, <1>4 DEF ListOK
    <2>2. WorkOK
      BY ZenonT(40), <1>1, <1>2, <1>3, <1>4 DEF WorkOK
    <2>3. CqOK
      BY ZenonT(40), <1>1, <1>2, <1>3, <1>4 DEF CqOK
    <2>4. StackOK
      BY ZenonT(40), <1>1, <1>2, <1>3, <1>4 DEF StackOK
    <2>5. HandledOK
      BY ZenonT(40), <1>1, <1>2, <1>3, <1>4 DEF HandledOK
    <2> QED
      BY ZenonT(40), <2>1, <2>2, <2>3, <2>4, <2>5 DEF Queues
  <1>6. Rest
    <2>1. todo \subseteq Ops
      BY SMTT(30), IbRpcAssumption DEF Init
    <2>2. posted \in [Ends -> Int] /\ num_recv \in [Ends -> Nat]
      BY SMTT(30), IbRpcAssumption DEF Init
    <2>3. armed \in [Ends -> BOOLEAN] /\ event \in [Ends -> BOOLEAN]
      BY ZenonT(40) DEF Init
    <2>4. issued \in [Ends -> Seq(Ids)] /\ lost \subseteq Ids
      BY ZenonT(40), <1>1, <1>2
    <2> QED
      BY ZenonT(40), <2>1, <2>2, <2>3, <2>4 DEF Rest
  <1>7. \A x : /\ x \notin Known /\ x \notin Listed /\ x \notin Unsent /\ x \notin Sent
               /\ x \notin Acked /\ x \notin Ending /\ x \notin Arrived /\ x \notin Decoded
               /\ x \notin lost
    BY ZenonT(40), <1>1, <1>3, <1>4 DEF Known, Listed, Unsent, Sent, Acked, Ending, Arrived, Decoded
  <1>8. Apart
    BY ZenonT(40), <1>7 DEF Apart, InWork
  <1>9. Stages
    BY ZenonT(40), <1>7 DEF Stages, StageOf
  <1>10. Counted /\ Filled
    BY ZenonT(40), <1>7 DEF Counted, Filled, FillOf
  <1>11. req \in [Ids -> Requests \cup {None}]
    BY ZenonT(40), <1>1
  <1> QED
    BY ZenonT(40), <1>5, <1>6, <1>8, <1>9, <1>10, <1>11 DEF Core, Places

(* The requests that the model calls queued are the listed ones.            *)
LEMMA QueuedAre ==
    ASSUME Core, NEW p \in Ends, NEW x
    PROVE  x \in Queued(p) <=> x \in Listed /\ Owner(x) = p
  <1>1. ListOK
    BY ZenonT(40) DEF Core, Queues
  <1>2. x \in Queued(p) => x \in Ids /\ Owner(x) = p
    <2>1. req_list[p] \in Seq(Ids)
      BY ZenonT(40), <1>1 DEF ListOK
    <2> QED
      BY ZenonT(40), <1>1, <2>1, SeqRange DEF Queued, ListOK
  <1> QED
    BY ZenonT(40), <1>1, <1>2 DEF Queued, Listed, ListOK

(* The entries of the queues name requests.                                 *)
LEMMA EntryIds ==
    ASSUME NEW s \in Seq(Works), NEW t \in Seq(Completions)
    PROVE  /\ \A i \in DOMAIN s : s[i].id \in Ids
           /\ \A i \in DOMAIN t : t[i].id \in Ids
  <1>1. (\A i \in DOMAIN s : s[i] \in Works) /\ \A i \in DOMAIN t : t[i] \in Completions
    OBVIOUS
  <1> QED
    BY <1>1 DEF Works, Completions

(* The requests that the model calls outstanding are unsent, sent or        *)
(* acknowledged.                                                            *)
LEMMA OutstandingAre ==
    ASSUME Core, NEW p \in Ends, NEW x
    PROVE  x \in Outstanding(p) <=> (x \in Unsent \/ x \in Sent \/ x \in Acked) /\ Owner(x) = p
  <1>1. WorkOK /\ CqOK
    BY ZenonT(40) DEF Core, Queues
  <1>2. /\ \A i \in DOMAIN sq[p] : sq[p][i].id \in Ids
        /\ \A i \in DOMAIN cq[p] : cq[p][i].id \in Ids
    <2>1. sq[p] \in Seq(Works) /\ cq[p] \in Seq(Completions)
      BY ZenonT(40), <1>1 DEF WorkOK, CqOK
    <2> QED
      BY ZenonT(40), <2>1, EntryIds
  <1>3. x \in Outstanding(p) <=> \/ \E i \in DOMAIN sq[p] : sq[p][i].id = x
                                 \/ \E i \in DOMAIN cq[p] : cq[p][i].id = x /\ ~cq[p][i].recv
    BY ZenonT(40) DEF Outstanding, Range
  <1>4. x \in Outstanding(p) <=> x \in UnsentIn(sq[p]) \/ x \in SentIn(sq[p]) \/ x \in AckedIn(cq[p])
    BY ZenonT(40), <1>2, <1>3 DEF UnsentIn, SentIn, AckedIn
  <1>5. /\ x \in UnsentIn(sq[p]) <=> x \in Unsent /\ Owner(x) = p
        /\ x \in SentIn(sq[p]) <=> x \in Sent /\ Owner(x) = p
    BY ZenonT(40), <1>1 DEF Unsent, Sent, WorkOK, UnsentIn, SentIn
  <1>6. x \in AckedIn(cq[p]) <=> x \in Acked /\ Owner(x) = p
    BY ZenonT(40), <1>1 DEF Acked, CqOK, AckedIn
  <1> QED
    BY ZenonT(40), <1>4, <1>5, <1>6

(* The transfers that the model calls finishing are the ending ones.        *)
LEMMA FinishingAre ==
    ASSUME Core, NEW p \in Ends, NEW x
    PROVE  x \in Finishing(p) <=> x \in Ending /\ Owner(x) = p
  <1>1. StackOK
    BY ZenonT(40) DEF Core, Queues
  <1>2. \A i \in DOMAIN stack[p] : stack[p][i].at = "finish" => stack[p][i].id \in Ids
    BY SMTT(30), <1>1 DEF StackOK, Frames
  <1>3. x \in Finishing(p) <=>
            \E i \in DOMAIN stack[p] : stack[p][i].at = "finish" /\ stack[p][i].id = x
    BY ZenonT(40) DEF Finishing, Range
  <1>4. x \in Finishing(p) <=> x \in FinishIn(stack[p])
    BY ZenonT(40), <1>2, <1>3 DEF FinishIn
  <1> QED
    BY ZenonT(40), <1>1, <1>4 DEF Ending, StackOK, FinishIn

(* The messages that the model calls arriving are unsent or arrived.        *)
LEMMA ArrivingAre ==
    ASSUME Core, NEW p \in Ends, NEW x \in Arriving(p)
    PROVE  x \in Arrived \/ x \in Unsent
  <1>1. WorkOK /\ CqOK /\ Other(p) \in Ends
    BY ZenonT(40), TwoEnds DEF Core, Queues
  <1>2. /\ \A i \in DOMAIN sq[Other(p)] : sq[Other(p)][i].id \in Ids
        /\ \A i \in DOMAIN cq[p] : cq[p][i].id \in Ids
    <2>1. sq[Other(p)] \in Seq(Works) /\ cq[p] \in Seq(Completions)
      BY ZenonT(40), <1>1 DEF WorkOK, CqOK
    <2> QED
      BY ZenonT(40), <2>1, EntryIds
  <1>3. \/ \E i \in DOMAIN cq[p] : cq[p][i].id = x /\ cq[p][i].recv
        \/ \E i \in DOMAIN sq[Other(p)] : sq[Other(p)][i].id = x /\ ~sq[Other(p)][i].sent
    BY ZenonT(40) DEF Arriving, Range
  <1> QED
    BY ZenonT(40), <1>1, <1>2, <1>3 DEF Arrived, Unsent, ArrivedIn, UnsentIn

(* The messages handled at an end are the decoded ones of the other.        *)
LEMMA HandledAre ==
    ASSUME Core, NEW p \in Ends, NEW x
    PROVE  x \in Range(handled[p]) <=> x \in Decoded /\ Owner(x) = Other(p)
  <1>1. HandledOK
    BY ZenonT(40) DEF Core, Queues
  <1>2. x \in Range(handled[p]) => x \in Ids
    <2>1. handled[p] \in Seq(Ids)
      BY ZenonT(40), <1>1 DEF HandledOK
    <2> QED
      BY ZenonT(40), <2>1, SeqRange
  <1>3. \A q \in Ends : Other(q) = Other(p) => q = p
    BY ZenonT(40), TwoEnds
  <1> QED
    BY ZenonT(40), <1>1, <1>2, <1>3 DEF Decoded, HandledOK
=============================================================================
