----------------------------- MODULE IbRpcCalls -----------------------------
(***************************************************************************)
(* What follows from the inductive invariant alone or is kept next to it:  *)
(* the memory of the requests, the counters, the wake-ups and the calls    *)
(* that nest.                                                              *)
(*                                                                         *)
(* The references and the data follow from Core. The two counters,         *)
(* peer->req_posted and peer->num_recv_buf, need Counts: it equates them   *)
(* with the sizes of sets of requests, so that a step changes both sides   *)
(* by one.                                                                 *)
(*                                                                         *)
(* Wakeup says of an end whose completion queue is not empty that an event *)
(* waits for it or that rpc_process is going to poll again: the next event *)
(* is asked for before the first poll.                                     *)
(*                                                                         *)
(* NotNested says that an end that has issued nothing but commands of its  *)
(* own has at most one rpc_send under way, whose command has not left the  *)
(* list.                                                                   *)
(***************************************************************************)
EXTENDS IbRpcInv

(* The facts about finite sets that the lemmas below need. They are those   *)
(* of the library of theorems, from which IbRpcTheorems derives them.       *)
FiniteSetFacts ==
    /\ IsFiniteSet({}) /\ Cardinality({}) = 0
    /\ \A S : IsFiniteSet(S) =>
          /\ Cardinality(S) \in Nat
          /\ \A x : /\ IsFiniteSet(S \cup {x})
                    /\ x \notin S => Cardinality(S \cup {x}) = Cardinality(S) + 1
                    /\ IsFiniteSet(S \ {x})
                    /\ x \in S => Cardinality(S \ {x}) = Cardinality(S) - 1

-----------------------------------------------------------------------------
(* What the counters count.                                                 *)

(* The requests that rpc_send or a handler issued and whose completion has  *)
(* not been polled.                                                         *)
InFlight == Listed \cup Unsent \cup Sent \cup Acked

(* The requests in flight of one end.                                       *)
FlightOf(p) == {id \in InFlight : Owner(id) = p}

(* The requests of an end that ibv_post_send refused.                       *)
LostOf(p) == {id \in lost : Owner(id) = p}

(* The messages that arrived at an end and are not decoded.                 *)
ArrivedAt(p) == {id \in Arrived : Owner(id) = Other(p)}

(* req_posted of an end is the number of its requests in flight and of      *)
(* those that ibv_post_send refused, which nobody ever takes off.           *)
PostedInv ==
    \A p \in Ends :
        /\ IsFiniteSet(FlightOf(p)) /\ IsFiniteSet(LostOf(p))
        /\ posted[p] = Cardinality(FlightOf(p)) + Cardinality(LostOf(p))

(* The receives posted, the messages that took one and are not decoded, and *)
(* the receives that a call under way is going to post again are NumBuf     *)
(* together.                                                                *)
RecvInv ==
    \A p \in Ends :
        /\ IsFiniteSet(ArrivedAt(p)) /\ IsFiniteSet(Depths(stack[p]))
        /\ num_recv[p] + Cardinality(ArrivedAt(p)) + Cardinality(Depths(stack[p])) = NumBuf

(* What the two counters count.                                             *)
Counts == PostedInv /\ RecvInv

(* One element more or less, in the form the counting lemmas use.           *)
LEMMA Members ==
    ASSUME FiniteSetFacts, NEW S, IsFiniteSet(S), NEW x
    PROVE  /\ Cardinality(S) \in Nat
           /\ IsFiniteSet(S \cup {x}) /\ IsFiniteSet(S \ {x})
           /\ x \notin S => Cardinality(S \cup {x}) = Cardinality(S) + 1
           /\ x \in S => Cardinality(S \ {x}) = Cardinality(S) - 1
  BY ZenonT(40) DEF FiniteSetFacts

-----------------------------------------------------------------------------
(* req_posted.                                                              *)

(* One request more is in flight, at its end.                               *)
LEMMA FlightAdd ==
    ASSUME NEW p, NEW id, Owner(id) = p, InFlight' = InFlight \cup {id}
    PROVE  FlightOf(p)' = FlightOf(p) \cup {id} /\ \A q : q # p => FlightOf(q)' = FlightOf(q)
  <1>1. \A x : x \in FlightOf(p)' <=> x \in FlightOf(p) \cup {id}
    BY ZenonT(40) DEF FlightOf
  <1>2. ASSUME NEW q, q # p PROVE FlightOf(q)' = FlightOf(q)
    <2>1. \A x : x \in FlightOf(q)' <=> x \in FlightOf(q)
      BY ZenonT(40), <1>2 DEF FlightOf
    <2> QED
      BY ZenonT(40), <2>1
  <1> QED
    BY ZenonT(40), <1>1, <1>2

(* One request fewer is in flight, at its end.                              *)
LEMMA FlightDrop ==
    ASSUME NEW p, NEW id, Owner(id) = p, InFlight' = InFlight \ {id}
    PROVE  FlightOf(p)' = FlightOf(p) \ {id} /\ \A q : q # p => FlightOf(q)' = FlightOf(q)
  <1>1. \A x : x \in FlightOf(p)' <=> x \in FlightOf(p) \ {id}
    BY ZenonT(40) DEF FlightOf
  <1>2. ASSUME NEW q, q # p PROVE FlightOf(q)' = FlightOf(q)
    <2>1. \A x : x \in FlightOf(q)' <=> x \in FlightOf(q)
      BY ZenonT(40), <1>2 DEF FlightOf
    <2> QED
      BY ZenonT(40), <2>1
  <1> QED
    BY ZenonT(40), <1>1, <1>2

(* One request more is lost, at its end.                                    *)
LEMMA LostAdd ==
    ASSUME NEW p, NEW id, Owner(id) = p, lost' = lost \cup {id}
    PROVE  LostOf(p)' = LostOf(p) \cup {id} /\ \A q : q # p => LostOf(q)' = LostOf(q)
  <1>1. \A x : x \in LostOf(p)' <=> x \in LostOf(p) \cup {id}
    BY ZenonT(40) DEF LostOf
  <1>2. ASSUME NEW q, q # p PROVE LostOf(q)' = LostOf(q)
    <2>1. \A x : x \in LostOf(q)' <=> x \in LostOf(q)
      BY ZenonT(40), <1>2 DEF LostOf
    <2> QED
      BY ZenonT(40), <2>1
  <1> QED
    BY ZenonT(40), <1>1, <1>2

(* The same requests are in flight.                                         *)
LEMMA SameFlight ==
    ASSUME InFlight' = InFlight
    PROVE  \A q : FlightOf(q)' = FlightOf(q)
  BY ZenonT(40) DEF FlightOf

(* The same requests are lost.                                              *)
LEMMA SameLost ==
    ASSUME lost' = lost
    PROVE  \A q : LostOf(q)' = LostOf(q)
  BY ZenonT(40) DEF LostOf

(* No request is issued or completed.                                       *)
LEMMA PostedSame ==
    ASSUME PostedInv, InFlight' = InFlight, lost' = lost, posted' = posted
    PROVE  PostedInv'
  BY ZenonT(40), SameFlight, SameLost DEF PostedInv

(* The count of one end is made right and the other end keeps its own.      *)
LEMMA PostedAt ==
    ASSUME PostedInv, NEW p \in Ends,
           \A q \in Ends : q # p => /\ FlightOf(q)' = FlightOf(q) /\ LostOf(q)' = LostOf(q)
                                    /\ posted'[q] = posted[q],
           IsFiniteSet(FlightOf(p)'), IsFiniteSet(LostOf(p)'),
           posted'[p] = Cardinality(FlightOf(p)') + Cardinality(LostOf(p)')
    PROVE  PostedInv'
  <1>1. ASSUME NEW q \in Ends
        PROVE  /\ IsFiniteSet(FlightOf(q)') /\ IsFiniteSet(LostOf(q)')
               /\ posted'[q] = Cardinality(FlightOf(q)') + Cardinality(LostOf(q)')
    <2>1. CASE q = p
      BY ZenonT(40), <2>1
    <2>2. CASE q # p
      BY ZenonT(40), <2>2 DEF PostedInv
    <2> QED
      BY SMTT(30), <2>1, <2>2
  <1> QED
    BY ZenonT(40), <1>1 DEF PostedInv

(* A request is issued and counted.                                         *)
LEMMA PostedAdd ==
    ASSUME FiniteSetFacts, PostedInv, posted \in [Ends -> Int], NEW p \in Ends,
           NEW id, Owner(id) = p, id \notin InFlight,
           InFlight' = InFlight \cup {id}, lost' = lost,
           posted' = [posted EXCEPT ![p] = @ + 1]
    PROVE  PostedInv'
  <1> DEFINE F == FlightOf(p)
             L == LostOf(p)
  <1>1. IsFiniteSet(F) /\ IsFiniteSet(L) /\ posted[p] = Cardinality(F) + Cardinality(L)
    BY ZenonT(40) DEF PostedInv
  <1>2. posted'[p] = posted[p] + 1 /\ \A q \in Ends : q # p => posted'[q] = posted[q]
    BY ZenonT(40)
  <1>3. /\ FlightOf(p)' = F \cup {id} /\ \A q : q # p => FlightOf(q)' = FlightOf(q)
        /\ LostOf(p)' = L /\ \A q : q # p => LostOf(q)' = LostOf(q)
    BY ZenonT(40), FlightAdd, SameLost
  <1>4. id \notin F
    BY ZenonT(40) DEF FlightOf, LostOf, InFlight
  <1> HIDE DEF F, L
  <1>5. Cardinality(F) \in Nat /\ Cardinality(L) \in Nat
    BY ZenonT(40), <1>1, Members
  <1>6. IsFiniteSet(F \cup {id}) /\ Cardinality(F \cup {id}) = Cardinality(F) + 1
    BY ZenonT(40), <1>1, <1>4, Members
  <1>7. posted'[p] = Cardinality(F \cup {id}) + Cardinality(L)
    BY SMTT(30), <1>1, <1>2, <1>5, <1>6
  <1> QED
    BY ZenonT(40), <1>1, <1>2, <1>3, <1>6, <1>7, PostedAt

(* A transfer is counted and refused at once.                               *)
LEMMA PostedLose ==
    ASSUME FiniteSetFacts, PostedInv, posted \in [Ends -> Int], NEW p \in Ends,
           NEW id, Owner(id) = p, id \notin lost,
           InFlight' = InFlight, lost' = lost \cup {id},
           posted' = [posted EXCEPT ![p] = @ + 1]
    PROVE  PostedInv'
  <1> DEFINE F == FlightOf(p)
             L == LostOf(p)
  <1>1. IsFiniteSet(F) /\ IsFiniteSet(L) /\ posted[p] = Cardinality(F) + Cardinality(L)
    BY ZenonT(40) DEF PostedInv
  <1>2. posted'[p] = posted[p] + 1 /\ \A q \in Ends : q # p => posted'[q] = posted[q]
    BY ZenonT(40)
  <1>3. /\ FlightOf(p)' = F /\ \A q : q # p => FlightOf(q)' = FlightOf(q)
        /\ LostOf(p)' = L \cup {id} /\ \A q : q # p => LostOf(q)' = LostOf(q)
    BY ZenonT(40), LostAdd, SameFlight
  <1>4. id \notin L
    BY ZenonT(40) DEF FlightOf, LostOf, InFlight
  <1> HIDE DEF F, L
  <1>5. Cardinality(F) \in Nat /\ Cardinality(L) \in Nat
    BY ZenonT(40), <1>1, Members
  <1>6. IsFiniteSet(L \cup {id}) /\ Cardinality(L \cup {id}) = Cardinality(L) + 1
    BY ZenonT(40), <1>1, <1>4, Members
  <1>7. posted'[p] = Cardinality(F) + Cardinality(L \cup {id})
    BY SMTT(30), <1>1, <1>2, <1>5, <1>6
  <1> QED
    BY ZenonT(40), <1>1, <1>2, <1>3, <1>6, <1>7, PostedAt

(* A completion is polled and counted off.                                  *)
LEMMA PostedDrop ==
    ASSUME FiniteSetFacts, PostedInv, posted \in [Ends -> Int], NEW p \in Ends,
           NEW id, Owner(id) = p, id \in InFlight,
           InFlight' = InFlight \ {id}, lost' = lost,
           posted' = [posted EXCEPT ![p] = @ - 1]
    PROVE  PostedInv'
  <1> DEFINE F == FlightOf(p)
             L == LostOf(p)
  <1>1. IsFiniteSet(F) /\ IsFiniteSet(L) /\ posted[p] = Cardinality(F) + Cardinality(L)
    BY ZenonT(40) DEF PostedInv
  <1>2. posted'[p] = posted[p] - 1 /\ \A q \in Ends : q # p => posted'[q] = posted[q]
    BY ZenonT(40)
  <1>3. /\ FlightOf(p)' = (F \ {id}) /\ \A q : q # p => FlightOf(q)' = FlightOf(q)
        /\ LostOf(p)' = L /\ \A q : q # p => LostOf(q)' = LostOf(q)
    BY ZenonT(40), FlightDrop, SameLost
  <1>4. id \in F
    BY ZenonT(40) DEF FlightOf, LostOf, InFlight
  <1> HIDE DEF F, L
  <1>5. Cardinality(F) \in Nat /\ Cardinality(L) \in Nat
    BY ZenonT(40), <1>1, Members
  <1>6. IsFiniteSet(F \ {id}) /\ Cardinality(F \ {id}) = Cardinality(F) - 1
    BY ZenonT(40), <1>1, <1>4, Members
  <1>7. posted'[p] = Cardinality((F \ {id})) + Cardinality(L)
    BY SMTT(30), <1>1, <1>2, <1>5, <1>6
  <1> QED
    BY ZenonT(40), <1>1, <1>2, <1>3, <1>6, <1>7, PostedAt

(* A listed request is refused: it leaves the requests in flight and stays  *)
(* counted.                                                                 *)
LEMMA PostedRefused ==
    ASSUME FiniteSetFacts, PostedInv, posted \in [Ends -> Int], NEW p \in Ends,
           NEW id, Owner(id) = p, id \in InFlight, id \notin lost,
           InFlight' = InFlight \ {id}, lost' = lost \cup {id}, posted' = posted
    PROVE  PostedInv'
  <1> DEFINE F == FlightOf(p)
             L == LostOf(p)
  <1>1. IsFiniteSet(F) /\ IsFiniteSet(L) /\ posted[p] = Cardinality(F) + Cardinality(L)
    BY ZenonT(40) DEF PostedInv
  <1>2. posted'[p] = posted[p] /\ \A q \in Ends : q # p => posted'[q] = posted[q]
    BY ZenonT(40)
  <1>3. /\ FlightOf(p)' = (F \ {id}) /\ \A q : q # p => FlightOf(q)' = FlightOf(q)
        /\ LostOf(p)' = (L \cup {id}) /\ \A q : q # p => LostOf(q)' = LostOf(q)
    BY ZenonT(40), FlightDrop, LostAdd
  <1>4. id \in F /\ id \notin L
    BY ZenonT(40) DEF FlightOf, LostOf, InFlight
  <1> HIDE DEF F, L
  <1>5. Cardinality(F) \in Nat /\ Cardinality(L) \in Nat
    BY ZenonT(40), <1>1, Members
  <1>6. /\ IsFiniteSet(F \ {id}) /\ Cardinality(F \ {id}) = Cardinality(F) - 1
        /\ IsFiniteSet(L \cup {id}) /\ Cardinality(L \cup {id}) = Cardinality(L) + 1
    BY ZenonT(40), <1>1, <1>4, Members
  <1>7. posted'[p] = Cardinality((F \ {id})) + Cardinality((L \cup {id}))
    BY SMTT(30), <1>1, <1>2, <1>5, <1>6
  <1> QED
    BY ZenonT(40), <1>1, <1>2, <1>3, <1>6, <1>7, PostedAt

(* A transfer is counted off and its peer_rdma_done counted.                *)
LEMMA PostedSwap ==
    ASSUME FiniteSetFacts, PostedInv, posted \in [Ends -> Int], NEW p \in Ends,
           NEW id, Owner(id) = p, id \in InFlight, NEW dn, Owner(dn) = p, dn \notin InFlight,
           InFlight' = (InFlight \ {id}) \cup {dn}, lost' = lost,
           posted' = [posted EXCEPT ![p] = (@ - 1) + 1]
    PROVE  PostedInv'
  <1> DEFINE F == FlightOf(p)
             L == LostOf(p)
             G == F \ {id}
  <1>1. IsFiniteSet(F) /\ IsFiniteSet(L) /\ posted[p] = Cardinality(F) + Cardinality(L)
    BY ZenonT(40) DEF PostedInv
  <1>2. posted'[p] = (posted[p] - 1) + 1 /\ \A q \in Ends : q # p => posted'[q] = posted[q]
    BY ZenonT(40)
  <1>3. \A x : x \in FlightOf(p)' <=> x \in G \cup {dn}
    BY ZenonT(40) DEF FlightOf
  <1>4. ASSUME NEW q, q # p PROVE FlightOf(q)' = FlightOf(q)
    <2>1. \A x : x \in FlightOf(q)' <=> x \in FlightOf(q)
      BY ZenonT(40), <1>4 DEF FlightOf
    <2> QED
      BY ZenonT(40), <2>1
  <1>5. \A q : LostOf(q)' = LostOf(q)
    BY ZenonT(40), SameLost
  <1>6. id \in F /\ dn \notin G
    BY ZenonT(40) DEF FlightOf
  <1>7. FlightOf(p)' = G \cup {dn} /\ LostOf(p)' = L
    BY ZenonT(40), <1>3, <1>5
  <1> HIDE DEF F, L
  <1>8. /\ Cardinality(F) \in Nat /\ Cardinality(L) \in Nat
        /\ IsFiniteSet(G) /\ Cardinality(G) = Cardinality(F) - 1
    BY ZenonT(40), <1>1, <1>6, Members
  <1> HIDE DEF G
  <1>9. IsFiniteSet(G \cup {dn}) /\ Cardinality(G \cup {dn}) = Cardinality(G) + 1
    BY ZenonT(40), <1>6, <1>8, Members
  <1>10. posted'[p] = Cardinality(G \cup {dn}) + Cardinality(L)
    BY SMTT(30), <1>1, <1>2, <1>8, <1>9
  <1> QED
    BY ZenonT(40), <1>1, <1>2, <1>4, <1>5, <1>7, <1>9, <1>10, PostedAt

-----------------------------------------------------------------------------
(* The receives.                                                            *)

(* The receives of one end are made right and the other end keeps its own.  *)
LEMMA RecvAt ==
    ASSUME RecvInv, NEW p \in Ends,
           \A q \in Ends : q # p => /\ ArrivedAt(q)' = ArrivedAt(q)
                                    /\ Depths(stack'[q]) = Depths(stack[q])
                                    /\ num_recv'[q] = num_recv[q],
           IsFiniteSet(ArrivedAt(p)'), IsFiniteSet(Depths(stack'[p])),
           num_recv'[p] + Cardinality(ArrivedAt(p)') + Cardinality(Depths(stack'[p])) = NumBuf
    PROVE  RecvInv'
  <1>1. ASSUME NEW q \in Ends
        PROVE  /\ IsFiniteSet(ArrivedAt(q)') /\ IsFiniteSet(Depths(stack'[q]))
               /\ num_recv'[q] + Cardinality(ArrivedAt(q)') + Cardinality(Depths(stack'[q]))
                     = NumBuf
    <2>1. CASE q = p
      BY ZenonT(40), <2>1
    <2>2. CASE q # p
      <3>1. /\ IsFiniteSet(ArrivedAt(q)) /\ IsFiniteSet(Depths(stack[q]))
            /\ num_recv[q] + Cardinality(ArrivedAt(q)) + Cardinality(Depths(stack[q])) = NumBuf
        BY ZenonT(40) DEF RecvInv
      <3>2. /\ ArrivedAt(q)' = ArrivedAt(q) /\ Depths(stack'[q]) = Depths(stack[q])
            /\ num_recv'[q] = num_recv[q]
        BY ZenonT(40), <2>2
      <3> QED
        BY SMTT(30), <3>1, <3>2
    <2> QED
      BY SMTT(30), <2>1, <2>2
  <1> QED
    BY ZenonT(40), <1>1 DEF RecvInv

(* No receive is taken or posted.                                           *)
LEMMA RecvSame ==
    ASSUME RecvInv, Arrived' = Arrived, SameDepths, num_recv' = num_recv
    PROVE  RecvInv'
  <1>1. \A q : ArrivedAt(q)' = ArrivedAt(q)
    BY ZenonT(40) DEF ArrivedAt
  <1> QED
    BY ZenonT(40), <1>1 DEF RecvInv, SameDepths

(* A message is decoded: one fewer has arrived at that end.                 *)
LEMMA ArrivedLess ==
    ASSUME NEW p \in Ends, NEW id \in Arrived, Owner(id) = Other(p), Arrived' = Arrived \ {id}
    PROVE  /\ ArrivedAt(p)' = ArrivedAt(p) \ {id} /\ id \in ArrivedAt(p)
           /\ \A q \in Ends : q # p => ArrivedAt(q)' = ArrivedAt(q)
  <1>1. \A x : x \in ArrivedAt(p)' <=> x \in ArrivedAt(p) \ {id}
    BY ZenonT(40) DEF ArrivedAt
  <1>2. ASSUME NEW q \in Ends, q # p PROVE ArrivedAt(q)' = ArrivedAt(q)
    <2>1. Other(q) # Other(p)
      BY ZenonT(40), <1>2, TwoEnds
    <2>2. \A x : x \in ArrivedAt(q)' <=> x \in ArrivedAt(q)
      BY ZenonT(40), <2>1 DEF ArrivedAt
    <2> QED
      BY ZenonT(40), <2>2
  <1> QED
    BY ZenonT(40), <1>1, <1>2 DEF ArrivedAt

(* A message arrives: one more at that end.                                 *)
LEMMA ArrivedMore ==
    ASSUME NEW p \in Ends, NEW id, id \notin Arrived, Owner(id) = Other(p),
           Arrived' = Arrived \cup {id}
    PROVE  /\ ArrivedAt(p)' = ArrivedAt(p) \cup {id} /\ id \notin ArrivedAt(p)
           /\ \A q \in Ends : q # p => ArrivedAt(q)' = ArrivedAt(q)
  <1>1. \A x : x \in ArrivedAt(p)' <=> x \in ArrivedAt(p) \cup {id}
    BY ZenonT(40) DEF ArrivedAt
  <1>2. ASSUME NEW q \in Ends, q # p PROVE ArrivedAt(q)' = ArrivedAt(q)
    <2>1. Other(q) # Other(p)
      BY ZenonT(40), <1>2, TwoEnds
    <2>2. \A x : x \in ArrivedAt(q)' <=> x \in ArrivedAt(q)
      BY ZenonT(40), <2>1 DEF ArrivedAt
    <2> QED
      BY ZenonT(40), <2>2
  <1> QED
    BY ZenonT(40), <1>1, <1>2 DEF ArrivedAt

(* A message takes a receive.                                               *)
LEMMA RecvArrive ==
    ASSUME FiniteSetFacts, RecvInv, num_recv \in [Ends -> Nat], NEW p \in Ends,
           NEW id, id \notin Arrived, Owner(id) = Other(p),
           Arrived' = Arrived \cup {id}, SameDepths,
           num_recv' = [num_recv EXCEPT ![p] = @ - 1]
    PROVE  RecvInv'
  <1> DEFINE A == ArrivedAt(p)
             D == Depths(stack[p])
             B == ArrivedAt(p)'
             E == Depths(stack'[p])
  <1>1. /\ IsFiniteSet(A) /\ IsFiniteSet(D) /\ num_recv[p] \in Nat
        /\ num_recv[p] + Cardinality(A) + Cardinality(D) = NumBuf
    BY ZenonT(40) DEF RecvInv
  <1>2. num_recv'[p] = num_recv[p] - 1 /\ \A q \in Ends : q # p => num_recv'[q] = num_recv[q]
    BY ZenonT(40)
  <1>3. B = A \cup {id} /\ id \notin A /\ \A q \in Ends : q # p => ArrivedAt(q)' = ArrivedAt(q)
    BY ZenonT(40), ArrivedMore
  <1>4. E = D
        /\ \A q \in Ends : q # p => Depths(stack'[q]) = Depths(stack[q])
    BY ZenonT(40) DEF SameDepths
  <1> HIDE DEF A, D, B, E
  <1>5. /\ IsFiniteSet(B) /\ Cardinality(B) = Cardinality(A) + 1 /\ Cardinality(A) \in Nat
        /\ Cardinality(D) \in Nat
    BY ZenonT(40), <1>1, <1>3, Members
  <1>6. num_recv'[p] + Cardinality(B) + Cardinality(E) = NumBuf
    BY SMTT(30), <1>1, <1>2, <1>4, <1>5
  <1>7. /\ IsFiniteSet(B) /\ IsFiniteSet(E)
        /\ num_recv'[p] + Cardinality(B) + Cardinality(E) = NumBuf
    BY ZenonT(40), <1>1, <1>4, <1>5, <1>6
  <1> QED
    BY ZenonT(40), <1>2, <1>3, <1>4, <1>7, RecvAt DEF B, E

(* A message is decoded and its receive posted again at once.               *)
LEMMA RecvReposted ==
    ASSUME FiniteSetFacts, RecvInv, num_recv \in [Ends -> Nat], NEW p \in Ends,
           NEW id \in Arrived, Owner(id) = Other(p), Arrived' = Arrived \ {id},
           Reposted(p)
    PROVE  RecvInv'
  <1> DEFINE A == ArrivedAt(p)
             D == Depths(stack[p])
             B == ArrivedAt(p)'
             E == Depths(stack'[p])
  <1>1. /\ IsFiniteSet(A) /\ IsFiniteSet(D) /\ num_recv[p] \in Nat
        /\ num_recv[p] + Cardinality(A) + Cardinality(D) = NumBuf
    BY ZenonT(40) DEF RecvInv
  <1>2. num_recv'[p] = num_recv[p] + 1 /\ \A q \in Ends : q # p => num_recv'[q] = num_recv[q]
    BY ZenonT(40) DEF Reposted
  <1>3. B = A \ {id} /\ id \in A /\ \A q \in Ends : q # p => ArrivedAt(q)' = ArrivedAt(q)
    BY ZenonT(40), ArrivedLess
  <1>4. E = D
        /\ \A q \in Ends : q # p => Depths(stack'[q]) = Depths(stack[q])
    BY ZenonT(40) DEF Reposted, SameDepths
  <1> HIDE DEF A, D, B, E
  <1>5. /\ IsFiniteSet(B) /\ Cardinality(B) = Cardinality(A) - 1 /\ Cardinality(A) \in Nat
        /\ Cardinality(D) \in Nat
    BY ZenonT(40), <1>1, <1>3, Members
  <1>6. num_recv'[p] + Cardinality(B) + Cardinality(E) = NumBuf
    BY SMTT(30), <1>1, <1>2, <1>4, <1>5
  <1>7. /\ IsFiniteSet(B) /\ IsFiniteSet(E)
        /\ num_recv'[p] + Cardinality(B) + Cardinality(E) = NumBuf
    BY ZenonT(40), <1>1, <1>4, <1>5, <1>6
  <1> QED
    BY ZenonT(40), <1>2, <1>3, <1>4, <1>7, RecvAt DEF B, E

(* A message is decoded and its receive is owed until the answer was sent.  *)
LEMMA RecvAnswered ==
    ASSUME FiniteSetFacts, RecvInv, num_recv \in [Ends -> Nat], NEW p \in Ends,
           NEW id \in Arrived, Owner(id) = Other(p), Arrived' = Arrived \ {id},
           OneMoreDepth(p), num_recv' = num_recv
    PROVE  RecvInv'
  <1> DEFINE A == ArrivedAt(p)
             D == Depths(stack[p])
             B == ArrivedAt(p)'
             E == Depths(stack'[p])
  <1>1. /\ IsFiniteSet(A) /\ IsFiniteSet(D) /\ num_recv[p] \in Nat
        /\ num_recv[p] + Cardinality(A) + Cardinality(D) = NumBuf
    BY ZenonT(40) DEF RecvInv
  <1>2. num_recv'[p] = num_recv[p] /\ \A q \in Ends : q # p => num_recv'[q] = num_recv[q]
    BY ZenonT(40)
  <1>3. B = A \ {id} /\ id \in A /\ \A q \in Ends : q # p => ArrivedAt(q)' = ArrivedAt(q)
    BY ZenonT(40), ArrivedLess
  <1>4. (\E k : k \notin D /\ E = D \cup {k})
        /\ \A q \in Ends : q # p => Depths(stack'[q]) = Depths(stack[q])
    BY ZenonT(40) DEF OneMoreDepth
  <1> HIDE DEF A, D, B, E
  <1>5. /\ IsFiniteSet(B) /\ Cardinality(B) = Cardinality(A) - 1 /\ Cardinality(A) \in Nat
        /\ Cardinality(D) \in Nat /\ IsFiniteSet(E) /\ Cardinality(E) = Cardinality(D) + 1
    BY ZenonT(40), <1>1, <1>3, <1>4, Members
  <1>6. num_recv'[p] + Cardinality(B) + Cardinality(E) = NumBuf
    BY <1>1, <1>2, <1>5
  <1>7. /\ IsFiniteSet(B) /\ IsFiniteSet(E)
        /\ num_recv'[p] + Cardinality(B) + Cardinality(E) = NumBuf
    BY ZenonT(40), <1>5, <1>6
  <1> QED
    BY ZenonT(40), <1>2, <1>3, <1>4, <1>7, RecvAt DEF B, E

(* A receive that was owed is posted.                                       *)
LEMMA RecvPosted ==
    ASSUME FiniteSetFacts, RecvInv, num_recv \in [Ends -> Nat], NEW p \in Ends,
           Arrived' = Arrived, OneLessDepth(p),
           num_recv' = [num_recv EXCEPT ![p] = @ + 1]
    PROVE  RecvInv'
  <1> DEFINE A == ArrivedAt(p)
             D == Depths(stack[p])
             B == ArrivedAt(p)'
             E == Depths(stack'[p])
  <1>1. /\ IsFiniteSet(A) /\ IsFiniteSet(D) /\ num_recv[p] \in Nat
        /\ num_recv[p] + Cardinality(A) + Cardinality(D) = NumBuf
    BY ZenonT(40) DEF RecvInv
  <1>2. num_recv'[p] = num_recv[p] + 1 /\ \A q \in Ends : q # p => num_recv'[q] = num_recv[q]
    BY ZenonT(40)
  <1>3. B = A /\ \A q \in Ends : q # p => ArrivedAt(q)' = ArrivedAt(q)
    BY ZenonT(40) DEF ArrivedAt
  <1>4. (\E k : k \notin E /\ D = E \cup {k})
        /\ \A q \in Ends : q # p => Depths(stack'[q]) = Depths(stack[q])
    BY ZenonT(40) DEF OneLessDepth
  <1> HIDE DEF A, D, B, E
  <1>5. /\ Cardinality(A) \in Nat /\ Cardinality(D) \in Nat
        /\ IsFiniteSet(E) /\ Cardinality(E) = Cardinality(D) - 1
    <2>1. PICK k : k \notin E /\ D = E \cup {k}
      BY ZenonT(40), <1>4
    <2>2. \A x : x \in D \ {k} <=> x \in E
      BY ZenonT(40), <2>1
    <2>3. D \ {k} = E /\ k \in D
      BY ZenonT(40), <2>1, <2>2
    <2>4. IsFiniteSet(D \ {k}) /\ Cardinality(D \ {k}) = Cardinality(D) - 1
      BY ZenonT(40), <1>1, <2>3, Members
    <2> QED
      BY ZenonT(40), <1>1, <2>3, <2>4, Members
  <1>6. num_recv'[p] + Cardinality(B) + Cardinality(E) = NumBuf
    BY SMTT(30), <1>1, <1>2, <1>3, <1>5
  <1>7. /\ IsFiniteSet(B) /\ IsFiniteSet(E)
        /\ num_recv'[p] + Cardinality(B) + Cardinality(E) = NumBuf
    BY ZenonT(40), <1>1, <1>3, <1>5, <1>6
  <1> QED
    BY ZenonT(40), <1>2, <1>3, <1>4, <1>7, RecvAt DEF B, E

-----------------------------------------------------------------------------
(* The steps.                                                               *)

(* The types of the counters.                                               *)
LEMMA CoreCounters ==
    ASSUME Core
    PROVE  posted \in [Ends -> Int] /\ num_recv \in [Ends -> Nat]
  BY ZenonT(40) DEF Core, Rest

(* A request that does not exist is neither in flight nor lost.             *)
LEMMA UnknownNotFlying ==
    ASSUME Core, NEW x, x \notin Known
    PROVE  x \notin InFlight /\ x \notin lost
  BY ZenonT(40) DEF Core, Places, Apart, InFlight, InWork

(* SendCommand counts the command it adds.                                  *)
LEMMA CommandCounts ==
    ASSUME FiniteSetFacts, Core, Counts, NEW p \in Ends, NEW o \in todo, SendCommand(p, o)
    PROVE  Counts'
  <1> DEFINE id == <<o, "cmd">>
  <1>1. /\ SameDepths /\ Owner(id) = p /\ id \notin Known
        /\ Listed' = Listed \cup {id}
        /\ Unsent' = Unsent /\ Sent' = Sent /\ Acked' = Acked /\ Arrived' = Arrived
    BY ZenonT(40), CommandSets
  <1>2. posted' = [posted EXCEPT ![p] = @ + 1] /\ num_recv' = num_recv /\ lost' = lost
    BY ZenonT(40) DEF SendCommand
  <1> HIDE DEF id
  <1>3. id \notin InFlight
    BY ZenonT(40), <1>1, UnknownNotFlying
  <1>4. \A x : x \in InFlight' <=> x \in InFlight \cup {id}
    BY ZenonT(40), <1>1 DEF InFlight
  <1>5. InFlight' = InFlight \cup {id}
    BY ZenonT(40), <1>4
  <1>6. PostedInv'
    BY ZenonT(40), <1>1, <1>2, <1>3, <1>5, CoreCounters, PostedAdd DEF Counts
  <1>7. RecvInv'
    BY ZenonT(40), <1>1, <1>2, RecvSame DEF Counts
  <1> QED
    BY ZenonT(40), <1>6, <1>7 DEF Counts

(* A step that changes no counter and moves requests within the flight.     *)
LEMMA SameCounts ==
    ASSUME Counts, InFlight' = InFlight, lost' = lost, Arrived' = Arrived, SameDepths,
           posted' = posted, num_recv' = num_recv
    PROVE  Counts'
  BY ZenonT(40), PostedSame, RecvSame DEF Counts

(* A quiet step keeps the counts.                                           *)
LEMMA QuietCounts ==
    ASSUME Counts, Quiet
    PROVE  Counts'
  <1>1. InFlight' = InFlight
    BY ZenonT(40) DEF Quiet, InFlight
  <1> QED
    BY ZenonT(40), <1>1, SameCounts DEF Quiet

(* peer_process_send_list keeps the counts, whether ibv_post_send takes the *)
(* request or not.                                                          *)
LEMMA SendCounts ==
    ASSUME FiniteSetFacts, Core, Counts, NEW p \in Ends, SendHead(p)
    PROVE  Counts'
  <1>1. CASE req_list[p] = << >>
    BY ZenonT(40), <1>1, NothingToSend, QuietCounts
  <1>2. CASE req_list[p] # << >>
    <2> DEFINE id == Head(req_list[p])
    <2>1. id = Head(req_list[p])
      OBVIOUS
    <2> HIDE DEF id
    <2>2. /\ SameDepths /\ id \in Listed /\ Owner(id) = p /\ Listed' = Listed \ {id}
          /\ \/ Unsent' = Unsent \cup {id} /\ lost' = lost
             \/ Unsent' = Unsent /\ lost' = lost \cup {id}
          /\ Sent' = Sent /\ Acked' = Acked /\ Arrived' = Arrived
          /\ posted' = posted /\ num_recv' = num_recv
      BY ZenonT(40), <1>2, <2>1, SendSets
    <2>3. id \in InFlight
      BY ZenonT(40), <2>2 DEF InFlight
    <2>4. id \notin Unsent /\ id \notin Sent /\ id \notin Acked /\ id \notin lost
      BY ZenonT(40), <2>2 DEF Core, Places, Apart, InWork
    <2>5. CASE Unsent' = Unsent \cup {id} /\ lost' = lost
      <3>1. \A x : x \in InFlight' <=> x \in InFlight
        BY ZenonT(40), <2>2, <2>5 DEF InFlight
      <3>2. InFlight' = InFlight
        BY ZenonT(40), <3>1
      <3> QED
        BY ZenonT(40), <2>2, <2>5, <3>2, SameCounts
    <2>6. CASE Unsent' = Unsent /\ lost' = lost \cup {id}
      <3>1. \A x : x \in InFlight' <=> x \in InFlight \ {id}
        BY ZenonT(40), <2>2, <2>4, <2>6 DEF InFlight
      <3>2. InFlight' = InFlight \ {id}
        BY ZenonT(40), <3>1
      <3>3. PostedInv'
        BY ZenonT(40), <2>2, <2>3, <2>4, <2>6, <3>2, CoreCounters, PostedRefused DEF Counts
      <3>4. RecvInv'
        BY ZenonT(40), <2>2, RecvSame DEF Counts
      <3> QED
        BY ZenonT(40), <3>3, <3>4 DEF Counts
    <2> QED
      BY ZenonT(40), <2>2, <2>5, <2>6
  <1> QED
    BY SMTT(30), <1>1, <1>2

(* An acknowledgement keeps the counts.                                     *)
LEMMA AckCounts ==
    ASSUME Core, Counts, NEW p \in Ends, Acknowledge(p)
    PROVE  Counts'
  <1> DEFINE id == Head(sq[p]).id
  <1>1. id = Head(sq[p]).id
    OBVIOUS
  <1> HIDE DEF id
  <1>2. /\ SameDepths /\ id \in Sent /\ Sent' = Sent \ {id} /\ Acked' = Acked \cup {id}
        /\ Unsent' = Unsent /\ Arrived' = Arrived /\ Listed' = Listed /\ lost' = lost
    BY ZenonT(40), <1>1, AckSets
  <1>3. \A x : x \in InFlight' <=> x \in InFlight
    BY ZenonT(40), <1>2 DEF InFlight
  <1>4. InFlight' = InFlight
    BY ZenonT(40), <1>3
  <1>5. posted' = posted /\ num_recv' = num_recv
    BY ZenonT(40) DEF Acknowledge
  <1> QED
    BY ZenonT(40), <1>2, <1>4, <1>5, SameCounts

(* A work request that takes effect keeps the counts: a message takes one   *)
(* receive of the other end.                                                *)
LEMMA TransmitCounts ==
    ASSUME FiniteSetFacts, Core, Counts, NEW p \in Ends, Transmit(p)
    PROVE  Counts'
  <1>1. PICK i \in DOMAIN sq[p] :
          LET id == sq[p][i].id
          IN /\ ~sq[p][i].sent
             /\ sq' = [sq EXCEPT ![p][i].sent = TRUE]
             /\ id[2] = "xfer" => UNCHANGED <<cq, num_recv>>
             /\ id[2] # "xfer" =>
                    /\ num_recv[Other(p)] > 0
                    /\ num_recv' = [num_recv EXCEPT ![Other(p)] = @ - 1]
                    /\ cq' = Complete(cq, Other(p), [recv |-> TRUE, id |-> id])
                    /\ Raise(Other(p))
             /\ UNCHANGED <<todo, req_list, posted, stack, issued, handled, lost>>
    BY ZenonT(40) DEF Transmit
  <1> DEFINE id == sq[p][i].id
  <1>2. id = sq[p][i].id
    OBVIOUS
  <1>3. /\ ~sq[p][i].sent /\ sq' = [sq EXCEPT ![p][i].sent = TRUE]
        /\ UNCHANGED <<todo, req_list, posted, stack, issued, handled, lost>>
    BY ZenonT(40), <1>1
  <1>4. id[2] = "xfer" => cq' = cq /\ num_recv' = num_recv
    BY ZenonT(40), <1>1
  <1>5. id[2] # "xfer" =>
            /\ num_recv[Other(p)] > 0
            /\ num_recv' = [num_recv EXCEPT ![Other(p)] = @ - 1]
            /\ cq' = Complete(cq, Other(p), [recv |-> TRUE, id |-> id])
            /\ Raise(Other(p))
    BY ZenonT(40), <1>1
  <1> HIDE DEF id
  <1>6. /\ SameDepths /\ id \in Unsent /\ Owner(id) = p /\ id \in Ids /\ id \notin Arrived
        /\ Unsent' = Unsent \ {id} /\ Sent' = Sent \cup {id} /\ Listed' = Listed
    BY ZenonT(40), <1>2, <1>3, TransmitSets
  <1>7. ASSUME Acked' = Acked PROVE InFlight' = InFlight
    <2>1. \A x : x \in InFlight' <=> x \in InFlight
      BY ZenonT(40), <1>6, <1>7 DEF InFlight
    <2> QED
      BY ZenonT(40), <2>1
  <1>8. CASE id[2] = "xfer"
    <2>1. Acked' = Acked /\ Arrived' = Arrived
      BY ZenonT(40), <1>4, <1>8, SameCq DEF Core, Queues
    <2> QED
      BY ZenonT(40), <1>3, <1>4, <1>6, <1>7, <1>8, <2>1, SameCounts
  <1>9. CASE id[2] # "xfer"
    <2>1. Acked' = Acked /\ Arrived' = Arrived \cup {id}
      BY ZenonT(40), <1>3, <1>5, <1>6, <1>9, ArriveSets
    <2>2. PostedInv'
      BY ZenonT(40), <1>3, <1>7, <2>1, PostedSame DEF Counts
    <2> DEFINE q == Other(p)
    <2>3. /\ q \in Ends /\ Owner(id) = Other(q)
          /\ num_recv' = [num_recv EXCEPT ![q] = @ - 1]
      BY ZenonT(40), <1>5, <1>6, <1>9, TwoEnds
    <2> HIDE DEF q
    <2>4. RecvInv'
      BY ZenonT(40), <1>6, <2>1, <2>3, CoreCounters, RecvArrive DEF Counts
    <2> QED
      BY ZenonT(40), <2>2, <2>4 DEF Counts
  <1> QED
    BY SMTT(30), <1>8, <1>9

(* Freeing a transfer keeps the counts.                                     *)
LEMMA FinishCounts ==
    ASSUME Core, Counts, NEW p \in Ends, Finish(p)
    PROVE  Counts'
  <1> DEFINE id == Top(p).id
  <1>1. id = Top(p).id
    OBVIOUS
  <1> HIDE DEF id
  <1>2. /\ SameDepths /\ Listed' = Listed /\ Unsent' = Unsent /\ Sent' = Sent
        /\ Acked' = Acked /\ Arrived' = Arrived /\ lost' = lost
    BY ZenonT(40), <1>1, FinishSets
  <1>3. InFlight' = InFlight /\ posted' = posted /\ num_recv' = num_recv
    BY ZenonT(40), <1>2 DEF InFlight, Finish
  <1> QED
    BY ZenonT(40), <1>2, <1>3, SameCounts

(* rpc_cb_req_completion counts the completed request off, and the          *)
(* peer_rdma_done it sends on.                                              *)
LEMMA CompletionCounts ==
    ASSUME FiniteSetFacts, Core, Counts, NEW p \in Ends, rpc_cb_req_completion(p)
    PROVE  Counts'
  <1> DEFINE id == Head(cq[p]).id
  <1>1. id = Head(cq[p]).id
    BY SMTT(30)
  <1> HIDE DEF id
  <1>2. CASE id[2] = "xfer"
    <2> DEFINE dn == <<id[1], "done">>
    <2>1. dn = <<id[1], "done">>
      OBVIOUS
    <2> HIDE DEF dn
    <2>2. /\ SameDepths /\ id \in Acked /\ Owner(id) = p /\ Acked' = Acked \ {id}
          /\ Owner(dn) = p /\ dn \notin Known /\ Listed' = Listed \cup {dn}
          /\ Sent' = Sent /\ Unsent' = Unsent /\ Arrived' = Arrived
          /\ lost' = lost /\ num_recv' = num_recv
          /\ posted' = [posted EXCEPT ![p] = (@ - 1) + 1]
      BY ZenonT(40), <1>1, <1>2, <2>1, ReportSets
    <2>3. id \in InFlight /\ dn \notin InFlight /\ id \notin Listed \cup Unsent \cup Sent
      <3>1. id \in InFlight
        BY ZenonT(40), <2>2 DEF InFlight
      <3>2. dn \notin InFlight
        BY ZenonT(40), <2>2, UnknownNotFlying
      <3>3. id \notin Listed \cup Unsent \cup Sent
        BY ZenonT(40), <2>2 DEF Core, Places, Apart, InWork
      <3> QED
        BY ZenonT(40), <3>1, <3>2, <3>3
    <2>4. \A x : x \in InFlight' <=> x \in (InFlight \ {id}) \cup {dn}
      BY ZenonT(40), <2>2, <2>3 DEF InFlight
    <2>5. InFlight' = (InFlight \ {id}) \cup {dn}
      BY ZenonT(40), <2>4
    <2>6. PostedInv'
      BY ZenonT(40), <2>2, <2>3, <2>5, CoreCounters, PostedSwap DEF Counts
    <2>7. RecvInv'
      BY ZenonT(40), <2>2, RecvSame DEF Counts
    <2> QED
      BY ZenonT(40), <2>6, <2>7 DEF Counts
  <1>3. CASE id[2] # "xfer"
    <2>1. /\ SameDepths /\ id \in Acked /\ Owner(id) = p /\ Acked' = Acked \ {id}
          /\ Listed' = Listed /\ Sent' = Sent /\ Unsent' = Unsent /\ Arrived' = Arrived
          /\ lost' = lost /\ num_recv' = num_recv /\ posted' = [posted EXCEPT ![p] = @ - 1]
      BY ZenonT(40), <1>1, <1>3, CompleteSets
    <2>2. id \in InFlight /\ id \notin Listed \cup Unsent \cup Sent
      <3>1. id \in InFlight
        BY ZenonT(40), <2>1 DEF InFlight
      <3>2. id \notin Listed \cup Unsent \cup Sent
        BY ZenonT(40), <2>1 DEF Core, Places, Apart, InWork
      <3> QED
        BY ZenonT(40), <3>1, <3>2
    <2>3. \A x : x \in InFlight' <=> x \in InFlight \ {id}
      BY ZenonT(40), <2>1, <2>2 DEF InFlight
    <2>4. InFlight' = InFlight \ {id}
      BY ZenonT(40), <2>3
    <2>5. PostedInv'
      BY ZenonT(40), <2>1, <2>2, <2>4, CoreCounters, PostedDrop DEF Counts
    <2>6. RecvInv'
      BY ZenonT(40), <2>1, RecvSame DEF Counts
    <2> QED
      BY ZenonT(40), <2>5, <2>6 DEF Counts
  <1> QED
    BY SMTT(30), <1>2, <1>3

(* A request that is listed or posted is in flight.                         *)
LEMMA MoreFlight ==
    ASSUME NEW x, Sent' = Sent, Acked' = Acked,
           \/ Listed' = Listed \cup {x} /\ Unsent' = Unsent
           \/ Listed' = Listed /\ Unsent' = Unsent \cup {x}
    PROVE  InFlight' = InFlight \cup {x}
  <1>1. \A y : y \in InFlight' <=> y \in InFlight \cup {x}
    BY ZenonT(40) DEF InFlight
  <1> QED
    BY ZenonT(40), <1>1

(* A message that starts nothing gives its receive back.                    *)
LEMMA PlainDecodeCounts ==
    ASSUME FiniteSetFacts, Core, Counts, NEW p \in Ends, NEW id, Received(p, id), Reposted(p),
           Listed' = Listed, Unsent' = Unsent, lost' = lost, posted' = posted
    PROVE  Counts'
  <1>1. InFlight' = InFlight
    BY ZenonT(40) DEF InFlight, Received
  <1>2. PostedInv'
    BY ZenonT(40), <1>1, PostedSame DEF Counts
  <1>3. RecvInv'
    BY ZenonT(40), CoreCounters, RecvReposted DEF Counts, Received
  <1> QED
    BY ZenonT(40), <1>2, <1>3 DEF Counts

(* rpc_cb_decode keeps the counts.                                          *)
LEMMA DecodeCounts ==
    ASSUME FiniteSetFacts, Core, Counts, NEW p \in Ends, rpc_cb_decode(p)
    PROVE  Counts'
  <1> DEFINE id == Head(cq[p]).id
             o == id[1]
  <1>1. id = Head(cq[p]).id /\ o = id[1]
    OBVIOUS
  <1> HIDE DEF id, o
  <1>2. /\ o \in Ops /\ id = <<o, id[2]>> /\ Poll(p, TRUE) /\ todo' = todo
        /\ handled' = [handled EXCEPT ![p] = Append(@, id)]
    BY ZenonT(40), <1>1, DecodeFacts
  <1>3. CASE Repost(p) /\ UNCHANGED <<req_list, posted, stack, sq, issued, lost>>
    <2>1. /\ Received(p, id) /\ Reposted(p)
          /\ Listed' = Listed /\ Unsent' = Unsent /\ lost' = lost /\ posted' = posted
      BY ZenonT(40), <1>1, <1>2, <1>3, PlainDecode
    <2> QED
      BY ZenonT(40), <2>1, PlainDecodeCounts
  <1>4. CASE id = <<o, "cmd">> /\ Transfer(p, <<o, "xfer">>)
    <2> DEFINE x == <<o, "xfer">>
    <2>1. x = <<o, "xfer">>
      OBVIOUS
    <2> HIDE DEF x
    <2>2. Transfer(p, x)
      BY ZenonT(40), <1>4, <2>1
    <2>3. /\ Received(p, id) /\ Reposted(p) /\ x \notin Known /\ Owner(x) = p
          /\ Listed' = Listed /\ posted' = [posted EXCEPT ![p] = @ + 1]
          /\ \/ Unsent' = Unsent \cup {x} /\ lost' = lost
             \/ Unsent' = Unsent /\ lost' = lost \cup {x}
      BY ZenonT(40), <1>1, <1>2, <1>4, <2>1, <2>2, TransferSets
    <2>4. x \notin InFlight /\ x \notin lost
      BY ZenonT(40), <2>3, UnknownNotFlying
    <2>5. Sent' = Sent /\ Acked' = Acked /\ Arrived' = Arrived \ {id} /\ id \in Arrived
          /\ Owner(id) = Other(p)
      BY ZenonT(40), <2>3 DEF Received
    <2>6. RecvInv'
      BY ZenonT(40), <2>3, <2>5, CoreCounters, RecvReposted DEF Counts
    <2>7. CASE Unsent' = Unsent \cup {x} /\ lost' = lost
      <3>1. InFlight' = InFlight \cup {x}
        BY ZenonT(40), <2>3, <2>5, <2>7, MoreFlight
      <3> QED
        BY ZenonT(40), <2>3, <2>4, <2>6, <2>7, <3>1, CoreCounters, PostedAdd DEF Counts
    <2>8. CASE Unsent' = Unsent /\ lost' = lost \cup {x}
      <3>1. InFlight' = InFlight
        BY ZenonT(40), <2>3, <2>5, <2>8 DEF InFlight
      <3> QED
        BY ZenonT(40), <2>3, <2>4, <2>6, <2>8, <3>1, CoreCounters, PostedLose DEF Counts
    <2> QED
      BY ZenonT(40), <2>3, <2>7, <2>8
  <1>5. CASE id = <<o, "cmd">> /\ Answer(p, <<o, "reply">>)
    <2> DEFINE x == <<o, "reply">>
    <2>1. x = <<o, "reply">>
      OBVIOUS
    <2> HIDE DEF x
    <2>2. Answer(p, x)
      BY ZenonT(40), <1>5, <2>1
    <2>3. /\ Received(p, id) /\ OneMoreDepth(p) /\ num_recv' = num_recv
          /\ x \notin Known /\ Owner(x) = p
          /\ Listed' = Listed \cup {x} /\ posted' = [posted EXCEPT ![p] = @ + 1]
          /\ Unsent' = Unsent /\ lost' = lost
      BY ZenonT(40), <1>1, <1>2, <1>5, <2>1, <2>2, AnswerSets
    <2>4. x \notin InFlight
      BY ZenonT(40), <2>3, UnknownNotFlying
    <2>5. Sent' = Sent /\ Acked' = Acked /\ Arrived' = Arrived \ {id} /\ id \in Arrived
          /\ Owner(id) = Other(p)
      BY ZenonT(40), <2>3 DEF Received
    <2>6. RecvInv'
      BY ZenonT(40), <2>3, <2>5, CoreCounters, RecvAnswered DEF Counts
    <2>7. InFlight' = InFlight \cup {x}
      BY ZenonT(40), <2>3, <2>5, MoreFlight
    <2> QED
      BY ZenonT(40), <2>3, <2>4, <2>6, <2>7, CoreCounters, PostedAdd DEF Counts
  <1>6. \/ id[2] = "done" /\ rpc_cb_cleanup(p, <<o, "cmd">>)
        \/ id[2] = "cmd" /\ Kind[o] \in {"push", "pull"} /\ Transfer(p, <<o, "xfer">>)
        \/ id[2] = "cmd" /\ Kind[o] = "ask" /\ Answer(p, <<o, "reply">>)
        \/ /\ id[2] = "reply" \/ id[2] = "cmd"
           /\ Repost(p) /\ UNCHANGED <<req, req_list, posted, stack, sq, issued, lost>>
    BY ZenonT(40), <1>1, DecodeCases
  <1>7. \A r : id[2] = r => id = <<o, r>>
    BY ZenonT(40), <1>2
  <1>8. rpc_cb_cleanup(p, <<o, "cmd">>) =>
            Repost(p) /\ UNCHANGED <<req_list, posted, stack, sq, issued, lost>>
    BY ZenonT(40) DEF rpc_cb_cleanup
  <1> QED
    BY ZenonT(40), <1>3, <1>4, <1>5, <1>6, <1>7, <1>8

(* Posting a receive again keeps the counts.                                *)
LEMMA RepostCounts ==
    ASSUME FiniteSetFacts, Core, Counts, NEW p \in Ends, PostRecv(p)
    PROVE  Counts'
  <1>1. /\ OneLessDepth(p)
        /\ Listed' = Listed /\ Unsent' = Unsent /\ Sent' = Sent /\ Acked' = Acked
        /\ Arrived' = Arrived /\ lost' = lost /\ posted' = posted
        /\ num_recv' = [num_recv EXCEPT ![p] = @ + 1]
    BY ZenonT(40), RepostSets
  <1>2. InFlight' = InFlight
    BY ZenonT(40), <1>1 DEF InFlight
  <1>3. PostedInv'
    BY ZenonT(40), <1>1, <1>2, PostedSame DEF Counts
  <1>4. RecvInv'
    BY ZenonT(40), <1>1, CoreCounters, RecvPosted DEF Counts
  <1> QED
    BY ZenonT(40), <1>3, <1>4 DEF Counts

(* Every step keeps the counts.                                             *)
LEMMA CountsStep ==
    ASSUME FiniteSetFacts, Core, Counts, [Next]_vars
    PROVE  Counts'
  <1>1. CASE UNCHANGED vars
    <2>1. /\ UNCHANGED <<todo, req, req_list, posted, num_recv, sq, cq, issued, handled, lost>>
          /\ stack' = stack /\ armed' \in [Ends -> BOOLEAN] /\ event' \in [Ends -> BOOLEAN]
      BY ZenonT(40), <1>1 DEF vars, device, Core, Rest
    <2>2. StackOK' /\ Ending' = Ending /\ SameDepths
      BY ZenonT(40), <2>1, SameStack DEF Core, Queues
    <2> QED
      BY ZenonT(40), <2>1, <2>2, QuietStep, QuietCounts
  <1>2. CASE Next
    <2>1. PICK p \in Ends : \/ \E o \in todo : rpc_send(p, o) \/ rpc_receive(p, o)
                            \/ Working(p)
                            \/ Transmit(p)
                            \/ Acknowledge(p)
      BY ZenonT(40), <1>2 DEF Next
    <2>2. CASE \E o \in todo : rpc_send(p, o) \/ rpc_receive(p, o)
      BY ZenonT(40), <2>2, CommandCounts DEF rpc_send, rpc_receive
    <2>3. CASE Working(p)
      BY ZenonT(40), <2>3, RoundQuiet, EventQuiet, NothingQuiet, QuietCounts, SendCounts,
         CompletionCounts, FinishCounts, DecodeCounts, RepostCounts DEF Working
    <2> QED
      BY ZenonT(40), <2>1, <2>2, <2>3, TransmitCounts, AckCounts
  <1> QED
    BY SMTT(30), <1>1, <1>2

-----------------------------------------------------------------------------
(* The properties.                                                          *)

(* The counts are right at the start.                                       *)
LEMMA InitCounts ==
    ASSUME FiniteSetFacts, Init
    PROVE  Counts
  <1>1. \A i : i \notin DOMAIN << >>
    OBVIOUS
  <1>2. \A p \in Ends : /\ req_list[p] = << >> /\ stack[p] = << >> /\ sq[p] = << >>
                        /\ cq[p] = << >> /\ posted[p] = 0 /\ num_recv[p] = NumBuf
    BY ZenonT(40) DEF Init
  <1>3. \A x : /\ x \notin Range(<< >>) /\ x \notin UnsentIn(<< >>) /\ x \notin SentIn(<< >>)
               /\ x \notin AckedIn(<< >>) /\ x \notin ArrivedIn(<< >>) /\ x \notin Depths(<< >>)
    BY ZenonT(40), <1>1 DEF Range, UnsentIn, SentIn, AckedIn, ArrivedIn, Depths
  <1>4. \A x : x \notin InFlight /\ x \notin lost /\ x \notin Arrived
    BY ZenonT(40), <1>2, <1>3 DEF Init, InFlight, Listed, Unsent, Sent, Acked, Arrived
  <1>5. ASSUME NEW p \in Ends
        PROVE  FlightOf(p) = {} /\ LostOf(p) = {} /\ ArrivedAt(p) = {} /\ Depths(stack[p]) = {}
    <2>1. \A x : /\ x \notin FlightOf(p) /\ x \notin LostOf(p) /\ x \notin ArrivedAt(p)
                 /\ x \notin Depths(stack[p])
      BY ZenonT(40), <1>2, <1>3, <1>4 DEF FlightOf, LostOf, ArrivedAt
    <2> QED
      BY ZenonT(40), <2>1
  <1>6. IsFiniteSet({}) /\ Cardinality({}) = 0
    BY ZenonT(40) DEF FiniteSetFacts
  <1>7. 0 = 0 + 0 /\ NumBuf + 0 + 0 = NumBuf
    BY SMTT(30), IbRpcAssumption
  <1>8. PostedInv
    BY ZenonT(40), <1>2, <1>5, <1>6, <1>7 DEF PostedInv
  <1>9. RecvInv
    BY ZenonT(40), <1>2, <1>5, <1>6, <1>7 DEF RecvInv
  <1> QED
    BY ZenonT(40), <1>8, <1>9 DEF Counts

(* The requests in flight are those in the list, the send queue or the      *)
(* completion queue.                                                        *)
LEMMA FlightIs ==
    ASSUME Core, NEW p \in Ends
    PROVE  Queued(p) \cup Outstanding(p) = FlightOf(p)
  <1>1. \A x : x \in Queued(p) \cup Outstanding(p) <=> x \in FlightOf(p)
    BY ZenonT(40), QueuedAre, OutstandingAre DEF FlightOf, InFlight
  <1> QED
    BY ZenonT(40), <1>1

(* req_posted counts what it should.                                        *)
LEMMA PostedRight ==
    ASSUME Core, Counts
    PROVE  PostedCounts
  <1>1. ASSUME NEW p \in Ends
        PROVE  posted[p] = Cardinality(Queued(p) \cup Outstanding(p))
                           + Cardinality({id \in lost : Owner(id) = p})
    <2>1. posted[p] = Cardinality(FlightOf(p)) + Cardinality(LostOf(p))
      BY ZenonT(40) DEF Counts, PostedInv
    <2> QED
      BY ZenonT(40), <2>1, FlightIs DEF LostOf
  <1> QED
    BY ZenonT(40), <1>1 DEF PostedCounts

(* While a transfer is under way, or its peer_rdma_done, the command is     *)
(* allocated and its data are registered.                                   *)
LEMMA CommandHeld ==
    ASSUME Core, NEW o \in Ops, <<o, "xfer">> \in Known, <<o, "done">> \notin Decoded
    PROVE  Live(<<o, "cmd">>) /\ req[<<o, "cmd">>].data_mr
  <1> DEFINE cm == <<o, "cmd">>
  <1>1. cm \in Decoded /\ Kind[o] \in {"push", "pull"}
    BY ZenonT(40) DEF Core, Places, Stages, StageOf
  <1>2. cm[1] = o /\ cm[2] = "cmd"
    OBVIOUS
  <1>3. cm \in Known /\ cm \notin Listed
    BY ZenonT(40), <1>1 DEF Core, Places, Apart
  <1> HIDE DEF cm
  <1>4. NeedsData(cm)
    BY ZenonT(40), <1>1, <1>2 DEF NeedsData, HasData
  <1>5. CountOf(cm)
    BY ZenonT(40), <1>3 DEF Core, Places, Counted
  <1>6. req[cm].live /\ req[cm].data_mr /\ req[cm] # None
    BY ZenonT(40), <1>3, <1>4, <1>5 DEF CountOf, Known
  <1> QED
    BY ZenonT(40), <1>6 DEF Live, cm

(* A request that a list, a queue or a call holds is allocated.             *)
LEMMA HeldMembers ==
    ASSUME Core, NEW x, x \in Listed \/ x \in Unsent \/ x \in Sent \/ x \in Acked \/ x \in Ending
    PROVE  Live(x)
  <1>1. x \in Known
    BY ZenonT(40) DEF Core, Places, Apart, InWork
  <1>2. CountOf(x)
    BY ZenonT(40), <1>1 DEF Core, Places, Counted
  <1> QED
    BY ZenonT(40), <1>1, <1>2 DEF CountOf, Live, Known, InWork

(* No request is freed while a list, a queue or a call of either end refers *)
(* to it.                                                                   *)
LEMMA HeldRight ==
    ASSUME Core
    PROVE  MemoryHeld
  <1>1. ASSUME NEW p \in Ends, NEW id \in Queued(p) \cup Outstanding(p) \cup Finishing(p)
        PROVE  Live(id)
    BY ZenonT(40), <1>1, QueuedAre, OutstandingAre, FinishingAre, HeldMembers
  <1>2. ASSUME NEW p \in Ends, NEW w \in Range(sq[p]), w.id[2] = "xfer", ~w.sent
        PROVE  Live(Cmd(w.id)) /\ req[Cmd(w.id)].data_mr
    <2>1. sq[p] \in Seq(Works) /\ cq[p] \in Seq(Completions)
      BY ZenonT(40) DEF Core, Queues, WorkOK, CqOK
    <2>2. PICK i \in DOMAIN sq[p] : w = sq[p][i]
      BY ZenonT(40) DEF Range
    <2> DEFINE x == w.id
               o == x[1]
    <2>3. x \in Ids /\ x \in UnsentIn(sq[p])
      BY ZenonT(40), <1>2, <2>1, <2>2, EntryIds DEF UnsentIn
    <2>4. x \in Unsent
      BY ZenonT(40), <2>3 DEF Unsent
    <2>5. x[2] = "xfer" /\ Cmd(x) = <<o, "cmd">>
      BY ZenonT(40), <1>2 DEF Cmd
    <2> HIDE DEF x
    <2>6. o \in Ops /\ x = <<o, "xfer">>
      BY ZenonT(40), <2>3, <2>5, IdParts
    <2> HIDE DEF o
    <2>7. <<o, "xfer">> \in Known /\ <<o, "xfer">> \in InWork
      BY ZenonT(40), <2>4, <2>6 DEF InWork, Core, Places, Apart
    <2>8. <<o, "done">> \notin Known
      BY ZenonT(40), <2>6, <2>7 DEF Core, Places, Stages, StageOf
    <2>9. <<o, "done">> \notin Decoded
      BY ZenonT(40), <2>8 DEF Core, Places, Apart
    <2>10. Live(<<o, "cmd">>) /\ req[<<o, "cmd">>].data_mr
      BY ZenonT(40), <2>6, <2>7, <2>9, CommandHeld
    <2> QED
      BY ZenonT(40), <2>5, <2>10 DEF x
  <1>3. ASSUME NEW p \in Ends, NEW id \in Arriving(p), id[2] = "done"
        PROVE  Live(Cmd(id))
    <2> DEFINE o == id[1]
    <2>1. id \in Arrived \/ id \in Unsent
      BY ZenonT(40), ArrivingAre
    <2>2. id \in Known /\ id \notin Decoded /\ id \in Ids
      BY ZenonT(40), <2>1 DEF InWork, Core, Places, Apart, Known
    <2>3. o \in Ops /\ id = <<o, "done">> /\ Cmd(id) = <<o, "cmd">>
      BY ZenonT(40), <1>3, <2>2, IdParts DEF Cmd
    <2> HIDE DEF o
    <2>4. <<o, "xfer">> \in Known
      BY ZenonT(40), <2>2, <2>3 DEF Core, Places, Stages, StageOf
    <2>5. <<o, "done">> \notin Decoded
      BY ZenonT(40), <2>2, <2>3
    <2>6. Live(<<o, "cmd">>)
      BY ZenonT(40), <2>3, <2>4, <2>5, CommandHeld
    <2> QED
      BY ZenonT(40), <2>3, <2>6
  <1> QED
    BY ZenonT(40), <1>1, <1>2, <1>3 DEF MemoryHeld

(* refcont is the number of references, and a request is freed once.        *)
LEMMA ReferencesRight ==
    ASSUME Core
    PROVE  References
  <1> SUFFICES ASSUME NEW p \in Ends, NEW id \in Ids, Owner(id) = p, req[id] # None,
                      id \notin Queued(p)
               PROVE  LET work == id \in Outstanding(p) \cup lost
                          data == HasData(id) /\ <<id[1], "done">> \notin Range(handled[p])
                      IN /\ req[id].refcont = (IF work THEN 1 ELSE 0) + (IF data THEN 1 ELSE 0)
                         /\ req[id].live <=> work \/ data \/ id \in Finishing(p)
                         /\ req[id].cbs = 1 <=> ~req[id].live
    BY ZenonT(40) DEF References
  <1> DEFINE work == id \in Outstanding(p) \cup lost
             data == HasData(id) /\ <<id[1], "done">> \notin Range(handled[p])
  <1>1. id \in Known /\ id \notin Listed
    BY ZenonT(40), QueuedAre DEF Known
  <1>2. work <=> id \in InWork
    BY ZenonT(40), OutstandingAre DEF InWork
  <1>3. data <=> NeedsData(id)
    <2>1. CASE HasData(id)
      <3> DEFINE o == id[1]
      <3>1. o \in Ops /\ id[2] = "cmd"
        BY ZenonT(40), <2>1, IdParts DEF HasData
      <3>2. Owner(id) = By[o]
        BY ZenonT(40), <3>1 DEF Owner
      <3>3. o = id[1]
        OBVIOUS
      <3> HIDE DEF o
      <3>4. Owner(<<o, "done">>) = Other(p)
        BY ZenonT(40), <3>1, <3>2, OwnerOf
      <3>5. <<o, "done">> \in Range(handled[p]) <=> <<o, "done">> \in Decoded
        BY ZenonT(40), <3>4, HandledAre
      <3> QED
        BY ZenonT(40), <3>3, <3>5 DEF NeedsData
    <2>2. CASE ~HasData(id)
      BY ZenonT(40), <2>2 DEF NeedsData
    <2> QED
      BY SMTT(30), <2>1, <2>2
  <1>4. id \in Finishing(p) <=> id \in Ending
    BY ZenonT(40), FinishingAre
  <1>5. CountOf(id)
    BY ZenonT(40), <1>1 DEF Core, Places, Counted
  <1> HIDE DEF work, data
  <1>6. req[id].refcont = (IF work THEN 1 ELSE 0) + (IF data THEN 1 ELSE 0)
    BY ZenonT(40), <1>1, <1>2, <1>3, <1>5 DEF CountOf
  <1>7. req[id].live <=> work \/ data \/ id \in Finishing(p)
    BY ZenonT(40), <1>1, <1>2, <1>3, <1>4, <1>5 DEF CountOf
  <1>8. req[id].cbs = IF req[id].live THEN 0 ELSE 1
    BY ZenonT(40), <1>1, <1>5 DEF CountOf
  <1>9. req[id].cbs = 1 <=> ~req[id].live
    <2>1. CASE req[id].live
      BY SMTT(30), <1>8, <2>1
    <2>2. CASE ~req[id].live
      BY SMTT(30), <1>8, <2>2
    <2> QED
      BY SMTT(30), <2>1, <2>2
  <1> QED
    BY ZenonT(40), <1>6, <1>7, <1>9 DEF work, data

(* The data of a transfer that took effect are in the buffer they were      *)
(* meant for.                                                               *)
LEMMA FilledRight ==
    ASSUME Core
    PROVE  DataInPlace
  <1> SUFFICES ASSUME NEW o \in Ops, NEW role \in {"cmd", "xfer"},
                      req[<<o, role>>] # None, req[<<o, role>>].cbs = 1,
                      Kind[o] = (IF role = "cmd" THEN "pull" ELSE "push")
               PROVE  req[<<o, role>>].full
    BY ZenonT(40) DEF DataInPlace
  <1> DEFINE id == <<o, role>>
  <1>1. id \in Ids /\ id[1] = o /\ id[2] = role
    BY ZenonT(40), OpIds DEF Roles
  <1>2. id \in Known
    BY ZenonT(40), <1>1 DEF Known
  <1>3. id = <<o, role>> /\ req[id].cbs = 1 /\ 0 # 1
    OBVIOUS
  <1> HIDE DEF id
  <1>4. CountOf(id)
    BY ZenonT(40), <1>2 DEF Core, Places, Counted
  <1>5. id \notin Listed /\ ~req[id].live
    BY ZenonT(40), <1>2, <1>3, <1>4 DEF CountOf
  <1>6. id \notin InWork /\ ~NeedsData(id)
    BY ZenonT(40), <1>4, <1>5 DEF CountOf
  <1>7. FillOf(o) /\ StageOf(o)
    BY ZenonT(40) DEF Core, Places, Filled, Stages
  <1>8. CASE role = "xfer"
    <2>1. <<o, "xfer">> \in Known \ (Unsent \cup lost) /\ Kind[o] = "push"
      BY ZenonT(40), <1>2, <1>3, <1>6, <1>8 DEF InWork
    <2> QED
      BY ZenonT(40), <1>7, <1>8, <2>1 DEF FillOf
  <1>9. CASE role = "cmd"
    <2>1. Kind[o] = "pull" /\ Kind[o] # "push"
      BY SMTT(30), <1>9
    <2>2. HasData(id)
      BY ZenonT(40), <1>1, <1>9, <2>1 DEF HasData
    <2>3. <<o, "done">> \in Decoded
      BY ZenonT(40), <1>1, <1>6, <2>2 DEF NeedsData
    <2>4. <<o, "xfer">> \in Known \ InWork
      BY ZenonT(40), <1>7, <2>3 DEF StageOf, Core, Places, Apart
    <2>5. <<o, "xfer">> \in Known \ (Unsent \cup lost)
      BY ZenonT(40), <2>4 DEF InWork
    <2> QED
      BY ZenonT(40), <1>7, <1>9, <2>1, <2>5 DEF FillOf
  <1> QED
    BY SMTT(30), <1>8, <1>9

(* The type invariant of the model.                                         *)
LEMMA TypesRight ==
    ASSUME FiniteSetFacts, Core, Counts
    PROVE  TypeOK
  <1>1. ASSUME NEW id \in Ids, req[id] # None
        PROVE  req[id] \in [refcont : 0 .. 2, data_mr : BOOLEAN, full : BOOLEAN,
                            cbs : 0 .. 1, live : BOOLEAN]
    <2>1. req[id] \in Requests
      BY ZenonT(40), <1>1 DEF Core
    <2>2. CountOf(id)
      BY ZenonT(40), <1>1 DEF Core, Places, Counted, Known
    <2>3. req[id].refcont \in 0 .. 2
      <3>1. CASE id \in Listed
        BY SMTT(30), <2>2, <3>1 DEF CountOf
      <3>2. CASE id \notin Listed
        <4>1. req[id].refcont = (IF id \in InWork THEN 1 ELSE 0)
                                + (IF NeedsData(id) THEN 1 ELSE 0)
          BY ZenonT(40), <2>2, <3>2 DEF CountOf
        <4> QED
          BY SMTT(30), <4>1
      <3> QED
        BY SMTT(30), <3>1, <3>2
    <2>4. req[id].cbs \in 0 .. 1
      <3>1. req[id].cbs = 0 \/ req[id].cbs = IF req[id].live THEN 0 ELSE 1
        BY ZenonT(40), <2>2 DEF CountOf
      <3> QED
        BY SMTT(30), <3>1
    <2> QED
      BY SMTT(30), <2>1, <2>3, <2>4 DEF Requests
  <1>2. posted \in [Ends -> Nat]
    <2>1. ASSUME NEW p \in Ends PROVE posted[p] \in Nat
      <3>1. posted[p] = Cardinality(FlightOf(p)) + Cardinality(LostOf(p))
        BY ZenonT(40) DEF Counts, PostedInv
      <3>2. Cardinality(FlightOf(p)) \in Nat /\ Cardinality(LostOf(p)) \in Nat
        BY ZenonT(40), Members DEF Counts, PostedInv
      <3> QED
        BY SMTT(30), <3>1, <3>2
    <2>2. posted \in [Ends -> Int]
      BY ZenonT(40), CoreCounters
    <2> QED
      BY SMTT(30), <2>1, <2>2
  <1>3. num_recv \in [Ends -> 0 .. NumBuf]
    <2>1. ASSUME NEW p \in Ends PROVE num_recv[p] \in 0 .. NumBuf
      <3>1. num_recv[p] + Cardinality(ArrivedAt(p)) + Cardinality(Depths(stack[p])) = NumBuf
        BY ZenonT(40) DEF Counts, RecvInv
      <3>2. Cardinality(ArrivedAt(p)) \in Nat /\ Cardinality(Depths(stack[p])) \in Nat
        BY ZenonT(40), Members DEF Counts, RecvInv
      <3>3. num_recv[p] \in Nat
        BY ZenonT(40), CoreCounters
      <3> QED
        BY SMTT(30), <3>1, <3>2, <3>3, IbRpcAssumption
    <2>2. num_recv \in [Ends -> Nat]
      BY ZenonT(40), CoreCounters
    <2> QED
      BY SMTT(30), <2>1, <2>2
  <1>4. /\ armed \in [Ends -> BOOLEAN] /\ event \in [Ends -> BOOLEAN] /\ lost \subseteq Ids
    BY ZenonT(40) DEF Core, Rest
  <1>5. ASSUME NEW p \in Ends, NEW id \in Queued(p) \cup Outstanding(p) PROVE Owner(id) = p
    BY ZenonT(40), <1>5, QueuedAre, OutstandingAre
  <1>6. ASSUME NEW p \in Ends, NEW f \in Range(stack[p])
        PROVE  f.at \in {"wait", "poll", "finish", "repost"}
    <2>1. stack[p] \in Seq(Frames)
      BY ZenonT(40) DEF Core, Queues, StackOK
    <2>2. f \in Frames
      BY ZenonT(40), <2>1, SeqRange
    <2> QED
      BY SMTT(30), <2>2 DEF Frames
  <1> QED
    BY ZenonT(40), <1>1, <1>2, <1>3, <1>4, <1>5, <1>6 DEF TypeOK

(* The invariant holds at the start, every step keeps it, and it implies    *)
(* the properties.                                                          *)
LEMMA MemoryStep ==
    ASSUME FiniteSetFacts
    PROVE  /\ Init => Core /\ Counts
           /\ Core /\ Counts /\ [Next]_vars => (Core /\ Counts)'
           /\ Core /\ Counts => MemoryRight /\ DataInPlace
  BY ZenonT(40), InitCore, InitCounts, CoreStep, CountsStep, TypesRight, HeldRight,
     ReferencesRight, PostedRight, FilledRight DEF MemoryRight

-----------------------------------------------------------------------------
(* Wake-ups: the event channel of an end and the polling of its completion  *)
(* queue.                                                                   *)

(* rpc_process is polling, on top of the stack or below a call it made.     *)
PollIn(s) == \E i \in DOMAIN s : s[i].at = "poll"

(* An end has asked for an event unless one is waiting for it, and a        *)
(* completion that nobody polls has raised one.                             *)
WakeOf(p) ==
    /\ armed[p] <=> ~event[p]
    /\ cq[p] # << >> => event[p] \/ PollIn(stack[p])

(* No end sleeps on a completion.                                           *)
Wakeup == \A p \in Ends : WakeOf(p)

(* Calls put together.                                                      *)
LEMMA PollJoin ==
    ASSUME NEW a \in Seq(Frames), NEW b \in Seq(Frames), PollIn(a) \/ PollIn(b)
    PROVE  PollIn(a \o b)
  <1> DEFINE c == a \o b
  <1>1. /\ \A i \in DOMAIN a : i \in DOMAIN c /\ c[i] = a[i]
        /\ \A i \in DOMAIN b : Len(a) + i \in DOMAIN c /\ c[Len(a) + i] = b[i]
    OBVIOUS
  <1> HIDE DEF c
  <1>2. PollIn(c)
    BY ZenonT(40), <1>1 DEF PollIn
  <1> QED
    BY ZenonT(40), <1>2 DEF c

(* A call that returns leaves rpc_process polling unless it is rpc_process. *)
LEMMA PollLeft ==
    ASSUME NEW s \in Seq(Frames), s # << >>
    PROVE  /\ Tail(s) \in Seq(Frames)
           /\ Head(s).at # "poll" /\ PollIn(s) => PollIn(Tail(s))
           /\ Head(s).at = "poll" => PollIn(s)
  <1> DEFINE t == Tail(s)
  <1>1. /\ 1 \in DOMAIN s /\ Head(s) = s[1] /\ t \in Seq(Frames)
        /\ \A i \in DOMAIN s : i # 1 => i - 1 \in DOMAIN t /\ t[i - 1] = s[i]
    BY SMTT(30), TailAt
  <1> HIDE DEF t
  <1>2. /\ s[1].at # "poll" /\ PollIn(s) => PollIn(t)
        /\ s[1].at = "poll" => PollIn(s)
    BY ZenonT(40), <1>1 DEF PollIn
  <1>3. Head(s).at = s[1].at
    BY ZenonT(40), <1>1
  <1>4. t = Tail(s)
    BY DEF t
  <1> QED
    BY ZenonT(40), <1>1, <1>2, <1>3, <1>4

(* One or two calls are a stack.                                            *)
LEMMA FrameSeqs ==
    /\ \A f \in Frames : <<f>> \in Seq(Frames)
    /\ \A f, g \in Frames : <<f, g>> \in Seq(Frames)
    /\ << >> \in Seq(Frames)
  OBVIOUS

(* rpc_process stays on the stack while anything but its own return         *)
(* happens.                                                                 *)
KeepsPoll == \A q \in Ends : PollIn(stack[q]) => PollIn(stack'[q])

(* A call is made.                                                          *)
LEMMA PushKeeps ==
    ASSUME StackOK, NEW p \in Ends, NEW fs \in Seq(Frames), Push(p, fs)
    PROVE  KeepsPoll /\ (PollIn(fs) => PollIn(stack'[p]))
  <1> DEFINE s == stack[p]
             t == fs \o s
  <1>1. s \in Seq(Frames) /\ stack' = [stack EXCEPT ![p] = t] /\ stack \in [Ends -> Seq(Frames)]
    BY ZenonT(40) DEF StackOK, Push
  <1>2. PollIn(fs) \/ PollIn(s) => PollIn(t)
    BY ZenonT(40), <1>1, PollJoin
  <1> HIDE DEF t
  <1>3. stack'[p] = t /\ \A q \in Ends : q # p => stack'[q] = stack[q]
    BY ZenonT(40), <1>1
  <1> QED
    BY ZenonT(40), <1>2, <1>3 DEF KeepsPoll

(* A call goes on in another form.                                          *)
LEMMA ReplaceKeeps ==
    ASSUME StackOK, NEW p \in Ends, NEW fs \in Seq(Frames), Replace(p, fs), stack[p] # << >>,
           Head(stack[p]).at # "poll"
    PROVE  KeepsPoll /\ (PollIn(fs) => PollIn(stack'[p]))
  <1> DEFINE s == stack[p]
             u == Tail(s)
             t == fs \o u
  <1>1. s \in Seq(Frames) /\ stack' = [stack EXCEPT ![p] = t] /\ stack \in [Ends -> Seq(Frames)]
    BY ZenonT(40) DEF StackOK, Replace
  <1>2. u \in Seq(Frames) /\ (PollIn(s) => PollIn(u))
    BY ZenonT(40), <1>1, PollLeft
  <1> HIDE DEF u
  <1>3. PollIn(fs) \/ PollIn(u) => PollIn(t)
    BY ZenonT(40), <1>2, PollJoin
  <1> HIDE DEF t
  <1>4. stack'[p] = t /\ \A q \in Ends : q # p => stack'[q] = stack[q]
    BY ZenonT(40), <1>1
  <1> QED
    BY ZenonT(40), <1>2, <1>3, <1>4 DEF KeepsPoll

(* A call other than rpc_process returns.                                   *)
LEMMA PopKeeps ==
    ASSUME StackOK, NEW p \in Ends, Pop(p), stack[p] # << >>, Head(stack[p]).at # "poll"
    PROVE  KeepsPoll
  <1> DEFINE s == stack[p]
             u == Tail(s)
  <1>1. s \in Seq(Frames) /\ stack' = [stack EXCEPT ![p] = u] /\ stack \in [Ends -> Seq(Frames)]
    BY ZenonT(40) DEF StackOK, Pop
  <1>2. PollIn(s) => PollIn(u)
    BY ZenonT(40), <1>1, PollLeft
  <1> HIDE DEF u
  <1>3. stack'[p] = u /\ \A q \in Ends : q # p => stack'[q] = stack[q]
    BY ZenonT(40), <1>1
  <1> QED
    BY ZenonT(40), <1>2, <1>3 DEF KeepsPoll

(* No call is made and none returns.                                        *)
LEMMA SameKeeps ==
    ASSUME stack' = stack
    PROVE  KeepsPoll
  BY ZenonT(40) DEF KeepsPoll

-----------------------------------------------------------------------------
(* The steps keep a completion from being forgotten.                        *)

(* An end whose queue gets nothing new is not forgotten.                    *)
LEMMA WakeStays ==
    ASSUME NEW q \in Ends, WakeOf(q), armed'[q] = armed[q], event'[q] = event[q],
           cq'[q] # << >> => cq[q] # << >>, PollIn(stack[q]) => PollIn(stack'[q])
    PROVE  WakeOf(q)'
  BY ZenonT(40) DEF WakeOf

(* Nothing new in the completion queues, and no event taken.                *)
LEMMA NothingNew ==
    ASSUME Wakeup, KeepsPoll, UNCHANGED <<cq, armed, event>>
    PROVE  Wakeup'
  BY ZenonT(40), WakeStays DEF Wakeup, KeepsPoll

(* A new completion raises an event if one was asked for.                   *)
LEMMA RaiseWakes ==
    ASSUME Core, Wakeup, NEW p \in Ends, NEW c, cq' = Complete(cq, p, c), Raise(p), stack' = stack
    PROVE  Wakeup'
  <1>1. /\ armed \in [Ends -> BOOLEAN] /\ event \in [Ends -> BOOLEAN]
        /\ cq \in [Ends -> Seq(Completions)]
    BY ZenonT(40) DEF Core, Rest, Queues, CqOK
  <1>2. event' = [event EXCEPT ![p] = event[p] \/ armed[p]] /\ armed' = [armed EXCEPT ![p] = FALSE]
    BY ZenonT(40) DEF Raise
  <1>3. event'[p] /\ ~armed'[p]
    BY ZenonT(40), <1>1, <1>2 DEF Wakeup, WakeOf
  <1>4. \A q \in Ends : q # p => cq'[q] = cq[q] /\ armed'[q] = armed[q] /\ event'[q] = event[q]
    BY ZenonT(40), <1>1, <1>2 DEF Complete
  <1>5. WakeOf(p)'
    BY ZenonT(40), <1>3 DEF WakeOf
  <1>6. ASSUME NEW q \in Ends, q # p PROVE WakeOf(q)'
    BY ZenonT(40), <1>4, <1>6, WakeStays DEF Wakeup
  <1> QED
    BY ZenonT(40), <1>5, <1>6 DEF Wakeup

(* One completion fewer, and rpc_process polls again.                       *)
LEMMA PollWakes ==
    ASSUME Core, Wakeup, NEW p \in Ends, NEW recv, Poll(p, recv), KeepsPoll
    PROVE  Wakeup'
  <1>1. /\ cq \in [Ends -> Seq(Completions)] /\ stack \in [Ends -> Seq(Frames)] /\ StackOK
    BY ZenonT(40) DEF Core, Queues, CqOK, StackOK
  <1>2. Top(p).at = "poll" /\ cq' = [cq EXCEPT ![p] = Tail(@)] /\ UNCHANGED <<armed, event>>
    BY ZenonT(40) DEF Poll
  <1>3. stack[p] # << >> /\ Head(stack[p]).at = "poll" /\ stack[p] \in Seq(Frames)
    BY ZenonT(40), <1>1, <1>2, TopFrame
  <1>4. PollIn(stack[p])
    BY ZenonT(40), <1>3, PollLeft
  <1>5. WakeOf(p)'
    BY ZenonT(40), <1>2, <1>4 DEF WakeOf, KeepsPoll, Wakeup
  <1>6. ASSUME NEW q \in Ends, q # p PROVE WakeOf(q)'
    <2>1. cq'[q] = cq[q]
      BY ZenonT(40), <1>1, <1>2, <1>6
    <2> QED
      BY ZenonT(40), <1>2, <2>1, WakeStays DEF Wakeup, KeepsPoll
  <1> QED
    BY ZenonT(40), <1>5, <1>6 DEF Wakeup

(* rpc_send, sending or timing out, does not return from rpc_process.       *)
LEMMA SendKeeps ==
    ASSUME Core, NEW p \in Ends, RoundTimesOut(p) \/ SendHead(p)
    PROVE  KeepsPoll
  <1>1. StackOK /\ Top(p).at = "wait"
    BY ZenonT(40) DEF Core, Queues, RoundTimesOut, SendHead
  <1>2. stack[p] # << >> /\ Head(stack[p]).at # "poll"
    <2>1. stack[p] # << >> /\ Head(stack[p]) = Top(p)
      BY ZenonT(40), <1>1, TopFrame
    <2> QED
      BY SMTT(30), <1>1, <2>1
  <1> DEFINE f == [Top(p) EXCEPT !.left = @ - 1]
             g == Sending(p, posted[p])
  <1>3. f \in Frames /\ g \in Frames
    BY ZenonT(40), <1>1, FewerRounds, SendingFrame DEF Plain
  <1>4. \/ Replace(p, <<f>>)
        \/ Pop(p)
        \/ Replace(p, << >>)
        \/ Replace(p, <<g>>)
    BY ZenonT(40) DEF RoundTimesOut, SendHead
  <1> HIDE DEF f, g
  <1>5. <<f>> \in Seq(Frames) /\ <<g>> \in Seq(Frames) /\ << >> \in Seq(Frames)
    BY ZenonT(40), <1>3, FrameSeqs
  <1> QED
    BY ZenonT(40), <1>1, <1>2, <1>4, <1>5, ReplaceKeeps, PopKeeps

(* A handler that is called does not return from rpc_process.               *)
LEMMA CallKeeps ==
    ASSUME Core, NEW p \in Ends,
           (\E o \in todo : SendCommand(p, o)) \/ rpc_cb_req_completion(p) \/ rpc_cb_decode(p)
    PROVE  KeepsPoll
  <1> DEFINE g == Sending(p, posted'[p])
             r == [at |-> "repost"]
             f == [at |-> "finish", id |-> Head(cq[p]).id]
  <1>1. g \in Frames /\ r \in Frames /\ StackOK
    <2>1. r \in Frames
      BY SMTT(30) DEF Frames
    <2> QED
      BY ZenonT(40), <2>1, SendingFrame DEF Plain, Core, Queues
  <1>2. rpc_cb_req_completion(p) => f \in Frames
    <2>1. rpc_cb_req_completion(p) => Head(cq[p]).id \in Ids
      BY ZenonT(40), PollSets DEF rpc_cb_req_completion
    <2> QED
      BY SMTT(30), <2>1 DEF Frames
  <1>3. \/ Push(p, <<g>>)
        \/ rpc_cb_req_completion(p) /\ Push(p, <<g, f>>)
        \/ Push(p, <<g, r>>)
        \/ stack' = stack
    <2>1. CASE \E o \in todo : SendCommand(p, o)
      BY ZenonT(40), <2>1 DEF SendCommand
    <2>2. CASE rpc_cb_req_completion(p)
      BY ZenonT(40), <2>2 DEF rpc_cb_req_completion
    <2>3. CASE rpc_cb_decode(p)
      BY ZenonT(40), <2>3 DEF rpc_cb_decode, rpc_cb_cleanup, Transfer, Answer
    <2> QED
      BY ZenonT(40), <2>1, <2>2, <2>3
  <1> HIDE DEF g, r, f
  <1>4. /\ <<g>> \in Seq(Frames) /\ <<g, r>> \in Seq(Frames)
        /\ rpc_cb_req_completion(p) => <<g, f>> \in Seq(Frames)
    BY ZenonT(40), <1>1, <1>2, FrameSeqs
  <1> QED
    BY ZenonT(40), <1>1, <1>3, <1>4, PushKeeps, SameKeeps

(* A call below rpc_process goes on.                                        *)
LEMMA ReturnKeeps ==
    ASSUME Core, NEW p \in Ends, Finish(p) \/ PostRecv(p)
    PROVE  KeepsPoll
  <1>1. StackOK /\ Top(p).at \in {"finish", "repost"} /\ Pop(p)
    BY ZenonT(40) DEF Core, Queues, Finish, PostRecv
  <1>2. stack[p] # << >> /\ Head(stack[p]).at # "poll"
    <2>1. stack[p] # << >> /\ Head(stack[p]) = Top(p)
      BY ZenonT(40), <1>1, TopFrame
    <2> QED
      BY SMTT(30), <1>1, <2>1
  <1> QED
    BY ZenonT(40), <1>1, <1>2, PopKeeps

(* The event is taken and the next one asked for before the first poll.     *)
LEMMA EventWakes ==
    ASSUME Core, Wakeup, NEW p \in Ends, rpc_process_event(p)
    PROVE  Wakeup'
  <1> DEFINE f == [at |-> "poll"]
             g == [Top(p) EXCEPT !.left = @ - 1]
  <1>1. f \in Frames /\ f.at = "poll"
    BY DEF Frames
  <1>2. StackOK /\ armed \in [Ends -> BOOLEAN] /\ event \in [Ends -> BOOLEAN]
    BY ZenonT(40) DEF Core, Queues, Rest
  <1>3. \/ Push(p, <<f>>)
        \/ Top(p).at = "wait" /\ Replace(p, <<f, g>>)
    BY ZenonT(40) DEF rpc_process_event
  <1>4. Top(p).at = "wait" => g \in Frames /\ stack[p] # << >> /\ Head(stack[p]).at # "poll"
    <2>1. Top(p).at = "wait" => g \in Frames /\ stack[p] # << >> /\ Head(stack[p]) = Top(p)
      BY ZenonT(40), <1>2, FewerRounds, TopFrame DEF Plain
    <2>2. Top(p).at = "wait" => Top(p).at # "poll"
      OBVIOUS
    <2> QED
      BY ZenonT(40), <2>1, <2>2
  <1> HIDE DEF f, g
  <1>5. <<f>> \in Seq(Frames) /\ (g \in Frames => <<f, g>> \in Seq(Frames))
    BY ZenonT(40), <1>1, FrameSeqs
  <1>6. PollIn(<<f>>) /\ PollIn(<<f, g>>)
    <2>1. 1 \in DOMAIN <<f>> /\ <<f>>[1] = f /\ 1 \in DOMAIN <<f, g>> /\ <<f, g>>[1] = f
      BY SMTT(30)
    <2> QED
      BY ZenonT(40), <1>1, <2>1 DEF PollIn
  <1>7. KeepsPoll /\ PollIn(stack'[p])
    <2>1. CASE Push(p, <<f>>)
      BY ZenonT(40), <1>2, <1>5, <1>6, <2>1, PushKeeps
    <2>2. CASE Top(p).at = "wait" /\ Replace(p, <<f, g>>)
      BY ZenonT(40), <1>2, <1>4, <1>5, <1>6, <2>2, ReplaceKeeps
    <2> QED
      BY ZenonT(40), <1>3, <2>1, <2>2
  <1>8. cq' = cq /\ event' = [event EXCEPT ![p] = FALSE] /\ armed' = [armed EXCEPT ![p] = TRUE]
    BY ZenonT(40) DEF rpc_process_event, TakeEvent
  <1>9. WakeOf(p)'
    <2>1. ~event'[p] /\ armed'[p]
      BY ZenonT(40), <1>2, <1>8
    <2> QED
      BY ZenonT(40), <1>7, <2>1 DEF WakeOf
  <1>10. ASSUME NEW q \in Ends, q # p PROVE WakeOf(q)'
    <2>1. event'[q] = event[q] /\ armed'[q] = armed[q]
      BY ZenonT(40), <1>2, <1>8, <1>10
    <2> QED
      BY ZenonT(40), <1>7, <1>8, <2>1, WakeStays DEF Wakeup, KeepsPoll
  <1> QED
    BY ZenonT(40), <1>9, <1>10 DEF Wakeup

(* rpc_process returns when its queue is empty.                             *)
LEMMA NothingWakes ==
    ASSUME Core, Wakeup, NEW p \in Ends, PollNothing(p)
    PROVE  Wakeup'
  <1>1. /\ cq[p] = << >> /\ UNCHANGED <<cq, armed, event>> /\ Pop(p)
        /\ stack \in [Ends -> Seq(Frames)]
    BY ZenonT(40) DEF PollNothing, device, Core, Queues, StackOK
  <1>2. WakeOf(p)'
    BY ZenonT(40), <1>1 DEF WakeOf, Wakeup
  <1>3. ASSUME NEW q \in Ends, q # p PROVE WakeOf(q)'
    <2>1. stack'[q] = stack[q]
      BY ZenonT(40), <1>1, <1>3 DEF Pop
    <2> QED
      BY ZenonT(40), <1>1, <2>1, WakeStays DEF Wakeup
  <1> QED
    BY ZenonT(40), <1>2, <1>3 DEF Wakeup

(* Every step keeps it so.                                                  *)
LEMMA WakeupStep ==
    ASSUME Core, Wakeup, [Next]_vars
    PROVE  Wakeup'
  <1>1. CASE UNCHANGED vars
    BY ZenonT(40), <1>1, SameKeeps, NothingNew DEF vars, device
  <1>2. CASE Next
    <2>1. PICK p \in Ends : \/ \E o \in todo : rpc_send(p, o) \/ rpc_receive(p, o)
                            \/ Working(p)
                            \/ Transmit(p)
                            \/ Acknowledge(p)
      BY ZenonT(40), <1>2 DEF Next
    <2>2. CASE \E o \in todo : rpc_send(p, o) \/ rpc_receive(p, o)
      <3>1. \E o \in todo : SendCommand(p, o)
        BY ZenonT(40), <2>2 DEF rpc_send, rpc_receive
      <3>2. UNCHANGED <<cq, armed, event>>
        BY ZenonT(40), <3>1 DEF SendCommand, device
      <3> QED
        BY ZenonT(40), <3>1, <3>2, CallKeeps, NothingNew
    <2>3. CASE RoundTimesOut(p) \/ SendHead(p) \/ Finish(p) \/ PostRecv(p)
      <3>1. UNCHANGED <<cq, armed, event>>
        BY ZenonT(40), <2>3 DEF RoundTimesOut, SendHead, Finish, PostRecv, device
      <3> QED
        BY ZenonT(40), <2>3, <3>1, SendKeeps, ReturnKeeps, NothingNew
    <2>4. CASE rpc_cb_req_completion(p) \/ rpc_cb_decode(p)
      <3>1. \E recv : Poll(p, recv)
        BY ZenonT(40), <2>4 DEF rpc_cb_req_completion, rpc_cb_decode
      <3> QED
        BY ZenonT(40), <2>4, <3>1, CallKeeps, PollWakes
    <2>5. CASE Transmit(p)
      <3>1. stack' = stack
        BY ZenonT(40), <2>5 DEF Transmit
      <3>2. \/ UNCHANGED <<cq, armed, event>>
            \/ \E c : cq' = Complete(cq, Other(p), c) /\ Raise(Other(p))
        BY ZenonT(40), <2>5 DEF Transmit
      <3>3. Other(p) \in Ends
        BY ZenonT(40), TwoEnds
      <3> QED
        BY ZenonT(40), <3>1, <3>2, <3>3, SameKeeps, NothingNew, RaiseWakes
    <2>6. CASE Acknowledge(p)
      <3>1. stack' = stack /\ \E c : cq' = Complete(cq, p, c) /\ Raise(p)
        BY ZenonT(40), <2>6 DEF Acknowledge
      <3> QED
        BY ZenonT(40), <3>1, RaiseWakes
    <2> QED
      BY ZenonT(40), <2>1, <2>2, <2>3, <2>4, <2>5, <2>6, EventWakes, NothingWakes DEF Working
  <1> QED
    BY SMTT(30), <1>1, <1>2

(* It is so at the start.                                                   *)
LEMMA InitWakeup ==
    ASSUME Init
    PROVE  Wakeup
  <1>1. \A p \in Ends : armed[p] /\ ~event[p] /\ cq[p] = << >>
    BY ZenonT(40) DEF Init
  <1> QED
    BY ZenonT(40), <1>1 DEF Wakeup, WakeOf

(* A completion that nobody polls has an event waiting.                     *)
LEMMA WakeupSeen ==
    ASSUME Wakeup
    PROVE  NoLostWakeup
  BY ZenonT(40) DEF Wakeup, WakeOf, PollIn, NoLostWakeup, Range

-----------------------------------------------------------------------------
(* Calls that nest.                                                         *)

(* rpc_process, polling.                                                    *)
PollFrame == [at |-> "poll"]

(* rpc_send, with the rounds it has left.                                   *)
WaitFrame(n) == [at |-> "wait", left |-> n]

(* All that the end issued are commands of its own.                         *)
OnlyCommands(p) == \A i \in DOMAIN issued[p] : issued[p][i][2] = "cmd"

(* The end has nothing to send and at most polls.                           *)
Quietly(p) == req_list[p] = << >> /\ (stack[p] = << >> \/ stack[p] = <<PollFrame>>)

(* The end is in rpc_send, whose command is the only one in the list and    *)
(* the last that was issued.                                                *)
Sends(p) ==
    /\ issued[p] # << >> /\ req_list[p] = <<issued[p][Len(issued[p])]>>
    /\ \E n \in Int : stack[p] = <<WaitFrame(n)>> \/ stack[p] = <<PollFrame, WaitFrame(n)>>

(* An end that issued only commands of its own is in one rpc_send at most,  *)
(* and in no other call but rpc_process.                                    *)
NestOf(p) == OnlyCommands(p) => Quietly(p) \/ Sends(p)

(* No rpc_send of an end starts inside another one before the end answers   *)
(* or reports something.                                                    *)
NotNested == \A p \in Ends : NestOf(p)

(* Stacks of one and two calls.                                             *)
LEMMA ShortTuples ==
    ASSUME NEW a, NEW b
    PROVE  /\ Tail(<<a>>) = << >> /\ Tail(<<a, b>>) = <<b>>
           /\ Head(<<a>>) = a /\ Head(<<a, b>>) = a
           /\ <<a>> # << >> /\ <<a, b>> # << >>
           /\ <<a>> \o << >> = <<a>> /\ <<a, b>> \o << >> = <<a, b>> /\ << >> \o << >> = << >>
           /\ Append(<< >>, a) = <<a>>
           /\ Len(<<a>>) = 1 /\ Len(<<a, b>>) = 2 /\ <<a>>[1] = a /\ <<a, b>>[2] = b
  OBVIOUS

(* The two kinds of calls and what they hold.                               *)
LEMMA FrameKinds ==
    /\ PollFrame.at = "poll" /\ \A n : WaitFrame(n).at = "wait"
    /\ \A n : WaitFrame(n).left = n
    /\ \A n \in Int : [WaitFrame(n) EXCEPT !.left = @ - 1] = WaitFrame(n - 1) /\ n - 1 \in Int
  BY DEF PollFrame, WaitFrame

(* What is on top of the stack tells the whole stack.                       *)
LEMMA WholeStack ==
    ASSUME NEW p, Quietly(p) \/ Sends(p)
    PROVE  /\ Top(p).at = "wait" =>
                 /\ Sends(p)
                 /\ \E n \in Int : stack[p] = <<WaitFrame(n)>> /\ Top(p) = WaitFrame(n)
           /\ Top(p).at \notin {"finish", "repost"}
           /\ stack[p] = << >> => Quietly(p)
           /\ Top(p).at = "poll" =>
                 \/ Quietly(p) /\ stack[p] = <<PollFrame>>
                 \/ Sends(p) /\ \E n \in Int : stack[p] = <<PollFrame, WaitFrame(n)>>
  <1>1. /\ \A n : WaitFrame(n).at # "poll" /\ WaitFrame(n).at # "finish"
                  /\ WaitFrame(n).at # "repost"
        /\ PollFrame.at # "wait" /\ PollFrame.at # "finish" /\ PollFrame.at # "repost"
    BY SMTT(30), FrameKinds
  <1>2. CASE Quietly(p) /\ stack[p] = << >>
    <2>1. Top(p).at = "idle"
      BY SMTT(30), <1>2 DEF Top
    <2> QED
      BY SMTT(30), <1>2, <2>1
  <1>3. CASE Quietly(p) /\ stack[p] = <<PollFrame>>
    <2>1. Top(p) = PollFrame
      BY ZenonT(40), <1>3, ShortTuples DEF Top
    <2> QED
      BY ZenonT(40), <1>1, <1>3, <2>1, ShortTuples
  <1>4. ASSUME Sends(p), NEW n \in Int, stack[p] = <<WaitFrame(n)>>
        PROVE  Top(p) = WaitFrame(n) /\ stack[p] # << >>
    BY ZenonT(40), <1>4, ShortTuples DEF Top
  <1>5. ASSUME Sends(p), NEW n \in Int, stack[p] = <<PollFrame, WaitFrame(n)>>
        PROVE  Top(p) = PollFrame /\ stack[p] # << >>
    <2> DEFINE w == WaitFrame(n)
    <2>1. stack[p] = <<PollFrame, w>>
      BY ZenonT(40), <1>5
    <2> HIDE DEF w
    <2>2. Head(<<PollFrame, w>>) = PollFrame /\ <<PollFrame, w>> # << >>
      OBVIOUS
    <2> QED
      BY SMTT(30), <2>1, <2>2 DEF Top
  <1>6. CASE Sends(p)
    <2>1. PICK n \in Int : stack[p] = <<WaitFrame(n)>> \/ stack[p] = <<PollFrame, WaitFrame(n)>>
      BY ZenonT(40), <1>6 DEF Sends
    <2>2. CASE stack[p] = <<WaitFrame(n)>>
      BY ZenonT(40), <1>1, <1>4, <1>6, <2>2
    <2>3. CASE stack[p] = <<PollFrame, WaitFrame(n)>>
      BY ZenonT(40), <1>1, <1>5, <1>6, <2>3
    <2> QED
      BY ZenonT(40), <2>1, <2>2, <2>3
  <1>7. Quietly(p) => stack[p] = << >> \/ stack[p] = <<PollFrame>>
    BY ZenonT(40) DEF Quietly
  <1> QED
    BY ZenonT(40), <1>2, <1>3, <1>6, <1>7

-----------------------------------------------------------------------------
(* The steps.                                                               *)

(* Nothing happens at the end.                                              *)
LEMMA NestStays ==
    ASSUME NEW q, NestOf(q), issued'[q] = issued[q], req_list'[q] = req_list[q],
           stack'[q] = stack[q]
    PROVE  NestOf(q)'
  BY ZenonT(40) DEF NestOf, OnlyCommands, Quietly, Sends

(* A step at one end leaves the calls of the other as they are.             *)
LEMMA OthersNest ==
    ASSUME Core, NotNested, NEW p \in Ends, NestOf(p)',
           \/ issued' = issued
           \/ \E x : issued' = [issued EXCEPT ![p] = Append(@, x)],
           \/ req_list' = req_list
           \/ \E x : req_list' = [req_list EXCEPT ![p] = x],
           \/ stack' = stack
           \/ \E x : stack' = [stack EXCEPT ![p] = x]
    PROVE  NotNested'
  <1>1. ASSUME NEW q \in Ends, q # p PROVE NestOf(q)'
    <2>1. issued'[q] = issued[q] /\ req_list'[q] = req_list[q] /\ stack'[q] = stack[q]
      BY ZenonT(40), <1>1 DEF Core, Rest, Queues, ListOK, StackOK
    <2> QED
      BY ZenonT(40), <2>1, NestStays DEF NotNested
  <1> QED
    BY ZenonT(40), <1>1 DEF NotNested

(* What was issued before is still among what was issued.                   *)
LEMMA StillOnly ==
    ASSUME Core, NEW p \in Ends, NEW x \in Ids, issued' = [issued EXCEPT ![p] = Append(@, x)],
           OnlyCommands(p)'
    PROVE  OnlyCommands(p) /\ x[2] = "cmd"
  <1> DEFINE s == issued[p]
             t == Append(s, x)
  <1>1. s \in Seq(Ids) /\ issued'[p] = t
    BY ZenonT(40) DEF Core, Rest
  <1>2. /\ \A i \in DOMAIN s : i \in DOMAIN t /\ t[i] = s[i]
        /\ Len(t) \in DOMAIN t /\ t[Len(t)] = x
    <2> HIDE DEF s
    <2> QED
      BY SMTT(30), <1>1
  <1>3. \A i \in DOMAIN t : t[i][2] = "cmd"
    BY ZenonT(40), <1>1 DEF OnlyCommands
  <1> HIDE DEF t
  <1>4. x[2] = "cmd"
    <2> DEFINE n == Len(t)
    <2>1. n \in DOMAIN t /\ t[n] = x
      BY ZenonT(40), <1>2
    <2> HIDE DEF n
    <2>2. t[n][2] = "cmd"
      BY ZenonT(40), <1>3, <2>1
    <2> QED
      BY SMTT(30), <2>1, <2>2
  <1>5. ASSUME NEW i \in DOMAIN s PROVE s[i][2] = "cmd"
    <2>1. t[i] = s[i] /\ t[i][2] = "cmd"
      BY ZenonT(40), <1>2, <1>3
    <2> QED
      BY SMTT(30), <2>1
  <1> QED
    BY ZenonT(40), <1>4, <1>5 DEF OnlyCommands

(* SendCommand starts an rpc_send where none is under way.                  *)
LEMMA CommandNest ==
    ASSUME Core, NotNested, NEW p \in Ends, NEW o \in todo, SendCommand(p, o)
    PROVE  NotNested'
  <1> DEFINE id == <<o, "cmd">>
             f == Sending(p, posted'[p])
  <1>1. id \in Ids
    BY ZenonT(40), CommandSets
  <1>2. /\ stack[p] = << >> /\ issued' = [issued EXCEPT ![p] = Append(@, id)]
        /\ req_list' = [req_list EXCEPT ![p] = Append(@, id)]
        /\ stack' = [stack EXCEPT ![p] = <<f>> \o @]
    BY ZenonT(40) DEF SendCommand, Enqueue, Push
  <1> HIDE DEF id
  <1>3. \E n \in Int : f = WaitFrame(n)
    BY SMTT(30), IbRpcAssumption DEF Sending, WaitFrame
  <1> HIDE DEF f
  <1>4. ASSUME OnlyCommands(p)' PROVE Sends(p)'
    <2>1. Quietly(p)
      <3>1. OnlyCommands(p)
        BY ZenonT(40), <1>1, <1>2, <1>4, StillOnly
      <3> QED
        BY ZenonT(40), <1>2, <3>1, WholeStack DEF NotNested, NestOf
    <2>2. req_list[p] = << >>
      BY ZenonT(40), <2>1 DEF Quietly
    <2>3. /\ issued'[p] = Append(issued[p], id) /\ issued[p] \in Seq(Ids)
          /\ req_list'[p] = Append(<< >>, id) /\ stack'[p] = <<f>> \o << >>
      BY ZenonT(40), <1>2, <2>2 DEF Core, Rest, Queues, ListOK, StackOK
    <2>4. req_list'[p] = <<id>> /\ stack'[p] = <<f>>
      BY ZenonT(40), <2>3, ShortTuples
    <2>5. issued'[p] # << >> /\ issued'[p][Len(issued'[p])] = id
      BY SMTT(30), <1>1, <2>3
    <2> QED
      BY ZenonT(40), <1>3, <2>4, <2>5 DEF Sends
  <1>5. NestOf(p)'
    BY ZenonT(40), <1>4 DEF NestOf
  <1>6. /\ \E x : issued' = [issued EXCEPT ![p] = Append(@, x)]
        /\ \E x : req_list' = [req_list EXCEPT ![p] = x]
        /\ \E x : stack' = [stack EXCEPT ![p] = x]
    BY ZenonT(40), <1>2
  <1> QED
    BY ZenonT(40), <1>5, <1>6, OthersNest

(* A round of rpc_send times out, and the command is still in the list.     *)
LEMMA RoundNest ==
    ASSUME Core, NotNested, NEW p \in Ends, RoundTimesOut(p)
    PROVE  NotNested'
  <1> DEFINE f == [Top(p) EXCEPT !.left = @ - 1]
  <1>1. /\ Top(p).at = "wait" /\ stack' = [stack EXCEPT ![p] = <<f>> \o Tail(@)]
        /\ UNCHANGED <<issued, req_list>>
    BY ZenonT(40) DEF RoundTimesOut, Replace
  <1>2. ASSUME OnlyCommands(p)' PROVE Sends(p)'
    <2>1. Quietly(p) \/ Sends(p)
      BY ZenonT(40), <1>1, <1>2 DEF OnlyCommands, NotNested, NestOf
    <2>2. Sends(p) /\ \E n \in Int : stack[p] = <<WaitFrame(n)>> /\ Top(p) = WaitFrame(n)
      BY ZenonT(40), <1>1, <2>1, WholeStack
    <2>3. PICK n \in Int : stack[p] = <<WaitFrame(n)>> /\ Top(p) = WaitFrame(n)
      BY ZenonT(40), <2>2
    <2>4. f = WaitFrame(n - 1) /\ n - 1 \in Int
      BY ZenonT(40), <2>3, FrameKinds
    <2>5. stack'[p] = <<f>> \o << >>
      <3> HIDE DEF f
      <3>1. Tail(stack[p]) = << >>
        BY ZenonT(40), <2>3, ShortTuples
      <3> QED
        BY ZenonT(40), <1>1, <3>1 DEF Core, Queues, StackOK
    <2>6. stack'[p] = <<WaitFrame(n - 1)>>
      BY ZenonT(40), <2>4, <2>5, ShortTuples
    <2>7. \E k \in Int : stack'[p] = <<WaitFrame(k)>>
      BY ZenonT(40), <2>4, <2>6
    <2> HIDE DEF f
    <2> QED
      BY ZenonT(40), <1>1, <2>2, <2>7 DEF Sends
  <1>3. NestOf(p)'
    BY ZenonT(40), <1>2 DEF NestOf
  <1>4. \E x : stack' = [stack EXCEPT ![p] = x]
    BY ZenonT(40), <1>1
  <1> QED
    BY ZenonT(40), <1>1, <1>3, <1>4, OthersNest

(* rpc_send posts its command and returns.                                  *)
LEMMA SendNest ==
    ASSUME Core, NotNested, NEW p \in Ends, SendHead(p)
    PROVE  NotNested'
  <1>1. /\ Top(p).at = "wait" /\ issued' = issued
        /\ IF req_list[p] = << >>
           THEN Pop(p) /\ req_list' = req_list
           ELSE /\ req_list' = [req_list EXCEPT ![p] = Tail(@)]
                /\ Replace(p, IF Tail(req_list[p]) = << >> THEN << >>
                              ELSE <<Sending(p, posted[p])>>)
    BY ZenonT(40) DEF SendHead
  <1>2. ASSUME OnlyCommands(p)' PROVE Quietly(p)'
    <2>1. Quietly(p) \/ Sends(p)
      BY ZenonT(40), <1>1, <1>2 DEF OnlyCommands, NotNested, NestOf
    <2>2. Sends(p) /\ \E n \in Int : stack[p] = <<WaitFrame(n)>>
      BY ZenonT(40), <1>1, <2>1, WholeStack
    <2> DEFINE x == issued[p][Len(issued[p])]
    <2>3. req_list[p] = <<x>>
      BY ZenonT(40), <2>2 DEF Sends
    <2> HIDE DEF x
    <2>4. req_list[p] # << >> /\ Tail(req_list[p]) = << >> /\ Tail(stack[p]) = << >>
      BY ZenonT(40), <2>2, <2>3, ShortTuples
    <2>5. /\ req_list' = [req_list EXCEPT ![p] = Tail(@)]
          /\ stack' = [stack EXCEPT ![p] = << >> \o Tail(@)]
      BY ZenonT(40), <1>1, <2>4 DEF Replace
    <2>6. req_list'[p] = << >> /\ stack'[p] = << >> \o << >>
      BY ZenonT(40), <2>4, <2>5 DEF Core, Queues, ListOK, StackOK
    <2> QED
      BY ZenonT(40), <2>6, ShortTuples DEF Quietly
  <1>3. NestOf(p)'
    BY ZenonT(40), <1>2 DEF NestOf
  <1>4. /\ \/ req_list' = req_list
           \/ \E x : req_list' = [req_list EXCEPT ![p] = x]
        /\ \E x : stack' = [stack EXCEPT ![p] = x]
    BY ZenonT(40), <1>1 DEF Pop, Replace
  <1> QED
    BY ZenonT(40), <1>1, <1>3, <1>4, OthersNest

(* rpc_process starts to poll.                                              *)
LEMMA EventNest ==
    ASSUME Core, NotNested, NEW p \in Ends, rpc_process_event(p)
    PROVE  NotNested'
  <1> DEFINE g == [Top(p) EXCEPT !.left = @ - 1]
  <1>1. /\ \/ stack[p] = << >> /\ stack' = [stack EXCEPT ![p] = <<PollFrame>> \o @]
           \/ /\ Top(p).at = "wait"
              /\ stack' = [stack EXCEPT ![p] = <<PollFrame, g>> \o Tail(@)]
        /\ UNCHANGED <<issued, req_list>>
    BY ZenonT(40) DEF rpc_process_event, Push, Replace, PollFrame
  <1>2. ASSUME OnlyCommands(p)' PROVE Quietly(p)' \/ Sends(p)'
    <2>1. Quietly(p) \/ Sends(p)
      BY ZenonT(40), <1>1, <1>2 DEF OnlyCommands, NotNested, NestOf
    <2>2. CASE stack[p] = << >> /\ stack' = [stack EXCEPT ![p] = <<PollFrame>> \o @]
      <3>1. stack'[p] = <<PollFrame>> \o << >>
        BY ZenonT(40), <2>2 DEF Core, Queues, StackOK
      <3>2. stack'[p] = <<PollFrame>> /\ Quietly(p)
        BY ZenonT(40), <2>1, <2>2, <3>1, ShortTuples, WholeStack
      <3> QED
        BY ZenonT(40), <1>1, <3>2 DEF Quietly
    <2>3. CASE /\ Top(p).at = "wait"
               /\ stack' = [stack EXCEPT ![p] = <<PollFrame, g>> \o Tail(@)]
      <3>1. Sends(p) /\ \E n \in Int : stack[p] = <<WaitFrame(n)>> /\ Top(p) = WaitFrame(n)
        BY ZenonT(40), <2>1, <2>3, WholeStack
      <3>2. PICK n \in Int : stack[p] = <<WaitFrame(n)>> /\ Top(p) = WaitFrame(n)
        BY ZenonT(40), <3>1
      <3>3. g = WaitFrame(n - 1) /\ n - 1 \in Int
        BY ZenonT(40), <3>2, FrameKinds
      <3> HIDE DEF g
      <3>4. stack'[p] = <<PollFrame, g>> \o << >>
        <4>1. Tail(stack[p]) = << >>
          BY ZenonT(40), <3>2, ShortTuples
        <4> QED
          BY ZenonT(40), <2>3, <4>1 DEF Core, Queues, StackOK
      <3>5. stack'[p] = <<PollFrame, g>>
        BY ZenonT(40), <3>4, ShortTuples
      <3>6. \E k \in Int : stack'[p] = <<PollFrame, WaitFrame(k)>>
        BY ZenonT(40), <3>3, <3>5
      <3> QED
        BY ZenonT(40), <1>1, <3>1, <3>6 DEF Sends
    <2> QED
      BY ZenonT(40), <1>1, <2>2, <2>3
  <1> HIDE DEF g
  <1>3. NestOf(p)'
    BY ZenonT(40), <1>2 DEF NestOf
  <1>4. \E x : stack' = [stack EXCEPT ![p] = x]
    BY ZenonT(40), <1>1
  <1> QED
    BY ZenonT(40), <1>1, <1>3, <1>4, OthersNest

(* rpc_process returns to rpc_send.                                         *)
LEMMA NothingNest ==
    ASSUME Core, NotNested, NEW p \in Ends, PollNothing(p)
    PROVE  NotNested'
  <1>1. /\ Top(p).at = "poll" /\ stack' = [stack EXCEPT ![p] = Tail(@)]
        /\ UNCHANGED <<issued, req_list>>
    BY ZenonT(40) DEF PollNothing, Pop
  <1>2. stack'[p] = Tail(stack[p])
    BY ZenonT(40), <1>1 DEF Core, Queues, StackOK
  <1>3. ASSUME OnlyCommands(p)' PROVE Quietly(p)' \/ Sends(p)'
    <2>1. Quietly(p) \/ Sends(p)
      BY ZenonT(40), <1>1, <1>3 DEF OnlyCommands, NotNested, NestOf
    <2>2. \/ Quietly(p) /\ stack[p] = <<PollFrame>>
          \/ Sends(p) /\ \E n \in Int : stack[p] = <<PollFrame, WaitFrame(n)>>
      BY ZenonT(40), <1>1, <2>1, WholeStack
    <2>3. CASE Quietly(p) /\ stack[p] = <<PollFrame>>
      <3>1. stack'[p] = << >>
        BY ZenonT(40), <1>2, <2>3, ShortTuples
      <3> QED
        BY ZenonT(40), <1>1, <2>3, <3>1 DEF Quietly
    <2>4. CASE Sends(p) /\ \E n \in Int : stack[p] = <<PollFrame, WaitFrame(n)>>
      <3>1. PICK n \in Int : stack[p] = <<PollFrame, WaitFrame(n)>>
        BY ZenonT(40), <2>4
      <3> DEFINE w == WaitFrame(n)
      <3>2. stack[p] = <<PollFrame, w>>
        BY ZenonT(40), <3>1
      <3> HIDE DEF w
      <3>3. Tail(<<PollFrame, w>>) = <<w>>
        OBVIOUS
      <3>4. stack'[p] = <<w>>
        BY ZenonT(40), <1>2, <3>2, <3>3
      <3>5. \E k \in Int : stack'[p] = <<WaitFrame(k)>>
        BY ZenonT(40), <3>4 DEF w
      <3> QED
        BY ZenonT(40), <1>1, <2>4, <3>5 DEF Sends
    <2> QED
      BY ZenonT(40), <2>2, <2>3, <2>4
  <1>4. NestOf(p)'
    BY ZenonT(40), <1>3 DEF NestOf
  <1>5. \E x : stack' = [stack EXCEPT ![p] = x]
    BY ZenonT(40), <1>1
  <1> QED
    BY ZenonT(40), <1>1, <1>4, <1>5, OthersNest

(* Only a message that is answered or reported makes a call that nests.     *)
LEMMA CallNest ==
    ASSUME Core, NotNested, NEW p \in Ends, rpc_cb_req_completion(p) \/ rpc_cb_decode(p)
    PROVE  NotNested'
  <1>1. CASE UNCHANGED <<issued, req_list, stack>>
    BY ZenonT(40), <1>1, NestStays DEF NotNested
  <1>2. ASSUME NEW x \in Ids, x[2] # "cmd", issued' = [issued EXCEPT ![p] = Append(@, x)],
               \E y : req_list' = [req_list EXCEPT ![p] = y],
               \E y : stack' = [stack EXCEPT ![p] = y]
        PROVE  NotNested'
    <2>1. NestOf(p)'
      BY ZenonT(40), <1>2, StillOnly DEF NestOf
    <2> QED
      BY ZenonT(40), <1>2, <2>1, OthersNest
  <1> DEFINE dn == <<Head(cq[p]).id[1], "done">>
             rp == <<Head(cq[p]).id[1], "reply">>
  <1>3. Head(cq[p]).id[1] \in Ops
    <2>1. Poll(p, TRUE) \/ Poll(p, FALSE)
      BY ZenonT(40) DEF rpc_cb_req_completion, rpc_cb_decode
    <2> QED
      BY ZenonT(40), <2>1, PollSets
  <1>4. dn \in Ids /\ rp \in Ids /\ dn[2] # "cmd" /\ rp[2] # "cmd"
    BY SMTT(30), <1>3 DEF Ids, Roles
  <1>5. \/ UNCHANGED <<issued, req_list, stack>>
        \/ \E x \in {dn, rp} : /\ issued' = [issued EXCEPT ![p] = Append(@, x)]
                               /\ \E y : req_list' = [req_list EXCEPT ![p] = y]
                               /\ \E y : stack' = [stack EXCEPT ![p] = y]
    <2>1. CASE rpc_cb_req_completion(p)
      BY ZenonT(40), <2>1 DEF rpc_cb_req_completion, Enqueue, Push
    <2>2. CASE rpc_cb_decode(p)
      BY ZenonT(40), <2>2 DEF rpc_cb_decode, rpc_cb_cleanup, Transfer, Answer, Enqueue, Push
    <2> QED
      BY SMTT(30), <2>1, <2>2
  <1> HIDE DEF dn, rp
  <1> QED
    BY ZenonT(40), <1>1, <1>2, <1>4, <1>5

(* Every step keeps it so.                                                  *)
LEMMA NestStep ==
    ASSUME Core, NotNested, [Next]_vars
    PROVE  NotNested'
  <1>1. CASE UNCHANGED <<issued, req_list, stack>>
    BY ZenonT(40), <1>1, NestStays DEF NotNested
  <1>2. CASE UNCHANGED vars
    BY ZenonT(40), <1>1, <1>2 DEF vars
  <1>3. CASE Next
    <2>1. PICK p \in Ends : \/ \E o \in todo : rpc_send(p, o) \/ rpc_receive(p, o)
                            \/ Working(p)
                            \/ Transmit(p)
                            \/ Acknowledge(p)
      BY ZenonT(40), <1>3 DEF Next
    <2>2. CASE \E o \in todo : rpc_send(p, o) \/ rpc_receive(p, o)
      BY ZenonT(40), <2>2, CommandNest DEF rpc_send, rpc_receive
    <2>3. CASE Finish(p) \/ PostRecv(p)
      <3>1. /\ Top(p).at \in {"finish", "repost"} /\ UNCHANGED <<issued, req_list>>
            /\ stack' = [stack EXCEPT ![p] = Tail(@)]
        BY ZenonT(40), <2>3 DEF Finish, PostRecv, Pop
      <3>2. ~OnlyCommands(p)
        BY ZenonT(40), <3>1, WholeStack DEF NotNested, NestOf
      <3>3. NestOf(p)'
        BY ZenonT(40), <3>1, <3>2 DEF NestOf, OnlyCommands
      <3>4. \E x : stack' = [stack EXCEPT ![p] = x]
        BY ZenonT(40), <3>1
      <3> QED
        BY ZenonT(40), <3>1, <3>3, <3>4, OthersNest
    <2>4. CASE Transmit(p) \/ Acknowledge(p)
      BY ZenonT(40), <1>1, <2>4 DEF Transmit, Acknowledge
    <2> QED
      BY ZenonT(40), <2>1, <2>2, <2>3, <2>4, RoundNest, SendNest, EventNest, NothingNest,
         CallNest DEF Working
  <1> QED
    BY <1>2, <1>3

(* It is so at the start.                                                   *)
LEMMA InitNest ==
    ASSUME Init
    PROVE  NotNested
  <1>1. \A p \in Ends : req_list[p] = << >> /\ stack[p] = << >>
    BY ZenonT(40) DEF Init
  <1> QED
    BY ZenonT(40), <1>1 DEF NotNested, NestOf, Quietly
=============================================================================
