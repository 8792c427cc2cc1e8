----------------------------- MODULE DsgLockInv -----------------------------
(***************************************************************************)
(* The inductive invariant of the lock service, facts about what the lock  *)
(* types answer and about the sequences of the state, what a step finds in *)
(* a state of the invariant, and the proof that every step keeps it, keeps *)
(* the types, and is a step of RWLock or leaves the holders as they are.   *)
(*                                                                         *)
(* Exclusion is not inductive: it speaks of the processes, while what      *)
(* keeps two applications apart are the counters of the server.  The       *)
(* inductive invariant IInv follows the permission to hold a lock from the *)
(* server to the master of an application and back: it is in the grant, in *)
(* the ack, with the master, and in the release (HasToken), and the server *)
(* has counted every process that has it (Accounting).                     *)
(***************************************************************************)
EXTENDS DsgLock, TLAPS

-----------------------------------------------------------------------------
(* The inductive invariant.                                                *)

HeldPC == {"held", "unlock_barrier"}
CallPC == {"acking", "lock_barrier"}
PastAck == {"lock_barrier", "held", "unlock_barrier", "releasing"}

(* The processes of an application that have entered a lock operation are in *)
(* the same one, and they hold the lock together.                           *)
Together ==
    \A p, q \in Procs : AppOf[p] = AppOf[q] =>
        /\ pc[p] \in CallPC /\ pc[q] \in CallPC => op[p] = op[q]
        /\ pc[p] \in HeldPC => pc[q] \in HeldPC /\ op[p] = op[q]

Waiting(p) == \E n \in Names : \E i \in DOMAIN wait_list[n] : wait_list[n][i].proc = p

(* Process p has been granted c and its release has not been received.      *)
HasToken(p, c) ==
    \/ /\ req[p] # <<>>
       /\ req[p][1].kind = "release"
       /\ req[p][1].name = c.name
       /\ req[p][1].mode = c.mode
    \/ /\ op[p] = c
       /\ \/ pc[p] \in PastAck
          \/ grant[p] # <<>>
          \/ pc[p] = "acking" /\ ack[p][c.name]

(* Only a master exchanges messages with the server.                        *)
MastersOnly ==
    \A p \in Procs : ~IsMaster(p) =>
        /\ pc[p] \in {"idle", "lock_barrier", "held", "unlock_barrier"}
        /\ req[p] = <<>>
        /\ grant[p] = <<>>

(* A master that awaits a grant has one request under way, waiting at the   *)
(* server or granted; the release of its previous operation may still be    *)
(* ahead of the request.                                                   *)
RequestsInOrder(p) ==
    /\ pc[p] = "idle" => Len(req[p]) <= 1
    /\ \A i \in DOMAIN req[p] :
          /\ req[p][i].kind = "release" => i = 1
          /\ req[p][i].kind = "get" =>
                /\ i = Len(req[p])
                /\ pc[p] = "acking"
                /\ ~ack[p][op[p].name]
                /\ grant[p] = <<>>
                /\ ~Waiting(p)
                /\ req[p][i].name = op[p].name
                /\ req[p][i].mode = op[p].mode
    /\ IsMaster(p) /\ pc[p] \in PastAck => req[p] = <<>>
    /\ pc[p] = "acking" /\ ack[p][op[p].name] => req[p] = <<>> /\ grant[p] = <<>>

RequestOrder == \A p \in Procs : RequestsInOrder(p)

WaitOrder ==
    \A n \in Names : \A i \in DOMAIN wait_list[n] :
        LET w == wait_list[n][i]
        IN /\ IsMaster(w.proc)
           /\ pc[w.proc] = "acking"
           /\ ~ack[w.proc][n]
           /\ op[w.proc] = [name |-> n, mode |-> w.mode]
           /\ req[w.proc] = <<>>
           /\ grant[w.proc] = <<>>
           /\ \A j \in DOMAIN wait_list[n] : wait_list[n][j].proc = w.proc => i = j

GrantOrder ==
    \A p \in Procs : grant[p] # <<>> =>
        /\ Len(grant[p]) = 1
        /\ grant[p][1].name = op[p].name
        /\ pc[p] = "acking"
        /\ req[p] = <<>>
        /\ ~Waiting(p)

Tokens ==
    \A p \in Procs, n \in Names :
        /\ p \in rd_holders[n] <=> IsMaster(p) /\ HasToken(p, [name |-> n, mode |-> "read"])
        /\ p \in wr_holders[n] <=> IsMaster(p) /\ HasToken(p, [name |-> n, mode |-> "write"])

AtMostOne(S) == \A x, y \in S : x = y

(* The counters of a lock record agree with the holders.                    *)
LockAccounting(dl, R, W) ==
    /\ dl.rd_cnt = Cardinality(R)
    /\ dl.wr_cnt = IF W = {} THEN 0 ELSE 1
    /\ dl.rd_lock_state = IF R = {} THEN "unlocked" ELSE "locked"
    /\ dl.wr_lock_state = IF W = {} THEN "unlocked" ELSE "locked"
    /\ R = {} \/ W = {}

SemAccounting(dl, R, W) ==
    /\ dl.wr_notify_cnt = 0
    /\ \/ /\ dl.wr_cnt = IF W = {} THEN 1 ELSE 0
          /\ dl.rd_cnt = 0 /\ dl.rd_notify_cnt = 0
          /\ R = {}
       \/ /\ W = {} /\ dl.wr_cnt = 0
          /\ dl.rd_cnt >= 0
          /\ dl.rd_notify_cnt < MaxReaders
          /\ dl.rd_cnt + Cardinality(R) + dl.rd_notify_cnt = MaxReaders

Accounted(dl, R, W) ==
    /\ AtMostOne(W)
    /\ IF LockType = "custom" THEN SemAccounting(dl, R, W)
                              ELSE LockAccounting(dl, R, W)

Accounting == \A n \in Names : Accounted(lock[n], rd_holders[n], wr_holders[n])

IInv == TypeOK /\ Together /\ MastersOnly /\ RequestOrder /\ WaitOrder
            /\ GrantOrder /\ Tokens /\ Accounting

-----------------------------------------------------------------------------
(* Sequences and finite sets.                                               *)

(* What the operators on sequences return.                                  *)
LEMMA EntryType ==
    ASSUME NEW S, NEW s \in Seq(S), NEW i \in 1 .. Len(s)
    PROVE  s[i] \in S
  OBVIOUS

LEMMA EmptyList ==
    ASSUME NEW S
    PROVE  /\ << >> \in Seq(S)
           /\ Len(<< >>) = 0
           /\ \A s \in Seq(S) : s # << >> => Len(s) \in Nat \ {0}
  OBVIOUS

LEMMA ListLength ==
    ASSUME NEW S, NEW s \in Seq(S)
    PROVE  /\ Len(s) \in Nat
           /\ s \in [1 .. Len(s) -> S]
           /\ DOMAIN s = 1 .. Len(s)
  OBVIOUS

LEMMA ListConcat ==
    ASSUME NEW S, NEW s \in Seq(S), NEW t \in Seq(S)
    PROVE  /\ s \o t \in Seq(S)
           /\ Len(s \o t) = Len(s) + Len(t)
           /\ \A i \in 1 .. Len(s) + Len(t) :
                 (s \o t)[i] = IF i <= Len(s) THEN s[i] ELSE t[i - Len(s)]
  OBVIOUS

LEMMA ListPart ==
    ASSUME NEW S, NEW s, NEW m \in Int, NEW n \in Int, \A i \in m .. n : s[i] \in S
    PROVE  /\ SubSeq(s, m, n) \in Seq(S)
           /\ Len(SubSeq(s, m, n)) = IF m <= n THEN n - m + 1 ELSE 0
           /\ \A i \in 1 .. n - m + 1 : SubSeq(s, m, n)[i] = s[m + i - 1]
  OBVIOUS

LEMMA ListHeadTail ==
    ASSUME NEW S, NEW s \in Seq(S), s # << >>
    PROVE  /\ Head(s) \in S
           /\ Tail(s) \in Seq(S)
           /\ Len(Tail(s)) = Len(s) - 1
           /\ \A i \in 1 .. Len(Tail(s)) : Tail(s)[i] = s[i + 1]
  OBVIOUS

LEMMA ListAppended ==
    ASSUME NEW S, NEW s \in Seq(S), NEW x \in S
    PROVE  /\ Append(s, x) \in Seq(S)
           /\ Append(s, x) # << >>
           /\ Len(Append(s, x)) = Len(s) + 1
           /\ \A i \in 1 .. Len(s) : Append(s, x)[i] = s[i]
           /\ Append(s, x)[Len(s) + 1] = x
  OBVIOUS

(* The facts about finite sets that the lemmas below need.  They are those  *)
(* of the library of theorems, from which DsgLockTheorems derives them.     *)
FiniteSetFacts ==
    /\ IsFiniteSet({}) /\ Cardinality({}) = 0
    /\ \A S : IsFiniteSet(S) =>
          /\ Cardinality(S) \in Nat
          /\ Cardinality(S) = 0 <=> S = {}
          /\ \A x : /\ x \notin S => Cardinality(S \cup {x}) = Cardinality(S) + 1
                    /\ x \in S => Cardinality(S \ {x}) = Cardinality(S) - 1
          /\ \A T \in SUBSET S :
                /\ IsFiniteSet(T)
                /\ Cardinality(T) <= Cardinality(S)
                /\ Cardinality(S) = Cardinality(T) => S = T
          /\ \A T : \A f \in [S -> T] :
                (\A y \in T : \E x \in S : f[x] = y)
                    => IsFiniteSet(T) /\ Cardinality(T) <= Cardinality(S)

-----------------------------------------------------------------------------
(* What the lock types answer.                                             *)

Answers == [lock : LockRecords, action : {"grant", "wait", "notify", "none"}]

(* The updates of a lock record that the lock types make keep its type.     *)
LEMMA LockRecordUpdates ==
    ASSUME NEW dl \in LockRecords, NEW x \in Int, NEW e \in Nat,
           NEW st \in {"unlocked", "locked"}
    PROVE  /\ [dl EXCEPT !.rd_cnt = x, !.rd_lock_state = st] \in LockRecords
           /\ [dl EXCEPT !.wr_cnt = x, !.wr_lock_state = st] \in LockRecords
           /\ [dl EXCEPT !.wr_cnt = x, !.wr_lock_state = st, !.wr_epoch = e] \in LockRecords
           /\ [dl EXCEPT !.rd_notify_cnt = 0, !.wr_cnt = x, !.rd_epoch = e] \in LockRecords
           /\ [dl EXCEPT !.wr_notify_cnt = 0, !.rd_cnt = x, !.wr_epoch = e] \in LockRecords
<1>1. \A d \in LockRecords :
         /\ [d EXCEPT !.rd_cnt = x] \in LockRecords
         /\ [d EXCEPT !.wr_cnt = x] \in LockRecords
         /\ [d EXCEPT !.rd_lock_state = st] \in LockRecords
         /\ [d EXCEPT !.wr_lock_state = st] \in LockRecords
         /\ [d EXCEPT !.rd_epoch = e] \in LockRecords
         /\ [d EXCEPT !.wr_epoch = e] \in LockRecords
         /\ [d EXCEPT !.rd_notify_cnt = 0] \in LockRecords
         /\ [d EXCEPT !.wr_notify_cnt = 0] \in LockRecords
  BY ZenonT(40) DEF LockRecords
<1>2. [dl EXCEPT !.rd_cnt = x, !.rd_lock_state = st]
        = [[dl EXCEPT !.rd_cnt = x] EXCEPT !.rd_lock_state = st]
  BY ZenonT(40)
<1>3. [dl EXCEPT !.wr_cnt = x, !.wr_lock_state = st]
        = [[dl EXCEPT !.wr_cnt = x] EXCEPT !.wr_lock_state = st]
  BY ZenonT(40)
<1>4. [dl EXCEPT !.wr_cnt = x, !.wr_lock_state = st, !.wr_epoch = e]
        = [[[dl EXCEPT !.wr_cnt = x] EXCEPT !.wr_lock_state = st] EXCEPT !.wr_epoch = e]
  BY ZenonT(40)
<1>5. [dl EXCEPT !.rd_notify_cnt = 0, !.wr_cnt = x, !.rd_epoch = e]
        = [[[dl EXCEPT !.rd_notify_cnt = 0] EXCEPT !.wr_cnt = x] EXCEPT !.rd_epoch = e]
  BY ZenonT(40)
<1>6. [dl EXCEPT !.wr_notify_cnt = 0, !.rd_cnt = x, !.wr_epoch = e]
        = [[[dl EXCEPT !.wr_notify_cnt = 0] EXCEPT !.rd_cnt = x] EXCEPT !.wr_epoch = e]
  BY ZenonT(40)
<1> QED
  BY ZenonT(40), <1>1, <1>2, <1>3, <1>4, <1>5, <1>6

(* Every lock type answers a request with a lock record and one of the four *)
(* actions: grant or wait for a lock, notify or none for a release.         *)
LEMMA ProcessRequestType ==
    ASSUME NEW dl \in LockRecords, NEW m \in Requests, NEW b \in BOOLEAN
    PROVE  LET r == process_request(dl, m, b)
           IN /\ r \in Answers
              /\ m.kind = "get" => r.action \in {"grant", "wait"}
              /\ m.kind = "release" => r.action \in {"notify", "none"}
<1>1. /\ dl.rd_cnt \in Int /\ dl.wr_cnt \in Int
      /\ dl.rd_epoch \in Nat /\ dl.wr_epoch \in Nat
  BY ZenonT(40) DEF LockRecords
<1>2. /\ m.kind \in {"get", "release"} /\ m.mode \in {"read", "write"}
      /\ MaxReaders \in Int
  BY ConfAssumption DEF Requests, Modes
<1>3. /\ [dl EXCEPT !.rd_cnt = @ - 1] \in LockRecords
      /\ [dl EXCEPT !.wr_cnt = @ - 1] \in LockRecords
      /\ [dl EXCEPT !.rd_notify_cnt = @ + 1] \in LockRecords
      /\ [dl EXCEPT !.wr_notify_cnt = @ + 1] \in LockRecords
  BY DEF LockRecords
<1>n. /\ 0 \in Int /\ 1 \in Int /\ 0 \in Nat
      /\ dl.rd_cnt + 1 \in Int /\ dl.wr_cnt + 1 \in Int
      /\ dl.rd_epoch + 1 \in Nat /\ dl.wr_epoch + 1 \in Nat
  BY <1>1
<1>g. /\ [dl EXCEPT !.rd_cnt = @ + 1, !.rd_lock_state = "locked"] \in LockRecords
      /\ [dl EXCEPT !.rd_cnt = 0, !.rd_lock_state = "unlocked"] \in LockRecords
      /\ [dl EXCEPT !.wr_cnt = @ + 1, !.wr_lock_state = "locked"] \in LockRecords
      /\ [dl EXCEPT !.wr_cnt = 0, !.wr_lock_state = "unlocked"] \in LockRecords
  BY <1>n, LockRecordUpdates, ZenonT(40)
<1>s. /\ [dl EXCEPT !.rd_notify_cnt = 0, !.wr_cnt = 1, !.rd_epoch = @ + 1] \in LockRecords
      /\ [dl EXCEPT !.wr_notify_cnt = 0, !.rd_cnt = MaxReaders, !.wr_epoch = @ + 1]
            \in LockRecords
  BY <1>n, <1>2, LockRecordUpdates, ZenonT(40)
<1>v. [dl EXCEPT !.wr_cnt = 0, !.wr_lock_state = "unlocked", !.wr_epoch = @ + 1]
         \in LockRecords
  BY <1>n, LockRecordUpdates, ZenonT(40)
<1>4. \A d \in LockRecords : \A a \in {"grant", "wait", "notify", "none"} :
         /\ Result(d, a) \in Answers
         /\ Result(d, a).action = a
  BY ZenonT(40) DEF Result, Answers
<1>5. \A c \in BOOLEAN :
         LET r == lock_process_request(dl, m, c)
         IN /\ r \in Answers
            /\ m.kind = "get" => r.action \in {"grant", "wait"}
            /\ m.kind = "release" => r.action \in {"notify", "none"}
  <2> SUFFICES ASSUME NEW c \in BOOLEAN
               PROVE  LET r == lock_process_request(dl, m, c)
                      IN /\ r \in Answers
                         /\ m.kind = "get" => r.action \in {"grant", "wait"}
                         /\ m.kind = "release" => r.action \in {"notify", "none"}
    BY ZenonT(40)
  <2>1. CASE m.kind = "get" /\ m.mode = "read"
    BY ZenonT(40), <1>3, <1>g, <1>4, <2>1 DEF lock_process_request
  <2>2. CASE m.kind = "release" /\ m.mode = "read"
    BY ZenonT(40), <1>3, <1>g, <1>4, <2>2 DEF lock_process_request
  <2>3. CASE m.kind = "get" /\ m.mode = "write"
    BY ZenonT(40), <1>3, <1>g, <1>4, <2>3 DEF lock_process_request
  <2>4. CASE m.kind = "release" /\ m.mode = "write"
    BY ZenonT(40), <1>3, <1>g, <1>4, <2>4 DEF lock_process_request
  <2> QED
    BY ZenonT(40), <1>2, <2>1, <2>2, <2>3, <2>4
<1>6. CASE LockType = "generic"
  BY ZenonT(40), <1>5, <1>6 DEF process_request
<1>7. CASE LockType = "custom"
  <2>1. CASE m.kind = "get" /\ m.mode = "read"
    BY ZenonT(40), <1>3, <1>4, <1>7, <2>1 DEF process_request, sem_process_request
  <2>2. CASE m.kind = "release" /\ m.mode = "read"
    BY ZenonT(40), <1>3, <1>s, <1>4, <1>7, <2>2 DEF process_request, sem_process_request, WrMax
  <2>3. CASE m.kind = "get" /\ m.mode = "write"
    BY ZenonT(40), <1>3, <1>4, <1>7, <2>3 DEF process_request, sem_process_request
  <2>4. CASE m.kind = "release" /\ m.mode = "write"
    BY ZenonT(40), <1>3, <1>s, <1>4, <1>7, <2>4 DEF process_request, sem_process_request, WrMax
  <2> QED
    BY ZenonT(40), <1>2, <2>1, <2>2, <2>3, <2>4
<1>8. CASE LockType = "v3"
  <2>1. CASE m.kind = "get" /\ m.mode = "read"
    BY ZenonT(40), <1>1, <1>5, <1>8, <2>1 DEF process_request, lock_process_request_v3
  <2>2. CASE m.kind = "release" /\ m.mode = "write" /\ dl.wr_cnt = 1
    BY ZenonT(40), <1>v, <1>4, <1>8, <2>2 DEF process_request, lock_process_request_v3
  <2>3. CASE /\ ~(m.kind = "get" /\ m.mode = "read")
             /\ ~(m.kind = "release" /\ m.mode = "write" /\ dl.wr_cnt = 1)
    BY ZenonT(40), <1>5, <1>8, <2>3 DEF process_request, lock_process_request_v3
  <2> QED
    BY ZenonT(40), <2>1, <2>2, <2>3
<1> QED
  BY ZenonT(40), <1>6, <1>7, <1>8, ConfAssumption

-----------------------------------------------------------------------------
(* The sequences of the state.                                             *)

(* Removing one entry of a wait list keeps the others in order.             *)
LEMMA DeletedEntry ==
    ASSUME NEW S, NEW s \in Seq(S), NEW i \in 1 .. Len(s)
    PROVE  /\ list_del(s, i) \in Seq(S)
           /\ Len(list_del(s, i)) = Len(s) - 1
           /\ \A k \in 1 .. Len(s) - 1 :
                 list_del(s, i)[k] = IF k < i THEN s[k] ELSE s[k + 1]
<1> DEFINE a == SubSeq(s, 1, i - 1)
           b == SubSeq(s, i + 1, Len(s))
<1>1. /\ a \in Seq(S) /\ Len(a) = i - 1
      /\ \A k \in 1 .. i - 1 : a[k] = s[k]
  BY ListPart
<1>2. /\ b \in Seq(S) /\ Len(b) = Len(s) - i
      /\ \A k \in 1 .. Len(s) - i : b[k] = s[i + k]
  BY ListPart
<1>3. list_del(s, i) = a \o b
  BY ZenonT(40) DEF list_del
<1> HIDE DEF a, b
<1>4. /\ a \o b \in Seq(S)
      /\ Len(a \o b) = Len(s) - 1
      /\ \A k \in 1 .. Len(s) - 1 :
            (a \o b)[k] = IF k <= i - 1 THEN a[k] ELSE b[k - (i - 1)]
  <2>1. a \o b \in Seq(S) /\ Len(a \o b) = Len(a) + Len(b)
    BY ZenonT(40), <1>1, <1>2, ListConcat
  <2>2. \A k \in 1 .. Len(a) + Len(b) :
           (a \o b)[k] = IF k <= Len(a) THEN a[k] ELSE b[k - Len(a)]
    BY ZenonT(40), <1>1, <1>2, ListConcat
  <2> QED
    BY <1>1, <1>2, <2>1, <2>2
<1>5. ASSUME NEW k \in 1 .. Len(s) - 1
      PROVE  (a \o b)[k] = IF k < i THEN s[k] ELSE s[k + 1]
  <2>1. k \in Int /\ i \in Int /\ Len(s) \in Int
    OBVIOUS
  <2>2. CASE k < i
    BY SMTT(40), <1>1, <1>4, <2>1, <2>2
  <2>3. CASE ~(k < i)
    <3>1. k - (i - 1) \in 1 .. Len(s) - i /\ i + (k - (i - 1)) = k + 1
      BY SMTT(40), <2>1, <2>3
    <3>2. b[k - (i - 1)] = s[k + 1]
      BY ZenonT(40), <1>2, <3>1
    <3>3. ~(k <= i - 1)
      BY SMTT(40), <2>1, <2>3
    <3>4. (a \o b)[k] = b[k - (i - 1)]
      BY ZenonT(40), <1>4, <3>3
    <3> QED
      BY ZenonT(40), <2>3, <3>2, <3>4
  <2> QED
    BY ZenonT(40), <2>2, <2>3
<1> QED
  BY ZenonT(40), <1>3, <1>4, <1>5

(* What the sequences of the state are.                                     *)
LEMMA SequenceFacts ==
    ASSUME TypeOK
    PROVE  /\ \A p \in Procs :
                 /\ Len(req[p]) \in Nat /\ DOMAIN req[p] = 1 .. Len(req[p])
                 /\ req[p] = <<>> <=> Len(req[p]) = 0
                 /\ Len(grant[p]) \in Nat
                 /\ grant[p] = <<>> <=> Len(grant[p]) = 0
           /\ \A n \in Names :
                 /\ Len(wait_list[n]) \in Nat
                 /\ DOMAIN wait_list[n] = 1 .. Len(wait_list[n])
                 /\ \A i \in DOMAIN wait_list[n] : wait_list[n][i].proc \in Procs
<1>1. ASSUME NEW p \in Procs
      PROVE  /\ Len(req[p]) \in Nat /\ DOMAIN req[p] = 1 .. Len(req[p])
             /\ req[p] = <<>> <=> Len(req[p]) = 0
             /\ Len(grant[p]) \in Nat
             /\ grant[p] = <<>> <=> Len(grant[p]) = 0
  <2>1. req[p] \in Seq(Requests) /\ grant[p] \in Seq(Grants)
    BY ZenonT(40) DEF TypeOK
  <2> QED
    BY ZenonT(40), <2>1, ListLength, EmptyList
<1>2. ASSUME NEW n \in Names
      PROVE  /\ Len(wait_list[n]) \in Nat
             /\ DOMAIN wait_list[n] = 1 .. Len(wait_list[n])
             /\ \A i \in DOMAIN wait_list[n] : wait_list[n][i].proc \in Procs
  <2>1. wait_list[n] \in Seq(Pending)
    BY ZenonT(40) DEF TypeOK
  <2>2. Len(wait_list[n]) \in Nat /\ DOMAIN wait_list[n] = 1 .. Len(wait_list[n])
    BY ZenonT(40), <2>1, ListLength
  <2>3. \A i \in DOMAIN wait_list[n] : wait_list[n][i] \in Pending
    BY <2>1
  <2> QED
    BY ZenonT(40), <2>2, <2>3 DEF Pending
<1> QED
  BY ZenonT(40), <1>1, <1>2

(* A request of a client, and the message a grant is, have their types.     *)
LEMMA MessageTypes ==
    ASSUME TypeOK, NEW p \in Procs
    PROVE  /\ req[p] # <<>> => /\ Head(req[p]) \in Requests
                               /\ Head(req[p]) = req[p][1]
                               /\ Tail(req[p]) \in Seq(Requests)
           /\ grant[p] # <<>> => /\ Head(grant[p]) \in Grants
                                 /\ Head(grant[p]) = grant[p][1]
                                 /\ Tail(grant[p]) \in Seq(Grants)
<1>1. req[p] \in Seq(Requests) /\ grant[p] \in Seq(Grants)
  BY ZenonT(40) DEF TypeOK
<1> QED
  BY SMTT(40), <1>1, ListHeadTail

-----------------------------------------------------------------------------
(* What the steps find.                                                    *)

(* A process that begins an operation is none that holds, waits for or has  *)
(* been sent a grant.                                                      *)
LEMMA IdleFacts ==
    ASSUME IInv, NEW p \in Procs, pc[p] = "idle"
    PROVE  /\ grant[p] = <<>>
           /\ ~Waiting(p)
           /\ Len(req[p]) <= 1
           /\ \A i \in DOMAIN req[p] : req[p][i].kind = "release"
           /\ \A q \in Procs : AppOf[q] = AppOf[p] => pc[q] \notin HeldPC
<1>1. grant[p] = <<>>
  BY ZenonT(40) DEF IInv, GrantOrder
<1>2. ~Waiting(p)
  BY Zenon DEF IInv, WaitOrder, Waiting
<1>3. /\ Len(req[p]) <= 1
      /\ \A i \in DOMAIN req[p] : req[p][i].kind = "release"
  <2>1. ASSUME NEW i \in DOMAIN req[p] PROVE req[p][i].kind \in {"get", "release"}
    <3>1. req[p] \in Seq(Requests)
      BY ZenonT(40) DEF IInv, TypeOK
    <3>2. req[p][i] \in Requests
      BY <2>1, <3>1
    <3> QED
      BY ZenonT(40), <3>2 DEF Requests
  <2> QED
    BY ZenonT(40), <2>1 DEF IInv, RequestOrder, RequestsInOrder
<1>4. ASSUME NEW q \in Procs, AppOf[q] = AppOf[p] PROVE pc[q] \notin HeldPC
  BY ZenonT(40), <1>4 DEF IInv, Together, HeldPC
<1> QED
  BY ZenonT(40), <1>1, <1>2, <1>3, <1>4

(* The request the server receives: it comes from a master, and the rest of  *)
(* the connection is in order.                                              *)
LEMMA ReceivedRequest ==
    ASSUME IInv, TypeOK', NEW p \in Procs, Receive(p)
    PROVE  /\ Head(req[p]) \in Requests /\ Head(req[p]) = req[p][1]
           /\ IsMaster(p) /\ req[p] # <<>> /\ 1 \in DOMAIN req[p]
           /\ req'[p] = Tail(req[p]) /\ \A q \in Procs \ {p} : req'[q] = req[q]
           /\ Len(req'[p]) = Len(req[p]) - 1
           /\ DOMAIN req'[p] = 1 .. Len(req[p]) - 1
           /\ \A i \in 1 .. Len(req[p]) - 1 : req'[p][i] = req[p][i + 1]
           /\ Len(req[p]) \in Nat \ {0} /\ DOMAIN req[p] = 1 .. Len(req[p])
           /\ req'[p] = <<>> <=> Len(req[p]) = 1
           /\ Head(req[p]).kind = "get" => Len(req[p]) = 1
<1>1. req[p] # <<>> /\ req' = [req EXCEPT ![p] = Tail(req[p])]
  BY ZenonT(40) DEF Receive
<1>2. Head(req[p]) \in Requests /\ Head(req[p]) = req[p][1]
  BY ZenonT(40), <1>1, MessageTypes DEF IInv
<1>3. IsMaster(p)
  BY ZenonT(40), <1>1 DEF IInv, MastersOnly
<1>4. req'[p] = Tail(req[p]) /\ \A q \in Procs \ {p} : req'[q] = req[q]
  BY ZenonT(40), <1>1 DEF IInv, TypeOK
<1>5. req[p] \in Seq(Requests)
  BY ZenonT(40) DEF IInv, TypeOK
<1>6. /\ Len(req[p]) \in Nat \ {0} /\ DOMAIN req[p] = 1 .. Len(req[p])
      /\ 1 \in DOMAIN req[p]
  BY SMTT(40), <1>1, <1>5, ListLength, EmptyList
<1>7. /\ Tail(req[p]) \in Seq(Requests)
      /\ Len(Tail(req[p])) = Len(req[p]) - 1
      /\ \A i \in 1 .. Len(req[p]) - 1 : Tail(req[p])[i] = req[p][i + 1]
  BY ZenonT(40), <1>1, <1>5, ListHeadTail
<1>8. /\ DOMAIN Tail(req[p]) = 1 .. Len(req[p]) - 1
      /\ Tail(req[p]) = <<>> <=> Len(req[p]) = 1
  <2>1. \A t \in Seq(Requests) : DOMAIN t = 1 .. Len(t) /\ (t = <<>> <=> Len(t) = 0)
    BY ZenonT(40), ListLength, EmptyList
  <2>2. /\ DOMAIN Tail(req[p]) = 1 .. Len(Tail(req[p]))
        /\ Tail(req[p]) = <<>> <=> Len(Tail(req[p])) = 0
    BY <1>7, <2>1, ZenonT(40)
  <2> QED
    BY SMTT(40), <1>6, <1>7, <2>2
<1>9. Head(req[p]).kind = "get" => Len(req[p]) = 1
  BY ZenonT(40), <1>2, <1>6 DEF IInv, RequestOrder, RequestsInOrder
<1> QED
  BY ZenonT(40), <1>1, <1>2, <1>3, <1>4, <1>6, <1>7, <1>8, <1>9

(* The request of the wait list that the loop of the server is at.          *)
LEMMA ScannedRequest ==
    ASSUME IInv, NEW n \in Names, scan[n] # 0, ~(scan[n] > Len(wait_list[n]))
    PROVE  LET w == wait_list[n][scan[n]]
           IN /\ scan[n] \in DOMAIN wait_list[n]
              /\ w.proc \in Procs /\ w.mode \in Modes /\ w.num \in Nat
              /\ IsMaster(w.proc) /\ pc[w.proc] = "acking" /\ ~ack[w.proc][n]
              /\ op[w.proc] = [name |-> n, mode |-> w.mode]
              /\ req[w.proc] = <<>> /\ grant[w.proc] = <<>>
              /\ \A k \in Names : \A i \in DOMAIN wait_list[k] :
                    wait_list[k][i].proc = w.proc => k = n /\ i = scan[n]
<1> DEFINE w == wait_list[n][scan[n]]
<1>1. wait_list[n] \in Seq(Pending) /\ scan[n] \in 1 .. Len(wait_list[n])
  BY DEF IInv, TypeOK
<1>2. w \in Pending /\ scan[n] \in DOMAIN wait_list[n]
  BY SMTT(40), <1>1, EntryType
<1>3. w.proc \in Procs /\ w.mode \in Modes /\ w.num \in Nat
  BY ZenonT(40), <1>2 DEF Pending
<1>4. /\ IsMaster(w.proc) /\ pc[w.proc] = "acking" /\ ~ack[w.proc][n]
      /\ op[w.proc] = [name |-> n, mode |-> w.mode]
      /\ req[w.proc] = <<>> /\ grant[w.proc] = <<>>
      /\ \A j \in DOMAIN wait_list[n] : wait_list[n][j].proc = w.proc => scan[n] = j
  BY <1>2, ZenonT(40) DEF IInv, WaitOrder
<1>5. ASSUME NEW k \in Names, NEW i \in DOMAIN wait_list[k], wait_list[k][i].proc = w.proc
      PROVE  k = n /\ i = scan[n]
  <2>1. op[w.proc] = [name |-> k, mode |-> wait_list[k][i].mode]
    <3>1. op[wait_list[k][i].proc] = [name |-> k, mode |-> wait_list[k][i].mode]
      BY ZenonT(40) DEF IInv, WaitOrder
    <3> QED
      BY ZenonT(40), <1>5, <3>1
  <2>2. k = n
    BY SMTT(40), <1>4, <2>1
  <2> QED
    BY ZenonT(40), <1>4, <1>5, <2>2
<1> QED
  BY ZenonT(40), <1>2, <1>3, <1>4, <1>5

(* The order of the wait lists is kept by a step that leaves them, and the  *)
(* clients in them, as they are.                                            *)
LEMMA WaitOrderKept ==
    ASSUME WaitOrder, wait_list' = wait_list,
           \A n \in Names : \A i \in DOMAIN wait_list[n] :
               /\ pc'[wait_list[n][i].proc] = pc[wait_list[n][i].proc]
               /\ ack'[wait_list[n][i].proc] = ack[wait_list[n][i].proc]
               /\ op'[wait_list[n][i].proc] = op[wait_list[n][i].proc]
               /\ req'[wait_list[n][i].proc] = req[wait_list[n][i].proc]
               /\ grant'[wait_list[n][i].proc] = grant[wait_list[n][i].proc]
    PROVE  WaitOrder'
<1>1. ASSUME NEW n \in Names, NEW i \in DOMAIN wait_list'[n]
      PROVE  /\ IsMaster(wait_list'[n][i].proc)
             /\ pc'[wait_list'[n][i].proc] = "acking"
             /\ ~ack'[wait_list'[n][i].proc][n]
             /\ op'[wait_list'[n][i].proc] = [name |-> n, mode |-> wait_list'[n][i].mode]
             /\ req'[wait_list'[n][i].proc] = <<>>
             /\ grant'[wait_list'[n][i].proc] = <<>>
             /\ \A j \in DOMAIN wait_list'[n] :
                   wait_list'[n][j].proc = wait_list'[n][i].proc => i = j
  <2> DEFINE w == wait_list[n][i]
  <2>1. i \in DOMAIN wait_list[n] /\ wait_list'[n][i] = w /\ wait_list'[n] = wait_list[n]
    BY ZenonT(40)
  <2>2. /\ IsMaster(w.proc) /\ pc[w.proc] = "acking" /\ ~ack[w.proc][n]
        /\ op[w.proc] = [name |-> n, mode |-> w.mode]
        /\ req[w.proc] = <<>> /\ grant[w.proc] = <<>>
        /\ \A j \in DOMAIN wait_list[n] : wait_list[n][j].proc = w.proc => i = j
    BY ZenonT(40), <2>1 DEF WaitOrder
  <2>3. /\ pc'[w.proc] = "acking" /\ ~ack'[w.proc][n]
        /\ op'[w.proc] = [name |-> n, mode |-> w.mode]
        /\ req'[w.proc] = <<>> /\ grant'[w.proc] = <<>>
    BY ZenonT(40), <2>1, <2>2
  <2> HIDE DEF w
  <2> QED
    BY ZenonT(40), <2>1, <2>2, <2>3
<1> QED
  BY ZenonT(40), <1>1 DEF WaitOrder, IsMaster

-----------------------------------------------------------------------------
(* The answers keep the counters in agreement with the holders.            *)

(* Cardinalities of the sets of holders.                                    *)
LEMMA Holders ==
    ASSUME FiniteSetFacts, NEW R \in SUBSET Procs, NEW p \in Procs
    PROVE  /\ Cardinality(R) \in Nat
           /\ Cardinality({}) = 0
           /\ Cardinality(R) = 0 <=> R = {}
           /\ p \notin R => Cardinality(R \cup {p}) = Cardinality(R) + 1
           /\ p \in R => Cardinality(R \ {p}) = Cardinality(R) - 1
<1>1. IsFiniteSet(R)
  BY ZenonT(40), TopologyAssumption DEF FiniteSetFacts
<1> QED
  BY ZenonT(40), <1>1 DEF FiniteSetFacts

(* A grant goes to a reader when there is no writer, and to a writer when   *)
(* there is neither reader nor writer; the counters then include it.        *)
LEMMA AccountedGet ==
    ASSUME FiniteSetFacts, NEW dl \in LockRecords, NEW m \in Requests, NEW b \in BOOLEAN,
           NEW R \in SUBSET Procs, NEW W \in SUBSET Procs, NEW p \in Procs,
           m.kind = "get", p \notin R, Accounted(dl, R, W)
    PROVE  LET r == process_request(dl, m, b)
           IN /\ r.action = "wait" => r.lock = dl
              /\ r.action = "grant" /\ m.mode = "read" =>
                    W = {} /\ Accounted(r.lock, R \cup {p}, W)
              /\ r.action = "grant" /\ m.mode = "write" =>
                    R = {} /\ W = {} /\ Accounted(r.lock, R, W \cup {p})
<1> DEFINE r == process_request(dl, m, b)
<1>1. m.mode \in {"read", "write"} /\ MaxReaders \in Nat \ {0}
  BY ZenonT(40), ConfAssumption DEF Requests, Modes
<1>2. /\ Cardinality(R) \in Nat
      /\ Cardinality({}) = 0
      /\ Cardinality(R \cup {p}) = Cardinality(R) + 1
      /\ R \cup {p} # {}
  <2>1. R \cup {p} # {}
    BY ZenonT(40)
  <2> QED
    BY ZenonT(40), <2>1, Holders
<1>3. CASE LockType = "custom"
  <2>1. CASE m.mode = "read"
    BY SMTT(40), <1>1, <1>2, <1>3, <2>1
       DEF process_request, sem_process_request, Result, Accounted, SemAccounting,
           LockRecords, AtMostOne
  <2>2. CASE m.mode = "write"
    BY SMTT(40), <1>1, <1>2, <1>3, <2>2
       DEF process_request, sem_process_request, Result, Accounted, SemAccounting,
           LockRecords, AtMostOne
  <2> QED
    BY ZenonT(40), <1>1, <2>1, <2>2
<1>4. CASE LockType # "custom"
  <2>1. PICK c \in BOOLEAN : r = lock_process_request(dl, m, c)
    BY ZenonT(40), <1>1, <1>4, ConfAssumption DEF process_request, lock_process_request_v3, LockRecords
  <2>2. CASE m.mode = "read"
    BY SMTT(40), <1>1, <1>2, <1>4, <2>1, <2>2
       DEF lock_process_request, Result, Accounted, LockAccounting, LockRecords, AtMostOne
  <2>3. CASE m.mode = "write"
    BY SMTT(40), <1>1, <1>2, <1>4, <2>1, <2>3
       DEF lock_process_request, Result, Accounted, LockAccounting, LockRecords, AtMostOne
  <2> QED
    BY ZenonT(40), <1>1, <2>2, <2>3
<1> QED
  BY ZenonT(40), <1>3, <1>4

(* A release takes the holder out of the counters.                          *)
LEMMA AccountedRelease ==
    ASSUME FiniteSetFacts, NEW dl \in LockRecords, NEW m \in Requests, NEW b \in BOOLEAN,
           NEW R \in SUBSET Procs, NEW W \in SUBSET Procs, NEW p \in Procs,
           m.kind = "release", Accounted(dl, R, W)
    PROVE  LET r == process_request(dl, m, b)
           IN /\ m.mode = "read" /\ p \in R => Accounted(r.lock, R \ {p}, W)
              /\ m.mode = "write" /\ p \in W => Accounted(r.lock, R, W \ {p})
<1> DEFINE r == process_request(dl, m, b)
<1>1. m.mode \in {"read", "write"} /\ MaxReaders \in Nat \ {0}
  BY ZenonT(40), ConfAssumption DEF Requests, Modes
<1>2. Cardinality(R) \in Nat /\ Cardinality({}) = 0
  BY ZenonT(40), Holders
<1>3. CASE m.mode = "read" /\ p \in R
  <2>1. /\ Cardinality(R \ {p}) = Cardinality(R) - 1
        /\ Cardinality(R \ {p}) \in Nat
        /\ Cardinality(R \ {p}) = 0 <=> R \ {p} = {}
        /\ R # {}
    <3>1. R \ {p} \in SUBSET Procs
      BY ZenonT(40)
    <3> QED
      BY ZenonT(40), <1>3, <3>1, Holders
  <2>2. CASE LockType = "custom"
    BY SMTT(40), <1>1, <1>2, <1>3, <2>1, <2>2
       DEF process_request, sem_process_request, Result, Accounted, SemAccounting,
           LockRecords, AtMostOne, WrMax
  <2>3. CASE LockType # "custom"
    <3>1. r = lock_process_request(dl, m, b)
      BY ZenonT(40), <1>3, <2>3, ConfAssumption DEF process_request, lock_process_request_v3
    <3> QED
      BY SMTT(40), <1>1, <1>2, <1>3, <2>1, <2>3, <3>1
         DEF lock_process_request, Result, Accounted, LockAccounting, LockRecords, AtMostOne
  <2> QED
    BY ZenonT(40), <1>3, <2>2, <2>3
<1>4. CASE m.mode = "write" /\ p \in W
  <2>1. W # {} /\ W \ {p} = {}
    BY ZenonT(40), <1>4 DEF Accounted, AtMostOne
  <2>2. CASE LockType = "custom"
    <3>1. r.lock = [dl EXCEPT !.wr_notify_cnt = 0, !.rd_cnt = MaxReaders,
                              !.wr_epoch = @ + 1]
      BY SMTT(40), <1>4, <2>1, <2>2
         DEF process_request, sem_process_request, Result, Accounted, SemAccounting, WrMax
    <3>2. /\ r.lock.wr_notify_cnt = 0 /\ r.lock.rd_cnt = MaxReaders
          /\ r.lock.wr_cnt = dl.wr_cnt /\ r.lock.rd_notify_cnt = dl.rd_notify_cnt
      BY ZenonT(40), <3>1 DEF LockRecords
    <3>3. R = {} /\ dl.wr_cnt = 0 /\ dl.rd_notify_cnt = 0
      BY ZenonT(40), <2>1, <2>2 DEF Accounted, SemAccounting
    <3>4. Accounted(r.lock, R, W \ {p})
      <4> HIDE DEF r
      <4> QED
        BY SMTT(40), <1>1, <1>2, <2>1, <2>2, <3>2, <3>3
           DEF Accounted, SemAccounting, AtMostOne
    <3> QED
      BY ZenonT(40), <1>4, <3>4
  <2>3. CASE LockType = "generic"
    BY ZenonT(40), <1>1, <1>2, <1>4, <2>1, <2>3
       DEF process_request, lock_process_request, Result, Accounted, LockAccounting,
           LockRecords, AtMostOne
  <2>4. CASE LockType = "v3"
    BY ZenonT(40), <1>1, <1>2, <1>4, <2>1, <2>4
       DEF process_request, lock_process_request_v3, Result, Accounted, LockAccounting,
           LockRecords, AtMostOne
  <2> QED
    BY ZenonT(40), <1>4, <2>2, <2>3, <2>4, ConfAssumption
<1> QED
  BY ZenonT(40), <1>3, <1>4

-----------------------------------------------------------------------------
(* The clients: dspaces_lock_on_read/write, dspaces_unlock_on_read/write.  *)

(* dspaces_lock_on_read and dspaces_lock_on_write keep the invariant.       *)
LEMMA LockCallStep ==
    ASSUME IInv, TypeOK', NEW p \in Procs, NEW c \in Calls, LockCall(p, c)
    PROVE  IInv'
<1>1. pc[p] = "idle"
  BY ZenonT(40) DEF LockCall
<1>2. /\ grant[p] = <<>>
      /\ ~Waiting(p)
      /\ Len(req[p]) <= 1
      /\ \A i \in DOMAIN req[p] : req[p][i].kind = "release"
      /\ \A q \in Procs : AppOf[q] = AppOf[p] => pc[q] \notin HeldPC
  BY ZenonT(40), <1>1, IdleFacts
<1>3. /\ op' = [op EXCEPT ![p] = c]
      /\ UNCHANGED <<lock_num, grant, serverVars>>
      /\ Collective(p, c)
  BY ZenonT(40) DEF LockCall
<1>4. Together'
  <2>1. pc' = [pc EXCEPT ![p] = pc'[p]] /\ pc'[p] \in CallPC
    BY ZenonT(40) DEF LockCall, CallPC, IInv, TypeOK
  <2>2. op'[p] = c /\ \A q \in Procs \ {p} : op'[q] = op[q] /\ pc'[q] = pc[q]
    BY ZenonT(40), <1>3, <2>1 DEF IInv, TypeOK
  <2>3. \A q \in Procs : AppOf[q] = AppOf[p] /\ pc[q] \in CallPC => op[q] = c
    BY ZenonT(40), <1>3 DEF Collective, CallPC, Members
  <2>4. CallPC \cap HeldPC = {}
    BY ZenonT(40) DEF CallPC, HeldPC
  <2> QED
    BY SMTT(40), <1>2, <2>1, <2>2, <2>3, <2>4 DEF IInv, Together
<1>5. CASE ~IsMaster(p)
  <2>1. pc' = [pc EXCEPT ![p] = "lock_barrier"] /\ UNCHANGED <<req, ack>>
    BY ZenonT(40), <1>5 DEF LockCall
  <2>2. MastersOnly'
    BY ZenonT(40), <1>3, <2>1 DEF IInv, TypeOK, MastersOnly, IsMaster
  <2>3. RequestOrder'
    BY SMTT(40), <1>1, <1>2, <1>3, <1>5, <2>1
       DEF IInv, TypeOK, MastersOnly, RequestOrder, RequestsInOrder, Waiting, serverVars, IsMaster, PastAck
  <2>4. WaitOrder'
    <3>0. /\ \A q \in Procs \ {p} : pc'[q] = pc[q] /\ op'[q] = op[q]
          /\ ack' = ack /\ req' = req /\ grant' = grant /\ wait_list' = wait_list
      BY ZenonT(40), <1>3, <2>1 DEF IInv, TypeOK, serverVars
    <3>1. ASSUME NEW n \in Names, NEW i \in DOMAIN wait_list[n]
          PROVE  wait_list[n][i].proc \in Procs \ {p}
      BY ZenonT(40), <1>2, SequenceFacts DEF IInv, Waiting
    <3>2. ASSUME NEW n \in Names, NEW i \in DOMAIN wait_list[n]
          PROVE  /\ pc'[wait_list[n][i].proc] = pc[wait_list[n][i].proc]
                 /\ ack'[wait_list[n][i].proc] = ack[wait_list[n][i].proc]
                 /\ op'[wait_list[n][i].proc] = op[wait_list[n][i].proc]
                 /\ req'[wait_list[n][i].proc] = req[wait_list[n][i].proc]
                 /\ grant'[wait_list[n][i].proc] = grant[wait_list[n][i].proc]
      BY ZenonT(40), <3>0, <3>1
    <3> QED
      BY ZenonT(40), <3>0, <3>2, WaitOrderKept DEF IInv
  <2>5. GrantOrder'
    BY SMTT(40), <1>1, <1>2, <1>3, <2>1 DEF IInv, TypeOK, GrantOrder, Waiting, serverVars
  <2>6. Tokens'
    BY SMTT(120), <1>3, <1>5, <2>1 DEF IInv, TypeOK, Tokens, HasToken, serverVars, IsMaster
  <2> QED
    BY ZenonT(40), <1>3, <1>4, <2>2, <2>3, <2>4, <2>5, <2>6 DEF IInv, Accounting, serverVars
<1>6. CASE IsMaster(p)
  <2> DEFINE m == [kind |-> "get", mode |-> c.mode, name |-> c.name,
                   num |-> lock_num[p][c.name]]
  <2>1. /\ pc' = [pc EXCEPT ![p] = "acking"]
        /\ req' = [req EXCEPT ![p] = Append(req[p], m)]
        /\ ack' = [ack EXCEPT ![p][c.name] = FALSE]
    BY ZenonT(40), <1>6 DEF LockCall, dcg_lock_request
  <2>2. m \in Requests /\ m.kind = "get" /\ m.name = c.name /\ m.mode = c.mode
    BY SMTT(40) DEF IInv, TypeOK, Calls, Requests
  <2> HIDE DEF m
  <2>3. /\ Len(req'[p]) = Len(req[p]) + 1
        /\ DOMAIN req'[p] = 1 .. Len(req[p]) + 1
        /\ \A i \in 1 .. Len(req[p]) : req'[p][i] = req[p][i]
        /\ req'[p][Len(req[p]) + 1] = m
        /\ DOMAIN req[p] = 1 .. Len(req[p])
        /\ Len(req[p]) \in Nat
        /\ req'[p] # <<>>
        /\ req[p] = <<>> <=> Len(req[p]) = 0
    <3>1. req[p] \in Seq(Requests)
      BY ZenonT(40) DEF IInv, TypeOK
    <3>2. req'[p] = Append(req[p], m)
      BY ZenonT(40), <2>1 DEF IInv, TypeOK
    <3> QED
      BY SMTT(40), <2>2, <3>1, <3>2, ListAppended, ListLength, EmptyList
  <2>4. /\ pc'[p] = "acking" /\ op'[p] = c
        /\ ~ack'[p][c.name]
        /\ \A q \in Procs \ {p} : /\ pc'[q] = pc[q] /\ op'[q] = op[q]
                                  /\ req'[q] = req[q] /\ ack'[q] = ack[q]
        /\ grant' = grant /\ wait_list' = wait_list
        /\ rd_holders' = rd_holders /\ wr_holders' = wr_holders
    BY SMTT(40), <1>3, <2>1 DEF IInv, TypeOK, serverVars, Calls
  <2>5. MastersOnly'
    BY ZenonT(40), <1>6, <2>4 DEF IInv, MastersOnly, IsMaster
  <2>6. RequestOrder'
    <3>1. ASSUME NEW q \in Procs \ {p}
          PROVE  Waiting(q)' <=> Waiting(q)
      BY ZenonT(40), <2>4 DEF Waiting
    <3>2. ~Waiting(p)'
      BY ZenonT(40), <1>2, <2>4 DEF Waiting
    <3> QED
      BY SMTT(40), <1>2, <2>2, <2>3, <2>4, <3>1, <3>2
         DEF IInv, RequestOrder, RequestsInOrder, IsMaster, PastAck
  <2>7. WaitOrder'
    <3>1. ASSUME NEW n \in Names, NEW i \in DOMAIN wait_list[n]
          PROVE  wait_list[n][i].proc \in Procs \ {p}
      BY ZenonT(40), <1>2, SequenceFacts DEF IInv, Waiting
    <3>2. ASSUME NEW n \in Names, NEW i \in DOMAIN wait_list[n]
          PROVE  /\ pc'[wait_list[n][i].proc] = pc[wait_list[n][i].proc]
                 /\ ack'[wait_list[n][i].proc] = ack[wait_list[n][i].proc]
                 /\ op'[wait_list[n][i].proc] = op[wait_list[n][i].proc]
                 /\ req'[wait_list[n][i].proc] = req[wait_list[n][i].proc]
                 /\ grant'[wait_list[n][i].proc] = grant[wait_list[n][i].proc]
      BY ZenonT(40), <2>4, <3>1
    <3> QED
      BY ZenonT(40), <2>4, <3>2, WaitOrderKept DEF IInv
  <2>8. GrantOrder'
    BY SMTT(40), <1>2, <2>4 DEF IInv, GrantOrder, Waiting
  <2>9. Tokens'
    <3>1. ASSUME NEW d PROVE HasToken(p, d)' <=> HasToken(p, d)
      BY SMTT(40), <1>1, <1>2, <2>2, <2>3, <2>4 DEF HasToken, PastAck
    <3>2. ASSUME NEW d, NEW q \in Procs \ {p} PROVE HasToken(q, d)' <=> HasToken(q, d)
      BY ZenonT(40), <2>4 DEF HasToken
    <3> QED
      <4> SUFFICES ASSUME NEW q \in Procs, NEW n \in Names
                   PROVE  Tokens!(q, n)'
        BY ZenonT(40) DEF Tokens
      <4>1. \A d : HasToken(q, d)' <=> HasToken(q, d)
        BY ZenonT(40), <3>1, <3>2
      <4>2. Tokens!(q, n)
        BY ZenonT(40) DEF IInv, Tokens
      <4> QED
        BY ZenonT(40), <2>4, <4>1, <4>2 DEF IsMaster
  <2> QED
    BY ZenonT(40), <1>3, <1>4, <2>5, <2>6, <2>7, <2>8, <2>9 DEF IInv, Accounting, serverVars
<1> QED
  BY ZenonT(40), <1>5, <1>6

(* dcgrpc_lock_service moves the permission from the grant to the ack.      *)
LEMMA GrantArrivesStep ==
    ASSUME IInv, TypeOK', NEW p \in Procs, GrantArrives(p)
    PROVE  IInv'
<1> DEFINE g == Head(grant[p])
<1>1. /\ Len(grant[p]) = 1 /\ g.name = op[p].name /\ pc[p] = "acking"
      /\ req[p] = <<>> /\ ~Waiting(p)
      /\ g.name \in Names
  <2>1. grant[p] # <<>>
    BY ZenonT(40) DEF GrantArrives
  <2>2. g = grant[p][1] /\ g \in Grants
    BY ZenonT(40), <2>1, MessageTypes DEF IInv
  <2> QED
    BY ZenonT(40), <2>1, <2>2 DEF IInv, GrantOrder, Grants
<1>2. /\ grant' = [grant EXCEPT ![p] = Tail(grant[p])]
      /\ ack' = [ack EXCEPT ![p][g.name] = TRUE]
      /\ UNCHANGED <<pc, op, calls, req, serverVars>>
  BY ZenonT(40) DEF GrantArrives
<1> HIDE DEF g
<1>3. Tail(grant[p]) = <<>>
  <2>1. grant[p] \in Seq(Grants)
    BY ZenonT(40) DEF IInv, TypeOK
  <2> QED
    <3>1. Tail(grant[p]) \in Seq(Grants) /\ Len(Tail(grant[p])) = 0
      BY SMTT(40), <1>1, <2>1, ListHeadTail, EmptyList
    <3> QED
      BY ZenonT(40), <3>1, EmptyList
<1>4. /\ grant'[p] = <<>> /\ ack'[p][op[p].name]
      /\ \A q \in Procs \ {p} : grant'[q] = grant[q] /\ ack'[q] = ack[q]
      /\ \A n \in Names : n # op[p].name => ack'[p][n] = ack[p][n]
      /\ pc' = pc /\ op' = op /\ req' = req /\ wait_list' = wait_list
      /\ rd_holders' = rd_holders /\ wr_holders' = wr_holders /\ lock' = lock
  BY SMTT(40), <1>1, <1>2, <1>3 DEF IInv, TypeOK, serverVars
<1>5. \A q : Waiting(q)' <=> Waiting(q)
  BY ZenonT(40), <1>4 DEF Waiting
<1>6. Together'
  BY ZenonT(40), <1>4 DEF IInv, Together
<1>7. MastersOnly'
  BY ZenonT(40), <1>4 DEF IInv, MastersOnly, IsMaster
<1>8. RequestOrder'
  BY SMTT(40), <1>1, <1>4, <1>5, SequenceFacts DEF IInv, RequestOrder, RequestsInOrder, IsMaster, PastAck
<1>9. WaitOrder'
  <2>1. ASSUME NEW n \in Names, NEW i \in DOMAIN wait_list[n]
        PROVE  wait_list[n][i].proc \in Procs \ {p}
    BY ZenonT(40), <1>1, SequenceFacts DEF IInv, Waiting
  <2>2. ASSUME NEW n \in Names, NEW i \in DOMAIN wait_list[n]
        PROVE  /\ pc'[wait_list[n][i].proc] = pc[wait_list[n][i].proc]
               /\ ack'[wait_list[n][i].proc] = ack[wait_list[n][i].proc]
               /\ op'[wait_list[n][i].proc] = op[wait_list[n][i].proc]
               /\ req'[wait_list[n][i].proc] = req[wait_list[n][i].proc]
               /\ grant'[wait_list[n][i].proc] = grant[wait_list[n][i].proc]
    BY ZenonT(40), <1>4, <2>1
  <2> QED
    BY ZenonT(40), <1>4, <2>2, WaitOrderKept DEF IInv
<1>10. GrantOrder'
  BY SMTT(40), <1>4, <1>5 DEF IInv, GrantOrder
<1>11. Tokens'
  <2>1. grant[p] # <<>>
    BY ZenonT(40) DEF GrantArrives
  <2>2. ASSUME NEW d PROVE HasToken(p, d)' <=> HasToken(p, d)
    BY ZenonT(40), <1>1, <1>4, <2>1 DEF HasToken
  <2>3. ASSUME NEW d, NEW q \in Procs \ {p} PROVE HasToken(q, d)' <=> HasToken(q, d)
    BY ZenonT(40), <1>4 DEF HasToken
  <2>4. \A q \in Procs : \A d : HasToken(q, d)' <=> HasToken(q, d)
    BY ZenonT(40), <2>2, <2>3
  <2> QED
    BY ZenonT(40), <1>4, <2>4 DEF IInv, Tokens, IsMaster
<1> QED
  BY ZenonT(40), <1>4, <1>6, <1>7, <1>8, <1>9, <1>10, <1>11 DEF IInv, Accounting

(* A step that changes only where processes are keeps the invariant when it *)
(* keeps those past the grant past it, and those before it before it.       *)
LEMMA PcStep ==
    ASSUME IInv, TypeOK', Together',
           UNCHANGED <<op, ack, req, grant, serverVars>>,
           NEW S \in SUBSET Procs,
           \A q \in Procs \ S : pc'[q] = pc[q],
           \A q \in S : /\ IsMaster(q) => req[q] = <<>> /\ grant[q] = <<>>
                        /\ IsMaster(q) => \/ pc[q] \in PastAck
                                          \/ pc[q] = "acking" /\ ack[q][op[q].name]
                        /\ IsMaster(q) => pc'[q] \in PastAck
                        /\ ~IsMaster(q) => pc'[q] \in {"idle", "lock_barrier", "held",
                                                       "unlock_barrier"}
    PROVE  IInv'
<1>1. /\ op' = op /\ ack' = ack /\ req' = req /\ grant' = grant
      /\ wait_list' = wait_list /\ lock' = lock
      /\ rd_holders' = rd_holders /\ wr_holders' = wr_holders
  BY ZenonT(40) DEF serverVars
<1>2. \A q : Waiting(q)' <=> Waiting(q)
  BY ZenonT(40), <1>1 DEF Waiting
<1>3. \A q \in S : req[q] = <<>> /\ grant[q] = <<>>
  BY ZenonT(40) DEF IInv, MastersOnly
<1>4. MastersOnly'
  BY SMTT(40), <1>1 DEF IInv, MastersOnly, IsMaster
<1>5. RequestOrder'
  <2>1. ASSUME NEW q \in S PROVE Len(req[q]) = 0 /\ DOMAIN req[q] = {}
    BY SMTT(40), <1>3, SequenceFacts DEF IInv
  <2> QED
    BY SMTT(40), <1>1, <1>2, <1>3, <2>1 DEF IInv, RequestOrder, RequestsInOrder, IsMaster, PastAck
<1>6. WaitOrder'
  <2>1. ASSUME NEW n \in Names, NEW i \in DOMAIN wait_list[n]
        PROVE  wait_list[n][i].proc \in Procs \ S
    <3> DEFINE q == wait_list[n][i].proc
    <3>1. /\ q \in Procs /\ IsMaster(q)
          /\ pc[q] = "acking" /\ ~ack[q][n] /\ op[q].name = n
      <4>1. q \in Procs
        BY ZenonT(40), SequenceFacts DEF IInv
      <4>2. /\ IsMaster(q) /\ pc[q] = "acking" /\ ~ack[q][n]
            /\ op[q] = [name |-> n, mode |-> wait_list[n][i].mode]
        BY ZenonT(40) DEF IInv, WaitOrder
      <4> QED
        BY SMTT(40), <4>1, <4>2
    <3> QED
      BY SMTT(40), <3>1 DEF PastAck
  <2>2. ASSUME NEW n \in Names, NEW i \in DOMAIN wait_list[n]
        PROVE  /\ pc'[wait_list[n][i].proc] = pc[wait_list[n][i].proc]
               /\ ack'[wait_list[n][i].proc] = ack[wait_list[n][i].proc]
               /\ op'[wait_list[n][i].proc] = op[wait_list[n][i].proc]
               /\ req'[wait_list[n][i].proc] = req[wait_list[n][i].proc]
               /\ grant'[wait_list[n][i].proc] = grant[wait_list[n][i].proc]
    BY ZenonT(40), <1>1, <2>1
  <2> QED
    BY ZenonT(40), <1>1, <2>2, WaitOrderKept DEF IInv
<1>7. GrantOrder'
  BY SMTT(40), <1>1, <1>2, <1>3 DEF IInv, GrantOrder
<1>8. Tokens'
  <2>1. ASSUME NEW d, NEW q \in Procs, IsMaster(q)
        PROVE  HasToken(q, d)' <=> HasToken(q, d)
    <3>1. CASE q \in S
      BY ZenonT(40), <1>1, <1>3, <2>1, <3>1 DEF HasToken
    <3>2. CASE q \notin S
      BY ZenonT(40), <1>1, <3>2 DEF HasToken
    <3> QED
      BY ZenonT(40), <3>1, <3>2
  <2> QED
    BY ZenonT(40), <1>1, <2>1 DEF IInv, Tokens, IsMaster
<1> QED
  BY ZenonT(40), <1>1, <1>4, <1>5, <1>6, <1>7, <1>8 DEF IInv, Accounting

(* The master sees the ack.                                                 *)
LEMMA AckSeenStep ==
    ASSUME IInv, TypeOK', NEW p \in Procs, AckSeen(p)
    PROVE  IInv'
<1>1. /\ pc[p] = "acking" /\ ack[p][op[p].name]
      /\ pc' = [pc EXCEPT ![p] = "lock_barrier"]
      /\ UNCHANGED <<op, calls, lock_num, ack, req, grant, serverVars>>
  BY ZenonT(40) DEF AckSeen
<1>2. req[p] = <<>> /\ grant[p] = <<>>
  BY ZenonT(40), <1>1 DEF IInv, RequestOrder, RequestsInOrder
<1>3. pc'[p] = "lock_barrier" /\ \A q \in Procs \ {p} : pc'[q] = pc[q]
  BY ZenonT(40), <1>1 DEF IInv, TypeOK
<1>4. Together'
  BY SMTT(40), <1>1, <1>3 DEF IInv, Together, CallPC, HeldPC
<1>5. \A q \in {p} : /\ req[q] = <<>> /\ grant[q] = <<>>
                    /\ pc[q] = "acking" /\ ack[q][op[q].name]
                    /\ pc'[q] = "lock_barrier" /\ pc'[q] \in PastAck
  BY ZenonT(40), <1>1, <1>2, <1>3 DEF PastAck
<1>6. {p} \in SUBSET Procs /\ \A q \in Procs \ {p} : pc'[q] = pc[q]
  BY ZenonT(40), <1>3
<1> QED
  BY ZenonT(40), <1>1, <1>4, <1>5, <1>6, PcStep

(* The processes of an application leave the barrier of the lock operation. *)
LEMMA LockBarrierStep ==
    ASSUME IInv, TypeOK', NEW a \in Apps, LockBarrier(a)
    PROVE  IInv'
<1>1. /\ \A q \in Members(a) : pc[q] = "lock_barrier" /\ pc'[q] = "held"
      /\ \A q \in Procs \ Members(a) : pc'[q] = pc[q]
      /\ UNCHANGED <<op, calls, lock_num, ack, req, grant, serverVars>>
      /\ Members(a) \in SUBSET Procs
  BY ZenonT(40) DEF LockBarrier, Members
<1>2. \A q \in Members(a) : IsMaster(q) => req[q] = <<>> /\ grant[q] = <<>>
  BY ZenonT(40), <1>1 DEF IInv, RequestOrder, RequestsInOrder, GrantOrder, PastAck
<1>3. Together'
  BY <1>1 DEF IInv, Together, CallPC, HeldPC, Members
<1> QED
  BY ZenonT(40), <1>1, <1>2, <1>3, PcStep DEF PastAck

(* A process enters the barrier of the unlock operation.                    *)
LEMMA UnlockCallStep ==
    ASSUME IInv, TypeOK', NEW p \in Procs, UnlockCall(p)
    PROVE  IInv'
<1>1. /\ pc[p] = "held"
      /\ pc' = [pc EXCEPT ![p] = "unlock_barrier"]
      /\ UNCHANGED <<op, calls, lock_num, ack, req, grant, serverVars>>
  BY ZenonT(40) DEF UnlockCall
<1>2. IsMaster(p) => req[p] = <<>> /\ grant[p] = <<>>
  BY ZenonT(40), <1>1 DEF IInv, RequestOrder, RequestsInOrder, GrantOrder, PastAck
<1>3. pc'[p] = "unlock_barrier" /\ \A q \in Procs \ {p} : pc'[q] = pc[q]
  BY ZenonT(40), <1>1 DEF IInv, TypeOK
<1>4. Together'
  BY ZenonT(40), <1>1, <1>3 DEF IInv, Together, CallPC, HeldPC
<1> QED
  BY ZenonT(120), <1>1, <1>2, <1>3, <1>4, PcStep DEF PastAck

(* The processes of an application leave the barrier of the unlock operation.*)
LEMMA UnlockBarrierStep ==
    ASSUME IInv, TypeOK', NEW a \in Apps, UnlockBarrier(a)
    PROVE  IInv'
<1>1. /\ \A q \in Members(a) :
            /\ pc[q] = "unlock_barrier"
            /\ pc'[q] = IF IsMaster(q) THEN "releasing" ELSE "idle"
      /\ \A q \in Procs \ Members(a) : pc'[q] = pc[q]
      /\ UNCHANGED <<op, calls, lock_num, ack, req, grant, serverVars>>
      /\ Members(a) \in SUBSET Procs
  BY ZenonT(40) DEF UnlockBarrier, Members
<1>2. \A q \in Members(a) : IsMaster(q) => req[q] = <<>> /\ grant[q] = <<>>
  BY ZenonT(40), <1>1 DEF IInv, RequestOrder, RequestsInOrder, GrantOrder, PastAck
<1>3. Together'
  BY SMTT(40), <1>1 DEF IInv, Together, CallPC, HeldPC, Members
<1> QED
  BY ZenonT(40), <1>1, <1>2, <1>3, PcStep DEF PastAck

(* The master sends the release: the permission moves into the request.     *)
LEMMA SendReleaseStep ==
    ASSUME IInv, TypeOK', NEW p \in Procs, SendRelease(p)
    PROVE  IInv'
<1> DEFINE m == [kind |-> "release", mode |-> op[p].mode, name |-> op[p].name,
                 num |-> lock_num[p][op[p].name]]
<1>1. /\ pc[p] = "releasing"
      /\ pc' = [pc EXCEPT ![p] = "idle"]
      /\ req' = [req EXCEPT ![p] = Append(req[p], m)]
      /\ ack' = [ack EXCEPT ![p][op[p].name] = FALSE]
      /\ UNCHANGED <<op, calls, lock_num, grant, serverVars>>
  BY ZenonT(40) DEF SendRelease, dcg_lock_request
<1>2. /\ m.kind = "release" /\ m.name = op[p].name /\ m.mode = op[p].mode
      /\ op[p] \in Calls
  BY ZenonT(40) DEF IInv, TypeOK
<1> HIDE DEF m
<1>3. IsMaster(p) /\ req[p] = <<>> /\ grant[p] = <<>> /\ ~Waiting(p)
  <2>1. IsMaster(p)
    BY ZenonT(40), <1>1 DEF IInv, MastersOnly
  <2>2. req[p] = <<>> /\ grant[p] = <<>>
    BY ZenonT(40), <1>1, <2>1 DEF IInv, RequestOrder, RequestsInOrder, GrantOrder, PastAck
  <2>3. ~Waiting(p)
    BY ZenonT(40), <1>1 DEF IInv, WaitOrder, Waiting
  <2> QED
    BY ZenonT(40), <2>1, <2>2, <2>3
<1>4. /\ Len(req'[p]) = 1 /\ DOMAIN req'[p] = {1} /\ req'[p][1] = m
      /\ req'[p] # <<>>
  <2>1. req'[p] = <<m>>
    BY SMTT(40), <1>1, <1>3 DEF IInv, TypeOK
  <2> QED
    BY SMTT(40), <2>1
<1>5. /\ pc'[p] = "idle"
      /\ \A q \in Procs \ {p} : pc'[q] = pc[q] /\ req'[q] = req[q] /\ ack'[q] = ack[q]
      /\ op' = op /\ grant' = grant /\ wait_list' = wait_list /\ lock' = lock
      /\ rd_holders' = rd_holders /\ wr_holders' = wr_holders
  BY ZenonT(40), <1>1 DEF IInv, TypeOK, serverVars
<1>6. \A q : Waiting(q)' <=> Waiting(q)
  BY ZenonT(40), <1>5 DEF Waiting
<1>7. Together'
  BY SMTT(40), <1>1, <1>5 DEF IInv, Together, CallPC, HeldPC
<1>8. MastersOnly'
  BY ZenonT(40), <1>3, <1>5 DEF IInv, MastersOnly, IsMaster
<1>9. RequestOrder'
  <2>1. RequestsInOrder(p)'
    BY SMTT(40), <1>2, <1>4, <1>5 DEF RequestsInOrder, PastAck
  <2>2. ASSUME NEW q \in Procs \ {p} PROVE RequestsInOrder(q)'
    <3>1. RequestsInOrder(q)
      BY ZenonT(40) DEF IInv, RequestOrder
    <3> QED
      BY ZenonT(40), <1>5, <1>6, <3>1 DEF RequestsInOrder, IsMaster
  <2> QED
    BY ZenonT(40), <2>1, <2>2 DEF RequestOrder
<1>10. WaitOrder'
  <2>1. ASSUME NEW n \in Names, NEW i \in DOMAIN wait_list[n]
        PROVE  wait_list[n][i].proc \in Procs \ {p}
    BY ZenonT(40), <1>3, SequenceFacts DEF IInv, Waiting
  <2>2. ASSUME NEW n \in Names, NEW i \in DOMAIN wait_list[n]
        PROVE  /\ pc'[wait_list[n][i].proc] = pc[wait_list[n][i].proc]
               /\ ack'[wait_list[n][i].proc] = ack[wait_list[n][i].proc]
               /\ op'[wait_list[n][i].proc] = op[wait_list[n][i].proc]
               /\ req'[wait_list[n][i].proc] = req[wait_list[n][i].proc]
               /\ grant'[wait_list[n][i].proc] = grant[wait_list[n][i].proc]
    BY ZenonT(40), <1>5, <2>1
  <2> QED
    BY ZenonT(40), <1>5, <2>2, WaitOrderKept DEF IInv
<1>11. GrantOrder'
  BY ZenonT(40), <1>3, <1>5, <1>6 DEF IInv, GrantOrder
<1>12. Tokens'
  <2>1. ASSUME NEW d \in Calls PROVE HasToken(p, d)' <=> HasToken(p, d)
    <3>1. HasToken(p, d) <=> op[p] = d
      BY ZenonT(40), <1>1, <1>3 DEF HasToken, PastAck
    <3>2. HasToken(p, d)' <=> m.name = d.name /\ m.mode = d.mode
      BY ZenonT(40), <1>2, <1>3, <1>4, <1>5 DEF HasToken, PastAck
    <3>3. op[p] = d <=> op[p].name = d.name /\ op[p].mode = d.mode
      BY SMTT(40), <1>2 DEF Calls
    <3> QED
      BY ZenonT(40), <1>2, <3>1, <3>2, <3>3
  <2>2. ASSUME NEW d, NEW q \in Procs \ {p} PROVE HasToken(q, d)' <=> HasToken(q, d)
    BY ZenonT(40), <1>5 DEF HasToken
  <2>3. \A q \in Procs : \A d \in Calls : HasToken(q, d)' <=> HasToken(q, d)
    BY ZenonT(40), <2>1, <2>2
  <2>4. \A n \in Names : /\ [name |-> n, mode |-> "read"] \in Calls
                         /\ [name |-> n, mode |-> "write"] \in Calls
    BY ZenonT(40) DEF Calls, Modes
  <2> QED
    BY ZenonT(40), <1>5, <2>3, <2>4 DEF IInv, Tokens, IsMaster
<1> QED
  BY ZenonT(40), <1>5, <1>7, <1>8, <1>9, <1>10, <1>11, <1>12 DEF IInv, Accounting

-----------------------------------------------------------------------------
(* The server handles a request (dsgrpc_lock_service).                     *)

(* A master whose request has not been answered holds no permission.        *)
LEMMA NoTokenYet ==
    ASSUME NEW p, NEW n, NEW mo, pc[p] = "acking", ~ack[p][n],
           op[p] = [name |-> n, mode |-> mo],
           grant[p] = <<>>, req[p] # <<>> => req[p][1].kind = "get"
    PROVE  \A d : ~HasToken(p, d)
<1>1. pc[p] \notin PastAck
  BY ZenonT(40) DEF PastAck
<1>2. ASSUME NEW d, op[p] = d PROVE ~ack[p][d.name]
  <2>1. d = [name |-> n, mode |-> mo]
    BY ZenonT(40), <1>2
  <2>2. d.name = n
    BY SMTT(40), <2>1
  <2> QED
    BY ZenonT(40), <2>2
<1>3. ~(req[p] # <<>> /\ req[p][1].kind = "release")
  BY ZenonT(40)
<1> QED
  BY ZenonT(40), <1>1, <1>2, <1>3 DEF HasToken

(* A grant, to an arriving request or to one that waits: the permission is   *)
(* in the message, and the counters include its receiver.                   *)
LEMMA GrantStep ==
    ASSUME FiniteSetFacts, IInv, TypeOK', WaitOrder', UNCHANGED clientVars,
           NEW p \in Procs, NEW m \in Requests, NEW b \in BOOLEAN,
           m.kind = "get", IsMaster(p), pc[p] = "acking", ~ack[p][m.name],
           op[p] = [name |-> m.name, mode |-> m.mode],
           grant[p] = <<>>, req[p] # <<>> => req[p][1].kind = "get",
           req'[p] = <<>>, \A q \in Procs \ {p} : req'[q] = req[q],
           ~Waiting(p)', \A q \in Procs : Waiting(q)' => Waiting(q),
           dsg_lock_grant(m.name, p, m.num, m.mode),
           process_request(lock[m.name], m, b).action = "grant",
           lock' = [lock EXCEPT ![m.name] = process_request(lock[m.name], m, b).lock]
    PROVE  IInv'
<1> DEFINE n == m.name
           r == process_request(lock[n], m, b)
           g == [name |-> n, num |-> m.num + 1]
<1>1. n \in Names /\ m.mode \in {"read", "write"} /\ m.num \in Nat
  BY ZenonT(40) DEF Requests, Modes
<1>2. /\ grant'[p] = <<g>> /\ \A q \in Procs \ {p} : grant'[q] = grant[q]
      /\ pc' = pc /\ op' = op /\ ack' = ack
  BY DEF dsg_lock_grant, clientVars, IInv, TypeOK
<1>3. Len(grant'[p]) = 1 /\ grant'[p][1].name = n /\ grant'[p] # <<>>
  BY SMTT(40), <1>2
<1>4. Together'
  BY ZenonT(40), <1>2 DEF IInv, Together
<1>5. MastersOnly'
  BY ZenonT(40), <1>2 DEF IInv, MastersOnly, IsMaster
<1>6. RequestOrder'
  <2>1. RequestsInOrder(p)'
    <3>1. Len(req'[p]) = 0 /\ DOMAIN req'[p] = {}
      BY SMTT(40)
    <3> QED
      BY SMTT(40), <1>2, <3>1 DEF RequestsInOrder, PastAck
  <2>2. ASSUME NEW q \in Procs \ {p} PROVE RequestsInOrder(q)'
    <3>1. RequestsInOrder(q) /\ (~Waiting(q) => ~Waiting(q)')
      BY ZenonT(40) DEF IInv, RequestOrder
    <3>2. grant'[q] = grant[q] /\ req'[q] = req[q]
      BY ZenonT(40), <1>2
    <3> QED
      BY SMTT(40), <1>2, <3>1, <3>2 DEF RequestsInOrder, IsMaster
  <2> QED
    BY ZenonT(40), <2>1, <2>2 DEF RequestOrder
<1>7. GrantOrder'
  <2>1. /\ pc'[p] = "acking" /\ grant'[p][1].name = op'[p].name
        /\ Len(grant'[p]) = 1 /\ req'[p] = <<>> /\ ~Waiting(p)'
    BY SMTT(40), <1>2, <1>3
  <2>2. ASSUME NEW q \in Procs \ {p}, grant'[q] # <<>>
        PROVE  /\ Len(grant'[q]) = 1 /\ grant'[q][1].name = op'[q].name
               /\ pc'[q] = "acking" /\ req'[q] = <<>> /\ ~Waiting(q)'
    BY ZenonT(40), <1>2, <2>2 DEF IInv, GrantOrder
  <2> QED
    BY ZenonT(40), <2>1, <2>2 DEF GrantOrder
<1>8. \A d : ~HasToken(p, d)
  BY ZenonT(120), NoTokenYet
<1>9. p \notin rd_holders[n] /\ p \notin wr_holders[n]
  BY ZenonT(40), <1>1, <1>8 DEF IInv, Tokens
<1>10. Tokens'
  <2>1. ASSUME NEW d PROVE HasToken(p, d)' <=> d = [name |-> n, mode |-> m.mode]
    BY ZenonT(40), <1>2, <1>3 DEF HasToken, PastAck
  <2>2. ASSUME NEW d, NEW q \in Procs \ {p} PROVE HasToken(q, d)' <=> HasToken(q, d)
    BY ZenonT(40), <1>2 DEF HasToken
  <2>3. ASSUME NEW q \in Procs, NEW k \in Names
        PROVE  /\ q \in rd_holders'[k] <=> \/ q \in rd_holders[k]
                                           \/ q = p /\ k = n /\ m.mode = "read"
               /\ q \in wr_holders'[k] <=> \/ q \in wr_holders[k]
                                           \/ q = p /\ k = n /\ m.mode = "write"
    BY ZenonT(40), <1>1 DEF dsg_lock_grant, IInv, TypeOK
  <2>4. ASSUME NEW k \in Names, NEW mo \in Modes
        PROVE  [name |-> k, mode |-> mo] = [name |-> n, mode |-> m.mode]
                   <=> k = n /\ mo = m.mode
    BY ZenonT(40)
  <2>5. ASSUME NEW k \in Names
        PROVE  /\ p \in rd_holders'[k]
                     <=> IsMaster(p) /\ HasToken(p, [name |-> k, mode |-> "read"])'
               /\ p \in wr_holders'[k]
                     <=> IsMaster(p) /\ HasToken(p, [name |-> k, mode |-> "write"])'
    BY ZenonT(40), <1>8, <2>1, <2>3, <2>4 DEF IInv, Tokens, Modes
  <2>6. ASSUME NEW q \in Procs \ {p}, NEW k \in Names
        PROVE  /\ q \in rd_holders'[k]
                     <=> IsMaster(q) /\ HasToken(q, [name |-> k, mode |-> "read"])'
               /\ q \in wr_holders'[k]
                     <=> IsMaster(q) /\ HasToken(q, [name |-> k, mode |-> "write"])'
    BY ZenonT(40), <2>2, <2>3 DEF IInv, Tokens
  <2> QED
    BY ZenonT(40), <2>5, <2>6 DEF Tokens, IsMaster
<1>11. Accounting'
  <2>1. /\ lock[n] \in LockRecords
        /\ rd_holders[n] \in SUBSET Procs /\ wr_holders[n] \in SUBSET Procs
        /\ Accounted(lock[n], rd_holders[n], wr_holders[n])
    BY ZenonT(40), <1>1 DEF IInv, TypeOK, Accounting
  <2>2. /\ m.mode = "read" => Accounted(r.lock, rd_holders[n] \cup {p}, wr_holders[n])
        /\ m.mode = "write" => Accounted(r.lock, rd_holders[n], wr_holders[n] \cup {p})
    <3>1. ASSUME NEW dl \in LockRecords, NEW R \in SUBSET Procs, NEW W \in SUBSET Procs,
                 p \notin R, Accounted(dl, R, W),
                 process_request(dl, m, b).action = "grant"
          PROVE  /\ m.mode = "read" =>
                       Accounted(process_request(dl, m, b).lock, R \cup {p}, W)
                 /\ m.mode = "write" =>
                       Accounted(process_request(dl, m, b).lock, R, W \cup {p})
      BY ZenonT(40), <3>1, AccountedGet
    <3> QED
      BY ZenonT(40), <1>9, <2>1, <3>1
  <2>3. Accounted(lock'[n], rd_holders'[n], wr_holders'[n])
    <3>1. /\ lock'[n] = r.lock
          /\ m.mode = "read" => /\ rd_holders'[n] = rd_holders[n] \cup {p}
                                /\ wr_holders'[n] = wr_holders[n]
          /\ m.mode = "write" => /\ rd_holders'[n] = rd_holders[n]
                                 /\ wr_holders'[n] = wr_holders[n] \cup {p}
      BY ZenonT(40), <1>1 DEF dsg_lock_grant, IInv, TypeOK
    <3> QED
      BY Zenon, <1>1, <2>2, <3>1
  <2>4. ASSUME NEW k \in Names \ {n}
        PROVE  Accounted(lock'[k], rd_holders'[k], wr_holders'[k])
    <3>1. lock'[k] = lock[k] /\ rd_holders'[k] = rd_holders[k] /\ wr_holders'[k] = wr_holders[k]
      BY ZenonT(40), <1>1 DEF dsg_lock_grant, IInv, TypeOK
    <3> QED
      BY ZenonT(40), <3>1 DEF IInv, Accounting
  <2>5. \A k \in Names : Accounted(lock'[k], rd_holders'[k], wr_holders'[k])
    BY ZenonT(40), <2>3, <2>4
  <2> QED
    BY ZenonT(40), <2>5 DEF Accounting
<1> QED
  BY ZenonT(40), <1>4, <1>5, <1>6, <1>7, <1>10, <1>11 DEF IInv

(* What holds of the sender of a request for a lock that has arrived.        *)
LEMMA ReceivedGet ==
    ASSUME IInv, TypeOK', NEW p \in Procs, Receive(p), Head(req[p]).kind = "get"
    PROVE  /\ pc[p] = "acking" /\ ~ack[p][Head(req[p]).name]
           /\ op[p] = [name |-> Head(req[p]).name, mode |-> Head(req[p]).mode]
           /\ grant[p] = <<>> /\ ~Waiting(p) /\ req'[p] = <<>>
<1>1. /\ Head(req[p]) = req[p][1] /\ 1 \in DOMAIN req[p]
      /\ req'[p] = <<>>
  BY ZenonT(40), ReceivedRequest
<1>2. RequestsInOrder(p) /\ op[p] \in Calls
  BY ZenonT(40) DEF IInv, RequestOrder, TypeOK
<1>3. /\ pc[p] = "acking" /\ ~ack[p][op[p].name]
      /\ grant[p] = <<>> /\ ~Waiting(p)
      /\ Head(req[p]).name = op[p].name /\ Head(req[p]).mode = op[p].mode
  BY ZenonT(40), <1>1, <1>2 DEF RequestsInOrder
<1> QED
  BY ZenonT(40), <1>1, <1>2, <1>3 DEF Calls

(* A request that is granted when it arrives.                               *)
LEMMA ReceiveGrantStep ==
    ASSUME FiniteSetFacts,
           IInv, TypeOK', NEW p \in Procs, Receive(p), Head(req[p]).kind = "get",
           process_request(lock[Head(req[p]).name], Head(req[p]),
                           wait_list[Head(req[p]).name] = <<>>).action = "grant"
    PROVE  IInv'
<1> DEFINE m == Head(req[p])
           b == wait_list[m.name] = <<>>
<1>1. /\ m \in Requests /\ IsMaster(p) /\ m = req[p][1]
      /\ \A q \in Procs \ {p} : req'[q] = req[q]
  BY ZenonT(40), ReceivedRequest
<1>2. /\ pc[p] = "acking" /\ ~ack[p][m.name]
      /\ op[p] = [name |-> m.name, mode |-> m.mode]
      /\ grant[p] = <<>> /\ ~Waiting(p) /\ req'[p] = <<>>
  BY ZenonT(40), ReceivedGet
<1>3. /\ dsg_lock_grant(m.name, p, m.num, m.mode)
      /\ lock' = [lock EXCEPT ![m.name] = process_request(lock[m.name], m, b).lock]
      /\ UNCHANGED <<wait_list, clientVars>>
  BY ZenonT(40) DEF Receive
<1>4. b \in BOOLEAN
  BY ZenonT(40)
<1>5. \A q : Waiting(q)' <=> Waiting(q)
  BY ZenonT(40), <1>3 DEF Waiting
<1>6. WaitOrder'
  <2>1. ASSUME NEW n \in Names, NEW i \in DOMAIN wait_list[n]
        PROVE  wait_list[n][i].proc \in Procs \ {p}
    BY ZenonT(40), <1>2, SequenceFacts DEF IInv, Waiting
  <2>2. \A q \in Procs \ {p} : grant'[q] = grant[q]
    BY ZenonT(40), <1>3 DEF dsg_lock_grant, IInv, TypeOK
  <2>3. pc' = pc /\ ack' = ack /\ op' = op /\ wait_list' = wait_list
    BY ZenonT(40), <1>3 DEF clientVars
  <2> QED
    <3> SUFFICES ASSUME NEW n \in Names, NEW i \in DOMAIN wait_list[n]
                 PROVE  WaitOrder!(n)!(i)'
      BY ZenonT(40), <2>3 DEF WaitOrder
    <3>1. WaitOrder!(n)!(i)
      BY ZenonT(40) DEF IInv, WaitOrder
    <3>2. LET w == wait_list[n][i]
          IN req'[w.proc] = req[w.proc] /\ grant'[w.proc] = grant[w.proc]
      BY ZenonT(40), <1>1, <2>1, <2>2
    <3> QED
      BY ZenonT(40), <2>3, <3>1, <3>2 DEF IsMaster
<1>7. process_request(lock[m.name], m, b).action = "grant"
  BY ZenonT(40)
<1> HIDE DEF m, b
<1> QED
  BY ZenonT(40), <1>1, <1>2, <1>3, <1>4, <1>5, <1>6, <1>7, GrantStep DEF m

(* A request that has to wait.                                              *)
LEMMA ReceiveWaitStep ==
    ASSUME FiniteSetFacts,
           IInv, TypeOK', NEW p \in Procs, Receive(p), Head(req[p]).kind = "get",
           process_request(lock[Head(req[p]).name], Head(req[p]),
                           wait_list[Head(req[p]).name] = <<>>).action = "wait"
    PROVE  IInv'
<1> DEFINE m == Head(req[p])
           n == m.name
           b == wait_list[n] = <<>>
           w == [proc |-> p, mode |-> m.mode, num |-> m.num]
           L == Len(wait_list[n])
<1>1. /\ m \in Requests /\ IsMaster(p) /\ m = req[p][1]
      /\ \A q \in Procs \ {p} : req'[q] = req[q]
      /\ n \in Names /\ w \in Pending
  <2>1. m \in Requests
    BY ZenonT(40), ReceivedRequest
  <2> QED
    BY ZenonT(40), <2>1, ReceivedRequest DEF Requests, Pending
<1>2. /\ pc[p] = "acking" /\ ~ack[p][n]
      /\ op[p] = [name |-> n, mode |-> m.mode]
      /\ grant[p] = <<>> /\ ~Waiting(p) /\ req'[p] = <<>>
  BY ZenonT(40), ReceivedGet
<1>3. /\ wait_list' = [wait_list EXCEPT ![n] = Append(wait_list[n], w)]
      /\ lock' = [lock EXCEPT ![n] = process_request(lock[n], m, b).lock]
      /\ UNCHANGED <<grant, scan, rd_holders, wr_holders, clientVars>>
  BY Zenon DEF Receive, dsg_lock_put_on_wait
<1>4. lock' = lock
  <2>1. /\ lock[n] \in LockRecords /\ lock \in [Names -> LockRecords]
        /\ rd_holders[n] \in SUBSET Procs /\ wr_holders[n] \in SUBSET Procs
        /\ Accounted(lock[n], rd_holders[n], wr_holders[n])
    BY ZenonT(40), <1>1 DEF IInv, TypeOK, Accounting
  <2>2. p \notin rd_holders[n]
    <3>1. \A d : ~HasToken(p, d)
      <4>1. req[p][1].kind = "get"
        <5>1. Head(req[p]) = req[p][1]
          BY ZenonT(40), <1>1
        <5> QED
          BY ZenonT(40), <5>1
      <4>2. /\ pc[p] = "acking" /\ ~ack[p][n]
            /\ op[p] = [name |-> n, mode |-> m.mode] /\ grant[p] = <<>>
        BY ZenonT(40), <1>2
      <4> HIDE DEF m, n
      <4> QED
        BY ZenonT(40), <4>1, <4>2, NoTokenYet
    <3> QED
      BY ZenonT(40), <1>1, <3>1 DEF IInv, Tokens
  <2>3. ASSUME NEW dl \in LockRecords, NEW R \in SUBSET Procs, NEW W \in SUBSET Procs,
               p \notin R, Accounted(dl, R, W),
               process_request(dl, m, b).action = "wait"
        PROVE  process_request(dl, m, b).lock = dl
    BY ZenonT(120), <1>1, <2>3, AccountedGet
  <2>4. process_request(lock[n], m, b).lock = lock[n]
    BY ZenonT(40), <2>1, <2>2, <2>3
  <2> QED
    BY ZenonT(40), <1>3, <2>1, <2>4
<1>5. /\ pc' = pc /\ op' = op /\ ack' = ack /\ grant' = grant
      /\ rd_holders' = rd_holders /\ wr_holders' = wr_holders
  BY ZenonT(40), <1>3 DEF clientVars
<1> HIDE DEF m, w
<1>6. /\ wait_list[n] \in Seq(Pending) /\ L \in Nat /\ DOMAIN wait_list[n] = 1 .. L
      /\ DOMAIN wait_list'[n] = 1 .. L + 1
      /\ \A i \in 1 .. L : wait_list'[n][i] = wait_list[n][i]
      /\ wait_list'[n][L + 1] = w
      /\ \A k \in Names \ {n} : wait_list'[k] = wait_list[k]
  <2>1. wait_list[n] \in Seq(Pending) /\ wait_list'[n] = Append(wait_list[n], w)
    BY ZenonT(40), <1>1, <1>3 DEF IInv, TypeOK
  <2>2. \A k \in Names \ {n} : wait_list'[k] = wait_list[k]
    BY ZenonT(40), <1>1, <1>3 DEF IInv, TypeOK
  <2> QED
    BY SMTT(40), <1>1, <2>1, <2>2, ListAppended, ListLength
<1> HIDE DEF n, L
<1>7. w.proc = p /\ w.mode = m.mode
  BY ZenonT(40) DEF w
<1>8. ASSUME NEW q \in Procs \ {p} PROVE Waiting(q)' <=> Waiting(q)
  <2>1. ASSUME Waiting(q)' PROVE Waiting(q)
    <3>0. PICK k \in Names : \E i \in DOMAIN wait_list'[k] : wait_list'[k][i].proc = q
      BY ZenonT(40), <2>1 DEF Waiting
    <3>1. PICK i \in DOMAIN wait_list'[k] : wait_list'[k][i].proc = q
      BY ZenonT(40), <3>0
    <3>2. i \in DOMAIN wait_list[k] /\ wait_list[k][i].proc = q
      BY SMTT(40), <1>6, <1>7, <3>1
    <3> QED
      BY ZenonT(40), <3>2 DEF Waiting
  <2>2. ASSUME Waiting(q) PROVE Waiting(q)'
    <3>0. PICK k \in Names : \E i \in DOMAIN wait_list[k] : wait_list[k][i].proc = q
      BY ZenonT(40), <2>2 DEF Waiting
    <3>1. PICK i \in DOMAIN wait_list[k] : wait_list[k][i].proc = q
      BY ZenonT(40), <3>0
    <3>2. i \in DOMAIN wait_list'[k] /\ wait_list'[k][i].proc = q
      BY SMTT(40), <1>6, <3>1
    <3> QED
      BY ZenonT(40), <3>2 DEF Waiting
  <2> QED
    BY ZenonT(40), <2>1, <2>2
<1>9. Together'
  BY ZenonT(40), <1>5 DEF IInv, Together
<1>10. MastersOnly'
  BY ZenonT(40), <1>1, <1>5 DEF IInv, MastersOnly, IsMaster
<1>11. RequestOrder'
  <2>1. RequestsInOrder(p)'
    <3>1. Len(req'[p]) = 0 /\ DOMAIN req'[p] = {}
      BY SMTT(40), <1>2
    <3> QED
      BY ZenonT(40), <1>2, <1>5, <3>1 DEF RequestsInOrder, PastAck
  <2>2. ASSUME NEW q \in Procs \ {p} PROVE RequestsInOrder(q)'
    <3>1. RequestsInOrder(q) /\ (Waiting(q)' <=> Waiting(q)) /\ req'[q] = req[q]
      BY ZenonT(40), <1>1, <1>8 DEF IInv, RequestOrder
    <3> QED
      BY ZenonT(40), <1>5, <3>1 DEF RequestsInOrder, IsMaster
  <2> QED
    BY ZenonT(40), <2>1, <2>2 DEF RequestOrder
<1>12. GrantOrder'
  BY ZenonT(40), <1>1, <1>2, <1>5, <1>8 DEF IInv, GrantOrder
<1>13. WaitOrder'
  <2>1. ASSUME NEW k \in Names, NEW i \in DOMAIN wait_list[k]
        PROVE  wait_list[k][i].proc \in Procs \ {p}
    BY ZenonT(40), <1>2, SequenceFacts DEF IInv, Waiting
  <2> DEFINE Ordered(k, i) ==
               /\ IsMaster(wait_list'[k][i].proc)
               /\ pc[wait_list'[k][i].proc] = "acking"
               /\ ~ack[wait_list'[k][i].proc][k]
               /\ op[wait_list'[k][i].proc] = [name |-> k, mode |-> wait_list'[k][i].mode]
               /\ req'[wait_list'[k][i].proc] = <<>>
               /\ grant[wait_list'[k][i].proc] = <<>>
               /\ \A j \in DOMAIN wait_list'[k] :
                     wait_list'[k][j].proc = wait_list'[k][i].proc => i = j
  <2>2. ASSUME NEW k \in Names \ {n}, NEW i \in DOMAIN wait_list'[k] PROVE Ordered(k, i)
    <3>1. wait_list'[k] = wait_list[k]
      BY ZenonT(40), <1>6
    <3> QED
      BY SMTT(40), <1>1, <2>1, <3>1 DEF IInv, WaitOrder
  <2>3. ASSUME NEW i \in 1 .. L PROVE Ordered(n, i)
    <3> DEFINE u == wait_list[n][i]
    <3>1. i \in DOMAIN wait_list[n] /\ wait_list'[n][i] = u /\ n \in Names
      BY ZenonT(40), <1>1, <1>6 DEF n
    <3>2. u.proc \in Procs \ {p}
      BY ZenonT(40), <2>1, <3>1
    <3>3. /\ IsMaster(u.proc) /\ pc[u.proc] = "acking" /\ ~ack[u.proc][n]
          /\ op[u.proc] = [name |-> n, mode |-> u.mode]
          /\ req[u.proc] = <<>> /\ grant[u.proc] = <<>>
          /\ \A j \in DOMAIN wait_list[n] : wait_list[n][j].proc = u.proc => i = j
      BY <3>1, ZenonT(40) DEF IInv, WaitOrder
    <3>4. req'[u.proc] = <<>>
      BY ZenonT(40), <1>1, <3>2, <3>3
    <3> HIDE DEF u
    <3>5. ASSUME NEW j \in 1 .. L + 1, wait_list'[n][j].proc = u.proc PROVE i = j
      <4>1. CASE j = L + 1
        BY ZenonT(40), <1>6, <1>7, <3>2, <3>5, <4>1
      <4>2. CASE j \in 1 .. L
        BY ZenonT(40), <1>6, <3>3, <3>5, <4>2
      <4> QED
        BY SMTT(40), <1>6, <4>1, <4>2
    <3> QED
      BY ZenonT(40), <1>6, <3>1, <3>3, <3>4, <3>5
  <2>4. Ordered(n, L + 1)
    BY SMTT(40), <1>1, <1>2, <1>6, <1>7, <2>1
  <2>5. \A k \in Names : \A i \in DOMAIN wait_list'[k] : Ordered(k, i)
    <3> HIDE DEF Ordered
    <3>1. ASSUME NEW i \in DOMAIN wait_list'[n] PROVE Ordered(n, i)
      <4>1. i \in 1 .. L \/ i = L + 1
        BY SMTT(40), <1>6
      <4> QED
        BY ZenonT(40), <2>3, <2>4, <4>1
    <3> QED
      BY ZenonT(40), <2>2, <3>1
  <2> QED
    BY ZenonT(40), <1>5, <2>5 DEF WaitOrder, IsMaster
<1>14. Tokens'
  <2>1. ASSUME NEW d PROVE HasToken(p, d)' <=> HasToken(p, d)
    BY ZenonT(40), <1>1, <1>2, <1>5 DEF HasToken, PastAck, m
  <2>2. ASSUME NEW d, NEW q \in Procs \ {p} PROVE HasToken(q, d)' <=> HasToken(q, d)
    BY ZenonT(40), <1>1, <1>5 DEF HasToken
  <2>3. \A q \in Procs : \A d : HasToken(q, d)' <=> HasToken(q, d)
    BY ZenonT(40), <2>1, <2>2
  <2> QED
    BY ZenonT(40), <1>5, <2>3 DEF IInv, Tokens, IsMaster
<1> QED
  BY ZenonT(40), <1>4, <1>5, <1>9, <1>10, <1>11, <1>12, <1>13, <1>14 DEF IInv, Accounting

(* A release: the permission is gone, and so is the holder.                  *)
LEMMA ReceiveReleaseStep ==
    ASSUME FiniteSetFacts,
           IInv, TypeOK', NEW p \in Procs, Receive(p), Head(req[p]).kind = "release"
    PROVE  IInv'
<1> DEFINE m == Head(req[p])
           n == m.name
           b == wait_list[n] = <<>>
           r == process_request(lock[n], m, b)
<1>1. /\ m \in Requests /\ IsMaster(p) /\ m = req[p][1] /\ req[p] # <<>>
      /\ \A q \in Procs \ {p} : req'[q] = req[q]
      /\ Len(req'[p]) = Len(req[p]) - 1
      /\ DOMAIN req'[p] = 1 .. Len(req[p]) - 1
      /\ \A i \in 1 .. Len(req[p]) - 1 : req'[p][i] = req[p][i + 1]
      /\ Len(req[p]) \in Nat \ {0} /\ DOMAIN req[p] = 1 .. Len(req[p])
      /\ req'[p] = <<>> <=> Len(req[p]) = 1
  BY ZenonT(40), ReceivedRequest
<1>2. /\ n \in Names /\ m.mode \in {"read", "write"} /\ b \in BOOLEAN
      /\ lock[n] \in LockRecords
  BY ZenonT(40), <1>1 DEF Requests, Modes, IInv, TypeOK
<1>3. r.action \in {"notify", "none"}
  BY ZenonT(40), <1>1, <1>2, ProcessRequestType
<1>4. /\ lock' = [lock EXCEPT ![n] = r.lock]
      /\ rd_holders' = IF m.mode = "read" THEN [rd_holders EXCEPT ![n] = @ \ {p}]
                                          ELSE rd_holders
      /\ wr_holders' = IF m.mode = "write" THEN [wr_holders EXCEPT ![n] = @ \ {p}]
                                           ELSE wr_holders
      /\ UNCHANGED <<grant, wait_list, clientVars>>
  BY ZenonT(40), <1>3 DEF Receive
<1>5. m.kind = "release"
  BY ZenonT(40)
<1> HIDE DEF m, r, b
<1>6. /\ pc' = pc /\ op' = op /\ ack' = ack /\ grant' = grant /\ wait_list' = wait_list
  BY ZenonT(40), <1>4 DEF clientVars
<1>7. \A q : Waiting(q)' <=> Waiting(q)
  BY ZenonT(40), <1>6 DEF Waiting
<1>8. RequestsInOrder(p)
  BY ZenonT(40) DEF IInv, RequestOrder
<1>9. Together'
  BY ZenonT(40), <1>6 DEF IInv, Together
<1>10. MastersOnly'
  BY ZenonT(40), <1>1, <1>6 DEF IInv, MastersOnly, IsMaster
<1>11. RequestOrder'
  <2>1. RequestsInOrder(p)'
    <3>1. \A i \in DOMAIN req'[p] : i + 1 \in DOMAIN req[p] /\ req'[p][i] = req[p][i + 1]
      BY SMTT(40), <1>1
    <3>2. pc[p] = "idle" => Len(req'[p]) <= 1
      BY SMTT(40), <1>1, <1>8 DEF RequestsInOrder
    <3>3. ASSUME NEW i \in DOMAIN req'[p], req'[p][i].kind = "release" PROVE i = 1
      <4>1. req[p][i + 1].kind = "release" /\ i + 1 \in DOMAIN req[p]
        BY ZenonT(40), <3>1, <3>3
      <4>2. i + 1 = 1
        BY ZenonT(40), <1>8, <4>1 DEF RequestsInOrder
      <4> QED
        BY SMTT(40), <1>1, <4>2
    <3>4. ASSUME NEW i \in DOMAIN req'[p], req'[p][i].kind = "get"
          PROVE  /\ i = Len(req'[p]) /\ pc[p] = "acking" /\ ~ack[p][op[p].name]
                 /\ grant[p] = <<>> /\ ~Waiting(p)
                 /\ req'[p][i].name = op[p].name /\ req'[p][i].mode = op[p].mode
      BY SMTT(40), <1>1, <1>8, <3>1, <3>4 DEF RequestsInOrder
    <3>5. /\ ~(pc[p] \in PastAck)
          /\ ~(pc[p] = "acking" /\ ack[p][op[p].name])
      BY ZenonT(40), <1>1, <1>8 DEF RequestsInOrder
    <3> QED
      BY ZenonT(40), <1>6, <1>7, <3>2, <3>3, <3>4, <3>5 DEF RequestsInOrder
  <2>2. ASSUME NEW q \in Procs \ {p} PROVE RequestsInOrder(q)'
    <3>1. RequestsInOrder(q) /\ req'[q] = req[q]
      BY ZenonT(40), <1>1 DEF IInv, RequestOrder
    <3> QED
      BY ZenonT(40), <1>6, <1>7, <3>1 DEF RequestsInOrder, IsMaster
  <2> QED
    BY ZenonT(40), <2>1, <2>2 DEF RequestOrder
<1>12. WaitOrder'
  <2>1. ASSUME NEW k \in Names, NEW i \in DOMAIN wait_list[k]
        PROVE  wait_list[k][i].proc \in Procs \ {p}
    <3>1. wait_list[k][i].proc \in Procs
      BY ZenonT(40), SequenceFacts DEF IInv
    <3>2. req[wait_list[k][i].proc] = <<>>
      BY ZenonT(40) DEF IInv, WaitOrder
    <3> QED
      BY ZenonT(40), <1>1, <3>1, <3>2
  <2>2. ASSUME NEW k \in Names, NEW i \in DOMAIN wait_list[k]
        PROVE  /\ pc'[wait_list[k][i].proc] = pc[wait_list[k][i].proc]
               /\ ack'[wait_list[k][i].proc] = ack[wait_list[k][i].proc]
               /\ op'[wait_list[k][i].proc] = op[wait_list[k][i].proc]
               /\ req'[wait_list[k][i].proc] = req[wait_list[k][i].proc]
               /\ grant'[wait_list[k][i].proc] = grant[wait_list[k][i].proc]
    BY ZenonT(40), <1>1, <1>6, <2>1
  <2> QED
    BY ZenonT(40), <1>1, <1>6, <2>2, WaitOrderKept DEF IInv
<1>13. grant[p] = <<>>
  BY ZenonT(40), <1>1 DEF IInv, GrantOrder
<1>14. GrantOrder'
  BY ZenonT(40), <1>1, <1>6, <1>7, <1>13 DEF IInv, GrantOrder
<1>15. ASSUME NEW d \in Calls
       PROVE  HasToken(p, d) <=> d.name = n /\ d.mode = m.mode
  <2>1. pc[p] \notin PastAck /\ ~(pc[p] = "acking" /\ ack[p][op[p].name])
    BY ZenonT(40), <1>1, <1>8 DEF RequestsInOrder
  <2> QED
    BY ZenonT(40), <1>1, <1>5, <1>13, <2>1 DEF HasToken
<1>16. ASSUME NEW d \in Calls PROVE ~HasToken(p, d)'
  <2>1. pc[p] \notin PastAck /\ ~(pc[p] = "acking" /\ ack[p][op[p].name])
    BY ZenonT(40), <1>1, <1>8 DEF RequestsInOrder
  <2>2. req'[p] # <<>> => req'[p][1].kind # "release"
    BY SMTT(40), <1>1, <1>8 DEF RequestsInOrder
  <2> QED
    BY ZenonT(40), <1>6, <1>13, <2>1, <2>2 DEF HasToken
<1>17. \A k \in Names : /\ [name |-> k, mode |-> "read"] \in Calls
                        /\ [name |-> k, mode |-> "write"] \in Calls
  BY ZenonT(40) DEF Calls, Modes
<1>18. /\ m.mode = "read" => p \in rd_holders[n]
       /\ m.mode = "write" => p \in wr_holders[n]
  BY ZenonT(40), <1>1, <1>2, <1>15, <1>17 DEF IInv, Tokens
<1>19. Tokens'
  <2>1. ASSUME NEW q \in Procs, NEW k \in Names
        PROVE  /\ q \in rd_holders'[k] <=> /\ q \in rd_holders[k]
                                           /\ ~(q = p /\ k = n /\ m.mode = "read")
               /\ q \in wr_holders'[k] <=> /\ q \in wr_holders[k]
                                           /\ ~(q = p /\ k = n /\ m.mode = "write")
    BY ZenonT(40), <1>2, <1>4 DEF IInv, TypeOK
  <2>2. ASSUME NEW k \in Names PROVE p \notin rd_holders'[k] /\ p \notin wr_holders'[k]
    BY ZenonT(40), <1>15, <1>17, <2>1 DEF IInv, Tokens
  <2>3. ASSUME NEW d, NEW q \in Procs \ {p} PROVE HasToken(q, d)' <=> HasToken(q, d)
    BY ZenonT(40), <1>1, <1>6 DEF HasToken
  <2>4. ASSUME NEW q \in Procs \ {p}, NEW k \in Names
        PROVE  /\ q \in rd_holders'[k]
                     <=> IsMaster(q) /\ HasToken(q, [name |-> k, mode |-> "read"])'
               /\ q \in wr_holders'[k]
                     <=> IsMaster(q) /\ HasToken(q, [name |-> k, mode |-> "write"])'
    BY ZenonT(40), <2>1, <2>3 DEF IInv, Tokens
  <2>5. ASSUME NEW k \in Names
        PROVE  /\ ~HasToken(p, [name |-> k, mode |-> "read"])'
               /\ ~HasToken(p, [name |-> k, mode |-> "write"])'
    BY ZenonT(40), <1>16, <1>17
  <2> QED
    BY ZenonT(40), <2>2, <2>4, <2>5 DEF Tokens, IsMaster
<1>20. Accounting'
  <2>1. /\ rd_holders[n] \in SUBSET Procs /\ wr_holders[n] \in SUBSET Procs
        /\ Accounted(lock[n], rd_holders[n], wr_holders[n])
    BY ZenonT(40), <1>2 DEF IInv, TypeOK, Accounting
  <2>2. ASSUME NEW dl \in LockRecords, NEW R \in SUBSET Procs, NEW W \in SUBSET Procs,
               Accounted(dl, R, W)
        PROVE  /\ m.mode = "read" /\ p \in R =>
                     Accounted(process_request(dl, m, b).lock, R \ {p}, W)
               /\ m.mode = "write" /\ p \in W =>
                     Accounted(process_request(dl, m, b).lock, R, W \ {p})
    BY Zenon, <1>1, <1>2, <1>5, <2>2, AccountedRelease
  <2>3. /\ m.mode = "read" => Accounted(r.lock, rd_holders[n] \ {p}, wr_holders[n])
        /\ m.mode = "write" => Accounted(r.lock, rd_holders[n], wr_holders[n] \ {p})
    BY ZenonT(40), <1>2, <1>18, <2>1, <2>2 DEF r
  <2>4. Accounted(lock'[n], rd_holders'[n], wr_holders'[n])
    <3>1. /\ lock'[n] = r.lock
          /\ m.mode = "read" => /\ rd_holders'[n] = rd_holders[n] \ {p}
                                /\ wr_holders'[n] = wr_holders[n]
          /\ m.mode = "write" => /\ rd_holders'[n] = rd_holders[n]
                                 /\ wr_holders'[n] = wr_holders[n] \ {p}
      BY ZenonT(40), <1>2, <1>4 DEF IInv, TypeOK
    <3> QED
      BY ZenonT(40), <1>2, <2>3, <3>1
  <2>5. ASSUME NEW k \in Names \ {n}
        PROVE  Accounted(lock'[k], rd_holders'[k], wr_holders'[k])
    <3>1. lock'[k] = lock[k] /\ rd_holders'[k] = rd_holders[k] /\ wr_holders'[k] = wr_holders[k]
      BY ZenonT(40), <1>2, <1>4 DEF IInv, TypeOK
    <3> QED
      BY ZenonT(40), <3>1 DEF IInv, Accounting
  <2> QED
    BY ZenonT(40), <2>4, <2>5 DEF Accounting, Accounted, AtMostOne, SemAccounting, LockAccounting
<1> QED
  BY ZenonT(40), <1>9, <1>10, <1>11, <1>12, <1>14, <1>19, <1>20 DEF IInv

-----------------------------------------------------------------------------
(* Type correctness.                                                       *)

(* The lock service starts with every variable of its type.                *)
LEMMA TypeInit == Init => TypeOK
<1> SUFFICES ASSUME Init PROVE TypeOK
  BY ZenonT(40)
<1>1. NewLock \in LockRecords
  BY DEF NewLock, LockRecords, WrMax
<1>2. (CHOOSE c \in Calls : TRUE) \in Calls
  <2>1. \E c \in Calls : TRUE
    <3>1. PICK n \in Names : TRUE
      BY ZenonT(40), TopologyAssumption
    <3>2. [name |-> n, mode |-> "read"] \in Calls
      BY ZenonT(40) DEF Calls, Modes
    <3> QED
      BY ZenonT(40), <3>2
  <2> QED
    BY ZenonT(40), <2>1
<1>3. op \in [Procs -> Calls]
  BY ZenonT(40), <1>2 DEF Init
<1>4. calls \in [Procs -> 0..MaxCalls]
  BY ConfAssumption DEF Init
<1>5. /\ req \in [Procs -> Seq(Requests)]
      /\ grant \in [Procs -> Seq(Grants)]
      /\ wait_list \in [Names -> Seq(Pending)]
  BY DEF Init
<1> QED
  BY ZenonT(40), <1>1, <1>3, <1>4, <1>5 DEF Init, TypeOK

(* dcg_lock_request keeps the types of the connection and of ack.          *)
LEMMA TypeRequest ==
    ASSUME TypeOK, NEW p \in Procs, NEW kind \in {"get", "release"}, NEW c \in Calls,
           dcg_lock_request(p, kind, c)
    PROVE  req' \in [Procs -> Seq(Requests)] /\ ack' \in [Procs -> [Names -> BOOLEAN]]
<1> DEFINE m == [kind |-> kind, mode |-> c.mode, name |-> c.name,
                 num |-> lock_num[p][c.name]]
<1>1. m \in Requests /\ c.name \in Names
  BY DEF TypeOK, Calls, Requests
<1>2. req[p] \in Seq(Requests)
  BY ZenonT(40) DEF TypeOK
<1>3. Append(req[p], m) \in Seq(Requests)
  BY ZenonT(40), <1>1, <1>2, ListAppended
<1>4. req' = [req EXCEPT ![p] = Append(req[p], m)]
  BY ZenonT(40) DEF dcg_lock_request
<1> HIDE DEF m
<1>5. req' \in [Procs -> Seq(Requests)]
  BY ZenonT(40), <1>3, <1>4 DEF TypeOK
<1>6. ack' \in [Procs -> [Names -> BOOLEAN]]
  BY ZenonT(40), <1>1 DEF TypeOK, dcg_lock_request
<1> QED
  BY ZenonT(40), <1>5, <1>6

(* dsg_lock_grant keeps the types of the connection and of the holders.    *)
LEMMA TypeGrant ==
    ASSUME TypeOK, NEW n \in Names, NEW p \in Procs, NEW num \in Nat, NEW mode \in Modes,
           dsg_lock_grant(n, p, num, mode)
    PROVE  /\ grant' \in [Procs -> Seq(Grants)]
           /\ rd_holders' \in [Names -> SUBSET Procs]
           /\ wr_holders' \in [Names -> SUBSET Procs]
<1> DEFINE g == [name |-> n, num |-> num + 1]
<1>1. g \in Grants
  BY DEF Grants
<1>2. grant[p] \in Seq(Grants)
  BY ZenonT(40) DEF TypeOK
<1>3. Append(grant[p], g) \in Seq(Grants)
  BY ZenonT(40), <1>1, <1>2, ListAppended
<1>4. grant' = [grant EXCEPT ![p] = Append(grant[p], g)]
  BY ZenonT(40) DEF dsg_lock_grant
<1> HIDE DEF g
<1>5. grant' \in [Procs -> Seq(Grants)]
  BY ZenonT(40), <1>3, <1>4 DEF TypeOK
<1> QED
  BY ZenonT(40), <1>5 DEF TypeOK, dsg_lock_grant

(* A step keeps every variable in its type.                                 *)
LEMMA TypeStep == TypeOK /\ [Next]_vars => TypeOK'
<1> SUFFICES ASSUME TypeOK, [Next]_vars PROVE TypeOK'
  BY ZenonT(40)
<1>1. ASSUME NEW p \in Procs, NEW c \in Calls, LockCall(p, c) PROVE TypeOK'
  <2>1. /\ req' \in [Procs -> Seq(Requests)]
        /\ ack' \in [Procs -> [Names -> BOOLEAN]]
    BY ZenonT(40), <1>1, TypeRequest DEF LockCall, TypeOK
  <2>2. calls' \in [Procs -> 0..MaxCalls]
    BY SMTT(40), <1>1, ConfAssumption DEF LockCall, TypeOK
  <2> QED
    BY ZenonT(40), <1>1, <2>1, <2>2 DEF LockCall, TypeOK, serverVars
<1>2. ASSUME NEW p \in Procs, GrantArrives(p) PROVE TypeOK'
  <2>1. Head(grant[p]) \in Grants /\ Tail(grant[p]) \in Seq(Grants)
    BY ZenonT(40), <1>2, MessageTypes DEF GrantArrives
  <2>2. grant' \in [Procs -> Seq(Grants)]
    BY ZenonT(40), <1>2, <2>1 DEF GrantArrives, TypeOK
  <2>3. /\ lock_num' \in [Procs -> [Names -> Nat]]
        /\ ack' \in [Procs -> [Names -> BOOLEAN]]
    BY ZenonT(40), <1>2, <2>1 DEF GrantArrives, TypeOK, Grants
  <2> QED
    BY ZenonT(40), <1>2, <2>2, <2>3 DEF GrantArrives, TypeOK, serverVars
<1>3. ASSUME NEW p \in Procs, AckSeen(p) PROVE TypeOK'
  BY ZenonT(40), <1>3 DEF AckSeen, TypeOK, serverVars
<1>4. ASSUME NEW p \in Procs, UnlockCall(p) PROVE TypeOK'
  BY ZenonT(40), <1>4 DEF UnlockCall, TypeOK, serverVars
<1>5. ASSUME NEW p \in Procs, SendRelease(p) PROVE TypeOK'
  <2>1. op[p] \in Calls
    BY ZenonT(40) DEF TypeOK
  <2>2. /\ req' \in [Procs -> Seq(Requests)]
        /\ ack' \in [Procs -> [Names -> BOOLEAN]]
    BY ZenonT(40), <1>5, <2>1, TypeRequest DEF SendRelease
  <2> QED
    BY ZenonT(40), <1>5, <2>2 DEF SendRelease, TypeOK, serverVars
<1>6. ASSUME NEW p \in Procs, Receive(p) PROVE TypeOK'
  <2> DEFINE m == Head(req[p])
             r == process_request(lock[m.name], m, wait_list[m.name] = <<>>)
  <2>1. m \in Requests /\ Tail(req[p]) \in Seq(Requests)
    BY ZenonT(40), <1>6, MessageTypes DEF Receive
  <2>2. /\ m.name \in Names /\ m.mode \in Modes /\ m.num \in Nat
        /\ lock[m.name] \in LockRecords
    BY ZenonT(40), <2>1 DEF Requests, TypeOK
  <2>3. r.lock \in LockRecords
    <3>1. r \in Answers
      BY ZenonT(40), <2>1, <2>2, ProcessRequestType
    <3> QED
      BY ZenonT(40), <3>1 DEF Answers
  <2>4. /\ req' = [req EXCEPT ![p] = Tail(@)]
        /\ lock' = [lock EXCEPT ![m.name] = r.lock]
        /\ UNCHANGED clientVars
        /\ \/ dsg_lock_grant(m.name, p, m.num, m.mode) /\ UNCHANGED <<wait_list, scan>>
           \/ /\ dsg_lock_put_on_wait(m.name, p, m)
              /\ UNCHANGED <<grant, scan, rd_holders, wr_holders>>
           \/ /\ rd_holders' = IF m.mode = "read"
                               THEN [rd_holders EXCEPT ![m.name] = @ \ {p}]
                               ELSE rd_holders
              /\ wr_holders' = IF m.mode = "write"
                               THEN [wr_holders EXCEPT ![m.name] = @ \ {p}]
                               ELSE wr_holders
              /\ scan' = [scan EXCEPT ![m.name] = IF r.action = "notify" THEN 1 ELSE 0]
              /\ UNCHANGED <<grant, wait_list>>
    BY ZenonT(40), <1>6 DEF Receive
  <2> HIDE DEF m, r
  <2>5. req' \in [Procs -> Seq(Requests)] /\ lock' \in [Names -> LockRecords]
    BY ZenonT(40), <2>1, <2>2, <2>3, <2>4 DEF TypeOK
  <2>6. CASE dsg_lock_grant(m.name, p, m.num, m.mode) /\ UNCHANGED <<wait_list, scan>>
    BY ZenonT(40), <2>2, <2>4, <2>5, <2>6, TypeGrant DEF TypeOK, clientVars
  <2>7. CASE /\ dsg_lock_put_on_wait(m.name, p, m)
             /\ UNCHANGED <<grant, scan, rd_holders, wr_holders>>
    <3>1. [proc |-> p, mode |-> m.mode, num |-> m.num] \in Pending
      BY ZenonT(40), <2>2 DEF Pending
    <3>2. wait_list' \in [Names -> Seq(Pending)]
      BY ZenonT(40), <2>2, <2>7, <3>1, ListAppended DEF TypeOK, dsg_lock_put_on_wait
    <3> QED
      BY ZenonT(40), <2>4, <2>5, <2>7, <3>2 DEF TypeOK, clientVars
  <2>8. CASE /\ rd_holders' = IF m.mode = "read"
                              THEN [rd_holders EXCEPT ![m.name] = @ \ {p}]
                              ELSE rd_holders
             /\ wr_holders' = IF m.mode = "write"
                              THEN [wr_holders EXCEPT ![m.name] = @ \ {p}]
                              ELSE wr_holders
             /\ scan' = [scan EXCEPT ![m.name] = IF r.action = "notify" THEN 1 ELSE 0]
             /\ UNCHANGED <<grant, wait_list>>
    BY ZenonT(40), <2>4, <2>5, <2>8 DEF TypeOK, clientVars
  <2> QED
    BY ZenonT(40), <2>4, <2>6, <2>7, <2>8
<1>7. ASSUME NEW a \in Apps, LockBarrier(a) PROVE TypeOK'
  BY ZenonT(40), <1>7 DEF LockBarrier, TypeOK, serverVars
<1>8. ASSUME NEW a \in Apps, UnlockBarrier(a) PROVE TypeOK'
  BY ZenonT(40), <1>8 DEF UnlockBarrier, TypeOK, serverVars
<1>9. ASSUME NEW n \in Names, ProcessWaitList(n) PROVE TypeOK'
  <2>1. CASE scan[n] > Len(wait_list[n])
    <3>1. /\ scan' = [scan EXCEPT ![n] = 0]
          /\ UNCHANGED <<lock, wait_list, grant, rd_holders, wr_holders>>
          /\ UNCHANGED <<clientVars, req>>
      BY ZenonT(40), <1>9, <2>1 DEF ProcessWaitList
    <3> QED
      BY ZenonT(40), <3>1 DEF TypeOK, clientVars
  <2>2. CASE ~(scan[n] > Len(wait_list[n]))
    <3> DEFINE w == wait_list[n][scan[n]]
               m == [kind |-> "get", mode |-> w.mode, name |-> n, num |-> w.num]
               r == process_request(lock[n], m, TRUE)
    <3>1. wait_list[n] \in Seq(Pending) /\ scan[n] \in 1 .. Len(wait_list[n])
      BY SMTT(40), <1>9, <2>2 DEF ProcessWaitList, TypeOK
    <3>2. w.proc \in Procs /\ w.mode \in Modes /\ w.num \in Nat
      <4>1. w \in Pending
        BY ZenonT(40), <3>1, EntryType
      <4> QED
        BY ZenonT(40), <4>1 DEF Pending
    <3>3. m \in Requests
      BY ZenonT(40), <3>2 DEF Requests
    <3>4. r.lock \in LockRecords
      <4>1. lock[n] \in LockRecords
        BY ZenonT(40) DEF TypeOK
      <4>2. r \in Answers
        BY ZenonT(40), <3>3, <4>1, ProcessRequestType
      <4> QED
        BY ZenonT(40), <4>2 DEF Answers
    <3>5. /\ lock' = [lock EXCEPT ![n] = r.lock]
          /\ \/ /\ dsg_lock_grant(n, w.proc, w.num, w.mode)
                /\ wait_list' = [wait_list EXCEPT ![n] = list_del(@, scan[n])]
                /\ UNCHANGED scan
             \/ /\ scan' = [scan EXCEPT ![n] = IF LockType = "custom" THEN @ + 1 ELSE 0]
                /\ UNCHANGED <<wait_list, grant, rd_holders, wr_holders>>
          /\ UNCHANGED <<clientVars, req>>
      BY ZenonT(40), <1>9, <2>2 DEF ProcessWaitList
    <3> HIDE DEF w, m, r
    <3>6. lock' \in [Names -> LockRecords]
      BY ZenonT(40), <3>4, <3>5 DEF TypeOK
    <3>7. CASE /\ dsg_lock_grant(n, w.proc, w.num, w.mode)
               /\ wait_list' = [wait_list EXCEPT ![n] = list_del(@, scan[n])]
               /\ UNCHANGED scan
      <4>1. list_del(wait_list[n], scan[n]) \in Seq(Pending)
        BY ZenonT(40), <3>1, DeletedEntry
      <4>2. wait_list' \in [Names -> Seq(Pending)]
        BY ZenonT(40), <3>7, <4>1 DEF TypeOK
      <4> QED
        BY ZenonT(40), <3>2, <3>5, <3>6, <3>7, <4>2, TypeGrant DEF TypeOK, clientVars
    <3>8. CASE /\ scan' = [scan EXCEPT ![n] = IF LockType = "custom" THEN @ + 1 ELSE 0]
               /\ UNCHANGED <<wait_list, grant, rd_holders, wr_holders>>
      BY SMTT(40), <3>5, <3>6, <3>8 DEF TypeOK, clientVars
    <3> QED
      BY ZenonT(40), <3>5, <3>7, <3>8
  <2> QED
    BY ZenonT(40), <2>1, <2>2
<1>10. CASE UNCHANGED vars
  BY ZenonT(40), <1>10 DEF vars, clientVars, serverVars, TypeOK
<1> QED
  BY ZenonT(40), <1>1, <1>2, <1>3, <1>4, <1>5, <1>6, <1>7, <1>8, <1>9, <1>10 DEF Next

-----------------------------------------------------------------------------
(* The loop over the wait list, and the inductive invariant.               *)

(* A request that is granted from the wait list.                            *)
LEMMA WaitListGrantStep ==
    ASSUME FiniteSetFacts,
           IInv, TypeOK', NEW n \in Names, scan[n] # 0, ~(scan[n] > Len(wait_list[n])),
           NEW m \in Requests, m.kind = "get", m.name = n,
           m.mode = wait_list[n][scan[n]].mode,
           process_request(lock[n], m, TRUE).action = "grant",
           lock' = [lock EXCEPT ![n] = process_request(lock[n], m, TRUE).lock],
           dsg_lock_grant(n, wait_list[n][scan[n]].proc, m.num, m.mode),
           wait_list' = [wait_list EXCEPT ![n] = list_del(@, scan[n])],
           UNCHANGED <<clientVars, req>>
    PROVE  IInv'
<1> DEFINE s == scan[n]
           w == wait_list[n][s]
           L == Len(wait_list[n])
           At(k, i) == IF k # n \/ i < s THEN i ELSE i + 1
<1>0. PICK p \in Procs : p = w.proc
  BY ZenonT(40), ScannedRequest
<1>1. /\ s \in DOMAIN wait_list[n]
      /\ p \in Procs /\ IsMaster(p) /\ pc[p] = "acking" /\ ~ack[p][n]
      /\ op[p] = [name |-> n, mode |-> w.mode]
      /\ req[p] = <<>> /\ grant[p] = <<>>
      /\ \A k \in Names : \A i \in DOMAIN wait_list[k] :
            wait_list[k][i].proc = p => k = n /\ i = s
  <2>1. /\ s \in DOMAIN wait_list[n] /\ IsMaster(w.proc)
        /\ pc[w.proc] = "acking" /\ ~ack[w.proc][n]
        /\ op[w.proc] = [name |-> n, mode |-> w.mode]
        /\ req[w.proc] = <<>> /\ grant[w.proc] = <<>>
        /\ \A k \in Names : \A i \in DOMAIN wait_list[k] :
              wait_list[k][i].proc = w.proc => k = n /\ i = s
    BY ZenonT(40), ScannedRequest
  <2> QED
    BY ZenonT(40), <1>0, <2>1
<1>2. /\ m.kind = "get" /\ m.mode = w.mode /\ m.name = n
  BY ZenonT(40)
<1>3. /\ L \in Nat /\ s \in 1 .. L
      /\ DOMAIN wait_list[n] = 1 .. L /\ DOMAIN wait_list'[n] = 1 .. L - 1
      /\ \A i \in 1 .. L - 1 :
            wait_list'[n][i] = IF i < s THEN wait_list[n][i] ELSE wait_list[n][i + 1]
      /\ \A k \in Names \ {n} : wait_list'[k] = wait_list[k]
  <2>1. wait_list[n] \in Seq(Pending) /\ L \in Nat /\ DOMAIN wait_list[n] = 1 .. L
    BY ZenonT(40), SequenceFacts DEF IInv, TypeOK
  <2>2. wait_list'[n] = list_del(wait_list[n], s)
    BY ZenonT(40) DEF IInv, TypeOK
  <2>3. s \in 1 .. L
    BY ZenonT(40), <1>1, <2>1
  <2>4. /\ wait_list'[n] \in Seq(Pending) /\ Len(wait_list'[n]) = L - 1
        /\ \A i \in 1 .. L - 1 :
              wait_list'[n][i] = IF i < s THEN wait_list[n][i] ELSE wait_list[n][i + 1]
    BY SMTT(40), <2>1, <2>2, <2>3, DeletedEntry
  <2>5. DOMAIN wait_list'[n] = 1 .. L - 1
    BY ZenonT(40), <2>4, ListLength
  <2>6. \A k \in Names \ {n} : wait_list'[k] = wait_list[k]
    BY ZenonT(40) DEF IInv, TypeOK
  <2> QED
    BY ZenonT(40), <2>1, <2>3, <2>4, <2>5, <2>6
<1> HIDE DEF s, w, L
<1>4. ASSUME NEW k \in Names, NEW i \in DOMAIN wait_list'[k]
      PROVE  /\ At(k, i) \in DOMAIN wait_list[k]
             /\ wait_list'[k][i] = wait_list[k][At(k, i)]
             /\ k = n => At(k, i) # s
             /\ \A j \in DOMAIN wait_list'[k] : At(k, i) = At(k, j) => i = j
  <2>1. CASE k = n
    BY SMTT(40), <1>3, <2>1
  <2>2. CASE k # n
    BY ZenonT(40), <1>3, <2>2
  <2> QED
    BY ZenonT(40), <2>1, <2>2
<1> HIDE DEF At
<1>5. ASSUME NEW k \in Names, NEW i \in DOMAIN wait_list'[k]
      PROVE  wait_list'[k][i].proc \in Procs \ {p}
  <2>1. wait_list[k][At(k, i)].proc \in Procs
    BY ZenonT(40), <1>4, SequenceFacts DEF IInv
  <2> QED
    BY SMTT(40), <1>1, <1>4, <2>1
<1>6. ~Waiting(p)' /\ \A q \in Procs : Waiting(q)' => Waiting(q)
  <2>1. ~Waiting(p)'
    BY ZenonT(40), <1>5 DEF Waiting
  <2>2. ASSUME NEW q \in Procs, Waiting(q)' PROVE Waiting(q)
    <3>0. PICK k \in Names : \E i \in DOMAIN wait_list'[k] : wait_list'[k][i].proc = q
      BY ZenonT(40), <2>2 DEF Waiting
    <3>1. PICK i \in DOMAIN wait_list'[k] : wait_list'[k][i].proc = q
      BY ZenonT(40), <3>0
    <3>2. At(k, i) \in DOMAIN wait_list[k] /\ wait_list[k][At(k, i)].proc = q
      BY ZenonT(40), <1>4, <3>1
    <3> QED
      BY ZenonT(40), <3>2 DEF Waiting
  <2> QED
    BY ZenonT(40), <2>1, <2>2
<1>7. /\ \A q \in Procs \ {p} : grant'[q] = grant[q]
      /\ pc' = pc /\ op' = op /\ ack' = ack /\ req' = req
  BY SMTT(40), <1>0, <1>1 DEF dsg_lock_grant, IInv, TypeOK, clientVars, w, s
<1>8. WaitOrder'
  <2>1. ASSUME NEW k \in Names, NEW i \in DOMAIN wait_list'[k]
        PROVE  /\ IsMaster(wait_list'[k][i].proc)
               /\ pc'[wait_list'[k][i].proc] = "acking"
               /\ ~ack'[wait_list'[k][i].proc][k]
               /\ op'[wait_list'[k][i].proc] = [name |-> k, mode |-> wait_list'[k][i].mode]
               /\ req'[wait_list'[k][i].proc] = <<>>
               /\ grant'[wait_list'[k][i].proc] = <<>>
               /\ \A j \in DOMAIN wait_list'[k] :
                     wait_list'[k][j].proc = wait_list'[k][i].proc => i = j
    <3> DEFINE e == At(k, i)
               u == wait_list[k][e]
    <3>1. e \in DOMAIN wait_list[k] /\ wait_list'[k][i] = u
      BY ZenonT(40), <1>4
    <3>2. /\ IsMaster(u.proc) /\ pc[u.proc] = "acking" /\ ~ack[u.proc][k]
          /\ op[u.proc] = [name |-> k, mode |-> u.mode]
          /\ req[u.proc] = <<>> /\ grant[u.proc] = <<>>
          /\ \A j \in DOMAIN wait_list[k] : wait_list[k][j].proc = u.proc => e = j
      BY <3>1, ZenonT(40) DEF IInv, WaitOrder
    <3> HIDE DEF e, u
    <3>3. u.proc \in Procs \ {p}
      BY ZenonT(40), <1>5, <3>1
    <3>4. ASSUME NEW j \in DOMAIN wait_list'[k], wait_list'[k][j].proc = u.proc
          PROVE  i = j
      <4>1. At(k, j) \in DOMAIN wait_list[k] /\ wait_list[k][At(k, j)].proc = u.proc
        BY ZenonT(40), <1>4, <3>4
      <4>2. e = At(k, j)
        BY ZenonT(40), <3>2, <4>1
      <4> QED
        BY ZenonT(40), <1>4, <4>2 DEF e
    <3>5. /\ pc'[u.proc] = pc[u.proc] /\ ack'[u.proc] = ack[u.proc]
          /\ op'[u.proc] = op[u.proc] /\ req'[u.proc] = req[u.proc]
          /\ grant'[u.proc] = grant[u.proc]
      BY ZenonT(40), <1>7, <3>3
    <3> QED
      BY ZenonT(40), <3>1, <3>2, <3>4, <3>5
  <2> QED
    BY ZenonT(40), <2>1 DEF WaitOrder, IsMaster
<1>9. dsg_lock_grant(m.name, p, m.num, m.mode)
  BY ZenonT(40), <1>0, <1>2 DEF w, s
<1>10. /\ process_request(lock[m.name], m, TRUE).action = "grant"
       /\ lock' = [lock EXCEPT ![m.name] = process_request(lock[m.name], m, TRUE).lock]
  BY ZenonT(40), <1>2
<1>11. UNCHANGED clientVars
  BY ZenonT(40)
<1>12. /\ op[p] = [name |-> m.name, mode |-> m.mode] /\ ~ack[p][m.name]
       /\ req'[p] = <<>> /\ \A q \in Procs \ {p} : req'[q] = req[q]
       /\ TRUE \in BOOLEAN
  BY ZenonT(40), <1>1, <1>2, <1>7
<1> QED
  BY ZenonT(40), <1>1, <1>2, <1>6, <1>8, <1>9, <1>10, <1>11, <1>12, GrantStep

(* One turn of the loop over the wait list.                                 *)
LEMMA ProcessWaitListStep ==
    ASSUME FiniteSetFacts, IInv, TypeOK', NEW n \in Names, ProcessWaitList(n)
    PROVE  IInv'
<1>1. ASSUME UNCHANGED <<lock, wait_list, grant, rd_holders, wr_holders, clientVars, req>>
      PROVE  IInv'
  <2>1. /\ pc' = pc /\ op' = op /\ ack' = ack /\ req' = req /\ grant' = grant
        /\ wait_list' = wait_list /\ lock' = lock
        /\ rd_holders' = rd_holders /\ wr_holders' = wr_holders
    BY ZenonT(40), <1>1 DEF clientVars
  <2>2. Together' /\ MastersOnly' /\ Accounting'
    BY ZenonT(40), <2>1 DEF IInv, Together, MastersOnly, IsMaster, Accounting
  <2>3. RequestOrder' /\ WaitOrder' /\ GrantOrder'
    <3>1. RequestOrder'
      BY ZenonT(120), <2>1 DEF IInv, RequestOrder, RequestsInOrder, Waiting, IsMaster
    <3>2. WaitOrder'
      BY ZenonT(40), <2>1 DEF IInv, WaitOrder, IsMaster
    <3>3. GrantOrder'
      BY ZenonT(40), <2>1 DEF IInv, GrantOrder, Waiting, IsMaster
    <3> QED
      BY ZenonT(40), <3>1, <3>2, <3>3
  <2>4. Tokens'
    <3>1. \A q, d : HasToken(q, d)' <=> HasToken(q, d)
      BY ZenonT(40), <2>1 DEF HasToken
    <3> QED
      BY ZenonT(40), <2>1, <3>1 DEF IInv, Tokens, IsMaster
  <2> QED
    BY ZenonT(40), <2>2, <2>3, <2>4 DEF IInv
<1>2. CASE scan[n] > Len(wait_list[n])
  BY ZenonT(40), <1>1, <1>2 DEF ProcessWaitList
<1>3. CASE ~(scan[n] > Len(wait_list[n]))
  <2> DEFINE w == wait_list[n][scan[n]]
             m == [kind |-> "get", mode |-> w.mode, name |-> n, num |-> w.num]
             r == process_request(lock[n], m, TRUE)
  <2>1. scan[n] # 0
    BY ZenonT(40) DEF ProcessWaitList
  <2>2. /\ w.proc \in Procs /\ w.mode \in Modes /\ w.num \in Nat
        /\ IsMaster(w.proc) /\ pc[w.proc] = "acking" /\ ~ack[w.proc][n]
        /\ op[w.proc] = [name |-> n, mode |-> w.mode]
        /\ req[w.proc] = <<>> /\ grant[w.proc] = <<>>
    BY ZenonT(40), <1>3, <2>1, ScannedRequest
  <2>3. m \in Requests /\ m.kind = "get" /\ m.name = n /\ m.mode = w.mode /\ m.num = w.num
    BY ZenonT(40), <2>2 DEF Requests
  <2>4. /\ lock' = [lock EXCEPT ![n] = r.lock]
        /\ \/ /\ r.action = "grant"
              /\ dsg_lock_grant(n, w.proc, m.num, m.mode)
              /\ wait_list' = [wait_list EXCEPT ![n] = list_del(@, scan[n])]
           \/ /\ r.action = "wait"
              /\ UNCHANGED <<wait_list, grant, rd_holders, wr_holders>>
        /\ UNCHANGED <<clientVars, req>>
    BY ZenonT(40), <1>3 DEF ProcessWaitList
  <2> HIDE DEF m
  <2>5. CASE /\ r.action = "grant"
             /\ dsg_lock_grant(n, w.proc, m.num, m.mode)
             /\ wait_list' = [wait_list EXCEPT ![n] = list_del(@, scan[n])]
    BY ZenonT(40), <1>3, <2>1, <2>3, <2>4, <2>5, WaitListGrantStep
  <2>6. CASE /\ r.action = "wait"
             /\ UNCHANGED <<wait_list, grant, rd_holders, wr_holders>>
    <3>1. /\ lock[n] \in LockRecords /\ lock \in [Names -> LockRecords]
          /\ rd_holders[n] \in SUBSET Procs /\ wr_holders[n] \in SUBSET Procs
          /\ Accounted(lock[n], rd_holders[n], wr_holders[n])
      BY ZenonT(40) DEF IInv, TypeOK, Accounting
    <3>2. w.proc \notin rd_holders[n]
      <4>1. \A d : ~HasToken(w.proc, d)
        BY ZenonT(40), <2>2, NoTokenYet
      <4> QED
        BY ZenonT(40), <2>2, <4>1 DEF IInv, Tokens
    <3>3. ASSUME NEW dl \in LockRecords, NEW R \in SUBSET Procs, NEW W \in SUBSET Procs,
                 NEW p \in Procs, p \notin R, Accounted(dl, R, W),
                 process_request(dl, m, TRUE).action = "wait"
          PROVE  process_request(dl, m, TRUE).lock = dl
      BY ZenonT(40), <2>3, <3>3, AccountedGet
    <3>4. r.lock = lock[n]
      BY ZenonT(40), <2>2, <2>6, <3>1, <3>2, <3>3
    <3>5. lock' = lock
      BY ZenonT(40), <2>4, <3>1, <3>4
    <3> QED
      BY ZenonT(40), <1>1, <2>4, <2>6, <3>5
  <2> QED
    BY ZenonT(40), <2>4, <2>5, <2>6
<1> QED
  BY ZenonT(40), <1>2, <1>3

(* The inductive invariant holds before the first lock call.               *)
LEMMA IInvInit ==
    ASSUME FiniteSetFacts
    PROVE  Init => IInv
<1> SUFFICES ASSUME Init PROVE IInv
  BY ZenonT(40)
<1>1. TypeOK
  BY ZenonT(40), TypeInit
<1>2. /\ \A p \in Procs : pc[p] = "idle" /\ req[p] = <<>> /\ grant[p] = <<>>
      /\ \A n \in Names : /\ wait_list[n] = <<>> /\ lock[n] = NewLock
                          /\ rd_holders[n] = {} /\ wr_holders[n] = {}
  BY ZenonT(40) DEF Init
<1>3. Together /\ MastersOnly /\ GrantOrder /\ WaitOrder
  BY SMTT(40), <1>2 DEF Together, MastersOnly, GrantOrder, WaitOrder, HeldPC, CallPC
<1>4. RequestOrder
  BY SMTT(40), <1>2 DEF RequestOrder, RequestsInOrder, PastAck
<1>5. Tokens
  BY ZenonT(40), <1>2 DEF Tokens, HasToken, PastAck
<1>6. Accounting
  <2>1. Cardinality({}) = 0
    BY ZenonT(40) DEF FiniteSetFacts
  <2> QED
    <3>1. Accounted(NewLock, {}, {})
      BY ZenonT(40), <2>1, ConfAssumption
         DEF Accounted, AtMostOne, LockAccounting, SemAccounting, NewLock, WrMax
    <3> QED
      BY ZenonT(40), <1>2, <3>1 DEF Accounting
<1> QED
  BY ZenonT(40), <1>1, <1>3, <1>4, <1>5, <1>6 DEF IInv

(* Every step of the lock service preserves the inductive invariant.        *)
LEMMA IInvStep ==
    ASSUME FiniteSetFacts
    PROVE  IInv /\ [Next]_vars => IInv'
<1> SUFFICES ASSUME IInv, [Next]_vars PROVE IInv'
  BY ZenonT(40)
<1>1. TypeOK'
  BY ZenonT(40), TypeStep DEF IInv
<1>2. ASSUME NEW p \in Procs, NEW c \in Calls, LockCall(p, c) PROVE IInv'
  BY ZenonT(40), <1>1, <1>2, LockCallStep
<1>3. ASSUME NEW p \in Procs, GrantArrives(p) PROVE IInv'
  BY ZenonT(40), <1>1, <1>3, GrantArrivesStep
<1>4. ASSUME NEW p \in Procs, AckSeen(p) PROVE IInv'
  BY ZenonT(40), <1>1, <1>4, AckSeenStep
<1>5. ASSUME NEW p \in Procs, UnlockCall(p) PROVE IInv'
  BY ZenonT(40), <1>1, <1>5, UnlockCallStep
<1>6. ASSUME NEW p \in Procs, SendRelease(p) PROVE IInv'
  BY ZenonT(40), <1>1, <1>6, SendReleaseStep
<1>7. ASSUME NEW p \in Procs, Receive(p) PROVE IInv'
  <2> DEFINE m == Head(req[p])
             b == wait_list[m.name] = <<>>
  <2>1. m \in Requests /\ m.kind \in {"get", "release"} /\ m.name \in Names
    BY ZenonT(40), <1>1, <1>7, ReceivedRequest DEF Requests
  <2>2. CASE m.kind = "release"
    BY ZenonT(40), <1>1, <1>7, <2>2, ReceiveReleaseStep
  <2>3. CASE m.kind = "get"
    <3>1. lock[m.name] \in LockRecords /\ b \in BOOLEAN
      BY ZenonT(40), <2>1 DEF IInv, TypeOK
    <3>2. process_request(lock[m.name], m, b).action \in {"grant", "wait"}
      BY ZenonT(40), <2>1, <2>3, <3>1, ProcessRequestType
    <3> QED
      BY ZenonT(40), <1>1, <1>7, <2>3, <3>2, ReceiveGrantStep, ReceiveWaitStep
  <2> QED
    BY ZenonT(40), <2>1, <2>2, <2>3
<1>8. ASSUME NEW a \in Apps, LockBarrier(a) PROVE IInv'
  BY ZenonT(40), <1>1, <1>8, LockBarrierStep
<1>9. ASSUME NEW a \in Apps, UnlockBarrier(a) PROVE IInv'
  BY ZenonT(40), <1>1, <1>9, UnlockBarrierStep
<1>10. ASSUME NEW n \in Names, ProcessWaitList(n) PROVE IInv'
  BY ZenonT(40), <1>1, <1>10, ProcessWaitListStep
<1>11. CASE UNCHANGED vars
  <2> USE DEF IInv
  <2>1. /\ pc' = pc /\ op' = op /\ ack' = ack /\ req' = req /\ grant' = grant
        /\ lock' = lock /\ wait_list' = wait_list
        /\ rd_holders' = rd_holders /\ wr_holders' = wr_holders
    BY ZenonT(40), <1>11 DEF vars, clientVars, serverVars
  <2>2. Together' /\ MastersOnly' /\ Accounting'
    BY ZenonT(40), <2>1 DEF Together, MastersOnly, Accounting, IsMaster
  <2>3. RequestOrder' /\ GrantOrder'
    BY SMTT(40), <2>1 DEF RequestOrder, RequestsInOrder, GrantOrder, Waiting, IsMaster
  <2>4. WaitOrder'
    BY ZenonT(40), <2>1 DEF WaitOrder, IsMaster
  <2>5. Tokens'
    <3> SUFFICES ASSUME NEW q \in Procs, NEW n \in Names PROVE Tokens!(q, n)'
      BY ZenonT(40) DEF Tokens
    <3>1. ASSUME NEW d PROVE HasToken(q, d)' <=> HasToken(q, d)
      BY ZenonT(40), <2>1 DEF HasToken
    <3>2. Tokens!(q, n)
      BY ZenonT(40) DEF Tokens
    <3> QED
      BY ZenonT(40), <2>1, <3>1, <3>2 DEF IsMaster
  <2> QED
    BY ZenonT(40), <1>1, <2>2, <2>3, <2>4, <2>5
<1> QED
  BY ZenonT(40), <1>2, <1>3, <1>4, <1>5, <1>6, <1>7, <1>8, <1>9, <1>10, <1>11 DEF Next

(* When a process holds a lock, so does the master of its application, and   *)
(* the server has counted it; the counters never admit a writer together     *)
(* with anyone else.                                                        *)
LEMMA IInvExclusion == IInv => Exclusion
<1> SUFFICES ASSUME IInv, NEW p \in Procs, NEW q \in Procs, NEW n \in Names,
                    Holds(p, n, "write"), AppOf[p] # AppOf[q],
                    Holds(q, n, "read") \/ Holds(q, n, "write")
             PROVE  FALSE
  BY ZenonT(40) DEF Exclusion
<1>1. ASSUME NEW x \in Procs, NEW mode \in Modes, Holds(x, n, mode)
      PROVE  /\ Master[AppOf[x]] \in Procs /\ IsMaster(Master[AppOf[x]])
             /\ AppOf[Master[AppOf[x]]] = AppOf[x]
             /\ HasToken(Master[AppOf[x]], [name |-> n, mode |-> mode])
  <2> DEFINE y == Master[AppOf[x]]
  <2>1. y \in Procs /\ AppOf[y] = AppOf[x] /\ IsMaster(y)
    BY ZenonT(40), TopologyAssumption DEF IsMaster
  <2>2. pc[x] = "held" /\ op[x] = [name |-> n, mode |-> mode]
    BY ZenonT(40), <1>1 DEF Holds
  <2>3. pc[y] \in HeldPC /\ op[y] = op[x]
    BY ZenonT(40), <2>1, <2>2 DEF IInv, Together, HeldPC
  <2>4. HasToken(y, [name |-> n, mode |-> mode])
    BY ZenonT(40), <2>2, <2>3 DEF HasToken, HeldPC, PastAck
  <2> QED
    BY ZenonT(40), <2>1, <2>4
<1>2. /\ Master[AppOf[p]] \in wr_holders[n]
      /\ Master[AppOf[p]] # Master[AppOf[q]]
      /\ Master[AppOf[q]] \in rd_holders[n] \cup wr_holders[n]
  BY ZenonT(40), <1>1 DEF IInv, Tokens, Modes
<1>3. Accounted(lock[n], rd_holders[n], wr_holders[n])
  BY ZenonT(40) DEF IInv, Accounting
<1> QED
  BY ZenonT(40), <1>2, <1>3 DEF Accounted, AtMostOne, SemAccounting, LockAccounting

-----------------------------------------------------------------------------
(* The refinement of RWLock.                                               *)

(* A grant is AcquireRead or AcquireWrite.                                  *)
LEMMA GrantAcquires ==
    ASSUME FiniteSetFacts, IInv, NEW p \in Procs, NEW m \in Requests, NEW b \in BOOLEAN,
           m.kind = "get", IsMaster(p), pc[p] = "acking", ~ack[p][m.name],
           op[p] = [name |-> m.name, mode |-> m.mode],
           grant[p] = <<>>, req[p] # <<>> => req[p][1].kind = "get",
           dsg_lock_grant(m.name, p, m.num, m.mode),
           process_request(lock[m.name], m, b).action = "grant"
    PROVE  RW!Next
<1> DEFINE n == m.name
<1>1. n \in Names /\ m.mode \in {"read", "write"}
  BY ZenonT(40) DEF Requests, Modes
<1>2. p \notin rd_holders[n]
  <2>1. \A d : ~HasToken(p, d)
    BY ZenonT(40), NoTokenYet
  <2> QED
    BY ZenonT(40), <1>1, <2>1 DEF IInv, Tokens
<1>3. /\ lock[n] \in LockRecords
      /\ rd_holders[n] \in SUBSET Procs /\ wr_holders[n] \in SUBSET Procs
      /\ Accounted(lock[n], rd_holders[n], wr_holders[n])
  BY ZenonT(40), <1>1 DEF IInv, TypeOK, Accounting
<1>4. ASSUME NEW dl \in LockRecords, NEW R \in SUBSET Procs, NEW W \in SUBSET Procs,
             p \notin R, Accounted(dl, R, W), process_request(dl, m, b).action = "grant"
      PROVE  /\ m.mode = "read" => W = {}
             /\ m.mode = "write" => R = {} /\ W = {}
  BY ZenonT(40), <1>4, AccountedGet
<1>5. /\ m.mode = "read" => wr_holders[n] = {}
      /\ m.mode = "write" => rd_holders[n] = {} /\ wr_holders[n] = {}
  BY ZenonT(40), <1>2, <1>3, <1>4
<1>6. CASE m.mode = "read"
  <2>1. RW!AcquireRead(n, p)
    BY ZenonT(40), <1>2, <1>5, <1>6 DEF dsg_lock_grant, RW!AcquireRead
  <2> QED
    BY ZenonT(40), <1>1, <2>1 DEF RW!Next
<1>7. CASE m.mode = "write"
  <2>1. RW!AcquireWrite(n, p)
    BY ZenonT(40), <1>5, <1>7 DEF dsg_lock_grant, RW!AcquireWrite
  <2> QED
    BY ZenonT(40), <1>1, <2>1 DEF RW!Next
<1> QED
  BY ZenonT(40), <1>1, <1>6, <1>7

(* Every step is a step of the readers-writer lock or leaves the holders.    *)
LEMMA RWStep ==
    ASSUME FiniteSetFacts
    PROVE  IInv /\ [Next]_vars => [RW!Next]_(RW!vars)
<1> SUFFICES ASSUME IInv, [Next]_vars PROVE [RW!Next]_(RW!vars)
  BY ZenonT(40)
<1>1. TypeOK'
  BY ZenonT(40), TypeStep DEF IInv
<1>2. ASSUME rd_holders' = rd_holders, wr_holders' = wr_holders
      PROVE  [RW!Next]_(RW!vars)
  BY ZenonT(40), <1>2 DEF RW!vars
<1>3. ASSUME UNCHANGED serverVars PROVE [RW!Next]_(RW!vars)
  BY ZenonT(40), <1>2, <1>3 DEF serverVars
<1>4. ASSUME NEW p \in Procs, Receive(p) PROVE [RW!Next]_(RW!vars)
  <2> DEFINE m == Head(req[p])
             n == m.name
             b == wait_list[n] = <<>>
             r == process_request(lock[n], m, b)
  <2>1. /\ m \in Requests /\ m.kind \in {"get", "release"} /\ n \in Names
        /\ m.mode \in {"read", "write"} /\ IsMaster(p) /\ m = req[p][1] /\ req[p] # <<>>
    <3>1. m \in Requests /\ IsMaster(p) /\ m = req[p][1] /\ req[p] # <<>>
      BY ZenonT(40), <1>1, <1>4, ReceivedRequest
    <3> QED
      BY ZenonT(40), <3>1 DEF Requests, Modes
  <2>2. b \in BOOLEAN /\ lock[n] \in LockRecords
    BY ZenonT(40), <2>1 DEF IInv, TypeOK
  <2>3. /\ m.kind = "get" => r.action \in {"grant", "wait"}
        /\ m.kind = "release" => r.action \in {"notify", "none"}
    BY ZenonT(40), <2>1, <2>2, ProcessRequestType
  <2>4. /\ r.action = "grant" => dsg_lock_grant(n, p, m.num, m.mode)
        /\ r.action = "wait" => UNCHANGED <<rd_holders, wr_holders>>
        /\ r.action \in {"notify", "none"} =>
              /\ rd_holders' = IF m.mode = "read" THEN [rd_holders EXCEPT ![n] = @ \ {p}]
                                                  ELSE rd_holders
              /\ wr_holders' = IF m.mode = "write" THEN [wr_holders EXCEPT ![n] = @ \ {p}]
                                                   ELSE wr_holders
    BY ZenonT(40), <1>4 DEF Receive
  <2>5. CASE m.kind = "get" /\ r.action = "grant"
    <3>1. /\ pc[p] = "acking" /\ ~ack[p][n]
          /\ op[p] = [name |-> n, mode |-> m.mode] /\ grant[p] = <<>>
      BY ZenonT(40), <1>1, <1>4, <2>5, ReceivedGet
    <3> HIDE DEF m, b
    <3>2. RW!Next
      BY ZenonT(40), <2>1, <2>2, <2>4, <2>5, <3>1, GrantAcquires
    <3> QED
      BY ZenonT(40), <3>2
  <2>6. CASE r.action = "wait"
    BY ZenonT(40), <1>2, <2>4, <2>6
  <2>7. CASE m.kind = "release"
    <3> HIDE DEF m, b, r
    <3>1. HasToken(p, [name |-> n, mode |-> m.mode])
      BY ZenonT(40), <2>1, <2>7 DEF HasToken
    <3>2. CASE m.mode = "read"
      <4>1. p \in rd_holders[n]
        BY ZenonT(40), <2>1, <3>1, <3>2 DEF IInv, Tokens
      <4>2. RW!ReleaseRead(n, p)
        BY ZenonT(40), <2>3, <2>4, <2>7, <3>2, <4>1 DEF RW!ReleaseRead
      <4> QED
        BY ZenonT(40), <2>1, <4>2 DEF RW!Next
    <3>3. CASE m.mode = "write"
      <4>1. p \in wr_holders[n]
        BY ZenonT(40), <2>1, <3>1, <3>3 DEF IInv, Tokens
      <4>2. RW!ReleaseWrite(n, p)
        BY ZenonT(40), <2>3, <2>4, <2>7, <3>3, <4>1 DEF RW!ReleaseWrite
      <4> QED
        BY ZenonT(40), <2>1, <4>2 DEF RW!Next
    <3> QED
      BY ZenonT(40), <2>1, <3>2, <3>3
  <2> QED
    BY ZenonT(40), <2>1, <2>3, <2>5, <2>6, <2>7
<1>5. ASSUME NEW n \in Names, ProcessWaitList(n) PROVE [RW!Next]_(RW!vars)
  <2> DEFINE w == wait_list[n][scan[n]]
             m == [kind |-> "get", mode |-> w.mode, name |-> n, num |-> w.num]
             r == process_request(lock[n], m, TRUE)
  <2>1. CASE scan[n] > Len(wait_list[n]) \/ r.action = "wait"
    BY ZenonT(40), <1>2, <1>5, <2>1 DEF ProcessWaitList
  <2>2. CASE ~(scan[n] > Len(wait_list[n])) /\ r.action = "grant"
    <3>1. scan[n] # 0
      BY ZenonT(40), <1>5 DEF ProcessWaitList
    <3>2. /\ w.proc \in Procs /\ w.mode \in Modes /\ w.num \in Nat
          /\ IsMaster(w.proc) /\ pc[w.proc] = "acking" /\ ~ack[w.proc][n]
          /\ op[w.proc] = [name |-> n, mode |-> w.mode]
          /\ req[w.proc] = <<>> /\ grant[w.proc] = <<>>
      BY ZenonT(40), <2>2, <3>1, ScannedRequest
    <3>3. m \in Requests /\ m.kind = "get" /\ m.name = n /\ m.mode = w.mode /\ m.num = w.num
      BY ZenonT(40), <3>2 DEF Requests
    <3>4. dsg_lock_grant(n, w.proc, m.num, m.mode)
      BY ZenonT(40), <1>5, <2>2 DEF ProcessWaitList
    <3> HIDE DEF m, w
    <3>5. RW!Next
      BY ZenonT(40), <2>2, <3>2, <3>3, <3>4, GrantAcquires
    <3> QED
      BY ZenonT(40), <3>5
  <2> QED
    BY ZenonT(40), <1>5, <2>1, <2>2 DEF ProcessWaitList
<1>6. CASE UNCHANGED vars
  BY ZenonT(40), <1>3, <1>6 DEF vars
<1> QED
  BY ZenonT(40), <1>3, <1>4, <1>5, <1>6 DEF Next, LockCall, GrantArrives, AckSeen, UnlockCall, SendRelease,
                                LockBarrier, UnlockBarrier
=============================================================================
