---------------------------- MODULE DsgLockOrder ----------------------------
(***************************************************************************)
(* The wait lists of the lock manager: no wake-up is lost, and nobody is   *)
(* granted a lock over one who waits.                                      *)
(*                                                                         *)
(* NoLostWakeup speaks of the states in which the server is idle; what it  *)
(* rests on is kept turn by turn while the loop over the wait list runs.   *)
(* WaitInv says of every entry the loop has passed that it would still be  *)
(* refused, and for lock type 3 that before the first write nobody reads   *)
(* and, unless somebody writes, only readers wait.                         *)
(*                                                                         *)
(* ReadAfterWrite, of lock type 3, speaks of what the clients have done,   *)
(* and the server knows its epochs.  Wrote ties the two together: the      *)
(* release of a writer, under way or counted by the server, is of a name   *)
(* that has been written.                                                  *)
(*                                                                         *)
(* The custom lock, lock type 2: the applications go through their rounds  *)
(* in step.                                                                *)
(*                                                                         *)
(* RoundsInStep compares lock_num of the clients.  RoundInv says where the *)
(* server is: whether the round is one of writing or one of reading, and   *)
(* which readers have been served in it; Numbers ties the epochs and       *)
(* counters of the server to the numbers of the clients.                   *)
(***************************************************************************)
EXTENDS DsgLockInv, DsgLockHistory

(* The request that an entry of a wait list stands for, and whether the     *)
(* lock type makes it wait.                                                 *)
Pend(n, w) == [kind |-> "get", mode |-> w.mode, name |-> n, num |-> w.num]

Refuses(dl, m) == process_request(dl, m, TRUE).action = "wait"

Refused(n, i) == Refuses(lock[n], Pend(n, wait_list[n][i]))

(* Entries the loop over the wait list has dealt with: the loop of the       *)
(* custom lock goes on after one that must wait, the others end there.       *)
Passed(n, i) ==
    IF LockType = "custom" THEN scan[n] = 0 \/ i < scan[n]
                           ELSE scan[n] = 0 /\ i = 1

(* Before the first write under lock type 3.                                *)
FirstWriteAhead(n) ==
    lock[n].wr_epoch = 0 =>
        /\ rd_holders[n] = {}
        /\ wr_holders[n] = {} =>
              \A i \in DOMAIN wait_list[n] : wait_list[n][i].mode = "read"

(* The invariant of one wait list.                                          *)
WaitInvAt(n) ==
    /\ LockType # "custom" => scan[n] \in {0, 1}
    /\ \A i \in DOMAIN wait_list[n] : Passed(n, i) => Refused(n, i)
    /\ LockType = "v3" => FirstWriteAhead(n)

WaitInv == \A n \in Names : WaitInvAt(n)

-----------------------------------------------------------------------------
(* What keeps a request refused.                                            *)

(* What a waiting request has to wait for, lock type by lock type.           *)
LEMMA RefusesMeaning ==
    ASSUME NEW dl \in LockRecords, NEW m \in Requests, m.kind = "get"
    PROVE  /\ LockType = "custom" /\ m.mode = "read" =>
                 (Refuses(dl, m) <=> ~(dl.rd_cnt > 0 /\ m.num = dl.rd_epoch))
           /\ LockType = "custom" /\ m.mode = "write" =>
                 (Refuses(dl, m) <=> ~(dl.wr_cnt > 0 /\ m.num = dl.wr_epoch))
           /\ LockType = "generic" /\ m.mode = "read" =>
                 (Refuses(dl, m) <=> dl.wr_lock_state = "locked")
           /\ LockType = "v3" /\ m.mode = "read" =>
                 (Refuses(dl, m) <=> dl.wr_lock_state = "locked" \/ dl.wr_epoch = 0)
           /\ LockType # "custom" /\ m.mode = "write" =>
                 (Refuses(dl, m) <=> dl.rd_lock_state = "locked" \/ dl.wr_cnt # 0)
<1>1. /\ dl.rd_lock_state \in {"locked", "unlocked"}
      /\ dl.wr_lock_state \in {"locked", "unlocked"}
      /\ dl.wr_epoch \in Nat /\ m.mode \in {"read", "write"}
  BY ZenonT(40) DEF LockRecords, Requests, Modes
<1>2. CASE LockType = "custom"
  BY ZenonT(40), <1>1, <1>2 DEF Refuses, process_request, sem_process_request, Result
<1>3. CASE LockType = "generic"
  BY ZenonT(40), <1>1, <1>3 DEF Refuses, process_request, lock_process_request, Result
<1>4. CASE LockType = "v3"
  BY SMTT(40), <1>1, <1>4
     DEF Refuses, process_request, lock_process_request, lock_process_request_v3, Result
<1> QED
  BY ZenonT(40), <1>2, <1>3, <1>4, ConfAssumption

(* A grant makes nobody's turn come: who was refused before it is refused    *)
(* after it.                                                                *)
LEMMA GrantKeepsRefused ==
    ASSUME NEW dl \in LockRecords, NEW m \in Requests, NEW u \in Requests,
           NEW b \in BOOLEAN, m.kind = "get", u.kind = "get",
           process_request(dl, m, b).action = "grant", Refuses(dl, u)
    PROVE  Refuses(process_request(dl, m, b).lock, u)
<1> DEFINE r == process_request(dl, m, b)
<1>0. PICK d \in LockRecords : d = r.lock
  BY ZenonT(40), ProcessRequestType DEF Answers
<1> SUFFICES Refuses(d, u)
  BY ZenonT(40), <1>0
<1>1. m.mode \in {"read", "write"} /\ u.mode \in {"read", "write"}
  BY ZenonT(40) DEF Requests, Modes
<1>2. CASE LockType = "custom"
  <2>1. \/ m.mode = "read" /\ d = [dl EXCEPT !.rd_cnt = dl.rd_cnt - 1]
        \/ m.mode = "write" /\ d = [dl EXCEPT !.wr_cnt = dl.wr_cnt - 1]
    BY ZenonT(40), <1>0, <1>1, <1>2 DEF process_request, sem_process_request, Result
  <2>2. /\ d.rd_epoch = dl.rd_epoch /\ d.wr_epoch = dl.wr_epoch
        /\ d.rd_cnt <= dl.rd_cnt /\ d.wr_cnt <= dl.wr_cnt
    BY SMTT(40), <2>1 DEF LockRecords
  <2>3. /\ dl.rd_cnt \in Int /\ dl.wr_cnt \in Int
        /\ d.rd_cnt \in Int /\ d.wr_cnt \in Int
    BY ZenonT(40) DEF LockRecords
  <2> QED
    BY SMTT(40), <1>1, <1>2, <2>2, <2>3, RefusesMeaning
<1>3. CASE LockType # "custom"
  <2>1. PICK c \in BOOLEAN : r = lock_process_request(dl, m, c)
    BY ZenonT(40), <1>1, <1>3, ConfAssumption
       DEF process_request, lock_process_request_v3, LockRecords
  <2>2. \/ m.mode = "read" /\ d.rd_lock_state = "locked"
           /\ d.wr_lock_state = dl.wr_lock_state /\ d.wr_epoch = dl.wr_epoch
        \/ m.mode = "write" /\ d.wr_lock_state = "locked" /\ d.wr_cnt # 0
    BY SMTT(40), <1>0, <1>1, <2>1 DEF lock_process_request, Result, LockRecords
  <2> QED
    BY ZenonT(40), <1>1, <1>3, <2>2, RefusesMeaning, ConfAssumption
<1> QED
  BY ZenonT(40), <1>2, <1>3

(* A release that does not free the lock makes nobody's turn come either.    *)
LEMMA ReleaseKeepsRefused ==
    ASSUME NEW dl \in LockRecords, NEW m \in Requests, NEW u \in Requests,
           NEW b \in BOOLEAN, NEW R, NEW W, NEW p,
           m.kind = "release", u.kind = "get", Accounted(dl, R, W),
           m.mode = "write" => p \in W,
           process_request(dl, m, b).action = "none", Refuses(dl, u)
    PROVE  Refuses(process_request(dl, m, b).lock, u)
<1> DEFINE r == process_request(dl, m, b)
<1>0. PICK d \in LockRecords : d = r.lock
  BY ZenonT(40), ProcessRequestType DEF Answers
<1> SUFFICES Refuses(d, u)
  BY ZenonT(40), <1>0
<1>1. m.mode \in {"read", "write"} /\ u.mode \in {"read", "write"}
  BY ZenonT(40) DEF Requests, Modes
<1>2. CASE LockType = "custom"
  <2>1. /\ d.rd_epoch = dl.rd_epoch /\ d.wr_epoch = dl.wr_epoch
        /\ d.rd_cnt = dl.rd_cnt /\ d.wr_cnt = dl.wr_cnt
    BY ZenonT(40), <1>0, <1>1, <1>2 DEF process_request, sem_process_request, Result, LockRecords
  <2> QED
    BY ZenonT(40), <1>1, <1>2, <2>1, RefusesMeaning
<1>3. CASE LockType # "custom"
  <2>1. m.mode = "write" => dl.wr_cnt = 1
    BY ZenonT(40), <1>3 DEF Accounted, LockAccounting
  <2>2. m.mode = "read"
    BY ZenonT(40), <1>1, <1>3, <2>1, ConfAssumption
       DEF process_request, lock_process_request, lock_process_request_v3, Result
  <2>3. r = lock_process_request(dl, m, b)
    BY ZenonT(40), <1>3, <2>2, ConfAssumption DEF process_request, lock_process_request_v3
  <2>4. /\ d.rd_lock_state = dl.rd_lock_state /\ d.wr_lock_state = dl.wr_lock_state
        /\ d.wr_cnt = dl.wr_cnt /\ d.wr_epoch = dl.wr_epoch
    BY SMTT(40), <1>0, <2>2, <2>3 DEF lock_process_request, Result, LockRecords
  <2> QED
    BY ZenonT(40), <1>1, <1>3, <2>4, RefusesMeaning, ConfAssumption
<1> QED
  BY ZenonT(40), <1>2, <1>3

(* Under lock type 3 only a write release counts a write, and a reader is    *)
(* granted the lock only after one.                                         *)
LEMMA WriteEpoch ==
    ASSUME NEW dl \in LockRecords, NEW m \in Requests, NEW b \in BOOLEAN, LockType = "v3"
    PROVE  LET r == process_request(dl, m, b)
           IN /\ m.kind = "get" => /\ r.lock.wr_epoch = dl.wr_epoch
                                   /\ r.action = "grant" /\ m.mode = "read"
                                         => dl.wr_epoch > 0
              /\ m.kind = "release" /\ m.mode = "read" => r.lock.wr_epoch = dl.wr_epoch
              /\ m.kind = "release" /\ m.mode = "write" /\ dl.wr_cnt = 1
                    => r.lock.wr_epoch = dl.wr_epoch + 1
<1>1. m.kind \in {"get", "release"} /\ m.mode \in {"read", "write"}
  BY ZenonT(40) DEF Requests, Modes
<1>2. CASE m.kind = "get" /\ m.mode = "read"
  BY ZenonT(40), <1>2 DEF process_request, lock_process_request, lock_process_request_v3,
                        Result, LockRecords
<1>3. CASE m.kind = "get" /\ m.mode = "write"
  BY ZenonT(40), <1>3 DEF process_request, lock_process_request, lock_process_request_v3,
                        Result, LockRecords
<1>4. CASE m.kind = "release" /\ m.mode = "read"
  BY ZenonT(40), <1>4 DEF process_request, lock_process_request, lock_process_request_v3,
                        Result, LockRecords
<1>5. CASE m.kind = "release" /\ m.mode = "write" /\ dl.wr_cnt = 1
  <2> DEFINE d == [dl EXCEPT !.wr_cnt = 0, !.wr_lock_state = "unlocked", !.wr_epoch = @ + 1]
  <2>1. process_request(dl, m, b) = Result(d, "notify")
    BY ZenonT(40), <1>5 DEF process_request, lock_process_request_v3
  <2>2. d.wr_epoch = dl.wr_epoch + 1
    BY ZenonT(40) DEF LockRecords
  <2> HIDE DEF d
  <2> QED
    <3>1. process_request(dl, m, b).lock.wr_epoch = dl.wr_epoch + 1
      BY SMTT(40), <2>1, <2>2 DEF Result
    <3> QED
      BY ZenonT(40), <1>5, <3>1
<1> QED
  BY ZenonT(40), <1>1, <1>2, <1>3, <1>4, <1>5

(* A request that has to wait changes nothing.                               *)
LEMMA WaitKeepsLock ==
    ASSUME NEW dl \in LockRecords, NEW m \in Requests, NEW b \in BOOLEAN, m.kind = "get",
           process_request(dl, m, b).action = "wait"
    PROVE  process_request(dl, m, b).lock = dl
<1>1. m.mode \in {"read", "write"} /\ dl.wr_epoch \in Nat
  BY ZenonT(40) DEF Requests, Modes, LockRecords
<1>2. CASE LockType = "custom"
  BY ZenonT(40), <1>1, <1>2 DEF process_request, sem_process_request, Result
<1>3. CASE LockType # "custom"
  <2>1. PICK c \in BOOLEAN : process_request(dl, m, b) = lock_process_request(dl, m, c)
    BY ZenonT(40), <1>1, <1>3, ConfAssumption
       DEF process_request, lock_process_request_v3
  <2> QED
    BY SMTT(40), <1>1, <2>1 DEF lock_process_request, Result
<1> QED
  BY ZenonT(40), <1>2, <1>3

-----------------------------------------------------------------------------
(* The wait lists are served: the invariant.                               *)

(* A lock the step does not concern.                                        *)
LEMMA WaitKept ==
    ASSUME NEW k \in Names, WaitInvAt(k), lock'[k] = lock[k], wait_list'[k] = wait_list[k],
           scan'[k] = scan[k], rd_holders'[k] = rd_holders[k], wr_holders'[k] = wr_holders[k]
    PROVE  WaitInvAt(k)'
  BY ZenonT(40) DEF WaitInvAt, Passed, Refused, FirstWriteAhead

(* The requests that wait are requests for a lock.                           *)
LEMMA PendTypes ==
    ASSUME TypeOK, NEW n \in Names
    PROVE  /\ wait_list[n] \in Seq(Pending) /\ Len(wait_list[n]) \in Nat
           /\ DOMAIN wait_list[n] = 1 .. Len(wait_list[n])
           /\ lock[n] \in LockRecords /\ scan[n] \in Nat
           /\ rd_holders[n] \in SUBSET Procs /\ wr_holders[n] \in SUBSET Procs
           /\ \A i \in DOMAIN wait_list[n] :
                 /\ wait_list[n][i] \in Pending
                 /\ Pend(n, wait_list[n][i]) \in Requests
                 /\ Pend(n, wait_list[n][i]).kind = "get"
                 /\ Pend(n, wait_list[n][i]).mode = wait_list[n][i].mode
<1>1. /\ wait_list[n] \in Seq(Pending)
      /\ lock[n] \in LockRecords /\ scan[n] \in Nat
      /\ rd_holders[n] \in SUBSET Procs /\ wr_holders[n] \in SUBSET Procs
  BY ZenonT(40) DEF TypeOK
<1>2. Len(wait_list[n]) \in Nat /\ DOMAIN wait_list[n] = 1 .. Len(wait_list[n])
  BY ZenonT(40), <1>1, ListLength
<1>3. ASSUME NEW w \in Pending
      PROVE  /\ Pend(n, w) \in Requests /\ Pend(n, w).kind = "get"
             /\ Pend(n, w).mode = w.mode
  BY ZenonT(40) DEF Pending, Pend, Requests, Modes
<1>4. \A i \in DOMAIN wait_list[n] : wait_list[n][i] \in Pending
  BY ZenonT(40), <1>1, <1>2, EntryType
<1> QED
  BY ZenonT(40), <1>1, <1>2, <1>3, <1>4

(* The sender of a release holds the lock.                                   *)
LEMMA ReleasedByHolder ==
    ASSUME IInv, TypeOK', NEW p \in Procs, Receive(p), Head(req[p]).kind = "release"
    PROVE  /\ Head(req[p]).mode = "read" => p \in rd_holders[Head(req[p]).name]
           /\ Head(req[p]).mode = "write" => p \in wr_holders[Head(req[p]).name]
<1> DEFINE m == Head(req[p])
<1>1. m \in Requests /\ m = req[p][1] /\ req[p] # <<>> /\ IsMaster(p)
  BY ZenonT(40), ReceivedRequest
<1>2. m.name \in Names /\ m.kind = "release"
  BY ZenonT(40), <1>1 DEF Requests
<1> HIDE DEF m
<1>3. HasToken(p, [name |-> m.name, mode |-> m.mode])
  BY ZenonT(40), <1>1, <1>2 DEF HasToken
<1> QED
  BY ZenonT(40), <1>1, <1>2, <1>3 DEF IInv, Tokens, m

(* The step that receives a request.                                        *)
LEMMA ReceiveWaitInv ==
    ASSUME IInv, TypeOK', WaitInv, NEW p \in Procs, Receive(p)
    PROVE  WaitInv'
<1> DEFINE m == Head(req[p])
<1>0. PICK n \in Names : n = m.name
  <2>1. m \in Requests
    BY ZenonT(40), ReceivedRequest
  <2> QED
    BY ZenonT(40), <2>1 DEF Requests
<1> DEFINE b == wait_list[n] = <<>>
           r == process_request(lock[n], m, b)
<1>1. /\ m \in Requests /\ m.kind \in {"get", "release"}
      /\ m.mode \in {"read", "write"} /\ m.num \in Nat /\ b \in BOOLEAN
  <2>1. m \in Requests
    BY ZenonT(40), ReceivedRequest
  <2> QED
    BY ZenonT(40), <2>1 DEF Requests, Modes
<1>2. /\ lock[n] \in LockRecords /\ scan[n] = 0
      /\ Accounted(lock[n], rd_holders[n], wr_holders[n])
  BY ZenonT(40) DEF IInv, TypeOK, Accounting, Receive, ServerIdle
<1>3. /\ m.kind = "get" => r.action \in {"grant", "wait"}
      /\ m.kind = "release" => r.action \in {"notify", "none"}
  BY ZenonT(40), <1>1, <1>2, ProcessRequestType
<1>4. /\ lock' = [lock EXCEPT ![n] = r.lock]
      /\ r.action = "grant" => /\ dsg_lock_grant(n, p, m.num, m.mode)
                               /\ UNCHANGED <<wait_list, scan>>
      /\ r.action = "wait" => /\ dsg_lock_put_on_wait(n, p, m)
                              /\ UNCHANGED <<scan, rd_holders, wr_holders>>
      /\ r.action \in {"notify", "none"} =>
            /\ rd_holders' = IF m.mode = "read" THEN [rd_holders EXCEPT ![n] = @ \ {p}]
                                                ELSE rd_holders
            /\ wr_holders' = IF m.mode = "write" THEN [wr_holders EXCEPT ![n] = @ \ {p}]
                                                 ELSE wr_holders
            /\ scan' = [scan EXCEPT ![n] = IF r.action = "notify" THEN 1 ELSE 0]
            /\ UNCHANGED wait_list
  BY ZenonT(40), <1>0 DEF Receive
<1>5. /\ m.kind = "release" /\ m.mode = "read" => p \in rd_holders[n]
      /\ m.kind = "release" /\ m.mode = "write" => p \in wr_holders[n]
  BY ZenonT(40), <1>0, ReleasedByHolder
<1>6. \A i \in DOMAIN wait_list[n] : /\ Pend(n, wait_list[n][i]) \in Requests
                                     /\ Pend(n, wait_list[n][i]).kind = "get"
  BY ZenonT(40), <1>1, PendTypes DEF IInv
<1>7. WaitInvAt(n)
  BY ZenonT(40), <1>1 DEF WaitInv
<1>b. LockType = "custom" \/ b => r = process_request(lock[n], m, TRUE)
  <2>1. LockType = "custom" => r = process_request(lock[n], m, TRUE)
    BY ZenonT(40) DEF process_request
  <2>2. b => b = TRUE
    BY ZenonT(40)
  <2> QED
    BY ZenonT(40), <2>1, <2>2
<1>w. m.kind = "get" /\ r.action = "wait" => r.lock = lock[n]
  BY ZenonT(40), <1>1, <1>2, WaitKeepsLock
<1>g. ASSUME m.kind = "get", r.action = "grant", NEW u \in Requests, u.kind = "get",
             Refuses(lock[n], u)
      PROVE  Refuses(r.lock, u)
  BY ZenonT(40), <1>1, <1>2, <1>g, GrantKeepsRefused
<1>n. ASSUME m.kind = "release", r.action = "none", NEW u \in Requests, u.kind = "get",
             Refuses(lock[n], u)
      PROVE  Refuses(r.lock, u)
  BY ZenonT(40), <1>1, <1>2, <1>5, <1>n, ReleaseKeepsRefused
<1>e. ASSUME LockType = "v3"
      PROVE  /\ m.kind = "get" => /\ r.lock.wr_epoch = lock[n].wr_epoch
                                  /\ r.action = "grant" /\ m.mode = "read"
                                        => lock[n].wr_epoch > 0
             /\ m.kind = "release" /\ m.mode = "read" => r.lock.wr_epoch = lock[n].wr_epoch
             /\ m.kind = "release" /\ m.mode = "write" /\ lock[n].wr_cnt = 1
                   => r.lock.wr_epoch = lock[n].wr_epoch + 1
  BY ZenonT(40), <1>1, <1>2, <1>e, WriteEpoch
<1>m. Pend(n, [proc |-> p, mode |-> m.mode, num |-> m.num]) = m \/ m.kind = "release"
  BY ZenonT(40), <1>0, <1>1 DEF Pend, Requests
<1>f. ASSUME LockType = "v3", m.kind = "get", m.mode = "write",
             rd_holders[n] = {}, wr_holders[n] = {}
      PROVE  r.action = "grant"
  <2>1. lock[n].rd_lock_state = "unlocked" /\ lock[n].wr_cnt = 0
    BY ZenonT(40), <1>2, <1>f DEF Accounted, LockAccounting
  <2> QED
    BY ZenonT(40), <1>f, <2>1 DEF process_request, lock_process_request_v3,
                                lock_process_request, Result
<1> HIDE DEF m, b, r
<1>8. lock'[n] = r.lock
  BY ZenonT(40), <1>1, <1>4 DEF IInv, TypeOK
<1>9. ASSUME NEW k \in Names \ {n} PROVE WaitInvAt(k)'
  <2>1. /\ lock'[k] = lock[k] /\ wait_list'[k] = wait_list[k] /\ scan'[k] = scan[k]
        /\ rd_holders'[k] = rd_holders[k] /\ wr_holders'[k] = wr_holders[k]
    BY ZenonT(120), <1>1, <1>3, <1>4 DEF dsg_lock_grant, dsg_lock_put_on_wait, IInv, TypeOK
  <2> QED
    BY ZenonT(40), <2>1, WaitKept DEF WaitInv
<1> SUFFICES WaitInvAt(n)'
  BY ZenonT(40), <1>9 DEF WaitInv
<1>10. CASE r.action = "grant"
  <2>1. m.kind = "get"
    BY ZenonT(40), <1>1, <1>3, <1>10
  <2>2. wait_list' = wait_list /\ scan' = scan
    BY ZenonT(40), <1>4, <1>10
  <2>3. ASSUME NEW i \in DOMAIN wait_list'[n], Passed(n, i)' PROVE Refused(n, i)'
    <3>1. Refuses(lock[n], Pend(n, wait_list[n][i]))
      BY ZenonT(40), <1>7, <2>2, <2>3 DEF WaitInvAt, Passed, Refused
    <3>2. Refuses(r.lock, Pend(n, wait_list[n][i]))
      BY ZenonT(40), <1>6, <1>10, <1>g, <2>1, <2>2, <3>1
    <3> QED
      BY ZenonT(40), <1>8, <2>2, <3>2 DEF Refused
  <2>4. ASSUME LockType = "v3" PROVE FirstWriteAhead(n)'
    <3>1. lock'[n].wr_epoch = lock[n].wr_epoch
      BY ZenonT(40), <1>8, <1>e, <2>1, <2>4
    <3>2. CASE m.mode = "read"
      BY SMTT(40), <1>10, <1>e, <2>1, <2>4, <3>1, <3>2 DEF FirstWriteAhead
    <3>3. CASE m.mode = "write"
      <4>1. rd_holders'[n] = rd_holders[n] /\ wr_holders'[n] # {}
        <5>1. dsg_lock_grant(n, p, m.num, "write") /\ wr_holders \in [Names -> SUBSET Procs]
          BY ZenonT(40), <1>4, <1>10, <3>3 DEF IInv, TypeOK
        <5> QED
          BY ZenonT(40), <5>1 DEF dsg_lock_grant
      <4> QED
        BY ZenonT(40), <1>7, <2>4, <3>1, <4>1 DEF WaitInvAt, FirstWriteAhead
    <3> QED
      BY ZenonT(40), <1>1, <3>2, <3>3
  <2>5. LockType # "custom" => scan'[n] \in {0, 1}
    BY ZenonT(40), <1>2, <2>2
  <2> QED
    BY ZenonT(40), <2>3, <2>4, <2>5 DEF WaitInvAt
<1>11. CASE r.action = "wait"
  <2> DEFINE w == [proc |-> p, mode |-> m.mode, num |-> m.num]
             L == Len(wait_list[n])
  <2>1. m.kind = "get" /\ lock'[n] = lock[n]
    BY ZenonT(40), <1>1, <1>3, <1>8, <1>11, <1>w
  <2>2. scan' = scan /\ rd_holders' = rd_holders /\ wr_holders' = wr_holders
    BY ZenonT(40), <1>4, <1>11
  <2>3. /\ L \in Nat /\ DOMAIN wait_list[n] = 1 .. L /\ DOMAIN wait_list'[n] = 1 .. L + 1
        /\ \A i \in 1 .. L : wait_list'[n][i] = wait_list[n][i]
        /\ wait_list'[n][L + 1] = w
        /\ b <=> L = 0
    <3>1. wait_list[n] \in Seq(Pending) /\ wait_list'[n] = Append(wait_list[n], w)
      BY ZenonT(40), <1>1, <1>4, <1>11 DEF IInv, TypeOK, dsg_lock_put_on_wait
    <3>2. w \in Pending
      BY ZenonT(40), <1>1 DEF Pending, Modes
    <3> HIDE DEF w
    <3> QED
      BY SMTT(40), <3>1, <3>2, ListAppended, ListLength, EmptyList DEF b
  <2>w. w.mode = m.mode /\ Pend(n, w) = m
    BY ZenonT(40), <1>m, <2>1
  <2> HIDE DEF L, w
  <2>4. ASSUME NEW i \in DOMAIN wait_list'[n], Passed(n, i)' PROVE Refused(n, i)'
    <3>1. CASE i \in 1 .. L
      <4>1. Refuses(lock[n], Pend(n, wait_list[n][i]))
        BY ZenonT(40), <1>7, <2>2, <2>3, <2>4, <3>1 DEF WaitInvAt, Passed, Refused
      <4> QED
        BY ZenonT(40), <2>1, <2>3, <3>1, <4>1 DEF Refused
    <3>2. CASE i = L + 1
      <4>1. LockType = "custom" \/ b
        BY SMTT(40), <2>3, <2>4, <3>2 DEF Passed
      <4>2. Refuses(lock[n], m)
        BY ZenonT(40), <1>11, <1>b, <4>1 DEF Refuses
      <4> QED
        BY ZenonT(40), <2>1, <2>3, <2>w, <3>2, <4>2 DEF Refused
    <3> QED
      BY SMTT(40), <2>3, <3>1, <3>2
  <2>5. ASSUME LockType = "v3", lock'[n].wr_epoch = 0
        PROVE  /\ rd_holders'[n] = {}
               /\ wr_holders'[n] = {} =>
                     \A i \in DOMAIN wait_list'[n] : wait_list'[n][i].mode = "read"
    <3>1. /\ rd_holders[n] = {}
          /\ wr_holders[n] = {} =>
                \A i \in DOMAIN wait_list[n] : wait_list[n][i].mode = "read"
      BY ZenonT(40), <1>7, <2>1, <2>5 DEF WaitInvAt, FirstWriteAhead
    <3>2. wr_holders[n] = {} => m.mode = "read"
      BY ZenonT(40), <1>1, <1>11, <1>f, <2>1, <2>5, <3>1
    <3> QED
      BY SMTT(40), <2>2, <2>3, <2>w, <3>1, <3>2
  <2>6. LockType # "custom" => scan'[n] \in {0, 1}
    BY ZenonT(40), <1>2, <2>2
  <2>7. LockType = "v3" => FirstWriteAhead(n)'
    BY ZenonT(40), <2>5 DEF FirstWriteAhead
  <2> QED
    BY ZenonT(40), <2>4, <2>6, <2>7 DEF WaitInvAt
<1>12. CASE r.action \in {"notify", "none"}
  <2>1. m.kind = "release" /\ wait_list' = wait_list
    BY ZenonT(40), <1>1, <1>3, <1>4, <1>12
  <2>2. scan'[n] = IF r.action = "notify" THEN 1 ELSE 0
    BY ZenonT(40), <1>1, <1>4, <1>12 DEF IInv, TypeOK
  <2>3. ASSUME NEW i \in DOMAIN wait_list'[n], Passed(n, i)' PROVE Refused(n, i)'
    <3>1. i \in DOMAIN wait_list[n] /\ i \in Nat \ {0}
      BY SMTT(40), <1>1, <2>1, SequenceFacts DEF IInv
    <3>2. CASE r.action = "notify"
      BY SMTT(40), <2>2, <2>3, <3>1, <3>2 DEF Passed
    <3>3. CASE r.action = "none"
      <4>1. scan'[n] = scan[n]
        BY ZenonT(40), <1>2, <2>2, <3>3
      <4>2. Refuses(lock[n], Pend(n, wait_list[n][i]))
        BY ZenonT(40), <1>7, <2>3, <3>1, <4>1 DEF WaitInvAt, Passed, Refused
      <4>3. Refuses(r.lock, Pend(n, wait_list[n][i]))
        BY ZenonT(40), <1>6, <1>n, <2>1, <3>1, <3>3, <4>2
      <4> QED
        BY ZenonT(40), <1>8, <2>1, <4>3 DEF Refused
    <3> QED
      BY ZenonT(40), <1>12, <3>2, <3>3
  <2>4. ASSUME LockType = "v3" PROVE FirstWriteAhead(n)'
    <3>1. CASE m.mode = "read"
      BY ZenonT(40), <1>5, <1>7, <1>8, <1>e, <2>1, <2>4, <3>1 DEF WaitInvAt, FirstWriteAhead
    <3>2. CASE m.mode = "write"
      <4>1. lock[n].wr_cnt = 1
        BY ZenonT(40), <1>2, <1>5, <2>1, <2>4, <3>2 DEF Accounted, LockAccounting
      <4>2. lock'[n].wr_epoch # 0
        BY SMTT(40), <1>2, <1>8, <1>e, <2>1, <2>4, <3>2, <4>1 DEF LockRecords
      <4> QED
        BY ZenonT(40), <4>2 DEF FirstWriteAhead
    <3> QED
      BY ZenonT(40), <1>1, <3>1, <3>2
  <2>5. scan'[n] \in {0, 1}
    BY ZenonT(40), <2>2
  <2> QED
    BY ZenonT(40), <2>3, <2>4, <2>5 DEF WaitInvAt
<1>13. r.action \in {"grant", "wait", "notify", "none"}
  BY ZenonT(40), <1>1, <1>3
<1> QED
  BY ZenonT(40), <1>10, <1>11, <1>12, <1>13

(* One turn of the loop over the wait list.                                 *)
LEMMA ScanWaitInv ==
    ASSUME IInv, TypeOK', WaitInv, NEW n \in Names, ProcessWaitList(n)
    PROVE  WaitInv'
<1> DEFINE s == scan[n]
           L == Len(wait_list[n])
           m == Pend(n, wait_list[n][s])
           r == process_request(lock[n], m, TRUE)
<1>1. /\ wait_list[n] \in Seq(Pending) /\ L \in Nat /\ DOMAIN wait_list[n] = 1 .. L
      /\ lock[n] \in LockRecords /\ s \in Nat \ {0}
      /\ \A i \in DOMAIN wait_list[n] : /\ Pend(n, wait_list[n][i]) \in Requests
                                        /\ Pend(n, wait_list[n][i]).kind = "get"
                                        /\ Pend(n, wait_list[n][i]).mode = wait_list[n][i].mode
  <2>1. scan[n] # 0
    BY ZenonT(40) DEF ProcessWaitList
  <2> QED
    BY ZenonT(40), <2>1, PendTypes DEF IInv
<1>2. WaitInvAt(n)
  BY ZenonT(40) DEF WaitInv
<1>3. /\ lock \in [Names -> LockRecords] /\ wait_list \in [Names -> Seq(Pending)]
      /\ scan \in [Names -> Nat] /\ rd_holders \in [Names -> SUBSET Procs]
      /\ wr_holders \in [Names -> SUBSET Procs]
  BY ZenonT(40) DEF IInv, TypeOK
<1>4. \/ s > L /\ scan' = [scan EXCEPT ![n] = 0]
         /\ UNCHANGED <<lock, wait_list, rd_holders, wr_holders>>
      \/ s <= L /\ lock' = [lock EXCEPT ![n] = r.lock] /\ r.action = "grant"
         /\ dsg_lock_grant(n, wait_list[n][s].proc, wait_list[n][s].num, m.mode)
         /\ wait_list' = [wait_list EXCEPT ![n] = list_del(@, s)] /\ UNCHANGED scan
      \/ s <= L /\ lock' = [lock EXCEPT ![n] = r.lock] /\ r.action = "wait"
         /\ scan' = [scan EXCEPT ![n] = IF LockType = "custom" THEN @ + 1 ELSE 0]
         /\ UNCHANGED <<wait_list, rd_holders, wr_holders>>
  <2>1. s > L \/ s <= L
    BY SMTT(40), <1>1
  <2>2. s <= L => ~(s > L)
    BY SMTT(40), <1>1
  <2>3. s <= L => m.mode = wait_list[n][s].mode
    BY SMTT(40), <1>1
  <2> QED
    BY ZenonT(60), <2>1, <2>2, <2>3 DEF ProcessWaitList, Pend
<1>5. s <= L => /\ m \in Requests /\ m.kind = "get" /\ m.mode \in {"read", "write"}
                /\ r.action = "wait" => r.lock = lock[n]
  <2>1. s <= L => m \in Requests /\ m.kind = "get"
    BY SMTT(40), <1>1
  <2>2. s <= L => m.mode \in {"read", "write"}
    BY ZenonT(40), <2>1 DEF Requests, Modes
  <2> QED
    BY ZenonT(40), <1>1, <2>1, <2>2, WaitKeepsLock
<1>g. ASSUME s <= L, r.action = "grant", NEW u \in Requests, u.kind = "get",
             Refuses(lock[n], u)
      PROVE  Refuses(r.lock, u)
  BY ZenonT(40), <1>1, <1>5, <1>g, GrantKeepsRefused
<1>e. ASSUME s <= L, LockType = "v3"
      PROVE  /\ r.lock.wr_epoch = lock[n].wr_epoch
             /\ r.action = "grant" /\ m.mode = "read" => lock[n].wr_epoch > 0
  BY ZenonT(40), <1>1, <1>5, <1>e, WriteEpoch
<1>r. r.action = "wait" => Refused(n, s)
  BY ZenonT(40) DEF Refused, Refuses
<1> HIDE DEF m, r, L
<1>6. ASSUME NEW k \in Names \ {n} PROVE WaitInvAt(k)'
  <2>1. /\ lock'[k] = lock[k] /\ wait_list'[k] = wait_list[k] /\ scan'[k] = scan[k]
        /\ rd_holders'[k] = rd_holders[k] /\ wr_holders'[k] = wr_holders[k]
    BY ZenonT(40), <1>3, <1>4 DEF dsg_lock_grant
  <2> QED
    BY ZenonT(40), <2>1, WaitKept DEF WaitInv
<1> SUFFICES WaitInvAt(n)'
  BY ZenonT(40), <1>6 DEF WaitInv
<1>7. LockType # "custom" => s = 1
  BY ZenonT(40), <1>1, <1>2 DEF WaitInvAt
<1>8. CASE /\ s > L /\ scan' = [scan EXCEPT ![n] = 0]
           /\ UNCHANGED <<lock, wait_list, rd_holders, wr_holders>>
  <2>1. /\ scan'[n] = 0 /\ lock'[n] = lock[n] /\ wait_list'[n] = wait_list[n]
        /\ rd_holders'[n] = rd_holders[n] /\ wr_holders'[n] = wr_holders[n]
    BY ZenonT(40), <1>3, <1>8
  <2>2. ASSUME NEW i \in DOMAIN wait_list'[n] PROVE Refused(n, i)'
    <3>1. i \in DOMAIN wait_list[n] /\ LockType = "custom" /\ i < s
      BY SMTT(40), <1>1, <1>7, <1>8, <2>1
    <3>2. Refused(n, i)
      BY ZenonT(40), <1>2, <3>1 DEF WaitInvAt, Passed
    <3> QED
      BY ZenonT(40), <2>1, <3>2 DEF Refused
  <2>3. LockType = "v3" => FirstWriteAhead(n)'
    BY ZenonT(40), <1>2, <2>1 DEF WaitInvAt, FirstWriteAhead
  <2>4. scan'[n] \in {0, 1}
    BY ZenonT(40), <2>1
  <2> QED
    BY ZenonT(40), <2>2, <2>3, <2>4 DEF WaitInvAt
<1>9. CASE /\ s <= L /\ lock' = [lock EXCEPT ![n] = r.lock] /\ r.action = "wait"
           /\ scan' = [scan EXCEPT ![n] = IF LockType = "custom" THEN @ + 1 ELSE 0]
           /\ UNCHANGED <<wait_list, rd_holders, wr_holders>>
  <2>1. /\ lock'[n] = lock[n] /\ wait_list'[n] = wait_list[n]
        /\ rd_holders'[n] = rd_holders[n] /\ wr_holders'[n] = wr_holders[n]
        /\ scan'[n] = IF LockType = "custom" THEN s + 1 ELSE 0
    <3>1. r.lock = lock[n]
      BY ZenonT(40), <1>5, <1>9
    <3> QED
      BY ZenonT(40), <1>3, <1>9, <3>1
  <2>2. ASSUME NEW i \in DOMAIN wait_list'[n], Passed(n, i)' PROVE Refused(n, i)'
    <3>1. i \in DOMAIN wait_list[n] /\ (i = s \/ (LockType = "custom" /\ i < s))
      <4>1. i \in DOMAIN wait_list[n] /\ i \in Nat \ {0} /\ s \in Nat \ {0}
        BY SMTT(40), <1>1, <2>1
      <4>2. CASE LockType = "custom"
        <5>1. s + 1 # 0 /\ (i < s + 1 => i = s \/ i < s)
          BY SMTT(40), <4>1
        <5>2. (scan'[n] = 0 \/ i < scan'[n]) /\ scan'[n] = s + 1
          BY ZenonT(40), <2>1, <2>2, <4>2 DEF Passed
        <5> QED
          BY ZenonT(40), <4>1, <4>2, <5>1, <5>2
      <4>3. CASE LockType # "custom"
        <5>1. i = 1
          BY ZenonT(40), <2>2, <4>3 DEF Passed
        <5> QED
          BY ZenonT(40), <1>7, <4>1, <4>3, <5>1
      <4> QED
        BY ZenonT(40), <4>2, <4>3
    <3>2. Refused(n, i)
      BY ZenonT(40), <1>2, <1>9, <1>r, <3>1 DEF WaitInvAt, Passed
    <3> QED
      BY ZenonT(40), <2>1, <3>2 DEF Refused
  <2>3. LockType = "v3" => FirstWriteAhead(n)'
    BY ZenonT(40), <1>2, <2>1 DEF WaitInvAt, FirstWriteAhead
  <2>4. LockType # "custom" => scan'[n] \in {0, 1}
    BY ZenonT(40), <2>1
  <2> QED
    BY ZenonT(40), <2>2, <2>3, <2>4 DEF WaitInvAt
<1>10. CASE /\ s <= L /\ lock' = [lock EXCEPT ![n] = r.lock] /\ r.action = "grant"
            /\ dsg_lock_grant(n, wait_list[n][s].proc, wait_list[n][s].num, m.mode)
            /\ wait_list' = [wait_list EXCEPT ![n] = list_del(@, s)] /\ UNCHANGED scan
  <2>1. lock'[n] = r.lock /\ scan'[n] = s /\ wait_list'[n] = list_del(wait_list[n], s)
    BY ZenonT(40), <1>3, <1>10
  <2>2. /\ DOMAIN wait_list'[n] = 1 .. L - 1
        /\ \A i \in 1 .. L - 1 : i < s => wait_list'[n][i] = wait_list[n][i]
    <3>1. s \in 1 .. L
      BY SMTT(40), <1>1, <1>10
    <3>2. /\ wait_list'[n] \in Seq(Pending) /\ Len(wait_list'[n]) = L - 1
          /\ \A i \in 1 .. L - 1 :
                wait_list'[n][i] = IF i < s THEN wait_list[n][i] ELSE wait_list[n][i + 1]
      <4>1. ASSUME NEW q \in Seq(Pending), NEW j \in 1 .. Len(q)
            PROVE  /\ list_del(q, j) \in Seq(Pending) /\ Len(list_del(q, j)) = Len(q) - 1
                   /\ \A i \in 1 .. Len(q) - 1 :
                         list_del(q, j)[i] = IF i < j THEN q[i] ELSE q[i + 1]
        BY ZenonT(40), DeletedEntry
      <4> QED
        BY ZenonT(40), <1>1, <2>1, <3>1, <4>1 DEF L
    <3> QED
      BY ZenonT(40), <3>2, ListLength
  <2>3. ASSUME NEW i \in DOMAIN wait_list'[n], Passed(n, i)' PROVE Refused(n, i)'
    <3>1. /\ LockType = "custom" /\ i < s /\ i \in DOMAIN wait_list[n]
          /\ wait_list'[n][i] = wait_list[n][i]
      BY SMTT(40), <1>1, <1>7, <2>1, <2>2, <2>3 DEF Passed
    <3>2. Refuses(lock[n], Pend(n, wait_list[n][i]))
      BY ZenonT(40), <1>2, <3>1 DEF WaitInvAt, Passed, Refused
    <3>3. Refuses(r.lock, Pend(n, wait_list[n][i]))
      BY ZenonT(40), <1>1, <1>10, <1>g, <3>1, <3>2
    <3> QED
      BY ZenonT(40), <2>1, <3>1, <3>3 DEF Refused
  <2>4. ASSUME LockType = "v3" PROVE FirstWriteAhead(n)'
    <3>1. lock'[n].wr_epoch = lock[n].wr_epoch
      BY ZenonT(40), <1>10, <1>e, <2>1, <2>4
    <3>2. CASE m.mode = "read"
      BY SMTT(40), <1>10, <1>e, <2>4, <3>1, <3>2 DEF FirstWriteAhead
    <3>3. CASE m.mode = "write"
      <4>1. rd_holders'[n] = rd_holders[n] /\ wr_holders'[n] # {}
        <5>1. dsg_lock_grant(n, wait_list[n][s].proc, wait_list[n][s].num, "write")
          BY ZenonT(40), <1>10, <3>3
        <5>2. /\ rd_holders' = rd_holders
              /\ wr_holders'[n] = wr_holders[n] \cup {wait_list[n][s].proc}
          BY ZenonT(40), <1>3, <5>1 DEF dsg_lock_grant
        <5> QED
          BY ZenonT(40), <5>2
      <4> QED
        BY ZenonT(40), <1>2, <2>4, <3>1, <4>1 DEF WaitInvAt, FirstWriteAhead
    <3> QED
      BY ZenonT(40), <1>5, <1>10, <3>2, <3>3
  <2>5. LockType # "custom" => scan'[n] \in {0, 1}
    BY ZenonT(40), <1>7, <2>1
  <2> QED
    BY ZenonT(40), <2>3, <2>4, <2>5 DEF WaitInvAt
<1> QED
  BY ZenonT(40), <1>4, <1>8, <1>9, <1>10

(* The steps that concern the server.                                        *)
LEMMA ServerSteps ==
    ASSUME [Next]_vars
    PROVE  \/ UNCHANGED serverVars
           \/ \E p \in Procs : Receive(p)
           \/ \E n \in Names : ProcessWaitList(n)
<1>1. UNCHANGED vars => UNCHANGED serverVars
  BY ZenonT(40) DEF vars
<1> QED
  BY ZenonT(40), <1>1 DEF Next, LockCall, GrantArrives, AckSeen, UnlockCall, SendRelease,
                          LockBarrier, UnlockBarrier

(* At the start nobody waits.                                               *)
LEMMA WaitInvInit == Init => WaitInv
<1> SUFFICES ASSUME Init, NEW n \in Names PROVE WaitInvAt(n)
  BY ZenonT(40) DEF WaitInv
<1>1. wait_list[n] = <<>> /\ scan[n] = 0 /\ rd_holders[n] = {}
  BY ZenonT(40) DEF Init
<1>2. DOMAIN wait_list[n] = {}
  BY SMTT(40), <1>1
<1> QED
  BY ZenonT(40), <1>1, <1>2 DEF WaitInvAt, FirstWriteAhead

(* Every step keeps the invariant.                                          *)
LEMMA WaitInvStep == IInv /\ IInv' /\ WaitInv /\ [Next]_vars => WaitInv'
<1> SUFFICES ASSUME IInv, IInv', WaitInv, [Next]_vars PROVE WaitInv'
  BY ZenonT(40)
<1>1. TypeOK'
  BY ZenonT(40) DEF IInv
<1>2. CASE UNCHANGED serverVars
  <2> SUFFICES ASSUME NEW k \in Names PROVE WaitInvAt(k)'
    BY ZenonT(40) DEF WaitInv
  <2> QED
    BY ZenonT(40), <1>2, WaitKept DEF WaitInv, serverVars
<1> QED
  BY ZenonT(40), <1>1, <1>2, ServerSteps, ReceiveWaitInv, ScanWaitInv

(* When the server is idle, the loop has passed over whoever has to wait.    *)
LEMMA WaitInvNoLostWakeup == WaitInv => NoLostWakeup
<1> SUFFICES ASSUME WaitInv, ServerIdle, NEW n \in Names, NEW i \in DOMAIN wait_list[n],
                    i = 1 \/ LockType = "custom"
             PROVE  Refused(n, i)
  BY ZenonT(40) DEF NoLostWakeup, Refused, Refuses, Pend
<1>1. Passed(n, i)
  BY ZenonT(40) DEF Passed, ServerIdle
<1> QED
  BY ZenonT(40), <1>1 DEF WaitInv, WaitInvAt

(* The only grant over the wait list is that of the first writer of lock     *)
(* type 3.                                                                  *)
LEMMA InTurn ==
    IInv /\ IInv' /\ WaitInv /\ LockType # "custom" /\ [Next]_vars
        => \A n \in Names : ServedInTurn(n)
<1> SUFFICES ASSUME IInv, IInv', WaitInv, LockType # "custom", [Next]_vars,
                    NEW n \in Names,
                    (rd_holders'[n] \ rd_holders[n]) \cup (wr_holders'[n] \ wr_holders[n]) # {},
                    wait_list'[n] = wait_list[n], wait_list[n] # <<>>
             PROVE  /\ LockType = "v3" /\ lock[n].wr_epoch = 0
                    /\ (rd_holders'[n] \ rd_holders[n]) \cup (wr_holders'[n] \ wr_holders[n])
                           \subseteq wr_holders'[n]
                    /\ \A i \in DOMAIN wait_list[n] : wait_list[n][i].mode = "read"
  BY ZenonT(40) DEF ServedInTurn
<1>0. TypeOK' /\ WaitInvAt(n)
  BY ZenonT(40) DEF IInv, WaitInv
<1>1. ~ (rd_holders'[n] \subseteq rd_holders[n] /\ wr_holders'[n] \subseteq wr_holders[n])
  BY ZenonT(40)
<1>2. /\ wait_list[n] \in Seq(Pending) /\ lock[n] \in LockRecords
      /\ Len(wait_list[n]) \in Nat /\ DOMAIN wait_list[n] = 1 .. Len(wait_list[n])
      /\ \A i \in DOMAIN wait_list[n] : /\ Pend(n, wait_list[n][i]) \in Requests
                                        /\ Pend(n, wait_list[n][i]).kind = "get"
                                        /\ Pend(n, wait_list[n][i]).mode = wait_list[n][i].mode
      /\ Accounted(lock[n], rd_holders[n], wr_holders[n])
  BY ZenonT(40), PendTypes DEF IInv, Accounting
<1>3. ~ UNCHANGED serverVars
  BY ZenonT(40), <1>1 DEF serverVars
<1>4. ASSUME NEW k \in Names, ProcessWaitList(k) PROVE FALSE
  <2>1. k = n
    <3>1. /\ rd_holders \in [Names -> SUBSET Procs] /\ wr_holders \in [Names -> SUBSET Procs]
          /\ \/ UNCHANGED <<rd_holders, wr_holders>>
             \/ \E q, num, mode : dsg_lock_grant(k, q, num, mode)
      BY ZenonT(40), <1>4 DEF ProcessWaitList, IInv, TypeOK
    <3> QED
      BY ZenonT(40), <1>1, <3>1 DEF dsg_lock_grant
  <2>2. wait_list' = [wait_list EXCEPT ![n] = list_del(@, scan[n])] /\ scan[n] \in 1 .. Len(wait_list[n])
    <3>1. scan[n] \in Nat \ {0}
      BY ZenonT(40), <1>4, <2>1 DEF ProcessWaitList, IInv, TypeOK
    <3>2. /\ wait_list' = [wait_list EXCEPT ![n] = list_del(@, scan[n])]
          /\ ~(scan[n] > Len(wait_list[n]))
      BY ZenonT(40), <1>1, <1>4, <2>1 DEF ProcessWaitList
    <3> QED
      BY SMTT(40), <1>2, <3>1, <3>2
  <2>3. wait_list'[n] = list_del(wait_list[n], scan[n])
    BY ZenonT(40), <2>2 DEF IInv, TypeOK
  <2>4. Len(list_del(wait_list[n], scan[n])) = Len(wait_list[n]) - 1
    BY ZenonT(40), <1>2, <2>2, DeletedEntry
  <2> QED
    BY SMTT(40), <1>2, <2>3, <2>4
<1>5. PICK p \in Procs : Receive(p)
  BY ZenonT(40), <1>3, <1>4, ServerSteps
<1> DEFINE m == Head(req[p])
           b == wait_list[n] = <<>>
           r == process_request(lock[n], m, b)
<1>6. m \in Requests /\ m.kind \in {"get", "release"} /\ m.mode \in {"read", "write"}
  <2>1. m \in Requests
    BY ZenonT(40), <1>0, <1>5, ReceivedRequest
  <2> QED
    BY ZenonT(40), <2>1 DEF Requests, Modes
<1>7. m.name = n
  <2>1. m.name \in Names
    BY ZenonT(40), <1>6 DEF Requests
  <2> HIDE DEF m
  <2> QED
    BY ZenonT(120), <1>1, <1>5, <2>1 DEF Receive, dsg_lock_grant, IInv, TypeOK, m
<1>8. r.action = "grant" /\ dsg_lock_grant(n, p, m.num, m.mode)
  <2>1. \/ r.action = "grant" /\ dsg_lock_grant(n, p, m.num, m.mode)
        \/ UNCHANGED <<rd_holders, wr_holders>>
        \/ /\ rd_holders' = IF m.mode = "read" THEN [rd_holders EXCEPT ![n] = @ \ {p}]
                                               ELSE rd_holders
           /\ wr_holders' = IF m.mode = "write" THEN [wr_holders EXCEPT ![n] = @ \ {p}]
                                                ELSE wr_holders
    BY ZenonT(40), <1>5, <1>7 DEF Receive
  <2>2. rd_holders \in [Names -> SUBSET Procs] /\ wr_holders \in [Names -> SUBSET Procs]
    BY ZenonT(40) DEF IInv, TypeOK
  <2> HIDE DEF m, r
  <2> QED
    BY ZenonT(40), <1>1, <2>1, <2>2
<1>9. m.kind = "get"
  <2>1. m.kind = "release" => r.action \in {"notify", "none"}
    BY ZenonT(40), <1>2, <1>6, ProcessRequestType
  <2> QED
    BY ZenonT(40), <1>6, <1>8, <2>1
<1>10. m.mode = "write"
  <2>1. m.mode = "read" => r.action = "wait"
    BY ZenonT(40), <1>9, ConfAssumption
       DEF process_request, lock_process_request, lock_process_request_v3, Result
  <2> QED
    BY ZenonT(40), <1>6, <1>8, <2>1
<1>11. lock[n].rd_lock_state = "unlocked" /\ lock[n].wr_cnt = 0
  <2>1. r = lock_process_request(lock[n], m, b)
    BY ZenonT(40), <1>9, <1>10, ConfAssumption DEF process_request, lock_process_request_v3
  <2> QED
    BY SMTT(40), <1>8, <1>9, <1>10, <2>1 DEF lock_process_request, Result
<1>12. wr_holders[n] = {} /\ lock[n].wr_lock_state = "unlocked"
  BY SMTT(40), <1>2, <1>11 DEF Accounted, LockAccounting
<1> HIDE DEF m, b, r
<1>13. /\ 1 \in DOMAIN wait_list[n]
       /\ Refuses(lock[n], Pend(n, wait_list[n][1]))
  <2>1. 1 \in DOMAIN wait_list[n]
    BY SMTT(40), <1>2, EmptyList
  <2>2. scan[n] = 0
    BY ZenonT(40), <1>5 DEF Receive, ServerIdle
  <2> QED
    BY ZenonT(40), <1>0, <2>1, <2>2 DEF WaitInvAt, Passed, Refused
<1>14. LockType = "v3" /\ lock[n].wr_epoch = 0
  <2> DEFINE u == Pend(n, wait_list[n][1])
  <2>1. u \in Requests /\ u.kind = "get" /\ u.mode \in {"read", "write"}
    BY ZenonT(40), <1>2, <1>13 DEF Requests, Modes
  <2>2. Refuses(lock[n], u)
    BY ZenonT(40), <1>13
  <2> HIDE DEF u
  <2> QED
    BY ZenonT(40), <1>2, <1>11, <1>12, <2>1, <2>2, RefusesMeaning, ConfAssumption
<1>15. rd_holders'[n] = rd_holders[n]
  BY ZenonT(40), <1>8, <1>10 DEF dsg_lock_grant
<1>16. \A i \in DOMAIN wait_list[n] : wait_list[n][i].mode = "read"
  BY ZenonT(40), <1>0, <1>12, <1>14 DEF WaitInvAt, FirstWriteAhead
<1> QED
  BY ZenonT(40), <1>14, <1>15, <1>16

-----------------------------------------------------------------------------
(* The numbers of the clients and of the server. *)

-----------------------------------------------------------------------------
(* Who asks for what, and the numbers the messages carry.                    *)

(* The applications that may ask for a lock in a mode.                      *)
AppsFor(mode) == IF mode = "read" THEN ReadApps ELSE WriteApps

(* An application asks for a lock only in a mode it uses; a request carries   *)
(* the lock_num of its sender and a grant the next one, so that lock_num is   *)
(* positive from the first grant on.                                         *)
PNumbers(p) ==
    /\ pc[p] # "idle" => AppOf[p] \in AppsFor(op[p].mode)
    /\ \A i \in DOMAIN req[p] :
          /\ AppOf[p] \in AppsFor(req[p][i].mode)
          /\ req[p][i].kind = "get" => req[p][i].num = lock_num[p][req[p][i].name]
          /\ req[p][i].kind = "release" => lock_num[p][req[p][i].name] > 0
    /\ \A i \in DOMAIN grant[p] : grant[p][i].num = lock_num[p][grant[p][i].name] + 1
    /\ \A n \in Names : ack[p][n] => lock_num[p][n] > 0
    /\ IsMaster(p) /\ pc[p] \in PastAck => lock_num[p][op[p].name] > 0

(* A request that waits carries the number its sender still has.            *)
WaitNumbers ==
    \A n \in Names : \A i \in DOMAIN wait_list[n] :
        wait_list[n][i].num = lock_num[wait_list[n][i].proc][n]

Numbers == WaitNumbers /\ \A p \in Procs : PNumbers(p)

(* A process whose messages and numbers the step leaves as they are.         *)
LEMMA PNumbersKept ==
    ASSUME NEW q \in Procs, PNumbers(q), op'[q] = op[q], lock_num'[q] = lock_num[q],
           ack'[q] = ack[q], req'[q] = req[q], grant'[q] = grant[q],
           pc'[q] # "idle" => pc[q] # "idle",
           IsMaster(q) /\ pc'[q] \in PastAck => lock_num[q][op[q].name] > 0
    PROVE  PNumbers(q)'
<1>1. /\ pc'[q] # "idle" => AppOf[q] \in AppsFor(op'[q].mode)
      /\ IsMaster(q) /\ pc'[q] \in PastAck => lock_num'[q][op'[q].name] > 0
  BY ZenonT(40) DEF PNumbers
<1>2. \A i \in DOMAIN req'[q] :
         /\ AppOf[q] \in AppsFor(req'[q][i].mode)
         /\ req'[q][i].kind = "get" => req'[q][i].num = lock_num'[q][req'[q][i].name]
         /\ req'[q][i].kind = "release" => lock_num'[q][req'[q][i].name] > 0
  BY ZenonT(40) DEF PNumbers
<1>3. \A i \in DOMAIN grant'[q] : grant'[q][i].num = lock_num'[q][grant'[q][i].name] + 1
  BY ZenonT(40) DEF PNumbers
<1>4. \A n \in Names : ack'[q][n] => lock_num'[q][n] > 0
  BY ZenonT(40) DEF PNumbers
<1> QED
  BY ZenonT(40), <1>1, <1>2, <1>3, <1>4 DEF PNumbers, AppsFor, IsMaster

(* The wait lists keep their numbers with the clients that wait.             *)
LEMMA WaitNumbersKept ==
    ASSUME WaitNumbers, wait_list' = wait_list,
           \A n \in Names : \A i \in DOMAIN wait_list[n] :
               lock_num'[wait_list[n][i].proc] = lock_num[wait_list[n][i].proc]
    PROVE  WaitNumbers'
  BY ZenonT(40) DEF WaitNumbers

(* dcg_lock_request puts the number of the client into the request.          *)
LEMMA RequestNumbers ==
    ASSUME IInv, NEW p \in Procs, PNumbers(p), NEW kind \in {"get", "release"}, NEW c \in Calls,
           dcg_lock_request(p, kind, c), lock_num' = lock_num, grant' = grant,
           AppOf[p] \in AppsFor(c.mode),
           kind = "release" => lock_num[p][c.name] > 0,
           pc'[p] # "idle" => op'[p].mode = c.mode,
           ~(pc'[p] \in PastAck)
    PROVE  PNumbers(p)'
<1> DEFINE m == [kind |-> kind, mode |-> c.mode, name |-> c.name,
                 num |-> lock_num[p][c.name]]
           L == Len(req[p])
<1>1. /\ req[p] \in Seq(Requests) /\ c.name \in Names
      /\ req'[p] = Append(req[p], m)
      /\ ack'[p] = [ack[p] EXCEPT ![c.name] = FALSE] /\ ack[p] \in [Names -> BOOLEAN]
  BY ZenonT(40) DEF IInv, TypeOK, dcg_lock_request, Calls
<1>2. m \in Requests
  BY SMTT(40) DEF IInv, TypeOK, Requests, Calls
<1>3. /\ m.kind = kind /\ m.mode = c.mode /\ m.name = c.name
      /\ m.num = lock_num[p][c.name]
  BY ZenonT(40)
<1> HIDE DEF m
<1>4. /\ L \in Nat /\ DOMAIN req[p] = 1 .. L /\ DOMAIN req'[p] = 1 .. L + 1
      /\ \A i \in 1 .. L : req'[p][i] = req[p][i]
      /\ req'[p][L + 1] = m
  BY SMTT(40), <1>1, <1>2, ListAppended, ListLength
<1> HIDE DEF L
<1>5. ASSUME NEW i \in DOMAIN req'[p]
      PROVE  /\ AppOf[p] \in AppsFor(req'[p][i].mode)
             /\ req'[p][i].kind = "get" => req'[p][i].num = lock_num'[p][req'[p][i].name]
             /\ req'[p][i].kind = "release" => lock_num'[p][req'[p][i].name] > 0
  <2>1. CASE i = L + 1
    BY ZenonT(40), <1>3, <1>4, <2>1
  <2>2. CASE i \in 1 .. L
    BY ZenonT(40), <1>4, <2>2 DEF PNumbers
  <2> QED
    BY SMTT(40), <1>4, <2>1, <2>2
<1>6. \A n \in Names : ack'[p][n] => lock_num'[p][n] > 0
  BY ZenonT(40), <1>1 DEF PNumbers
<1>7. \A i \in DOMAIN grant'[p] : grant'[p][i].num = lock_num'[p][grant'[p][i].name] + 1
  BY ZenonT(40) DEF PNumbers
<1>8. pc'[p] # "idle" => AppOf[p] \in AppsFor(op'[p].mode)
  BY ZenonT(40)
<1> QED
  BY ZenonT(40), <1>5, <1>6, <1>7, <1>8 DEF PNumbers, AppsFor, IsMaster

(* A step of the server takes requests from a connection and puts grants on  *)
(* it.                                                                      *)
LEMMA ServedNumbers ==
    ASSUME NEW q \in Procs, PNumbers(q), UNCHANGED clientVars,
           \A i \in DOMAIN req'[q] : \E j \in DOMAIN req[q] : req'[q][i] = req[q][j],
           \A i \in DOMAIN grant'[q] : grant'[q][i].num = lock_num[q][grant'[q][i].name] + 1
    PROVE  PNumbers(q)'
<1>1. pc' = pc /\ op' = op /\ lock_num' = lock_num /\ ack' = ack
  BY ZenonT(40) DEF clientVars
<1>2. \A i \in DOMAIN req'[q] :
         /\ AppOf[q] \in AppsFor(req'[q][i].mode)
         /\ req'[q][i].kind = "get" => req'[q][i].num = lock_num'[q][req'[q][i].name]
         /\ req'[q][i].kind = "release" => lock_num'[q][req'[q][i].name] > 0
  BY ZenonT(40), <1>1 DEF PNumbers
<1> QED
  BY ZenonT(40), <1>1, <1>2 DEF PNumbers, AppsFor, IsMaster

(* The grant that answers a request carries its number plus one.             *)
LEMMA GrantNumbers ==
    ASSUME IInv, NEW p \in Procs, NEW n \in Names, NEW mode \in Modes,
           NEW num \in Nat, num = lock_num[p][n], grant[p] = <<>>,
           \A q \in Procs : PNumbers(q),
           dsg_lock_grant(n, p, num, mode), NEW q \in Procs
    PROVE  \A i \in DOMAIN grant'[q] : grant'[q][i].num = lock_num[q][grant'[q][i].name] + 1
<1>1. grant \in [Procs -> Seq(Grants)]
  BY ZenonT(40) DEF IInv, TypeOK
<1>2. CASE q = p
  <2>1. grant'[p] = <<[name |-> n, num |-> num + 1]>>
    BY SMTT(40), <1>1 DEF dsg_lock_grant
  <2> QED
    BY SMTT(40), <1>2, <2>1
<1>3. CASE q # p
  <2>1. grant'[q] = grant[q]
    BY ZenonT(40), <1>1, <1>3 DEF dsg_lock_grant
  <2> QED
    BY ZenonT(40), <2>1 DEF PNumbers
<1> QED
  BY ZenonT(40), <1>2, <1>3

(* The step that receives a request.                                        *)
LEMMA ReceiveNumbers ==
    ASSUME IInv, IInv', Numbers, NEW p \in Procs, Receive(p)
    PROVE  Numbers'
<1> DEFINE m == Head(req[p])
           n == m.name
<1>1. /\ m \in Requests /\ m = req[p][1] /\ req[p] # <<>> /\ TypeOK'
      /\ 1 \in DOMAIN req[p] /\ req[p] \in Seq(Requests)
  <2>1. TypeOK'
    BY ZenonT(40) DEF IInv
  <2>2. m \in Requests /\ m = req[p][1] /\ req[p] # <<>> /\ req[p] \in Seq(Requests)
    BY ZenonT(40), <2>1, ReceivedRequest DEF IInv, TypeOK
  <2> QED
    BY SMTT(40), <2>1, <2>2
<1>2. n \in Names /\ m.mode \in Modes /\ m.num \in Nat /\ m.kind \in {"get", "release"}
  BY ZenonT(40), <1>1 DEF Requests
<1>3. /\ UNCHANGED clientVars /\ req' = [req EXCEPT ![p] = Tail(@)]
      /\ \/ m.kind = "get" /\ dsg_lock_grant(n, p, m.num, m.mode) /\ UNCHANGED wait_list
         \/ m.kind = "get" /\ dsg_lock_put_on_wait(n, p, m) /\ UNCHANGED grant
         \/ UNCHANGED <<grant, wait_list>>
  <2> DEFINE r == process_request(lock[n], m, wait_list[n] = <<>>)
  <2>1. /\ m.kind = "get" => r.action \in {"grant", "wait"}
        /\ m.kind = "release" => r.action \in {"notify", "none"}
    <3>1. lock[n] \in LockRecords
      BY ZenonT(40), <1>2 DEF IInv, TypeOK
    <3>2. (wait_list[n] = <<>>) \in BOOLEAN
      BY ZenonT(40)
    <3> HIDE DEF m
    <3> QED
      BY ZenonT(40), <1>1, <3>1, <3>2, ProcessRequestType
  <2>2. r.action \in {"grant", "wait"} => m.kind = "get"
    BY ZenonT(40), <1>2, <2>1
  <2> QED
    BY ZenonT(60), <2>2 DEF Receive
<1>4. \A q \in Procs : \A i \in DOMAIN req'[q] : \E j \in DOMAIN req[q] : req'[q][i] = req[q][j]
  <2> TAKE q \in Procs
  <2>1. CASE q # p
    <3>1. req'[q] = req[q]
      BY ZenonT(40), <1>3, <2>1 DEF IInv, TypeOK
    <3> QED
      BY ZenonT(40), <3>1
  <2>2. CASE q = p
    <3>1. req'[p] = Tail(req[p])
      BY ZenonT(40), <1>3 DEF IInv, TypeOK
    <3>2. /\ Len(req[p]) \in Nat /\ Len(req'[p]) = Len(req[p]) - 1
          /\ DOMAIN req'[p] = 1 .. Len(req[p]) - 1 /\ DOMAIN req[p] = 1 .. Len(req[p])
          /\ \A i \in 1 .. Len(req[p]) - 1 : req'[p][i] = req[p][i + 1]
      BY SMTT(40), <1>1, <3>1
    <3>3. \A i \in DOMAIN req'[p] : i + 1 \in DOMAIN req[p] /\ req'[p][i] = req[p][i + 1]
      BY SMTT(40), <3>2
    <3> QED
      BY ZenonT(40), <2>2, <3>3
  <2> QED
    BY ZenonT(40), <2>1, <2>2
<1>5. m.kind = "get" => m.num = lock_num[p][n] /\ grant[p] = <<>>
  <2>1. PNumbers(p) /\ RequestsInOrder(p)
    BY ZenonT(40) DEF Numbers, IInv, RequestOrder
  <2>2. req[p][1].kind = "get" =>
           req[p][1].num = lock_num[p][req[p][1].name] /\ grant[p] = <<>>
    BY ZenonT(40), <1>1, <2>1 DEF PNumbers, RequestsInOrder
  <2> HIDE DEF m
  <2> QED
    BY ZenonT(40), <1>1, <2>2
<1>6. \A q \in Procs : \A i \in DOMAIN grant'[q] :
         grant'[q][i].num = lock_num[q][grant'[q][i].name] + 1
  <2> TAKE q \in Procs
  <2>1. CASE UNCHANGED grant
    BY ZenonT(40), <2>1 DEF Numbers, PNumbers
  <2>2. CASE m.kind = "get" /\ dsg_lock_grant(n, p, m.num, m.mode)
    <3> HIDE DEF m
    <3>1. \A s \in Procs : PNumbers(s)
      BY ZenonT(40) DEF Numbers
    <3> QED
      BY ZenonT(40), <1>2, <1>5, <2>2, <3>1, GrantNumbers
  <2> QED
    BY ZenonT(40), <1>3, <2>1, <2>2
<1>7. WaitNumbers'
  <2>0. lock_num' = lock_num
    BY ZenonT(40), <1>3 DEF clientVars
  <2>1. CASE UNCHANGED wait_list
    BY ZenonT(40), <2>0, <2>1 DEF Numbers, WaitNumbers
  <2>2. CASE m.kind = "get" /\ dsg_lock_put_on_wait(n, p, m)
    <3> SUFFICES ASSUME NEW k \in Names, NEW i \in DOMAIN wait_list'[k]
                 PROVE  wait_list'[k][i].num = lock_num[wait_list'[k][i].proc][k]
      BY ZenonT(40), <2>0 DEF WaitNumbers
    <3>1. wait_list \in [Names -> Seq(Pending)]
      BY ZenonT(40) DEF IInv, TypeOK
    <3>2. CASE k # n
      <4>1. wait_list'[k] = wait_list[k]
        BY ZenonT(40), <2>2, <3>1, <3>2 DEF dsg_lock_put_on_wait
      <4> QED
        BY ZenonT(40), <4>1 DEF Numbers, WaitNumbers
    <3>3. CASE k = n
      <4> DEFINE e == [proc |-> p, mode |-> m.mode, num |-> m.num]
                 L == Len(wait_list[n])
      <4>1. wait_list'[n] = Append(wait_list[n], e) /\ wait_list[n] \in Seq(Pending)
        BY ZenonT(40), <1>2, <2>2, <3>1 DEF dsg_lock_put_on_wait
      <4>2. e \in Pending /\ e.num = m.num /\ e.proc = p
        BY ZenonT(40), <1>2 DEF Pending
      <4> HIDE DEF e
      <4>3. /\ L \in Nat /\ DOMAIN wait_list[n] = 1 .. L /\ DOMAIN wait_list'[n] = 1 .. L + 1
            /\ \A j \in 1 .. L : wait_list'[n][j] = wait_list[n][j]
            /\ wait_list'[n][L + 1] = e
        BY SMTT(40), <4>1, <4>2, ListAppended, ListLength
      <4> HIDE DEF L
      <4>4. CASE i = L + 1
        BY ZenonT(40), <1>5, <2>2, <3>3, <4>2, <4>3, <4>4
      <4>5. CASE i \in 1 .. L
        BY ZenonT(120), <3>3, <4>3, <4>5 DEF Numbers, WaitNumbers
      <4>6. i \in 1 .. L + 1
        BY ZenonT(40), <3>3, <4>3
      <4>7. i = L + 1 \/ i \in 1 .. L
        BY SMTT(40), <4>3, <4>6
      <4> QED
        BY ZenonT(40), <4>4, <4>5, <4>7
    <3> QED
      BY ZenonT(40), <3>2, <3>3
  <2> QED
    BY ZenonT(40), <1>3, <2>1, <2>2
<1> QED
  BY ZenonT(40), <1>3, <1>4, <1>6, <1>7, ServedNumbers DEF Numbers

(* One turn of the loop over the wait list.                                 *)
LEMMA ScanNumbers ==
    ASSUME IInv, Numbers, NEW n \in Names, ProcessWaitList(n)
    PROVE  Numbers'
<1> DEFINE s == scan[n]
           L == Len(wait_list[n])
           w == wait_list[n][s]
<1>1. UNCHANGED <<clientVars, req>>
  BY ZenonT(40) DEF ProcessWaitList
<1>2. \/ UNCHANGED <<wait_list, grant>>
      \/ /\ scan[n] # 0 /\ ~(scan[n] > L)
         /\ dsg_lock_grant(n, w.proc, w.num, w.mode)
         /\ wait_list' = [wait_list EXCEPT ![n] = list_del(@, s)]
  BY ZenonT(60) DEF ProcessWaitList
<1>3. CASE UNCHANGED <<wait_list, grant>>
  <2>1. WaitNumbers'
    BY ZenonT(40), <1>1, <1>3 DEF Numbers, WaitNumbers, clientVars
  <2>2. \A q \in Procs : PNumbers(q)'
    BY ZenonT(40), <1>1, <1>3, ServedNumbers DEF Numbers, PNumbers
  <2> QED
    BY ZenonT(40), <2>1, <2>2 DEF Numbers
<1>4. CASE /\ scan[n] # 0 /\ ~(scan[n] > L)
           /\ dsg_lock_grant(n, w.proc, w.num, w.mode)
           /\ wait_list' = [wait_list EXCEPT ![n] = list_del(@, s)]
  <2>1. /\ s \in DOMAIN wait_list[n] /\ w.proc \in Procs /\ w.mode \in Modes /\ w.num \in Nat
        /\ grant[w.proc] = <<>>
    BY ZenonT(40), <1>4, ScannedRequest
  <2>2. w.num = lock_num[w.proc][n]
    BY ZenonT(40), <2>1 DEF Numbers, WaitNumbers
  <2>3. \A q \in Procs : \A i \in DOMAIN grant'[q] :
           grant'[q][i].num = lock_num[q][grant'[q][i].name] + 1
    <3>1. \A q \in Procs : PNumbers(q)
      BY ZenonT(40) DEF Numbers
    <3> HIDE DEF w
    <3> QED
      BY ZenonT(40), <1>4, <2>1, <2>2, <3>1, GrantNumbers
  <2>4. \A q \in Procs : PNumbers(q)'
    BY ZenonT(40), <1>1, <2>3, ServedNumbers DEF Numbers
  <2>5. WaitNumbers'
    <3>0. lock_num' = lock_num /\ wait_list \in [Names -> Seq(Pending)]
      BY ZenonT(40), <1>1 DEF clientVars, IInv, TypeOK
    <3> SUFFICES ASSUME NEW k \in Names, NEW i \in DOMAIN wait_list'[k]
                 PROVE  \E j \in DOMAIN wait_list[k] : wait_list'[k][i] = wait_list[k][j]
      <4>1. ASSUME NEW k \in Names, NEW i \in DOMAIN wait_list'[k],
                   \E j \in DOMAIN wait_list[k] : wait_list'[k][i] = wait_list[k][j]
            PROVE  wait_list'[k][i].num = lock_num[wait_list'[k][i].proc][k]
        <5>1. PICK j \in DOMAIN wait_list[k] : wait_list'[k][i] = wait_list[k][j]
          BY ZenonT(40), <4>1
        <5>2. wait_list[k][j].num = lock_num[wait_list[k][j].proc][k]
          BY ZenonT(40) DEF Numbers, WaitNumbers
        <5> QED
          BY ZenonT(40), <5>1, <5>2
      <4> QED
        BY ZenonT(40), <3>0, <4>1 DEF WaitNumbers
    <3>1. CASE k # n
      <4>1. wait_list'[k] = wait_list[k]
        BY ZenonT(40), <1>4, <3>0, <3>1
      <4> QED
        BY ZenonT(40), <4>1
    <3>2. CASE k = n
      <4>1. wait_list'[n] = list_del(wait_list[n], s) /\ wait_list[n] \in Seq(Pending)
        BY ZenonT(40), <1>4, <3>0
      <4>2. L \in Nat /\ DOMAIN wait_list[n] = 1 .. L /\ s \in 1 .. L
        BY ZenonT(40), <2>1, <4>1, ListLength
      <4>3. /\ wait_list'[n] \in Seq(Pending) /\ Len(wait_list'[n]) = L - 1
            /\ \A j \in 1 .. L - 1 :
                  wait_list'[n][j] = IF j < s THEN wait_list[n][j] ELSE wait_list[n][j + 1]
        BY ZenonT(40), <4>1, <4>2, DeletedEntry
      <4>4. i \in 1 .. L - 1
        BY ZenonT(40), <3>2, <4>3, ListLength
      <4> HIDE DEF L, s
      <4>5. i \in DOMAIN wait_list[n] /\ i + 1 \in DOMAIN wait_list[n]
        BY SMTT(40), <4>2, <4>4
      <4> QED
        BY ZenonT(40), <3>2, <4>3, <4>4, <4>5
    <3> QED
      BY ZenonT(40), <3>1, <3>2
  <2> QED
    BY ZenonT(40), <2>4, <2>5 DEF Numbers
<1> QED
  BY ZenonT(40), <1>2, <1>3, <1>4

(* A step of the clients.                                                   *)
LEMMA ClientNumbers ==
    ASSUME IInv, IInv', Numbers, NEW p \in Procs,
           \/ \E c \in Calls : LockCall(p, c)
           \/ GrantArrives(p) \/ AckSeen(p) \/ UnlockCall(p) \/ SendRelease(p)
    PROVE  Numbers'
<1>0. /\ pc \in [Procs -> {"idle", "acking", "lock_barrier", "held",
                          "unlock_barrier", "releasing"}]
      /\ op \in [Procs -> Calls] /\ lock_num \in [Procs -> [Names -> Nat]]
      /\ ack \in [Procs -> [Names -> BOOLEAN]]
      /\ req \in [Procs -> Seq(Requests)] /\ grant \in [Procs -> Seq(Grants)]
  BY ZenonT(40) DEF IInv, TypeOK
<1>1. WaitNumbers /\ PNumbers(p) /\ \A q \in Procs : PNumbers(q)
  BY ZenonT(40) DEF Numbers
<1>2. /\ wait_list' = wait_list
      /\ \A q \in Procs \ {p} : /\ pc'[q] = pc[q] /\ op'[q] = op[q] /\ ack'[q] = ack[q]
                               /\ lock_num'[q] = lock_num[q]
                               /\ req'[q] = req[q] /\ grant'[q] = grant[q]
  <2>1. CASE \E c \in Calls : LockCall(p, c)
    BY ZenonT(120), <1>0, <2>1 DEF LockCall, dcg_lock_request, serverVars
  <2>2. CASE GrantArrives(p)
    BY ZenonT(40), <1>0, <2>2 DEF GrantArrives, serverVars
  <2>3. CASE AckSeen(p) \/ UnlockCall(p)
    BY ZenonT(40), <1>0, <2>3 DEF AckSeen, UnlockCall, serverVars
  <2>4. CASE SendRelease(p)
    BY ZenonT(40), <1>0, <2>4 DEF SendRelease, dcg_lock_request, serverVars
  <2> QED
    BY ZenonT(40), <2>1, <2>2, <2>3, <2>4
<1>3. ASSUME NEW q \in Procs \ {p} PROVE PNumbers(q)'
  <2>1. IsMaster(q) /\ pc[q] \in PastAck => lock_num[q][op[q].name] > 0
    BY ZenonT(40), <1>1 DEF PNumbers
  <2> QED
    BY ZenonT(40), <1>1, <1>2, <2>1, PNumbersKept
<1>4. ASSUME PNumbers(p)', lock_num' = lock_num PROVE Numbers'
  <2>1. WaitNumbers'
    BY ZenonT(40), <1>1, <1>2, <1>4, WaitNumbersKept
  <2> QED
    BY ZenonT(40), <1>3, <1>4, <2>1 DEF Numbers
<1>5. ASSUME NEW c \in Calls, LockCall(p, c) PROVE Numbers'
  <2>1. /\ lock_num' = lock_num /\ grant' = grant /\ op'[p] = c
        /\ AppOf[p] \in AppsFor(c.mode) /\ pc[p] = "idle"
    BY ZenonT(40), <1>0, <1>5 DEF LockCall, AppsFor
  <2>2. CASE IsMaster(p)
    <3>1. dcg_lock_request(p, "get", c) /\ pc'[p] = "acking"
      BY ZenonT(40), <1>0, <1>5, <2>2 DEF LockCall
    <3>2. ~(pc'[p] \in PastAck) /\ "get" \in {"get", "release"} /\ "get" # "release"
      BY ZenonT(40), <3>1 DEF PastAck
    <3>3. PNumbers(p)'
      BY ZenonT(40), <1>1, <2>1, <3>1, <3>2, RequestNumbers
    <3> QED
      BY ZenonT(40), <1>4, <2>1, <3>3
  <2>3. CASE ~IsMaster(p)
    <3>1. req' = req /\ ack' = ack
      BY ZenonT(40), <1>5, <2>3 DEF LockCall
    <3>2. PNumbers(p)'
      BY ZenonT(40), <1>1, <2>1, <2>3, <3>1 DEF PNumbers, AppsFor, IsMaster
    <3> QED
      BY ZenonT(40), <1>4, <2>1, <3>2
  <2> QED
    BY ZenonT(40), <2>2, <2>3
<1>6. CASE GrantArrives(p)
  <2> DEFINE g == Head(grant[p])
  <2>1. /\ Len(grant[p]) = 1 /\ grant[p] # <<>> /\ grant[p][1].name = op[p].name
        /\ pc[p] = "acking" /\ req[p] = <<>> /\ ~Waiting(p)
    BY ZenonT(40), <1>6 DEF GrantArrives, IInv, GrantOrder
  <2>2. /\ g = grant[p][1] /\ 1 \in DOMAIN grant[p] /\ g.name \in Names /\ g.num \in Nat
        /\ grant'[p] = <<>> /\ req'[p] = <<>> /\ pc'[p] = pc[p] /\ op'[p] = op[p]
    <3>1. grant[p] \in Seq(Grants)
      BY ZenonT(40), <1>0
    <3>2. g = grant[p][1] /\ 1 \in DOMAIN grant[p] /\ g \in Grants
      BY SMTT(40), <2>1, <3>1
    <3>3. Tail(grant[p]) = <<>>
      <4>1. Tail(grant[p]) \in Seq(Grants) /\ Len(Tail(grant[p])) = 0
        BY SMTT(40), <2>1, <3>1, ListHeadTail, EmptyList
      <4> QED
        BY ZenonT(40), <4>1, EmptyList
    <3>4. grant'[p] = Tail(grant[p]) /\ req' = req /\ pc' = pc /\ op' = op
      BY ZenonT(40), <1>0, <1>6 DEF GrantArrives
    <3> QED
      BY ZenonT(40), <2>1, <3>2, <3>3, <3>4 DEF Grants
  <2>3. /\ lock_num'[p] = [lock_num[p] EXCEPT ![g.name] = g.num]
        /\ ack'[p] = [ack[p] EXCEPT ![g.name] = TRUE]
    BY ZenonT(40), <1>0, <1>6 DEF GrantArrives
  <2>4. g.num = lock_num[p][g.name] + 1
    <3> HIDE DEF g
    <3> QED
      BY ZenonT(40), <1>1, <2>2 DEF PNumbers
  <2> HIDE DEF g
  <2>5. \A n \in Names : ack'[p][n] => lock_num'[p][n] > 0
    <3> TAKE n \in Names
    <3>1. CASE n = g.name
      BY SMTT(40), <1>0, <2>2, <2>3, <2>4, <3>1
    <3>2. CASE n # g.name
      <4>1. lock_num'[p][n] = lock_num[p][n] /\ ack'[p][n] = ack[p][n]
        BY ZenonT(40), <1>0, <2>3, <3>2
      <4> QED
        BY ZenonT(40), <1>1, <4>1 DEF PNumbers
    <3> QED
      BY ZenonT(40), <3>1, <3>2
  <2>6. PNumbers(p)'
    <3>1. DOMAIN req'[p] = {} /\ DOMAIN grant'[p] = {} /\ pc'[p] \notin PastAck
      BY SMTT(40), <2>1, <2>2 DEF PastAck
    <3> QED
      BY ZenonT(40), <1>1, <2>2, <2>5, <3>1 DEF PNumbers, AppsFor
  <2>7. WaitNumbers'
    <3>1. ASSUME NEW n \in Names, NEW i \in DOMAIN wait_list[n]
          PROVE  lock_num'[wait_list[n][i].proc] = lock_num[wait_list[n][i].proc]
      <4>1. wait_list[n][i].proc # p
        BY ZenonT(40), <2>1 DEF Waiting
      <4>2. wait_list[n][i].proc \in Procs
        BY ZenonT(40), SequenceFacts DEF IInv
      <4> QED
        BY ZenonT(40), <1>2, <4>1, <4>2
    <3> QED
      BY ZenonT(40), <1>1, <1>2, <3>1, WaitNumbersKept
  <2> QED
    BY ZenonT(40), <1>3, <2>6, <2>7 DEF Numbers
<1>7. CASE AckSeen(p) \/ UnlockCall(p)
  <2>1. /\ op' = op /\ lock_num' = lock_num /\ ack' = ack /\ req' = req /\ grant' = grant
        /\ pc[p] # "idle"
        /\ pc[p] \in PastAck \/ ack[p][op[p].name]
    BY ZenonT(40), <1>7 DEF AckSeen, UnlockCall, PastAck
  <2>2. op[p].name \in Names
    BY ZenonT(40), <1>0 DEF Calls
  <2>3. IsMaster(p) => lock_num[p][op[p].name] > 0
    BY ZenonT(40), <1>1, <2>1, <2>2 DEF PNumbers
  <2>4. PNumbers(p)'
    BY ZenonT(40), <1>1, <2>1, <2>3, PNumbersKept
  <2> QED
    BY ZenonT(40), <1>4, <2>1, <2>4
<1>8. CASE SendRelease(p)
  <2>1. /\ pc[p] = "releasing" /\ pc'[p] = "idle" /\ op' = op
        /\ lock_num' = lock_num /\ grant' = grant
        /\ dcg_lock_request(p, "release", op[p]) /\ op[p] \in Calls
    BY ZenonT(40), <1>0, <1>8 DEF SendRelease
  <2>2. IsMaster(p) /\ pc[p] \in PastAck /\ ~(pc'[p] \in PastAck) /\ pc[p] # "idle"
    BY ZenonT(40), <2>1 DEF IInv, MastersOnly, PastAck
  <2>3. lock_num[p][op[p].name] > 0 /\ AppOf[p] \in AppsFor(op[p].mode)
    BY ZenonT(40), <1>1, <2>2 DEF PNumbers
  <2>4. PNumbers(p)'
    BY ZenonT(40), <1>1, <2>1, <2>2, <2>3, RequestNumbers
  <2> QED
    BY ZenonT(40), <1>4, <2>1, <2>4
<1> QED
  BY ZenonT(40), <1>5, <1>6, <1>7, <1>8

(* The barriers of an application.                                          *)
LEMMA BarrierNumbers ==
    ASSUME IInv, Numbers, NEW a \in Apps, LockBarrier(a) \/ UnlockBarrier(a)
    PROVE  Numbers'
<1>1. /\ op' = op /\ lock_num' = lock_num /\ ack' = ack /\ req' = req /\ grant' = grant
      /\ wait_list' = wait_list
  BY ZenonT(40) DEF LockBarrier, UnlockBarrier, serverVars
<1>2. \A q \in Procs : \/ pc'[q] = pc[q]
                       \/ pc[q] \in PastAck /\ pc[q] # "idle"
  BY ZenonT(40) DEF LockBarrier, UnlockBarrier, PastAck
<1>3. ASSUME NEW q \in Procs PROVE PNumbers(q)'
  <2>1. PNumbers(q)
    BY ZenonT(40) DEF Numbers
  <2>2. pc'[q] # "idle" => pc[q] # "idle"
    BY ZenonT(40), <1>2
  <2>3. IsMaster(q) /\ pc'[q] \in PastAck => lock_num[q][op[q].name] > 0
    BY ZenonT(40), <1>2, <2>1 DEF PNumbers
  <2> QED
    BY ZenonT(40), <1>1, <2>1, <2>2, <2>3, PNumbersKept
<1>4. WaitNumbers'
  BY ZenonT(40), <1>1 DEF Numbers, WaitNumbers
<1> QED
  BY ZenonT(40), <1>3, <1>4 DEF Numbers

(* At the start all numbers are zero.                                       *)
LEMMA NumbersInit == Init => Numbers
<1> SUFFICES ASSUME Init PROVE Numbers
  BY ZenonT(40)
<1>1. \A n \in Names : DOMAIN wait_list[n] = {}
  BY SMTT(40) DEF Init
<1>2. \A p \in Procs : /\ pc[p] = "idle" /\ DOMAIN req[p] = {} /\ DOMAIN grant[p] = {}
                       /\ \A n \in Names : ~ack[p][n]
  BY SMTT(40) DEF Init
<1>3. "idle" \notin PastAck
  BY ZenonT(40) DEF PastAck
<1> QED
  BY ZenonT(40), <1>1, <1>2, <1>3 DEF Numbers, WaitNumbers, PNumbers

(* Every step keeps the numbers.                                             *)
LEMMA NumbersStep == IInv /\ IInv' /\ Numbers /\ [Next]_vars => Numbers'
<1> SUFFICES ASSUME IInv, IInv', Numbers, [Next]_vars PROVE Numbers'
  BY ZenonT(40)
<1>1. CASE UNCHANGED vars
  BY ZenonT(40), <1>1 DEF vars, clientVars, serverVars, Numbers, WaitNumbers, PNumbers
<1> QED
  BY ZenonT(40), <1>1, ClientNumbers, BarrierNumbers, ReceiveNumbers, ScanNumbers DEF Next

-----------------------------------------------------------------------------
(* Lock type 3: nothing is read before it is written.                      *)

(* The release of a writer is of a name that has been written, whether it   *)
(* is under way or the server has counted it.                               *)
ToldWritten(p) ==
    \A i \in DOMAIN req[p] :
        req[p][i].kind = "release" /\ req[p][i].mode = "write" =>
            req[p][i].name \in written

Counted == \A n \in Names : lock[n].wr_epoch > 0 => n \in written

Wrote == Counted /\ \A p \in Procs : ToldWritten(p)

(* At the start nothing is under way and no write has been counted.         *)
LEMMA WroteInit == HInit => Wrote
<1> SUFFICES ASSUME HInit PROVE Wrote
  OBVIOUS
<1>1. Counted
  BY SMTT(40) DEF HInit, Init, Counted, NewLock
<1>2. ASSUME NEW p \in Procs PROVE ToldWritten(p)
  <2>1. req[p] = <<>>
    BY ZenonT(40) DEF HInit, Init
  <2>2. DOMAIN req[p] = {}
    BY SMTT(40), <2>1
  <2> QED
    BY ZenonT(40), <2>2 DEF ToldWritten
<1> QED
  BY ZenonT(40), <1>1, <1>2 DEF Wrote

(* What has been written stays so, and every step but those of a client     *)
(* that sends leaves a connection with some of the requests it had.         *)
LEMMA WrittenStays ==
    ASSUME IInv, IInv', [HNext]_hvars
    PROVE  /\ [Next]_vars
           /\ written \subseteq written'
           /\ \A p \in Procs : \/ \A i \in DOMAIN req'[p] : \E j \in DOMAIN req[p] :
                                       req'[p][i] = req[p][j]
                               \/ \E c \in Calls : LockCall(p, c)
                               \/ SendRelease(p)
<1>1. [Next]_vars /\ written \subseteq written'
  BY ZenonT(40) DEF HNext, hvars
<1>2. \/ req' = req
      \/ \E q \in Procs : Receive(q)
      \/ \E q \in Procs : (\E c \in Calls : LockCall(q, c)) \/ SendRelease(q)
  BY ZenonT(40), <1>1 DEF Next, GrantArrives, AckSeen, UnlockCall, LockBarrier,
                          UnlockBarrier, ProcessWaitList, vars
<1>3. ASSUME NEW q \in Procs, Receive(q), NEW p \in Procs
      PROVE  \A i \in DOMAIN req'[p] : \E j \in DOMAIN req[p] : req'[p][i] = req[p][j]
  <2>1. /\ \A r \in Procs \ {q} : req'[r] = req[r]
        /\ DOMAIN req'[q] = 1 .. Len(req[q]) - 1 /\ DOMAIN req[q] = 1 .. Len(req[q])
        /\ \A i \in 1 .. Len(req[q]) - 1 : req'[q][i] = req[q][i + 1]
        /\ Len(req[q]) \in Nat
    BY ZenonT(40), <1>3, ReceivedRequest DEF IInv
  <2>2. \A i \in 1 .. Len(req[q]) - 1 : i + 1 \in 1 .. Len(req[q])
    BY SMTT(40), <2>1
  <2> QED
    BY ZenonT(40), <2>1, <2>2
<1>4. ASSUME NEW q \in Procs, (\E c \in Calls : LockCall(q, c)) \/ SendRelease(q),
             NEW p \in Procs, p # q
      PROVE  req'[p] = req[p]
  <2>1. req' = req \/ \E m : req' = [req EXCEPT ![q] = Append(@, m)]
    BY ZenonT(40), <1>4 DEF LockCall, SendRelease, dcg_lock_request
  <2> QED
    BY ZenonT(40), <1>4, <2>1 DEF IInv, TypeOK
<1> QED
  BY ZenonT(40), <1>1, <1>2, <1>3, <1>4

(* A client that sends puts one request on its connection.                  *)
LEMMA OneMore ==
    ASSUME IInv, NEW p \in Procs, NEW kind \in {"get", "release"}, NEW c \in Calls,
           dcg_lock_request(p, kind, c), NEW i \in DOMAIN req'[p]
    PROVE  \/ i \in DOMAIN req[p] /\ req'[p][i] = req[p][i]
           \/ req'[p][i].kind = kind /\ req'[p][i].mode = c.mode /\ req'[p][i].name = c.name
<1> DEFINE m == [kind |-> kind, mode |-> c.mode, name |-> c.name,
                 num |-> lock_num[p][c.name]]
           L == Len(req[p])
<1>1. req[p] \in Seq(Requests) /\ req'[p] = Append(req[p], m)
  BY ZenonT(40) DEF IInv, TypeOK, dcg_lock_request
<1>2. m \in Requests
  BY SMTT(40) DEF IInv, TypeOK, Requests, Calls
<1>3. m.kind = kind /\ m.mode = c.mode /\ m.name = c.name
  BY ZenonT(40)
<1> HIDE DEF m
<1>4. /\ L \in Nat /\ DOMAIN req[p] = 1 .. L /\ DOMAIN req'[p] = 1 .. L + 1
      /\ \A k \in 1 .. L : req'[p][k] = req[p][k]
      /\ req'[p][L + 1] = m
  BY SMTT(40), <1>1, <1>2, ListAppended, ListLength
<1> HIDE DEF L
<1>5. i = L + 1 \/ i \in 1 .. L
  BY SMTT(40), <1>4
<1> QED
  BY ZenonT(40), <1>3, <1>4, <1>5

(* A writer that sends its release has written.                             *)
LEMMA ToldWrittenStep ==
    ASSUME IInv, IInv', [HNext]_hvars, NEW p \in Procs, ToldWritten(p)
    PROVE  ToldWritten(p)'
<1>1. /\ written \subseteq written'
      /\ \/ \A i \in DOMAIN req'[p] : \E j \in DOMAIN req[p] : req'[p][i] = req[p][j]
         \/ \E c \in Calls : LockCall(p, c)
         \/ SendRelease(p)
  BY ZenonT(40), WrittenStays
<1>2. CASE \A i \in DOMAIN req'[p] : \E j \in DOMAIN req[p] : req'[p][i] = req[p][j]
  BY ZenonT(40), <1>1, <1>2 DEF ToldWritten
<1>3. ASSUME NEW c \in Calls, LockCall(p, c) PROVE ToldWritten(p)'
  <2>1. CASE req' = req
    BY ZenonT(40), <1>1, <2>1 DEF ToldWritten
  <2>2. CASE dcg_lock_request(p, "get", c)
    <3>1. \A i \in DOMAIN req'[p] : \/ i \in DOMAIN req[p] /\ req'[p][i] = req[p][i]
                                    \/ req'[p][i].kind = "get"
      BY ZenonT(40), <2>2, OneMore
    <3> QED
      BY ZenonT(40), <1>1, <3>1 DEF ToldWritten
  <2> QED
    BY ZenonT(40), <1>3, <2>1, <2>2 DEF LockCall
<1>4. CASE SendRelease(p)
  <2>1. op[p] \in Calls /\ dcg_lock_request(p, "release", op[p])
    BY ZenonT(40), <1>4 DEF SendRelease, IInv, TypeOK
  <2>2. \A i \in DOMAIN req'[p] :
           \/ i \in DOMAIN req[p] /\ req'[p][i] = req[p][i]
           \/ req'[p][i].mode = op[p].mode /\ req'[p][i].name = op[p].name
    <3>1. ASSUME NEW c \in Calls, dcg_lock_request(p, "release", c),
                 NEW i \in DOMAIN req'[p]
          PROVE  \/ i \in DOMAIN req[p] /\ req'[p][i] = req[p][i]
                 \/ req'[p][i].mode = c.mode /\ req'[p][i].name = c.name
      BY SMTT(40), <3>1, OneMore
    <3> QED
      BY ZenonT(40), <2>1, <3>1
  <2>3. op[p].mode = "write" => op[p].name \in written'
    <3>1. pc[p] = "releasing" /\ pc'[p] = "idle"
      BY ZenonT(40), <1>4 DEF SendRelease, IInv, TypeOK
    <3>2. HNext
      BY ZenonT(40), <3>1 DEF hvars, vars, clientVars
    <3> QED
      BY ZenonT(40), <3>1, <3>2 DEF HNext, ReleasedByWriter
  <2> QED
    BY ZenonT(40), <1>1, <2>2, <2>3 DEF ToldWritten
<1> QED
  BY ZenonT(40), <1>1, <1>2, <1>3, <1>4

(* Only the release of a writer counts a write.                              *)
LEMMA CountedStep ==
    ASSUME LockType = "v3", IInv, IInv', Wrote, [HNext]_hvars
    PROVE  Counted'
<1> SUFFICES ASSUME NEW n \in Names, lock'[n].wr_epoch > 0
             PROVE  n \in written'
  BY ZenonT(40) DEF Counted
<1>9. [Next]_vars
  BY ZenonT(40), WrittenStays
<1>0. TypeOK' /\ lock \in [Names -> LockRecords] /\ lock[n] \in LockRecords
  BY ZenonT(40) DEF IInv, TypeOK
<1>1. n \in written => n \in written'
  BY ZenonT(40), WrittenStays
<1>2. lock[n].wr_epoch > 0 => n \in written
  BY ZenonT(40) DEF Wrote, Counted
<1>3. CASE UNCHANGED serverVars
  BY ZenonT(40), <1>1, <1>2, <1>3 DEF serverVars
<1>4. ASSUME NEW k \in Names, ProcessWaitList(k) PROVE n \in written'
  <2> DEFINE s == scan[k]
             m == Pend(k, wait_list[k][s])
             r == process_request(lock[k], m, TRUE)
  <2>1. \/ lock' = lock
        \/ s \in DOMAIN wait_list[k] /\ lock' = [lock EXCEPT ![k] = r.lock]
    <3>1. s # 0 /\ ~(s > Len(wait_list[k])) => s \in DOMAIN wait_list[k]
      BY ZenonT(40), ScannedRequest
    <3> QED
      BY ZenonT(40), <1>4, <3>1 DEF ProcessWaitList, Pend
  <2>2. s \in DOMAIN wait_list[k] => r.lock.wr_epoch = lock[k].wr_epoch
    <3>1. lock[k] \in LockRecords
      BY ZenonT(40), <1>0
    <3>2. s \in DOMAIN wait_list[k] => m \in Requests /\ m.kind = "get"
      BY ZenonT(40), PendTypes DEF IInv
    <3> HIDE DEF m
    <3> QED
      BY ZenonT(40), <3>1, <3>2, WriteEpoch
  <2>3. lock'[n].wr_epoch = lock[n].wr_epoch
    <3> HIDE DEF r
    <3> QED
      BY ZenonT(40), <1>0, <2>1, <2>2
  <2> QED
    BY ZenonT(40), <1>1, <1>2, <2>3
<1>5. ASSUME NEW p \in Procs, Receive(p) PROVE n \in written'
  <2> DEFINE m == Head(req[p])
             k == m.name
             r == process_request(lock[k], m, wait_list[k] = <<>>)
  <2>1. /\ m \in Requests /\ m = req[p][1] /\ req[p] # <<>> /\ req[p] \in Seq(Requests)
    <3>1. m \in Requests /\ m = req[p][1] /\ req[p] # <<>>
      BY ZenonT(40), <1>0, <1>5, ReceivedRequest
    <3>2. req[p] \in Seq(Requests)
      BY ZenonT(40) DEF IInv, TypeOK
    <3> QED
      BY ZenonT(40), <3>1, <3>2
  <2>2. /\ k \in Names /\ m.kind \in {"get", "release"} /\ m.mode \in {"read", "write"}
        /\ 1 \in DOMAIN req[p]
    BY SMTT(40), <2>1 DEF Requests, Modes
  <2>3. lock' = [lock EXCEPT ![k] = r.lock]
    BY ZenonT(40), <1>5 DEF Receive
  <2>4. CASE m.kind = "get" \/ m.mode = "read"
    <3>1. lock[k] \in LockRecords /\ (wait_list[k] = <<>>) \in BOOLEAN
      BY ZenonT(40), <1>0, <2>2
    <3>2. m.kind = "get" \/ (m.kind = "release" /\ m.mode = "read")
      BY ZenonT(40), <2>2, <2>4
    <3>3. r.lock.wr_epoch = lock[k].wr_epoch
      <4> HIDE DEF m
      <4> QED
        BY ZenonT(40), <2>1, <3>1, <3>2, WriteEpoch
    <3> HIDE DEF r, m
    <3>4. lock'[n].wr_epoch = lock[n].wr_epoch
      BY ZenonT(40), <1>0, <2>3, <3>3
    <3> QED
      BY ZenonT(40), <1>1, <1>2, <3>4
  <2>5. CASE m.kind = "release" /\ m.mode = "write"
    <3>1. CASE k = n
      <4>1. /\ req[p][1].kind = "release" /\ req[p][1].mode = "write" /\ req[p][1].name = n
        BY ZenonT(40), <2>1, <2>5, <3>1
      <4>2. n \in written
        BY ZenonT(40), <2>2, <4>1 DEF Wrote, ToldWritten
      <4> QED
        BY ZenonT(40), <1>1, <4>2
    <3>2. CASE k # n
      <4> HIDE DEF r, m, k
      <4>1. lock'[n] = lock[n]
        BY ZenonT(40), <1>0, <2>3, <3>2
      <4> QED
        BY ZenonT(40), <1>1, <1>2, <4>1
    <3> QED
      BY ZenonT(40), <3>1, <3>2
  <2> QED
    BY ZenonT(40), <2>2, <2>4, <2>5
<1> QED
  BY ZenonT(40), <1>3, <1>4, <1>5, <1>9, ServerSteps

(* Every step keeps the invariant.                                          *)
LEMMA WroteStep ==
    ASSUME LockType = "v3"
    PROVE  IInv /\ IInv' /\ Wrote /\ [HNext]_hvars => Wrote'
  BY ZenonT(40), CountedStep, ToldWrittenStep DEF Wrote

(* The master of an application of which a process holds the lock is one of  *)
(* the holders the server has on record.                                    *)
LEMMA HolderOnRecord ==
    ASSUME IInv, NEW x \in Procs, NEW n \in Names, NEW mode \in Modes, Holds(x, n, mode)
    PROVE  LET y == Master[AppOf[x]]
           IN /\ y \in Procs /\ IsMaster(y) /\ pc[y] \in HeldPC /\ op[y] = op[x]
              /\ mode = "read" => y \in rd_holders[n]
              /\ mode = "write" => y \in wr_holders[n]
<1> DEFINE y == Master[AppOf[x]]
<1>1. y \in Procs /\ AppOf[y] = AppOf[x] /\ IsMaster(y)
  BY ZenonT(40), TopologyAssumption DEF IsMaster
<1>2. pc[x] = "held" /\ op[x] = [name |-> n, mode |-> mode]
  BY ZenonT(40) DEF Holds
<1>3. pc[y] \in HeldPC /\ op[y] = op[x]
  BY ZenonT(40), <1>1, <1>2 DEF IInv, Together, HeldPC
<1>4. HasToken(y, [name |-> n, mode |-> mode])
  BY ZenonT(40), <1>2, <1>3 DEF HasToken, HeldPC, PastAck
<1>5. /\ mode = "read" => y \in rd_holders[n]
      /\ mode = "write" => y \in wr_holders[n]
  BY ZenonT(40), <1>1, <1>4 DEF IInv, Tokens
<1> QED
  BY ZenonT(40), <1>1, <1>3, <1>5

(* Who holds a lock for reading is on the server's record, and then the     *)
(* first write is over (lock_process_request_v3 and its wr_epoch).          *)
LEMMA WroteReadAfterWrite ==
    ASSUME LockType = "v3"
    PROVE  IInv /\ WaitInv /\ Wrote => ReadAfterWrite
<1> SUFFICES ASSUME IInv, WaitInv, Wrote, NEW p \in Procs, NEW n \in Names,
                    Holds(p, n, "read")
             PROVE  n \in written
  BY ZenonT(40) DEF ReadAfterWrite
<1>1. rd_holders[n] # {}
  BY ZenonT(40), HolderOnRecord DEF Modes
<1>2. lock[n].wr_epoch # 0
  BY ZenonT(40), <1>1 DEF WaitInv, WaitInvAt, FirstWriteAhead
<1>3. lock[n].wr_epoch > 0
  <2>1. lock[n].wr_epoch \in Nat
    BY ZenonT(40) DEF IInv, TypeOK, LockRecords
  <2> QED
    BY SMTT(40), <1>2, <2>1
<1> QED
  BY ZenonT(40), <1>3 DEF Wrote, Counted

-----------------------------------------------------------------------------
(* The rounds of the custom lock.                                          *)

(* The processes that talk to the server for the readers and the writers.   *)
ReadMasters == {Master[a] : a \in ReadApps}
WriteMasters == {Master[a] : a \in WriteApps}

(* What the custom lock is configured for: one application writes, and at    *)
(* most max_readers others read.                                            *)
OneWriter ==
    /\ LockType = "custom"
    /\ ReadApps \subseteq Apps /\ WriteApps \subseteq Apps
    /\ ReadApps \cap WriteApps = {}
    /\ AtMostOne(WriteApps)
    /\ Cardinality(ReadApps) <= MaxReaders

(* How often p has been granted n, the grant under way to it included.       *)
Granted(p, n) == lock_num[p][n] + (IF grant[p] # <<>> /\ op[p].name = n THEN 1 ELSE 0)

(* The readers that have had the lock in this round, if g counts the grants. *)
Served(dl, g) == {s \in ReadMasters : g[s] = dl.rd_epoch + 1}

(* The writer is next or writes: nobody has read this version yet.           *)
Writing(dl, R, W, g) ==
    /\ R = {} /\ dl.rd_cnt = 0 /\ dl.rd_notify_cnt = 0
    /\ dl.wr_epoch = dl.rd_epoch
    /\ \A w \in WriteMasters : g[w] = dl.wr_epoch + (IF W = {} THEN 0 ELSE 1)
    /\ \A s \in ReadMasters : g[s] = dl.rd_epoch

(* The readers have the version of the writer, each of them at most once.    *)
Reading(dl, R, W, g) ==
    /\ W = {} /\ dl.wr_cnt = 0
    /\ dl.wr_epoch = dl.rd_epoch + 1
    /\ \A w \in WriteMasters : g[w] = dl.wr_epoch
    /\ \A s \in ReadMasters : g[s] \in {dl.rd_epoch, dl.rd_epoch + 1}
    /\ R \subseteq Served(dl, g)
    /\ Cardinality(Served(dl, g)) = Cardinality(R) + dl.rd_notify_cnt

(* The state of a lock in its rounds.                                       *)
InRound(dl, R, W, g) == Writing(dl, R, W, g) \/ Reading(dl, R, W, g)

Round(n) == InRound(lock[n], rd_holders[n], wr_holders[n], [p \in Procs |-> Granted(p, n)])

RoundInv == \A n \in Names : Round(n)

(* There are at most max_readers masters of reading applications.            *)
LEMMA MastersCount ==
    ASSUME FiniteSetFacts, OneWriter
    PROVE  /\ ReadMasters \subseteq Procs /\ WriteMasters \subseteq Procs
           /\ ReadMasters \cap WriteMasters = {}
           /\ AtMostOne(WriteMasters)
           /\ IsFiniteSet(ReadMasters) /\ Cardinality(ReadMasters) <= MaxReaders
           /\ \A p \in Procs : IsMaster(p) =>
                 /\ AppOf[p] \in AppsFor("read") <=> p \in ReadMasters
                 /\ AppOf[p] \in AppsFor("write") <=> p \in WriteMasters
<1>1. /\ ReadApps \subseteq Apps /\ WriteApps \subseteq Apps
      /\ Master \in [Apps -> Procs] /\ AppOf \in [Procs -> Apps]
      /\ \A a \in Apps : AppOf[Master[a]] = a
  BY ZenonT(40), TopologyAssumption DEF OneWriter
<1>2. ReadMasters \subseteq Procs /\ WriteMasters \subseteq Procs
  BY ZenonT(40), <1>1 DEF ReadMasters, WriteMasters
<1>3. ReadMasters \cap WriteMasters = {} /\ AtMostOne(WriteMasters)
  <2>1. ASSUME NEW x \in ReadMasters, x \in WriteMasters PROVE FALSE
    <3>1. PICK a \in ReadApps : x = Master[a]
      BY ZenonT(40) DEF ReadMasters
    <3>2. PICK c \in WriteApps : x = Master[c]
      BY ZenonT(40), <2>1 DEF WriteMasters
    <3>3. a = c
      BY ZenonT(40), <1>1, <3>1, <3>2
    <3> QED
      BY ZenonT(40), <3>3 DEF OneWriter
  <2>2. ASSUME NEW x \in WriteMasters, NEW y \in WriteMasters PROVE x = y
    <3>1. PICK a \in WriteApps : x = Master[a]
      BY ZenonT(40) DEF WriteMasters
    <3>2. PICK c \in WriteApps : y = Master[c]
      BY ZenonT(40) DEF WriteMasters
    <3>3. a = c
      BY ZenonT(40) DEF OneWriter, AtMostOne
    <3> QED
      BY ZenonT(40), <3>1, <3>2, <3>3
  <2> QED
    BY ZenonT(40), <2>1, <2>2 DEF AtMostOne
<1>4. IsFiniteSet(ReadMasters)
  BY ZenonT(40), <1>2, TopologyAssumption DEF FiniteSetFacts
<1>5. Cardinality(ReadMasters) <= MaxReaders
  <2> DEFINE f == [x \in ReadMasters |-> AppOf[x]]
             h == [a \in ReadApps |-> Master[a]]
  <2>1. f \in [ReadMasters -> ReadApps] /\ \A a \in ReadApps : \E x \in ReadMasters : f[x] = a
    <3>1. ASSUME NEW x \in ReadMasters PROVE f[x] \in ReadApps
      BY ZenonT(40), <1>1 DEF ReadMasters
    <3>2. ASSUME NEW a \in ReadApps PROVE \E x \in ReadMasters : f[x] = a
      <4>1. Master[a] \in ReadMasters /\ AppOf[Master[a]] = a
        BY ZenonT(40), <1>1 DEF ReadMasters
      <4> QED
        BY ZenonT(40), <4>1
    <3> QED
      BY ZenonT(40), <3>1, <3>2
  <2> HIDE DEF f
  <2>2. IsFiniteSet(ReadApps)
    BY ZenonT(40), <1>4, <2>1 DEF FiniteSetFacts
  <2>3. h \in [ReadApps -> ReadMasters] /\ \A x \in ReadMasters : \E a \in ReadApps : h[a] = x
    BY ZenonT(40) DEF ReadMasters
  <2> HIDE DEF h
  <2>4. Cardinality(ReadMasters) <= Cardinality(ReadApps)
    BY ZenonT(40), <2>2, <2>3 DEF FiniteSetFacts
  <2>5. Cardinality(ReadMasters) \in Nat /\ Cardinality(ReadApps) \in Nat
    BY ZenonT(40), <1>4, <2>2 DEF FiniteSetFacts
  <2> QED
    BY SMTT(40), <2>4, <2>5, ConfAssumption DEF OneWriter
<1>6. ASSUME NEW p \in Procs, IsMaster(p)
      PROVE  /\ AppOf[p] \in AppsFor("read") <=> p \in ReadMasters
             /\ AppOf[p] \in AppsFor("write") <=> p \in WriteMasters
  BY ZenonT(40), <1>1, <1>6 DEF AppsFor, ReadMasters, WriteMasters, IsMaster
<1> QED
  BY ZenonT(40), <1>2, <1>3, <1>4, <1>5, <1>6

(* Only a round of reading has permits for readers, and only a round of      *)
(* writing has one for the writer.                                          *)
LEMMA RoundOf ==
    ASSUME FiniteSetFacts,
           OneWriter, NEW dl \in LockRecords, NEW R \in SUBSET Procs, NEW W \in SUBSET Procs,
           NEW g \in [Procs -> Nat], Accounted(dl, R, W), InRound(dl, R, W, g)
    PROVE  /\ dl.wr_notify_cnt = 0
           /\ dl.rd_cnt > 0 \/ R # {} => /\ Reading(dl, R, W, g)
                                         /\ dl.rd_cnt + Cardinality(R) + dl.rd_notify_cnt = MaxReaders
                                         /\ dl.rd_cnt >= 0
           /\ dl.wr_cnt > 0 \/ W # {} => Writing(dl, R, W, g)
           /\ dl.wr_cnt > 0 => W = {}
           /\ AtMostOne(W)
<1>1. SemAccounting(dl, R, W) /\ AtMostOne(W)
  BY ZenonT(40) DEF Accounted, OneWriter
<1>2. /\ Cardinality(R) \in Nat /\ Cardinality(R) = 0 <=> R = {}
      /\ dl.rd_cnt \in Int /\ dl.wr_cnt \in Int /\ dl.rd_notify_cnt \in Nat /\ MaxReaders \in Nat \ {0}
  <2>1. ASSUME NEW p \in Procs PROVE Cardinality(R) \in Nat /\ (Cardinality(R) = 0 <=> R = {})
    BY ZenonT(40), Holders
  <2>2. CASE Procs = {}
    <3>1. R = {}
      BY ZenonT(40), <2>2
    <3> QED
      BY ZenonT(40), <3>1, ConfAssumption DEF LockRecords, FiniteSetFacts
  <2>3. CASE Procs # {}
    <3>1. PICK p \in Procs : TRUE
      BY ZenonT(40), <2>3
    <3>2. Cardinality(R) \in Nat /\ (Cardinality(R) = 0 <=> R = {})
      BY ZenonT(40), <2>1, <3>1
    <3> QED
      BY ZenonT(40), <3>2, ConfAssumption DEF LockRecords
  <2> QED
    BY ZenonT(40), <2>2, <2>3
<1>3. dl.wr_notify_cnt = 0
  BY ZenonT(40), <1>1 DEF SemAccounting
<1>4. CASE Writing(dl, R, W, g)
  <2>1. R = {} /\ dl.rd_cnt = 0 /\ dl.rd_notify_cnt = 0
    BY ZenonT(40), <1>4 DEF Writing
  <2>2. dl.wr_cnt = IF W = {} THEN 1 ELSE 0
    BY SMTT(40), <1>1, <1>2, <2>1 DEF SemAccounting
  <2> QED
    BY SMTT(40), <1>1, <1>3, <1>4, <2>1, <2>2
<1>5. CASE Reading(dl, R, W, g)
  <2>1. W = {} /\ dl.wr_cnt = 0
    BY ZenonT(40), <1>5 DEF Reading
  <2>2. /\ dl.rd_cnt + Cardinality(R) + dl.rd_notify_cnt = MaxReaders
        /\ dl.rd_cnt >= 0
    BY SMTT(40), <1>1, <1>2, <2>1 DEF SemAccounting
  <2> QED
    BY SMTT(40), <1>1, <1>3, <1>5, <2>1, <2>2
<1> QED
  BY ZenonT(40), <1>4, <1>5 DEF InRound

(* A grant keeps the round.                                                 *)
LEMMA GrantInRound ==
    ASSUME FiniteSetFacts,
           OneWriter, NEW dl \in LockRecords, NEW R \in SUBSET Procs, NEW W \in SUBSET Procs,
           NEW g \in [Procs -> Nat], Accounted(dl, R, W), InRound(dl, R, W, g),
           NEW m \in Requests, NEW b \in BOOLEAN, NEW p \in Procs,
           m.kind = "get", process_request(dl, m, b).action = "grant",
           p \notin R, m.num = g[p], IsMaster(p), AppOf[p] \in AppsFor(m.mode)
    PROVE  LET r == process_request(dl, m, b)
           IN /\ m.mode = "read" => InRound(r.lock, R \cup {p}, W, [g EXCEPT ![p] = @ + 1])
              /\ m.mode = "write" => InRound(r.lock, R, W \cup {p}, [g EXCEPT ![p] = @ + 1])
<1> DEFINE h == [g EXCEPT ![p] = @ + 1]
<1>1. /\ h[p] = g[p] + 1 /\ \A q \in Procs \ {p} : h[q] = g[q]
      /\ \A q \in Procs : g[q] \in Nat
  BY ZenonT(40)
<1>2. /\ ReadMasters \subseteq Procs /\ WriteMasters \subseteq Procs
      /\ ReadMasters \cap WriteMasters = {}
      /\ AtMostOne(WriteMasters) /\ IsFiniteSet(ReadMasters)
      /\ AppOf[p] \in AppsFor("read") => p \in ReadMasters
      /\ AppOf[p] \in AppsFor("write") => p \in WriteMasters
  BY ZenonT(40), MastersCount
<1>0. LockType = "custom"
  BY ZenonT(40) DEF OneWriter
<1> HIDE DEF h
<1>3. /\ dl.rd_cnt \in Int /\ dl.wr_cnt \in Int /\ dl.rd_notify_cnt \in Nat
      /\ dl.rd_epoch \in Nat /\ dl.wr_epoch \in Nat
  BY ZenonT(40) DEF LockRecords
<1>4. CASE m.mode = "read"
  <2>1. /\ dl.rd_cnt > 0 /\ m.num = dl.rd_epoch
        /\ process_request(dl, m, b).lock = [dl EXCEPT !.rd_cnt = @ - 1]
    BY ZenonT(40), <1>0, <1>4 DEF process_request, sem_process_request, Result
  <2> DEFINE d == [dl EXCEPT !.rd_cnt = @ - 1]
  <2>2. /\ d.rd_epoch = dl.rd_epoch /\ d.wr_epoch = dl.wr_epoch /\ d.wr_cnt = dl.wr_cnt
        /\ d.rd_notify_cnt = dl.rd_notify_cnt
    BY ZenonT(40) DEF LockRecords
  <2> HIDE DEF d
  <2>3. Reading(dl, R, W, g)
    BY ZenonT(40), <2>1, RoundOf
  <2>4. p \in ReadMasters /\ p \notin WriteMasters
    BY ZenonT(40), <1>2, <1>4
  <2>5. Served(d, h) = Served(dl, g) \cup {p} /\ p \notin Served(dl, g)
    <3>1. g[p] = dl.rd_epoch /\ h[p] = dl.rd_epoch + 1 /\ dl.rd_epoch # dl.rd_epoch + 1
      BY SMTT(40), <1>1, <1>3, <2>1
    <3>2. p \in Served(d, h) /\ p \notin Served(dl, g)
      BY ZenonT(40), <2>2, <2>4, <3>1 DEF Served
    <3>3. \A q : q # p => (q \in Served(d, h) <=> q \in Served(dl, g))
      BY ZenonT(40), <1>1, <1>2, <2>2 DEF Served
    <3> QED
      BY ZenonT(40), <3>2, <3>3
  <2>6. Cardinality(Served(d, h)) = Cardinality(R \cup {p}) + d.rd_notify_cnt
    <3>1. IsFiniteSet(Served(dl, g))
      <4>1. Served(dl, g) \in SUBSET ReadMasters
        BY ZenonT(40) DEF Served
      <4> QED
        BY ZenonT(40), <1>2, <4>1 DEF FiniteSetFacts
    <3>2. /\ Cardinality(Served(dl, g)) \in Nat
          /\ Cardinality(Served(dl, g) \cup {p}) = Cardinality(Served(dl, g)) + 1
      BY ZenonT(40), <2>5, <3>1 DEF FiniteSetFacts
    <3>3. Cardinality(R) \in Nat /\ Cardinality(R \cup {p}) = Cardinality(R) + 1
      BY ZenonT(40), Holders
    <3>4. Cardinality(Served(dl, g)) = Cardinality(R) + dl.rd_notify_cnt
      BY ZenonT(40), <2>3 DEF Reading
    <3> QED
      BY SMTT(40), <1>3, <2>2, <2>5, <3>2, <3>3, <3>4
  <2>7. /\ W = {} /\ d.wr_cnt = 0 /\ d.wr_epoch = d.rd_epoch + 1
        /\ R \cup {p} \subseteq Served(d, h)
    BY ZenonT(40), <2>2, <2>3, <2>5 DEF Reading
  <2>8. \A w \in WriteMasters : h[w] = d.wr_epoch
    BY ZenonT(40), <1>1, <1>2, <2>2, <2>3, <2>4 DEF Reading
  <2>9. \A s \in ReadMasters : h[s] \in {d.rd_epoch, d.rd_epoch + 1}
    BY ZenonT(40), <1>1, <1>2, <2>1, <2>2, <2>3 DEF Reading
  <2>10. InRound(d, R \cup {p}, W, h)
    BY ZenonT(40), <2>6, <2>7, <2>8, <2>9 DEF InRound, Reading
  <2> QED
    BY ZenonT(40), <1>4, <2>1, <2>10 DEF h, d
<1>5. CASE m.mode = "write"
  <2>1. /\ dl.wr_cnt > 0 /\ m.num = dl.wr_epoch
        /\ process_request(dl, m, b).lock = [dl EXCEPT !.wr_cnt = @ - 1]
    BY ZenonT(40), <1>0, <1>5 DEF process_request, sem_process_request, Result
  <2> DEFINE d == [dl EXCEPT !.wr_cnt = @ - 1]
  <2>2. /\ d.rd_epoch = dl.rd_epoch /\ d.wr_epoch = dl.wr_epoch /\ d.rd_cnt = dl.rd_cnt
        /\ d.rd_notify_cnt = dl.rd_notify_cnt
    BY ZenonT(40) DEF LockRecords
  <2> HIDE DEF d
  <2>3. Writing(dl, R, W, g) /\ W = {}
    BY ZenonT(40), <2>1, RoundOf
  <2>4. p \in WriteMasters /\ p \notin ReadMasters
    BY ZenonT(40), <1>2, <1>5
  <2>5. \A w \in WriteMasters : h[w] = d.wr_epoch + 1
    BY ZenonT(40), <1>1, <1>2, <2>1, <2>2, <2>4 DEF AtMostOne
  <2>6. \A s \in ReadMasters : h[s] = d.rd_epoch
    BY ZenonT(40), <1>1, <1>2, <2>2, <2>3, <2>4 DEF Writing
  <2>7. /\ R = {} /\ d.rd_cnt = 0 /\ d.rd_notify_cnt = 0 /\ d.wr_epoch = d.rd_epoch
        /\ W \cup {p} # {}
    BY ZenonT(40), <2>2, <2>3 DEF Writing
  <2>8. InRound(d, R, W \cup {p}, h)
    BY ZenonT(40), <2>5, <2>6, <2>7 DEF InRound, Writing
  <2> QED
    BY ZenonT(40), <1>5, <2>1, <2>8 DEF h, d
<1> QED
  <2>1. m.mode \in {"read", "write"}
    BY ZenonT(40) DEF Requests, Modes
  <2> QED
    BY ZenonT(40), <1>4, <1>5, <2>1

(* A release keeps the round, or ends it.                                    *)
LEMMA ReleaseInRound ==
    ASSUME FiniteSetFacts,
           OneWriter, NEW dl \in LockRecords, NEW R \in SUBSET Procs, NEW W \in SUBSET Procs,
           NEW g \in [Procs -> Nat], Accounted(dl, R, W), InRound(dl, R, W, g),
           NEW m \in Requests, NEW b \in BOOLEAN, NEW p \in Procs, m.kind = "release"
    PROVE  LET r == process_request(dl, m, b)
           IN /\ m.mode = "read" /\ p \in R => InRound(r.lock, R \ {p}, W, g)
              /\ m.mode = "write" /\ p \in W => InRound(r.lock, R, W \ {p}, g)
<1>0. LockType = "custom" /\ MaxReaders \in Nat \ {0}
  BY ZenonT(40), ConfAssumption DEF OneWriter
<1>1. \A q \in Procs : g[q] \in Nat
  BY ZenonT(40)
<1>2. /\ ReadMasters \subseteq Procs /\ WriteMasters \subseteq Procs
      /\ IsFiniteSet(ReadMasters) /\ Cardinality(ReadMasters) <= MaxReaders
  BY ZenonT(40), MastersCount
<1>3. /\ dl.rd_cnt \in Int /\ dl.wr_cnt \in Int /\ dl.rd_notify_cnt \in Nat
      /\ dl.rd_epoch \in Nat /\ dl.wr_epoch \in Nat /\ Cardinality(ReadMasters) \in Nat
  <2>1. Cardinality(ReadMasters) \in Nat
    BY ZenonT(40), <1>2 DEF FiniteSetFacts
  <2> QED
    BY ZenonT(40), <2>1 DEF LockRecords
<1>4. ASSUME m.mode = "read", p \in R
      PROVE  InRound(process_request(dl, m, b).lock, R \ {p}, W, g)
  <2>1. /\ Reading(dl, R, W, g) /\ dl.rd_cnt >= 0
        /\ dl.rd_cnt + Cardinality(R) + dl.rd_notify_cnt = MaxReaders
    BY ZenonT(40), <1>4, RoundOf
  <2>2. /\ Cardinality(R) \in Nat /\ Cardinality(R \ {p}) = Cardinality(R) - 1
        /\ Cardinality(R \ {p}) = 0 <=> R \ {p} = {}
    <3>1. R \ {p} \in SUBSET Procs
      BY ZenonT(40)
    <3> QED
      BY ZenonT(40), <1>4, <3>1, Holders
  <2>3. CASE dl.rd_notify_cnt + 1 = MaxReaders
    <3> DEFINE d == [dl EXCEPT !.rd_notify_cnt = 0, !.wr_cnt = WrMax, !.rd_epoch = @ + 1]
    <3>1. process_request(dl, m, b) = Result(d, "notify")
      BY ZenonT(40), <1>0, <1>4, <2>3 DEF process_request, sem_process_request
    <3>3. /\ d.rd_cnt = dl.rd_cnt /\ d.rd_notify_cnt = 0
      BY ZenonT(40) DEF LockRecords
    <3>4. d.wr_epoch = dl.wr_epoch
      BY ZenonT(40) DEF LockRecords
    <3>5. d.rd_epoch = dl.rd_epoch + 1
      BY ZenonT(40) DEF LockRecords
    <3> HIDE DEF d
    <3>2. process_request(dl, m, b).lock = d
      BY SMTT(40), <3>1 DEF Result
    <3>6. dl.rd_cnt = 0 /\ Cardinality(R) = 1 /\ R \ {p} = {}
      <4>1. R # {}
        BY ZenonT(40), <1>4
      <4>2. Cardinality(R) # 0
        BY ZenonT(40), <4>1, Holders
      <4> QED
        BY SMTT(40), <1>0, <1>3, <2>1, <2>2, <2>3, <4>2
    <3>7. Served(dl, g) = ReadMasters
      <4>1. Served(dl, g) \in SUBSET ReadMasters
        BY ZenonT(40) DEF Served
      <4>2. Cardinality(Served(dl, g)) = MaxReaders
        BY SMTT(40), <1>0, <1>3, <2>1, <2>3, <3>6 DEF Reading
      <4>3. /\ Cardinality(Served(dl, g)) <= Cardinality(ReadMasters)
            /\ Cardinality(ReadMasters) = Cardinality(Served(dl, g))
                  => ReadMasters = Served(dl, g)
        BY ZenonT(40), <1>2, <4>1 DEF FiniteSetFacts
      <4> QED
        BY SMTT(40), <1>0, <1>2, <1>3, <4>2, <4>3
    <3>8. \A s \in ReadMasters : g[s] = d.rd_epoch
      BY ZenonT(40), <3>5, <3>7 DEF Served
    <3>9. \A w \in WriteMasters : g[w] = d.wr_epoch + 0
      BY SMTT(40), <1>3, <2>1, <3>4 DEF Reading
    <3>10. /\ W = {} /\ d.wr_epoch = d.rd_epoch
      BY ZenonT(40), <2>1, <3>4, <3>5 DEF Reading
    <3>11. InRound(d, R \ {p}, W, g)
      BY ZenonT(40), <3>3, <3>6, <3>8, <3>9, <3>10 DEF InRound, Writing
    <3> QED
      BY ZenonT(40), <3>2, <3>11
  <2>4. CASE dl.rd_notify_cnt + 1 # MaxReaders
    <3> DEFINE d == [dl EXCEPT !.rd_notify_cnt = @ + 1]
    <3>1. process_request(dl, m, b).lock = d
      BY ZenonT(40), <1>0, <1>4, <2>4 DEF process_request, sem_process_request, Result
    <3>2. /\ d.rd_epoch = dl.rd_epoch /\ d.wr_epoch = dl.wr_epoch /\ d.wr_cnt = dl.wr_cnt
          /\ d.rd_notify_cnt = dl.rd_notify_cnt + 1
      BY ZenonT(40) DEF LockRecords
    <3> HIDE DEF d
    <3>3. Served(d, g) = Served(dl, g)
      BY ZenonT(40), <3>2 DEF Served
    <3>4. Cardinality(Served(d, g)) = Cardinality(R \ {p}) + d.rd_notify_cnt
      BY SMTT(40), <1>3, <2>1, <2>2, <3>2, <3>3 DEF Reading
    <3>5. InRound(d, R \ {p}, W, g)
      BY ZenonT(40), <2>1, <3>2, <3>3, <3>4 DEF InRound, Reading
    <3> QED
      BY ZenonT(40), <3>1, <3>5
  <2> QED
    BY ZenonT(40), <2>3, <2>4
<1>5. ASSUME m.mode = "write", p \in W
      PROVE  InRound(process_request(dl, m, b).lock, R, W \ {p}, g)
  <2>1. Writing(dl, R, W, g) /\ dl.wr_notify_cnt = 0 /\ W \ {p} = {} /\ W # {}
    <3>1. Writing(dl, R, W, g) /\ dl.wr_notify_cnt = 0 /\ AtMostOne(W)
      BY ZenonT(40), <1>5, RoundOf
    <3> QED
      BY ZenonT(40), <1>5, <3>1 DEF AtMostOne
  <2> DEFINE d == [dl EXCEPT !.wr_notify_cnt = 0, !.rd_cnt = MaxReaders, !.wr_epoch = @ + 1]
  <2>2. process_request(dl, m, b) = Result(d, "notify")
    BY SMTT(40), <1>0, <1>5, <2>1 DEF process_request, sem_process_request, WrMax
  <2>4. d.rd_epoch = dl.rd_epoch /\ d.wr_cnt = dl.wr_cnt
    BY ZenonT(40) DEF LockRecords
  <2>5. d.rd_notify_cnt = dl.rd_notify_cnt
    BY ZenonT(40) DEF LockRecords
  <2>6. d.wr_epoch = dl.wr_epoch + 1
    BY ZenonT(40) DEF LockRecords
  <2> HIDE DEF d
  <2>3. process_request(dl, m, b).lock = d
    BY SMTT(40), <2>2 DEF Result
  <2>7. dl.wr_cnt = 0
    BY ZenonT(40), <1>0, <1>3, <2>1 DEF Accounted, SemAccounting, Writing
  <2>8. Served(d, g) = {}
    BY SMTT(40), <1>1, <1>2, <1>3, <2>1, <2>4 DEF Served, Writing
  <2>9. \A w \in WriteMasters : g[w] = d.wr_epoch
    BY ZenonT(40), <2>1, <2>6 DEF Writing
  <2>10. \A s \in ReadMasters : g[s] \in {d.rd_epoch, d.rd_epoch + 1}
    BY ZenonT(40), <2>1, <2>4 DEF Writing
  <2>11. R = {} /\ d.wr_cnt = 0 /\ d.wr_epoch = d.rd_epoch + 1 /\ d.rd_notify_cnt = 0
    BY ZenonT(40), <2>1, <2>4, <2>5, <2>6, <2>7 DEF Writing
  <2>12. Cardinality(Served(d, g)) = Cardinality(R) + d.rd_notify_cnt
    <3>1. Cardinality({}) = 0
      BY ZenonT(40) DEF FiniteSetFacts
    <3> QED
      BY SMTT(40), <2>8, <2>11, <3>1
  <2>13. InRound(d, R, W \ {p}, g)
    BY ZenonT(40), <2>1, <2>8, <2>9, <2>10, <2>11, <2>12 DEF InRound, Reading
  <2> QED
    BY ZenonT(40), <2>3, <2>13
<1> QED
  BY ZenonT(40), <1>4, <1>5

(* The arrival of a grant moves it from the connection to lock_num; nothing  *)
(* else that a client does changes what it has been granted.                 *)
LEMMA ClientGranted ==
    ASSUME IInv, Numbers, NEW p \in Procs,
           \/ \E c \in Calls : LockCall(p, c)
           \/ GrantArrives(p) \/ AckSeen(p) \/ UnlockCall(p) \/ SendRelease(p),
           NEW q \in Procs, NEW n \in Names
    PROVE  Granted(q, n)' = Granted(q, n) /\ UNCHANGED serverVars
<1>0. /\ op \in [Procs -> Calls] /\ lock_num \in [Procs -> [Names -> Nat]]
      /\ grant \in [Procs -> Seq(Grants)]
  BY ZenonT(40) DEF IInv, TypeOK
<1>1. ASSUME NEW c \in Calls, LockCall(p, c)
      PROVE  Granted(q, n)' = Granted(q, n) /\ UNCHANGED serverVars
  <2>1. /\ UNCHANGED <<lock_num, grant, serverVars>> /\ pc[p] = "idle"
        /\ op' = [op EXCEPT ![p] = c]
    BY ZenonT(40), <1>1 DEF LockCall
  <2>2. grant[p] = <<>>
    BY ZenonT(40), <2>1, IdleFacts
  <2>3. q # p => op'[q] = op[q]
    BY ZenonT(40), <1>0, <2>1
  <2> QED
    BY ZenonT(40), <2>1, <2>2, <2>3 DEF Granted
<1>2. CASE AckSeen(p) \/ UnlockCall(p) \/ SendRelease(p)
  BY ZenonT(40), <1>2 DEF AckSeen, UnlockCall, SendRelease, Granted
<1>3. CASE GrantArrives(p)
  <2> DEFINE g == Head(grant[p])
  <2>1. /\ Len(grant[p]) = 1 /\ grant[p] # <<>> /\ grant[p][1].name = op[p].name
        /\ grant[p] \in Seq(Grants)
    BY ZenonT(40), <1>0, <1>3 DEF GrantArrives, IInv, GrantOrder
  <2>2. /\ g = grant[p][1] /\ 1 \in DOMAIN grant[p] /\ g \in Grants
    BY SMTT(40), <2>1
  <2>3. /\ lock_num' = [lock_num EXCEPT ![p][g.name] = g.num] /\ op' = op
        /\ grant' = [grant EXCEPT ![p] = Tail(@)] /\ UNCHANGED serverVars
    BY ZenonT(40), <1>3 DEF GrantArrives
  <2>4. Tail(grant[p]) = <<>>
    <3>1. Tail(grant[p]) \in Seq(Grants) /\ Len(Tail(grant[p])) = 0
      BY SMTT(40), <2>1, ListHeadTail, EmptyList
    <3> QED
      BY ZenonT(40), <3>1, EmptyList
  <2> HIDE DEF g
  <2>5. g.num = lock_num[p][g.name] + 1 /\ g.name = op[p].name /\ g.name \in Names
    <3>1. g.num = lock_num[p][g.name] + 1
      BY ZenonT(40), <2>2 DEF Numbers, PNumbers
    <3>2. g.name \in Names
      BY ZenonT(40), <2>2 DEF Grants
    <3> QED
      BY ZenonT(40), <2>1, <2>2, <3>1, <3>2
  <2>6. CASE q # p
    <3>1. lock_num'[q] = lock_num[q] /\ grant'[q] = grant[q]
      BY ZenonT(40), <1>0, <2>3, <2>6
    <3> QED
      BY ZenonT(40), <2>3, <3>1 DEF Granted
  <2>7. CASE q = p /\ n = g.name
    <3>1. lock_num'[p][n] = lock_num[p][n] + 1 /\ grant'[p] = <<>>
      BY ZenonT(40), <1>0, <2>3, <2>4, <2>5, <2>7
    <3>2. Granted(p, n)' = lock_num[p][n] + 1 + 0
      BY ZenonT(40), <3>1 DEF Granted
    <3>3. Granted(p, n) = lock_num[p][n] + 1
      BY ZenonT(40), <2>1, <2>5, <2>7 DEF Granted
    <3> QED
      BY SMTT(40), <1>0, <2>3, <2>7, <3>2, <3>3
  <2>8. CASE q = p /\ n # g.name
    <3>1. lock_num'[p][n] = lock_num[p][n] /\ op'[p].name # n /\ op[p].name # n
      BY ZenonT(40), <1>0, <2>3, <2>5, <2>8
    <3> QED
      BY ZenonT(40), <2>3, <2>8, <3>1 DEF Granted
  <2> QED
    BY ZenonT(40), <2>6, <2>7, <2>8
<1> QED
  BY ZenonT(40), <1>1, <1>2, <1>3

(* A lock that the step does not concern stays in its round.                 *)
LEMMA RoundKept ==
    ASSUME NEW n \in Names, Round(n), lock'[n] = lock[n], rd_holders'[n] = rd_holders[n],
           wr_holders'[n] = wr_holders[n], \A p \in Procs : Granted(p, n)' = Granted(p, n)
    PROVE  Round(n)'
<1>1. [p \in Procs |-> Granted(p, n)'] = [p \in Procs |-> Granted(p, n)]
  BY ZenonT(40)
<1>2. InRound(lock'[n], rd_holders'[n], wr_holders'[n], [p \in Procs |-> Granted(p, n)'])
  BY ZenonT(40), <1>1 DEF Round
<1> QED
  BY ZenonT(40), <1>2 DEF Round, InRound, Writing, Reading, Served

(* The step of a grant keeps the rounds.                                     *)
LEMMA GrantRound ==
    ASSUME FiniteSetFacts, OneWriter, IInv, RoundInv, UNCHANGED clientVars,
           NEW p \in Procs, NEW n \in Names, NEW m \in Requests, NEW b \in BOOLEAN,
           m.kind = "get", IsMaster(p), grant[p] = <<>>, op[p].name = n,
           m.num = lock_num[p][n], AppOf[p] \in AppsFor(m.mode), p \notin rd_holders[n],
           process_request(lock[n], m, b).action = "grant",
           lock' = [lock EXCEPT ![n] = process_request(lock[n], m, b).lock],
           dsg_lock_grant(n, p, m.num, m.mode)
    PROVE  RoundInv'
<1>1. /\ lock \in [Names -> LockRecords] /\ rd_holders \in [Names -> SUBSET Procs]
      /\ wr_holders \in [Names -> SUBSET Procs]
      /\ Accounted(lock[n], rd_holders[n], wr_holders[n]) /\ Round(n)
      /\ m.mode \in {"read", "write"}
  BY ZenonT(40) DEF IInv, TypeOK, Accounting, RoundInv, Requests, Modes
<1>2. ASSUME NEW q \in Procs
      PROVE  /\ Granted(p, n) = lock_num[p][n] /\ Granted(p, n)' = Granted(p, n) + 1
             /\ q # p => Granted(q, n)' = Granted(q, n)
             /\ \A k \in Names : k # n => Granted(q, k)' = Granted(q, k)
  <2>1. /\ grant \in [Procs -> Seq(Grants)] /\ lock_num[p][n] \in Nat
        /\ lock_num' = lock_num /\ op' = op
        /\ grant' = [grant EXCEPT ![p] = Append(@, [name |-> n, num |-> m.num + 1])]
    BY SMTT(40) DEF IInv, TypeOK, clientVars, dsg_lock_grant
  <2>2. grant'[p] # <<>> /\ (q # p => grant'[q] = grant[q])
    BY SMTT(40), <2>1
  <2>3. Granted(p, n) = lock_num[p][n] + 0 /\ Granted(p, n)' = lock_num[p][n] + 1
    BY ZenonT(40), <2>1, <2>2 DEF Granted
  <2>4. q # p => \A k \in Names : Granted(q, k)' = Granted(q, k)
    BY ZenonT(40), <2>1, <2>2 DEF Granted
  <2>5. \A k \in Names : k # n => Granted(p, k)' = Granted(p, k)
    BY ZenonT(40), <2>1 DEF Granted
  <2>6. Granted(p, n) = lock_num[p][n] /\ Granted(p, n)' = Granted(p, n) + 1
    BY SMTT(40), <2>1, <2>3
  <2> QED
    BY ZenonT(40), <2>4, <2>5, <2>6
<1>3. /\ rd_holders'[n] = IF m.mode = "read" THEN rd_holders[n] \cup {p} ELSE rd_holders[n]
      /\ wr_holders'[n] = IF m.mode = "write" THEN wr_holders[n] \cup {p} ELSE wr_holders[n]
      /\ lock'[n] = process_request(lock[n], m, b).lock
  BY ZenonT(40), <1>1 DEF dsg_lock_grant
<1>4. ASSUME NEW k \in Names, k # n PROVE Round(k)'
  <2>1. /\ lock'[k] = lock[k] /\ rd_holders'[k] = rd_holders[k]
        /\ wr_holders'[k] = wr_holders[k]
    BY ZenonT(40), <1>1, <1>4 DEF dsg_lock_grant
  <2>2. \A q \in Procs : Granted(q, k)' = Granted(q, k)
    BY ZenonT(40), <1>2, <1>4
  <2>3. Round(k)
    BY ZenonT(40) DEF RoundInv
  <2> QED
    BY ZenonT(40), <2>1, <2>2, <2>3, RoundKept
<1>5. Round(n)'
  <2> DEFINE g == [q \in Procs |-> Granted(q, n)]
             h == [q \in Procs |-> Granted(q, n)']
  <2>1. g \in [Procs -> Nat] /\ m.num = g[p]
    <3>1. \A q \in Procs : Granted(q, n) \in Nat
      BY SMTT(40) DEF Granted, IInv, TypeOK
    <3> QED
      BY ZenonT(40), <1>2, <3>1
  <2>2. h = [g EXCEPT ![p] = @ + 1]
    <3>1. \A q \in Procs : Granted(q, n)' = IF q = p THEN g[q] + 1 ELSE g[q]
      BY ZenonT(40), <1>2
    <3>2. h = [q \in Procs |-> IF q = p THEN g[q] + 1 ELSE g[q]]
      BY ZenonT(40), <3>1
    <3> HIDE DEF g, h
    <3>3. DOMAIN g = Procs
      BY ZenonT(40), <2>1
    <3> QED
      BY ZenonT(40), <3>2, <3>3
  <2>3. InRound(lock[n], rd_holders[n], wr_holders[n], g)
    BY ZenonT(40), <1>1 DEF Round
  <2> HIDE DEF g, h
  <2>4. ASSUME NEW dl \in LockRecords, NEW R \in SUBSET Procs, NEW W \in SUBSET Procs,
               Accounted(dl, R, W), InRound(dl, R, W, g), p \notin R,
               process_request(dl, m, b).action = "grant"
        PROVE  /\ m.mode = "read" =>
                     InRound(process_request(dl, m, b).lock, R \cup {p}, W,
                             [g EXCEPT ![p] = @ + 1])
               /\ m.mode = "write" =>
                     InRound(process_request(dl, m, b).lock, R, W \cup {p},
                             [g EXCEPT ![p] = @ + 1])
    BY ZenonT(40), <2>1, <2>4, GrantInRound
  <2>5. /\ m.mode = "read" => InRound(lock'[n], rd_holders[n] \cup {p}, wr_holders[n], h)
        /\ m.mode = "write" => InRound(lock'[n], rd_holders[n], wr_holders[n] \cup {p}, h)
    BY ZenonT(40), <1>1, <1>3, <2>2, <2>3, <2>4
  <2>6. InRound(lock'[n], rd_holders'[n], wr_holders'[n], h)
    BY ZenonT(40), <1>1, <1>3, <2>5
  <2> QED
    BY ZenonT(40), <2>6 DEF Round, InRound, Writing, Reading, Served, h
<1> QED
  BY ZenonT(40), <1>4, <1>5 DEF RoundInv

(* The step that receives a request.                                        *)
LEMMA ReceiveRound ==
    ASSUME FiniteSetFacts,
           OneWriter, IInv, IInv', Numbers, RoundInv, NEW p \in Procs, Receive(p)
    PROVE  RoundInv'
<1> DEFINE m == Head(req[p])
<1>0. TypeOK'
  BY ZenonT(40) DEF IInv
<1>1. m \in Requests /\ m = req[p][1] /\ req[p] # <<>> /\ IsMaster(p)
  BY ZenonT(40), <1>0, ReceivedRequest
<1>2. PICK n \in Names : n = m.name
  BY ZenonT(40), <1>1 DEF Requests
<1> DEFINE b == wait_list[n] = <<>>
           r == process_request(lock[n], m, b)
<1>3. /\ b \in BOOLEAN /\ m.kind \in {"get", "release"} /\ m.mode \in {"read", "write"}
      /\ 1 \in DOMAIN req[p]
  <2>1. req[p] \in Seq(Requests)
    BY ZenonT(40) DEF IInv, TypeOK
  <2> QED
    BY SMTT(40), <1>1, <2>1 DEF Requests, Modes
<1>4. /\ UNCHANGED clientVars /\ lock' = [lock EXCEPT ![n] = r.lock]
      /\ \/ r.action = "grant" /\ dsg_lock_grant(n, p, m.num, m.mode)
         \/ r.action = "wait" /\ UNCHANGED <<grant, rd_holders, wr_holders>>
         \/ /\ r.action \in {"notify", "none"} /\ UNCHANGED grant
            /\ rd_holders' = IF m.mode = "read"
                             THEN [rd_holders EXCEPT ![n] = @ \ {p}] ELSE rd_holders
            /\ wr_holders' = IF m.mode = "write"
                             THEN [wr_holders EXCEPT ![n] = @ \ {p}] ELSE wr_holders
  BY ZenonT(60), <1>2 DEF Receive
<1>5. /\ lock \in [Names -> LockRecords] /\ lock[n] \in LockRecords
      /\ rd_holders \in [Names -> SUBSET Procs] /\ wr_holders \in [Names -> SUBSET Procs]
      /\ Accounted(lock[n], rd_holders[n], wr_holders[n])
  BY ZenonT(40) DEF IInv, TypeOK, Accounting
<1>6. /\ m.kind = "get" => r.action \in {"grant", "wait"}
      /\ m.kind = "release" => r.action \in {"notify", "none"}
  <2> HIDE DEF m, b
  <2> QED
    BY ZenonT(40), <1>1, <1>3, <1>5, ProcessRequestType
<1>7. \A k \in Names : Round(k)
  BY ZenonT(40) DEF RoundInv
<1>8. CASE r.action = "grant" /\ dsg_lock_grant(n, p, m.num, m.mode)
  <2>1. m.kind = "get"
    BY ZenonT(40), <1>3, <1>6, <1>8
  <2>2. /\ grant[p] = <<>> /\ req[p][1].name = op[p].name /\ pc[p] = "acking"
        /\ ~ack[p][op[p].name]
    <3>1. RequestsInOrder(p)
      BY ZenonT(40) DEF IInv, RequestOrder
    <3>2. req[p][1].kind = "get"
      BY ZenonT(40), <1>1, <2>1
    <3> QED
      BY ZenonT(40), <1>3, <3>1, <3>2 DEF RequestsInOrder
  <2>3. AppOf[p] \in AppsFor(req[p][1].mode) /\ req[p][1].num = lock_num[p][req[p][1].name]
    <3>1. req[p][1].kind = "get"
      BY ZenonT(40), <1>1, <2>1
    <3> QED
      BY ZenonT(40), <1>3, <3>1 DEF Numbers, PNumbers
  <2>4. p \notin rd_holders[n]
    <3>1. req[p][1].kind # "release"
      BY ZenonT(40), <1>1, <2>1
    <3>2. \A d : ~HasToken(p, d)
      <4>1. op[p].name \in Names
        BY ZenonT(40) DEF IInv, TypeOK, Calls
      <4>2. \A d : op[p] = d => op[p].name = d.name
        BY ZenonT(40)
      <4> QED
        BY ZenonT(40), <2>2, <3>1, <4>2 DEF HasToken, PastAck
    <3> QED
      BY ZenonT(40), <3>2 DEF IInv, Tokens
  <2> HIDE DEF m, b
  <2>5. op[p].name = n /\ m.num = lock_num[p][n] /\ AppOf[p] \in AppsFor(m.mode)
    BY ZenonT(40), <1>1, <1>2, <2>2, <2>3
  <2> QED
    BY ZenonT(40), <1>1, <1>3, <1>4, <1>8, <2>1, <2>2, <2>4, <2>5, GrantRound
<1>9. CASE UNCHANGED grant
  <2>1. \A q \in Procs, k \in Names : Granted(q, k)' = Granted(q, k)
    BY ZenonT(40), <1>4, <1>9 DEF Granted, clientVars
  <2>2. CASE r.action = "wait" /\ UNCHANGED <<grant, rd_holders, wr_holders>>
    <3>1. m.kind = "get"
      BY ZenonT(40), <1>3, <1>6, <2>2
    <3>2. r.lock = lock[n]
      <4> HIDE DEF m, b
      <4> QED
        BY ZenonT(40), <1>1, <1>3, <1>5, <2>2, <3>1, WaitKeepsLock
    <3> HIDE DEF r
    <3>3. \A k \in Names : lock'[k] = lock[k]
      BY ZenonT(40), <1>4, <1>5, <3>2
    <3> QED
      BY ZenonT(40), <1>7, <2>1, <2>2, <3>3, RoundKept DEF RoundInv
  <2>3. CASE /\ r.action \in {"notify", "none"}
             /\ rd_holders' = IF m.mode = "read"
                              THEN [rd_holders EXCEPT ![n] = @ \ {p}] ELSE rd_holders
             /\ wr_holders' = IF m.mode = "write"
                              THEN [wr_holders EXCEPT ![n] = @ \ {p}] ELSE wr_holders
    <3>1. m.kind = "release"
      BY ZenonT(40), <1>3, <1>6, <2>3
    <3>2. /\ m.mode = "read" => p \in rd_holders[n]
          /\ m.mode = "write" => p \in wr_holders[n]
      BY ZenonT(40), <1>0, <1>2, <3>1, ReleasedByHolder
    <3>3. /\ rd_holders'[n] = IF m.mode = "read" THEN rd_holders[n] \ {p} ELSE rd_holders[n]
          /\ wr_holders'[n] = IF m.mode = "write" THEN wr_holders[n] \ {p} ELSE wr_holders[n]
          /\ lock'[n] = r.lock
      BY ZenonT(40), <1>4, <1>5, <2>3
    <3>4. ASSUME NEW k \in Names, k # n
          PROVE  /\ lock'[k] = lock[k] /\ rd_holders'[k] = rd_holders[k]
                 /\ wr_holders'[k] = wr_holders[k]
      BY ZenonT(40), <1>4, <1>5, <2>3, <3>4
    <3>5. ASSUME NEW k \in Names, k # n PROVE Round(k)'
      BY ZenonT(40), <1>7, <2>1, <3>4, <3>5, RoundKept
    <3>6. Round(n)'
      <4> DEFINE g == [q \in Procs |-> Granted(q, n)]
                 h == [q \in Procs |-> Granted(q, n)']
      <4>1. g \in [Procs -> Nat]
        <5>1. \A q \in Procs : Granted(q, n) \in Nat
          BY SMTT(120) DEF Granted, IInv, TypeOK
        <5> QED
          BY ZenonT(40), <5>1
      <4>2. h = g
        BY ZenonT(40), <2>1
      <4>3. InRound(lock[n], rd_holders[n], wr_holders[n], g)
        BY ZenonT(40), <1>7 DEF Round
      <4> HIDE DEF g, h, m, b
      <4>4. ASSUME NEW dl \in LockRecords, NEW R \in SUBSET Procs, NEW W \in SUBSET Procs,
                   Accounted(dl, R, W), InRound(dl, R, W, g)
            PROVE  /\ m.mode = "read" /\ p \in R =>
                         InRound(process_request(dl, m, b).lock, R \ {p}, W, g)
                   /\ m.mode = "write" /\ p \in W =>
                         InRound(process_request(dl, m, b).lock, R, W \ {p}, g)
        BY ZenonT(40), <1>1, <1>3, <3>1, <4>1, <4>4, ReleaseInRound
      <4>5. rd_holders[n] \in SUBSET Procs /\ wr_holders[n] \in SUBSET Procs
        BY ZenonT(40), <1>5
      <4>6. /\ m.mode = "read" => InRound(r.lock, rd_holders[n] \ {p}, wr_holders[n], g)
            /\ m.mode = "write" => InRound(r.lock, rd_holders[n], wr_holders[n] \ {p}, g)
        BY ZenonT(40), <1>5, <3>2, <4>3, <4>4, <4>5
      <4> HIDE DEF r
      <4>7. InRound(lock'[n], rd_holders'[n], wr_holders'[n], h)
        BY ZenonT(40), <1>3, <3>3, <4>2, <4>6
      <4> QED
        BY ZenonT(40), <4>7 DEF Round, InRound, Writing, Reading, Served, h
    <3> QED
      BY ZenonT(40), <3>5, <3>6 DEF RoundInv
  <2> QED
    BY ZenonT(40), <1>4, <1>6, <1>9, <2>2, <2>3, <1>8
<1> QED
  BY ZenonT(40), <1>4, <1>8, <1>9

(* One turn of the loop over the wait list.                                 *)
LEMMA ScanRound ==
    ASSUME FiniteSetFacts,
           OneWriter, IInv, Numbers, RoundInv, NEW n \in Names, ProcessWaitList(n)
    PROVE  RoundInv'
<1> DEFINE s == scan[n]
           w == wait_list[n][s]
           m == Pend(n, w)
           r == process_request(lock[n], m, TRUE)
<1>1. /\ UNCHANGED clientVars /\ s # 0
      /\ \/ UNCHANGED <<lock, grant, rd_holders, wr_holders>>
         \/ /\ ~(s > Len(wait_list[n])) /\ lock' = [lock EXCEPT ![n] = r.lock]
            /\ \/ r.action = "grant" /\ dsg_lock_grant(n, w.proc, w.num, w.mode)
               \/ r.action = "wait" /\ UNCHANGED <<grant, rd_holders, wr_holders>>
  BY ZenonT(60) DEF ProcessWaitList, Pend
<1>2. \A k \in Names : Round(k)
  BY ZenonT(40) DEF RoundInv
<1>3. CASE UNCHANGED <<lock, grant, rd_holders, wr_holders>>
  <2>1. \A q \in Procs, k \in Names : Granted(q, k)' = Granted(q, k)
    BY ZenonT(40), <1>1, <1>3 DEF Granted, clientVars
  <2> QED
    BY ZenonT(40), <1>2, <1>3, <2>1, RoundKept DEF RoundInv
<1>4. CASE ~(s > Len(wait_list[n])) /\ lock' = [lock EXCEPT ![n] = r.lock]
  <2>1. /\ s \in DOMAIN wait_list[n] /\ w.proc \in Procs /\ w.mode \in Modes /\ w.num \in Nat
        /\ IsMaster(w.proc) /\ pc[w.proc] = "acking" /\ ~ack[w.proc][n]
        /\ op[w.proc] = [name |-> n, mode |-> w.mode]
        /\ req[w.proc] = <<>> /\ grant[w.proc] = <<>>
    BY ZenonT(40), <1>1, <1>4, ScannedRequest
  <2>2. /\ m \in Requests /\ m.kind = "get" /\ m.mode = w.mode /\ m.num = w.num
    BY ZenonT(40), <2>1 DEF Pend, Requests
  <2>3. lock \in [Names -> LockRecords] /\ lock[n] \in LockRecords
    BY ZenonT(40) DEF IInv, TypeOK
  <2>4. CASE r.action = "wait" /\ UNCHANGED <<grant, rd_holders, wr_holders>>
    <3>1. r.lock = lock[n]
      <4> HIDE DEF m
      <4> QED
        BY ZenonT(40), <2>2, <2>3, <2>4, WaitKeepsLock
    <3> HIDE DEF r
    <3>2. lock' = lock
      BY ZenonT(40), <1>4, <2>3, <3>1
    <3> QED
      BY ZenonT(40), <1>3, <2>4, <3>2
  <2>5. CASE r.action = "grant" /\ dsg_lock_grant(n, w.proc, w.num, w.mode)
    <3>1. PICK p \in Procs : p = w.proc
      BY ZenonT(40), <2>1
    <3>2. m.num = lock_num[p][n]
      BY ZenonT(40), <2>1, <2>2, <3>1 DEF Numbers, WaitNumbers
    <3>3. op[p].name = n /\ op[p].mode = w.mode /\ pc[p] # "idle" /\ pc[p] \notin PastAck
      <4> HIDE DEF w, m, r, s
      <4> QED
        BY SMTT(40), <2>1, <3>1 DEF PastAck
    <3>4. AppOf[p] \in AppsFor(m.mode)
      BY ZenonT(40), <2>2, <3>3 DEF Numbers, PNumbers
    <3>5. p \notin rd_holders[n]
      <4>1. ~HasToken(p, [name |-> n, mode |-> "read"])
        <5>1. [name |-> n, mode |-> "read"].name = n
          BY ZenonT(40)
        <5> QED
          BY ZenonT(40), <2>1, <3>1, <3>3, <5>1 DEF HasToken
      <4> QED
        BY ZenonT(40), <4>1 DEF IInv, Tokens
    <3>6. dsg_lock_grant(n, p, m.num, m.mode)
      BY ZenonT(40), <2>2, <2>5, <3>1
    <3>7. IsMaster(p) /\ grant[p] = <<>> /\ TRUE \in BOOLEAN
      BY ZenonT(40), <2>1, <3>1
    <3> HIDE DEF m
    <3> QED
      BY ZenonT(40), <1>1, <1>4, <2>2, <2>5, <3>2, <3>3, <3>4, <3>5, <3>6, <3>7, GrantRound
  <2> QED
    BY ZenonT(40), <1>1, <1>3, <2>4, <2>5
<1> QED
  BY ZenonT(40), <1>1, <1>3, <1>4

(* At the start it is the turn of the writer.                                *)
LEMMA RoundInit ==
    ASSUME FiniteSetFacts, OneWriter
    PROVE  Init => RoundInv
<1> SUFFICES ASSUME Init, NEW n \in Names PROVE Round(n)
  BY ZenonT(40) DEF RoundInv
<1> DEFINE g == [p \in Procs |-> Granted(p, n)]
<1>1. \A p \in Procs : lock_num[p][n] = 0 /\ grant[p] = <<>>
  BY ZenonT(40) DEF Init
<1>2. \A p \in Procs : Granted(p, n) = 0 + 0
  BY ZenonT(40), <1>1 DEF Granted
<1>3. \A p \in Procs : g[p] = 0
  BY SMTT(40), <1>2
<1>4. ReadMasters \subseteq Procs /\ WriteMasters \subseteq Procs
  BY ZenonT(40), MastersCount
<1>5. lock[n] = NewLock /\ rd_holders[n] = {} /\ wr_holders[n] = {}
  BY ZenonT(40) DEF Init
<1>6. /\ lock[n].rd_cnt = 0 /\ lock[n].rd_notify_cnt = 0
      /\ lock[n].rd_epoch = 0 /\ lock[n].wr_epoch = 0
  BY SMTT(40), <1>5 DEF NewLock
<1> HIDE DEF g
<1>7. Writing(lock[n], rd_holders[n], wr_holders[n], g)
  BY SMTT(40), <1>3, <1>4, <1>5, <1>6 DEF Writing
<1> QED
  BY ZenonT(40), <1>7 DEF Round, InRound, g

(* Every step keeps the rounds.                                              *)
LEMMA RoundStep ==
    ASSUME FiniteSetFacts, OneWriter
    PROVE  IInv /\ IInv' /\ Numbers /\ RoundInv /\ [Next]_vars => RoundInv'
<1> SUFFICES ASSUME IInv, IInv', Numbers, RoundInv, [Next]_vars PROVE RoundInv'
  BY ZenonT(40)
<1>1. ASSUME UNCHANGED serverVars,
             \A q \in Procs, n \in Names : Granted(q, n)' = Granted(q, n)
      PROVE  RoundInv'
  BY ZenonT(40), <1>1, RoundKept DEF RoundInv, serverVars
<1>2. CASE UNCHANGED vars
  BY ZenonT(40), <1>1, <1>2 DEF vars, clientVars, serverVars, Granted
<1>3. ASSUME NEW a \in Apps, LockBarrier(a) \/ UnlockBarrier(a) PROVE RoundInv'
  BY ZenonT(40), <1>1, <1>3 DEF LockBarrier, UnlockBarrier, Granted
<1>4. ASSUME NEW p \in Procs,
             \/ \E c \in Calls : LockCall(p, c)
             \/ GrantArrives(p) \/ AckSeen(p) \/ UnlockCall(p) \/ SendRelease(p)
      PROVE  RoundInv'
  <2>1. UNCHANGED serverVars
    BY ZenonT(40), <1>4 DEF LockCall, GrantArrives, AckSeen, UnlockCall, SendRelease
  <2>2. \A q \in Procs, n \in Names : Granted(q, n)' = Granted(q, n)
    BY ZenonT(40), <1>4, ClientGranted
  <2> QED
    BY ZenonT(40), <1>1, <2>1, <2>2
<1> QED
  BY ZenonT(40), <1>2, <1>3, <1>4, ReceiveRound, ScanRound DEF Next

(* A grant of n to the master of a writing (reading) application is in the   *)
(* holders, so lock_num lags behind only for those.                          *)
LEMMA GrantedIsNum ==
    ASSUME FiniteSetFacts, OneWriter, IInv, Numbers, NEW n \in Names
    PROVE  /\ wr_holders[n] = {} => \A w \in WriteMasters : Granted(w, n) = lock_num[w][n]
           /\ rd_holders[n] = {} => \A s \in ReadMasters : Granted(s, n) = lock_num[s][n]
           /\ \A p \in Procs : pc[p] = "held" => Granted(p, n) = lock_num[p][n]
<1>0. /\ ReadMasters \subseteq Procs /\ WriteMasters \subseteq Procs
      /\ ReadMasters \cap WriteMasters = {}
      /\ \A p \in Procs : IsMaster(p) =>
            /\ AppOf[p] \in AppsFor("read") <=> p \in ReadMasters
            /\ AppOf[p] \in AppsFor("write") <=> p \in WriteMasters
  BY ZenonT(40), MastersCount
<1>1. ASSUME NEW p \in Procs, ~(grant[p] # <<>> /\ op[p].name = n)
      PROVE  Granted(p, n) = lock_num[p][n]
  <2>1. Granted(p, n) = lock_num[p][n] + 0
    BY ZenonT(40), <1>1 DEF Granted
  <2> QED
    BY SMTT(40), <2>1 DEF IInv, TypeOK
<1>2. ASSUME NEW p \in Procs, grant[p] # <<>>, op[p].name = n
      PROVE  /\ p \in ReadMasters => p \in rd_holders[n]
             /\ p \in WriteMasters => p \in wr_holders[n]
  <2>1. IsMaster(p) /\ pc[p] # "idle"
    BY ZenonT(40), <1>2 DEF IInv, MastersOnly, GrantOrder
  <2>2. AppOf[p] \in AppsFor(op[p].mode)
    BY ZenonT(40), <2>1 DEF Numbers, PNumbers
  <2>3. op[p] = [name |-> n, mode |-> op[p].mode] /\ op[p].mode \in {"read", "write"}
    <3>1. op[p] \in Calls
      BY ZenonT(40) DEF IInv, TypeOK
    <3> QED
      BY ZenonT(40), <1>2, <3>1 DEF Calls, Modes
  <2>4. HasToken(p, [name |-> n, mode |-> op[p].mode])
    BY ZenonT(40), <1>2, <2>3 DEF HasToken
  <2>5. /\ op[p].mode = "read" => p \in rd_holders[n]
        /\ op[p].mode = "write" => p \in wr_holders[n]
    BY ZenonT(40), <2>1, <2>4 DEF IInv, Tokens
  <2> QED
    BY ZenonT(40), <1>0, <2>1, <2>2, <2>3, <2>5
<1>3. ASSUME NEW p \in Procs, pc[p] = "held" PROVE Granted(p, n) = lock_num[p][n]
  <2>1. grant[p] = <<>>
    BY ZenonT(40), <1>3 DEF IInv, GrantOrder
  <2> QED
    BY ZenonT(40), <1>1, <2>1
<1> QED
  BY ZenonT(40), <1>0, <1>1, <1>2, <1>3

(* The numbers of those who hold the lock are those of the round.           *)
LEMMA RoundsReadWritten ==
    ASSUME FiniteSetFacts, OneWriter
    PROVE  IInv /\ Numbers /\ RoundInv => RoundsInStep
<1> SUFFICES ASSUME IInv, Numbers, RoundInv, NEW v \in WriteApps, NEW a \in ReadApps,
                    NEW n \in Names
             PROVE  /\ Holds(Master[a], n, "read") =>
                          lock_num[Master[a]][n] = lock_num[Master[v]][n]
                    /\ Holds(Master[v], n, "write") =>
                          lock_num[Master[v]][n] = lock_num[Master[a]][n] + 1
  BY ZenonT(40) DEF RoundsInStep
<1> DEFINE w == Master[v]
           s == Master[a]
           g == [p \in Procs |-> Granted(p, n)]
           dl == lock[n]
           R == rd_holders[n]
           W == wr_holders[n]
<1>1. /\ w \in WriteMasters /\ s \in ReadMasters /\ w \in Procs /\ s \in Procs
      /\ Master[AppOf[w]] = w /\ Master[AppOf[s]] = s
  <2>1. ReadMasters \subseteq Procs /\ WriteMasters \subseteq Procs
    BY ZenonT(40), MastersCount
  <2>2. w \in WriteMasters /\ s \in ReadMasters
    BY ZenonT(40) DEF ReadMasters, WriteMasters
  <2>3. AppOf[w] = v /\ AppOf[s] = a
    BY ZenonT(40), TopologyAssumption DEF OneWriter
  <2> QED
    BY ZenonT(40), <2>1, <2>2, <2>3
<1>2. /\ g[w] = Granted(w, n) /\ g[s] = Granted(s, n)
      /\ dl \in LockRecords /\ R \in SUBSET Procs /\ W \in SUBSET Procs
      /\ Accounted(dl, R, W) /\ InRound(dl, R, W, g) /\ g \in [Procs -> Nat]
  <2>1. \A p \in Procs : Granted(p, n) \in Nat
    BY SMTT(40) DEF Granted, IInv, TypeOK
  <2>2. g \in [Procs -> Nat] /\ g[w] = Granted(w, n) /\ g[s] = Granted(s, n)
    BY ZenonT(40), <1>1, <2>1
  <2>3. /\ dl \in LockRecords /\ R \in SUBSET Procs /\ W \in SUBSET Procs
        /\ Accounted(dl, R, W)
    BY ZenonT(40) DEF IInv, TypeOK, Accounting
  <2>4. InRound(dl, R, W, g)
    BY ZenonT(40) DEF RoundInv, Round
  <2> QED
    BY ZenonT(40), <2>2, <2>3, <2>4
<1>3. /\ dl.rd_epoch \in Nat /\ dl.wr_epoch \in Nat
      /\ W = {} => Granted(w, n) = lock_num[w][n]
      /\ R = {} => Granted(s, n) = lock_num[s][n]
      /\ pc[s] = "held" => Granted(s, n) = lock_num[s][n]
      /\ pc[w] = "held" => Granted(w, n) = lock_num[w][n]
  <2>1. dl.rd_epoch \in Nat /\ dl.wr_epoch \in Nat
    BY ZenonT(40), <1>2 DEF LockRecords
  <2> QED
    BY ZenonT(40), <1>1, <2>1, GrantedIsNum
<1>4. /\ Holds(s, n, "read") => s \in R /\ pc[s] = "held"
      /\ Holds(w, n, "write") => w \in W /\ pc[w] = "held"
  <2>1. "read" \in Modes /\ "write" \in Modes
    BY ZenonT(40) DEF Modes
  <2>2. Holds(s, n, "read") => s \in R
    BY ZenonT(40), <1>1, <2>1, HolderOnRecord
  <2>3. Holds(w, n, "write") => w \in W
    BY ZenonT(40), <1>1, <2>1, HolderOnRecord
  <2> QED
    BY ZenonT(40), <2>2, <2>3 DEF Holds
<1> HIDE DEF g, dl, R, W, w, s
<1>5. /\ R # {} => Reading(dl, R, W, g)
      /\ W # {} => Writing(dl, R, W, g)
  BY ZenonT(40), <1>2, RoundOf
<1>6. Holds(s, n, "read") => lock_num[s][n] = lock_num[w][n]
  <2> SUFFICES ASSUME Holds(s, n, "read") PROVE lock_num[s][n] = lock_num[w][n]
    BY ZenonT(40)
  <2>1. Reading(dl, R, W, g)
    BY ZenonT(40), <1>4, <1>5
  <2>2. g[s] = dl.rd_epoch + 1 /\ g[w] = dl.wr_epoch /\ W = {} /\ dl.wr_epoch = dl.rd_epoch + 1
    BY ZenonT(40), <1>1, <1>4, <2>1 DEF Reading, Served
  <2> QED
    BY ZenonT(40), <1>2, <1>3, <1>4, <2>2
<1>7. Holds(w, n, "write") => lock_num[w][n] = lock_num[s][n] + 1
  <2> SUFFICES ASSUME Holds(w, n, "write") PROVE lock_num[w][n] = lock_num[s][n] + 1
    BY ZenonT(40)
  <2>1. Writing(dl, R, W, g) /\ W # {}
    BY ZenonT(40), <1>4, <1>5
  <2>2. g[s] = dl.rd_epoch /\ g[w] = dl.wr_epoch + 1 /\ R = {} /\ dl.wr_epoch = dl.rd_epoch
    BY ZenonT(40), <1>1, <2>1 DEF Writing
  <2> QED
    BY ZenonT(40), <1>2, <1>3, <1>4, <2>2
<1> QED
  BY ZenonT(40), <1>6, <1>7 DEF w, s
=============================================================================
