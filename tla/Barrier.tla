------------------------------ MODULE Barrier ------------------------------
(***************************************************************************)
(* What a barrier promises: a process leaves its n-th barrier only when     *)
(* every process has entered its n-th one.  Barriers are numbered modulo    *)
(* Numbers, as in an 8-bit field.                                           *)
(***************************************************************************)
EXTENDS Integers, TLAPS

CONSTANTS Procs, Numbers

VARIABLES num,     \* num[p]: the number of the last barrier p has entered
          inside   \* the processes that are in a barrier

bvars == <<num, inside>>

Succ(n) == IF n = Numbers - 1 THEN 0 ELSE n + 1

Init ==
    /\ num = [p \in Procs |-> 0]
    /\ inside = {}

Enter(p) ==
    /\ p \notin inside
    /\ num' = [num EXCEPT ![p] = Succ(@)]
    /\ inside' = inside \cup {p}

Leave(p) ==
    /\ p \in inside
    /\ \A q \in Procs : num[q] \in {num[p], Succ(num[p])}
    /\ inside' = inside \ {p}
    /\ UNCHANGED num

Next == \E p \in Procs : Enter(p) \/ Leave(p)

Spec == Init /\ [][Next]_bvars
-----------------------------------------------------------------------------
(* b is a, or the number after a, or the one after that.                    *)
Ahead(a, b) == b \in {a, Succ(a), Succ(Succ(a))}

(* n is the number of the last barrier p has left.                          *)
HasLeft(p, n) ==
    /\ n \in 0 .. Numbers - 1
    /\ IF p \in inside THEN Succ(n) = num[p] ELSE n = num[p]

(* Whatever barrier a process has left, every process has entered it and no *)
(* process has entered more than the two after it.                          *)
Together ==
    \A p, q \in Procs : \A n \in 0 .. Numbers - 1 :
        HasLeft(p, n) => Ahead(n, num[q])

TypeInv == num \in [Procs -> 0 .. Numbers - 1] /\ inside \subseteq Procs

LEMMA SuccType ==
    ASSUME Numbers \in Nat, Numbers > 4, NEW n \in 0 .. Numbers - 1
    PROVE  Succ(n) \in 0 .. Numbers - 1
  BY DEF Succ

(* With at least five numbers, a number and the one two after it are never  *)
(* mistaken for each other.                                                 *)
LEMMA NotBehind ==
    ASSUME Numbers \in Nat, Numbers > 4,
           NEW n \in 0 .. Numbers - 1, NEW b \in {n, Succ(n)}
    PROVE  ~ Ahead(Succ(Succ(n)), b)
  BY DEF Ahead, Succ

LEMMA SuccInjective ==
    ASSUME Numbers \in Nat, Numbers > 4,
           NEW a \in 0 .. Numbers - 1, NEW b \in 0 .. Numbers - 1, Succ(a) = Succ(b)
    PROVE  a = b
  BY DEF Succ

LEMMA EnterStep ==
    ASSUME Numbers \in Nat, Numbers > 4, TypeInv, Together,
           NEW x \in Procs, Enter(x)
    PROVE  TypeInv' /\ Together'
  <1>1. /\ \A p \in Procs : num[p] \in 0 .. Numbers - 1
        /\ num'[x] = Succ(num[x]) /\ \A p \in Procs : p # x => num'[p] = num[p]
        /\ x \notin inside /\ inside' = inside \cup {x}
    BY DEF TypeInv, Enter
  <1>2. TypeInv'
    BY <1>1, SuccType DEF TypeInv, Enter
  <1>3. ASSUME NEW p \in Procs, NEW q \in Procs, NEW n \in 0 .. Numbers - 1,
               HasLeft(p, n)'
        PROVE  Ahead(n, num[q])'
    <2>1. CASE p = x
      <3>1. n = num[x]
        BY <1>1, <1>3, <2>1, SuccInjective DEF HasLeft
      <3>2. HasLeft(x, n)
        BY <1>1, <3>1 DEF HasLeft
      <3>3. CASE q = x
        BY <1>1, <3>1, <3>3 DEF Ahead
      <3>4. CASE q # x
        BY <1>1, <3>2, <3>4 DEF Together, Ahead
      <3>5. QED
        BY <3>3, <3>4
    <2>2. CASE p # x
      <3>1. HasLeft(p, n)
        BY <1>1, <1>3, <2>2 DEF HasLeft
      <3>2. Ahead(n, num[q]) /\ Ahead(n, num[x])
        BY <3>1 DEF Together
      <3>3. num[x] # Succ(Succ(n))
        <4>1. Ahead(num[x], num[p])
          BY <1>1 DEF Together, HasLeft
        <4>2. num[p] \in {n, Succ(n)}
          BY <3>1 DEF HasLeft
        <4>3. QED
          BY <4>1, <4>2, NotBehind
      <3>4. CASE q = x
        BY <1>1, <3>2, <3>3, <3>4 DEF Ahead
      <3>5. CASE q # x
        BY <1>1, <3>2, <3>5 DEF Ahead
      <3>6. QED
        BY <3>4, <3>5
    <2>3. QED
      BY <2>1, <2>2
  <1>4. QED
    BY <1>2, <1>3 DEF Together

LEMMA LeaveStep ==
    ASSUME Numbers \in Nat, Numbers > 4, TypeInv, Together,
           NEW x \in Procs, Leave(x)
    PROVE  TypeInv' /\ Together'
  <1>1. /\ num' = num /\ inside' = inside \ {x} /\ inside' \subseteq Procs
        /\ \A q \in Procs : Ahead(num[x], num[q])
    BY DEF TypeInv, Leave, Ahead
  <1>2. ASSUME NEW p \in Procs, NEW q \in Procs, NEW n \in 0 .. Numbers - 1,
               HasLeft(p, n)'
        PROVE  Ahead(n, num[q])'
    <2>1. CASE p = x
      BY <1>1, <1>2, <2>1 DEF HasLeft, Ahead
    <2>2. CASE p # x
      <3>1. HasLeft(p, n)
        BY <1>1, <1>2, <2>2 DEF HasLeft
      <3>2. QED
        BY <1>1, <3>1 DEF Together, Ahead
    <2>3. QED
      BY <2>1, <2>2
  <1>3. QED
    BY <1>1, <1>2 DEF TypeInv, Together

(* A barrier keeps the processes together for every number of processes and *)
(* every width of the barrier number from three bits up; rpc_barrier uses   *)
(* eight.                                                                   *)
THEOREM BarrierTogether ==
    ASSUME Numbers \in Nat, Numbers > 4
    PROVE  Spec => []Together
  <1>1. Init => TypeInv /\ Together
    BY DEF Init, TypeInv, Together, HasLeft, Ahead
  <1>2. TypeInv /\ Together /\ [Next]_bvars => TypeInv' /\ Together'
    <2>1. SUFFICES ASSUME TypeInv, Together, [Next]_bvars
                   PROVE  TypeInv' /\ Together'
      OBVIOUS
    <2>2. CASE Next
      BY <2>1, <2>2, EnterStep, LeaveStep DEF Next
    <2>3. CASE UNCHANGED bvars
      BY <2>1, <2>3 DEF bvars, TypeInv, Together, HasLeft, Ahead
    <2>4. QED
      BY <2>1, <2>2, <2>3
  <1>3. QED
    BY <1>1, <1>2, PTL DEF Spec
=============================================================================
