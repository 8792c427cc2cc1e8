-------------------------- MODULE DsgLockTheorems ---------------------------
(***************************************************************************)
(* What is proved of the lock service, for every topology, set of lock     *)
(* names and max_readers: its invariants and the refinement of RWLock.     *)
(***************************************************************************)
EXTENDS DsgLockOrder, FiniteSetTheorems

(* Every reachable state of the lock service is of the declared types, for  *)
(* every topology and lock type.                                            *)
THEOREM TypeCorrect == Spec => []TypeOK
  BY TypeInit, TypeStep, PTL DEF Spec

(* The library's facts about finite sets.                                   *)
LEMMA FiniteSetsObey == FiniteSetFacts
<1>1. IsFiniteSet({}) /\ Cardinality({}) = 0
  BY FS_EmptySet
<1>2. ASSUME NEW S, IsFiniteSet(S), NEW T, NEW f \in [S -> T],
             \A y \in T : \E x \in S : f[x] = y
      PROVE  IsFiniteSet(T) /\ Cardinality(T) <= Cardinality(S)
  <2>1. f \in Surjection(S, T)
    BY <1>2 DEF Surjection
  <2> QED
    BY SMTT(30), <1>2, <2>1, FS_Surjection
<1>3. ASSUME NEW S, IsFiniteSet(S)
      PROVE  /\ Cardinality(S) \in Nat
             /\ Cardinality(S) = 0 <=> S = {}
  BY SMTT(30), <1>3, FS_CardinalityType, FS_EmptySet
<1>4. ASSUME NEW S, IsFiniteSet(S), NEW x
      PROVE  /\ x \notin S => Cardinality(S \cup {x}) = Cardinality(S) + 1
             /\ x \in S => Cardinality(S \ {x}) = Cardinality(S) - 1
  BY SMTT(30), <1>4, FS_AddElement, FS_RemoveElement
<1>5. ASSUME NEW S, IsFiniteSet(S), NEW T \in SUBSET S
      PROVE  /\ IsFiniteSet(T)
             /\ Cardinality(T) <= Cardinality(S)
             /\ Cardinality(S) = Cardinality(T) => S = T
  BY SMTT(30), <1>5, FS_Subset
<1> QED
  BY ZenonT(40), <1>1, <1>2, <1>3, <1>4, <1>5 DEF FiniteSetFacts

(* IInv is an invariant.                                                    *)
LEMMA Invariant == Spec => []IInv
<1>1. Init => IInv
  BY SMTT(30), FiniteSetsObey, IInvInit
<1>2. IInv /\ [Next]_vars => IInv'
  BY SMTT(30), FiniteSetsObey, IInvStep
<1> QED
  BY <1>1, <1>2, PTL DEF Spec

(* While a process of an application is between dspaces_lock_on_write and   *)
(* dspaces_unlock_on_write on a name, no process of another application is  *)
(* between its lock and unlock calls on that name: for every number of      *)
(* applications, processes and names, and each of the three lock types.     *)
THEOREM ExclusionHolds == Spec => []Exclusion
  BY Invariant, IInvExclusion, PTL

(* The lock manager implements the readers-writer lock RWLock, whatever the *)
(* lock type and however many clients there are.                            *)
THEOREM Refinement == Spec => ImplementsRWLock
<1>1. Init => RW!Init
  BY DEF Init, RW!Init
<1>2. IInv /\ [Next]_vars => [RW!Next]_(RW!vars)
  BY SMTT(30), FiniteSetsObey, RWStep
<1> QED
  BY <1>1, <1>2, Invariant, PTL DEF Spec, ImplementsRWLock, RW!Spec

(* WaitInv is an invariant.                                                 *)
LEMMA WaitListsKept == Spec => []WaitInv
  BY Invariant, WaitInvInit, WaitInvStep, PTL DEF Spec

(* No wake-up is lost, whatever the lock type: when the server has finished *)
(* with a message, whoever is first in a wait list is one it would still    *)
(* refuse (anyone in the list, for the custom lock).                        *)
THEOREM NoWakeupLost == Spec => []NoLostWakeup
  BY Invariant, WaitListsKept, WaitInvNoLostWakeup, PTL

(* The generic and the v3 lock serve their wait lists: nobody waits who     *)
(* could be granted the lock, and nobody is granted it over one who came    *)
(* before.  The custom lock grants by round, not by arrival.                *)
THEOREM WaitListIsServed ==
    ASSUME LockType # "custom"
    PROVE  Spec => WaitListServed
<1>1. IInv /\ IInv' /\ WaitInv /\ [Next]_vars => [\A n \in Names : ServedInTurn(n)]_vars
  BY InTurn
<1> QED
  BY <1>1, Invariant, WaitListsKept, NoWakeupLost, PTL
     DEF Spec, WaitListServed, NoOvertaking

(* The record of what has been written leaves the lock service as it is.    *)
LEMMA HistoryOfSpec == HSpec => Spec
<1>1. HInit => Init
  BY DEF HInit
<1>2. [HNext]_hvars => [Next]_vars
  BY ZenonT(40) DEF HNext, hvars
<1> QED
  BY <1>1, <1>2, PTL DEF HSpec, Spec

(* With lock type 3 a process holds a lock for reading only after all       *)
(* processes of a writing application have released it (dcg_lock_request    *)
(* of the clients, lock_process_request_v3 with its wr_epoch), for every    *)
(* topology and every set of lock names.                                    *)
THEOREM NothingReadUnwritten ==
    ASSUME LockType = "v3"
    PROVE  HSpec => []ReadAfterWrite
<1>1. IInv /\ WaitInv /\ Wrote => ReadAfterWrite
  BY WroteReadAfterWrite
<1>2. IInv /\ IInv' /\ Wrote /\ [HNext]_hvars => Wrote'
  BY WroteStep
<1>3. HSpec => []IInv /\ []WaitInv
  BY HistoryOfSpec, Invariant, WaitListsKept, PTL
<1> QED
  BY <1>1, <1>2, <1>3, WroteInit, PTL DEF HSpec

(* With the custom lock, one writing application and at most max_readers    *)
(* reading ones, every version is read before the next one is written       *)
(* (sem_process_request with its two epochs): a reader that holds the lock  *)
(* has had it as often as the writer, a writer that holds it once more than *)
(* every reader.  For every topology, set of names and max_readers.         *)
THEOREM RoundsKeepStep ==
    ASSUME OneWriter
    PROVE  Spec => []RoundsInStep
<1>1. Init => RoundInv
  BY SMTT(30), FiniteSetsObey, RoundInit
<1>2. IInv /\ IInv' /\ Numbers /\ RoundInv /\ [Next]_vars => RoundInv'
  BY SMTT(30), FiniteSetsObey, RoundStep
<1>3. IInv /\ Numbers /\ RoundInv => RoundsInStep
  BY SMTT(30), FiniteSetsObey, RoundsReadWritten
<1> QED
  BY <1>1, <1>2, <1>3, Invariant, NumbersInit, NumbersStep, PTL DEF Spec
=============================================================================
