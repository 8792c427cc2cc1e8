----------------------------- MODULE MCDsgLock ------------------------------
(***************************************************************************)
(* Instances of DsgLock for TLC: three applications, the first of which    *)
(* has two processes, so that the barriers matter.                         *)
(***************************************************************************)
EXTENDS DsgLock

MCProcs == {"a0", "a1", "b0", "c0"}
MCApps == {"A", "B", "C"}
MCAppOf == [p \in MCProcs |-> CASE p \in {"a0", "a1"} -> "A"
                                [] p = "b0" -> "B"
                                [] p = "c0" -> "C"]
MCMaster == [a \in MCApps |-> CASE a = "A" -> "a0"
                                [] a = "B" -> "b0"
                                [] a = "C" -> "c0"]
=============================================================================
