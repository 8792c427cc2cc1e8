-------------------------- MODULE MCDsgLockHistory --------------------------
(* The instance of MCDsgLock with the record of what has been written.      *)
EXTENDS MCDsgLock, DsgLockHistory
=============================================================================
