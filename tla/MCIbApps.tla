------------------------------ MODULE MCIbApps ------------------------------
(* Instances of IbApps for TLC.                                             *)
EXTENDS IbApps, TLC

TwoApps == (1 :> 2) @@ (2 :> 2)
====
