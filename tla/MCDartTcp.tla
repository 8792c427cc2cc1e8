----------------------------- MODULE MCDartTcp -----------------------------
(* A master, further servers and the processes of applications.            *)
EXTENDS DartTcp

CONSTANTS c1, c2, c3

OneApp  == [c \in Clients |-> 1]
TwoApps == [c \in Clients |-> IF c = c1 THEN 1 ELSE 2]
=============================================================================
