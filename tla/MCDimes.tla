------------------------------ MODULE MCDimes ------------------------------
(* Three clients on two nodes, two servers, a domain of 2 by 3 points.      *)
EXTENDS Dimes

Rows(y0, y1) == [lb |-> <<0, y0>>, ub |-> <<1, y1>>]
Point == [lb |-> <<0, 1>>, ub |-> <<0, 1>>]
Column == [lb |-> <<1, 0>>, ub |-> <<1, 2>>]

MCClients == 1 .. 3
MCNodeOf == <<"a", "a", "b">>
MCServers == 1 .. 2
All(boxes) == [c \in MCClients |-> boxes]
(* The first server owns the two first rows, the second the last one.       *)
MCRegion == <<Cells(Rows(0, 1)), Cells(Rows(2, 2))>>
MCResetBy == <<{1}, {}, {2}>>

(* Disjoint boxes in registered memory, read by a writer.                   *)
Remote ==
    [shmem |-> FALSE, checkpoint |-> FALSE, writers |-> {1, 3}, locals |-> {},
     boxes |-> All({Rows(0, 1), Rows(2, 2)}),
     wanted |-> {Rows(1, 2), Column}, versions |-> {0},
     rdma |-> 7, puts |-> 2, gets |-> 1, syncs |-> 1, regroups |-> 0]

(* A reader whose own data leave room for one receive buffer, not for two.  *)
Tight == [Remote EXCEPT !.wanted = {Rows(1, 2)}, !.puts = 3, !.syncs = 0]

(* A reader that goes on after a failed get.  Of the three parts it reads   *)
(* any two but the largest fit together, and a client may have freed its.   *)
Again ==
    [Remote EXCEPT !.writers = {2, 3},
        !.boxes = <<{}, {Rows(0, 0)}, {Point, Rows(2, 2)}>>,
        !.wanted = {Rows(0, 2), Rows(2, 2)}, !.rdma = 3, !.puts = 3, !.gets = 2]

(* Boxes that overlap.                                                      *)
Overlapping ==
    [Remote EXCEPT !.boxes = All({Rows(0, 1), Rows(1, 2)}),
        !.wanted = {Rows(1, 2)}, !.versions = {0, 1}, !.syncs = 0]

(* The same in segments.                                                    *)
Shared == [Remote EXCEPT !.shmem = TRUE]

(* One client that fills and frees its segment.                             *)
Allocating ==
    [Shared EXCEPT !.writers = {}, !.locals = {3}, !.gets = 0,
        !.boxes = All({Rows(2, 2), Rows(1, 2), Column}), !.puts = 4,
        !.syncs = 2, !.regroups = 2]

(* Checkpoint and restart.                                                  *)
Restarting ==
    [Shared EXCEPT !.checkpoint = TRUE, !.writers = {1}, !.locals = {2},
        !.boxes = All({Rows(0, 1)}), !.wanted = {Rows(0, 1)}]

MCWorkloads ==
    {Remote, Tight, Again, Overlapping, Shared, Allocating, Restarting}
=============================================================================
