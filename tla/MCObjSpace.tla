---------------------------- MODULE MCObjSpace ------------------------------
(***************************************************************************)
(* Instances of ObjSpace for TLC.  A writing application of two processes  *)
(* and a reading one of one process; two servers and a domain of four      *)
(* cells.                                                                  *)
(***************************************************************************)
EXTENDS ObjSpace

\* DART ids: the servers come first, then the clients.
a0 == 10
a1 == 11
b0 == 12
MCProcs == {a0, a1, b0}
MCApps == {"A", "B"}
MCAppOf == [p \in MCProcs |-> IF p = b0 THEN "B" ELSE "A"]
MCMaster == [a \in MCApps |-> IF a = "A" THEN a0 ELSE b0]
MCCells == 1..4

MCServers == {0, 1}

\* One server has everything, or each has a part.
AtOne == [peer |-> [p \in MCProcs |-> 0],
          region |-> [s \in MCServers |-> IF s = 0 THEN MCCells ELSE {}]]
AtTwo == [peer |-> [p \in MCProcs |-> IF p = a1 THEN 1 ELSE 0],
          region |-> [s \in MCServers |-> IF s = 0 THEN {1, 2} ELSE {3, 4}]]

Obj(ver, box) == [name |-> "v", ver |-> ver, box |-> box]
Of(x, y, z) == [p \in MCProcs |-> CASE p = a0 -> x [] p = a1 -> y [] OTHER -> z]

Work(at, puts, gets, metas, removes, transport, protected, maxcalls) ==
    [peer |-> at.peer, region |-> at.region, puts |-> puts, gets |-> gets,
     metas |-> metas, removes |-> removes, transport |-> transport, protected |-> protected,
     maxcalls |-> maxcalls]

\* The box of a0 meets the parts of both servers.
Left == {1, 2, 3}
Right == {4}
Nothing == Of({}, {}, {})
Split == Of({Obj(1, Left), Obj(3, Left)}, {Obj(1, Right), Obj(3, Right)}, {})

\* Two versions in one slot, written and read under the lock.
OneServer ==
    Work(AtOne, Split, Of({}, {}, {Obj(1, MCCells), Obj(3, MCCells)}), Nothing, Nothing,
         "rdma", TRUE, 2)

\* An old version is removed, on tcp, while both are asked for.
Removing ==
    Work(AtOne, Of({Obj(1, Left), Obj(3, Left)}, {}, {}),
         Of({}, {}, {Obj(1, Left), Obj(3, Left), Obj(3, {2})}),
         Nothing, Of({<<"v", 1>>}, {}, {}), "tcp", TRUE, 3)

\* One version at two servers.
TwoServers ==
    Work(AtTwo, Of({Obj(1, Left)}, {Obj(1, Right)}, {}),
         Of({}, {}, {Obj(1, MCCells), Obj(1, {3, 4})}), Nothing, Nothing, "rdma",
         TRUE, 2)

\* Writers without locks.
Unlocked == Work(AtTwo, Split, Nothing, Nothing, Nothing, "rdma", FALSE, 2)

\* Metadata, whose versions leave gaps when they give way to later ones.
Metadata(protected) ==
    Work(AtOne, Of({Obj(v, Left) : v \in {2, 4, 5}}, {}, {}), Nothing,
         Of({}, {}, {Obj(v, {1}) : v \in {0, 2, 4}}), Nothing, "tcp", protected, 3)

MCWorkloads ==
    {OneServer, Removing, TwoServers, Unlocked, Metadata(TRUE), Metadata(FALSE)}
MCTwoServers == {TwoServers}
=============================================================================
