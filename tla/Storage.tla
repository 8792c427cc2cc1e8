------------------------------ MODULE Storage -------------------------------
(***************************************************************************)
(* The two tables of a DataSpaces server (src/src/ss_data.c): the local    *)
(* storage of data objects (struct ss_storage) and the object descriptors  *)
(* of its DHT entry (struct dht_entry).  Both are an array of MaxVersions  *)
(* lists; version v lives in list v % MaxVersions, newest entry first.     *)
(*                                                                         *)
(* A bounding box is the set of the cells it contains.  A descriptor has   *)
(* the fields name, ver and box (and owner, in the DHT); an object those   *)
(* of its descriptor and its data.                                         *)
(***************************************************************************)
EXTENDS Integers, Sequences, FiniteSets, SequencesExt

CONSTANT MaxVersions  \* ds_conf.max_versions: size_hash and odsc_size

ASSUME MaxVersionsAssumption == MaxVersions \in Nat \ {0}

Bins == 0 .. MaxVersions - 1
BinOf(ver) == ver % MaxVersions

(* ls_alloc and dht_entry_alloc: every list empty.                          *)
EmptyTable == [i \in Bins |-> <<>>]

-----------------------------------------------------------------------------
(* Descriptors.                                                            *)

bbox_does_intersect(b1, b2) == b1 \cap b2 # {}

obj_desc_by_name_intersect(d1, d2) ==
    d1.name = d2.name /\ bbox_does_intersect(d1.box, d2.box)

obj_desc_equals_intersect(d1, d2) ==
    d1.ver = d2.ver /\ obj_desc_by_name_intersect(d1, d2)

(* Mutant: two pieces of one owner are taken for the same.                  *)
obj_desc_same_owner(d1, d2) == d1.owner = d2.owner

obj_desc_equals(d1, d2) == d1.owner = d2.owner /\ d1.box = d2.box

-----------------------------------------------------------------------------
(* Local storage.  A search returns a position in the list of the version,  *)
(* 0 when it finds nothing.                                                *)

ls_find_no_version(ls, d) ==
    SelectInSeq(ls[BinOf(d.ver)], LAMBDA od : obj_desc_by_name_intersect(d, od))

ls_find(ls, d) ==
    SelectInSeq(ls[BinOf(d.ver)], LAMBDA od : obj_desc_equals_intersect(d, od))

obj_desc_by_name_only_intersect(d1, d2) == d1.name = d2.name

(* The objects of a name with a later version, in the order in which        *)
(* ls_find_next meets them.                                                 *)
LaterObjects(ls, d) ==
    FlattenSeq([offset \in 1 .. MaxVersions |->
        SelectSeq(ls[BinOf(d.ver + offset)],
                  LAMBDA od : obj_desc_by_name_only_intersect(d, od) /\ od.ver > d.ver)])

(* Mutant: the first later version that is met.                             *)
ls_find_next_met(ls, d) ==
    LET later == LaterObjects(ls, d) IN IF later = <<>> THEN 0 ELSE later[1].ver

(* The version of the next object: the first at a distance of at most       *)
(* MaxVersions, else the least of the others; 0 when there is none.         *)
ls_find_next(ls, d) ==
    LET later == LaterObjects(ls, d)
        near == SelectSeq(later, LAMBDA od : od.ver <= d.ver + MaxVersions)
    IN IF later = <<>> THEN 0
       ELSE IF near # <<>> THEN near[1].ver
       ELSE Min({od.ver : od \in ToSet(later)})

(* Mutant: nothing is evicted, and the new object goes to the tail of the   *)
(* list.                                                                    *)
ls_add_obj_last(ls, od) == [ls EXCEPT ![BinOf(od.ver)] = Append(@, od)]

(* Evicts one object of the list that has the same name and meets the new   *)
(* one, of whatever version, and puts the new one first.                    *)
ls_add_obj(ls, od) ==
    LET i == ls_find_no_version(ls, od)
    IN [ls EXCEPT ![BinOf(od.ver)] =
           <<od>> \o (IF i = 0 THEN @ ELSE RemoveAt(@, i))]

(* Mutant: the version is not compared.                                     *)
ls_remove_any_version(ls, name, ver) ==
    [i \in Bins |-> SelectSeq(ls[i], LAMBDA od : od.name # name)]

(* The loop of dsgrpc_remove_service: every object of a name and version.   *)
ls_remove_all(ls, name, ver) ==
    [i \in Bins |-> SelectSeq(ls[i], LAMBDA od : od.name # name \/ od.ver # ver)]

-----------------------------------------------------------------------------
(* The descriptors of a DHT entry.                                         *)

dht_find_match(de, d) ==
    SelectInSeq(de[BinOf(d.ver)], LAMBDA e : obj_desc_by_name_intersect(d, e))

(* Mutant: a descriptor never replaces an older one.                        *)
dht_add_entry_keep(de, d) == [de EXCEPT ![BinOf(d.ver)] = <<d>> \o @]

(* Overwrites the first descriptor of the list with the same name that      *)
(* meets the new one, else puts the new one first.                          *)
dht_add_entry(de, d) ==
    LET i == dht_find_match(de, d)
    IN [de EXCEPT ![BinOf(d.ver)] =
           IF i # 0 THEN [@ EXCEPT ![i] = d] ELSE <<d>> \o @]

dht_find_entry_all(de, q) ==
    SelectSeq(de[BinOf(q.ver)], LAMBDA e : obj_desc_equals_intersect(e, q))
=============================================================================
