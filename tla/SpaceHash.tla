------------------------------ MODULE SpaceHash ------------------------------
(***************************************************************************)
(* Which servers answer for a box of a shared space (src/src/ss_data.c,    *)
(* src/src/bbox.c, src/src/ds_gspace.c).                                   *)
(*                                                                         *)
(* A shared space belongs to a global dimension.  Its domain is dealt out  *)
(* to the servers along the Hilbert curve (hash version 1) or by halving   *)
(* it again and again (version 2); ssd_hash maps a box to the servers that *)
(* hold its directory.  A process keeps its spaces in sspace_list and the  *)
(* answers of ssd_hash in sfc_hash_list.  Version 1 walks the box in a     *)
(* ring of candidate boxes that grows when it is full: one action is one   *)
(* round of that loop.                                                     *)
(***************************************************************************)
EXTENDS Bbox

CONSTANTS NumServers,   (* size_sp                                         *)
          DefaultGdim,  (* the domain of dataspaces.conf: sizes, as Gdims  *)
          Gdims,        (* the dimensions a variable is defined with       *)
          Boxes,        (* the boxes that are asked for                    *)
          BBSize,       (* the first size of the ring, 4096 in the code    *)
          MaxCalls,     (* bound: calls of ssd_hash                        *)
          None          (* no dimension, space, call or answer             *)

ASSUME RingAssumption ==
    /\ \A b \in Boxes : BBSize % 2^Len(b.lb) = 0 /\ BBSize > 2^Len(b.lb)
    /\ \A gd \in Gdims \cup {DefaultGdim} : \A i \in DOMAIN gd : gd[i] > 0

VARIABLES hash_version,   (* of the configuration, 1 or 2                  *)
          gdim,           (* gdim_list: the dimension of the variable      *)
          ssd,            (* the default space                              *)
          sspace_list,    (* [gdim, ssd]: the other spaces, newest first    *)
          sfc_hash_list,  (* [bb, nodes, of]: the cache; of is the space   *)
          call,           (* the call of ssd_hash under way                *)
          answer,         (* its result: [of, bb, nodes, from]             *)
          calls

vars == <<hash_version, gdim, ssd, sspace_list, sfc_hash_list, call, answer, calls>>

Servers == 1 .. NumServers
Numbered(s) == [k \in 1 .. Len(s) |-> k]

Domain(gd) == [lb |-> [i \in DOMAIN gd |-> 0], ub |-> [i \in DOMAIN gd |-> gd[i] - 1]]

(* Only the dimensions of the first one are compared; sizes beyond the      *)
(* dimensions are 0.                                                        *)
global_dimension_equal(g1, g2) ==
    \A i \in DOMAIN g1 : i \in DOMAIN g2 /\ g1[i] = g2[i]

-----------------------------------------------------------------------------
(* The intervals of a box by repeated division, level by level (the queue   *)
(* of bbox_to_intv holds the candidates of one level before the next).      *)

CurveBits(dim_virt) == compute_bits(dim_virt)

Virtual(bb, dim_virt) ==
    [lb |-> [i \in Dims(bb) |-> 0], ub |-> [i \in Dims(bb) |-> dim_virt - 1]]

(* The curve through the virtual domain, computed once for a space.         *)
Curve(dom, dim_virt) ==
    [x \in Cells(Virtual(dom, dim_virt)) |-> hilbert_c2i(x, CurveBits(dim_virt))]

bbox_to_intv(bb, dim_virt, curve) ==
    LET Level(s, k) ==
            [good |-> s.good \cup {c \in s.can : bbox_include(bb, c)},
             can  |-> UNION {Range(bbox_divide(c)) :
                        c \in {d \in s.can : ~bbox_include(bb, d)
                                             /\ bbox_does_intersect(bb, d)}}]
        good == FoldLeft(Level, [good |-> {}, can |-> {Virtual(bb, dim_virt)}],
                         [k \in 1 .. CurveBits(dim_virt) + 1 |-> k]).good
    IN intv_compact(qsort({bbox_flat(c, curve) : c \in good}))

(* Each server gets the next sn indexes of the intervals, sn the volume of  *)
(* the domain over the number of servers; the remainder is not dealt out.   *)
dht_construct_hash(i_tab, volume) ==
    LET sn == volume \div NumServers
        Before(j) == FoldLeft(LAMBDA n, i : n + intv_size(i), 0, SubSeq(i_tab, 1, j - 1))
        Part(j, k) ==
            [lb |-> i_tab[j].lb + Max({0, (k - 1) * sn - Before(j)}),
             ub |-> i_tab[j].lb + Min({intv_size(i_tab[j]), k * sn - Before(j)}) - 1]
    IN [k \in Servers |->
          {p \in {Part(j, k) : j \in DOMAIN i_tab} : p.lb <= p.ub}]

(* A side of the virtual domain: a power of two above every coordinate.     *)
VirtualSide(dom) == next_pow_2(Max({1, Max(Range(dom.ub))}))

(* The domain along the curve; a domain with fewer points than servers      *)
(* cannot be dealt out and there is no space.                               *)
ssd_alloc_v1(dom) ==
    LET side == VirtualSide(dom)
        curve == Curve(dom, side)
    IN IF bbox_volume(dom) < NumServers THEN None
       ELSE [max_dim |-> side, curve |-> curve,
             ent_tab |-> dht_construct_hash(bbox_to_intv(dom, side, curve),
                                            bbox_volume(dom))]

(* The first of the longest dimensions.                                     *)
get_bbox_max_dim_size(b) ==
    CHOOSE i \in Dims(b) :
        \A j \in Dims(b) : /\ bbox_dist(b, i) >= bbox_dist(b, j)
                           /\ bbox_dist(b, i) = bbox_dist(b, j) => i <= j

(* Mutant: the boxes are dealt out in the first round only.                 *)
ssd_alloc_v2_once(dom) ==
    LET rounds == compute_bits_v2(next_pow_2_v2(NumServers))
        Halve(boxes, r) ==
            FlattenSeq([k \in DOMAIN boxes |->
                bbox_divide_in2_ondim(boxes[k], get_bbox_max_dim_size(boxes[k]))])
        boxes == FoldLeft(Halve, <<dom>>, [r \in 1 .. rounds |-> r])
    IN [max_dim |-> next_pow_2_v2(Max(Range(dom.ub))),
        ent_tab |-> [k \in Servers |-> {boxes[k]}]]

(* The domain halved along the longest dimension until there are as many    *)
(* boxes as servers or more, dealt out in turn.                             *)
ssd_alloc_v2(dom) ==
    LET rounds == compute_bits_v2(next_pow_2_v2(NumServers))
        Halve(boxes, r) ==
            FlattenSeq([k \in DOMAIN boxes |->
                bbox_divide_in2_ondim(boxes[k], get_bbox_max_dim_size(boxes[k]))])
        boxes == FoldLeft(Halve, <<dom>>, [r \in 1 .. rounds |-> r])
    IN [max_dim |-> next_pow_2_v2(Max(Range(dom.ub))),
        ent_tab |-> [k \in Servers |->
            {boxes[j] : j \in {i \in DOMAIN boxes : (i - 1) % NumServers = k - 1}}]]

ssd_alloc(dom, version) == IF version = 1 THEN ssd_alloc_v1(dom) ELSE ssd_alloc_v2(dom)

-----------------------------------------------------------------------------
(* The space of a global dimension: the default one, one of the list, or a  *)
(* new one at the head of the list; the default one again when there is     *)
(* none.                                                                    *)

Listed(gd) == SelectSeq(sspace_list, LAMBDA e : /\ Len(e.gdim) = Len(gd)
                                                /\ global_dimension_equal(gd, e.gdim))

NewSpace(gd) ==
    IF global_dimension_equal(gd, DefaultGdim) \/ Listed(gd) # <<>> THEN None
    ELSE ssd_alloc(Domain(gd), hash_version)

(* What lookup_sspace returns, new the space it allocates or None.          *)
LookedUp(gd, new) ==
    IF global_dimension_equal(gd, DefaultGdim) THEN [gdim |-> DefaultGdim, ssd |-> ssd]
    ELSE IF Listed(gd) # <<>> THEN Head(Listed(gd))
    ELSE IF new = None THEN [gdim |-> DefaultGdim, ssd |-> ssd]
    ELSE [gdim |-> gd, ssd |-> new]

lookup_sspace(gd, new) ==
    sspace_list' = IF new = None THEN sspace_list
                   ELSE <<LookedUp(gd, new)>> \o sspace_list

(* The dimension of the variable, as an application defines it.             *)
update_gdim_list(gd) ==
    /\ call = None
    /\ calls < MaxCalls
    /\ gdim' = gd
    /\ UNCHANGED <<hash_version, ssd, sspace_list, sfc_hash_list, call, answer, calls>>

(* The dimension that is used: the defined one or the default.              *)
set_global_dimension == IF gdim = None THEN DefaultGdim ELSE gdim

-----------------------------------------------------------------------------
(* ssd_hash.                                                               *)

(* The first cached answer for the box; one without servers is no hit.      *)
sh_find(bb) ==
    LET same == {k \in DOMAIN sfc_hash_list : bbox_equals(bb, sfc_hash_list[k].bb)}
    IN IF same = {} THEN <<>>
       ELSE IF sfc_hash_list[Min(same)].nodes = <<>> THEN <<>>
       ELSE <<sfc_hash_list[Min(same)]>>

sh_add(bb, nodes, of) ==
    sfc_hash_list' = Append(sfc_hash_list, [bb |-> bb, nodes |-> nodes, of |-> of])

(* Mutant: only intervals that start within the one asked for are found.    *)
dht_intersect_start(de, itv) == \E i \in de : itv.lb <= i.lb /\ i.lb <= itv.ub

dht_intersect(de, itv) == \E i \in de : intv_do_intersect(i, itv)

(* The servers in a set, in their order.                                    *)
Nodes(held) == SelectSeq([k \in Servers |-> k], LAMBDA k : k \in held)

Answer(of, bb, nodes, from) ==
    answer' = [of |-> of, bb |-> bb, nodes |-> nodes, from |-> from]

(* The start of bbox_to_intv2: the whole curve in the last slot.            *)
StartWalk(bb, of) ==
    call' = [bb |-> bb, of |-> of,
             bb_tab |-> (BBSize - 1) :> Virtual(bb, of.ssd.max_dim),
             bb_size |-> BBSize, bb_head |-> BBSize - 1, bb_tail |-> 0,
             i_tab |-> {}]

(* A call: a box of the variable's domain, at the space of its dimension.   *)
ssd_hash(bb) ==
    LET gd == set_global_dimension
        new == NewSpace(gd)
        of == LookedUp(gd, new)
    IN /\ call = None
       /\ calls < MaxCalls
       /\ Len(bb.lb) = Len(gd) /\ bbox_include(Domain(gd), bb)
       /\ calls' = calls + 1
       /\ lookup_sspace(gd, new)
       /\ \/ /\ sh_find(bb) # <<>>
             /\ Answer(of.gdim, bb, sh_find(bb)[1].nodes, sh_find(bb)[1].of)
             /\ UNCHANGED <<call, sfc_hash_list>>
          \/ /\ sh_find(bb) = <<>>
             /\ hash_version = 1
             /\ StartWalk(bb, of)
             /\ answer' = None
             /\ UNCHANGED sfc_hash_list
          \/ /\ sh_find(bb) = <<>>
             /\ hash_version = 2
             /\ LET nodes == Nodes({k \in Servers : \E b \in of.ssd.ent_tab[k] :
                                                      bbox_does_intersect(bb, b)})
                IN Answer(of.gdim, bb, nodes, of.gdim) /\ sh_add(bb, nodes, of.gdim)
             /\ UNCHANGED call
       /\ UNCHANGED <<hash_version, gdim, ssd>>

PartsOf(c) == 2^Len(c.bb.lb)

RingFull(c) ==
    (c.bb_tail + PartsOf(c)) % c.bb_size = c.bb_head - (c.bb_head % PartsOf(c))

(* Mutant: the wrapped part of the ring is not copied.                      *)
GrowTail(c) ==
    LET n == PartsOf(c)
        nhead == c.bb_head - (c.bb_head % n)
        more == c.bb_size + c.bb_size \div 2
    IN [c EXCEPT !.bb_tab = [k \in {j \in 0 .. c.bb_size - n - 1 :
                                      nhead + j \in DOMAIN c.bb_tab} |-> c.bb_tab[nhead + k]],
                 !.bb_head = c.bb_head % n,
                 !.bb_tail = c.bb_size - n,
                 !.bb_size = more - (more % n)]

(* Mutant: the contents move and the ring stays as it is.                   *)
GrowSame(c) ==
    LET n == PartsOf(c)
        nhead == c.bb_head - (c.bb_head % n)
        Slot(j) == (nhead + j) % c.bb_size
    IN [c EXCEPT !.bb_tab = [k \in {j \in 0 .. c.bb_size - n - 1 :
                                      Slot(j) \in DOMAIN c.bb_tab} |-> c.bb_tab[Slot(k)]],
                 !.bb_head = c.bb_head % n,
                 !.bb_tail = c.bb_size - n]

(* The ring half as large again, its contents moved to the start from the   *)
(* group of the head on.                                                    *)
Grow(c) ==
    LET n == PartsOf(c)
        nhead == c.bb_head - (c.bb_head % n)
        Slot(j) == (nhead + j) % c.bb_size
        more == c.bb_size + c.bb_size \div 2
    IN [c EXCEPT !.bb_tab = [k \in {j \in 0 .. c.bb_size - n - 1 :
                                      Slot(j) \in DOMAIN c.bb_tab} |-> c.bb_tab[Slot(k)]],
                 !.bb_head = c.bb_head % n,
                 !.bb_tail = c.bb_size - n,
                 !.bb_size = more - (more % n)]

(* A round of the loop of bbox_to_intv2 looks at the box of the head: it is *)
(* in the box asked for and is an interval of the curve, ...                *)
HeadBox == call.bb_tab[call.bb_head]
NextHead == (call.bb_head + 1) % call.bb_size

Walking ==
    /\ call # None
    /\ call.bb_head # call.bb_tail
    /\ UNCHANGED <<hash_version, gdim, ssd, sspace_list, sfc_hash_list, answer, calls>>

EmitHead ==
    /\ Walking
    /\ bbox_include(call.bb, HeadBox)
    /\ call' = [call EXCEPT
          !.i_tab = @ \cup {bbox_flat(HeadBox, call.of.ssd.curve)},
          !.bb_head = NextHead]

(* ... or it meets the box and its parts go to the tail, once there is room *)
(* for them, ...                                                            *)
GrowRing ==
    /\ Walking
    /\ ~bbox_include(call.bb, HeadBox)
    /\ bbox_does_intersect(call.bb, HeadBox)
    /\ RingFull(call)
    /\ call' = Grow(call)

DivideHead ==
    LET n == PartsOf(call)
    IN /\ Walking
       /\ ~bbox_include(call.bb, HeadBox)
       /\ bbox_does_intersect(call.bb, HeadBox)
       /\ ~RingFull(call)
       /\ call' = [call EXCEPT
             !.bb_tab = [k \in call.bb_tail .. call.bb_tail + n - 1 |->
                            bbox_divide(HeadBox)[k - call.bb_tail + 1]] @@ call.bb_tab,
             !.bb_tail = (call.bb_tail + n) % call.bb_size,
             !.bb_head = NextHead]

(* ... or it is dropped.                                                    *)
DropHead ==
    /\ Walking
    /\ ~bbox_include(call.bb, HeadBox)
    /\ ~bbox_does_intersect(call.bb, HeadBox)
    /\ call' = [call EXCEPT !.bb_head = NextHead]

bbox_to_intv2 == EmitHead \/ GrowRing \/ DivideHead \/ DropHead

(* The servers that hold a part of an interval found.                       *)
HashedTo(c) ==
    LET i_tab == intv_compact(qsort(c.i_tab))
    IN Nodes({k \in Servers : \E i \in DOMAIN i_tab :
                               dht_intersect(c.of.ssd.ent_tab[k], i_tab[i])})

(* The loop has ended: the answer is cached and returned.                   *)
ssd_hash_v1 ==
    /\ call # None
    /\ call.bb_head = call.bb_tail
    /\ \E nodes \in {HashedTo(call)} :
          /\ Answer(call.of.gdim, call.bb, nodes, call.of.gdim)
          /\ sh_add(call.bb, nodes, call.of.gdim)
    /\ call' = None
    /\ UNCHANGED <<hash_version, gdim, ssd, sspace_list, calls>>

-----------------------------------------------------------------------------
Init ==
    /\ hash_version \in {1, 2}
    /\ gdim = None
    /\ ssd = ssd_alloc(Domain(DefaultGdim), hash_version)
    /\ sspace_list = <<>>
    /\ sfc_hash_list = <<>>
    /\ call = None
    /\ answer = None
    /\ calls = 0

Next ==
    \/ \E gd \in Gdims : update_gdim_list(gd)
    \/ \E bb \in Boxes : ssd_hash(bb)
    \/ bbox_to_intv2
    \/ ssd_hash_v1

(* A call runs to its end: it is a loop of one thread.                      *)
Spec == Init /\ [][Next]_vars /\ WF_vars(bbox_to_intv2 \/ ssd_hash_v1)

-----------------------------------------------------------------------------
(* The position of a point of a space on its curve.                        *)
Index(ss, x) == ss.curve[x]

In(n, itv) == itv.lb <= n /\ n <= itv.ub

(* The points of a space whose directory a server holds.                   *)
Owned(ss, dom, k) ==
    {x \in Cells(dom) : \E p \in ss.ent_tab[k] :
        IF hash_version = 1 THEN In(Index(ss, x), p) ELSE x \in Cells(p)}

AllSpaces == {[gdim |-> DefaultGdim, ssd |-> ssd]} \cup Range(sspace_list)

(* The spaces, the list, the cache and the call under way have their       *)
(* types: the ring's head and tail are slots of it, a space in the list is *)
(* there once and is not the default one.                                  *)
TypeOK ==
    /\ hash_version \in {1, 2}
    /\ gdim \in Gdims \cup {None}
    /\ {e.gdim : e \in Range(sspace_list)} \subseteq Gdims \ {DefaultGdim}
    /\ Cardinality({e.gdim : e \in AllSpaces}) = Len(sspace_list) + 1
    /\ \A c \in Range(sfc_hash_list) : Range(c.nodes) \subseteq Servers
    /\ call # None => /\ {call.bb_head, call.bb_tail} \subseteq 0 .. call.bb_size - 1
                      /\ call.bb_tail % PartsOf(call) = 0
                      /\ call.bb_size % PartsOf(call) = 0
                      /\ DOMAIN call.bb_tab \subseteq 0 .. call.bb_size - 1
    /\ calls \in 0 .. MaxCalls

(* The boxes of the ring that are still to be looked at.                   *)
Pending(c) ==
    {(c.bb_head + j) % c.bb_size :
        j \in 0 .. ((c.bb_tail - c.bb_head) % c.bb_size) - 1}

(* bbox_to_intv2 loses no point and counts none twice, across the growth   *)
(* and the wrap of its ring: a point of the box is in one interval found   *)
(* so far or in one box still in the ring, and the intervals found hold    *)
(* points of the box only.  No slot is read that was not written.          *)
NoCellLost ==
    call # None =>
      /\ Pending(call) \subseteq DOMAIN call.bb_tab
      /\ \A x \in Cells(call.bb) :
            Cardinality({i \in call.i_tab : In(Index(call.of.ssd, x), i)})
            + Cardinality({k \in Pending(call) : x \in Cells(call.bb_tab[k])}) = 1
      /\ UNION {i.lb .. i.ub : i \in call.i_tab}
           \subseteq {Index(call.of.ssd, x) : x \in Cells(call.bb)}

(* At the end of its walk bbox_to_intv2 has the intervals that the queue of *)
(* bbox_to_intv finds for the same box.                                     *)
WalkAgrees ==
    call # None /\ call.bb_head = call.bb_tail =>
      intv_compact(qsort(call.i_tab)) = bbox_to_intv(call.bb, call.of.ssd.max_dim, call.of.ssd.curve)

(* The walk of bbox_to_intv2 through its ring is right in each round and at   *)
(* its end.                                                                   *)
WalkRight == TypeOK /\ NoCellLost /\ WalkAgrees

(* The servers share the domain of a space: no point has two of them, and   *)
(* every point has one under version 2, and under version 1 when the number *)
(* of servers divides the volume.  Under version 1 the shares are equal.    *)
Partition ==
    call = None => \A e \in AllSpaces :
      LET dom == Domain(e.gdim)
          volume == bbox_volume(dom)
          owns == UNION {{k} \X Owned(e.ssd, dom, k) : k \in Servers}
      IN /\ Cardinality({o[2] : o \in owns}) = Cardinality(owns)
         /\ hash_version = 2 \/ volume % NumServers = 0
               => {o[2] : o \in owns} = Cells(dom)
         /\ hash_version = 1 => \A k \in Servers :
               Cardinality({o \in owns : o[1] = k}) = volume \div NumServers

(* An answer of ssd_hash names the server of every point of the box, so     *)
(* that whoever puts and whoever gets a point ask a server in common; under *)
(* version 1 it names no other server.  This is said of answers computed    *)
(* for the space that was asked: the cache finds an answer by its box       *)
(* alone, whatever the space.                                               *)
FindsOwners ==
    answer # None /\ answer.from = answer.of =>
      LET e == CHOOSE f \in AllSpaces : f.gdim = answer.of
          owners == {k \in Servers : Owned(e.ssd, answer.bb, k) # {}}
      IN /\ owners \subseteq Range(answer.nodes)
         /\ hash_version = 1 => Range(answer.nodes) = owners

(* A call of ssd_hash ends: the ring is emptied however often it grew.      *)
HashReturns == call # None ~> call = None
=============================================================================
