-------------------------------- MODULE Bbox --------------------------------
(***************************************************************************)
(* Bounding boxes and the Hilbert curve (src/src/bbox.c,                   *)
(* src/include/bbox.h, src/include/sfc.h).                                 *)
(*                                                                         *)
(* A bounding box has two corners, lb and ub, each a sequence of           *)
(* coordinates; dimension 1 is the fastest one.  An interval of the curve  *)
(* has two ends, lb and ub.                                                *)
(***************************************************************************)
EXTENDS Integers, Sequences, FiniteSets, SequencesExt, FiniteSetsExt

Dims(b) == DOMAIN b.lb

bbox_dist(b, i) == b.ub[i] - b.lb[i] + 1

(* The product over the dimensions.                                         *)
bbox_volume(b) == FoldLeft(LAMBDA n, i : n * bbox_dist(b, i), 1,
                           [i \in Dims(b) |-> i])

(* The points of a box; a box whose ub is below its lb has none.            *)
Cells(b) ==
    {x \in [Dims(b) -> Min(Range(b.lb)) .. Max(Range(b.ub))] :
        \A i \in Dims(b) : x[i] \in b.lb[i] .. b.ub[i]}

bbox_include(b0, b1) ==
    \A i \in Dims(b0) : b0.lb[i] <= b1.lb[i] /\ b0.ub[i] >= b1.ub[i]

bbox_intersect_ondim(b0, b1, i) ==
    \/ b0.lb[i] <= b1.lb[i] /\ b1.lb[i] <= b0.ub[i]
    \/ b1.lb[i] <= b0.lb[i] /\ b0.lb[i] <= b1.ub[i]

bbox_does_intersect(b0, b1) ==
    \A i \in Dims(b0) : bbox_intersect_ondim(b0, b1, i)

bbox_intersect(b0, b1) ==
    [lb |-> [i \in Dims(b0) |-> Max({b0.lb[i], b1.lb[i]})],
     ub |-> [i \in Dims(b0) |-> Min({b0.ub[i], b1.ub[i]})]]

bbox_equals(b0, b1) == Len(b0.lb) = Len(b1.lb) /\ b0 = b1

(* The two halves of a box along one dimension.                             *)
bbox_divide_in2_ondim(b, dim) ==
    LET n == (b.lb[dim] + b.ub[dim]) \div 2
    IN << [b EXCEPT !.ub[dim] = n], [b EXCEPT !.lb[dim] = n + 1] >>

BitOf(n, k) == (n \div 2^k) % 2

(* The 2^ndims parts of a box, each dimension halved; bit j - 1 of a part's *)
(* number says which half of dimension j it is.                             *)
bbox_divide(b) ==
    LET Mid(j) == (b.lb[j] + b.ub[j]) \div 2
    IN [n \in 1 .. 2^Len(b.lb) |->
          [lb |-> [j \in Dims(b) |->
                      IF BitOf(n - 1, j - 1) = 0 THEN b.lb[j] ELSE Mid(j) + 1],
           ub |-> [j \in Dims(b) |->
                      IF BitOf(n - 1, j - 1) = 0 THEN Mid(j) ELSE b.ub[j]]]]

-----------------------------------------------------------------------------
(* Powers of two.                                                          *)

compute_bits(n) == Min({k \in 0 .. n : 2^k > n})

(* The power of two above the highest set bit of n.                         *)
next_pow_2(n) == IF n = 0 THEN 0 ELSE 2^compute_bits(n)

(* The least power of two that is not below n.                              *)
next_pow_2_v2(n) == 2^Min({k \in 0 .. n : 2^k >= n})

compute_bits_v2(n) == Max({k \in 0 .. n : 2^k <= n})

-----------------------------------------------------------------------------
(* The Hilbert curve.  Bit d of level b of the transposed coordinates is    *)
(* bit b of coordinate d.                                                   *)

bitTranspose(coord, nBits) ==
    [b \in 0 .. nBits - 1 |->
        [d \in 0 .. Len(coord) - 1 |-> BitOf(coord[d + 1], b)]]

Xor(x, y) == (x + y) % 2

rotateRight(bits, rotation, nDims) ==
    [d \in 0 .. nDims - 1 |-> bits[(d + rotation) % nDims]]

(* Past the lowest bit that is set, the last one not counted, and one more. *)
adjust_rotation(rotation, nDims, bits) ==
    LET set == {d \in 0 .. nDims - 2 : bits[d] = 1}
        steps == IF set = {} THEN 0 ELSE Min(set) + 1
    IN (rotation + steps + 1) % nDims

(* The loop of hilbert_c2i from the highest level down: the bits of a level *)
(* of the index from those of the coordinates, of which a bit is flipped    *)
(* (none at first) before they are rotated.                                 *)
HilbertLevels(coord, nBits) ==
    LET nDims == Len(coord)
        t == bitTranspose(coord, nBits)
        Folded(b) == [d \in 0 .. nDims - 1 |->
                        IF b + 1 = nBits THEN t[b][d] ELSE Xor(t[b][d], t[b + 1][d])]
        Turn(s, b) ==
            LET bits == rotateRight(
                          [d \in 0 .. nDims - 1 |->
                             Xor(Folded(b)[d], IF d = s.flip THEN 1 ELSE 0)],
                          s.rotation, nDims)
            IN [index    |-> s.index @@ (b :> bits),
                flip     |-> s.rotation,
                rotation |-> adjust_rotation(s.rotation, nDims, bits)]
    IN FoldLeft(Turn, [index |-> <<>>, flip |-> -1, rotation |-> 0],
                [k \in 1 .. nBits |-> nBits - k]).index

(* The position of a point on the curve: the levels put together, the last  *)
(* bit of every level below the highest toggled, and the Gray code undone   *)
(* (a bit is the parity of the bits from it up).                            *)
hilbert_c2i(coord, nBits) ==
    LET nDims == Len(coord)
        levels == HilbertLevels(coord, nBits)
        Positions == 0 .. nDims * nBits - 1
        Gray(p) == LET b == p \div nDims
                       d == p % nDims
                   IN IF d = nDims - 1 /\ b < nBits - 1
                      THEN 1 - levels[b][d] ELSE levels[b][d]
        set == {p \in Positions : Gray(p) = 1}
        Parity(p) == Cardinality({q \in set : q >= p}) % 2
    IN IF nDims = 1 THEN coord[1]
       ELSE FoldSet(LAMBDA p, n : n + Parity(p) * 2^p, 0, Positions)

-----------------------------------------------------------------------------
(* Intervals of the curve.                                                 *)

intv_do_intersect(i0, i1) ==
    \/ i0.lb <= i1.lb /\ i1.lb <= i0.ub
    \/ i1.lb <= i0.lb /\ i0.lb <= i1.ub

intv_size(i) == i.ub - i.lb + 1

(* The interval of a box with sides of one power of two, from its corners   *)
(* in the order of their numbers; the first of them never sets ub.  curve   *)
(* is hilbert_c2i for the bits of the domain, point by point.               *)
bbox_flat(b, curve) ==
    LET Corner(n) == [j \in Dims(b) |->
                        IF BitOf(n, j - 1) = 0 THEN b.lb[j] ELSE b.ub[j]]
        Visit(itv, n) ==
            LET index == curve[Corner(n)]
            IN IF itv.lb = -1 \/ index < itv.lb THEN [itv EXCEPT !.lb = index]
               ELSE IF index > itv.ub THEN [itv EXCEPT !.ub = index]
               ELSE itv
    IN FoldLeft(Visit, [lb |-> -1, ub |-> 0], [n \in 1 .. 2^Len(b.lb) |-> n - 1])

(* Intervals that follow one another without a hole become one.             *)
intv_compact(s) ==
    FoldLeft(LAMBDA t, i : IF t # <<>> /\ Last(t).ub + 1 = i.lb
                           THEN [t EXCEPT ![Len(t)].ub = i.ub] ELSE Append(t, i),
             <<>>, s)

(* The intervals of a set in the order of intv_compar.                      *)
qsort(S) ==
    [k \in 1 .. Cardinality(S) |->
        CHOOSE i \in S : Cardinality({j \in S : j.lb < i.lb}) = k - 1]
=============================================================================
