---------------------------- MODULE DimesBuffer ----------------------------
(***************************************************************************)
(* The allocator of a client's DIMES buffer (src/src/dimes_data.c): blocks *)
(* of one memory region, kept on a list of free and a list of used blocks, *)
(* each in ascending order of size.  A buffer is a record with the two     *)
(* lists, first block first; a block starts at ptr and is size long.       *)
(***************************************************************************)
EXTENDS Integers, Sequences, SequencesExt, FiniteSetsExt

(* dimes_buffer_finalize leaves both lists empty.                           *)
dimes_buf_cleanup_list == [free |-> << >>, used |-> << >>]

(* Before the first block that is not smaller, else at the tail.            *)
dimes_buf_insert_block(block, blocks) ==
    LET larger == {i \in DOMAIN blocks : block.size <= blocks[i].size}
    IN InsertAt(blocks, Min(larger \cup {Len(blocks) + 1}), block)

(* The free blocks that touch the new one are merged into it.               *)
dimes_buf_insert_block_to_freelist(block, blocks) ==
    LET before == {i \in DOMAIN blocks :
                      blocks[i].ptr + blocks[i].size = block.ptr}
        after == {i \in DOMAIN blocks :
                      blocks[i].ptr = block.ptr + block.size}
        gone == (IF before = {} THEN {} ELSE {Max(before)})
                \cup (IF after = {} THEN {} ELSE {Max(after)})
        others == FoldLeft(LAMBDA l, i : IF i \in gone THEN l
                                         ELSE Append(l, blocks[i]),
                           << >>, [i \in DOMAIN blocks |-> i])
        start == IF before = {} THEN block.ptr ELSE blocks[Max(before)].ptr
    IN dimes_buf_insert_block(
           [ptr |-> start,
            size |-> MapThenSumSet(LAMBDA i : blocks[i].size, gone)
                     + block.size],
           others)

(* One free block, the whole region.                                        *)
dimes_buffer_init(size) ==
    [free |-> dimes_buf_insert_block([ptr |-> 0, size |-> size], << >>),
     used |-> << >>]

(* The first free block that is large enough; its low end is used.          *)
HasRoom(buf, size) == \E i \in DOMAIN buf.free : buf.free[i].size >= size

Chosen(buf, size) == Min({i \in DOMAIN buf.free : buf.free[i].size >= size})

(* Mutant: the rest of a block overlaps what was taken from it.             *)
AllocHighEnd(buf, size) ==
    LET mb == buf.free[Chosen(buf, size)]
        rest == RemoveAt(buf.free, Chosen(buf, size))
        left == [ptr |-> mb.ptr, size |-> mb.size - size]
    IN [free |-> IF mb.size = size THEN rest
                 ELSE dimes_buf_insert_block(left, rest),
        used |-> dimes_buf_insert_block([ptr |-> mb.ptr, size |-> size],
                                        buf.used)]

dimes_buffer_alloc(buf, size) ==
    LET mb == buf.free[Chosen(buf, size)]
        rest == RemoveAt(buf.free, Chosen(buf, size))
        left == [ptr |-> mb.ptr + size, size |-> mb.size - size]
    IN [free |-> IF mb.size = size THEN rest
                 ELSE dimes_buf_insert_block(left, rest),
        used |-> dimes_buf_insert_block([ptr |-> mb.ptr, size |-> size],
                                        buf.used)]

(* A pointer that is on no used block is ignored.                           *)
dimes_buffer_free(buf, ptr) ==
    LET found == {i \in DOMAIN buf.used : buf.used[i].ptr = ptr}
        mb == buf.used[Min(found)]
    IN IF found = {} THEN buf
       ELSE [free |-> dimes_buf_insert_block_to_freelist(mb, buf.free),
             used |-> RemoveAt(buf.used, Min(found))]

(* A checkpoint holds both lists.  A restart appends them to the lists that *)
(* dimes_buffer_init made, where the whole region is a free block.          *)
dimes_client_shmem_checkpoint_allocator(buf) == buf

dimes_client_shmem_restart_allocator(buf, saved) ==
    [free |-> buf.free \o saved.free, used |-> buf.used \o saved.used]

-----------------------------------------------------------------------------
(* What the lists should say of a region of a given size.                   *)

Extent(block) == block.ptr .. block.ptr + block.size - 1

Ascending(blocks) ==
    \A i, j \in DOMAIN blocks : i < j => blocks[i].size <= blocks[j].size

(* Every address is in exactly one block, both lists are in order, and no   *)
(* two free blocks touch.                                                   *)
Tiles(buf, size) ==
    LET all == buf.free \o buf.used
    IN /\ \A a \in 0 .. size - 1 :
             Cardinality({i \in DOMAIN all : a \in Extent(all[i])}) = 1
       /\ \A i \in DOMAIN all : all[i].size > 0 /\ Extent(all[i]) \subseteq 0 .. size - 1
       /\ Ascending(buf.free) /\ Ascending(buf.used)
       /\ \A i, j \in DOMAIN buf.free :
             buf.free[i].ptr + buf.free[i].size # buf.free[j].ptr
=============================================================================
