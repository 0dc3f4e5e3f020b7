-------------------------------- MODULE TlsfMC --------------------------------
(***************************************************************************)
(* Three programs in one run: the trace driver; one that calls everything  *)
(* in tlsf.c; and one that only puts records into a tree and takes them    *)
(* out, with more keys than the driver has.                                *)
(***************************************************************************)
EXTENDS TraceDriver

CONSTANTS
  Sizes, Pool, NewAreas, MaxLive,  \* of the program
  TreeKeys                         \* of the tree

VARIABLES
  live, added,
  program,
  filled    \* history: an area was put into the gap between two others

Caller == INSTANCE TlsfProgram

MCvars == <<vars, live, added, program, filled>>

MCInit ==
  /\ filled = FALSE
  /\ \/ /\ program = "driver" /\ Init
        /\ live = <<>> /\ added = {}
     \/ /\ program = "caller" /\ Caller!Init
        /\ rectree = empty_tree /\ record = <<>> /\ stats = no_stats /\ ended = FALSE
     \/ /\ program = "tree" /\ heap = no_heap
        /\ rectree = empty_tree /\ record = <<>> /\ stats = no_stats /\ ended = FALSE
        /\ live = <<>> /\ added = {}

use_tree ==
  \E key \in TreeKeys :
    rectree' = IF RB_FIND(rectree, key) = Nil THEN RB_INSERT(rectree, key) ELSE RB_REMOVE(rectree, key)

MCNext ==
  /\ UNCHANGED program
  /\ \/ /\ program = "driver" /\ Next
        /\ UNCHANGED <<live, added>>
     \/ /\ program = "caller" /\ Caller!Next
        /\ UNCHANGED <<rectree, record, stats, ended>>
     \/ /\ program = "tree" /\ use_tree
        /\ UNCHANGED <<heap, record, stats, ended, live, added>>
  /\ filled' = (filled \/ Len(heap'.areas) < Len(heap.areas))

MCSpec == MCInit /\ [][MCNext]_MCvars

MiddlePool == [at |-> 12, size |-> 22]
(* The memory above the break, 46, is the third neighbour of the pool.     *)
BeforeAndAfter == {[at |-> 0, size |-> 12], [at |-> 34, size |-> 12]}
(* In the order of examples/test3.c the area at 34 is the last, between    *)
(* the pool that the area at 0 has joined and the one at 46.               *)
AsInTest3 == BeforeAndAfter \cup {[at |-> 46, size |-> 14]}
-----------------------------------------------------------------------------
(* After any calls of tlsf.c the blocks tile the areas of the heap and no  *)
(* header takes a used block in front of it for a free one.  As long as no *)
(* area filled a gap no two neighbours are free either: what an area joins,*)
(* a realloc cuts off or a free gives back is merged with both.            *)
HeapTiled ==
  program # "tree" => heap_tiled(heap) /\ (filled \/ neighbours_merged(heap))

(* Whatever the order of its areas, a program that holds no block has one  *)
(* free block in each stretch of areas that touch: "we have to merge this  *)
(* area with the already existing ones" (add_new_area), and test3.c asks   *)
(* for a block of two areas.                                               *)
AreasMerged ==
  program = "caller" /\ live = <<>> => Cardinality(free_blocks(heap)) = Len(heap.areas)

(* The lists and the bitmap are an exact index of the free blocks, so that *)
(* a call that finds no list has no block of a class that surely fits.     *)
FreeBlocksIndexed == program # "tree" => free_blocks_indexed(heap)

(* The records are in a red-black search tree of the keys, whatever was    *)
(* inserted and removed in which order, and every walk through it is right.*)
TreeBalanced == is_search_tree_of(rectree, keys_of(rectree))

(* What the driver keeps of every object is true, TraceAccounted; and the  *)
(* caller's blocks are used, its own, and as large as it asked for.        *)
ObjectsHeld ==
  /\ program = "driver" => TraceAccounted
  /\ program = "caller" => \A b \in DOMAIN live : used(b) /\ heap.hdr[b].size >= live[b]
=============================================================================
