----------------------------- MODULE PageLayout -----------------------------
(***************************************************************************)
(* From a request of so many bytes to a block in a page: cf_malloc's sizes,*)
(* the size-class, the blocks its pages are cut into, the bitmap that      *)
(* tells which are used, and the two fields at the end of a block.         *)
(*                                                                         *)
(* Other modules take a page's used blocks for a set and every object for  *)
(* one that fits its block: this is where both are justified.              *)
(***************************************************************************)
EXTENDS SizeMap, PageBitmap

CONSTANTS
  Requests,    \* bound: the sizes the program asks for
  PagedSizes,  \* bound: those of them for which a page is filled and emptied
  Increments   \* values of incremental_memcpy, 0 for off

ASSUME RequestAssumption == Requests \subseteq Nat /\ PagedSizes \subseteq Requests
(* cf_init takes any number, but fields overlap when it is not a multiple. *)
ASSUME IncrementAssumption == Increments \subseteq {4 * i : i \in 0 .. PAGEDATASIZE}

VARIABLES
  incremental_memcpy,
  request,  \* the bytes asked for, -1 before the first
  sc,       \* the class cf_malloc chose
  bitmap,   \* used_page_block_bitmap of a page of that class
  nr_used   \* nr_used_page_blocks of that page

vars == <<incremental_memcpy, request, sc, bitmap, nr_used>>

WORD == 4  \* sizeof(uint32_t), sizeof(long): the build is for 32 bits

(* cf_malloc makes room for the abstract address and, if the size calls    *)
(* for it, for the partition field.  Fault: for the address only.          *)
padded_size_without_partition(n, inc) == n + WORD
padded_size(n, inc) ==
  LET size == n + WORD IN IF inc # 0 /\ size > inc THEN size + WORD ELSE size

page_block_size(c) == size_class_2_size_map[c]
page_blocks(c) == PAGEDATASIZE \div page_block_size(c)

(* check_for_concurrent_compaction goes by the size of the block.          *)
has_partition_field(c) == incremental_memcpy # 0 /\ page_block_size(c) > incremental_memcpy

(* Where in a block set_ and get_abstract_address(_of_page_block) and set_ *)
(* and get_partition_field(_of_page_block) find their words.               *)
abstract_address_at(c) == page_block_size(c) - WORD
partition_field_at(c) == page_block_size(c) - 2 * WORD

Init ==
  /\ incremental_memcpy \in Increments
  /\ request = -1
  /\ sc = 0
  /\ bitmap = empty_bitmap
  /\ nr_used = 0

(* cf_malloc finds the class and gets a page of the pool for it. *)
get_size_class(n) ==
  /\ request = -1
  /\ request' = n
  /\ sc' \in get_size_class_index(padded_size(n, incremental_memcpy))
  /\ UNCHANGED <<incremental_memcpy, bitmap, nr_used>>

paged == request \in PagedSizes /\ page_blocks(sc) <= Bits * Bits

malloc_block ==
  /\ paged
  /\ nr_used < page_blocks(sc)
  /\ bitmap' = get_free_page_block(bitmap)
  /\ nr_used' = nr_used + 1
  /\ UNCHANGED <<incremental_memcpy, request, sc>>

free_used_page_block(i) ==
  /\ paged
  /\ i \in blocks_of(bitmap)
  /\ bitmap' = page_clear_used_bit(bitmap, i)
  /\ nr_used' = nr_used - 1
  /\ UNCHANGED <<incremental_memcpy, request, sc>>

(* get_source_page and do_compaction: the object of some used block moves. *)
move_used_page_block ==
  /\ paged
  /\ nr_used > 0
  /\ bitmap' = page_clear_used_bit(bitmap, find_used_page_block(bitmap))
  /\ nr_used' = nr_used - 1
  /\ UNCHANGED <<incremental_memcpy, request, sc>>

Next ==
  \/ \E n \in Requests : get_size_class(n)
  \/ malloc_block
  \/ \E i \in 0 .. Bits * Bits - 1 : free_used_page_block(i)
  \/ move_used_page_block

Spec == Init /\ [][Next]_vars
-----------------------------------------------------------------------------
(* Every class has a size, and a request gets the smallest block with room *)
(* for it and one byte more, except at the two ends the table of cf.c does *)
(* not cover: a padded size of exactly LARGESTSC reads past the table, and *)
(* one above PAGEDATASIZE gets a block that is too small.                  *)
BlockHoldsRequest ==
  LET size == padded_size(request, incremental_memcpy)
  IN  /\ tables_fit
      /\ \A c \in 0 .. SIZECLASSES - 1 : page_block_size(c) > 0
      /\ request >= 0 /\ size # LARGESTSC /\ size <= PAGEDATASIZE =>
           /\ size <= page_block_size(sc)
           /\ \A c \in 0 .. SIZECLASSES - 1 : page_block_size(c) > size =>
                page_block_size(sc) <= page_block_size(c)

(* The bytes of the object, the partition field, if compactions will look  *)
(* for one, and the abstract address do not overlap, though the room for   *)
(* the field is made by the size of the request and the field is used by   *)
(* the size of the block: incremental_memcpy has to be a multiple of 4.    *)
FieldsApart ==
  LET size == padded_size(request, incremental_memcpy)
  IN  request >= 0 /\ size # LARGESTSC /\ size <= PAGEDATASIZE =>
        request <= IF has_partition_field(sc) THEN partition_field_at(sc)
                   ELSE abstract_address_at(sc)

(* The bitmap of a page is one of its blocks: as many bits as the counter  *)
(* says, all of them inside the page, both upper words right, and a full   *)
(* page is the only one without a free bit for a block; the two ways to    *)
(* find a bit agree.                                                       *)
LevelsAgree ==
  /\ bitmap \in BitmapType
  /\ levels_agree(bitmap)
  /\ nr_used = Cardinality(blocks_of(bitmap))
  /\ request >= 0 => blocks_of(bitmap) \subseteq 0 .. page_blocks(sc) - 1
  /\ \A w \in Bit : _ffs_unoptimized(bitmap.words[w]) = _ffs(bitmap.words[w])

(* On the set of used blocks cf.c's bitmap does what SizeClass takes for   *)
(* granted: the lowest free block is taken, the lowest used one moved.     *)
ActsOnASet ==
  [][LET used == blocks_of(bitmap)
     IN  /\ malloc_block => blocks_of(bitmap') = used \cup {Min((0 .. page_blocks(sc) - 1) \ used)}
         /\ move_used_page_block => blocks_of(bitmap') = used \ {Min(used)}]_vars
=============================================================================
