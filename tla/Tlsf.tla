--------------------------------- MODULE Tlsf ---------------------------------
(***************************************************************************)
(* The allocator of tlsf.c, with which cf.c is compared: lists of free     *)
(* blocks by size under a bitmap of two levels, and headers in front of    *)
(* every block that lead to its two neighbours.                            *)
(*                                                                         *)
(* A heap is a record and every function of tlsf.c an operator from a heap *)
(* to a heap: the callers (examples, the trace driver) are modules of      *)
(* their own.  A pointer to a block is the address of its header.          *)
(***************************************************************************)
EXTENDS Integers, Sequences, FiniteSets, FiniteSetsExt, SequencesExt, Functions, TLC

CONSTANTS
  BLOCK_ALIGN, MIN_BLOCK_SIZE, BHDR_OVERHEAD,
  AREA_INFO_SIZE,           \* sizeof(area_info_t)
  MAX_LOG2_SLI, SMALL_BLOCK, FLI_OFFSET, MAX_FLI,
  DEFAULT_AREA_SIZE,
  BRK, BRK_LIMIT,           \* the break of the process, and how far sbrk moves it
  NULL

ASSUME TlsfAssumption ==
  /\ {BLOCK_ALIGN, MIN_BLOCK_SIZE, BHDR_OVERHEAD, AREA_INFO_SIZE} \subseteq Nat \ {0}
  /\ {MAX_LOG2_SLI, FLI_OFFSET, MAX_FLI} \subseteq Nat \ {0}
  /\ \A n \in {MIN_BLOCK_SIZE, BHDR_OVERHEAD} : n % BLOCK_ALIGN = 0
  /\ SMALL_BLOCK = 2 ^ (FLI_OFFSET + 1) /\ SMALL_BLOCK % (2 ^ MAX_LOG2_SLI) = 0
  /\ FLI_OFFSET < MAX_FLI
  /\ {DEFAULT_AREA_SIZE, BRK, BRK_LIMIT} \subseteq Nat
  /\ NULL \notin Nat

MAX_SLI == 2 ^ MAX_LOG2_SLI
REAL_FLI == MAX_FLI - FLI_OFFSET
BHDR == BHDR_OVERHEAD + MIN_BLOCK_SIZE  \* sizeof(bhdr_t)

Class == (0 .. REAL_FLI - 1) \X (0 .. MAX_SLI - 1)

ROUNDUP_SIZE(r) == ((r + BLOCK_ALIGN - 1) \div BLOCK_ALIGN) * BLOCK_ALIGN
ROUNDDOWN_SIZE(r) == (r \div BLOCK_ALIGN) * BLOCK_ALIGN
block_size(r) == IF r < MIN_BLOCK_SIZE THEN MIN_BLOCK_SIZE ELSE ROUNDUP_SIZE(r)

(* struct bhdr_struct.  prev_hdr counts only while prev_free is set, and   *)
(* prev and next only while free is: the rest of the time they are NULL.   *)
header(size, free, prev_free, prev_hdr) ==
  [size |-> size, free |-> free, prev_free |-> prev_free, prev_hdr |-> prev_hdr,
   prev |-> NULL, next |-> NULL]

(* struct TLSF_struct and the headers in the memory it manages; areas is   *)
(* the list area_head, max_size is left out; brk is the process's.         *)
no_heap ==
  [hdr |-> <<>>, fl_bitmap |-> {}, sl_bitmap |-> [fl \in 0 .. REAL_FLI - 1 |-> {}],
   matrix |-> [c \in Class |-> NULL], areas |-> <<>>, used_size |-> 0,
   brk |-> BRK]

next_block(h, b) == b + BHDR_OVERHEAD + h.hdr[b].size
is_free(h, b) == h.hdr[b].free

with_header(h, b, r) ==
  [h EXCEPT !.hdr = [x \in DOMAIN @ \cup {b} |-> IF x = b THEN r ELSE @[x]]]
without_header(h, b) == [h EXCEPT !.hdr = Restrict(@, DOMAIN @ \ {b})]

TLSF_ADD_SIZE(h, b) == [h EXCEPT !.used_size = @ + h.hdr[b].size + BHDR_OVERHEAD]
TLSF_REMOVE_SIZE(h, b) == [h EXCEPT !.used_size = @ - h.hdr[b].size - BHDR_OVERHEAD]
-----------------------------------------------------------------------------
ms_bit(r) == IF r = 0 THEN -1 ELSE CHOOSE k \in 0 .. MAX_FLI : 2 ^ k <= r /\ r < 2 ^ (k + 1)
ls_bit(bits) == IF bits = {} THEN -1 ELSE Min(bits)

MAPPING_INSERT(r) ==
  IF r < SMALL_BLOCK THEN <<0, r \div (SMALL_BLOCK \div MAX_SLI)>>
  ELSE LET fl == ms_bit(r) IN <<fl - FLI_OFFSET, r \div 2 ^ (fl - MAX_LOG2_SLI) - MAX_SLI>>

(* The size to look for and the class in which every block has it.  Fault: *)
(* the size is not rounded up to that of a class.                          *)
MAPPING_SEARCH_exact(r) == [size |-> r, class |-> MAPPING_INSERT(r)]
MAPPING_SEARCH(r) ==
  IF r < SMALL_BLOCK THEN [size |-> r, class |-> MAPPING_INSERT(r)]
  ELSE LET t == 2 ^ (ms_bit(r) - MAX_LOG2_SLI)
           s == r + t - 1
       IN  [size |-> s - (s % t), class |-> MAPPING_INSERT(s)]

(* The first class from c on that has a block, <<-1, -1>> if none has.     *)
FIND_SUITABLE_CLASS(h, c) ==
  LET same   == {sl \in h.sl_bitmap[c[1]] : sl >= c[2]}
      higher == ls_bit({fl \in h.fl_bitmap : fl > c[1]})
  IN  IF same # {} THEN <<c[1], ls_bit(same)>>
      ELSE IF higher > 0 THEN <<higher, ls_bit(h.sl_bitmap[higher])>>
      ELSE <<-1, -1>>

(* The last block of class c is gone.  Fault: the first level still has it.*)
clear_bits_sl(h, c) == [h EXCEPT !.matrix[c] = NULL, !.sl_bitmap[c[1]] = @ \ {c[2]}]
clear_bits(h, c) ==
  LET left == h.sl_bitmap[c[1]] \ {c[2]}
  IN  [h EXCEPT !.matrix[c] = NULL, !.sl_bitmap[c[1]] = left,
                !.fl_bitmap = IF left = {} THEN @ \ {c[1]} ELSE @]

unlinked(h, b) == [h EXCEPT !.hdr[b].prev = NULL, !.hdr[b].next = NULL]

EXTRACT_BLOCK_HDR(h, b, c) ==
  LET second == h.hdr[b].next
  IN  unlinked(IF second = NULL THEN clear_bits(h, c)
               ELSE [h EXCEPT !.matrix[c] = second, !.hdr[second].prev = NULL], b)

EXTRACT_BLOCK(h, b, c) ==
  LET p  == h.hdr[b].prev
      n  == h.hdr[b].next
      h1 == IF n # NULL THEN [h EXCEPT !.hdr[n].prev = p] ELSE h
      h2 == IF p # NULL THEN [h1 EXCEPT !.hdr[p].next = n] ELSE h1
  IN  unlinked(IF h2.matrix[c] # b THEN h2
               ELSE IF n = NULL THEN clear_bits(h2, c)
               ELSE [h2 EXCEPT !.matrix[c] = n], b)

INSERT_BLOCK(h, b, c) ==
  LET first == h.matrix[c]
      h1    == IF first # NULL THEN [h EXCEPT !.hdr[first].prev = b] ELSE h
  IN  [h1 EXCEPT !.hdr[b].prev = NULL, !.hdr[b].next = first, !.matrix[c] = b,
                 !.sl_bitmap[c[1]] = @ \cup {c[2]}, !.fl_bitmap = @ \cup {c[1]}]

extract_free(h, b) == EXTRACT_BLOCK(h, b, MAPPING_INSERT(h.hdr[b].size))
insert_free(h, b) == INSERT_BLOCK(h, b, MAPPING_INSERT(h.hdr[b].size))
-----------------------------------------------------------------------------
(* b grows over its neighbour n, whose header is now part of b. *)
absorb(h, b, n) ==
  without_header([h EXCEPT !.hdr[b].size = @ + h.hdr[n].size + BHDR_OVERHEAD], n)

(* What b has beyond size becomes a free block, if it is enough for one.   *)
splits(h, b, size) == h.hdr[b].size - size >= BHDR
split(h, b, size) ==
  LET b2   == b + BHDR_OVERHEAD + size
      rest == h.hdr[b].size - size - BHDR_OVERHEAD
  IN  insert_free(with_header([h EXCEPT !.hdr[next_block(h, b)].prev_hdr = b2,
                                        !.hdr[b].size = size, !.hdr[b].free = FALSE],
                              b2, header(rest, TRUE, FALSE, NULL)), b2)

prev_is_used(h, b) == [h EXCEPT !.hdr[b].prev_free = FALSE, !.hdr[b].prev_hdr = NULL]

(* The free block behind b, and the one in front, become one with b. *)
join_next(h, b) ==
  LET n == next_block(h, b)
  IN  IF is_free(h, n) THEN absorb(extract_free(h, n), b, n) ELSE h

start_of_free(h, b) == IF h.hdr[b].prev_free THEN h.hdr[b].prev_hdr ELSE b

join_prev(h, b) ==
  LET p == h.hdr[b].prev_hdr
  IN  IF h.hdr[b].prev_free THEN absorb(extract_free(h, p), p, b) ELSE h

told(h, f) ==
  [h EXCEPT !.hdr[next_block(h, f)].prev_free = TRUE, !.hdr[next_block(h, f)].prev_hdr = f]

free_ex(h, b) ==
  LET h1 == join_next(TLSF_REMOVE_SIZE([h EXCEPT !.hdr[b].free = TRUE], b), b)
      f  == start_of_free(h1, b)
  IN  told(insert_free(join_prev(h1, b), f), f)

-----------------------------------------------------------------------------
(* An area starts with a used block that holds its area_info_t and ends    *)
(* with one of size 0; what is between them is one used block.             *)
process_area(h, area, size) ==
  LET ib_size == IF AREA_INFO_SIZE < MIN_BLOCK_SIZE THEN MIN_BLOCK_SIZE
                 ELSE ROUNDUP_SIZE(AREA_INFO_SIZE)
      b_size  == ROUNDDOWN_SIZE(size - 3 * BHDR_OVERHEAD - ib_size)
      b       == area + BHDR_OVERHEAD + ib_size
      lb      == b + BHDR_OVERHEAD + b_size
      h1      == with_header(h, area, header(ib_size, FALSE, FALSE, NULL))
      h2      == with_header(h1, b, header(b_size, FALSE, FALSE, NULL))
  IN  [heap |-> with_header(h2, lb, header(0, FALSE, TRUE, b)),
       ib |-> area, b |-> b, lb |-> lb]

(* tlsf_t is in front of the area, and not among the addresses.            *)
init_memory_pool(area, size) ==
  LET new  == process_area(no_heap, area, ROUNDDOWN_SIZE(size))
      h    == free_ex(new.heap, new.b)
  IN  [h EXCEPT !.areas = <<[ib |-> new.ib, end |-> new.lb]>>,
                !.used_size = size - h.hdr[new.b].size]

(* One round of the loop of add_new_area: the new area joins the area ai   *)
(* that follows it, the one that precedes it, or neither.  What it joins   *)
(* with the area that follows it no longer knows of a free block in front. *)
join(new, ai) ==
  LET h  == new.heap
      b1 == next_block(h, ai.ib)
      after  == [h EXCEPT !.hdr[new.b] = header(ROUNDDOWN_SIZE(@.size + h.hdr[ai.ib].size
                                                                + 2 * BHDR_OVERHEAD),
                                                FALSE, FALSE, NULL),
                          !.hdr[b1].prev_hdr = new.b]
      before == [h EXCEPT !.hdr[ai.end].size = ROUNDDOWN_SIZE(h.hdr[new.b].size
                                                 + h.hdr[new.ib].size + 2 * BHDR_OVERHEAD),
                          !.hdr[next_block(h, new.b)].prev_hdr = ai.end]
  IN  IF ai.ib = new.lb + BHDR_OVERHEAD
      THEN [new EXCEPT !.heap = without_header(without_header(after, new.lb), ai.ib),
                       !.lb = ai.end]
      ELSE IF ai.end + BHDR_OVERHEAD = new.ib
      THEN [new EXCEPT !.heap = without_header(without_header(before, new.b), new.ib),
                       !.b = ai.end, !.ib = ai.ib]
      ELSE [new EXCEPT !.heap.areas = Append(@, ai)]

add_new_area(h, area, size) ==
  LET new == FoldLeft(join, process_area([h EXCEPT !.areas = <<>>], area, size), h.areas)
  IN  free_ex([new.heap EXCEPT !.areas = <<[ib |-> new.ib, end |-> new.lb]>> \o @], new.b)
-----------------------------------------------------------------------------
(* The build has USE_SBRK and USE_MMAP: a pool without a block for a call  *)
(* gets one more area, of the memory above the break.  Where there is none *)
(* left mmap fails as well.                                                *)
get_new_area(h, size) ==
  [ok |-> h.brk + size <= BRK_LIMIT, area |-> h.brk, heap |-> [h EXCEPT !.brk = @ + size]]

grown(h, size) ==
  LET area_size == Max({size + 8 * BHDR_OVERHEAD, DEFAULT_AREA_SIZE})
      new       == get_new_area(h, area_size)
  IN  IF new.ok THEN add_new_area(new.heap, new.area, area_size) ELSE h

(* The rest of malloc_ex, when b is the first block of class c. *)
take_block(h, b, c, size) ==
  LET h1 == EXTRACT_BLOCK_HDR(h, b, c)
      h2 == IF splits(h1, b, size) THEN split(h1, b, size)
            ELSE prev_is_used([h1 EXCEPT !.hdr[b].free = FALSE], next_block(h1, b))
  IN  [heap |-> TLSF_ADD_SIZE(h2, b), ptr |-> b]

take_first(h, c, size) ==
  IF c \in Class THEN take_block(h, h.matrix[c], c, size) ELSE [heap |-> h, ptr |-> NULL]

search(h, size) ==
  LET want == MAPPING_SEARCH(size)
  IN  take_first(h, FIND_SUITABLE_CLASS(h, want.class), want.size)

malloc_ex(h, request) ==
  LET want == MAPPING_SEARCH(block_size(request))
  IN  IF FIND_SUITABLE_CLASS(h, want.class) \in Class THEN search(h, block_size(request))
      ELSE search(grown(h, want.size), want.size)

(* realloc_ex where the block itself, with a free one behind it, will do:  *)
(* what is too much is cut off.  Fault: the block behind takes it for used.*)
cut_untold(h, b, size) == IF splits(h, b, size) THEN split(h, b, size) ELSE h
cut(h, b, size) ==
  IF splits(h, b, size)
  THEN [split(h, b, size) EXCEPT !.hdr[next_block(h, b)].prev_free = TRUE] ELSE h

resize(h, b, size) ==
  LET n  == next_block(h, b)
      h1 == TLSF_REMOVE_SIZE(h, b)
      h2 == IF is_free(h, n) THEN prev_is_used(join_next(h1, b), next_block(h, n)) ELSE h1
  IN  TLSF_ADD_SIZE(cut(h2, b, size), b)

(* The block behind may be needed for it, but its header does not count.   *)
resizable(h, b, size) ==
  LET n == next_block(h, b)
  IN  \/ size <= h.hdr[b].size
      \/ is_free(h, n) /\ size <= h.hdr[b].size + h.hdr[n].size

(* Where there is no other block for the copy memcpy writes to NULL.       *)
crash == [heap |-> no_heap, ptr |-> NULL]

moved(b, m) == IF m.ptr = NULL THEN crash ELSE [m EXCEPT !.heap = free_ex(@, b)]

realloc_ex(h, b, new_size) ==
  LET size == block_size(new_size)
  IN  IF b = NULL
      THEN IF new_size = 0 THEN [heap |-> h, ptr |-> NULL] ELSE malloc_ex(h, new_size)
      ELSE IF new_size = 0 THEN [heap |-> free_ex(h, b), ptr |-> NULL]
      ELSE IF resizable(h, b, size) THEN [heap |-> resize(h, b, size), ptr |-> b]
      ELSE moved(b, malloc_ex(h, size))

(* tlsf_malloc gives a large object less than it asks for; the other calls *)
(* do not come here.                                                       *)
capped(size) == IF size > 16384 THEN 16000 ELSE size

calloc_ex(h, nelem, elem_size) ==
  IF nelem = 0 \/ elem_size = 0 THEN [heap |-> h, ptr |-> NULL]
  ELSE malloc_ex(h, nelem * elem_size)
-----------------------------------------------------------------------------
(* The blocks of an area in print_all_blocks' order.                       *)
blocks_from(h, ib) ==
  LET walk[n \in 0 .. Cardinality(DOMAIN h.hdr)] ==
        IF n = 0 THEN <<ib>>
        ELSE LET w == walk[n - 1]
             IN  IF h.hdr[Last(w)].size = 0 THEN w ELSE Append(w, next_block(h, Last(w)))
  IN  walk[Cardinality(DOMAIN h.hdr)]

all_blocks(h) == [i \in DOMAIN h.areas |-> blocks_from(h, h.areas[i].ib)]

(* The blocks of a list in print_tlsf's order. *)
listed(h, c) ==
  LET walk[n \in 0 .. Cardinality(DOMAIN h.hdr)] ==
        [b \in DOMAIN h.hdr \cup {NULL} |->
           IF n = 0 \/ b = NULL THEN <<>> ELSE <<b>> \o walk[n - 1][h.hdr[b].next]]
  IN  walk[Cardinality(DOMAIN h.hdr)][h.matrix[c]]

free_blocks(h) == {b \in DOMAIN h.hdr : h.hdr[b].free}
-----------------------------------------------------------------------------
(* The blocks tile their areas without a gap or an overlap, and a header   *)
(* that says the block before it is free is right, and knows where it      *)
(* starts.                                                                 *)
heap_tiled(h) ==
  LET areas == all_blocks(h)
  IN  /\ DOMAIN h.hdr = UNION {ToSet(areas[i]) : i \in DOMAIN areas}
      /\ Cardinality(DOMAIN h.hdr) = FoldLeft(LAMBDA n, a : n + Len(a), 0, areas)
      /\ \A i \in DOMAIN areas :
           LET a == areas[i]
           IN  /\ a[Len(a)] = h.areas[i].end /\ ~h.hdr[a[1]].free /\ ~h.hdr[h.areas[i].end].free
               /\ \A j \in 2 .. Len(a) :
                    /\ h.hdr[a[j]].prev_free => h.hdr[a[j - 1]].free /\ h.hdr[a[j]].prev_hdr = a[j - 1]
                    /\ h.hdr[a[j]].size >= MIN_BLOCK_SIZE \/ j = Len(a)

(* The block behind a free block is used, and has been told.               *)
neighbours_merged(h) ==
  LET areas == all_blocks(h)
  IN  \A i \in DOMAIN areas : \A j \in 2 .. Len(areas[i]) :
        h.hdr[areas[i][j - 1]].free => h.hdr[areas[i][j]].prev_free /\ ~h.hdr[areas[i][j]].free

(* Every free block is once in a list, that of its size, with links both   *)
(* ways, and both levels of bits say which lists have blocks.              *)
free_blocks_indexed(h) ==
  /\ \A b \in free_blocks(h) :
       Cardinality({i \in DOMAIN listed(h, MAPPING_INSERT(h.hdr[b].size)) :
                      listed(h, MAPPING_INSERT(h.hdr[b].size))[i] = b}) = 1
  /\ Cardinality(free_blocks(h)) =
       MapThenSumSet(LAMBDA c : Len(listed(h, c)), Class)
  /\ \A b \in free_blocks(h) :
       LET n == h.hdr[b].next
       IN  n # NULL => h.hdr[n].prev = b
  /\ \A fl \in 0 .. REAL_FLI - 1 :
       /\ h.sl_bitmap[fl] = {sl \in 0 .. MAX_SLI - 1 : h.matrix[<<fl, sl>>] # NULL}
       /\ fl \in h.fl_bitmap <=> h.sl_bitmap[fl] # {}
=============================================================================
