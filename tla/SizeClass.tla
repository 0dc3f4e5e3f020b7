----------------------------- MODULE SizeClass -----------------------------
(***************************************************************************)
(* One size-class of compact-fit (struct size_class and struct page in     *)
(* cf.c): the pages of the class, the lists they are kept on, the used     *)
(* bitmap of every page and the operations of cf.c on them.  Everything    *)
(* here runs inside one critical section of the size-class lock, so the    *)
(* operations are operators from one size-class record to the next; the    *)
(* module CompactFit strings them together into the critical sections of   *)
(* cf_malloc and cf_free.                                                  *)
(*                                                                         *)
(* head_full_pages and head_emptying_pages are only ever added to and      *)
(* removed from, never read in order: a page's list_flags says it is       *)
(* there.  nfullentries is Len(nfull).                                     *)
(***************************************************************************)
EXTENDS Integers, Sequences, FiniteSets, SequencesExt

CONSTANTS
  Page,                   \* the pages this class can draw from the page pool
  PageBlocks,             \* PAGEDATASIZE / page_block_size
  PartialCompactionBound  \* k of cf_init, the bound on not-full pages

ASSUME PageBlocksAssumption == PageBlocks \in Nat \ {0}
(* cf_init asserts partial_compaction_bound > 0; -1, "no compaction", takes *)
(* a path of its own through cf_free and is not modelled here.              *)
ASSUME BoundAssumption == PartialCompactionBound \in Nat \ {0}

Index == 0 .. PageBlocks - 1
Block == Page \X Index
page_of(b) == b[1]
index_of(b) == b[2]

(* list_flags: 0 is on no list, free is in the page pool. *)
ListFlag == {"none", "nfull", "full", "source", "emptying", "free"}

SizeClassType ==
  [ list_flags    : [Page -> ListFlag],
    nfull         : Seq(Page),            \* head_nfull_pages, head first
    source        : Seq(Page),            \* head_source_pages, head first
    used          : [Page -> SUBSET Index], \* used_page_block_bitmap
    nr_used       : [Page -> Int],        \* nr_used_page_blocks
    sourceentries : [Page -> Int],        \* blocks of the page being copied
    ok            : BOOLEAN ]

init_size_class ==
  [ list_flags    |-> [p \in Page |-> "free"],
    nfull         |-> <<>>,
    source        |-> <<>>,
    used          |-> [p \in Page |-> {}],
    nr_used       |-> [p \in Page |-> 0],
    sourceentries |-> [p \in Page |-> 0],
    ok            |-> TRUE ]

(* A C assertion c before an update g.  ok also drops where the C would be *)
(* undefined: unlinking a page from a list it is not on, taking the head   *)
(* of an empty list or a bit of a bitmap that has none.  Once ok is FALSE  *)
(* the program is gone and h stays.                                        *)
expect(h, c, g) == IF h.ok /\ c THEN g ELSE [h EXCEPT !.ok = FALSE]

-----------------------------------------------------------------------------
(* list.h *)
list_add(s, p) == <<p>> \o s
on_list(s, p) == \E i \in 1 .. Len(s) : s[i] = p
list_del(s, p) == RemoveAt(s, CHOOSE i \in 1 .. Len(s) : s[i] = p)

add_page_to_nfull_list(h, p) ==
  expect(h, h.list_flags[p] = "none",
         [h EXCEPT !.list_flags[p] = "nfull", !.nfull = list_add(@, p)])

remove_page_from_nfull_list(h, p) ==
  expect(h, h.list_flags[p] = "nfull" /\ on_list(h.nfull, p),
         [h EXCEPT !.list_flags[p] = "none", !.nfull = list_del(@, p)])

add_page_to_full_list(h, p) ==
  expect(h, h.list_flags[p] = "none", [h EXCEPT !.list_flags[p] = "full"])

remove_page_from_full_list(h, p) ==
  expect(h, h.list_flags[p] = "full", [h EXCEPT !.list_flags[p] = "none"])

add_page_to_source_list(h, p) ==
  expect(h, h.list_flags[p] = "none",
         [h EXCEPT !.list_flags[p] = "source", !.source = list_add(@, p)])

remove_page_from_source_list(h, p) ==
  expect(h, h.list_flags[p] = "source" /\ on_list(h.source, p),
         [h EXCEPT !.list_flags[p] = "none", !.source = list_del(@, p)])

add_page_to_emptying_list(h, p) ==
  expect(h, h.list_flags[p] = "none", [h EXCEPT !.list_flags[p] = "emptying"])

remove_page_from_emptying_list(h, p) ==
  expect(h, h.list_flags[p] = "emptying", [h EXCEPT !.list_flags[p] = "none"])

(* The page pool, as this class sees it: any free page may come out. *)
free_pages(h) == {p \in Page : h.list_flags[p] = "free"}

get_free_page(h, p) ==
  expect(h, h.list_flags[p] = "free",
         [h EXCEPT !.list_flags[p] = "none", !.nr_used[p] = 0])

add_free_page(h, p) ==
  expect(h, h.list_flags[p] = "none", [h EXCEPT !.list_flags[p] = "free"])

-----------------------------------------------------------------------------
(* The bitmap of a page.  _ffs finds the lowest bit, free or used. *)
is_page_full(h, p) == h.nr_used[p] = PageBlocks

free_index(h, p) == Min(Index \ h.used[p])

get_free_page_block(h, p) ==
  expect(h, Index \ h.used[p] # {},
         [h EXCEPT !.used[p] = @ \cup {free_index(h, p)}, !.nr_used[p] = @ + 1])

find_used_page_block(h, p) == Min(h.used[p])

(* Fault: the block that is being copied keeps its used bit. *)
page_clear_used_bit_missing(h, p, i) == h
page_clear_used_bit(h, p, i) ==
  expect(h, i \in h.used[p], [h EXCEPT !.used[p] = @ \ {i}])

free_used_page_block(h, p, i) ==
  expect(h, i \in h.used[p] /\ h.nr_used[p] > 0,
         [h EXCEPT !.used[p] = @ \ {i}, !.nr_used[p] = @ - 1])

-----------------------------------------------------------------------------
(* The state of the class and the pages it takes blocks from. *)
nfullentries(h) == Len(h.nfull)

valid_nfull_pages_ratio(h, add) == nfullentries(h) + add <= PartialCompactionBound

in_full_state(h) == nfullentries(h) = 0 /\ h.source = <<>>

(* Allocation takes the tail of the not-full list, or a page of the pool. *)
malloc_pages(h) == IF h.nfull = <<>> THEN free_pages(h) ELSE {Last(h.nfull)}

(* Compaction takes the head of the source list, else of the not-full list. *)
(* Fault: a new source page is begun as long as there are not-full pages.   *)
source_begun_late(h) == h.nfull = <<>>
source_begun(h) == h.source # <<>>
source_page(h) == IF source_begun(h) THEN Head(h.source) ELSE Head(h.nfull)

get_source_page(h) ==
  LET p     == source_page(h)
      taken == [h EXCEPT !.nr_used[p] = @ - 1]
      last  == taken.nr_used[p] = 0
      moved == IF source_begun(h)
               THEN IF last
                    THEN add_page_to_emptying_list(remove_page_from_source_list(taken, p), p)
                    ELSE taken
               ELSE LET out == remove_page_from_nfull_list(taken, p)
                    IN  IF last THEN add_page_to_emptying_list(out, p)
                                ELSE add_page_to_source_list(out, p)
  IN  expect(h, h.source # <<>> \/ h.nfull # <<>>,
             [moved EXCEPT !.sourceentries[p] = @ + 1])

-----------------------------------------------------------------------------
(* Freeing a block in the three states of a class.                        *)

(* A copy from page p is over: with none left the page is a page again.   *)
do_free_source_state(h, p) ==
  IF h.sourceentries[p] # 0 THEN h
  ELSE IF h.nr_used[p] = 0
       THEN add_free_page(remove_page_from_emptying_list(h, p), p)
       ELSE add_page_to_nfull_list(remove_page_from_source_list(h, p), p)

(* --src_page->sourceentries; do_free_source_state(sc, src_page) *)
release_source_page(h, p) ==
  do_free_source_state([h EXCEPT !.sourceentries[p] = @ - 1], p)

do_free_full_state(h, p, i) ==
  LET freed == remove_page_from_full_list(free_used_page_block(h, p, i), p)
  IN  IF freed.nr_used[p] = 0 THEN add_free_page(freed, p)
                              ELSE add_page_to_nfull_list(freed, p)

(* Fault: a page whose last block goes while others are still being copied *)
(* out of it stays a source.                                               *)
do_free_nfull_state_stays(h, p, i) ==
  LET freed == free_used_page_block(h, p, i)
  IN  IF h.nr_used[p] # 1 \/ h.sourceentries[p] # 0 THEN freed
      ELSE add_free_page(remove_page_from_nfull_list(freed, p), p)

do_free_nfull_state(h, p, i) ==
  LET freed == free_used_page_block(h, p, i)
  IN  IF h.nr_used[p] # 1 THEN freed
      ELSE IF h.sourceentries[p] = 0
           THEN add_free_page(remove_page_from_nfull_list(freed, p), p)
           ELSE add_page_to_emptying_list(remove_page_from_source_list(freed, p), p)

do_free(h, p, i) ==
  IF is_page_full(h, p) THEN do_free_full_state(h, p, i)
                        ELSE do_free_nfull_state(h, p, i)

(* The in-full-state branch of cf_free for a block that is being copied:   *)
(* it releases the source page without do_free_source_state.               *)
release_emptying_page(h, p) ==
  LET left == [h EXCEPT !.sourceentries[p] = @ - 1]
  IN  IF left.sourceentries[p] # 0 THEN left
      ELSE add_free_page(remove_page_from_emptying_list(left, p), p)
=============================================================================
