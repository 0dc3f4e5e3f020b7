------------------------------- MODULE PagePool -------------------------------
(***************************************************************************)
(* The pool of free pages of cf.c.  A thread keeps a list of free pages,   *)
(* linked by local_pages, and full lists ("buckets"), linked by next; the  *)
(* stack free_page_head has full lists.  The links are in the memory of    *)
(* the pages: a page in use holds objects there, Junk to the pool.         *)
(*                                                                         *)
(* The stack is the only shared state, and get_free_page and add_free_page *)
(* call nb_stack at most once each: they are one step (see NbStack).       *)
(***************************************************************************)
EXTENDS Integers, Sequences, FiniteSets, SequencesExt, FiniteSetsExt

CONSTANTS
  Thread,
  nr_pages,
  nr_local_pages,     \* pages in a full list
  nr_local_pbuckets,  \* full lists a thread keeps: one less
  Junk,
  Null

(* cf_init rounds nr_pages to full lists. *)
ASSUME LimitsAssumption ==
  /\ {nr_local_pages, nr_local_pbuckets} \subseteq Nat \ {0}
  /\ nr_pages \in Nat /\ nr_pages % nr_local_pages = 0

Page == 1 .. nr_pages

ASSUME ThreadAssumption == IsFiniteSet(Thread)

(* Neither is the address of a page. *)
ASSUME LinkAssumption == {Null, Junk} \cap Page = {} /\ Null # Junk

VARIABLES
  next,            \* the field next of struct mem_page
  local_pages,     \* its field local_pages
  free,            \* pages with list_flags = FREE_LIST_FLAG
  free_page_head,
  data,            \* struct thread_data of every thread
  used             \* pages that size-classes have

vars == <<next, local_pages, free, free_page_head, data, used>>

Link == Page \cup {Null, Junk}
ThreadData ==
  [pages_count : 0 .. nr_local_pages, pages : Page \cup {Null},
   pbuckets_count : 0 .. nr_local_pbuckets - 1,
   pbuckets : Page \cup {Null}, last_pbucket : Page \cup {Null}]

-----------------------------------------------------------------------------
(* page_stack.c, on the links the caller has set: the lists from p to last *)
(* go on top, or the top comes off.                                        *)
page_put(p, last, links) ==
  /\ next' = [links EXCEPT ![last] = free_page_head]
  /\ free_page_head' = p

page_get(p) ==
  /\ free_page_head = p /\ p # Null
  /\ free_page_head' = next[p]

-----------------------------------------------------------------------------
is_list_head(p) == p % nr_local_pages = 0

init_free_pages_list ==
  /\ local_pages = [p \in Page |-> IF p % nr_local_pages = 1 % nr_local_pages THEN Null ELSE p - 1]
  /\ next = [p \in Page |-> IF is_list_head(p) /\ p > nr_local_pages THEN p - nr_local_pages ELSE Null]
  /\ free_page_head = IF nr_pages = 0 THEN Null ELSE nr_pages
  /\ free = Page

init_thread ==
  [pages_count |-> 0, pages |-> Null, pbuckets_count |-> 0, pbuckets |-> Null, last_pbucket |-> Null]

(* A thread gets its data with its first call. *)
get_thread_data == [t \in Thread |-> init_thread]

Init ==
  /\ init_free_pages_list
  /\ data = get_thread_data
  /\ used = {}

-----------------------------------------------------------------------------
(* A thread with an empty list takes a full one; the fault counts one less.*)
install_list_short(d, p) == [d EXCEPT !.pages = p, !.pages_count = nr_local_pages - 1]
install_list(d, p) == [d EXCEPT !.pages = p, !.pages_count = nr_local_pages]

(* The first page of the list of d leaves it and belongs to a size-class.  *)
take_page(t, d) ==
  LET p == d.pages
  IN  /\ data' = [data EXCEPT ![t] = [d EXCEPT !.pages = local_pages[p], !.pages_count = @ - 1]]
      /\ free' = free \ {p}
      /\ used' = used \cup {p}
      /\ next' = [next EXCEPT ![p] = Junk]
      /\ local_pages' = [local_pages EXCEPT ![p] = Junk]

get_free_page(t) ==
  LET d == data[t]
  IN  \/ /\ d.pages_count > 0
         /\ take_page(t, d)
         /\ UNCHANGED free_page_head
      \/ /\ d.pages_count = 0 /\ d.pbuckets_count > 0
         /\ take_page(t, install_list([d EXCEPT !.pbuckets = next[@], !.pbuckets_count = @ - 1], d.pbuckets))
         /\ UNCHANGED free_page_head
      \/ /\ d.pages_count = 0 /\ d.pbuckets_count = 0
         /\ page_get(free_page_head)
         /\ take_page(t, install_list(d, free_page_head))

-----------------------------------------------------------------------------
(* add_free_page: a full list becomes a bucket of the thread.  The fault   *)
(* sets last_pbucket only when there is none.                              *)
list_closed_old_last(d) ==
  [d EXCEPT !.pbuckets = d.pages, !.pbuckets_count = @ + 1, !.pages = Null, !.pages_count = 0,
            !.last_pbucket = IF @ = Null THEN d.pages ELSE @]
list_closed(d) ==
  [d EXCEPT !.pbuckets = d.pages, !.pbuckets_count = @ + 1, !.pages = Null, !.pages_count = 0,
            !.last_pbucket = IF d.pbuckets_count = 0 THEN d.pages ELSE @]

buckets_returned(d) == [d EXCEPT !.pbuckets_count = 0, !.pbuckets = Null, !.last_pbucket = Null]

(* The fault keeps one bucket more. *)
too_many_buckets_late(d) == d.pbuckets_count > nr_local_pbuckets
too_many_buckets(d) == d.pbuckets_count >= nr_local_pbuckets

put_page(t, d, p) ==
  /\ data' = [data EXCEPT ![t] = [d EXCEPT !.pages = p, !.pages_count = @ + 1]]
  /\ local_pages' = [local_pages EXCEPT ![p] = d.pages]

(* Whoever frees the last block of a page releases it. *)
add_free_page(t) ==
  LET d == data[t]
  IN  \E p \in used :
        /\ used' = used \ {p}
        /\ free' = free \cup {p}
        /\ \/ /\ d.pages_count < nr_local_pages
              /\ put_page(t, d, p)
              /\ UNCHANGED <<next, free_page_head>>
           \/ /\ d.pages_count = nr_local_pages
              /\ LET closed == list_closed(d)
                     linked == [next EXCEPT ![d.pages] = d.pbuckets]
                 IN  IF too_many_buckets(closed)
                     THEN /\ page_put(closed.pbuckets, closed.last_pbucket, linked)
                          /\ put_page(t, buckets_returned(closed), p)
                     ELSE /\ next' = linked
                          /\ UNCHANGED free_page_head
                          /\ put_page(t, closed, p)

Next == \E t \in Thread : get_free_page(t) \/ add_free_page(t)

Spec == Init /\ [][Next]_vars
-----------------------------------------------------------------------------
(* The types of struct mem_page and of the page fields of thread_data.     *)
TypeOK ==
  /\ next \in [Page -> Link] /\ local_pages \in [Page -> Link]
  /\ free \subseteq Page /\ used \subseteq Page
  /\ free_page_head \in Page \cup {Null}
  /\ data \in [Thread -> ThreadData]

(* The n pages from p on, following the links of f. *)
chain(f, p, n) ==
  LET at[i \in 0 .. n] == IF i = 0 THEN p
                          ELSE IF at[i - 1] \in Page THEN f[at[i - 1]] ELSE Null
  IN  [i \in 1 .. n |-> at[i - 1]]

(* The list of each thread, its full lists, and those on the stack down to *)
(* its end, which is there within nr_pages links.                          *)
open == [t \in Thread |-> chain(local_pages, data[t].pages, data[t].pages_count)]
kept == [t \in Thread |-> chain(next, data[t].pbuckets, data[t].pbuckets_count)]
on_stack ==
  LET s == chain(next, free_page_head, nr_pages)
  IN  [i \in {j \in 1 .. nr_pages : s[j] # Null} |-> s[i]]

pages_in(lists) == UNION {Range(lists[x]) : x \in DOMAIN lists}
full_lists == Range(on_stack) \cup pages_in(kept)
full == [p \in full_lists |-> chain(local_pages, p, nr_local_pages)]

NoneTwice(lists) ==
  \A x, y \in DOMAIN lists : \A i \in DOMAIN lists[x], j \in DOMAIN lists[y] :
    lists[x][i] = lists[y][j] => x = y /\ i = j

(* A page is in exactly one list or with a size-class, and flagged free    *)
(* just when it is in a list: get_free_page and add_free_page assert the   *)
(* flag, and a page in two lists would get two classes' objects.  A full   *)
(* list is with one thread, or on the stack, and there once.               *)
EveryPageOnce ==
  /\ IsInjective(on_stack) /\ NoneTwice(kept) /\ Range(on_stack) \cap pages_in(kept) = {}
  /\ NoneTwice(open) /\ NoneTwice(full) /\ pages_in(open) \cap pages_in(full) = {}
  /\ free = pages_in(open) \cup pages_in(full)
  /\ used = Page \ free

(* get_free_page returns NULL although pages are free, for other threads   *)
(* keep some: never more than nr_local_pbuckets lists each.                *)
HoardingBound ==
  \A t \in Thread :
    data[t].pages_count = 0 /\ data[t].pbuckets_count = 0 /\ free_page_head = Null =>
      nr_pages - Cardinality(used) <= (Cardinality(Thread) - 1) * nr_local_pages * nr_local_pbuckets
=============================================================================
