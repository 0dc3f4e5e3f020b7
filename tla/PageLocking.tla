---------------------------- MODULE PageLocking ----------------------------
(***************************************************************************)
(* Several size-classes that share the pages, and the locks of cf.c built  *)
(* with LOCK_PAGE: a lock for every size-class and one for every page.     *)
(*                                                                         *)
(* cf_free does not know which size-class to lock before it has followed   *)
(* the word of the address, and may not rely on the word before it has     *)
(* the lock: it locks the class it finds and looks again (the retry loop). *)
(* do_compaction locks the target page and the source page, redirects the  *)
(* address of the object, and gives the lock of the class away while it    *)
(* copies.  LOCK_PAGE switches incremental_memcpy off: an object is copied *)
(* as a whole and there are no partition fields.                           *)
(*                                                                         *)
(* What the lock of a class alone protects is one step, from the moment    *)
(* the locks it needs are held.  All classes have PageBlocks blocks in a   *)
(* page here: the size of a block plays no part in the locking.            *)
(***************************************************************************)
EXTENDS SizeClass

CONSTANTS
  Thread,
  Class,    \* the size-classes of the heap
  AA,       \* abstract addresses
  MaxLive,  \* bound: objects the program holds at a time
  Null

ASSUME ThreadAssumption == IsFiniteSet(Thread)
ASSUME NullAssumption == Null \notin Thread \cup Class \cup Page \cup Block \cup AA
(* No cf_malloc is refused an address here, CompactFit's sometimes is: one *)
(* pool for all threads has an address for whoever asks.                   *)
ASSUME AddressAssumption == Cardinality(AA) >= MaxLive + Cardinality(Thread)

VARIABLES
  heap,        \* the size-classes
  page_sc,     \* page->sc: the class that used the page last
  aa,          \* the block at every abstract address
  mem,         \* the address whose object a block holds, if any
  class_lock,  \* sc->lock: who holds it
  page_lock,   \* page->lock: who holds it
  live,        \* addresses cf_malloc returned and nobody has freed
  job          \* the call a thread is in the middle of

vars == <<heap, page_sc, aa, mem, class_lock, page_lock, live, job>>

(* The locals of a call: blk is page_block, src the block do_compaction    *)
(* moves and src_aa its address.                                           *)
Job == [at : {"malloc", "retry", "class", "lock", "check", "source", "redirect", "copy", "relock"},
        address : AA \cup {Null}, sc : Class \cup {Null}, blk : Block \cup {Null},
        src : Block \cup {Null}, src_aa : AA \cup {Null}]
ASSUME NoneAssumption == Null \notin Job
call(at, a, c) == [at |-> at, address |-> a, sc |-> c, blk |-> Null,
                   src |-> Null, src_aa |-> Null]

at(t, l) == job[t] # Null /\ job[t].at = l
pool == {a \in AA : aa[a] = Null}
forget(m, b, c, h) ==
  [x \in Block |-> IF x = b \/ page_of(x) \in free_pages(h) \ free_pages(heap[c])
                   THEN Null ELSE m[x]]

Init ==
  /\ heap = [c \in Class |-> init_size_class]
  /\ page_sc = [p \in Page |-> Null]
  /\ aa = [a \in AA |-> Null]
  /\ mem = [b \in Block |-> Null]
  /\ class_lock = [c \in Class |-> Null]
  /\ page_lock = [p \in Page |-> Null]
  /\ live = {}
  /\ job = [t \in Thread |-> Null]

-----------------------------------------------------------------------------
(* The counter workers is for incremental_memcpy alone.                    *)
lock_sizeClass(t, c) ==
  /\ class_lock[c] = Null
  /\ class_lock' = [class_lock EXCEPT ![c] = t]

unlock_sizeClass(c) == class_lock' = [class_lock EXCEPT ![c] = Null]

(* Fault: a page is changed while its objects are being copied. *)
no_page_lock(p) == TRUE
page_unlocked(p) == page_lock[p] = Null

lock_page(t, p) ==
  /\ page_unlocked(p)
  /\ page_lock' = [page_lock EXCEPT ![p] = t]

-----------------------------------------------------------------------------
(* A page is free when no class has it.                                    *)
pages_for(c) ==
  IF heap[c].nfull = <<>> THEN {p \in Page : \A d \in Class : p \in free_pages(heap[d])}
                          ELSE {Last(heap[c].nfull)}

malloc_lock(t, c) ==
  /\ job[t] = Null
  /\ Cardinality(live) + Cardinality({u \in Thread : at(u, "malloc")}) < MaxLive
  /\ lock_sizeClass(t, c)
  /\ job' = [job EXCEPT ![t] = call("malloc", Null, c)]
  /\ UNCHANGED <<heap, page_sc, aa, mem, page_lock, live>>

no_more_pages(t) ==
  /\ pages_for(job[t].sc) = {}
  /\ UNCHANGED <<heap, page_sc, aa, mem, live>>

malloc_block(t) ==
  \E p \in pages_for(job[t].sc), a \in pool :
    LET c     == job[t].sc
        open  == IF heap[c].nfull = <<>>
                 THEN add_page_to_nfull_list(get_free_page(heap[c], p), p)
                 ELSE heap[c]
        taken == get_free_page_block(open, p)
        b     == <<p, free_index(open, p)>>
    IN  /\ page_lock[p] = Null
        /\ heap' = [heap EXCEPT ![c] =
                      IF taken.ok /\ is_page_full(taken, p)
                      THEN add_page_to_full_list(remove_page_from_nfull_list(taken, p), p)
                      ELSE taken]
        /\ IF taken.ok
           THEN /\ page_sc' = [page_sc EXCEPT ![p] = c]
                /\ aa' = [aa EXCEPT ![a] = b]
                /\ mem' = [mem EXCEPT ![b] = a]
                /\ live' = live \cup {a}
           ELSE UNCHANGED <<page_sc, aa, mem, live>>

cf_malloc(t) ==
  /\ at(t, "malloc")
  /\ no_more_pages(t) \/ malloc_block(t)
  /\ unlock_sizeClass(job[t].sc)
  /\ job' = [job EXCEPT ![t] = Null]
  /\ UNCHANGED page_lock

-----------------------------------------------------------------------------
(* cf_free up to the point where it has the right lock.  It begins with    *)
(* page_block = *address;                                                  *)
cf_free(t, a) ==
  /\ job[t] = Null
  /\ a \in live
  /\ live' = live \ {a}
  /\ job' = [job EXCEPT ![t] = [call("class", a, Null) EXCEPT !.blk = aa[a]]]
  /\ UNCHANGED <<heap, page_sc, aa, mem, class_lock, page_lock>>

retry(t) ==
  /\ at(t, "retry")
  /\ job' = [job EXCEPT ![t].at = "class", ![t].blk = aa[job[t].address]]
  /\ UNCHANGED <<heap, page_sc, aa, mem, class_lock, page_lock, live>>

(* sc = get_size_class_of_page(target_page); *)
get_size_class_of_page(t) ==
  /\ at(t, "class")
  /\ job' = [job EXCEPT ![t].at = "lock", ![t].sc = page_sc[page_of(job[t].blk)]]
  /\ UNCHANGED <<heap, page_sc, aa, mem, class_lock, page_lock, live>>

(* Fault: the word is not read again under the lock. *)
dereference_once(t) == job[t].blk
dereference_again(t) == aa[job[t].address]

dereference(t) ==
  /\ at(t, "lock")
  /\ lock_sizeClass(t, job[t].sc)
  /\ job' = [job EXCEPT ![t].at = "check", ![t].blk = dereference_again(t)]
  /\ UNCHANGED <<heap, page_sc, aa, mem, page_lock, live>>

(* Fault: the lock that was taken is taken for the right one. *)
got_any_lock(t) == TRUE
got_right_lock(t) == page_sc[page_of(job[t].blk)] = job[t].sc

backtrack(t) ==
  /\ at(t, "check")
  /\ ~got_right_lock(t)
  /\ unlock_sizeClass(job[t].sc)
  /\ job' = [job EXCEPT ![t] = call("retry", job[t].address, Null)]
  /\ UNCHANGED <<heap, page_sc, aa, mem, page_lock, live>>

-----------------------------------------------------------------------------
(* What cf_free does with the lock.                                        *)
compaction_needed(h, p) ==
  ~in_full_state(h) /\ ~valid_nfull_pages_ratio(h, 1) /\ is_page_full(h, p)

free_in_place(t) ==
  LET c == job[t].sc
      b == job[t].blk
      p == page_of(b)
      h == IF in_full_state(heap[c])
           THEN do_free_full_state(heap[c], p, index_of(b))
           ELSE IF valid_nfull_pages_ratio(heap[c], 1)
           THEN do_free(heap[c], p, index_of(b))
           ELSE do_free_nfull_state(heap[c], p, index_of(b))
  IN  /\ at(t, "check")
      /\ got_right_lock(t)
      /\ ~compaction_needed(heap[c], p)
      /\ page_unlocked(p)
      /\ heap' = [heap EXCEPT ![c] = h]
      /\ mem' = forget(mem, b, c, h)
      /\ aa' = [aa EXCEPT ![job[t].address] = Null]
      /\ unlock_sizeClass(c)
      /\ job' = [job EXCEPT ![t] = Null]
      /\ UNCHANGED <<page_sc, page_lock, live>>

lock_target_page(t) ==
  LET p == page_of(job[t].blk)
  IN  /\ at(t, "check")
      /\ got_right_lock(t)
      /\ compaction_needed(heap[job[t].sc], p)
      /\ lock_page(t, p)
      /\ job' = [job EXCEPT ![t].at = "source"]
      /\ UNCHANGED <<heap, page_sc, aa, mem, class_lock, live>>

(* The block of the source page whose object is moved. *)
source_block(h) == <<source_page(h), find_used_page_block(get_source_page(h), source_page(h))>>

(* With both pages locked the word of that object is flagged.  What else   *)
(* changes before the word is overwritten only the holder of the class     *)
(* lock can see: it is part of the next step.                              *)
lock_source_page(t) ==
  LET h == heap[job[t].sc]
  IN  /\ at(t, "source")
      /\ lock_page(t, source_page(h))
      /\ job' = [job EXCEPT ![t].at = "redirect", ![t].src = source_block(h)]
      /\ UNCHANGED <<heap, page_sc, aa, mem, class_lock, live>>

(* *src_aa |= ABORT_COMPACT_FLAG; has been done, and is not undone yet.    *)
flagged_by(t, a) == at(t, "redirect") /\ mem[job[t].src] = a

(* The object gets the address of the target block, without the flag, and  *)
(* the class is free while it is copied.                                   *)
redirect(t) ==
  LET c      == job[t].sc
      src    == job[t].src
      chosen == get_source_page(heap[c])
      src_aa == mem[src]
      asserts == chosen.ok /\ chosen.used[page_of(src)] # {} /\ src_aa \in AA
  IN  /\ at(t, "redirect")
      /\ unlock_sizeClass(c)
      /\ \/ /\ asserts
            /\ heap' = [heap EXCEPT ![c] = page_clear_used_bit(chosen, page_of(src), index_of(src))]
            /\ aa' = [aa EXCEPT ![src_aa] = aa[job[t].address]]
            /\ job' = [job EXCEPT ![t].at = "copy", ![t].src_aa = src_aa]
         \/ /\ ~asserts
            /\ heap' = [heap EXCEPT ![c].ok = FALSE]
            /\ job' = [job EXCEPT ![t].at = "copy"]
            /\ UNCHANGED aa
      /\ UNCHANGED <<page_sc, mem, page_lock, live>>

(* Fault: the pages stay locked until the class is. *)
unlock_pages_later(t) == page_lock
unlock_pages(t) == [p \in Page |-> IF page_lock[p] = t THEN Null ELSE page_lock[p]]

(* memcpy, and the redirection once more. *)
copy(t) ==
  /\ at(t, "copy")
  /\ mem' = [mem EXCEPT ![job[t].blk] = mem[job[t].src]]
  /\ aa' = [aa EXCEPT ![job[t].src_aa] = job[t].blk]
  /\ page_lock' = unlock_pages(t)
  /\ job' = [job EXCEPT ![t].at = "relock"]
  /\ UNCHANGED <<heap, page_sc, class_lock, live>>

relock(t) ==
  LET c == job[t].sc
      h == release_source_page(heap[c], page_of(job[t].src))
  IN  /\ at(t, "relock")
      /\ class_lock[c] = Null
      /\ heap' = [heap EXCEPT ![c] = h]
      /\ mem' = forget(mem, job[t].src, c, h)
      /\ aa' = [aa EXCEPT ![job[t].address] = Null]
      /\ job' = [job EXCEPT ![t] = Null]
      /\ UNCHANGED <<page_sc, class_lock, page_lock, live>>

(* The program looks for its object without a lock, and gets the word as   *)
(* it is.  So does cf_free, but it takes no more from a word than its page *)
(* as long as it does not have the lock of the class, and the page is the  *)
(* same with the flag: get_page_direct_of_page_block.                      *)
cf_dereference(a) == [blk |-> aa[a], flagged |-> \E t \in Thread : flagged_by(t, a)]

-----------------------------------------------------------------------------
step(t) ==
  \/ retry(t) \/ get_size_class_of_page(t) \/ dereference(t) \/ backtrack(t)
  \/ free_in_place(t) \/ lock_target_page(t) \/ lock_source_page(t) \/ redirect(t)
  \/ copy(t) \/ relock(t) \/ cf_malloc(t)

Next ==
  \E t \in Thread : \/ \E c \in Class : malloc_lock(t, c)
                    \/ \E a \in AA : cf_free(t, a)
                    \/ step(t)

Spec == Init /\ [][Next]_vars
-----------------------------------------------------------------------------
(* Every variable has its type (struct size_class, struct page, the locals *)
(* of cf_free and do_compaction).                                          *)
TypeOK ==
  /\ heap \in [Class -> SizeClassType]
  /\ page_sc \in [Page -> Class \cup {Null}]
  /\ aa \in [AA -> Block \cup {Null}]
  /\ mem \in [Block -> AA \cup {Null}]
  /\ class_lock \in [Class -> Thread \cup {Null}]
  /\ page_lock \in [Page -> Thread \cup {Null}]
  /\ live \in SUBSET AA
  /\ job \in [Thread -> Job \cup {Null}]
  /\ \A t \in Thread : at(t, "copy") => job[t].src \in Block /\ job[t].src_aa \in AA

Copying == {t \in Thread : at(t, "copy")}

(* Once cf_free goes to work it has the block its object is in and the     *)
(* lock of the class that page belongs to, whatever moved, was freed and   *)
(* was taken by another class between its two looks at the address.        *)
RightLock ==
  \A t \in Thread :
    (at(t, "check") /\ got_right_lock(t)) \/ at(t, "source") \/ at(t, "redirect") =>
    /\ class_lock[job[t].sc] = t
    /\ job[t].blk = aa[job[t].address]
    /\ page_of(job[t].blk) \notin free_pages(heap[job[t].sc])
    /\ index_of(job[t].blk) \in heap[job[t].sc].used[page_of(job[t].blk)]

(* While an object is copied without the lock of its class nobody frees,   *)
(* moves or hands out its two blocks, nor gives its address away, and no   *)
(* assertion of the list operations fails in any class.                    *)
CopyUndisturbed ==
  /\ \A c \in Class : heap[c].ok
  /\ \A t \in Copying :
       LET j == job[t]
           h == heap[j.sc]
       IN  /\ aa[j.src_aa] = j.blk /\ aa[j.address] = j.blk
           /\ mem[j.src] = j.src_aa /\ mem[j.blk] = j.address
           /\ is_page_full(h, page_of(j.blk))
           /\ index_of(j.src) \notin h.used[page_of(j.src)]
           /\ h.sourceentries[page_of(j.src)] > 0
           /\ \A u \in Copying : u # t =>
                {page_of(j.src), page_of(j.blk)} \cap
                {page_of(job[u].src), page_of(job[u].blk)} = {}

(* do_compaction has flagged the word of a, or its object is not all in    *)
(* the block the word leads to.                                            *)
moves(t, a) == flagged_by(t, a) \/ (at(t, "copy") /\ job[t].src_aa = a)

(* A page belongs to at most one class, the one its sc field names; and    *)
(* cf_dereference finds every object of the program, with what the program *)
(* put there and under a word without a flag, except one that a thread     *)
(* moves which has the lock of the page the word leads to.                 *)
ObjectsApart ==
  /\ \A p \in Page, c \in Class : p \notin free_pages(heap[c]) =>
       page_sc[p] = c /\ \A d \in Class \ {c} : p \in free_pages(heap[d])
  /\ \A a \in live :
       \/ mem[cf_dereference(a).blk] = a /\ ~cf_dereference(a).flagged
       \/ \E t \in Thread : moves(t, a) /\ page_lock[page_of(aa[a])] = t

(* The thread that has the lock t is waiting for.                          *)
page_wanted(t) ==
  IF at(t, "source") THEN source_page(heap[job[t].sc])
  ELSE IF at(t, "check") THEN page_of(job[t].blk)
  ELSE Null
waits_for(t) ==
  IF at(t, "lock") \/ at(t, "relock") THEN class_lock[job[t].sc]
  ELSE IF page_wanted(t) # Null THEN page_lock[page_wanted(t)]
  ELSE Null

(* The locks of classes and pages are never waited for in a circle, though *)
(* both orders occur: pages under a class, and a class after the pages.    *)
NoCircularWait ==
  ~ \E S \in (SUBSET Thread) \ {{}} : \A t \in S : waits_for(t) \in S
=============================================================================
