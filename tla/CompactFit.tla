----------------------------- MODULE CompactFit -----------------------------
(***************************************************************************)
(* cf_malloc, cf_free and the compaction of one size-class, under the      *)
(* LOCK_CLASS scheme of cf.c.  An action is one critical section of the    *)
(* size-class lock.  A compaction copies a block in Increments chunks and  *)
(* gives the lock away after every chunk but the last, so between two      *)
(* chunks other threads allocate, free, abort the compaction by freeing    *)
(* the object it copies, or take the block it fills as their own source.   *)
(* With Increments = 1 (incremental_memcpy off, or a block that fits one   *)
(* increment) every operation is one step, as it also is under             *)
(* LOCK_GLOBAL, where unlock_sizeClass does nothing.                       *)
(*                                                                         *)
(* An object is named by its abstract address.  What a program stores in   *)
(* it is abstracted to the address itself, chunk by chunk: chunk c of a    *)
(* block holds a when it holds what the owner of a put there.  The last    *)
(* chunk also stands for the block's last word, its abstract address       *)
(* field, which is copied with it.                                         *)
(***************************************************************************)
EXTENDS SizeClass

CONSTANTS
  Thread,
  AA,          \* the abstract addresses this class can get
  Hoard,       \* free addresses another thread may keep from one that needs one
  Increments,  \* chunks in a block: its size over incremental_memcpy
  MaxLive,     \* bound: objects the program holds at a time
  Null,        \* the zero word
  Junk         \* a word left behind by an earlier use of the memory

ASSUME IncrementsAssumption == Increments \in Nat \ {0}
ASSUME ThreadAssumption == IsFiniteSet(Thread)
ASSUME HoardAssumption == Hoard \in Nat
ASSUME NullAssumption ==
  /\ Null # Junk
  /\ Null \notin AA \cup Block \cup Page
  /\ Junk \notin AA \cup Block \cup Page

VARIABLES
  heap,   \* the size-class and its pages
  aa,     \* abstract address space: where an address points, with its flags
  mem,    \* the chunks of every block
  part,   \* the partition field of every block
  pool,   \* free abstract addresses
  live,   \* addresses cf_malloc returned and nobody has freed
  op      \* the compaction a thread is in the middle of

vars == <<heap, aa, mem, part, pool, live, op>>

Chunk == 1 .. Increments
Incremental == Increments > 1

(* The word at an abstract address: a block, ABORT_COMPACT_FLAG (bit 0),   *)
(* ABORT_FREE_FLAG (bit 1).                                                *)
Word == [blk : Block, compact : BOOLEAN, free : BOOLEAN]
points_to(b) == [blk |-> b, compact |-> FALSE, free |-> FALSE]

(* The locals do_compaction and cf_free keep while the lock is away.       *)
(* releases is the page cf_free has to release once do_compaction returns, *)
(* because the freed object was itself being copied out of it.             *)
Job == [address : AA, target : Block, target_aa : AA, target_aa_val : Word,
        src : Block, src_aa : AA, copied : Chunk, releases : Page \cup {Null}]

(* The zero word is no word, and a thread that is in no compaction in none. *)
ASSUME NoneAssumption == Null \notin Word /\ Null \notin Job

get_abstract_address_of_page_block(m, b) == m[b][Increments]

(* check_for_concurrent_compaction: the partition field, when there is one *)
being_copied(b) == Incremental /\ part[b] # Null

(* do_compaction finds that the block it wants to move is itself being     *)
(* filled by another compaction.  The fault takes it for an ordinary one.  *)
source_is_target_unnoticed(b) == FALSE
source_is_target(b) == being_copied(b)

(* *target_part_field = 0, when there is one; the fault leaves it. *)
clear_partition_field_missing(q, b) == q
clear_partition_field(q, b) == IF Incremental THEN [q EXCEPT ![b] = Null] ELSE q

(* Nothing is known of the blocks in B any more, nor of a page that went   *)
(* back to the pool: another size-class may have used it since.            *)
gone(B, h) == B \cup {b \in Block : page_of(b) \in free_pages(h) \ free_pages(heap)}
forget(m, B) == [b \in Block |-> IF b \in B THEN [c \in Chunk |-> Junk] ELSE m[b]]
forget_part(q, B) == [b \in Block |-> IF Incremental /\ b \in B THEN Junk ELSE q[b]]

(* The code would follow a word that is no address, or use a block that    *)
(* does not exist: anything may happen.                                    *)
crash == /\ heap' = [heap EXCEPT !.ok = FALSE]
         /\ UNCHANGED <<aa, mem, part, pool, op>>

-----------------------------------------------------------------------------
Init ==
  /\ heap = init_size_class
  /\ aa   = [a \in AA |-> Null]
  /\ mem  = [b \in Block |-> [c \in Chunk |-> Null]]
  /\ part = [b \in Block |-> Null]
  /\ pool = AA
  /\ live = {}
  /\ op   = [t \in Thread |-> Null]

(* cf_malloc takes its block before it asks for an abstract address; when  *)
(* it gets none it returns NULL and keeps the block.  get_free_aa has none *)
(* for a thread while all that are free are with other threads, in their   *)
(* lists and buckets or on the way there, Hoard with each at most: that is *)
(* HoardingBound of AaPool, which has the lists, the buckets and the stack *)
(* this set stands for, with Hoard = nr_local_aas * nr_local_abuckets + 1. *)
(* Without a page cf_malloc returns NULL as well, but before it has done   *)
(* anything.                                                               *)
hoarded == (Cardinality(Thread) - 1) * Hoard

no_abstract_address ==
  /\ Cardinality(pool) <= hoarded
  /\ UNCHANGED <<aa, mem, part, pool, live>>

set_abstract_address(a, b) ==
  /\ aa'   = [aa EXCEPT ![a] = points_to(b)]
  /\ mem'  = [mem EXCEPT ![b] = [c \in Chunk |-> a]]
  /\ part' = IF Incremental THEN [part EXCEPT ![b] = Null] ELSE part
  /\ pool' = pool \ {a}
  /\ live' = live \cup {a}

cf_malloc(t) ==
  /\ heap.ok
  /\ op[t] = Null
  /\ Cardinality(live) < MaxLive
  /\ \E p \in malloc_pages(heap) :
       LET open  == IF heap.nfull = <<>>
                    THEN add_page_to_nfull_list(get_free_page(heap, p), p)
                    ELSE heap
           taken == get_free_page_block(open, p)
       IN  IF ~taken.ok
           THEN crash /\ UNCHANGED live
           ELSE /\ heap' = IF is_page_full(taken, p)
                           THEN add_page_to_full_list(remove_page_from_nfull_list(taken, p), p)
                           ELSE taken
                /\ \/ no_abstract_address
                   \/ \E a \in pool : set_abstract_address(a, <<p, free_index(open, p)>>)
  /\ UNCHANGED op

-----------------------------------------------------------------------------
(* clear_abstract_address: the word goes back to the pool.  Faults: it is  *)
(* cleared and not returned; the block it points to is returned.           *)
clear_abstract_address_leaks(words, a) ==
  /\ aa'   = [words EXCEPT ![a] = Null]
  /\ pool' = pool

clear_abstract_address_of_block(words, a) ==
  /\ aa'   = [words EXCEPT ![a] = Null]
  /\ pool' = pool \cup {words[a].blk}

clear_abstract_address(words, a) ==
  /\ aa'   = [words EXCEPT ![a] = Null]
  /\ pool' = pool \cup {a}

(* The freed object sits still and needs no compaction. *)
free_in_place(t, a) ==
  LET b == aa[a].blk
      p == page_of(b)
      i == index_of(b)
      h == IF in_full_state(heap)                 THEN do_free_full_state(heap, p, i)
           ELSE IF valid_nfull_pages_ratio(heap, 1) THEN do_free(heap, p, i)
           ELSE do_free_nfull_state(heap, p, i)
      G == gone({b}, h)
  IN  /\ ~being_copied(b)
      /\ in_full_state(heap) \/ valid_nfull_pages_ratio(heap, 1) \/ ~is_page_full(heap, p)
      /\ heap' = h
      /\ mem'  = forget(mem, G)
      /\ part' = forget_part(part, G)
      /\ clear_abstract_address(aa, a)
      /\ UNCHANGED op

(* x can be the block a copy fills: its abstract address field says whose. *)
copy_target(x) ==
  /\ x \in Block
  /\ get_abstract_address_of_page_block(mem, x) \in AA
  /\ aa[get_abstract_address_of_page_block(mem, x)] # Null

(* The freed object is the source of a compaction: abort that compaction   *)
(* and free the block it was filling; the source page loses one copy.      *)
free_while_copied(t, a) ==
  LET b == aa[a].blk
      p == page_of(b)
      x == part[b]
      q == page_of(x)
      i == index_of(x)
      target_aa == get_abstract_address_of_page_block(mem, x)
      full == in_full_state(heap)
      h == IF full
           THEN release_emptying_page(
                  do_free_full_state(
                    expect(heap, heap.list_flags[p] = "emptying", heap), q, i), p)
           ELSE release_source_page(
                  IF valid_nfull_pages_ratio(heap, 1) THEN do_free(heap, q, i)
                                                      ELSE do_free_nfull_state(heap, q, i), p)
      G == gone({b, x}, h)
  IN  /\ being_copied(b)
      /\ IF ~copy_target(x)
         THEN crash
         ELSE /\ full \/ valid_nfull_pages_ratio(heap, 1) \/ ~is_page_full(heap, q)
              /\ heap' = h
              /\ mem'  = forget(mem, G)
              /\ part' = forget_part(part, G)
              /\ clear_abstract_address([aa EXCEPT ![target_aa].free = TRUE], a)
              /\ UNCHANGED op

-----------------------------------------------------------------------------
(* *src_aa = target_aa_val: the object has moved.  Fault: the flag stays.  *)
redirect_address_flagged(words, j) ==
  [words EXCEPT ![j.src_aa] = [j.target_aa_val EXCEPT !.compact = TRUE]]
redirect_address(words, j) == [words EXCEPT ![j.src_aa] = j.target_aa_val]

(* What follows the last chunk, in do_compaction and then in cf_free. *)
finish(t, j, h, words, m, q) ==
  LET released == release_source_page(h, page_of(j.src))
      done == IF j.releases = Null THEN released ELSE release_source_page(released, j.releases)
      G == gone({j.src}, done)
  IN  /\ heap' = done
      /\ mem'  = forget(m, G)
      /\ part' = forget_part(clear_partition_field(q, j.target), G)
      /\ clear_abstract_address(redirect_address(words, j), j.address)
      /\ op' = [op EXCEPT ![t] = Null]

(* do_compaction up to the point where it gives the lock away or returns.  *)
(* The target block x is that of the freed object or, when the object was  *)
(* being copied, the block the copy was meant for; words, m are the        *)
(* abstract address space and the memory on entry, F blocks given up.      *)
do_compaction(t, a, x, releases, words, m, F) ==
  LET chosen == get_source_page(heap)
      p0     == source_page(heap)
      b0     == <<p0, find_used_page_block(chosen, p0)>>
      h0     == page_clear_used_bit(chosen, p0, index_of(b0))
      (* b0 is the target of another compaction: take over its source.     *)
      redirect == source_is_target(b0)
      aa0    == get_abstract_address_of_page_block(m, b0)
      b      == IF redirect THEN part[b0] ELSE b0
      words0 == IF redirect THEN [words EXCEPT ![aa0].compact = TRUE] ELSE words
      h1     == IF redirect
                THEN LET r == release_source_page(h0, p0)
                     IN  expect(r, /\ r.sourceentries[page_of(b)] > 0
                                   /\ r.list_flags[page_of(b)] \in {"source", "emptying"}, r)
                ELSE h0
      src_aa == get_abstract_address_of_page_block(m, b)
      target_aa == get_abstract_address_of_page_block(m, x)
      words1 == [words0 EXCEPT ![src_aa].compact = TRUE]
      j  == [address |-> a, target |-> x, target_aa |-> target_aa,
             target_aa_val |-> words1[target_aa], src |-> b, src_aa |-> src_aa,
             copied |-> 1, releases |-> releases]
      m1 == [m EXCEPT ![x][1] = m[b][1]]
      q1 == [part EXCEPT ![x] = b, ![b] = x]
      G  == gone(F \cup IF redirect THEN {b0} ELSE {}, h1)
      sane == /\ chosen.ok
              /\ chosen.used[p0] # {}
              /\ redirect => part[b0] \in Block /\ aa0 \in AA /\ words[aa0] # Null
              /\ src_aa \in AA /\ words0[src_aa] # Null
              /\ target_aa \in AA /\ words0[target_aa] # Null
  IN  IF ~sane
      THEN crash
      ELSE IF Incremental
      THEN /\ heap' = h1
           /\ aa'   = words1
           /\ mem'  = forget(m1, G)
           /\ part' = forget_part(q1, G)
           /\ op'   = [op EXCEPT ![t] = j]
           /\ UNCHANGED pool
      ELSE finish(t, j, h1, words1, m1, part)

(* No page may become not-full: the freed block of a full page is filled   *)
(* with the object of a block of the source page.                          *)
free_and_compact(t, a) ==
  LET b == aa[a].blk
  IN  /\ ~being_copied(b)
      /\ ~in_full_state(heap)
      /\ ~valid_nfull_pages_ratio(heap, 1)
      /\ is_page_full(heap, page_of(b))
      /\ do_compaction(t, a, b, Null, aa, mem, {})

(* The same for an object that is being copied into a full page: the block *)
(* it was copied to takes its address and is filled from the source page.  *)
free_while_copied_and_compact(t, a) ==
  LET b == aa[a].blk
      x == part[b]
      target_aa == get_abstract_address_of_page_block(mem, x)
  IN  /\ being_copied(b)
      /\ copy_target(x)
      /\ ~in_full_state(heap)
      /\ ~valid_nfull_pages_ratio(heap, 1)
      /\ is_page_full(heap, page_of(x))
      /\ do_compaction(t, a, x, page_of(b),
                       [aa EXCEPT ![target_aa].free = TRUE, ![a] = points_to(x)],
                       [mem EXCEPT ![x][Increments] = a], {b})

cf_free(t, a) ==
  /\ heap.ok
  /\ op[t] = Null
  /\ a \in live
  /\ live' = live \ {a}
  /\ IF aa[a] = Null
     THEN crash
     ELSE \/ free_in_place(t, a)
          \/ free_while_copied(t, a)
          \/ free_and_compact(t, a)
          \/ free_while_copied_and_compact(t, a)

-----------------------------------------------------------------------------
(* The lock is back.  An abort flag, or another value, at the address of   *)
(* the target block says that the block is no longer ours: give up, and    *)
(* leave the blocks to whoever aborted us.                                 *)
(* Faults: the first forgets the page cf_free still has to release, the    *)
(* second knows only the flag of a take-over, the third copies on without  *)
(* looking at the flags.                                                   *)
abort_compaction_keeps_page(t, j) ==
  /\ aa[j.target_aa] # j.target_aa_val
  /\ UNCHANGED <<heap, mem, part>>
  /\ clear_abstract_address(aa, j.target_aa)
  /\ op' = [op EXCEPT ![t] = Null]

abort_compaction_on_takeover_only(t, j) ==
  /\ aa[j.target_aa] # j.target_aa_val
  /\ aa[j.target_aa].compact
  /\ UNCHANGED <<heap, mem, part>>
  /\ clear_abstract_address(aa, j.target_aa)
  /\ op' = [op EXCEPT ![t] = Null]

copy_chunk_unchecked(t, j) ==
  LET c  == j.copied + 1
      m1 == [mem EXCEPT ![j.target][c] = mem[j.src][c]]
  IN  \/ /\ c < Increments
         /\ mem'  = m1
         /\ part' = [part EXCEPT ![j.target] = j.src, ![j.src] = j.target]
         /\ op'   = [op EXCEPT ![t].copied = c]
         /\ UNCHANGED <<heap, aa, pool>>
      \/ /\ c = Increments
         /\ finish(t, j, heap, aa, m1, part)

abort_compaction(t, j) ==
  LET h == IF j.releases = Null THEN heap ELSE release_source_page(heap, j.releases)
      G == gone({}, h)
  IN  /\ aa[j.target_aa] # j.target_aa_val
      /\ IF aa[j.target_aa] # Null /\ (aa[j.target_aa].compact \/ aa[j.target_aa].free)
         THEN /\ heap' = h
              /\ mem'  = forget(mem, G)
              /\ part' = forget_part(part, G)
              /\ clear_abstract_address(aa, j.target_aa)
              /\ op'   = [op EXCEPT ![t] = Null]
         ELSE crash

copy_chunk(t, j) ==
  LET c  == j.copied + 1
      m1 == [mem EXCEPT ![j.target][c] = mem[j.src][c]]
  IN  /\ aa[j.target_aa] = j.target_aa_val
      /\ \/ /\ c < Increments
            /\ mem'  = m1
            /\ part' = [part EXCEPT ![j.target] = j.src, ![j.src] = j.target]
            /\ op'   = [op EXCEPT ![t].copied = c]
            /\ UNCHANGED <<heap, aa, pool>>
         \/ /\ c = Increments
            /\ finish(t, j, heap, aa, m1, part)

resume_compaction(t) ==
  /\ heap.ok
  /\ op[t] # Null
  /\ UNCHANGED live
  /\ \/ abort_compaction(t, op[t])
     \/ copy_chunk(t, op[t])

-----------------------------------------------------------------------------
(* What the program finds through cf_dereference, which returns the word   *)
(* at the address as it is: with a flag in it that is a place one or two   *)
(* bytes into the object.  cf_dereference takes no lock.                   *)
Fresh(a) == [c \in Chunk |-> a]
off_by_a_flag == [c \in Chunk |-> Junk]

cf_dereference(a) ==
  IF aa[a] = Null THEN Null
  ELSE IF aa[a] = points_to(aa[a].blk) THEN mem[aa[a].blk]
  ELSE off_by_a_flag

-----------------------------------------------------------------------------
Next ==
  \E t \in Thread : \/ cf_malloc(t)
                    \/ \E a \in AA : cf_free(t, a)
                    \/ resume_compaction(t)

Spec == Init /\ [][Next]_vars

(* A mutex that a thread keeps asking for is granted to it eventually. *)
FairSpec == Spec /\ \A t \in Thread : WF_vars(resume_compaction(t))
-----------------------------------------------------------------------------
(* Every variable has its type.  A block holds, chunk by chunk, what the   *)
(* owner of an address put there, zeroes, or leftovers (struct page, the   *)
(* abstract address and partition fields of cf.c 1414-1470).               *)
TypeOK ==
  /\ heap \in SizeClassType
  /\ aa   \in [AA -> Word \cup {Null}]
  /\ mem  \in [Block -> [Chunk -> AA \cup {Null, Junk}]]
  /\ part \in [Block -> Block \cup {Null, Junk}]
  /\ pool \in SUBSET AA
  /\ live \in SUBSET AA
  /\ op   \in [Thread -> Job \cup {Null}]

(* No interleaving of cf_malloc, cf_free and half-done compactions trips   *)
(* an assert of the page-list operations, of do_compaction or of cf_free,  *)
(* nor takes a page or a block where there is none.                        *)
AssertionsHold == heap.ok

(* The threads whose compaction has not been aborted. *)
Copying == {t \in Thread : op[t] # Null /\ aa[op[t].target_aa] = op[t].target_aa_val}
Sources == {op[t].src : t \in Copying}
Targets == {op[t].target : t \in Copying}

(* What a program stored in an object it still holds is what it finds      *)
(* there, whichever objects were freed, moved or half moved meanwhile; in  *)
(* particular no two objects share memory.                                 *)
DataPreserved ==
  heap.ok => \A a \in live : aa[a] # Null /\ \A c \in Chunk : mem[aa[a].blk][c] = a

(* Between two critical sections the list a page is on tells how many      *)
(* blocks it has in use and whether blocks are being copied out of it, and *)
(* no page is left on no list and out of the pool.                         *)
PageState(p) ==
  LET n == heap.nr_used[p]
      s == heap.sourceentries[p]
  IN  /\ n = Cardinality(heap.used[p])
      /\ CASE heap.list_flags[p] = "free"     -> n = 0 /\ s = 0
           [] heap.list_flags[p] = "nfull"    -> n \in 1 .. PageBlocks - 1 /\ s = 0
           [] heap.list_flags[p] = "full"     -> n = PageBlocks /\ s = 0
           [] heap.list_flags[p] = "source"   -> n \in 1 .. PageBlocks - 1 /\ s > 0
           [] heap.list_flags[p] = "emptying" -> n = 0 /\ s > 0
           [] OTHER                           -> FALSE
PageStates == heap.ok => \A p \in Page : PageState(p)

(* sourceentries of a page counts the blocks being copied out of it, and   *)
(* those whose copy was taken over by a thread that will release the page  *)
(* when its own compaction returns: pages are released once, by the last.  *)
SourceSlots ==
  heap.ok => \A p \in Page :
    heap.sourceentries[p] = Cardinality({t \in Copying : page_of(op[t].src) = p})
                          + Cardinality({t \in Thread : op[t] # Null /\ op[t].releases = p})

(* A copy in progress: source and target know each other, the object is    *)
(* still at the source and is flagged, the target holds the chunks copied  *)
(* so far and nobody else has the block.                                   *)
CopyInProgress(j) ==
  /\ part[j.target] = j.src
  /\ part[j.src] = j.target
  /\ j.src_aa \in live
  /\ aa[j.src_aa] = [blk |-> j.src, compact |-> TRUE, free |-> FALSE]
  /\ j.target_aa_val = points_to(j.target)
  /\ j.address = j.target_aa
  /\ get_abstract_address_of_page_block(mem, j.target) = j.target_aa
  /\ \A c \in 1 .. j.copied : mem[j.target][c] = j.src_aa
  /\ index_of(j.target) \in heap.used[page_of(j.target)]
  /\ index_of(j.src) \notin heap.used[page_of(j.src)]
CopyProtocol ==
  heap.ok => /\ \A t \in Copying : CopyInProgress(op[t])
             /\ \A t, u \in Copying : t # u =>
                  {op[t].src, op[t].target} \cap {op[u].src, op[u].target} = {}

(* The flags and the partition field that do_compaction sets are gone when *)
(* the copy is over: an object that is not being copied is plain again.    *)
NoStaleCopy ==
  heap.ok => \A a \in live :
    LET b == aa[a].blk
    IN  b \notin Sources => aa[a] = points_to(b) /\ ~being_copied(b)

(* The used bits are those of the objects that sit still and of the blocks *)
(* being filled: no block is lost, whatever was aborted or taken over.     *)
NoBlockLost ==
  heap.ok => {b \in Block : index_of(b) \in heap.used[page_of(b)]}
             = ({aa[a].blk : a \in live} \ Sources) \cup Targets

(* An abstract address is free, held by the program, or kept by exactly    *)
(* one cf_free that has not returned: none is handed out while a copy      *)
(* still watches it for an abort, and none is lost.                        *)
AddressesConserved ==
  heap.ok => /\ pool = {a \in AA : aa[a] = Null}
             /\ AA = pool \cup live \cup {op[t].address : t \in {u \in Thread : op[u] # Null}}
             /\ pool \cap live = {}
             /\ \A t \in Thread : op[t] # Null => op[t].address \notin live \cup pool
             /\ \A t, u \in Thread :
                  t # u /\ op[t] # Null /\ op[u] # Null => op[t].address # op[u].address

(* Fragmentation: at most one page is a source and, with it, at most k + 1 *)
(* pages are neither full nor on their way to the pool.                    *)
FragmentationBound ==
  heap.ok => /\ Len(heap.source) <= 1
             /\ nfullentries(heap) + Len(heap.source) <= PartialCompactionBound + 1

(* The class implements the heap of AbstractHeap whose objects may be      *)
(* moving: what the program finds through cf_dereference, whenever nobody  *)
(* is inside a critical section of the class, is what it put there, but    *)
(* for at most one object for each cf_free that has not returned; moves    *)
(* that are aborted or taken over included, and no address comes back too  *)
(* early.  The heap cf.h promises is Heap!Spec; it is the same where       *)
(* objects are moved as a whole.                                           *)
Heap == INSTANCE AbstractHeap WITH
          Moving    <- off_by_a_flag,
          objects   <- [a \in live |-> cf_dereference(a)],
          returning <- {op[t].address : t \in {u \in Thread : op[u] # Null}}
ImplementsMovingHeap == Heap!MovingSpec
ImplementsHeap == Heap!Spec

(* Every compaction ends, copied or aborted. *)
CompactionEnds == \A t \in Thread : op[t] # Null ~> (op[t] = Null \/ ~heap.ok)
=============================================================================
