-------------------------- MODULE CompactFitProofs --------------------------
(***************************************************************************)
(* Theorems about CompactFit, for every set of threads, pages and abstract *)
(* addresses, every page size, increment and bound k: type correctness and *)
(* the bound on fragmentation.  A failed check leaves the heap as it was   *)
(* and clears ok, so both are inductive together; what the steps do to the *)
(* page lists is in SizeClassProofs.                                       *)
(*                                                                         *)
(* The second part says what the parts of a critical section do to words,  *)
(* contents and half-done compactions.  The third has the safety theorems: *)
(* the invariant that puts the page lists, the counters of the pages and   *)
(* that protocol together, and what follows from it.                       *)
(*                                                                         *)
(* The last part shows that the size-class implements the heap of cf.h:    *)
(* every critical section is an Alloc, a Free or a Return of AbstractHeap, *)
(* or a step the program does not see.                                     *)
(***************************************************************************)
EXTENDS CompactFit, SizeClassProofs

Words == [AA -> Word \cup {Null}]
Memory == [Block -> [Chunk -> AA \cup {Null, Junk}]]
Partition == [Block -> Block \cup {Null, Junk}]

(* The variables but live, which cf_malloc and cf_free update on their own. *)
StateOK ==
  /\ heap \in SizeClassType /\ Bounded(heap)
  /\ aa \in Words
  /\ mem \in Memory
  /\ part \in Partition
  /\ pool \in SUBSET AA
  /\ op \in [Thread -> Job \cup {Null}]

IInv == StateOK /\ live \in SUBSET AA

LEMMA IInvImplies == IInv => TypeOK /\ FragmentationBound
BY DEF IInv, StateOK, TypeOK, FragmentationBound, Bounded, nsources, Words, Memory, Partition

-----------------------------------------------------------------------------
(* Updates of the words, the memory and the partition fields.              *)
LEMMA Flags ==
  ASSUME NEW words \in Words, NEW a \in AA, words[a] # Null
  PROVE  /\ [words EXCEPT ![a].compact = TRUE] \in Words
         /\ [words EXCEPT ![a].free = TRUE] \in Words
<1>1. words[a] \in Word
  BY DEF Words
<1>2. /\ [words[a] EXCEPT !.compact = TRUE] \in Word
      /\ [words[a] EXCEPT !.free = TRUE] \in Word
  BY <1>1 DEF Word
<1> QED
  BY <1>2 DEF Words

LEMMA BlockParts ==
  ASSUME NEW b \in Block
  PROVE  page_of(b) \in Page /\ index_of(b) \in Index
BY DEF Block, page_of, index_of

LEMMA PointsTo ==
  ASSUME NEW b \in Block
  PROVE  points_to(b) \in Word
BY DEF points_to, Word

LEMMA Forget ==
  ASSUME NEW m \in Memory, NEW B
  PROVE  forget(m, B) \in Memory
BY DEF forget, Memory

LEMMA ForgetPart ==
  ASSUME NEW q \in Partition, NEW B
  PROVE  forget_part(q, B) \in Partition
BY DEF forget_part, Partition

LEMMA ClearPartition ==
  ASSUME NEW q \in Partition, NEW b
  PROVE  clear_partition_field(q, b) \in Partition
BY DEF clear_partition_field, Partition

LEMMA CopyChunk ==
  ASSUME NEW m \in Memory, NEW b \in Block, NEW x \in Block, NEW c \in Chunk
  PROVE  [m EXCEPT ![x][c] = m[b][c]] \in Memory
<1>1. m[b][c] \in AA \cup {Null, Junk} /\ m[x] \in [Chunk -> AA \cup {Null, Junk}]
  BY DEF Memory
<1>2. [m[x] EXCEPT ![c] = m[b][c]] \in [Chunk -> AA \cup {Null, Junk}]
  BY <1>1
<1> QED
  BY <1>2 DEF Memory

LEMMA Partners ==
  ASSUME NEW q \in Partition, NEW b \in Block, NEW x \in Block
  PROVE  [q EXCEPT ![x] = b, ![b] = x] \in Partition
BY DEF Partition

LEMMA ClearAddress ==
  ASSUME NEW words \in Words, pool \in SUBSET AA, NEW a \in AA,
         clear_abstract_address(words, a)
  PROVE  aa' \in Words /\ pool' \in SUBSET AA
BY DEF clear_abstract_address, Words

LEMMA Crash ==
  ASSUME StateOK, crash
  PROVE  StateOK'
<1>1. heap' \in SizeClassType /\ ~heap'.ok
  BY DEF StateOK, crash, SizeClassType
<1>2. Bounded(heap')
  BY <1>1, Zenon DEF Bounded
<1> QED
  BY <1>1, <1>2 DEF StateOK, crash

-----------------------------------------------------------------------------
LEMMA InitInv == Init => IInv
<1> SUFFICES ASSUME Init PROVE IInv
  OBVIOUS
<1>1. init_size_class \in SizeClassType
  BY DEF init_size_class, SizeClassType, ListFlag
<1>2. Bounded(init_size_class)
  BY BoundAssumption DEF init_size_class, Bounded, nfullentries, nsources
<1> QED
  BY <1>1, <1>2 DEF Init, IInv, StateOK, Words, Memory, Partition

LEMMA Malloc ==
  ASSUME IInv, NEW t \in Thread, cf_malloc(t)
  PROVE  IInv'
<1>1. PICK p \in malloc_pages(heap) :
        LET open  == IF heap.nfull = <<>>
                     THEN add_page_to_nfull_list(get_free_page(heap, p), p)
                     ELSE heap
            taken == get_free_page_block(open, p)
        IN  IF ~taken.ok
            THEN crash /\ UNCHANGED live
            ELSE /\ heap' = IF is_page_full(taken, p)
                            THEN add_page_to_full_list(remove_page_from_nfull_list(taken, p), p)
                            ELSE taken
                 /\ \/ no_abstract_address
                    \/ \E a \in pool : set_abstract_address(a, <<p, free_index(open, p)>>)
  BY Zenon DEF cf_malloc
<1> DEFINE open  == IF heap.nfull = <<>>
                    THEN add_page_to_nfull_list(get_free_page(heap, p), p)
                    ELSE heap
           taken == get_free_page_block(open, p)
           full  == add_page_to_full_list(remove_page_from_nfull_list(taken, p), p)
<1>2. p \in Page
  <2>1. heap.nfull # <<>> => Last(heap.nfull) \in Page
    BY DEF IInv, StateOK, SizeClassType, Last
  <2> QED
    BY <2>1 DEF malloc_pages, free_pages
<1>3. open \in SizeClassType /\ Bounded(open)
  BY <1>2, OpenPage DEF IInv, StateOK
<1>4. taken.ok => free_index(open, p) \in Index
  <2>1. taken.ok => Index \ open.used[p] # {}
    BY <1>3 DEF get_free_page_block, expect, SizeClassType
  <2> QED
    BY <1>2, <1>3, <2>1, FreeIndex
<1> HIDE DEF open
<1>5. taken \in SizeClassType /\ Bounded(taken)
  BY <1>2, <1>3, GetFreeBlock, MovesShrinks, ShrinksBounded
<1> HIDE DEF taken
<1>6. full \in SizeClassType /\ Bounded(full)
  BY <1>2, <1>5, NfullToFull, ShrinksBounded
<1> HIDE DEF full
<1>7. CASE ~taken.ok
  BY <1>1, <1>7, Crash DEF IInv, taken, open
<1>8. CASE taken.ok
  <2>1. /\ heap' = IF is_page_full(taken, p) THEN full ELSE taken
        /\ \/ no_abstract_address
           \/ \E a \in pool : set_abstract_address(a, <<p, free_index(open, p)>>)
    BY <1>1, <1>8, Zenon DEF taken, open, full
  <2>2. heap' \in SizeClassType /\ Bounded(heap')
    BY <1>5, <1>6, <2>1
  <2>3. op' = op
    BY Zenon DEF cf_malloc
  <2>4. CASE no_abstract_address
    BY <2>2, <2>3, <2>4 DEF IInv, StateOK, no_abstract_address
  <2>5. CASE \E a \in pool : set_abstract_address(a, <<p, free_index(open, p)>>)
    <3>1. PICK a \in pool : set_abstract_address(a, <<p, free_index(open, p)>>)
      BY <2>5
    <3> DEFINE b == <<p, free_index(open, p)>>
    <3>2. b \in Block /\ a \in AA
      BY <1>2, <1>4, <1>8 DEF Block, IInv, StateOK
    <3> HIDE DEF b
    <3>3. points_to(b) \in Word
      BY <3>2, PointsTo
    <3>4. aa' \in Words /\ pool' \in SUBSET AA /\ live' \in SUBSET AA
      BY <3>1, <3>2, <3>3 DEF set_abstract_address, IInv, StateOK, Words, b
    <3>5. mem' \in Memory /\ part' \in Partition
      BY <3>1, <3>2 DEF set_abstract_address, IInv, StateOK, Memory, Partition, b
    <3> QED
      BY <2>2, <2>3, <3>4, <3>5 DEF IInv, StateOK
  <2> QED
    BY <2>1, <2>4, <2>5
<1> QED
  BY <1>7, <1>8

-----------------------------------------------------------------------------
(* What do_compaction and cf_free do once the last chunk is copied. *)
LEMMA Finish ==
  ASSUME StateOK, NEW t \in Thread, NEW j \in Job, NEW h \in SizeClassType, Bounded(h),
         NEW words \in Words, NEW m \in Memory, NEW q \in Partition,
         finish(t, j, h, words, m, q)
  PROVE  StateOK'
<1> DEFINE released == release_source_page(h, page_of(j.src))
           done == IF j.releases = Null THEN released
                   ELSE release_source_page(released, j.releases)
           G == gone({j.src}, done)
<1>1. /\ heap' = done
      /\ mem'  = forget(m, G)
      /\ part' = forget_part(clear_partition_field(q, j.target), G)
      /\ clear_abstract_address(redirect_address(words, j), j.address)
      /\ op' = [op EXCEPT ![t] = Null]
  BY Zenon DEF finish
<1>2. /\ j.src \in Block /\ j.src_aa \in AA /\ j.address \in AA
      /\ j.target_aa_val \in Word /\ j.releases \in Page \cup {Null}
  BY DEF Job
<1> HIDE DEF G
<1>3. mem' \in Memory /\ part' \in Partition
  BY <1>1, Forget, ForgetPart, ClearPartition
<1>4. released \in SizeClassType /\ Bounded(released)
  BY <1>2, BlockParts, ReleaseSourcePage, ShrinksBounded
<1> HIDE DEF released
<1>5. done \in SizeClassType /\ Bounded(done)
  BY <1>2, <1>4, ReleaseSourcePage, ShrinksBounded
<1> HIDE DEF done
<1>6. redirect_address(words, j) \in Words
  BY <1>2 DEF redirect_address, Words
<1>7. aa' \in Words /\ pool' \in SUBSET AA
  BY <1>1, <1>2, <1>6, ClearAddress DEF StateOK
<1>8. op' \in [Thread -> Job \cup {Null}]
  BY <1>1 DEF StateOK
<1> QED
  BY <1>1, <1>3, <1>5, <1>7, <1>8 DEF StateOK

LEMMA FreeInPlace ==
  ASSUME StateOK, heap.ok, NEW t \in Thread, NEW a \in AA, aa[a] # Null, free_in_place(t, a)
  PROVE  StateOK'
<1> DEFINE b == aa[a].blk
           p == page_of(b)
           i == index_of(b)
           h == IF in_full_state(heap) THEN do_free_full_state(heap, p, i)
                ELSE IF valid_nfull_pages_ratio(heap, 1) THEN do_free(heap, p, i)
                ELSE do_free_nfull_state(heap, p, i)
           G == gone({b}, h)
<1>1. /\ heap' = h
      /\ mem'  = forget(mem, G)
      /\ part' = forget_part(part, G)
      /\ clear_abstract_address(aa, a)
      /\ op' = op
  BY Zenon DEF free_in_place
<1>2. p \in Page /\ i \in Index
  <2>1. b \in Block
    BY DEF StateOK, Words, Word
  <2> QED
    BY <2>1, BlockParts
<1> HIDE DEF p, i, G
<1>3. h \in SizeClassType /\ Bounded(h)
  <2>1. CASE in_full_state(heap)
    BY <1>2, <2>1, FullStateRoomy, DoFreeFullState DEF StateOK
  <2>2. CASE ~in_full_state(heap) /\ valid_nfull_pages_ratio(heap, 1)
    BY <1>2, <2>2, BelowBoundRoomy, DoFree DEF StateOK
  <2>3. CASE ~in_full_state(heap) /\ ~valid_nfull_pages_ratio(heap, 1)
    BY <1>2, <2>3, DoFreeNfullState, ShrinksBounded DEF StateOK
  <2> QED
    BY <2>1, <2>2, <2>3
<1> HIDE DEF h
<1>4. mem' \in Memory /\ part' \in Partition
  BY <1>1, Forget, ForgetPart DEF StateOK
<1>5. aa' \in Words /\ pool' \in SUBSET AA
  BY <1>1, ClearAddress DEF StateOK
<1> QED
  BY <1>1, <1>3, <1>4, <1>5 DEF StateOK

LEMMA FreeWhileCopied ==
  ASSUME StateOK, heap.ok, NEW t \in Thread, NEW a \in AA, aa[a] # Null, free_while_copied(t, a)
  PROVE  StateOK'
<1> DEFINE b == aa[a].blk
           p == page_of(b)
           x == part[b]
           q == page_of(x)
           i == index_of(x)
           target_aa == get_abstract_address_of_page_block(mem, x)
           e == expect(heap, heap.list_flags[p] = "emptying", heap)
           f == IF valid_nfull_pages_ratio(heap, 1) THEN do_free(heap, q, i)
                ELSE do_free_nfull_state(heap, q, i)
           h == IF in_full_state(heap) THEN release_emptying_page(do_free_full_state(e, q, i), p)
                ELSE release_source_page(f, p)
           G == gone({b, x}, h)
<1>1. CASE ~copy_target(x)
  <2>1. crash
    BY <1>1, Zenon DEF free_while_copied
  <2> QED
    BY <2>1, Crash
<1>2. CASE copy_target(x)
  <2>1. /\ heap' = h
        /\ mem'  = forget(mem, G)
        /\ part' = forget_part(part, G)
        /\ clear_abstract_address([aa EXCEPT ![target_aa].free = TRUE], a)
        /\ op' = op
    BY <1>2, Zenon DEF free_while_copied
  <2>2. x \in Block /\ target_aa \in AA /\ aa[target_aa] # Null
    BY <1>2 DEF copy_target
  <2>3. p \in Page /\ q \in Page /\ i \in Index
    <3>1. b \in Block
      BY DEF StateOK, Words, Word
    <3> QED
      BY <2>2, <3>1, BlockParts
  <2> HIDE DEF G
  <2>4. mem' \in Memory /\ part' \in Partition
    BY <2>1, Forget, ForgetPart DEF StateOK
  <2>5. aa' \in Words /\ pool' \in SUBSET AA
    <3> HIDE DEF target_aa
    <3>1. [aa EXCEPT ![target_aa].free = TRUE] \in Words
      BY <2>2, Flags DEF StateOK
    <3> QED
      BY <2>1, <3>1, ClearAddress DEF StateOK
  <2> HIDE DEF p, q, i, b, x
  <2>6. e \in SizeClassType /\ Shrinks(heap, e)
    <3>1. (heap.list_flags[p] = "emptying") \in BOOLEAN
      OBVIOUS
    <3> QED
      BY <3>1, Assertion DEF StateOK
  <2> HIDE DEF e
  <2>7. h \in SizeClassType /\ Bounded(h)
    <3>1. CASE in_full_state(heap)
      <4> DEFINE g == do_free_full_state(e, q, i)
      <4>1. Roomy(e)
        BY <2>6, <3>1, FullStateRoomy, ShrinksRoomy DEF StateOK
      <4>2. g \in SizeClassType /\ Bounded(g)
        BY <2>3, <2>6, <4>1, DoFreeFullState
      <4> HIDE DEF g
      <4>3. release_emptying_page(g, p) \in SizeClassType /\ Bounded(release_emptying_page(g, p))
        BY <2>3, <4>2, ReleaseEmptyingPage, ShrinksBounded
      <4> QED
        BY <3>1, <4>3 DEF g
    <3>2. CASE ~in_full_state(heap)
      <4>1. f \in SizeClassType /\ Bounded(f)
        <5>1. CASE valid_nfull_pages_ratio(heap, 1)
          BY <2>3, <5>1, BelowBoundRoomy, DoFree DEF StateOK
        <5>2. CASE ~valid_nfull_pages_ratio(heap, 1)
          BY <2>3, <5>2, DoFreeNfullState, ShrinksBounded DEF StateOK
        <5> QED
          BY <5>1, <5>2
      <4> HIDE DEF f
      <4>2. release_source_page(f, p) \in SizeClassType /\ Bounded(release_source_page(f, p))
        BY <2>3, <4>1, ReleaseSourcePage, ShrinksBounded
      <4> QED
        BY <3>2, <4>2
    <3> QED
      BY <3>1, <3>2
  <2> HIDE DEF h
  <2> QED
    BY <2>1, <2>4, <2>5, <2>7 DEF StateOK
<1> QED
  BY <1>1, <1>2

-----------------------------------------------------------------------------
(* do_compaction up to its first unlock: the source page it picks, the     *)
(* take-over and the first chunk.                                          *)
LEMMA DoCompaction ==
  ASSUME StateOK, NEW t \in Thread, NEW a \in AA, NEW x \in Block,
         NEW releases \in Page \cup {Null}, NEW words \in Words, NEW m \in Memory, NEW F,
         do_compaction(t, a, x, releases, words, m, F)
  PROVE  StateOK'
<1> DEFINE chosen == get_source_page(heap)
           p0 == source_page(heap)
           b0 == <<p0, find_used_page_block(chosen, p0)>>
           h0 == page_clear_used_bit(chosen, p0, index_of(b0))
           redirect == source_is_target(b0)
           aa0 == get_abstract_address_of_page_block(m, b0)
           b == IF redirect THEN part[b0] ELSE b0
           words0 == IF redirect THEN [words EXCEPT ![aa0].compact = TRUE] ELSE words
           r == release_source_page(h0, p0)
           s == /\ r.sourceentries[page_of(b)] > 0
                /\ r.list_flags[page_of(b)] \in {"source", "emptying"}
           h1 == IF redirect THEN expect(r, s, r) ELSE h0
           src_aa == get_abstract_address_of_page_block(m, b)
           target_aa == get_abstract_address_of_page_block(m, x)
           words1 == [words0 EXCEPT ![src_aa].compact = TRUE]
           j == [address |-> a, target |-> x, target_aa |-> target_aa,
                 target_aa_val |-> words1[target_aa], src |-> b, src_aa |-> src_aa,
                 copied |-> 1, releases |-> releases]
           m1 == [m EXCEPT ![x][1] = m[b][1]]
           q1 == [part EXCEPT ![x] = b, ![b] = x]
           G == gone(F \cup IF redirect THEN {b0} ELSE {}, h1)
           sane == /\ chosen.ok
                   /\ chosen.used[p0] # {}
                   /\ redirect => part[b0] \in Block /\ aa0 \in AA /\ words[aa0] # Null
                   /\ src_aa \in AA /\ words0[src_aa] # Null
                   /\ target_aa \in AA /\ words0[target_aa] # Null
           go == IF Incremental
                 THEN /\ heap' = h1
                      /\ aa'   = words1
                      /\ mem'  = forget(m1, G)
                      /\ part' = forget_part(q1, G)
                      /\ op'   = [op EXCEPT ![t] = j]
                      /\ UNCHANGED pool
                 ELSE finish(t, j, h1, words1, m1, part)
<1>1. IF ~sane THEN crash ELSE go
  BY Zenon DEF do_compaction
<1>2. CASE ~sane
  <2> HIDE DEF sane, go
  <2> QED
    BY <1>1, <1>2, Crash
<1>3. CASE sane
  <2>1. go
    <3> HIDE DEF sane, go
    <3> QED
      BY <1>1, <1>3
  <2>2. chosen \in SizeClassType /\ Bounded(chosen)
    BY GetSourcePage, ShrinksBounded DEF StateOK
  <2>3. p0 \in Page
    <3>1. heap \in SizeClassType /\ chosen.ok
      BY <1>3 DEF StateOK
    <3>2. chosen = get_source_page(heap)
      OBVIOUS
    <3> HIDE DEF chosen
    <3>3. heap.source # <<>> \/ heap.nfull # <<>>
      BY ONLY <3>1, <3>2, SourceFound
    <3> QED
      BY ONLY <3>1, <3>3, SourcePage DEF p0
  <2>4. b0 \in Block
    <3>1. find_used_page_block(chosen, p0) \in Index
      <4> HIDE DEF p0
      <4>1. chosen.used[p0] \in SUBSET Index /\ chosen.used[p0] # {}
        BY <1>3, <2>2, <2>3 DEF SizeClassType
      <4> QED
        BY <4>1, MinOfIndexes DEF find_used_page_block
    <3> QED
      BY <2>3, <3>1 DEF Block
  <2>5. /\ redirect => part[b0] \in Block /\ aa0 \in AA /\ words[aa0] # Null
        /\ src_aa \in AA /\ words0[src_aa] # Null
        /\ target_aa \in AA /\ words0[target_aa] # Null
    BY <1>3, Zenon
  <2> HIDE DEF chosen, p0, sane
  <2>6. h0 \in SizeClassType /\ Bounded(h0)
    <3>1. h0 \in SizeClassType /\ Moves(chosen, h0, 0, 0)
      BY <2>2, <2>3, <2>4, BlockParts, ClearUsedBit
    <3> HIDE DEF h0
    <3> QED
      BY <2>2, <3>1, MovesShrinks, ShrinksBounded
  <2> HIDE DEF b0, h0
  <2>7. b \in Block
    BY <2>4, <2>5
  <2>8. words0 \in Words
    <3> HIDE DEF aa0, redirect
    <3> QED
      BY <2>5, Flags
  <2>9. h1 \in SizeClassType /\ Bounded(h1)
    <3>1. r \in SizeClassType /\ Bounded(r)
      BY <2>3, <2>6, ReleaseSourcePage, ShrinksBounded
    <3>2. s \in BOOLEAN
      OBVIOUS
    <3> HIDE DEF r, s
    <3>3. expect(r, s, r) \in SizeClassType /\ Bounded(expect(r, s, r))
      BY <3>1, <3>2, Assertion, ShrinksBounded
    <3> QED
      BY <2>6, <3>3
  <2> HIDE DEF redirect, words0, h1, b, src_aa, target_aa
  <2>10. words1 \in Words
    BY <2>5, <2>8, Flags
  <2>11. words1[target_aa] \in Word
    <3>1. words0[target_aa] \in Word /\ words0[src_aa] \in Word
      BY <2>5, <2>8 DEF Words
    <3>2. [words0[src_aa] EXCEPT !.compact = TRUE] \in Word
      BY <3>1 DEF Word
    <3> QED
      BY <2>5, <2>8, <3>1, <3>2 DEF Words
  <2> HIDE DEF words1
  <2>12. 1 \in Chunk
    BY IncrementsAssumption DEF Chunk
  <2>13. j \in Job
    BY <2>5, <2>7, <2>11, <2>12 DEF Job
  <2>14. m1 \in Memory
    BY <2>7, <2>12, CopyChunk
  <2>15. q1 \in Partition
    BY <2>7, Partners DEF StateOK
  <2> HIDE DEF j, m1, q1, G
  <2>16. CASE Incremental
    <3>1. op' \in [Thread -> Job \cup {Null}]
      BY <2>1, <2>13, <2>16 DEF StateOK
    <3>2. mem' \in Memory /\ part' \in Partition
      BY <2>1, <2>14, <2>15, <2>16, Forget, ForgetPart
    <3> QED
      BY <2>1, <2>9, <2>10, <2>16, <3>1, <3>2 DEF StateOK
  <2>17. CASE ~Incremental
    <3>1. finish(t, j, h1, words1, m1, part)
      BY <2>1, <2>17
    <3>2. part \in Partition
      BY DEF StateOK
    <3> QED
      BY <2>9, <2>10, <2>13, <2>14, <3>1, <3>2, Finish
  <2> QED
    BY <2>16, <2>17
<1> QED
  BY <1>2, <1>3

LEMMA Free ==
  ASSUME IInv, NEW t \in Thread, NEW a \in AA, cf_free(t, a)
  PROVE  IInv'
<1>1. heap.ok /\ live' = live \ {a}
  BY Zenon DEF cf_free
<1>2. StateOK'
  <2>1. StateOK
    BY DEF IInv
  <2>2. CASE aa[a] = Null
    <3>1. crash
      BY <2>2, Zenon DEF cf_free
    <3> QED
      BY <2>1, <3>1, Crash
  <2>3. CASE aa[a] # Null
    <3>1. \/ free_in_place(t, a)
          \/ free_while_copied(t, a)
          \/ free_and_compact(t, a)
          \/ free_while_copied_and_compact(t, a)
      BY <2>3, Zenon DEF cf_free
    <3>2. CASE free_in_place(t, a)
      BY <1>1, <2>1, <2>3, <3>2, FreeInPlace
    <3>3. CASE free_while_copied(t, a)
      BY <1>1, <2>1, <2>3, <3>3, FreeWhileCopied
    <3> DEFINE b == aa[a].blk
    <3>4. b \in Block
      BY <2>1, <2>3 DEF StateOK, Words, Word
    <3>5. CASE free_and_compact(t, a)
      <4>1. do_compaction(t, a, b, Null, aa, mem, {})
        BY <3>5, Zenon DEF free_and_compact
      <4>2. aa \in Words /\ mem \in Memory
        BY <2>1 DEF StateOK
      <4> HIDE DEF b
      <4> QED
        BY <2>1, <3>4, <4>1, <4>2, DoCompaction
    <3>6. CASE free_while_copied_and_compact(t, a)
      <4> DEFINE x == part[b]
                 target_aa == get_abstract_address_of_page_block(mem, x)
                 words == [aa EXCEPT ![target_aa].free = TRUE, ![a] = points_to(x)]
                 m == [mem EXCEPT ![x][Increments] = a]
      <4>1. /\ copy_target(x)
            /\ do_compaction(t, a, x, page_of(b), words, m, {b})
        BY <3>6, Zenon DEF free_while_copied_and_compact
      <4>2. x \in Block /\ target_aa \in AA /\ aa[target_aa] # Null
        BY <4>1 DEF copy_target
      <4>3. page_of(b) \in Page
        BY <3>4, BlockParts
      <4> HIDE DEF b, target_aa, x
      <4>4. words \in Words
        <5>1. [aa EXCEPT ![target_aa].free = TRUE] \in Words
          BY <2>1, <4>2, Flags DEF StateOK
        <5> QED
          BY <4>2, <5>1, PointsTo DEF Words
      <4>5. m \in Memory
        <5>1. Increments \in Chunk
          BY IncrementsAssumption DEF Chunk
        <5>2. mem[x] \in [Chunk -> AA \cup {Null, Junk}]
          BY <2>1, <4>2 DEF StateOK, Memory
        <5>3. [mem[x] EXCEPT ![Increments] = a] \in [Chunk -> AA \cup {Null, Junk}]
          BY <5>1, <5>2
        <5> QED
          BY <2>1, <4>2, <5>3 DEF StateOK, Memory
      <4> HIDE DEF words, m
      <4> QED
        BY <2>1, <4>1, <4>2, <4>3, <4>4, <4>5, DoCompaction
    <3> QED
      BY <3>1, <3>2, <3>3, <3>5, <3>6
  <2> QED
    BY <2>2, <2>3
<1> QED
  BY <1>1, <1>2 DEF IInv

LEMMA Resume ==
  ASSUME IInv, NEW t \in Thread, resume_compaction(t)
  PROVE  IInv'
<1> DEFINE j == op[t]
<1>1. StateOK /\ live' = live
  BY Zenon DEF resume_compaction, IInv
<1>2. j \in Job
  BY <1>1 DEF resume_compaction, StateOK
<1>3. /\ j.target \in Block /\ j.src \in Block /\ j.target_aa \in AA
      /\ j.copied \in Chunk /\ j.releases \in Page \cup {Null}
  BY <1>2 DEF Job
<1>4. abort_compaction(t, j) \/ copy_chunk(t, j)
  BY Zenon DEF resume_compaction
<1>5. CASE abort_compaction(t, j)
  <2> DEFINE h == IF j.releases = Null THEN heap ELSE release_source_page(heap, j.releases)
             G == gone({}, h)
             aborted == /\ heap' = h
                        /\ mem'  = forget(mem, G)
                        /\ part' = forget_part(part, G)
                        /\ clear_abstract_address(aa, j.target_aa)
                        /\ op'   = [op EXCEPT ![t] = Null]
  <2>1. crash \/ aborted
    BY <1>5, Zenon DEF abort_compaction
  <2>2. CASE crash
    BY <1>1, <2>2, Crash DEF IInv
  <2>3. CASE aborted
    <3> HIDE DEF G
    <3>1. h \in SizeClassType /\ Bounded(h)
      BY <1>1, <1>3, ReleaseSourcePage, ShrinksBounded DEF StateOK
    <3> HIDE DEF h
    <3>2. mem' \in Memory /\ part' \in Partition
      BY <1>1, <2>3, Forget, ForgetPart DEF StateOK
    <3>3. aa' \in Words /\ pool' \in SUBSET AA
      BY <1>1, <1>3, <2>3, ClearAddress DEF StateOK
    <3>4. op' \in [Thread -> Job \cup {Null}]
      BY <1>1, <2>3 DEF StateOK
    <3> QED
      BY <1>1, <2>3, <3>1, <3>2, <3>3, <3>4 DEF StateOK, IInv
  <2> QED
    BY <2>1, <2>2, <2>3
<1>6. CASE copy_chunk(t, j)
  <2> DEFINE c == j.copied + 1
             m1 == [mem EXCEPT ![j.target][c] = mem[j.src][c]]
  <2>1. \/ /\ c < Increments
           /\ mem'  = m1
           /\ part' = [part EXCEPT ![j.target] = j.src, ![j.src] = j.target]
           /\ op'   = [op EXCEPT ![t].copied = c]
           /\ UNCHANGED <<heap, aa, pool>>
        \/ /\ c = Increments
           /\ finish(t, j, heap, aa, m1, part)
    BY <1>6, Zenon DEF copy_chunk
  <2>2. c \in Chunk
    BY <1>3, <2>1, IncrementsAssumption DEF Chunk
  <2> HIDE DEF c
  <2>3. m1 \in Memory
    BY <1>1, <1>3, <2>2, CopyChunk DEF StateOK
  <2> HIDE DEF m1
  <2>4. CASE c = Increments /\ finish(t, j, heap, aa, m1, part)
    <3>1. heap \in SizeClassType /\ Bounded(heap) /\ aa \in Words /\ part \in Partition
      BY <1>1 DEF StateOK
    <3>2. StateOK'
      BY <1>1, <1>2, <2>3, <2>4, <3>1, Finish
    <3> QED
      BY <1>1, <3>2 DEF IInv
  <2>5. CASE /\ c < Increments
             /\ mem'  = m1
             /\ part' = [part EXCEPT ![j.target] = j.src, ![j.src] = j.target]
             /\ op'   = [op EXCEPT ![t].copied = c]
             /\ UNCHANGED <<heap, aa, pool>>
    <3>1. [j EXCEPT !.copied = c] \in Job
      BY <1>2, <2>2 DEF Job
    <3>2. op' \in [Thread -> Job \cup {Null}]
      BY <1>1, <2>5, <3>1 DEF StateOK
    <3>3. part' \in Partition
      BY <1>1, <1>3, <2>5, Partners DEF StateOK
    <3> QED
      BY <1>1, <2>3, <2>5, <3>2, <3>3 DEF StateOK, IInv
  <2> QED
    BY <2>1, <2>4, <2>5
<1> QED
  BY <1>4, <1>5, <1>6

-----------------------------------------------------------------------------
LEMMA NextInv == IInv /\ [Next]_vars => IInv'
<1> SUFFICES ASSUME IInv, [Next]_vars PROVE IInv'
  OBVIOUS
<1>1. ASSUME NEW t \in Thread, cf_malloc(t) PROVE IInv'
  BY <1>1, Malloc
<1>2. ASSUME NEW t \in Thread, NEW a \in AA, cf_free(t, a) PROVE IInv'
  BY <1>2, Free
<1>3. ASSUME NEW t \in Thread, resume_compaction(t) PROVE IInv'
  BY <1>3, Resume
<1>4. CASE UNCHANGED vars
  BY <1>4 DEF vars, IInv, StateOK
<1> QED
  BY <1>1, <1>2, <1>3, <1>4, Zenon DEF Next

THEOREM Invariant == Spec => []IInv
BY InitInv, NextInv, PTL DEF Spec

(* Every variable keeps its type, in every interleaving of allocations,    *)
(* frees and half-done compactions: no list, bitmap, word, copied chunk or *)
(* half-done compaction is ever anything but one.                          *)
THEOREM TypeCorrect == Spec => []TypeOK
<1>1. IInv => TypeOK
  BY IInvImplies
<1> QED
  BY <1>1, Invariant, PTL

(* The fragmentation a size-class promises (cf.h, cf.c 1076-1083): never   *)
(* two source pages, and never more than k + 1 pages that are neither full *)
(* nor emptying, for every k, however compactions are interrupted.         *)
THEOREM FragmentationIsBounded == Spec => []FragmentationBound
<1>1. IInv => FragmentationBound
  BY IInvImplies
<1> QED
  BY <1>1, Invariant, PTL

-----------------------------------------------------------------------------
(* The protocol of a half-done compaction, without the page lists: how the *)
(* words of the abstract address space, the chunks and the partition       *)
(* fields of the blocks and the locals of the suspended threads hang       *)
(* together.  A critical section does several things one after the other   *)
(* (it detaches the freed object, takes over a copy, begins another,       *)
(* forgets what it gave up), and only its end is a state: so the protocol  *)
(* is said of parameters, which stand for                                  *)
(*   w  the words of the abstract address space       m  the memory        *)
(*   q  the partition fields                          L  the live addresses*)
(*   O  the compactions threads are in                U  the used blocks   *)
(*   X  blocks the critical section has detached from their objects        *)
(*   Y  addresses the critical section has detached from the program       *)
(* Between critical sections X and Y are empty.  Each lemma that comes     *)
(* after the definitions is one thing a critical section does.             *)

Field(m, b) == get_abstract_address_of_page_block(m, b)

Typed(w, m, q, L, O, U) ==
  /\ w \in Words /\ m \in Memory /\ q \in Partition
  /\ L \in SUBSET AA /\ U \in SUBSET Block
  /\ O \in [Thread -> Job \cup {Null}]

CopyingIn(w, O) == {t \in Thread : O[t] # Null /\ w[O[t].target_aa] = O[t].target_aa_val}
(* The threads that copy are those in C. *)
CopiersAre(w, O, C) == CopyingIn(w, O) = C
SourcesIn(w, O) == {O[t].src : t \in CopyingIn(w, O)}
TargetsIn(w, O) == {O[t].target : t \in CopyingIn(w, O)}

(* An address with a word is with the program, with one compaction, or     *)
(* with the critical section.                                              *)
AddressesApart(w, L, O, Y) ==
  /\ \A a \in L \cup Y : w[a] # Null
  /\ L \cap Y = {}
  /\ \A t \in Thread : O[t] # Null => O[t].address \notin L \cup Y /\ w[O[t].address] # Null
  /\ \A t, u \in Thread : O[t] # Null /\ O[u] # Null /\ O[t].address = O[u].address => t = u
  /\ \A a \in AA : w[a] # Null => a \in L \cup Y \/ \E t \in Thread : O[t] # Null /\ O[t].address = a

(* A compaction watches its own address, which pointed to its target; what *)
(* has changed since is a flag.                                            *)
JobsWatch(w, O) ==
  \A t \in Thread : O[t] # Null =>
    /\ O[t].target_aa = O[t].address
    /\ O[t].target_aa_val = points_to(O[t].target)
    /\ t \notin CopyingIn(w, O) => w[O[t].address].compact \/ w[O[t].address].free

ObjectsHeld(w, m, L) == \A a \in L, c \in Chunk : m[w[a].blk][c] = a

(* An object that is not being copied has a plain word and a used block.   *)
ObjectsPlain(w, q, L, O, U) ==
  \A a \in L : w[a].blk \notin SourcesIn(w, O) =>
    w[a] = points_to(w[a].blk) /\ (Incremental => q[w[a].blk] = Null) /\ w[a].blk \in U

(* The target keeps the address it had until its last chunk is copied.     *)
InProgress(w, m, q, L, U, j) ==
  /\ Incremental => q[j.target] = j.src /\ q[j.src] = j.target
  /\ j.src_aa \in L
  /\ w[j.src_aa] = [blk |-> j.src, compact |-> TRUE, free |-> FALSE]
  /\ j.copied < Increments => Field(m, j.target) = j.address
  /\ \A c \in 1 .. j.copied : m[j.target][c] = j.src_aa
  /\ j.target \in U
  /\ j.src \notin U
CopiesInProgress(w, m, q, L, O, U) ==
  \A t \in CopyingIn(w, O) : InProgress(w, m, q, L, U, O[t])

(* No object is copied twice at a time. *)
SourcesApart(w, O) ==
  \A t, u \in CopyingIn(w, O) : O[t].src = O[u].src => t = u

(* A block whose abstract address field has an address is the block of the *)
(* object there, the target of a copy, or detached.                        *)
FieldsTrue(w, m, L, O, X) ==
  \A b \in Block : Field(m, b) \in AA =>
    \/ b \in X
    \/ b \in TargetsIn(w, O)
    \/ Field(m, b) \in L /\ w[Field(m, b)].blk = b

Detached(w, L, O, X) ==
  /\ \A a \in L : w[a].blk \notin X
  /\ X \cap TargetsIn(w, O) = {}

(* The program may hold MaxLive objects, and every other thread may be in  *)
(* a cf_free that keeps one address, and may keep Hoard free ones from the *)
(* thread that allocates: get_free_aa finds one among the rest.            *)
EnoughAddresses ==
  /\ IsFiniteSet(AA) /\ MaxLive \in Nat
  /\ Cardinality(AA) >= MaxLive + (Cardinality(Thread) - 1) + hoarded

(* Then cf_malloc always finds an address, and every used block has one.   *)
BlocksHeld(m, U) == EnoughAddresses => \A b \in U : Field(m, b) \in AA

Protocol(w, m, q, L, O, U, X, Y) ==
  /\ Typed(w, m, q, L, O, U)
  /\ AddressesApart(w, L, O, Y)
  /\ JobsWatch(w, O)
  /\ ObjectsHeld(w, m, L)
  /\ ObjectsPlain(w, q, L, O, U)
  /\ CopiesInProgress(w, m, q, L, O, U)
  /\ SourcesApart(w, O)
  /\ FieldsTrue(w, m, L, O, X)
  /\ Detached(w, L, O, X)
  /\ BlocksHeld(m, U)

(* The protocol once the critical section has begun a copy. *)
ProtocolBegun(w, m, q, L, O, U, X, C) ==
  Protocol(w, m, q, L, O, U, X, {}) /\ CopiersAre(w, O, C)

-----------------------------------------------------------------------------
(* What the protocol says of a copy and of an object.                      *)
LEMMA ChunkBounds == 1 \in Chunk /\ Increments \in Chunk
BY IncrementsAssumption DEF Chunk

LEMMA JobFacts ==
  ASSUME NEW w, NEW m, NEW q, NEW L, NEW O, NEW U, NEW X, NEW Y,
         Protocol(w, m, q, L, O, U, X, Y), NEW t \in Thread, O[t] # Null
  PROVE  /\ O[t] \in Job
         /\ O[t].address \in AA /\ O[t].target \in Block /\ O[t].src \in Block
         /\ O[t].src_aa \in AA /\ O[t].copied \in Chunk /\ O[t].releases \in Page \cup {Null}
         /\ O[t].target_aa = O[t].address
         /\ O[t].target_aa_val = points_to(O[t].target)
         /\ O[t].address \notin L \cup Y
         /\ w[O[t].address] \in Word
         /\ t \in CopyingIn(w, O) <=> w[O[t].address] = points_to(O[t].target)
<1>1. O[t] \in Job
  BY DEF Protocol, Typed
<1>2. /\ O[t].address \in AA /\ O[t].target \in Block /\ O[t].src \in Block
      /\ O[t].src_aa \in AA /\ O[t].copied \in Chunk /\ O[t].releases \in Page \cup {Null}
  BY <1>1 DEF Job
<1>3. /\ O[t].target_aa = O[t].address
      /\ O[t].target_aa_val = points_to(O[t].target)
  BY DEF Protocol, JobsWatch
<1>4. O[t].address \notin L \cup Y /\ w[O[t].address] # Null
  BY DEF Protocol, AddressesApart
<1>5. w[O[t].address] \in Word
  BY <1>2, <1>4 DEF Protocol, Typed, Words
<1>6. t \in CopyingIn(w, O) <=> w[O[t].address] = points_to(O[t].target)
  BY <1>3 DEF CopyingIn
<1> QED
  BY <1>1, <1>2, <1>3, <1>4, <1>5, <1>6

LEMMA ObjectFacts ==
  ASSUME NEW w, NEW m, NEW q, NEW L, NEW O, NEW U, NEW X, NEW Y,
         Protocol(w, m, q, L, O, U, X, Y), NEW a \in L
  PROVE  /\ a \in AA /\ w[a] \in Word /\ w[a] # Null /\ w[a].blk \in Block
         /\ \A c \in Chunk : m[w[a].blk][c] = a
         /\ Field(m, w[a].blk) = a
         /\ w[a].blk \notin X
         /\ a \notin Y
<1>1. a \in AA /\ w[a] # Null /\ a \notin Y
  BY DEF Protocol, Typed, AddressesApart
<1>2. w[a] \in Word
  BY <1>1 DEF Protocol, Typed, Words
<1>3. w[a].blk \in Block
  BY <1>2 DEF Word
<1>4. \A c \in Chunk : m[w[a].blk][c] = a
  BY DEF Protocol, ObjectsHeld
<1>5. Field(m, w[a].blk) = a
  BY <1>4, ChunkBounds DEF Field, get_abstract_address_of_page_block
<1>6. w[a].blk \notin X
  BY DEF Protocol, Detached
<1> QED
  BY <1>1, <1>2, <1>3, <1>4, <1>5, <1>6

LEMMA CopyFacts ==
  ASSUME NEW w, NEW m, NEW q, NEW L, NEW O, NEW U, NEW X, NEW Y,
         Protocol(w, m, q, L, O, U, X, Y), NEW t \in CopyingIn(w, O)
  PROVE  /\ t \in Thread /\ O[t] # Null
         /\ InProgress(w, m, q, L, U, O[t])
         /\ w[O[t].address] = points_to(O[t].target)
         /\ O[t].src_aa \in L /\ w[O[t].src_aa].blk = O[t].src
         /\ O[t].src \in SourcesIn(w, O) /\ O[t].target \in TargetsIn(w, O)
         /\ O[t].target \in U /\ O[t].src \notin U /\ O[t].target # O[t].src
         /\ O[t].target \notin X
         /\ \A a \in L : w[a].blk # O[t].target
<1>1. t \in Thread /\ O[t] # Null
  BY DEF CopyingIn
<1>2. InProgress(w, m, q, L, U, O[t])
  BY DEF Protocol, CopiesInProgress
<1>3. w[O[t].address] = points_to(O[t].target) /\ O[t].copied \in Chunk
  BY <1>1, JobFacts
<1>4. /\ O[t].src_aa \in L /\ w[O[t].src_aa].blk = O[t].src
      /\ O[t].target \in U /\ O[t].src \notin U /\ O[t].target # O[t].src
  BY <1>2 DEF InProgress
<1>5. O[t].src \in SourcesIn(w, O) /\ O[t].target \in TargetsIn(w, O)
  BY DEF SourcesIn, TargetsIn
<1>6. O[t].target \notin X
  BY <1>5 DEF Protocol, Detached
<1>7. ASSUME NEW a \in L, w[a].blk = O[t].target
      PROVE  FALSE
  <2>1. Field(m, O[t].target) = a
    BY <1>7, ObjectFacts
  <2>2. CASE O[t].copied < Increments
    <3>1. Field(m, O[t].target) = O[t].address
      BY <1>2, <2>2 DEF InProgress
    <3> QED
      BY <1>1, <2>1, <3>1, JobFacts
  <2>3. CASE ~(O[t].copied < Increments)
    <3>1. O[t].copied = Increments /\ Increments \in 1 .. O[t].copied
      BY <1>3, <2>3, IncrementsAssumption DEF Chunk
    <3>2. m[O[t].target][Increments] = O[t].src_aa
      BY <1>2, <3>1 DEF InProgress
    <3>3. a = O[t].src_aa
      BY <2>1, <3>2 DEF Field, get_abstract_address_of_page_block
    <3> QED
      BY <1>4, <1>7, <3>3
  <2> QED
    BY <2>2, <2>3
<1> QED
  BY <1>1, <1>2, <1>3, <1>4, <1>5, <1>6, <1>7

(* Copies share neither targets nor sources, no target is a source, and an *)
(* object has its block to itself.                                         *)
LEMMA CopiesApart ==
  ASSUME NEW w, NEW m, NEW q, NEW L, NEW O, NEW U, NEW X, NEW Y,
         Protocol(w, m, q, L, O, U, X, Y),
         NEW t \in CopyingIn(w, O), NEW u \in CopyingIn(w, O)
  PROVE  /\ O[t].src # O[u].target
         /\ O[t].src = O[u].src => t = u
         /\ O[t].src_aa = O[u].src_aa => t = u
         /\ O[t].target = O[u].target => t = u
         /\ O[t].address # O[u].src_aa
<1>1. O[t].src # O[u].target
  BY CopyFacts
<1>2. O[t].src = O[u].src => t = u
  BY DEF Protocol, SourcesApart
<1>3. O[t].src_aa = O[u].src_aa => t = u
  BY <1>2, CopyFacts
<1>4. O[t].address # O[u].src_aa
  <2>1. O[t].address \notin L
    BY CopyFacts, JobFacts
  <2> QED
    BY <2>1, CopyFacts
<1>5. ASSUME O[t].target = O[u].target PROVE t = u
  <2>1. w[O[t].address] = w[O[u].address]
    BY <1>5, CopyFacts
  <2>2. /\ t \in Thread /\ O[t] # Null /\ u \in Thread /\ O[u] # Null
        /\ O[t].address \notin L /\ O[u].address \notin L
        /\ O[t].copied \in Chunk /\ O[u].copied \in Chunk
        /\ InProgress(w, m, q, L, U, O[t]) /\ InProgress(w, m, q, L, U, O[u])
        /\ O[t].src_aa \in L /\ O[u].src_aa \in L
    BY CopyFacts, JobFacts
  <2>3. Field(m, O[t].target) = IF O[t].copied < Increments THEN O[t].address ELSE O[t].src_aa
    <3>1. ~(O[t].copied < Increments) => Increments \in 1 .. O[t].copied
      BY <2>2, IncrementsAssumption DEF Chunk
    <3> QED
      BY <2>2, <3>1 DEF InProgress, Field, get_abstract_address_of_page_block
  <2>4. Field(m, O[u].target) = IF O[u].copied < Increments THEN O[u].address ELSE O[u].src_aa
    <3>1. ~(O[u].copied < Increments) => Increments \in 1 .. O[u].copied
      BY <2>2, IncrementsAssumption DEF Chunk
    <3> QED
      BY <2>2, <3>1 DEF InProgress, Field, get_abstract_address_of_page_block
  <2>5. O[t].address = O[u].address \/ O[t].src_aa = O[u].src_aa
    BY <1>5, <2>2, <2>3, <2>4
  <2>6. O[t].address = O[u].address => t = u
    BY <2>2 DEF Protocol, AddressesApart
  <2> QED
    BY <1>3, <2>5, <2>6
<1> QED
  BY <1>1, <1>2, <1>3, <1>4, <1>5

LEMMA ObjectBlock ==
  ASSUME NEW w, NEW m, NEW q, NEW L, NEW O, NEW U, NEW X, NEW Y,
         Protocol(w, m, q, L, O, U, X, Y), NEW a \in L
  PROVE  /\ w[a].blk \in U \/ w[a].blk \in SourcesIn(w, O)
         /\ w[a].blk \notin TargetsIn(w, O)
         /\ \A t \in CopyingIn(w, O) : w[a].blk = O[t].src <=> a = O[t].src_aa
<1>1. w[a].blk \in U \/ w[a].blk \in SourcesIn(w, O)
  BY DEF Protocol, ObjectsPlain
<1>2. w[a].blk \notin TargetsIn(w, O)
  BY CopyFacts DEF TargetsIn
<1>3. ASSUME NEW t \in CopyingIn(w, O)
      PROVE  w[a].blk = O[t].src <=> a = O[t].src_aa
  BY CopyFacts, ObjectFacts
<1> QED
  BY <1>1, <1>2, <1>3

-----------------------------------------------------------------------------
(* The copies stay the same when the words the compactions watch do.       *)
LEMMA SameCopies ==
  ASSUME NEW w, NEW v, NEW O,
         \A t \in Thread : O[t] # Null => v[O[t].target_aa] = w[O[t].target_aa]
  PROVE  /\ CopyingIn(v, O) = CopyingIn(w, O)
         /\ SourcesIn(v, O) = SourcesIn(w, O)
         /\ TargetsIn(v, O) = TargetsIn(w, O)
<1>1. CopyingIn(v, O) = CopyingIn(w, O)
  BY DEF CopyingIn
<1> QED
  BY <1>1 DEF SourcesIn, TargetsIn

LEMMA ChunkIn ==
  ASSUME NEW n \in Chunk, NEW c \in 1 .. n
  PROVE  c \in Chunk
BY IncrementsAssumption DEF Chunk

(* cf_malloc gives block b to a free address.                              *)
LEMMA Allocated ==
  ASSUME NEW w, NEW m, NEW q, NEW L, NEW O, NEW U,
         Protocol(w, m, q, L, O, U, {}, {}),
         NEW a \in AA, w[a] = Null, NEW b \in Block, b \notin U, b \notin SourcesIn(w, O)
  PROVE  Protocol([w EXCEPT ![a] = points_to(b)], [m EXCEPT ![b] = [c \in Chunk |-> a]],
                  IF Incremental THEN [q EXCEPT ![b] = Null] ELSE q,
                  L \cup {a}, O, U \cup {b}, {}, {})
<1> DEFINE v == [w EXCEPT ![a] = points_to(b)]
           n == [m EXCEPT ![b] = [c \in Chunk |-> a]]
           r == IF Incremental THEN [q EXCEPT ![b] = Null] ELSE q
           K == L \cup {a}
           V == U \cup {b}
<1>1. Typed(w, m, q, L, O, U)
  BY DEF Protocol
<1>2. points_to(b) \in Word /\ points_to(b) # Null
  BY PointsTo, NoneAssumption
<1>3. /\ v \in Words /\ v[a] = points_to(b) /\ v[a].blk = b
      /\ \A d \in AA : d # a => v[d] = w[d]
  <2>1. points_to(b).blk = b
    BY DEF points_to
  <2> QED
    BY <1>1, <1>2, <2>1 DEF Typed, Words
<1>4. /\ n \in Memory
      /\ \A c \in Chunk : n[b][c] = a
      /\ \A d \in Block : d # b => n[d] = m[d]
  BY <1>1 DEF Typed, Memory
<1>5. /\ r \in Partition /\ (Incremental => r[b] = Null)
      /\ \A d \in Block : d # b => r[d] = q[d]
  BY <1>1 DEF Typed, Partition
<1> HIDE DEF v, n, r
<1>6. ASSUME NEW t \in Thread, O[t] # Null
      PROVE  O[t].address # a /\ v[O[t].address] = w[O[t].address] /\ O[t].target_aa = O[t].address
  <2>1. O[t].address \in AA /\ w[O[t].address] \in Word /\ O[t].target_aa = O[t].address
    BY <1>6, JobFacts
  <2> QED
    BY <1>3, <2>1, NoneAssumption
<1>7. /\ CopyingIn(v, O) = CopyingIn(w, O)
      /\ SourcesIn(v, O) = SourcesIn(w, O)
      /\ TargetsIn(v, O) = TargetsIn(w, O)
  BY <1>6, SameCopies
<1>8. ASSUME NEW d \in L
      PROVE  /\ d # a /\ d \in AA /\ v[d] = w[d] /\ w[d].blk \in Block /\ w[d].blk # b
             /\ n[w[d].blk] = m[w[d].blk] /\ r[w[d].blk] = q[w[d].blk]
  <2>1. d # a /\ d \in AA /\ w[d].blk \in Block
    BY ObjectFacts
  <2>2. w[d].blk # b
    BY ObjectBlock
  <2> QED
    BY <1>3, <1>4, <1>5, <2>1, <2>2
<1>9. ASSUME NEW t \in CopyingIn(w, O)
      PROVE  /\ O[t].target \in Block /\ O[t].target # b /\ O[t].target \in U
             /\ O[t].src \in Block /\ O[t].src # b /\ O[t].src \notin V
  <2>1. O[t].target \in Block /\ O[t].src \in Block
    BY CopyFacts, JobFacts
  <2>2. O[t].target \in U /\ O[t].src \notin U
    BY CopyFacts
  <2>3. O[t].src # b
    BY CopyFacts
  <2> QED
    BY <2>1, <2>2, <2>3
<1>10. Typed(v, n, r, K, O, V)
  BY <1>1, <1>3, <1>4, <1>5 DEF Typed
<1>11. AddressesApart(v, K, O, {})
  <2>1. \A d \in K \cup {} : v[d] # Null
    BY <1>2, <1>3, <1>8, ObjectFacts
  <2>2. \A t \in Thread : O[t] # Null => O[t].address \notin K \cup {} /\ v[O[t].address] # Null
    BY <1>6 DEF Protocol, AddressesApart
  <2>3. \A d \in AA : v[d] # Null => d \in K \cup {} \/ \E t \in Thread : O[t] # Null /\ O[t].address = d
    BY <1>3 DEF Protocol, AddressesApart
  <2> QED
    BY <2>1, <2>2, <2>3 DEF Protocol, AddressesApart
<1>12. JobsWatch(v, O)
  BY <1>6, <1>7 DEF Protocol, JobsWatch
<1>13. ObjectsHeld(v, n, K)
  <2>1. ASSUME NEW d \in K, NEW c \in Chunk PROVE n[v[d].blk][c] = d
    <3>1. CASE d = a
      BY <1>3, <1>4, <3>1
    <3>2. CASE d \in L
      BY <1>8, <3>2, ObjectFacts
    <3> QED
      BY <3>1, <3>2
  <2> QED
    BY <2>1 DEF ObjectsHeld
<1>14. ObjectsPlain(v, r, K, O, V)
  <2>1. ASSUME NEW d \in K, v[d].blk \notin SourcesIn(v, O)
        PROVE  v[d] = points_to(v[d].blk) /\ (Incremental => r[v[d].blk] = Null) /\ v[d].blk \in V
    <3>1. CASE d = a
      BY <1>3, <1>5, <3>1
    <3>2. CASE d \in L
      BY <1>7, <1>8, <2>1, <3>2 DEF Protocol, ObjectsPlain
    <3> QED
      BY <3>1, <3>2
  <2> QED
    BY <2>1 DEF ObjectsPlain
<1>15. CopiesInProgress(v, n, r, K, O, V)
  <2>1. ASSUME NEW t \in CopyingIn(w, O) PROVE InProgress(v, n, r, K, V, O[t])
    <3>1. InProgress(w, m, q, L, U, O[t])
      BY CopyFacts
    <3>2. n[O[t].target] = m[O[t].target] /\ r[O[t].target] = q[O[t].target] /\ r[O[t].src] = q[O[t].src]
      BY <1>4, <1>5, <1>9
    <3> QED
      BY <1>8, <1>9, <3>1, <3>2 DEF InProgress, Field, get_abstract_address_of_page_block
  <2> QED
    BY <1>7, <2>1 DEF CopiesInProgress
<1>16. SourcesApart(v, O)
  BY <1>7 DEF Protocol, SourcesApart
<1>17. FieldsTrue(v, n, K, O, {})
  <2>1. ASSUME NEW d \in Block, Field(n, d) \in AA, d \notin TargetsIn(w, O)
        PROVE  Field(n, d) \in K /\ v[Field(n, d)].blk = d
    <3>1. CASE d = b
      BY <1>3, <1>4, <3>1, ChunkBounds DEF Field, get_abstract_address_of_page_block
    <3>2. CASE d # b
      <4>1. Field(n, d) = Field(m, d)
        BY <1>4, <3>2 DEF Field, get_abstract_address_of_page_block
      <4>2. Field(m, d) \in L /\ w[Field(m, d)].blk = d
        BY <2>1, <4>1 DEF Protocol, FieldsTrue
      <4> QED
        BY <1>8, <4>1, <4>2
    <3> QED
      BY <3>1, <3>2
  <2> QED
    BY <1>7, <2>1 DEF FieldsTrue
<1>18. Detached(v, K, O, {})
  BY DEF Detached
<1>19. BlocksHeld(n, V)
  <2>1. \A d \in U : d \in Block /\ n[d] = m[d]
    BY <1>1, <1>4 DEF Typed
  <2>2. Field(n, b) = a
    BY <1>4, ChunkBounds DEF Field, get_abstract_address_of_page_block
  <2> QED
    BY <2>1, <2>2 DEF Protocol, BlocksHeld, Field, get_abstract_address_of_page_block
<1> QED
  BY <1>19, <1>10, <1>11, <1>12, <1>13, <1>14, <1>15, <1>16, <1>17, <1>18 DEF Protocol, v, n, r

(* cf_malloc keeps its block when it gets no address.                      *)
LEMMA Leaked ==
  ASSUME NEW w, NEW m, NEW q, NEW L, NEW O, NEW U,
         Protocol(w, m, q, L, O, U, {}, {}),
         NEW b \in Block, b \notin SourcesIn(w, O), ~EnoughAddresses
  PROVE  Protocol(w, m, q, L, O, U \cup {b}, {}, {})
<1>1. Typed(w, m, q, L, O, U \cup {b}) /\ ObjectsPlain(w, q, L, O, U \cup {b})
  BY DEF Protocol, Typed, ObjectsPlain
<1>2. CopiesInProgress(w, m, q, L, O, U \cup {b})
  <2>1. ASSUME NEW t \in CopyingIn(w, O) PROVE InProgress(w, m, q, L, U \cup {b}, O[t])
    <3>1. InProgress(w, m, q, L, U, O[t]) /\ O[t].src # b
      BY CopyFacts
    <3> QED
      BY <3>1 DEF InProgress
  <2> QED
    BY <2>1 DEF CopiesInProgress
<1> QED
  BY <1>1, <1>2 DEF Protocol, BlocksHeld

-----------------------------------------------------------------------------
(* cf_free detaches an object that nobody copies.                          *)
LEMMA DetachedPlain ==
  ASSUME NEW w, NEW m, NEW q, NEW L, NEW O, NEW U,
         Protocol(w, m, q, L, O, U, {}, {}),
         NEW a \in L, w[a].blk \notin SourcesIn(w, O)
  PROVE  Protocol(w, m, q, L \ {a}, O, U, {w[a].blk}, {a})
<1> DEFINE K == L \ {a}
           b == w[a].blk
<1>1. a \in AA /\ w[a] # Null /\ b \in Block /\ b \notin TargetsIn(w, O)
  BY ObjectFacts, ObjectBlock
<1>2. \A d \in K : d \in L /\ w[d].blk # b
  BY ObjectFacts
<1>3. ASSUME NEW t \in CopyingIn(w, O)
      PROVE  O[t].src_aa \in K
  BY CopyFacts
<1>4. Typed(w, m, q, K, O, U)
  BY DEF Protocol, Typed
<1>5. AddressesApart(w, K, O, {a})
  BY <1>1 DEF Protocol, AddressesApart
<1>6. ObjectsHeld(w, m, K) /\ ObjectsPlain(w, q, K, O, U)
  BY DEF Protocol, ObjectsHeld, ObjectsPlain
<1>7. CopiesInProgress(w, m, q, K, O, U)
  <2>1. ASSUME NEW t \in CopyingIn(w, O) PROVE InProgress(w, m, q, K, U, O[t])
    <3>1. InProgress(w, m, q, L, U, O[t])
      BY CopyFacts
    <3> QED
      BY <1>3, <3>1 DEF InProgress
  <2> QED
    BY <2>1 DEF CopiesInProgress
<1>8. FieldsTrue(w, m, K, O, {b})
  BY DEF Protocol, FieldsTrue
<1>9. Detached(w, K, O, {b})
  BY <1>1, <1>2 DEF Detached
<1> QED
  BY <1>4, <1>5, <1>6, <1>7, <1>8, <1>9 DEF Protocol

(* A copy is stopped by changing the word its thread watches.              *)
LEMMA StoppedCopy ==
  ASSUME NEW w, NEW m, NEW q, NEW L, NEW O, NEW U, NEW X, NEW Y,
         Protocol(w, m, q, L, O, U, X, Y), NEW u \in CopyingIn(w, O), NEW v,
         v[O[u].address] # points_to(O[u].target),
         \A d \in AA : d # O[u].address => v[d] = w[d]
  PROVE  /\ CopyingIn(v, O) = CopyingIn(w, O) \ {u}
         /\ SourcesIn(v, O) = SourcesIn(w, O) \ {O[u].src}
         /\ TargetsIn(v, O) = TargetsIn(w, O) \ {O[u].target}
         /\ \A a \in L : a # O[u].address /\ v[a] = w[a]
<1>1. /\ u \in Thread /\ O[u] # Null
      /\ O[u].address \in AA /\ O[u].address \notin L
      /\ O[u].target_aa = O[u].address /\ O[u].target_aa_val = points_to(O[u].target)
  BY CopyFacts, JobFacts
<1>2. ASSUME NEW t \in Thread, O[t] # Null, t # u
      PROVE  v[O[t].target_aa] = w[O[t].target_aa]
  <2>1. O[t].address \in AA /\ O[t].target_aa = O[t].address
    BY <1>2, JobFacts
  <2>2. O[t].address # O[u].address
    BY <1>1, <1>2 DEF Protocol, AddressesApart
  <2> QED
    BY <2>1, <2>2
<1>3. CopyingIn(v, O) = CopyingIn(w, O) \ {u}
  BY <1>1, <1>2 DEF CopyingIn
<1>4. \A t \in CopyingIn(w, O) : (O[t].src = O[u].src => t = u) /\ (O[t].target = O[u].target => t = u)
  BY CopiesApart
<1>5. /\ SourcesIn(v, O) = SourcesIn(w, O) \ {O[u].src}
      /\ TargetsIn(v, O) = TargetsIn(w, O) \ {O[u].target}
  BY <1>3, <1>4 DEF SourcesIn, TargetsIn
<1>6. \A a \in L : a # O[u].address /\ v[a] = w[a]
  BY <1>1, ObjectFacts
<1> QED
  BY <1>3, <1>5, <1>6

(* cf_free detaches an object that thread u is copying, and tells u.       *)
LEMMA DetachedCopied ==
  ASSUME NEW w, NEW m, NEW q, NEW L, NEW O, NEW U,
         Protocol(w, m, q, L, O, U, {}, {}),
         NEW u \in CopyingIn(w, O), O[u].copied < Increments
  PROVE  Protocol([w EXCEPT ![O[u].address].free = TRUE], m, q, L \ {O[u].src_aa}, O, U,
                  {O[u].src, O[u].target}, {O[u].src_aa})
<1> DEFINE v == [w EXCEPT ![O[u].address].free = TRUE]
           a == O[u].src_aa
           K == L \ {a}
           X == {O[u].src, O[u].target}
<1>1. /\ u \in Thread /\ O[u] # Null /\ O[u].address \in AA
      /\ w[O[u].address] \in Word /\ w[O[u].address] # Null
      /\ a \in L /\ w[a].blk = O[u].src
      /\ Field(m, O[u].target) = O[u].address
  <2>1. InProgress(w, m, q, L, U, O[u])
    BY CopyFacts
  <2>2. Field(m, O[u].target) = O[u].address
    BY <2>1 DEF InProgress
  <2> QED
    BY <2>2, CopyFacts, JobFacts, NoneAssumption
<1>2. Typed(w, m, q, L, O, U)
  BY DEF Protocol
<1>3. v \in Words
  BY <1>1, <1>2, Flags DEF Typed
<1>4. /\ v[O[u].address] = [w[O[u].address] EXCEPT !.free = TRUE]
      /\ v[O[u].address].free
      /\ v[O[u].address] # points_to(O[u].target)
      /\ \A d \in AA : d # O[u].address => v[d] = w[d]
  <2>1. v[O[u].address] = [w[O[u].address] EXCEPT !.free = TRUE]
    BY <1>1, <1>2 DEF Typed, Words
  <2>2. [w[O[u].address] EXCEPT !.free = TRUE].free
    BY <1>1 DEF Word
  <2>3. ~points_to(O[u].target).free
    BY DEF points_to
  <2>4. \A d \in AA : d # O[u].address => v[d] = w[d]
    <3>1. w \in [AA -> Word \cup {Null}]
      BY <1>2 DEF Typed, Words
    <3> QED BY ONLY <3>1
  <2> HIDE DEF v
  <2> QED
    BY <2>1, <2>2, <2>3, <2>4
<1>5. v[O[u].address] # Null
  <2>1. [w[O[u].address] EXCEPT !.free = TRUE] \in Word
    BY <1>1 DEF Word
  <2>2. v[O[u].address] \in Word
    BY ONLY <1>4, <2>1
  <2> QED
    BY ONLY <2>2, NoneAssumption
<1> HIDE DEF v
<1>6. /\ CopyingIn(v, O) = CopyingIn(w, O) \ {u}
      /\ SourcesIn(v, O) = SourcesIn(w, O) \ {O[u].src}
      /\ TargetsIn(v, O) = TargetsIn(w, O) \ {O[u].target}
      /\ \A d \in L : d # O[u].address /\ v[d] = w[d]
  BY <1>4, StoppedCopy
<1>7. ASSUME NEW d \in K
      PROVE  d \in L /\ v[d] = w[d] /\ w[d].blk \notin X
  <2>1. w[d].blk # O[u].target /\ d \in L
    BY CopyFacts
  <2>2. w[d].blk # O[u].src
    BY ObjectBlock
  <2> QED
    BY <1>6, <2>1, <2>2
<1>8. ASSUME NEW t \in CopyingIn(v, O)
      PROVE  t \in CopyingIn(w, O) /\ O[t].src_aa \in K
  BY <1>6, CopiesApart, CopyFacts
<1>9. Typed(v, m, q, K, O, U)
  BY <1>2, <1>3 DEF Typed
<1>10. AddressesApart(v, K, O, {a})
  <2>1. \A d \in K \cup {a} : v[d] # Null
    BY <1>1, <1>6, ObjectFacts
  <2>2. \A t \in Thread : O[t] # Null => O[t].address \notin K \cup {a} /\ v[O[t].address] # Null
    BY <1>1, <1>4, <1>5, JobFacts, NoneAssumption
  <2>3. \A d \in AA : v[d] # Null => d \in K \cup {a} \/ \E t \in Thread : O[t] # Null /\ O[t].address = d
    BY <1>1, <1>4 DEF Protocol, AddressesApart
  <2> QED
    BY <2>1, <2>2, <2>3 DEF Protocol, AddressesApart
<1>11. JobsWatch(v, O)
  <2>1. ASSUME NEW t \in Thread, O[t] # Null, t \notin CopyingIn(v, O)
        PROVE  v[O[t].address].compact \/ v[O[t].address].free
    <3>1. CASE t = u
      BY <1>4, <3>1
    <3>2. CASE t # u
      <4>1. v[O[t].address] = w[O[t].address]
        <5>1. O[t].address \in AA
          BY <2>1, JobFacts
        <5>2. O[t].address # O[u].address
          BY <1>1, <2>1, <3>2 DEF Protocol, AddressesApart
        <5> QED
          BY <1>4, <5>1, <5>2
      <4> QED
        BY <1>6, <2>1, <3>2, <4>1 DEF Protocol, JobsWatch
    <3> QED
      BY <3>1, <3>2
  <2> QED
    BY <2>1 DEF Protocol, JobsWatch
<1>12. ObjectsHeld(v, m, K)
  BY <1>7 DEF Protocol, ObjectsHeld
<1>13. ObjectsPlain(v, q, K, O, U)
  BY <1>6, <1>7 DEF Protocol, ObjectsPlain
<1>14. CopiesInProgress(v, m, q, K, O, U)
  <2>1. ASSUME NEW t \in CopyingIn(v, O) PROVE InProgress(v, m, q, K, U, O[t])
    <3>1. InProgress(w, m, q, L, U, O[t])
      BY <1>8, CopyFacts
    <3> QED
      BY <1>7, <1>8, <3>1 DEF InProgress
  <2> QED
    BY <2>1 DEF CopiesInProgress
<1>15. SourcesApart(v, O)
  BY <1>6 DEF Protocol, SourcesApart
<1>16. FieldsTrue(v, m, K, O, X)
  <2>1. ASSUME NEW d \in Block, Field(m, d) \in AA, d \notin X, d \notin TargetsIn(v, O)
        PROVE  Field(m, d) \in K /\ v[Field(m, d)].blk = d
    <3>1. Field(m, d) \in L /\ w[Field(m, d)].blk = d
      BY <1>6, <2>1 DEF Protocol, FieldsTrue
    <3> QED
      BY <1>1, <1>6, <2>1, <3>1
  <2> QED
    BY <2>1 DEF FieldsTrue
<1>17. Detached(v, K, O, X)
  <2>1. O[u].src \notin TargetsIn(w, O)
    BY CopiesApart DEF TargetsIn
  <2> QED
    BY <1>6, <1>7, <2>1 DEF Detached
<1> QED
  BY <1>9, <1>10, <1>11, <1>12, <1>13, <1>14, <1>15, <1>16, <1>17 DEF Protocol, v

(* cf_free gives the freed address to the block a copy was meant for.      *)
LEMMA Retargeted ==
  ASSUME NEW w, NEW m, NEW q, NEW L, NEW O, NEW U, NEW X, NEW Y,
         Protocol(w, m, q, L, O, U, X, Y),
         NEW a \in AA, a \in Y, NEW x \in Block, x \in X
  PROVE  Protocol([w EXCEPT ![a] = points_to(x)], [m EXCEPT ![x][Increments] = a],
                  q, L, O, U, X, Y)
<1> DEFINE v == [w EXCEPT ![a] = points_to(x)]
           n == [m EXCEPT ![x][Increments] = a]
<1>1. Typed(w, m, q, L, O, U)
  BY DEF Protocol
<1>2. points_to(x) \in Word /\ points_to(x) # Null
  BY PointsTo, NoneAssumption
<1>3. /\ v \in Words /\ v[a] # Null
      /\ \A d \in AA : d # a => v[d] = w[d]
  BY <1>1, <1>2 DEF Typed, Words
<1>4. /\ n \in Memory /\ Field(n, x) = a
      /\ \A d \in Block : d # x => n[d] = m[d]
  <2>1. m[x] \in [Chunk -> AA \cup {Null, Junk}] /\ m \in Memory
    BY <1>1 DEF Typed, Memory
  <2>2. [m[x] EXCEPT ![Increments] = a] \in [Chunk -> AA \cup {Null, Junk}]
    BY <2>1
  <2> QED
    BY <2>1, <2>2, ChunkBounds DEF Memory, Field, get_abstract_address_of_page_block
<1> HIDE DEF v, n
<1>5. \A t \in Thread : O[t] # Null => v[O[t].target_aa] = w[O[t].target_aa] /\ v[O[t].address] = w[O[t].address]
  BY <1>3, JobFacts
<1>6. /\ CopyingIn(v, O) = CopyingIn(w, O)
      /\ SourcesIn(v, O) = SourcesIn(w, O)
      /\ TargetsIn(v, O) = TargetsIn(w, O)
  BY <1>5, SameCopies
<1>7. \A d \in L : d # a /\ v[d] = w[d] /\ n[w[d].blk] = m[w[d].blk]
  BY <1>3, <1>4, ObjectFacts
<1>8. \A t \in CopyingIn(w, O) : O[t].target # x /\ n[O[t].target] = m[O[t].target]
  BY <1>4, CopyFacts, JobFacts
<1>9. Typed(v, n, q, L, O, U)
  BY <1>1, <1>3, <1>4 DEF Typed
<1>10. AddressesApart(v, L, O, Y)
  <2>1. \A d \in L \cup Y : v[d] # Null
    <3>1. \A d \in L \cup Y : d # a => v[d] = w[d]
      BY <1>1, <1>2, <1>3 DEF v
    <3> QED
      BY <1>3, <3>1 DEF Protocol, AddressesApart
  <2>2. \A t \in Thread : O[t] # Null => O[t].address \notin L \cup Y /\ v[O[t].address] # Null
    BY <1>5 DEF Protocol, AddressesApart
  <2>3. \A d \in AA : v[d] # Null => d \in L \cup Y \/ \E t \in Thread : O[t] # Null /\ O[t].address = d
    BY <1>3 DEF Protocol, AddressesApart
  <2> QED
    BY <2>1, <2>2, <2>3 DEF Protocol, AddressesApart
<1>11. JobsWatch(v, O)
  BY <1>5, <1>6 DEF Protocol, JobsWatch
<1>12. ObjectsHeld(v, n, L) /\ ObjectsPlain(v, q, L, O, U)
  BY <1>6, <1>7 DEF Protocol, ObjectsHeld, ObjectsPlain
<1>13. CopiesInProgress(v, n, q, L, O, U)
  <2>1. ASSUME NEW t \in CopyingIn(w, O) PROVE InProgress(v, n, q, L, U, O[t])
    <3>1. InProgress(w, m, q, L, U, O[t])
      BY CopyFacts
    <3> QED
      BY <1>7, <1>8, <3>1 DEF InProgress, Field, get_abstract_address_of_page_block
  <2> QED
    BY <1>6, <2>1 DEF CopiesInProgress
<1>14. SourcesApart(v, O)
  BY <1>6 DEF Protocol, SourcesApart
<1>15. FieldsTrue(v, n, L, O, X)
  <2>1. ASSUME NEW d \in Block, Field(n, d) \in AA, d \notin X, d \notin TargetsIn(w, O)
        PROVE  Field(n, d) \in L /\ v[Field(n, d)].blk = d
    <3>1. Field(n, d) = Field(m, d)
      BY <1>4, <2>1 DEF Field, get_abstract_address_of_page_block
    <3>2. Field(m, d) \in L /\ w[Field(m, d)].blk = d
      BY <2>1, <3>1 DEF Protocol, FieldsTrue
    <3> QED
      BY <1>7, <3>1, <3>2
  <2> QED
    BY <1>6, <2>1 DEF FieldsTrue
<1>16. Detached(v, L, O, X)
  BY <1>6, <1>7 DEF Protocol, Detached
<1>17. BlocksHeld(n, U)
  <2>2. \A d \in U : d # x => Field(n, d) = Field(m, d)
    BY <1>1, <1>4 DEF Typed, Field, get_abstract_address_of_page_block
  <2> QED
    BY <1>4, <2>2 DEF Protocol, BlocksHeld
<1> QED
  BY <1>17, <1>9, <1>10, <1>11, <1>12, <1>13, <1>14, <1>15, <1>16 DEF Protocol, v, n

(* Detached blocks lose their used bits.                                   *)
LEMMA Dropped ==
  ASSUME NEW w, NEW m, NEW q, NEW L, NEW O, NEW U, NEW X, NEW Y,
         Protocol(w, m, q, L, O, U, X, Y), NEW B, B \subseteq X
  PROVE  Protocol(w, m, q, L, O, U \ B, X, Y)
<1>1. Typed(w, m, q, L, O, U \ B)
  BY DEF Protocol, Typed
<1>2. ObjectsPlain(w, q, L, O, U \ B)
  BY DEF Protocol, ObjectsPlain, Detached
<1>3. CopiesInProgress(w, m, q, L, O, U \ B)
  <2>1. ASSUME NEW t \in CopyingIn(w, O) PROVE InProgress(w, m, q, L, U \ B, O[t])
    <3>1. InProgress(w, m, q, L, U, O[t]) /\ O[t].target \notin X
      BY CopyFacts
    <3> QED
      BY <3>1 DEF InProgress
  <2> QED
    BY <2>1 DEF CopiesInProgress
<1> QED
  BY <1>1, <1>2, <1>3 DEF Protocol, BlocksHeld

(* cf_free clears the freed address.                                       *)
LEMMA Cleared ==
  ASSUME NEW w, NEW m, NEW q, NEW L, NEW O, NEW U, NEW X, NEW a \in AA,
         Protocol(w, m, q, L, O, U, X, {a})
  PROVE  Protocol([w EXCEPT ![a] = Null], m, q, L, O, U, X, {})
<1> DEFINE v == [w EXCEPT ![a] = Null]
<1>1. Typed(w, m, q, L, O, U)
  BY DEF Protocol
<1>2. /\ v \in Words /\ v[a] = Null
      /\ \A d \in AA : d # a => v[d] = w[d]
  BY <1>1 DEF Typed, Words
<1> HIDE DEF v
<1>3. \A t \in Thread : O[t] # Null =>
        v[O[t].target_aa] = w[O[t].target_aa] /\ v[O[t].address] = w[O[t].address] /\ O[t].address # a
  BY <1>2, JobFacts
<1>4. /\ CopyingIn(v, O) = CopyingIn(w, O)
      /\ SourcesIn(v, O) = SourcesIn(w, O)
      /\ TargetsIn(v, O) = TargetsIn(w, O)
  BY <1>3, SameCopies
<1>5. \A d \in L : d # a /\ v[d] = w[d]
  BY <1>2, ObjectFacts
<1>6. Typed(v, m, q, L, O, U)
  BY <1>1, <1>2 DEF Typed
<1>7. AddressesApart(v, L, O, {})
  BY <1>2, <1>3, <1>5 DEF Protocol, AddressesApart
<1>8. JobsWatch(v, O)
  BY <1>3, <1>4 DEF Protocol, JobsWatch
<1>9. ObjectsHeld(v, m, L) /\ ObjectsPlain(v, q, L, O, U)
  BY <1>4, <1>5 DEF Protocol, ObjectsHeld, ObjectsPlain
<1>10. CopiesInProgress(v, m, q, L, O, U)
  <2>1. ASSUME NEW t \in CopyingIn(w, O) PROVE InProgress(v, m, q, L, U, O[t])
    <3>1. InProgress(w, m, q, L, U, O[t])
      BY CopyFacts
    <3> QED
      BY <1>5, <3>1 DEF InProgress
  <2> QED
    BY <1>4, <2>1 DEF CopiesInProgress
<1>11. SourcesApart(v, O) /\ FieldsTrue(v, m, L, O, X) /\ Detached(v, L, O, X)
  BY <1>4, <1>5 DEF Protocol, SourcesApart, FieldsTrue, Detached
<1> QED
  BY <1>6, <1>7, <1>8, <1>9, <1>10, <1>11 DEF Protocol, v

(* A thread whose copy was stopped gives its address back and returns.     *)
LEMMA Returned ==
  ASSUME NEW w, NEW m, NEW q, NEW L, NEW O, NEW U,
         Protocol(w, m, q, L, O, U, {}, {}),
         NEW t \in Thread, O[t] # Null, t \notin CopyingIn(w, O)
  PROVE  /\ Protocol([w EXCEPT ![O[t].address] = Null], m, q, L, [O EXCEPT ![t] = Null], U, {}, {})
         /\ CopiersAre([w EXCEPT ![O[t].address] = Null], [O EXCEPT ![t] = Null], CopyingIn(w, O))
<1> DEFINE v == [w EXCEPT ![O[t].address] = Null]
           P == [O EXCEPT ![t] = Null]
<1>1. Typed(w, m, q, L, O, U) /\ O[t].address \in AA /\ O[t].address \notin L
  BY JobFacts DEF Protocol
<1>2. /\ v \in Words /\ v[O[t].address] = Null
      /\ \A d \in AA : d # O[t].address => v[d] = w[d]
  BY <1>1 DEF Typed, Words
<1>3. /\ P \in [Thread -> Job \cup {Null}] /\ P[t] = Null
      /\ \A y \in Thread : y # t => P[y] = O[y]
  BY <1>1 DEF Typed
<1> HIDE DEF v, P
<1>4. ASSUME NEW y \in Thread, P[y] # Null
      PROVE  /\ y # t /\ O[y] # Null /\ P[y] = O[y] /\ O[y].target_aa = O[y].address
             /\ O[y].address # O[t].address /\ v[O[y].address] = w[O[y].address]
  <2>1. y # t /\ O[y] # Null /\ P[y] = O[y]
    BY <1>3, <1>4
  <2>2. O[y].address \in AA /\ O[y].target_aa = O[y].address
    BY <2>1, JobFacts
  <2>3. O[y].address # O[t].address
    BY <2>1 DEF Protocol, AddressesApart
  <2> QED
    BY <1>2, <2>1, <2>2, <2>3
<1>5. CopyingIn(v, P) = CopyingIn(w, O)
  <2>1. ASSUME NEW y \in Thread PROVE y \in CopyingIn(v, P) <=> y \in CopyingIn(w, O)
    BY <1>3, <1>4 DEF CopyingIn
  <2> QED
    BY <2>1 DEF CopyingIn
<1>6. \A y \in CopyingIn(w, O) : y \in Thread /\ P[y] = O[y]
  BY <1>3 DEF CopyingIn
<1>7. SourcesIn(v, P) = SourcesIn(w, O) /\ TargetsIn(v, P) = TargetsIn(w, O)
  BY <1>5, <1>6 DEF SourcesIn, TargetsIn
<1>8. \A d \in L : v[d] = w[d]
  BY <1>1, <1>2, ObjectFacts
<1>9. Typed(v, m, q, L, P, U)
  BY <1>1, <1>2, <1>3 DEF Typed
<1>10. AddressesApart(v, L, P, {})
  <2>1. \A d \in L \cup {} : v[d] # Null
    BY <1>8 DEF Protocol, AddressesApart
  <2>2. \A y \in Thread : P[y] # Null => P[y].address \notin L \cup {} /\ v[P[y].address] # Null
    BY <1>4 DEF Protocol, AddressesApart
  <2>3. \A y, z \in Thread : P[y] # Null /\ P[z] # Null /\ P[y].address = P[z].address => y = z
    BY <1>4 DEF Protocol, AddressesApart
  <2>4. ASSUME NEW d \in AA, v[d] # Null, d \notin L
        PROVE  \E y \in Thread : P[y] # Null /\ P[y].address = d
    <3>1. d # O[t].address /\ w[d] # Null
      BY <1>2, <2>4
    <3>2. PICK y \in Thread : O[y] # Null /\ O[y].address = d
      BY <2>4, <3>1 DEF Protocol, AddressesApart
    <3> QED
      BY <1>3, <3>1, <3>2
  <2> QED
    BY <2>1, <2>2, <2>3, <2>4 DEF AddressesApart
<1>11. JobsWatch(v, P)
  BY <1>4, <1>5 DEF Protocol, JobsWatch
<1>12. ObjectsHeld(v, m, L) /\ ObjectsPlain(v, q, L, P, U)
  BY <1>7, <1>8 DEF Protocol, ObjectsHeld, ObjectsPlain
<1>13. CopiesInProgress(v, m, q, L, P, U)
  <2>1. ASSUME NEW y \in CopyingIn(w, O) PROVE InProgress(v, m, q, L, U, O[y])
    <3>1. InProgress(w, m, q, L, U, O[y])
      BY CopyFacts
    <3> QED
      BY <1>8, <3>1 DEF InProgress
  <2> QED
    BY <1>5, <1>6, <2>1 DEF CopiesInProgress
<1>14. SourcesApart(v, P)
  BY <1>5, <1>6 DEF Protocol, SourcesApart
<1>15. FieldsTrue(v, m, L, P, {}) /\ Detached(v, L, P, {})
  BY <1>7, <1>8 DEF Protocol, FieldsTrue, Detached
<1> QED
  BY <1>5, <1>9, <1>10, <1>11, <1>12, <1>13, <1>14, <1>15 DEF Protocol, CopiersAre, v, P

-----------------------------------------------------------------------------
(* do_compaction begins to copy block s into x, of the freed address a.    *)
Begun(a, x, s, sa, r) ==
  [address |-> a, target |-> x, target_aa |-> a, target_aa_val |-> points_to(x),
   src |-> s, src_aa |-> sa, copied |-> 1, releases |-> r]
Partnered(q, x, s) == IF Incremental THEN [q EXCEPT ![x] = s, ![s] = x] ELSE q

LEMMA CompactedWord ==
  ASSUME NEW s \in Block, NEW o \in Word, o = points_to(s)
  PROVE  [o EXCEPT !.compact = TRUE] = [blk |-> s, compact |-> TRUE, free |-> FALSE]
<1> DEFINE v == [o EXCEPT !.compact = TRUE]
           r == [blk |-> s, compact |-> TRUE, free |-> FALSE]
<1>1. o.blk = s /\ o.free = FALSE
  BY DEF points_to
<1>2. v \in Word /\ v.blk = o.blk /\ v.compact = TRUE /\ v.free = o.free
  BY DEF Word
<1>3. r \in Word /\ r.blk = s /\ r.compact = TRUE /\ r.free = FALSE
  BY DEF Word
<1> HIDE DEF v, r
<1>4. v = r
  BY <1>1, <1>2, <1>3 DEF Word
<1> QED
  BY <1>4 DEF v, r

(* n is m with chunk c of s in x. *)
ChunkSet(n, m, x, s, c) == n = [m EXCEPT ![x][c] = m[s][c]]

LEMMA CopyFirst ==
  ASSUME NEW m \in Memory, NEW x \in Block, NEW s \in Block, NEW c \in Chunk,
         NEW k, ChunkSet(k, m, x, s, c)
  PROVE  /\ k \in Memory
         /\ k[x][c] = m[s][c]
         /\ \A i \in Chunk : i # c => k[x][i] = m[x][i]
         /\ \A d \in Block : d # x => k[d] = m[d]
<1> DEFINE n == [m EXCEPT ![x][c] = m[s][c]]
<1>0. k = n
  BY DEF ChunkSet
<1>1. n \in Memory
  BY CopyChunk
<1>2. m[x] \in [Chunk -> AA \cup {Null, Junk}]
  BY DEF Memory
<1>3. n[x] = [m[x] EXCEPT ![c] = m[s][c]] /\ \A d \in Block : d # x => n[d] = m[d]
  BY DEF Memory
<1> HIDE DEF n
<1> QED
  BY <1>0, <1>1, <1>2, <1>3

ArePartners(r, q, x, s) == r = Partnered(q, x, s)

LEMMA PartneredFields ==
  ASSUME NEW q \in Partition, NEW x \in Block, NEW s \in Block, x # s,
         NEW r, ArePartners(r, q, x, s)
  PROVE  /\ r \in Partition
         /\ Incremental => r[x] = s /\ r[s] = x
         /\ \A d \in Block : d # x /\ d # s => r[d] = q[d]
<1>1. r = IF Incremental THEN [q EXCEPT ![x] = s, ![s] = x] ELSE q
  BY DEF ArePartners, Partnered
<1> QED
  BY <1>1 DEF Partition

LEMMA BegunCopy ==
  ASSUME NEW w, NEW m, NEW q, NEW L, NEW O, NEW U, NEW X, NEW a \in AA,
         Protocol(w, m, q, L, O, U, X, {a}),
         NEW t \in Thread, O[t] = Null,
         NEW x \in Block, x \in X, x \in U, w[a] = points_to(x), Field(m, x) = a,
         NEW s \in Block, s \in U, s \notin X, s \notin TargetsIn(w, O), Field(m, s) \in AA,
         NEW r \in Page \cup {Null}
  PROVE  LET sa == Field(m, s)
             v  == [w EXCEPT ![sa].compact = TRUE]
             P  == [O EXCEPT ![t] = Begun(a, x, s, sa, r)]
         IN  /\ w[sa] # Null /\ sa # a
             /\ ProtocolBegun(v, [m EXCEPT ![x][1] = m[s][1]], Partnered(q, x, s), L, P,
                              U \ {s}, X \ {x}, CopyingIn(w, O) \cup {t})
<1> DEFINE sa == Field(m, s)
           v == [w EXCEPT ![sa].compact = TRUE]
           n == [m EXCEPT ![x][1] = m[s][1]]
           p == Partnered(q, x, s)
           j == Begun(a, x, s, sa, r)
           P == [O EXCEPT ![t] = j]
           V == U \ {s}
           Z == X \ {x}
<1>1. Typed(w, m, q, L, O, U)
  BY DEF Protocol
<1>2. sa \in L /\ w[sa].blk = s
  BY DEF Protocol, FieldsTrue
<1>3. /\ s \notin SourcesIn(w, O) /\ x # s
      /\ \A y \in CopyingIn(w, O) : /\ O[y].src # s /\ O[y].target # s
                                    /\ O[y].target # x /\ O[y].src # x
  <2>1. \A y \in CopyingIn(w, O) : O[y].src # s /\ O[y].target # x
    BY CopyFacts
  <2>2. \A y \in CopyingIn(w, O) : O[y].target # s /\ O[y].src # x
    BY CopyFacts
  <2> QED
    BY <2>1, <2>2 DEF SourcesIn
<1>4. w[sa] = points_to(s)
  BY <1>2, <1>3 DEF Protocol, ObjectsPlain
<1>5. sa \in AA /\ w[sa] \in Word /\ w[sa] # Null /\ sa # a
  BY <1>2, ObjectFacts
<1>6. v \in Words /\ v[sa] = [blk |-> s, compact |-> TRUE, free |-> FALSE]
      /\ v[sa].blk = s /\ v[sa] # Null
      /\ \A d \in AA : d # sa => v[d] = w[d]
  <2>1. v \in Words
    BY <1>1, <1>5, Flags DEF Typed
  <2>2. v[sa] = [w[sa] EXCEPT !.compact = TRUE] /\ \A d \in AA : d # sa => v[d] = w[d]
    BY <1>1, <1>5 DEF Typed, Words
  <2>3. [w[sa] EXCEPT !.compact = TRUE] = [blk |-> s, compact |-> TRUE, free |-> FALSE]
    BY <1>4, <1>5, CompactedWord
  <2>4. /\ [blk |-> s, compact |-> TRUE, free |-> FALSE] \in Word
        /\ [blk |-> s, compact |-> TRUE, free |-> FALSE].blk = s
    BY DEF Word
  <2> HIDE DEF v, sa
  <2> QED
    BY <2>1, <2>2, <2>3, <2>4, NoneAssumption
<1>7. /\ n \in Memory /\ n[x][1] = m[s][1]
      /\ \A i \in Chunk : i # 1 => n[x][i] = m[x][i]
      /\ \A d \in Block : d # x => n[d] = m[d]
  <2>1. m \in Memory /\ 1 \in Chunk /\ ChunkSet(n, m, x, s, 1)
    BY <1>1, ChunkBounds DEF Typed, ChunkSet
  <2> HIDE DEF n
  <2> QED
    BY ONLY <2>1, x \in Block, s \in Block, CopyFirst
<1>8. /\ p \in Partition
      /\ Incremental => p[x] = s /\ p[s] = x
      /\ \A d \in Block : d # x /\ d # s => p[d] = q[d]
  <2>1. q \in Partition /\ x # s
    BY <1>1, <1>3 DEF Typed
  <2>2. ArePartners(p, q, x, s)
    BY DEF ArePartners
  <2> HIDE DEF p
  <2> QED
    BY ONLY <2>1, <2>2, x \in Block, s \in Block, PartneredFields
<1>9. /\ j \in Job /\ j # Null
      /\ j.address = a /\ j.target_aa = a /\ j.target = x /\ j.target_aa_val = points_to(x)
      /\ j.src = s /\ j.src_aa = sa /\ j.copied = 1
  BY <1>5, ChunkBounds, PointsTo, NoneAssumption DEF Begun, Job
<1> HIDE DEF v, n, p, j
<1>10. /\ P \in [Thread -> Job \cup {Null}] /\ P[t] = j
       /\ \A y \in Thread : y # t => P[y] = O[y]
  BY <1>1, <1>9 DEF Typed
<1> HIDE DEF P
<1>11. v[a] = points_to(x)
  BY <1>5, <1>6
<1>12. ASSUME NEW y \in Thread, O[y] # Null
       PROVE  /\ y # t /\ P[y] = O[y] /\ O[y].target_aa = O[y].address /\ O[y].address # a
              /\ v[O[y].address] = w[O[y].address]
  <2>1. y # t /\ P[y] = O[y]
    BY <1>10, <1>12
  <2>2. /\ O[y].address \in AA /\ O[y].address \notin L /\ O[y].address # a
        /\ O[y].target_aa = O[y].address
    BY <1>12, JobFacts
  <2> QED
    BY <1>2, <1>6, <2>1, <2>2
<1>13. CopyingIn(v, P) = CopyingIn(w, O) \cup {t}
  <2>1. t \in CopyingIn(v, P)
    BY <1>9, <1>10, <1>11 DEF CopyingIn
  <2>2. ASSUME NEW y \in Thread, y # t PROVE y \in CopyingIn(v, P) <=> y \in CopyingIn(w, O)
    BY <1>10, <1>12, <2>2 DEF CopyingIn
  <2>3. CopyingIn(v, P) \subseteq Thread /\ CopyingIn(w, O) \subseteq Thread
    BY DEF CopyingIn
  <2> QED
    BY <2>1, <2>2, <2>3
<1>14. \A y \in CopyingIn(w, O) : y \in Thread /\ y # t /\ P[y] = O[y]
  BY <1>12 DEF CopyingIn
<1>15. /\ SourcesIn(v, P) = SourcesIn(w, O) \cup {s}
       /\ TargetsIn(v, P) = TargetsIn(w, O) \cup {x}
  BY <1>9, <1>10, <1>13, <1>14 DEF SourcesIn, TargetsIn
<1>16. ASSUME NEW d \in L
       PROVE  /\ d \in AA /\ w[d].blk \in Block /\ v[d].blk = w[d].blk
              /\ w[d].blk # x /\ n[w[d].blk] = m[w[d].blk]
              /\ w[d].blk = s <=> d = sa
              /\ d # sa => v[d] = w[d]
  <2>1. d \in AA /\ w[d].blk \in Block /\ w[d].blk # x /\ (w[d].blk = s <=> d = sa)
    BY <1>2, ObjectFacts
  <2> QED
    BY <1>2, <1>6, <1>7, <2>1
<1>17. Typed(v, n, p, L, P, V)
  BY <1>1, <1>6, <1>7, <1>8, <1>10 DEF Typed
<1>18. AddressesApart(v, L, P, {})
  <2>1. \A d \in L \cup {} : v[d] # Null
    BY <1>6, <1>16, ObjectFacts
  <2>2. \A y \in Thread : P[y] # Null => P[y].address \notin L \cup {} /\ v[P[y].address] # Null
    <3>1. a \notin L /\ w[a] # Null /\ v[a] = w[a]
      BY <1>11 DEF Protocol, AddressesApart
    <3> QED
      BY <1>9, <1>10, <1>12, <3>1 DEF Protocol, AddressesApart
  <2>3. \A y, z \in Thread : P[y] # Null /\ P[z] # Null /\ P[y].address = P[z].address => y = z
    BY <1>9, <1>10, <1>12 DEF Protocol, AddressesApart
  <2>4. ASSUME NEW d \in AA, v[d] # Null, d \notin L
        PROVE  \E y \in Thread : P[y] # Null /\ P[y].address = d
    <3>1. w[d] # Null
      BY <1>2, <1>6, <2>4
    <3>2. CASE d = a
      BY <1>9, <1>10, <3>2
    <3>3. CASE d # a
      <4>1. PICK y \in Thread : O[y] # Null /\ O[y].address = d
        BY <2>4, <3>1, <3>3 DEF Protocol, AddressesApart
      <4> QED
        BY <1>12, <4>1
    <3> QED
      BY <3>2, <3>3
  <2> QED
    BY <2>1, <2>2, <2>3, <2>4 DEF AddressesApart
<1>19. JobsWatch(v, P)
  <2>1. ASSUME NEW y \in Thread, P[y] # Null
        PROVE  /\ P[y].target_aa = P[y].address
               /\ P[y].target_aa_val = points_to(P[y].target)
               /\ y \notin CopyingIn(v, P) => v[P[y].address].compact \/ v[P[y].address].free
    <3>1. CASE y = t
      BY <1>9, <1>10, <1>13, <3>1
    <3>2. CASE y # t
      BY <1>10, <1>12, <1>13, <2>1, <3>2 DEF Protocol, JobsWatch
    <3> QED
      BY <3>1, <3>2
  <2> QED
    BY <2>1 DEF JobsWatch
<1>20. ObjectsHeld(v, n, L)
  BY <1>16 DEF Protocol, ObjectsHeld
<1>21. ObjectsPlain(v, p, L, P, V)
  <2>1. ASSUME NEW d \in L, v[d].blk \notin SourcesIn(v, P)
        PROVE  v[d] = points_to(v[d].blk) /\ (Incremental => p[v[d].blk] = Null) /\ v[d].blk \in V
    <3>1. d # sa /\ w[d].blk \notin SourcesIn(w, O) /\ v[d] = w[d] /\ w[d].blk # s
      BY <1>15, <1>16, <2>1
    <3>2. w[d] = points_to(w[d].blk) /\ (Incremental => q[w[d].blk] = Null) /\ w[d].blk \in U
      BY <3>1 DEF Protocol, ObjectsPlain
    <3>3. p[w[d].blk] = q[w[d].blk]
      BY <1>8, <1>16, <3>1
    <3> QED
      BY <3>1, <3>2, <3>3
  <2> QED
    BY <2>1 DEF ObjectsPlain
<1>22. CopiesInProgress(v, n, p, L, P, V)
  <2>1. ASSUME NEW y \in CopyingIn(w, O) PROVE InProgress(v, n, p, L, V, O[y])
    <3>1. InProgress(w, m, q, L, U, O[y])
      BY CopyFacts
    <3>2. O[y].target \in Block /\ O[y].src \in Block /\ O[y].src_aa \in L /\ O[y].src_aa # sa
      BY <1>2, <1>3, CopyFacts, JobFacts
    <3>3. /\ n[O[y].target] = m[O[y].target] /\ p[O[y].target] = q[O[y].target]
          /\ p[O[y].src] = q[O[y].src] /\ v[O[y].src_aa] = w[O[y].src_aa]
      BY <1>3, <1>7, <1>8, <1>16, <3>2
    <3> QED
      BY <1>3, <3>1, <3>3 DEF InProgress, Field, get_abstract_address_of_page_block
  <2>2. InProgress(v, n, p, L, V, j)
    <3>1. m[s][1] = sa
      BY <1>2, ChunkBounds DEF Protocol, ObjectsHeld
    <3>2. 1 < Increments => Field(n, x) = a
      BY <1>7, ChunkBounds DEF Field, get_abstract_address_of_page_block
    <3>3. \A c \in 1 .. 1 : n[x][c] = sa
      BY <1>7, <3>1
    <3>4. x \in V /\ s \notin V
      BY <1>3
    <3> QED
      BY <1>2, <1>6, <1>8, <1>9, <3>2, <3>3, <3>4 DEF InProgress
  <2> QED
    BY <1>10, <1>13, <1>14, <2>1, <2>2 DEF CopiesInProgress
<1>23. SourcesApart(v, P)
  BY <1>3, <1>9, <1>10, <1>13, <1>14 DEF Protocol, SourcesApart
<1>24. FieldsTrue(v, n, L, P, Z)
  <2>1. ASSUME NEW d \in Block, Field(n, d) \in AA, d \notin Z, d \notin TargetsIn(v, P)
        PROVE  Field(n, d) \in L /\ v[Field(n, d)].blk = d
    <3>1. d # x /\ d \notin X /\ d \notin TargetsIn(w, O)
      BY <1>15, <2>1
    <3>2. Field(n, d) = Field(m, d)
      BY <1>7, <3>1 DEF Field, get_abstract_address_of_page_block
    <3>3. Field(m, d) \in L /\ w[Field(m, d)].blk = d
      BY <2>1, <3>1, <3>2 DEF Protocol, FieldsTrue
    <3> QED
      BY <1>16, <3>2, <3>3
  <2> QED
    BY <2>1 DEF FieldsTrue
<1>25. Detached(v, L, P, Z)
  BY <1>15, <1>16 DEF Protocol, Detached
<1>27. BlocksHeld(n, V)
  <2>1. \A d \in U : d # x => Field(n, d) = Field(m, d)
    BY <1>1, <1>7 DEF Typed, Field, get_abstract_address_of_page_block
  <2>2. Field(n, x) = Field(m, x) \/ Field(n, x) = m[s][Increments]
    <3>1. CASE Increments = 1
      BY <1>7, <3>1 DEF Field, get_abstract_address_of_page_block
    <3>2. CASE Increments # 1
      BY <1>7, <3>2, ChunkBounds DEF Field, get_abstract_address_of_page_block
    <3> QED
      BY <3>1, <3>2
  <2>3. Field(n, x) \in AA
    BY <2>2 DEF Field, get_abstract_address_of_page_block
  <2> QED
    BY <2>1, <2>3 DEF Protocol, BlocksHeld
<1>26. Protocol(v, n, p, L, P, V, Z, {})
  BY ONLY <1>27, <1>17, <1>18, <1>19, <1>20, <1>21, <1>22, <1>23, <1>24, <1>25 DEF Protocol
<1> QED
  BY <1>5, <1>13, <1>26 DEF ProtocolBegun, CopiersAre, v, n, p, j, P

(* do_compaction takes over the copy of thread u, which was filling block  *)
(* b0: it tells u, gives b0 up and copies the source of u itself.          *)
LEMMA TakenOver ==
  ASSUME NEW w, NEW m, NEW q, NEW L, NEW O, NEW U, NEW X, NEW a \in AA,
         Protocol(w, m, q, L, O, U, X, {a}),
         NEW t \in Thread, O[t] = Null,
         NEW x \in Block, x \in X, x \in U, w[a] = points_to(x), Field(m, x) = a,
         NEW u \in CopyingIn(w, O), O[u].copied < Increments, 1 < Increments,
         NEW r \in Page \cup {Null}
  PROVE  LET s == O[u].src
             v == [w EXCEPT ![O[u].address].compact = TRUE]
             P == [O EXCEPT ![t] = Begun(a, x, s, Field(m, s), r)]
         IN  /\ Field(m, s) = O[u].src_aa
             /\ [v EXCEPT ![O[u].src_aa].compact = TRUE] = v
             /\ v[a] = points_to(x)
             /\ ProtocolBegun(v, [m EXCEPT ![x][1] = m[s][1]], Partnered(q, x, s), L, P,
                              U \ {O[u].target}, (X \ {x}) \cup {O[u].target},
                              (CopyingIn(w, O) \ {u}) \cup {t})
<1> DEFINE s == O[u].src
           b0 == O[u].target
           sa == O[u].src_aa
           ua == O[u].address
           v == [w EXCEPT ![ua].compact = TRUE]
           n == [m EXCEPT ![x][1] = m[s][1]]
           p == Partnered(q, x, s)
           j == Begun(a, x, s, sa, r)
           P == [O EXCEPT ![t] = j]
           V == U \ {b0}
           Z == (X \ {x}) \cup {b0}
<1>1. Typed(w, m, q, L, O, U)
  BY DEF Protocol
<1>2. /\ u \in Thread /\ O[u] # Null /\ u # t
      /\ s \in Block /\ b0 \in Block /\ ua \in AA /\ ua \notin L /\ ua # a
      /\ w[ua] \in Word /\ w[ua] = points_to(b0)
      /\ b0 \in U /\ s \notin U /\ b0 # s /\ b0 # x
  BY CopyFacts, JobFacts
<1>3. /\ sa \in L /\ sa \in AA /\ sa # a /\ w[sa] # Null /\ w[sa].blk = s
      /\ w[sa] = [blk |-> s, compact |-> TRUE, free |-> FALSE]
      /\ Field(m, s) = sa /\ m[s][1] = sa /\ s # x
  <2>1. sa \in L /\ w[sa].blk = s /\ InProgress(w, m, q, L, U, O[u])
    BY CopyFacts
  <2>2. w[sa] = [blk |-> s, compact |-> TRUE, free |-> FALSE]
    BY <2>1 DEF InProgress
  <2> HIDE DEF sa, s
  <2>3. /\ sa \in AA /\ sa # a /\ w[sa] # Null /\ w[sa].blk \notin X
        /\ Field(m, w[sa].blk) = sa /\ m[w[sa].blk][1] = sa
    BY <2>1, ObjectFacts, ChunkBounds
  <2> QED
    BY <2>1, <2>2, <2>3
<1>4. \A y \in CopyingIn(w, O) : /\ O[y].target # x /\ O[y].src # x /\ O[y].src # b0
                                 /\ O[y].target # s
                                 /\ y # u => O[y].src # s /\ O[y].target # b0 /\ O[y].src_aa # sa
  <2>1. \A y \in CopyingIn(w, O) : O[y].target # x /\ O[y].src # x
    BY CopyFacts
  <2> QED
    BY <2>1, CopiesApart
<1>5. /\ v \in Words /\ v[ua].compact /\ v[ua] # points_to(b0) /\ v[ua] # Null
      /\ \A d \in AA : d # ua => v[d] = w[d]
  <2>1. v \in Words
    BY <1>1, <1>2, Flags, NoneAssumption DEF Typed
  <2>2. v[ua] = [w[ua] EXCEPT !.compact = TRUE] /\ \A d \in AA : d # ua => v[d] = w[d]
    BY <1>1, <1>2 DEF Typed, Words
  <2>3. [w[ua] EXCEPT !.compact = TRUE].compact /\ [w[ua] EXCEPT !.compact = TRUE] \in Word
    BY <1>2 DEF Word
  <2>4. ~points_to(b0).compact
    BY DEF points_to
  <2> HIDE DEF v, ua, b0
  <2> QED
    BY <2>1, <2>2, <2>3, <2>4, NoneAssumption
<1>6. /\ CopyingIn(v, O) = CopyingIn(w, O) \ {u}
      /\ SourcesIn(v, O) = SourcesIn(w, O) \ {s}
      /\ TargetsIn(v, O) = TargetsIn(w, O) \ {b0}
      /\ \A d \in L : d # ua /\ v[d] = w[d]
  <2> HIDE DEF v
  <2> QED
    BY <1>5, StoppedCopy
<1>7. [v EXCEPT ![sa].compact = TRUE] = v
  <2>1. v[sa] \in Word /\ v[sa].compact = TRUE
    <3>1. v[sa] = [blk |-> s, compact |-> TRUE, free |-> FALSE] /\ s \in Block
      BY <1>2, <1>3, <1>6
    <3> HIDE DEF v, sa, s
    <3> QED
      BY ONLY <3>1 DEF Word
  <2> HIDE DEF v, sa
  <2>2. [v[sa] EXCEPT !.compact = TRUE] = v[sa]
    BY ONLY <2>1 DEF Word
  <2>3. DOMAIN v = AA /\ v = [d \in AA |-> v[d]]
    BY <1>5 DEF Words
  <2> QED
    BY ONLY <2>2, <2>3
<1>8. /\ n \in Memory /\ n[x][1] = sa
      /\ \A i \in Chunk : i # 1 => n[x][i] = m[x][i]
      /\ \A d \in Block : d # x => n[d] = m[d]
  <2>1. m \in Memory /\ 1 \in Chunk /\ ChunkSet(n, m, x, s, 1)
    BY <1>1, ChunkBounds DEF Typed, ChunkSet
  <2>2. s \in Block /\ m[s][1] = sa
    BY <1>2, <1>3
  <2> HIDE DEF n, s, sa
  <2> QED
    BY ONLY <2>1, <2>2, x \in Block, CopyFirst
<1>9. /\ p \in Partition
      /\ Incremental => p[x] = s /\ p[s] = x
      /\ \A d \in Block : d # x /\ d # s => p[d] = q[d]
  <2>1. q \in Partition /\ s \in Block /\ x # s
    BY <1>1, <1>2, <1>3 DEF Typed
  <2>2. ArePartners(p, q, x, s)
    BY DEF ArePartners
  <2> HIDE DEF p, s
  <2> QED
    BY ONLY <2>1, <2>2, x \in Block, PartneredFields
<1>10. /\ j \in Job /\ j # Null
       /\ j.address = a /\ j.target_aa = a /\ j.target = x /\ j.target_aa_val = points_to(x)
       /\ j.src = s /\ j.src_aa = sa /\ j.copied = 1
  BY <1>2, <1>3, ChunkBounds, PointsTo, NoneAssumption DEF Begun, Job
<1>11. v[a] = points_to(x)
  BY <1>2, <1>5
<1> HIDE DEF v, n, p, j
<1>12. /\ P \in [Thread -> Job \cup {Null}] /\ P[t] = j
       /\ \A y \in Thread : y # t => P[y] = O[y]
  BY <1>1, <1>10 DEF Typed
<1> HIDE DEF P
<1>13. ASSUME NEW y \in Thread, O[y] # Null
       PROVE  /\ y # t /\ P[y] = O[y] /\ O[y].target_aa = O[y].address /\ O[y].address # a
              /\ y # u => v[O[y].address] = w[O[y].address]
  <2>1. y # t /\ P[y] = O[y]
    BY <1>12, <1>13
  <2>2. /\ O[y].address \in AA /\ O[y].address # a
        /\ O[y].target_aa = O[y].address
    BY <1>13, JobFacts
  <2>3. y # u => O[y].address # ua
    BY <1>2, <1>13 DEF Protocol, AddressesApart
  <2> QED
    BY <1>5, <2>1, <2>2, <2>3
<1>14. CopyingIn(v, P) = (CopyingIn(w, O) \ {u}) \cup {t}
  <2>1. t \in CopyingIn(v, P)
    BY <1>10, <1>11, <1>12 DEF CopyingIn
  <2>2. ASSUME NEW y \in Thread, y # t PROVE y \in CopyingIn(v, P) <=> y \in CopyingIn(v, O)
    BY <1>12, <2>2 DEF CopyingIn
  <2>3. CopyingIn(v, P) \subseteq Thread /\ CopyingIn(w, O) \subseteq Thread
    BY DEF CopyingIn
  <2> QED
    BY <1>6, <2>1, <2>2, <2>3
<1>15. \A y \in CopyingIn(w, O) : y \in Thread /\ y # t /\ P[y] = O[y]
  BY <1>13 DEF CopyingIn
<1>16. /\ SourcesIn(v, P) = SourcesIn(w, O)
       /\ TargetsIn(v, P) = (TargetsIn(w, O) \ {b0}) \cup {x}
  <2>1. SourcesIn(v, P) = SourcesIn(v, O) \cup {s} /\ TargetsIn(v, P) = TargetsIn(v, O) \cup {x}
    BY <1>6, <1>10, <1>12, <1>14, <1>15 DEF SourcesIn, TargetsIn
  <2>2. s \in SourcesIn(w, O)
    BY CopyFacts
  <2> QED
    BY <1>6, <2>1, <2>2
<1>17. ASSUME NEW d \in L
       PROVE  /\ d \in AA /\ w[d].blk \in Block /\ v[d] = w[d]
              /\ w[d].blk # x /\ w[d].blk # b0 /\ n[w[d].blk] = m[w[d].blk]
  <2>1. d \in AA /\ w[d].blk \in Block /\ w[d].blk # x
    BY ObjectFacts
  <2>2. w[d].blk # b0
    BY CopyFacts
  <2> QED
    BY <1>6, <1>8, <2>1, <2>2
<1>18. Typed(v, n, p, L, P, V)
  BY <1>1, <1>5, <1>8, <1>9, <1>12 DEF Typed
<1>19. AddressesApart(v, L, P, {})
  <2>1. \A d \in L \cup {} : v[d] # Null
    BY <1>17, ObjectFacts
  <2>2. \A y \in Thread : P[y] # Null => P[y].address \notin L \cup {} /\ v[P[y].address] # Null
    <3>1. a \notin L /\ w[a] # Null /\ v[a] = w[a]
      BY <1>11 DEF Protocol, AddressesApart
    <3> QED
      BY <1>2, <1>5, <1>10, <1>12, <1>13, <3>1 DEF Protocol, AddressesApart
  <2>3. \A y, z \in Thread : P[y] # Null /\ P[z] # Null /\ P[y].address = P[z].address => y = z
    BY <1>10, <1>12, <1>13 DEF Protocol, AddressesApart
  <2>4. ASSUME NEW d \in AA, v[d] # Null, d \notin L
        PROVE  \E y \in Thread : P[y] # Null /\ P[y].address = d
    <3>1. w[d] # Null
      BY <1>2, <1>5, <2>4, NoneAssumption
    <3>2. CASE d = a
      BY <1>10, <1>12, <3>2
    <3>3. CASE d # a
      <4>1. PICK y \in Thread : O[y] # Null /\ O[y].address = d
        BY <2>4, <3>1, <3>3 DEF Protocol, AddressesApart
      <4> QED
        BY <1>13, <4>1
    <3> QED
      BY <3>2, <3>3
  <2> QED
    BY <2>1, <2>2, <2>3, <2>4 DEF AddressesApart
<1>20. JobsWatch(v, P)
  <2>1. ASSUME NEW y \in Thread, P[y] # Null
        PROVE  /\ P[y].target_aa = P[y].address
               /\ P[y].target_aa_val = points_to(P[y].target)
               /\ y \notin CopyingIn(v, P) => v[P[y].address].compact \/ v[P[y].address].free
    <3>1. CASE y = t
      BY <1>10, <1>12, <1>14, <3>1
    <3>2. CASE y = u
      BY <1>2, <1>5, <1>12, <3>2 DEF Protocol, JobsWatch
    <3>3. CASE y # t /\ y # u
      BY <1>12, <1>13, <1>14, <2>1, <3>3 DEF Protocol, JobsWatch
    <3> QED
      BY <3>1, <3>2, <3>3
  <2> QED
    BY <2>1 DEF JobsWatch
<1>21. ObjectsHeld(v, n, L)
  BY <1>17 DEF Protocol, ObjectsHeld
<1>22. ObjectsPlain(v, p, L, P, V)
  <2>1. ASSUME NEW d \in L, v[d].blk \notin SourcesIn(v, P)
        PROVE  v[d] = points_to(v[d].blk) /\ (Incremental => p[v[d].blk] = Null) /\ v[d].blk \in V
    <3>1. w[d].blk \notin SourcesIn(w, O) /\ v[d] = w[d]
      BY <1>16, <1>17, <2>1
    <3>2. w[d] = points_to(w[d].blk) /\ (Incremental => q[w[d].blk] = Null) /\ w[d].blk \in U
      BY <3>1 DEF Protocol, ObjectsPlain
    <3>3. p[w[d].blk] = q[w[d].blk] /\ w[d].blk \in V
      BY <1>2, <1>9, <1>17, <3>2
    <3> QED
      BY <3>1, <3>2, <3>3
  <2> QED
    BY <2>1 DEF ObjectsPlain
<1>23. CopiesInProgress(v, n, p, L, P, V)
  <2>1. ASSUME NEW y \in CopyingIn(w, O), y # u PROVE InProgress(v, n, p, L, V, O[y])
    <3>1. InProgress(w, m, q, L, U, O[y])
      BY CopyFacts
    <3>2. y \in Thread /\ O[y] # Null /\ O[y].src_aa \in L
      BY CopyFacts
    <3>3. O[y].target \in Block /\ O[y].src \in Block
      BY <3>2, JobFacts
    <3>5. /\ n[O[y].target] = m[O[y].target] /\ p[O[y].target] = q[O[y].target]
          /\ p[O[y].src] = q[O[y].src] /\ v[O[y].src_aa] = w[O[y].src_aa]
      BY <1>4, <1>8, <1>9, <1>17, <2>1, <3>2, <3>3
    <3>4. O[y].target # b0
      BY <1>4, <2>1
    <3> QED
      BY <3>1, <3>4, <3>5 DEF InProgress, Field, get_abstract_address_of_page_block
  <2>2. InProgress(v, n, p, L, V, j)
    <3>1. 1 < Increments => Field(n, x) = a
      BY <1>8, ChunkBounds DEF Field, get_abstract_address_of_page_block
    <3>2. \A c \in 1 .. 1 : n[x][c] = sa
      BY <1>8
    <3>3. x \in V /\ s \notin V
      BY <1>2
    <3>4. v[sa] = [blk |-> s, compact |-> TRUE, free |-> FALSE]
      BY <1>3, <1>17
    <3> QED
      BY <1>3, <1>9, <1>10, <3>1, <3>2, <3>3, <3>4 DEF InProgress
  <2> QED
    BY <1>12, <1>14, <1>15, <2>1, <2>2 DEF CopiesInProgress
<1>24. SourcesApart(v, P)
  BY <1>4, <1>10, <1>12, <1>14, <1>15 DEF Protocol, SourcesApart
<1>25. FieldsTrue(v, n, L, P, Z)
  <2>1. ASSUME NEW d \in Block, Field(n, d) \in AA, d \notin Z, d \notin TargetsIn(v, P)
        PROVE  Field(n, d) \in L /\ v[Field(n, d)].blk = d
    <3>1. d # x /\ d \notin X /\ d \notin TargetsIn(w, O)
      BY <1>16, <2>1
    <3>2. Field(n, d) = Field(m, d)
      BY <1>8, <3>1 DEF Field, get_abstract_address_of_page_block
    <3>3. Field(m, d) \in L /\ w[Field(m, d)].blk = d
      BY <2>1, <3>1, <3>2 DEF Protocol, FieldsTrue
    <3> QED
      BY <1>17, <3>2, <3>3
  <2> QED
    BY <2>1 DEF FieldsTrue
<1>26. Detached(v, L, P, Z)
  <2>1. b0 # x
    BY <1>2
  <2> QED
    BY <1>16, <1>17, <2>1 DEF Protocol, Detached
<1>28. BlocksHeld(n, V)
  <2>1. \A d \in U : d # x => Field(n, d) = Field(m, d)
    BY <1>1, <1>8 DEF Typed, Field, get_abstract_address_of_page_block
  <2>2. Field(n, x) = Field(m, x)
    BY <1>8, ChunkBounds DEF Field, get_abstract_address_of_page_block
  <2> QED
    BY <2>1, <2>2 DEF Protocol, BlocksHeld
<1>27. Protocol(v, n, p, L, P, V, Z, {})
  BY ONLY <1>28, <1>18, <1>19, <1>20, <1>21, <1>22, <1>23, <1>24, <1>25, <1>26 DEF Protocol
<1> HIDE DEF V, Z, s, sa, ua, b0
<1>29. ProtocolBegun(v, n, p, L, P, V, Z, (CopyingIn(w, O) \ {u}) \cup {t})
  BY ONLY <1>14, <1>27 DEF ProtocolBegun, CopiersAre
<1> QED
  BY ONLY <1>3, <1>7, <1>11, <1>29 DEF v, n, p, j, P, V, Z, s, sa, ua, b0

(* do_compaction copies the next chunk.                                    *)
LEMMA Chunked ==
  ASSUME NEW w, NEW m, NEW q, NEW L, NEW O, NEW U, NEW X, NEW Y,
         Protocol(w, m, q, L, O, U, X, Y),
         NEW t \in CopyingIn(w, O), NEW c \in Chunk, c = O[t].copied + 1
  PROVE  LET P == [O EXCEPT ![t].copied = c]
         IN  /\ Protocol(w, [m EXCEPT ![O[t].target][c] = m[O[t].src][c]], q, L, P, U, X, Y)
             /\ CopiersAre(w, P, CopyingIn(w, O))
<1> DEFINE x == O[t].target
           s == O[t].src
           n == [m EXCEPT ![x][c] = m[s][c]]
           P == [O EXCEPT ![t].copied = c]
           j == P[t]
<1>1. Typed(w, m, q, L, O, U) /\ t \in Thread /\ O[t] \in Job /\ x \in Block /\ s \in Block
  BY CopyFacts, JobFacts DEF Protocol
<1>2. /\ n \in Memory /\ n[x][c] = m[s][c]
      /\ \A i \in Chunk : i # c => n[x][i] = m[x][i]
      /\ \A d \in Block : d # x => n[d] = m[d]
  <2>1. m \in Memory /\ ChunkSet(n, m, x, s, c)
    BY <1>1 DEF Typed, ChunkSet
  <2> HIDE DEF x, s, n
  <2> QED
    BY ONLY <1>1, <2>1, c \in Chunk, CopyFirst
<1>3. /\ P \in [Thread -> Job \cup {Null}] /\ j \in Job
      /\ \A y \in Thread : y # t => P[y] = O[y]
      /\ j.address = O[t].address /\ j.target_aa = O[t].target_aa
      /\ j.target = x /\ j.target_aa_val = O[t].target_aa_val
      /\ j.src = s /\ j.src_aa = O[t].src_aa /\ j.copied = c
  <2>1. P[t] = [O[t] EXCEPT !.copied = c] /\ \A y \in Thread : y # t => P[y] = O[y]
    BY <1>1 DEF Typed
  <2>2. [O[t] EXCEPT !.copied = c] \in Job
    BY <1>1 DEF Job
  <2>3. P = [y \in Thread |-> IF y = t THEN [O[t] EXCEPT !.copied = c] ELSE O[y]]
    BY <1>1 DEF Typed
  <2>4. P \in [Thread -> Job \cup {Null}]
    BY <1>1, <2>2, <2>3 DEF Typed
  <2> QED
    BY <1>1, <2>1, <2>2, <2>4 DEF Job
<1>4. j # Null
  BY <1>3, NoneAssumption
<1> HIDE DEF n, P
<1>5. ASSUME NEW y \in Thread
      PROVE  /\ P[y] = Null <=> O[y] = Null
             /\ P[y] # Null => /\ P[y].address = O[y].address
                               /\ P[y].target_aa = O[y].target_aa
                               /\ P[y].target_aa_val = O[y].target_aa_val
                               /\ P[y].target = O[y].target
                               /\ P[y].src = O[y].src
                               /\ P[y].src_aa = O[y].src_aa
                               /\ y # t => P[y] = O[y]
  <2>1. O[t] # Null
    BY CopyFacts
  <2> HIDE DEF j
  <2>2. CASE y = t
    BY <1>3, <1>4, <2>1, <2>2 DEF j
  <2>3. CASE y # t
    BY <1>3, <2>3
  <2> QED
    BY <2>2, <2>3
<1>6. CopyingIn(w, P) = CopyingIn(w, O)
  BY <1>5 DEF CopyingIn
<1>7. \A y \in CopyingIn(w, O) : /\ y \in Thread /\ P[y] # Null
                                 /\ P[y].target = O[y].target /\ P[y].src = O[y].src
  BY <1>5 DEF CopyingIn
<1>8. SourcesIn(w, P) = SourcesIn(w, O) /\ TargetsIn(w, P) = TargetsIn(w, O)
  BY <1>6, <1>7 DEF SourcesIn, TargetsIn
<1>9. \A d \in L : w[d].blk # x /\ n[w[d].blk] = m[w[d].blk]
  BY <1>2, CopyFacts, ObjectFacts
<1>10. Typed(w, n, q, L, P, U)
  BY <1>1, <1>2, <1>3 DEF Typed
<1>11. AddressesApart(w, L, P, Y)
  BY <1>5 DEF Protocol, AddressesApart
<1>12. JobsWatch(w, P)
  BY <1>5, <1>6 DEF Protocol, JobsWatch
<1>13. ObjectsHeld(w, n, L) /\ ObjectsPlain(w, q, L, P, U)
  BY <1>8, <1>9 DEF Protocol, ObjectsHeld, ObjectsPlain
<1>14. CopiesInProgress(w, n, q, L, P, U)
  <2>1. ASSUME NEW y \in CopyingIn(w, O), y # t PROVE InProgress(w, n, q, L, U, O[y]) /\ P[y] = O[y]
    <3>1. InProgress(w, m, q, L, U, O[y]) /\ y \in Thread /\ O[y] # Null
      BY CopyFacts
    <3>2. O[y].target \in Block /\ O[y].target # x
      BY <2>1, <3>1, JobFacts, CopiesApart
    <3>3. n[O[y].target] = m[O[y].target]
      BY <1>2, <3>2
    <3> QED
      BY <1>3, <2>1, <3>1, <3>3 DEF InProgress, Field, get_abstract_address_of_page_block
  <2>2. InProgress(w, n, q, L, U, P[t])
    <3>1. InProgress(w, m, q, L, U, O[t])
      BY CopyFacts
    <3>2. O[t].src_aa \in L /\ w[O[t].src_aa].blk = s
      BY CopyFacts
    <3>3. m[s][c] = O[t].src_aa
      BY <3>2 DEF Protocol, ObjectsHeld
    <3>4. c < Increments => Field(n, x) = j.address
      <4>1. c < Increments => O[t].copied < Increments /\ Increments # c
        BY <1>1, IncrementsAssumption DEF Job, Chunk
      <4>2. O[t].copied < Increments => Field(m, x) = O[t].address
        BY <3>1 DEF InProgress
      <4> QED
        BY <1>2, <1>3, <4>1, <4>2, ChunkBounds DEF Field, get_abstract_address_of_page_block
    <3>5. \A i \in 1 .. c : n[x][i] = O[t].src_aa
      <4>1. ASSUME NEW i \in 1 .. c PROVE i = c \/ i \in 1 .. O[t].copied
        BY <1>1 DEF Job, Chunk
      <4>2. \A i \in 1 .. c : i \in Chunk
        BY ChunkIn
      <4>3. \A i \in 1 .. O[t].copied : m[x][i] = O[t].src_aa
        BY <3>1 DEF InProgress
      <4> QED
        BY <1>2, <3>3, <4>1, <4>2, <4>3
    <3> HIDE DEF x, s
    <3> QED
      BY <1>3, <3>1, <3>4, <3>5 DEF InProgress, x, s
  <2> QED
    BY <1>6, <2>1, <2>2 DEF CopiesInProgress
<1>15. SourcesApart(w, P)
  BY <1>6, <1>7 DEF Protocol, SourcesApart
<1>16. FieldsTrue(w, n, L, P, X)
  <2>1. ASSUME NEW d \in Block, Field(n, d) \in AA, d \notin X, d \notin TargetsIn(w, O)
        PROVE  Field(n, d) \in L /\ w[Field(n, d)].blk = d
    <3>1. d # x
      BY <2>1, CopyFacts
    <3>2. Field(n, d) = Field(m, d)
      BY <1>2, <3>1 DEF Field, get_abstract_address_of_page_block
    <3> QED
      BY <2>1, <3>2 DEF Protocol, FieldsTrue
  <2> QED
    BY <1>8, <2>1 DEF FieldsTrue
<1>17. Detached(w, L, P, X)
  BY <1>8 DEF Protocol, Detached
<1>18. BlocksHeld(n, U)
  <2>1. \A d \in U : d # x => Field(n, d) = Field(m, d)
    BY <1>1, <1>2 DEF Typed, Field, get_abstract_address_of_page_block
  <2>2. CASE c = Increments
    <3>1. O[t].src_aa \in L /\ w[O[t].src_aa].blk = s
      BY CopyFacts
    <3>2. Field(n, x) = O[t].src_aa /\ O[t].src_aa \in AA
      BY <1>1, <1>2, <2>2, <3>1 DEF Protocol, Typed, ObjectsHeld, Field,
                                    get_abstract_address_of_page_block
    <3> QED
      BY <2>1, <3>2 DEF Protocol, BlocksHeld
  <2>3. CASE c # Increments
    <3>1. Field(n, x) = Field(m, x)
      BY <1>2, <2>3, ChunkBounds DEF Field, get_abstract_address_of_page_block
    <3> QED
      BY <2>1, <3>1 DEF Protocol, BlocksHeld
  <2> QED
    BY <2>2, <2>3
<1> QED
  BY <1>18, <1>6, <1>10, <1>11, <1>12, <1>13, <1>14, <1>15, <1>16, <1>17 DEF Protocol, CopiersAre, n, P

(* do_compaction lets the address of the copied object point to the copy,  *)
(* and gives its own address back.                                         *)
LEMMA Ended ==
  ASSUME NEW w, NEW m, NEW q, NEW L, NEW O, NEW U, NEW X,
         Protocol(w, m, q, L, O, U, X, {}),
         NEW t \in CopyingIn(w, O), O[t].copied = Increments
  PROVE  LET v == [[w EXCEPT ![O[t].src_aa] = O[t].target_aa_val] EXCEPT ![O[t].address] = Null]
             P == [O EXCEPT ![t] = Null]
         IN  /\ Protocol(v, m, clear_partition_field(q, O[t].target), L, P, U,
                         X \cup {O[t].src}, {})
             /\ CopiersAre(v, P, CopyingIn(w, O) \ {t})
<1> DEFINE x == O[t].target
           s == O[t].src
           sa == O[t].src_aa
           ta == O[t].address
           v == [[w EXCEPT ![sa] = O[t].target_aa_val] EXCEPT ![ta] = Null]
           r == clear_partition_field(q, x)
           P == [O EXCEPT ![t] = Null]
           Z == X \cup {s}
<1>1. Typed(w, m, q, L, O, U)
  BY DEF Protocol
<1>2. /\ t \in Thread /\ O[t] # Null /\ x \in Block /\ s \in Block
      /\ ta \in AA /\ ta \notin L /\ sa \in L /\ sa \in AA /\ w[sa].blk = s
      /\ x \in U /\ x # s
      /\ O[t].target_aa_val = points_to(x)
  BY CopyFacts, JobFacts
<1>3. points_to(x) \in Word /\ points_to(x) # Null /\ points_to(x).blk = x
  <2> HIDE DEF x
  <2>1. points_to(x).blk = x
    BY DEF points_to
  <2> QED
    BY <1>2, <2>1, PointsTo, NoneAssumption
<1>4. /\ v \in Words /\ v[sa] = points_to(x) /\ v[ta] = Null
      /\ \A d \in AA : d # sa /\ d # ta => v[d] = w[d]
  BY <1>1, <1>2, <1>3 DEF Typed, Words
<1>5. /\ r \in Partition /\ (Incremental => r[x] = Null)
      /\ \A d \in Block : d # x => r[d] = q[d]
  BY <1>1, <1>2 DEF Typed, Partition, clear_partition_field
<1>6. /\ P \in [Thread -> Job \cup {Null}] /\ P[t] = Null
      /\ \A y \in Thread : y # t => P[y] = O[y]
  BY <1>1, <1>2 DEF Typed
<1> HIDE DEF v, r, P
<1>7. ASSUME NEW y \in Thread, P[y] # Null
      PROVE  /\ y # t /\ O[y] # Null /\ P[y] = O[y] /\ O[y].target_aa = O[y].address
             /\ O[y].address \in AA /\ O[y].address # ta /\ O[y].address # sa
             /\ v[O[y].address] = w[O[y].address]
  <2>1. y # t /\ O[y] # Null /\ P[y] = O[y]
    BY <1>6, <1>7
  <2>2. O[y].address \in AA /\ O[y].address \notin L /\ O[y].target_aa = O[y].address
    BY <2>1, JobFacts
  <2>3. O[y].address # ta
    BY <1>2, <2>1 DEF Protocol, AddressesApart
  <2> QED
    BY <1>2, <1>4, <2>1, <2>2, <2>3
<1>8. CopyingIn(v, P) = CopyingIn(w, O) \ {t}
  <2>1. ASSUME NEW y \in Thread PROVE y \in CopyingIn(v, P) <=> y \in CopyingIn(w, O) /\ y # t
    BY <1>6, <1>7 DEF CopyingIn
  <2> QED
    BY <2>1 DEF CopyingIn
<1>9. /\ \A y \in CopyingIn(w, O) : y \in Thread /\ (y # t => P[y] = O[y])
      /\ \A y \in CopyingIn(w, O) : y # t =>
           /\ O[y].src # s /\ O[y].target # x /\ O[y].src_aa # sa
           /\ O[y].src # x /\ O[y].target # s
  BY <1>6, CopiesApart DEF CopyingIn
<1>10. /\ SourcesIn(v, P) = SourcesIn(w, O) \ {s}
       /\ TargetsIn(v, P) = TargetsIn(w, O) \ {x}
       /\ s \notin TargetsIn(w, O) /\ x \notin SourcesIn(w, O)
  BY <1>2, <1>8, <1>9 DEF SourcesIn, TargetsIn
<1>11. ASSUME NEW d \in L, d # sa
       PROVE  /\ d \in AA /\ w[d].blk \in Block /\ v[d] = w[d]
              /\ w[d].blk # x /\ w[d].blk # s
  <2>1. d \in AA /\ w[d].blk \in Block /\ d # ta
    BY <1>2, ObjectFacts
  <2>2. w[d].blk # x
    BY CopyFacts
  <2>3. w[d].blk # s
    BY <1>11, ObjectBlock
  <2> QED
    BY <1>4, <1>11, <2>1, <2>2, <2>3
<1>12. InProgress(w, m, q, L, U, O[t])
  BY CopyFacts
<1>13. \A c \in Chunk : m[x][c] = sa
  <2>1. \A c \in 1 .. O[t].copied : m[O[t].target][c] = O[t].src_aa
    BY <1>12 DEF InProgress
  <2> QED
    BY <2>1 DEF Chunk
<1>14. Typed(v, m, r, L, P, U)
  BY <1>1, <1>4, <1>5, <1>6 DEF Typed
<1>15. AddressesApart(v, L, P, {})
  <2>1. \A d \in L \cup {} : v[d] # Null
    BY <1>3, <1>4, <1>11, ObjectFacts
  <2>2. \A y \in Thread : P[y] # Null => P[y].address \notin L \cup {} /\ v[P[y].address] # Null
    BY <1>7 DEF Protocol, AddressesApart
  <2>3. \A y, z \in Thread : P[y] # Null /\ P[z] # Null /\ P[y].address = P[z].address => y = z
    BY <1>7 DEF Protocol, AddressesApart
  <2>4. ASSUME NEW d \in AA, v[d] # Null, d \notin L
        PROVE  \E y \in Thread : P[y] # Null /\ P[y].address = d
    <3>1. d # ta /\ d # sa /\ w[d] # Null
      BY <1>2, <1>4, <2>4
    <3>2. PICK y \in Thread : O[y] # Null /\ O[y].address = d
      BY <2>4, <3>1 DEF Protocol, AddressesApart
    <3> QED
      BY <1>6, <3>1, <3>2
  <2> QED
    BY <2>1, <2>2, <2>3, <2>4 DEF AddressesApart
<1>16. JobsWatch(v, P)
  BY <1>7, <1>8 DEF Protocol, JobsWatch
<1>17. ObjectsHeld(v, m, L)
  <2>1. ASSUME NEW d \in L, NEW c \in Chunk PROVE m[v[d].blk][c] = d
    <3>1. CASE d = sa
      BY <1>3, <1>4, <1>13, <3>1
    <3>2. CASE d # sa
      BY <1>11, <3>2 DEF Protocol, ObjectsHeld
    <3> QED
      BY <3>1, <3>2
  <2> QED
    BY <2>1 DEF ObjectsHeld
<1>18. ObjectsPlain(v, r, L, P, U)
  <2>1. ASSUME NEW d \in L, v[d].blk \notin SourcesIn(v, P)
        PROVE  v[d] = points_to(v[d].blk) /\ (Incremental => r[v[d].blk] = Null) /\ v[d].blk \in U
    <3>1. CASE d = sa
      <4>1. v[d] = points_to(x) /\ v[d].blk = x
        BY <1>3, <1>4, <3>1
      <4> HIDE DEF x
      <4> QED
        BY <1>2, <1>5, <4>1
    <3>2. CASE d # sa
      <4>1. v[d] = w[d] /\ w[d].blk \in Block /\ w[d].blk # x /\ w[d].blk \notin SourcesIn(w, O)
        BY <1>10, <1>11, <2>1, <3>2
      <4>2. w[d] = points_to(w[d].blk) /\ (Incremental => q[w[d].blk] = Null) /\ w[d].blk \in U
        BY <4>1 DEF Protocol, ObjectsPlain
      <4> QED
        BY <1>5, <4>1, <4>2
    <3> QED
      BY <3>1, <3>2
  <2> QED
    BY <2>1 DEF ObjectsPlain
<1>19. CopiesInProgress(v, m, r, L, P, U)
  <2>1. ASSUME NEW y \in CopyingIn(w, O), y # t PROVE InProgress(v, m, r, L, U, O[y]) /\ P[y] = O[y]
    <3>1. InProgress(w, m, q, L, U, O[y]) /\ y \in Thread /\ O[y] # Null /\ O[y].src_aa \in L
      BY CopyFacts
    <3>2. O[y].target \in Block /\ O[y].src \in Block
      BY <3>1, JobFacts
    <3>3. /\ r[O[y].target] = q[O[y].target] /\ r[O[y].src] = q[O[y].src]
          /\ v[O[y].src_aa] = w[O[y].src_aa]
      BY <1>5, <1>9, <1>11, <2>1, <3>1, <3>2
    <3> QED
      BY <1>9, <2>1, <3>1, <3>3 DEF InProgress
  <2> QED
    BY <1>8, <2>1 DEF CopiesInProgress
<1>20. SourcesApart(v, P)
  BY <1>8, <1>9 DEF Protocol, SourcesApart
<1>21. FieldsTrue(v, m, L, P, Z)
  <2>1. ASSUME NEW d \in Block, Field(m, d) \in AA, d \notin Z, d \notin TargetsIn(v, P)
        PROVE  Field(m, d) \in L /\ v[Field(m, d)].blk = d
    <3>1. CASE d = x
      BY <1>2, <1>3, <1>4, <1>13, <3>1, ChunkBounds DEF Field, get_abstract_address_of_page_block
    <3>2. CASE d # x
      <4>1. Field(m, d) \in L /\ w[Field(m, d)].blk = d
        BY <1>10, <2>1, <3>2 DEF Protocol, FieldsTrue
      <4> QED
        BY <1>2, <1>11, <2>1, <4>1
    <3> QED
      BY <3>1, <3>2
  <2> QED
    BY <2>1 DEF FieldsTrue
<1>22. Detached(v, L, P, Z)
  <2>1. \A d \in L : v[d].blk \notin Z
    <3>1. x \notin X
      BY CopyFacts
    <3>2. \A d \in L : w[d].blk \notin X
      BY DEF Protocol, Detached
    <3> QED
      BY <1>2, <1>3, <1>4, <1>11, <3>1, <3>2
  <2> QED
    BY <1>10, <2>1 DEF Protocol, Detached
<1>23. Protocol(v, m, r, L, P, U, Z, {})
  BY <1>14, <1>15, <1>16, <1>17, <1>18, <1>19, <1>20, <1>21, <1>22 DEF Protocol
<1> QED
  BY <1>8, <1>23 DEF CopiersAre, v, r, P

(* Blocks nobody has any more are forgotten.                               *)
LEMMA Forgotten ==
  ASSUME NEW w, NEW m, NEW q, NEW L, NEW O, NEW U, NEW X, NEW Y,
         Protocol(w, m, q, L, O, U, X, Y),
         NEW G, X \subseteq G, G \cap U = {}, G \cap TargetsIn(w, O) = {}, \A a \in L : w[a].blk \notin G
  PROVE  Protocol(w, forget(m, G), forget_part(q, G), L, O, U, {}, Y)
<1> DEFINE n == forget(m, G)
           r == forget_part(q, G)
<1>1. Typed(w, m, q, L, O, U)
  BY DEF Protocol
<1>2. n \in Memory /\ r \in Partition
  BY <1>1, Forget, ForgetPart DEF Typed
<1>3. /\ \A d \in Block : d \notin G => n[d] = m[d] /\ r[d] = q[d]
      /\ \A d \in Block : d \in G => Field(n, d) = Junk
  BY ChunkBounds DEF forget, forget_part, Field, get_abstract_address_of_page_block
<1> HIDE DEF n, r
<1>4. \A d \in L : n[w[d].blk] = m[w[d].blk] /\ r[w[d].blk] = q[w[d].blk]
  BY <1>3, ObjectFacts
<1>5. Typed(w, n, r, L, O, U)
  BY <1>1, <1>2 DEF Typed
<1>6. ObjectsHeld(w, n, L) /\ ObjectsPlain(w, r, L, O, U)
  BY <1>4 DEF Protocol, ObjectsHeld, ObjectsPlain
<1>7. CopiesInProgress(w, n, r, L, O, U)
  <2>1. ASSUME NEW t \in CopyingIn(w, O) PROVE InProgress(w, n, r, L, U, O[t])
    <3>1. /\ InProgress(w, m, q, L, U, O[t]) /\ t \in Thread /\ O[t] # Null
          /\ O[t].src_aa \in L /\ w[O[t].src_aa].blk = O[t].src
          /\ O[t].target \in TargetsIn(w, O)
      BY CopyFacts
    <3>2. O[t].target \in Block
      BY <3>1, JobFacts
    <3>3. n[O[t].target] = m[O[t].target] /\ r[O[t].target] = q[O[t].target]
      BY <1>3, <3>1, <3>2
    <3>4. r[O[t].src] = q[O[t].src]
      BY <1>4, <3>1
    <3> QED
      BY <3>1, <3>3, <3>4 DEF InProgress, Field, get_abstract_address_of_page_block
  <2> QED
    BY <2>1 DEF CopiesInProgress
<1>8. FieldsTrue(w, n, L, O, {})
  <2>1. ASSUME NEW d \in Block, Field(n, d) \in AA, d \notin TargetsIn(w, O)
        PROVE  Field(n, d) \in L /\ w[Field(n, d)].blk = d
    <3>1. d \notin G
      BY <1>3, <2>1, NullAssumption
    <3>2. Field(n, d) = Field(m, d)
      BY <1>3, <3>1 DEF Field, get_abstract_address_of_page_block
    <3> QED
      BY <2>1, <3>1, <3>2 DEF Protocol, FieldsTrue
  <2> QED
    BY <2>1 DEF FieldsTrue
<1>9. Detached(w, L, O, {})
  BY DEF Detached
<1>10. BlocksHeld(n, U)
  <2>1. \A d \in U : Field(n, d) = Field(m, d)
    BY <1>1, <1>3 DEF Typed, Field, get_abstract_address_of_page_block
  <2> QED
    BY <2>1 DEF Protocol, BlocksHeld
<1> QED
  BY <1>10, <1>5, <1>6, <1>7, <1>8, <1>9 DEF Protocol, n, r
-----------------------------------------------------------------------------

(* sourceentries of a page counts the copies out of it (C are the threads  *)
(* that copy), the threads that will release it and, within a critical     *)
(* section, two pages r and k that are still to be released or given to a  *)
(* compaction.                                                             *)
CopiedFrom(C, O, p) == {t \in C : page_of(O[t].src) = p}
ReleasedBy(O, p) == {t \in Thread : O[t] # Null /\ O[t].releases = p}
Pending(r, p) == IF r = p THEN 1 ELSE 0
SlotsCounted(e, C, O, r, k) ==
  \A p \in Page : e[p] = Cardinality(CopiedFrom(C, O, p)) + Cardinality(ReleasedBy(O, p))
                         + Pending(r, p) + Pending(k, p)

LEMMA SlotsFinite ==
  ASSUME NEW C \in SUBSET Thread, NEW O, NEW p
  PROVE  /\ IsFiniteSet(CopiedFrom(C, O, p)) /\ Cardinality(CopiedFrom(C, O, p)) \in Nat
         /\ IsFiniteSet(ReleasedBy(O, p)) /\ Cardinality(ReleasedBy(O, p)) \in Nat
<1>1. CopiedFrom(C, O, p) \subseteq Thread /\ ReleasedBy(O, p) \subseteq Thread
  BY DEF CopiedFrom, ReleasedBy
<1>2. IsFiniteSet(CopiedFrom(C, O, p)) /\ IsFiniteSet(ReleasedBy(O, p))
  BY <1>1, ThreadAssumption, FS_Subset
<1> QED
  BY <1>2, FS_CardinalityType

LEMMA PendingCounted ==
  ASSUME NEW e, NEW C \in SUBSET Thread, NEW O, NEW r, NEW k, SlotsCounted(e, C, O, r, k)
  PROVE  /\ r \in Page => e[r] > 0
         /\ k \in Page => e[k] > 0
         /\ \A t \in C : page_of(O[t].src) \in Page => e[page_of(O[t].src)] > 0
<1>1. ASSUME NEW p \in Page
      PROVE  /\ Pending(r, p) \in {0, 1} /\ Pending(k, p) \in {0, 1}
             /\ e[p] = Cardinality(CopiedFrom(C, O, p)) + Cardinality(ReleasedBy(O, p))
                       + Pending(r, p) + Pending(k, p)
             /\ Cardinality(CopiedFrom(C, O, p)) \in Nat /\ Cardinality(ReleasedBy(O, p)) \in Nat
  BY SlotsFinite DEF SlotsCounted, Pending
<1>2. ASSUME r \in Page PROVE e[r] > 0
  <2>1. Pending(r, r) = 1
    BY DEF Pending
  <2> QED
    BY <1>1, <1>2, <2>1
<1>3. ASSUME k \in Page PROVE e[k] > 0
  <2>1. Pending(k, k) = 1
    BY DEF Pending
  <2> QED
    BY <1>1, <1>3, <2>1
<1>4. ASSUME NEW t \in C, page_of(O[t].src) \in Page PROVE e[page_of(O[t].src)] > 0
  <2> DEFINE p == page_of(O[t].src)
  <2>1. t \in CopiedFrom(C, O, p)
    BY DEF CopiedFrom
  <2>2. Cardinality(CopiedFrom(C, O, p)) # 0
    BY <2>1, SlotsFinite, FS_EmptySet
  <2> HIDE DEF p
  <2> QED
    BY <1>1, <1>4, <2>2 DEF p
<1> QED
  BY <1>2, <1>3, <1>4

(* Thread x counts for page r.                                             *)
LEMMA CountedOnce ==
  ASSUME NEW S, IsFiniteSet(S), NEW x, NEW r, NEW p, x \in S <=> r = p
  PROVE  Cardinality(S) = Cardinality(S \ {x}) + Pending(r, p)
<1>1. Cardinality(S) \in Nat
  BY FS_CardinalityType
<1>2. CASE x \in S
  <2>1. Cardinality(S \ {x}) = Cardinality(S) - 1
    BY <1>2, FS_RemoveElement, Zenon
  <2>2. Pending(r, p) = 1
    BY <1>2 DEF Pending
  <2> QED
    BY <1>1, <2>1, <2>2
<1>3. CASE x \notin S
  <2>1. Cardinality(S \ {x}) = Cardinality(S)
    BY <1>3, FS_RemoveElement, Zenon
  <2>2. Pending(r, p) = 0
    BY <1>3 DEF Pending
  <2> QED
    BY <1>1, <2>1, <2>2
<1> QED
  BY <1>2, <1>3

(* Thread t joins, with compaction j, the threads that copy; or leaves     *)
(* them, when P and O change places.                                       *)
LEMMA JoinedSets ==
  ASSUME NEW C \in SUBSET Thread, NEW O, NEW t \in Thread, t \notin C, O[t] = Null,
         NEW P, P[t] # Null, \A y \in Thread : y # t => P[y] = O[y], NEW p
  PROVE  /\ Cardinality(CopiedFrom(C \cup {t}, P, p))
            = Cardinality(CopiedFrom(C, O, p)) + Pending(page_of(P[t].src), p)
         /\ Cardinality(ReleasedBy(P, p))
            = Cardinality(ReleasedBy(O, p)) + Pending(P[t].releases, p)
<1>1. /\ CopiedFrom(C, P, p) = CopiedFrom(C, O, p)
      /\ CopiedFrom(C, O, p) = CopiedFrom(C \cup {t}, P, p) \ {t}
      /\ t \in CopiedFrom(C \cup {t}, P, p) <=> page_of(P[t].src) = p
  BY DEF CopiedFrom
<1>2. /\ ReleasedBy(O, p) = ReleasedBy(P, p) \ {t}
      /\ t \in ReleasedBy(P, p) <=> P[t].releases = p
  BY DEF ReleasedBy
<1>3. IsFiniteSet(CopiedFrom(C \cup {t}, P, p)) /\ IsFiniteSet(ReleasedBy(P, p))
  <2>1. C \cup {t} \in SUBSET Thread
    OBVIOUS
  <2> QED
    BY <2>1, SlotsFinite
<1> DEFINE S == CopiedFrom(C \cup {t}, P, p)
<1>4. Cardinality(S) = Cardinality(S \ {t}) + Pending(page_of(P[t].src), p)
  <2>1. t \in S <=> page_of(P[t].src) = p
    BY <1>1
  <2>2. IsFiniteSet(S)
    BY <1>3
  <2> HIDE DEF S
  <2> QED
    BY <2>1, <2>2, CountedOnce
<1>5. Cardinality(ReleasedBy(P, p))
      = Cardinality(ReleasedBy(P, p) \ {t}) + Pending(P[t].releases, p)
  <2>1. t \in ReleasedBy(P, p) <=> P[t].releases = p
    BY <1>2
  <2> QED
    BY <1>3, <2>1, CountedOnce
<1> QED
  BY <1>1, <1>2, <1>4, <1>5, Zenon

(* The entries of a page while r and k are pending.                        *)
LEMMA Slots ==
  ASSUME NEW e, NEW C \in SUBSET Thread, NEW O, NEW r, NEW k, NEW p \in Page
  PROVE  /\ Cardinality(CopiedFrom(C, O, p)) \in Nat /\ Cardinality(ReleasedBy(O, p)) \in Nat
         /\ Pending(Null, p) = 0 /\ Pending(r, p) \in Nat
         /\ SlotsCounted(e, C, O, r, k) =>
              e[p] = Cardinality(CopiedFrom(C, O, p)) + Cardinality(ReleasedBy(O, p))
                     + Pending(r, p) + Pending(k, p)
<1>1. Null # p
  BY NullAssumption
<1> QED
  BY <1>1, SlotsFinite, Zenon DEF Pending, SlotsCounted

(* Thread u stops to copy; its entry is pending.                           *)
LEMMA SlotLeft ==
  ASSUME NEW e, NEW C \in SUBSET Thread, NEW O, SlotsCounted(e, C, O, Null, Null), NEW u \in C
  PROVE  SlotsCounted(e, C \ {u}, O, page_of(O[u].src), Null)
<1> SUFFICES ASSUME NEW p \in Page
             PROVE  e[p] = Cardinality(CopiedFrom(C \ {u}, O, p)) + Cardinality(ReleasedBy(O, p))
                           + Pending(page_of(O[u].src), p) + Pending(Null, p)
  BY Zenon DEF SlotsCounted
<1>1. CopiedFrom(C \ {u}, O, p) = CopiedFrom(C, O, p) \ {u}
  BY DEF CopiedFrom
<1>2. u \in CopiedFrom(C, O, p) <=> page_of(O[u].src) = p
  BY DEF CopiedFrom
<1>3. Cardinality(CopiedFrom(C, O, p))
      = Cardinality(CopiedFrom(C, O, p) \ {u}) + Pending(page_of(O[u].src), p)
  <2>1. IsFiniteSet(CopiedFrom(C, O, p))
    BY SlotsFinite
  <2> QED
    BY <1>2, <2>1, CountedOnce
<1>4. Cardinality(CopiedFrom(C \ {u}, O, p)) \in Nat /\ Pending(page_of(O[u].src), p) \in Nat
  <2>1. C \ {u} \in SUBSET Thread
    OBVIOUS
  <2> QED
    BY <2>1, Slots
<1>6. Cardinality(CopiedFrom(C \ {u}, O, p)) = Cardinality(CopiedFrom(C, O, p) \ {u})
  BY <1>1, Zenon
<1>5. /\ e[p] = Cardinality(CopiedFrom(C, O, p)) + Cardinality(ReleasedBy(O, p))
                + Pending(Null, p) + Pending(Null, p)
      /\ Pending(Null, p) = 0 /\ Cardinality(ReleasedBy(O, p)) \in Nat
  BY Slots
<1> QED
  BY <1>3, <1>4, <1>5, <1>6

(* Thread t begins to copy; the page of its source has one more entry.     *)
LEMMA SlotJoined ==
  ASSUME NEW e \in [Page -> Int], NEW C \in SUBSET Thread, NEW O, NEW t \in Thread, t \notin C,
         O[t] = Null, NEW P, P[t] # Null, \A y \in Thread : y # t => P[y] = O[y],
         SlotsCounted(e, C, O, P[t].releases, Null)
  PROVE  SlotsCounted([e EXCEPT ![page_of(P[t].src)] = e[page_of(P[t].src)] + 1],
                      C \cup {t}, P, Null, Null)
<1> DEFINE s == page_of(P[t].src)
           d == [e EXCEPT ![s] = e[s] + 1]
<1> SUFFICES ASSUME NEW p \in Page
             PROVE  d[p] = Cardinality(CopiedFrom(C \cup {t}, P, p)) + Cardinality(ReleasedBy(P, p))
                           + Pending(Null, p) + Pending(Null, p)
  BY Zenon DEF SlotsCounted
<1>1. /\ e[p] = Cardinality(CopiedFrom(C, O, p)) + Cardinality(ReleasedBy(O, p))
                + Pending(P[t].releases, p) + Pending(Null, p)
      /\ Pending(Null, p) = 0 /\ Pending(P[t].releases, p) \in Nat
      /\ Cardinality(CopiedFrom(C, O, p)) \in Nat /\ Cardinality(ReleasedBy(O, p)) \in Nat
  BY Slots
<1> HIDE DEF d
<1>2. /\ Cardinality(CopiedFrom(C \cup {t}, P, p)) = Cardinality(CopiedFrom(C, O, p)) + Pending(s, p)
      /\ Cardinality(ReleasedBy(P, p)) = Cardinality(ReleasedBy(O, p)) + Pending(P[t].releases, p)
  <2>1. C \in SUBSET Thread /\ t \in Thread /\ t \notin C /\ O[t] = Null /\ P[t] # Null
    OBVIOUS
  <2>2. \A y \in Thread : y # t => P[y] = O[y]
    OBVIOUS
  <2> QED
    BY ONLY <2>1, <2>2, JoinedSets
<1>3. d[p] = e[p] + Pending(s, p)
  <2> HIDE DEF s
  <2>1. CASE s = p
    BY <2>1 DEF Pending, d
  <2>2. CASE s # p
    BY <2>2 DEF Pending, d
  <2> QED
    BY <2>1, <2>2
<1>4. Pending(s, p) \in Nat
  BY DEF Pending
<1> HIDE DEF s, d
<1> QED
  BY <1>1, <1>2, <1>3, <1>4

(* Thread t takes the copy of thread u over.                               *)
LEMMA SlotTakenOver ==
  ASSUME NEW e, NEW C \in SUBSET Thread, NEW O, NEW u \in C, NEW t \in Thread, t \notin C,
         O[t] = Null, NEW P, P[t] # Null, \A y \in Thread : y # t => P[y] = O[y],
         page_of(P[t].src) = page_of(O[u].src), SlotsCounted(e, C, O, P[t].releases, Null)
  PROVE  SlotsCounted(e, (C \ {u}) \cup {t}, P, Null, Null)
<1> DEFINE s == page_of(O[u].src)
           B == C \ {u}
<1>1. B \in SUBSET Thread /\ t \notin B
  OBVIOUS
<1> SUFFICES ASSUME NEW p \in Page
             PROVE  e[p] = Cardinality(CopiedFrom(B \cup {t}, P, p)) + Cardinality(ReleasedBy(P, p))
                           + Pending(Null, p) + Pending(Null, p)
  BY Zenon DEF SlotsCounted
<1>2. /\ e[p] = Cardinality(CopiedFrom(C, O, p)) + Cardinality(ReleasedBy(O, p))
                + Pending(P[t].releases, p) + Pending(Null, p)
      /\ Pending(Null, p) = 0 /\ Pending(P[t].releases, p) \in Nat
      /\ Cardinality(ReleasedBy(O, p)) \in Nat
  BY Slots
<1>3. Cardinality(CopiedFrom(C, O, p)) = Cardinality(CopiedFrom(B, O, p)) + Pending(s, p)
  <2>1. CopiedFrom(B, O, p) = CopiedFrom(C, O, p) \ {u}
    BY DEF CopiedFrom
  <2>2. u \in CopiedFrom(C, O, p) <=> s = p
    BY DEF CopiedFrom
  <2>3. IsFiniteSet(CopiedFrom(C, O, p))
    BY SlotsFinite
  <2>4. Cardinality(CopiedFrom(C, O, p)) = Cardinality(CopiedFrom(C, O, p) \ {u}) + Pending(s, p)
    BY <2>2, <2>3, CountedOnce
  <2> QED
    BY <2>1, <2>4
<1> HIDE DEF B
<1>4. /\ Cardinality(CopiedFrom(B \cup {t}, P, p)) = Cardinality(CopiedFrom(B, O, p)) + Pending(s, p)
      /\ Cardinality(ReleasedBy(P, p)) = Cardinality(ReleasedBy(O, p)) + Pending(P[t].releases, p)
  BY <1>1, JoinedSets
<1>5. Cardinality(CopiedFrom(B, O, p)) \in Nat /\ Pending(s, p) \in Nat
  BY <1>1, Slots
<1> HIDE DEF s
<1> QED
  BY <1>2, <1>3, <1>4, <1>5

(* Thread t returns: its copy, when it was not stopped, and the page it    *)
(* releases are pending.                                                   *)
LEMMA SlotReturned ==
  ASSUME NEW e, NEW C \in SUBSET Thread, NEW O, NEW t \in Thread, O[t] # Null,
         NEW P, P[t] = Null, \A y \in Thread : y # t => P[y] = O[y],
         SlotsCounted(e, C, O, Null, Null)
  PROVE  /\ t \in C => SlotsCounted(e, C \ {t}, P, page_of(O[t].src), O[t].releases)
         /\ t \notin C => SlotsCounted(e, C, P, Null, O[t].releases)
<1> DEFINE B == C \ {t}
<1>1. B \in SUBSET Thread /\ t \notin B
  OBVIOUS
<1>2. ASSUME NEW p \in Page
      PROVE  /\ e[p] = Cardinality(CopiedFrom(C, O, p)) + Cardinality(ReleasedBy(O, p))
             /\ Cardinality(CopiedFrom(B \cup {t}, O, p))
                = Cardinality(CopiedFrom(B, P, p)) + Pending(page_of(O[t].src), p)
             /\ Cardinality(ReleasedBy(O, p))
                = Cardinality(ReleasedBy(P, p)) + Pending(O[t].releases, p)
             /\ Cardinality(CopiedFrom(B, P, p)) \in Nat /\ Cardinality(ReleasedBy(P, p)) \in Nat
             /\ Pending(Null, p) = 0
             /\ Pending(page_of(O[t].src), p) \in Nat /\ Pending(O[t].releases, p) \in Nat
  <2>1. \A y \in Thread : y # t => O[y] = P[y]
    OBVIOUS
  <2> HIDE DEF B
  <2>2. /\ Cardinality(CopiedFrom(B \cup {t}, O, p))
           = Cardinality(CopiedFrom(B, P, p)) + Pending(page_of(O[t].src), p)
        /\ Cardinality(ReleasedBy(O, p))
           = Cardinality(ReleasedBy(P, p)) + Pending(O[t].releases, p)
    BY <1>1, <2>1, JoinedSets
  <2>3. Cardinality(CopiedFrom(B, P, p)) \in Nat /\ Cardinality(ReleasedBy(P, p)) \in Nat
    BY <1>1, Slots
  <2>4. /\ Cardinality(CopiedFrom(C, O, p)) \in Nat /\ Cardinality(ReleasedBy(O, p)) \in Nat
        /\ Pending(Null, p) = 0
        /\ e[p] = Cardinality(CopiedFrom(C, O, p)) + Cardinality(ReleasedBy(O, p))
                  + Pending(Null, p) + Pending(Null, p)
    BY Slots
  <2>5. Pending(page_of(O[t].src), p) \in Nat /\ Pending(O[t].releases, p) \in Nat
    BY DEF Pending
  <2> QED
    BY <2>2, <2>3, <2>4, <2>5
<1>3. CASE t \in C
  <2>1. B \cup {t} = C
    BY <1>3
  <2> HIDE DEF B
  <2>2. ASSUME NEW p \in Page
        PROVE  e[p] = Cardinality(CopiedFrom(B, P, p)) + Cardinality(ReleasedBy(P, p))
                      + Pending(page_of(O[t].src), p) + Pending(O[t].releases, p)
    <3>1. Cardinality(CopiedFrom(B \cup {t}, O, p)) = Cardinality(CopiedFrom(C, O, p))
      BY <2>1, Zenon
    <3> QED
      BY <1>2, <3>1
  <2>3. SlotsCounted(e, B, P, page_of(O[t].src), O[t].releases)
    BY <2>2, Zenon DEF SlotsCounted
  <2> QED
    BY <1>3, <2>3 DEF B
<1>4. CASE t \notin C
  <2>1. ASSUME NEW p \in Page
        PROVE  e[p] = Cardinality(CopiedFrom(C, P, p)) + Cardinality(ReleasedBy(P, p))
                      + Pending(Null, p) + Pending(O[t].releases, p)
    <3>1. Cardinality(CopiedFrom(C, P, p)) = Cardinality(CopiedFrom(C, O, p))
      <4>1. CopiedFrom(C, P, p) = CopiedFrom(C, O, p)
        BY <1>4 DEF CopiedFrom
      <4> QED
        BY <4>1, Zenon
    <3> HIDE DEF B
    <3>2. Cardinality(CopiedFrom(C, O, p)) \in Nat
      BY Slots
    <3> QED
      BY <1>2, <3>1, <3>2
  <2>2. SlotsCounted(e, C, P, Null, O[t].releases)
    BY <2>1, Zenon DEF SlotsCounted
  <2> QED
    BY <1>4, <2>2
<1> QED
  BY <1>3, <1>4

(* A pending page is released.                                             *)
LEMMA SlotReleased ==
  ASSUME NEW e \in [Page -> Int], NEW C \in SUBSET Thread, NEW O, NEW r, NEW k,
         SlotsCounted(e, C, O, r, k)
  PROVE  /\ r \in Page => SlotsCounted([e EXCEPT ![r] = e[r] - 1], C, O, Null, k)
         /\ k \in Page => SlotsCounted([e EXCEPT ![k] = e[k] - 1], C, O, r, Null)
<1>1. ASSUME NEW p \in Page, NEW s
      PROVE  [e EXCEPT ![s] = e[s] - 1][p] = e[p] - Pending(s, p)
  <2>1. CASE s = p
    BY <2>1 DEF Pending
  <2>2. CASE s # p
    BY <2>2 DEF Pending
  <2> QED
    BY <2>1, <2>2
<1>2. ASSUME NEW p \in Page
      PROVE  /\ e[p] = Cardinality(CopiedFrom(C, O, p)) + Cardinality(ReleasedBy(O, p))
                       + Pending(r, p) + Pending(k, p)
             /\ Pending(Null, p) = 0 /\ Pending(r, p) \in Nat /\ Pending(k, p) \in Nat
             /\ Cardinality(CopiedFrom(C, O, p)) \in Nat /\ Cardinality(ReleasedBy(O, p)) \in Nat
  <2>1. Pending(k, p) \in Nat
    BY DEF Pending
  <2> QED
    BY <2>1, Slots
<1>3. SlotsCounted([e EXCEPT ![r] = e[r] - 1], C, O, Null, k)
  <2>1. ASSUME NEW p \in Page
        PROVE  [e EXCEPT ![r] = e[r] - 1][p]
               = Cardinality(CopiedFrom(C, O, p)) + Cardinality(ReleasedBy(O, p))
                 + Pending(Null, p) + Pending(k, p)
    <3>1. [e EXCEPT ![r] = e[r] - 1][p] = e[p] - Pending(r, p)
      BY <1>1, Zenon
    <3> HIDE DEF Pending
    <3> QED
      BY <1>2, <3>1
  <2> QED
    BY <2>1, Zenon DEF SlotsCounted
<1>4. SlotsCounted([e EXCEPT ![k] = e[k] - 1], C, O, r, Null)
  <2>1. ASSUME NEW p \in Page
        PROVE  [e EXCEPT ![k] = e[k] - 1][p]
               = Cardinality(CopiedFrom(C, O, p)) + Cardinality(ReleasedBy(O, p))
                 + Pending(r, p) + Pending(Null, p)
    <3>1. [e EXCEPT ![k] = e[k] - 1][p] = e[p] - Pending(k, p)
      BY <1>1, Zenon
    <3> QED
      BY <1>2, <3>1
  <2> QED
    BY <2>1, Zenon DEF SlotsCounted
<1> QED
  BY <1>3, <1>4

-----------------------------------------------------------------------------
(* What holds between two critical sections of a class that is in order.   *)
Sound(h, w, m, q, L, O) ==
  /\ WellFormed(h)
  /\ SlotsCounted(h.sourceentries, CopyingIn(w, O), O, Null, Null)
  /\ Protocol(w, m, q, L, O, used_blocks(h), {}, {})

(* A compaction holds the lock for its first and its last chunk.           *)
Suspended(O) == \A t \in Thread : O[t] # Null => 1 < Increments /\ O[t].copied < Increments

(* A size-class that can run out of abstract addresses loses blocks, and   *)
(* then may use one that nobody holds; any other never stops.              *)
Safe ==
  /\ heap.ok => /\ Sound(heap, aa, mem, part, live, op)
                /\ Suspended(op)
                /\ pool = {a \in AA : aa[a] = Null}
  /\ EnoughAddresses => heap.ok

LEMMA CopyingThreads ==
  ASSUME NEW w, NEW O
  PROVE  /\ CopyingIn(w, O) \in SUBSET Thread
         /\ \A t \in Thread : O[t] = Null => t \notin CopyingIn(w, O)
BY DEF CopyingIn

(* What a critical section gives up it forgets, with all blocks of the     *)
(* pages that are in the pool.                                             *)
LEMMA Settled ==
  ASSUME NEW h, WellFormed(h), NEW w, NEW m, NEW q, NEW L, NEW O, NEW X, NEW Y,
         SlotsCounted(h.sourceentries, CopyingIn(w, O), O, Null, Null),
         Protocol(w, m, q, L, O, used_blocks(h), X, Y), X \cap used_blocks(h) = {},
         NEW G, X \subseteq G, \A b \in G : b \in X \/ (b \in Block /\ page_of(b) \in free_pages(h))
  PROVE  Protocol(w, forget(m, G), forget_part(q, G), L, O, used_blocks(h), {}, Y)
<1>1. ASSUME NEW b \in Block, page_of(b) \in free_pages(h)
      PROVE  /\ page_of(b) \in Page /\ b \notin used_blocks(h)
             /\ h.sourceentries[page_of(b)] = 0
  <2>1. page_of(b) \in Page /\ h.list_flags[page_of(b)] = "free"
    BY <1>1, BlockPair DEF free_pages
  <2>2. h.used[page_of(b)] = {} /\ h.sourceentries[page_of(b)] = 0
    BY <2>1, PageFacts
  <2> QED
    BY <2>1, <2>2 DEF used_blocks
<1>2. X \cap TargetsIn(w, O) = {} /\ \A a \in L : w[a].blk \notin X
  BY DEF Protocol, Detached
<1>3. G \cap TargetsIn(w, O) = {}
  <2>1. ASSUME NEW t \in CopyingIn(w, O) PROVE O[t].target \in used_blocks(h)
    BY CopyFacts
  <2>2. TargetsIn(w, O) \subseteq used_blocks(h)
    BY <2>1 DEF TargetsIn
  <2> QED
    BY <1>1, <1>2, <2>2
<1>4. ASSUME NEW a \in L PROVE w[a].blk \notin G
  <2>1. w[a].blk \in Block
    BY ObjectFacts
  <2>2. w[a].blk \in used_blocks(h) \/ w[a].blk \in SourcesIn(w, O)
    BY ObjectBlock
  <2>3. ASSUME page_of(w[a].blk) \in free_pages(h) PROVE FALSE
    <3>1. PICK t \in CopyingIn(w, O) : w[a].blk = O[t].src
      BY <1>1, <2>1, <2>2, <2>3 DEF SourcesIn
    <3>2. h.sourceentries[page_of(O[t].src)] > 0
      <4>1. page_of(O[t].src) \in Page
        BY <2>1, <3>1, BlockPair
      <4>2. CopyingIn(w, O) \in SUBSET Thread
        BY CopyingThreads
      <4> QED
        BY <4>1, <4>2, PendingCounted
    <3> QED
      BY <1>1, <2>1, <2>3, <3>1, <3>2
  <2> QED
    BY <1>2, <2>3
<1>5. G \cap used_blocks(h) = {}
  BY <1>1
<1> QED
  BY <1>3, <1>4, <1>5, Forgotten

(* The same when the pages go from h to g.                                 *)
LEMMA Gone ==
  ASSUME NEW X, NEW g
  PROVE  /\ X \subseteq gone(X, g)
         /\ \A b \in gone(X, g) : b \in X \/ (b \in Block /\ page_of(b) \in free_pages(g))
BY DEF gone

-----------------------------------------------------------------------------
(* A critical section keeps the class in order; do_compaction alone may    *)
(* crash, when there are not enough addresses.                             *)
SafeStep == Safe' /\ (heap'.ok \/ crash)

LEMMA SafeNext ==
  ASSUME Sound(heap', aa', mem', part', live', op'), Suspended(op'),
         pool' = {a \in AA : aa'[a] = Null}
  PROVE  SafeStep
<1>1. heap'.ok
  BY DEF Sound, WellFormed
<1> QED
  BY <1>1, Zenon DEF Safe, SafeStep

LEMMA SafeNow ==
  ASSUME Safe, heap.ok
  PROVE  /\ WellFormed(heap)
         /\ SlotsCounted(heap.sourceentries, CopyingIn(aa, op), op, Null, Null)
         /\ Protocol(aa, mem, part, live, op, used_blocks(heap), {}, {})
         /\ Suspended(op) /\ pool = {a \in AA : aa[a] = Null}
         /\ aa \in Words /\ mem \in Memory /\ part \in Partition
         /\ op \in [Thread -> Job \cup {Null}] /\ live \in SUBSET AA
<1>1. Protocol(aa, mem, part, live, op, used_blocks(heap), {}, {})
  BY Zenon DEF Safe, Sound
<1>2. Typed(aa, mem, part, live, op, used_blocks(heap))
  BY <1>1 DEF Protocol
<1> QED
  BY <1>1, <1>2, Zenon DEF Safe, Sound, Typed

LEMMA InitSafe == Init => Safe
<1> SUFFICES ASSUME Init PROVE Safe
  OBVIOUS
<1>1. WellFormed(heap)
  <2>1. heap = init_size_class
    BY Zenon DEF Init
  <2> QED
    BY <2>1, InitWellFormed
<1>2. \A t \in Thread : op[t] = Null
  BY DEF Init
<1>3. CopyingIn(aa, op) = {}
  BY <1>2 DEF CopyingIn
<1>4. SourcesIn(aa, op) = {} /\ TargetsIn(aa, op) = {}
  BY <1>3 DEF SourcesIn, TargetsIn
<1>5. SlotsCounted(heap.sourceentries, {}, op, Null, Null)
  <2>1. ASSUME NEW p \in Page
        PROVE  /\ Cardinality(CopiedFrom({}, op, p)) = 0 /\ Cardinality(ReleasedBy(op, p)) = 0
               /\ Pending(Null, p) = 0
               /\ heap.sourceentries[p] = 0
    <3>1. CopiedFrom({}, op, p) = {} /\ ReleasedBy(op, p) = {}
      BY <1>2 DEF CopiedFrom, ReleasedBy
    <3>2. Cardinality(CopiedFrom({}, op, p)) = 0 /\ Cardinality(ReleasedBy(op, p)) = 0
      BY <3>1, FS_EmptySet, Zenon
    <3>3. Null # p
      BY NullAssumption
    <3> QED
      BY <3>2, <3>3 DEF Pending, Init, init_size_class
  <2> QED
    BY <2>1 DEF SlotsCounted
<1>6. Protocol(aa, mem, part, live, op, used_blocks(heap), {}, {})
  <2>1. Typed(aa, mem, part, live, op, used_blocks(heap))
    BY DEF Init, Typed, Words, Memory, Partition, used_blocks
  <2>2. AddressesApart(aa, live, op, {}) /\ JobsWatch(aa, op)
    BY <1>2 DEF AddressesApart, JobsWatch, Init
  <2>3. ObjectsHeld(aa, mem, live) /\ ObjectsPlain(aa, part, live, op, used_blocks(heap))
    BY DEF ObjectsHeld, ObjectsPlain, Init
  <2>4. CopiesInProgress(aa, mem, part, live, op, used_blocks(heap)) /\ SourcesApart(aa, op)
    BY <1>3 DEF CopiesInProgress, SourcesApart
  <2>5. FieldsTrue(aa, mem, live, op, {})
    <3>1. ASSUME NEW b \in Block PROVE Field(mem, b) \notin AA
      BY ChunkBounds, NullAssumption DEF Init, Field, get_abstract_address_of_page_block
    <3> QED
      BY <3>1 DEF FieldsTrue
  <2>6. Detached(aa, live, op, {})
    BY DEF Detached
  <2>7. BlocksHeld(mem, used_blocks(heap))
    <3>1. used_blocks(heap) = {}
      BY BlockPair DEF used_blocks, Init, init_size_class
    <3> QED
      BY <3>1 DEF BlocksHeld
  <2> QED
    BY <2>1, <2>2, <2>3, <2>4, <2>5, <2>6, <2>7, Zenon DEF Protocol
<1>7. Suspended(op)
  BY <1>2 DEF Suspended
<1>8. pool = {a \in AA : aa[a] = Null}
  BY DEF Init
<1>9. heap.ok
  BY <1>1, Zenon DEF WellFormed
<1> QED
  BY <1>1, <1>3, <1>5, <1>6, <1>7, <1>8, <1>9, Zenon DEF Safe, Sound

(* A block from whose page nothing is copied is no source.                 *)
LEMMA NoSource ==
  ASSUME NEW e, NEW C \in SUBSET Thread, NEW O, NEW r, NEW k, SlotsCounted(e, C, O, r, k),
         NEW b, page_of(b) \in Page, e[page_of(b)] = 0
  PROVE  b \notin {O[t].src : t \in C}
<1> SUFFICES ASSUME NEW t \in C, b = O[t].src PROVE FALSE
  OBVIOUS
<1> QED
  BY PendingCounted

(* An address is free, held by the program, or kept by a thread that is in *)
(* a compaction: more are free than the other threads can keep from the    *)
(* one that allocates.                                                     *)
LEMMA AddressLeft ==
  ASSUME Safe, heap.ok, EnoughAddresses, NEW t \in Thread, op[t] = Null,
         Cardinality(live) < MaxLive
  PROVE  ~(Cardinality(pool) <= hoarded)
<1> DEFINE B == {y \in Thread : op[y] # Null}
           K == {op[y].address : y \in B}
<1>1. AA \subseteq pool \cup (live \cup K) /\ live \in SUBSET AA /\ pool \in SUBSET AA
  <2>1. AddressesApart(aa, live, op, {}) /\ live \in SUBSET AA /\ pool = {a \in AA : aa[a] = Null}
    BY SafeNow DEF Protocol
  <2> QED
    BY <2>1 DEF AddressesApart
<1>2. /\ IsFiniteSet(AA) /\ IsFiniteSet(live) /\ Cardinality(live) \in Nat /\ MaxLive \in Nat
      /\ IsFiniteSet(pool) /\ Cardinality(pool) \in Nat
  BY <1>1, FS_Subset, FS_CardinalityType DEF EnoughAddresses
<1>3. /\ IsFiniteSet(Thread) /\ Cardinality(Thread) \in Nat
      /\ IsFiniteSet(B) /\ Cardinality(B) \in Nat /\ Cardinality(B) <= Cardinality(Thread) - 1
  <2>1. IsFiniteSet(Thread \ {t}) /\ Cardinality(Thread \ {t}) = Cardinality(Thread) - 1
    BY ThreadAssumption, FS_RemoveElement
  <2>2. B \in SUBSET (Thread \ {t})
    OBVIOUS
  <2> HIDE DEF B
  <2>3. IsFiniteSet(B) /\ Cardinality(B) <= Cardinality(Thread \ {t})
    BY <2>1, <2>2, FS_Subset
  <2> QED
    BY <2>1, <2>3, ThreadAssumption, FS_CardinalityType
<1>4. IsFiniteSet(K) /\ Cardinality(K) \in Nat /\ Cardinality(K) <= Cardinality(B)
  <2> DEFINE f == [y \in B |-> op[y].address]
  <2>1. f \in Surjection(B, K)
    BY DEF Surjection
  <2> HIDE DEF f, B, K
  <2> QED
    BY <1>3, <2>1, FS_Surjection, FS_CardinalityType
<1> HIDE DEF B, K
<1>5. ASSUME NEW C, IsFiniteSet(C), NEW D, IsFiniteSet(D)
      PROVE  /\ IsFiniteSet(C \cup D) /\ Cardinality(C \cup D) \in Nat
             /\ Cardinality(C) \in Nat /\ Cardinality(D) \in Nat
             /\ Cardinality(C \cup D) <= Cardinality(C) + Cardinality(D)
  <2>1. /\ IsFiniteSet(C \cup D) /\ IsFiniteSet(C \cap D)
        /\ Cardinality(C \cup D) = Cardinality(C) + Cardinality(D) - Cardinality(C \cap D)
    BY <1>5, FS_Union, FS_Intersection
  <2>2. /\ Cardinality(C \cap D) \in Nat /\ Cardinality(C \cup D) \in Nat
        /\ Cardinality(C) \in Nat /\ Cardinality(D) \in Nat
    BY <1>5, <2>1, FS_CardinalityType
  <2> QED
    BY <2>1, <2>2
<1>6. /\ IsFiniteSet(live \cup K) /\ Cardinality(live \cup K) \in Nat
      /\ Cardinality(live \cup K) <= Cardinality(live) + Cardinality(K)
  BY <1>2, <1>4, <1>5
<1>7. /\ IsFiniteSet(pool \cup (live \cup K))
      /\ Cardinality(pool \cup (live \cup K)) \in Nat
      /\ Cardinality(pool \cup (live \cup K)) <= Cardinality(pool) + Cardinality(live \cup K)
  BY <1>2, <1>5, <1>6
<1>8. /\ Cardinality(AA) \in Nat
      /\ Cardinality(AA) <= Cardinality(pool) + Cardinality(live) + Cardinality(K)
  <2>1. Cardinality(AA) \in Nat /\ Cardinality(AA) <= Cardinality(pool \cup (live \cup K))
    BY <1>1, <1>2, <1>7, FS_Subset, FS_CardinalityType
  <2> QED
    BY <1>2, <1>4, <1>6, <1>7, <2>1
<1>9. hoarded \in Int
  BY <1>3, HoardAssumption DEF hoarded
<1>10. Cardinality(AA) >= MaxLive + (Cardinality(Thread) - 1) + hoarded
  BY DEF EnoughAddresses
<1> QED
  BY <1>2, <1>3, <1>4, <1>8, <1>9, <1>10

LEMMA MallocSafe ==
  ASSUME Safe, NEW t \in Thread, cf_malloc(t)
  PROVE  SafeStep
<1>1. heap.ok /\ op' = op
  BY Zenon DEF cf_malloc
<1>2. PICK p \in malloc_pages(heap) :
        LET open  == IF heap.nfull = <<>>
                     THEN add_page_to_nfull_list(get_free_page(heap, p), p)
                     ELSE heap
            taken == get_free_page_block(open, p)
        IN  IF ~taken.ok
            THEN crash /\ UNCHANGED live
            ELSE /\ heap' = IF is_page_full(taken, p)
                            THEN add_page_to_full_list(remove_page_from_nfull_list(taken, p), p)
                            ELSE taken
                 /\ \/ no_abstract_address
                    \/ \E a \in pool : set_abstract_address(a, <<p, free_index(open, p)>>)
  BY Zenon DEF cf_malloc
<1> DEFINE open  == IF heap.nfull = <<>>
                    THEN add_page_to_nfull_list(get_free_page(heap, p), p)
                    ELSE heap
           taken == get_free_page_block(open, p)
           g     == IF is_page_full(taken, p)
                    THEN add_page_to_full_list(remove_page_from_nfull_list(taken, p), p)
                    ELSE taken
           i     == free_index(open, p)
           b     == <<p, i>>
<1>3. /\ p \in Page /\ taken.ok /\ heap.sourceentries[p] = 0
      /\ i \in Index /\ i \notin heap.used[p]
      /\ Updated(heap, g, p, heap.used[p] \cup {i}, 0)
  BY <1>1, SafeNow, MallocPage
<1>4. heap' = g /\ (no_abstract_address \/ \E a \in pool : set_abstract_address(a, b))
  BY <1>2, <1>3, Zenon
<1> HIDE DEF open, taken, g, i
<1>5. b \in Block /\ page_of(b) = p /\ index_of(b) = i
  BY <1>3, BlockPair
<1> HIDE DEF b
<1>6. /\ WellFormed(heap')
      /\ heap'.sourceentries = heap.sourceentries
      /\ used_blocks(heap') = used_blocks(heap) \cup {b}
      /\ b \notin used_blocks(heap)
  <2>1. /\ heap'.sourceentries = [heap.sourceentries EXCEPT ![p] = heap.sourceentries[p]]
        /\ heap.sourceentries \in [Page -> Int]
        /\ WellFormed(heap') /\ used_blocks(heap') = used_blocks(heap) \cup {b}
    BY <1>1, <1>3, <1>4, <1>5, SafeNow, UsedUpdated
  <2>2. b \notin used_blocks(heap)
    BY <1>3, <1>5 DEF used_blocks
  <2>3. heap'.sourceentries = heap.sourceentries
    BY <1>3, <2>1, SameEntries, Zenon
  <2> QED
    BY <2>1, <2>2, <2>3
<1>7. b \notin SourcesIn(aa, op)
  <2>1. page_of(b) \in Page /\ heap.sourceentries[page_of(b)] = 0
    BY ONLY <1>3, <1>5
  <2>2. CopyingIn(aa, op) \in SUBSET Thread
    BY ONLY CopyingThreads
  <2>3. SlotsCounted(heap.sourceentries, CopyingIn(aa, op), op, Null, Null)
    BY <1>1, SafeNow
  <2> QED
    BY ONLY <2>1, <2>2, <2>3, NoSource DEF SourcesIn
<1>8. CASE no_abstract_address
  <2>1. UNCHANGED <<aa, mem, part, pool, live>>
    BY <1>8 DEF no_abstract_address
  <2>4. ~EnoughAddresses
    <3>1. op[t] = Null /\ Cardinality(live) < MaxLive
      BY Zenon DEF cf_malloc
    <3> QED
      BY <1>1, <1>8, <3>1, AddressLeft DEF no_abstract_address
  <2>2. Protocol(aa, mem, part, live, op, used_blocks(heap) \cup {b}, {}, {})
    BY <1>1, <1>5, <1>7, <2>4, SafeNow, Leaked
  <2>3. Sound(heap', aa', mem', part', live', op')
    BY <1>1, <1>6, <2>1, <2>2, SafeNow, Zenon DEF Sound
  <2> QED
    BY <1>1, <2>1, <2>3, SafeNow, SafeNext
<1>9. ASSUME NEW a \in pool, set_abstract_address(a, b) PROVE SafeStep
  <2>1. /\ aa'   = [aa EXCEPT ![a] = points_to(b)]
        /\ mem'  = [mem EXCEPT ![b] = [c \in Chunk |-> a]]
        /\ part' = IF Incremental THEN [part EXCEPT ![b] = Null] ELSE part
        /\ pool' = pool \ {a}
        /\ live' = live \cup {a}
    BY <1>9, Zenon DEF set_abstract_address
  <2>2. a \in AA /\ aa[a] = Null
    BY <1>1, SafeNow
  <2>3. Protocol(aa', mem', part', live', op', used_blocks(heap'), {}, {})
    <3>1. b \notin SourcesIn(aa, op) /\ b \notin used_blocks(heap)
      BY <1>6, <1>7
    <3>2. Protocol([aa EXCEPT ![a] = points_to(b)], [mem EXCEPT ![b] = [c \in Chunk |-> a]],
                   IF Incremental THEN [part EXCEPT ![b] = Null] ELSE part,
                   live \cup {a}, op, used_blocks(heap) \cup {b}, {}, {})
      BY <1>1, <1>5, <2>2, <3>1, SafeNow, Allocated
    <3> QED
      BY <1>1, <1>6, <2>1, <3>2, Zenon
  <2>4. CopyingIn(aa', op) = CopyingIn(aa, op)
    <3>1. ASSUME NEW y \in Thread, op[y] # Null PROVE aa'[op[y].target_aa] = aa[op[y].target_aa]
      <4>1. op[y].target_aa \in AA /\ aa[op[y].target_aa] \in Word
        BY <1>1, <3>1, SafeNow, JobFacts
      <4>2. op[y].target_aa # a
        BY <2>2, <4>1, NoneAssumption
      <4> QED
        BY <1>1, <2>1, <2>2, <4>1, <4>2, SafeNow DEF Words
    <3> QED
      BY <3>1, SameCopies
  <2>5. Sound(heap', aa', mem', part', live', op')
    BY <1>1, <1>6, <2>3, <2>4, SafeNow, Zenon DEF Sound
  <2>6. pool' = {d \in AA : aa'[d] = Null}
    <3>1. points_to(b) # Null
      BY <1>5, PointsTo, NoneAssumption
    <3> QED
      BY <1>1, <2>1, <2>2, <3>1, SafeNow DEF Words
  <2> QED
    BY <1>1, <2>5, <2>6, SafeNow, SafeNext
<1> QED
  BY <1>4, <1>8, <1>9

-----------------------------------------------------------------------------
(* Freeing without a compaction.                                           *)

LEMMA CopiedNow ==
  ASSUME Safe, heap.ok, NEW a \in live
  PROVE  /\ a \in AA /\ aa[a] # Null /\ aa[a] \in Word /\ aa[a].blk \in Block
         /\ being_copied(aa[a].blk) <=> aa[a].blk \in SourcesIn(aa, op)
         /\ aa[a].blk \notin SourcesIn(aa, op) => aa[a].blk \in used_blocks(heap)
         /\ aa[a].blk \in SourcesIn(aa, op) =>
              \E u \in CopyingIn(aa, op) :
                /\ op[u].src = aa[a].blk /\ op[u].src_aa = a
                /\ op[u].copied < Increments /\ 1 < Increments
                /\ part[aa[a].blk] = op[u].target
                /\ Field(mem, op[u].target) = op[u].address
                /\ aa[op[u].address] = points_to(op[u].target)
<1> DEFINE b == aa[a].blk
<1>1. a \in AA /\ aa[a] # Null /\ aa[a] \in Word /\ b \in Block
  BY SafeNow, ObjectFacts
<1>2. ASSUME b \notin SourcesIn(aa, op)
      PROVE  b \in used_blocks(heap) /\ ~being_copied(b)
  <2>1. b \in used_blocks(heap) /\ (Incremental => part[b] = Null)
    BY <1>2, SafeNow DEF Protocol, ObjectsPlain
  <2> QED
    BY <2>1 DEF being_copied
<1>3. ASSUME b \in SourcesIn(aa, op)
      PROVE  \E u \in CopyingIn(aa, op) :
               /\ op[u].src = b /\ op[u].src_aa = a
               /\ op[u].copied < Increments /\ 1 < Increments
               /\ part[b] = op[u].target
               /\ Field(mem, op[u].target) = op[u].address
               /\ aa[op[u].address] = points_to(op[u].target)
               /\ op[u].target \in Block
  <2>1. PICK u \in CopyingIn(aa, op) : b = op[u].src
    BY <1>3 DEF SourcesIn
  <2>2. /\ u \in Thread /\ op[u] # Null
        /\ InProgress(aa, mem, part, live, used_blocks(heap), op[u])
        /\ aa[op[u].address] = points_to(op[u].target)
    BY SafeNow, CopyFacts
  <2>3. op[u].copied < Increments /\ 1 < Increments
    BY <2>2, SafeNow DEF Suspended
  <2>4. a = op[u].src_aa
    BY <2>1, SafeNow, ObjectBlock
  <2>5. part[b] = op[u].target /\ Field(mem, op[u].target) = op[u].address
    <3>1. Incremental
      BY <2>3, IncrementsAssumption DEF Incremental
    <3> QED
      BY <2>1, <2>2, <2>3, <3>1 DEF InProgress
  <2>6. op[u].target \in Block
    BY <2>2, SafeNow, JobFacts
  <2> QED
    BY <2>1, <2>2, <2>3, <2>4, <2>5, <2>6
<1>4. ASSUME b \in SourcesIn(aa, op) PROVE being_copied(b)
  <2>1. Incremental /\ part[b] \in Block
    BY <1>3, <1>4, IncrementsAssumption DEF Incremental
  <2> QED
    BY <2>1, NullAssumption DEF being_copied
<1> HIDE DEF b
<1>5. being_copied(b) <=> b \in SourcesIn(aa, op)
  BY <1>2, <1>4
<1> QED
  BY <1>1, <1>2, <1>3, <1>5 DEF b

(* The freed address is cleared and what was given up is forgotten.        *)
LEMMA FreedSafe ==
  ASSUME Safe, heap.ok, NEW a \in AA, NEW v, NEW X, NEW L,
         Protocol(v, mem, part, L, op, used_blocks(heap'), X, {a}), X \cap used_blocks(heap') = {},
         WellFormed(heap'),
         SlotsCounted(heap'.sourceentries, CopyingIn(v, op), op, Null, Null),
         \A d \in AA : d # a => (v[d] = Null <=> aa[d] = Null),
         mem' = forget(mem, gone(X, heap')), part' = forget_part(part, gone(X, heap')),
         clear_abstract_address(v, a), op' = op, live' = L
  PROVE  SafeStep
<1>1. /\ Protocol(v, mem', part', L, op, used_blocks(heap'), {}, {a})
      /\ v \in Words
  <2>1. Protocol(v, forget(mem, gone(X, heap')), forget_part(part, gone(X, heap')), L, op,
                 used_blocks(heap'), {}, {a})
    BY Gone, Settled
  <2>2. Typed(v, mem, part, L, op, used_blocks(heap'))
    BY DEF Protocol
  <2> QED
    BY <2>1, <2>2, Zenon DEF Typed
<1>2. aa' = [v EXCEPT ![a] = Null] /\ pool' = pool \cup {a}
  BY DEF clear_abstract_address
<1>3. Protocol(aa', mem', part', L, op, used_blocks(heap'), {}, {})
  BY <1>1, <1>2, Cleared, Zenon
<1>4. CopyingIn(aa', op) = CopyingIn(v, op)
  <2>1. ASSUME NEW y \in Thread, op[y] # Null PROVE aa'[op[y].target_aa] = v[op[y].target_aa]
    <3>1. op[y].target_aa \in AA /\ op[y].target_aa \notin {a}
      BY <1>1, <2>1, JobFacts
    <3> QED
      BY <1>1, <1>2, <3>1 DEF Words
  <2> QED
    BY <2>1, SameCopies
<1>5. Sound(heap', aa', mem', part', live', op')
  BY <1>3, <1>4, Zenon DEF Sound
<1>6. pool' = {d \in AA : aa'[d] = Null}
  BY <1>1, <1>2, SafeNow DEF Words
<1> QED
  BY <1>5, <1>6, SafeNow, SafeNext

LEMMA FreeInPlaceSafe ==
  ASSUME Safe, heap.ok, NEW t \in Thread, NEW a \in live, free_in_place(t, a), live' = live \ {a}
  PROVE  SafeStep
<1> DEFINE b == aa[a].blk
           h == IF in_full_state(heap)                 THEN do_free_full_state(heap, page_of(b), index_of(b))
                ELSE IF valid_nfull_pages_ratio(heap, 1) THEN do_free(heap, page_of(b), index_of(b))
                ELSE do_free_nfull_state(heap, page_of(b), index_of(b))
<1>1. /\ ~being_copied(b)
      /\ in_full_state(heap) \/ valid_nfull_pages_ratio(heap, 1) \/ ~is_page_full(heap, page_of(b))
      /\ heap' = h
      /\ mem'  = forget(mem, gone({b}, heap'))
      /\ part' = forget_part(part, gone({b}, heap'))
      /\ clear_abstract_address(aa, a)
      /\ op' = op
  BY Zenon DEF free_in_place
<1>2. a \in AA /\ b \notin SourcesIn(aa, op) /\ b \in used_blocks(heap)
  <2>1. ~being_copied(b)
    BY ONLY <1>1
  <2> QED
    BY ONLY Safe, heap.ok, a \in live, <2>1, CopiedNow
<1>3. /\ WellFormed(heap')
      /\ heap'.sourceentries = heap.sourceentries
      /\ used_blocks(heap') = used_blocks(heap) \ {b}
  <2> HIDE DEF b
  <2>1. \/ in_full_state(heap) /\ heap' = do_free_full_state(heap, page_of(b), index_of(b))
        \/ heap' = do_free(heap, page_of(b), index_of(b))
        \/ ~is_page_full(heap, page_of(b))
           /\ heap' = do_free_nfull_state(heap, page_of(b), index_of(b))
    BY <1>1, Zenon
  <2> QED
    BY <1>2, <2>1, SafeNow, FreedUsedBlock
<1> HIDE DEF h
<1>4. Protocol(aa, mem, part, live \ {a}, op, used_blocks(heap) \ {b}, {b}, {a})
  <2>1. Protocol(aa, mem, part, live \ {a}, op, used_blocks(heap), {b}, {a})
    BY <1>2, SafeNow, DetachedPlain
  <2> HIDE DEF b
  <2> QED
    BY <2>1, Dropped
<1>5. Protocol(aa, mem, part, live \ {a}, op, used_blocks(heap'), {b}, {a})
  BY <1>3, <1>4, Zenon
<1>6. SlotsCounted(heap'.sourceentries, CopyingIn(aa, op), op, Null, Null)
  BY <1>3, SafeNow, Zenon
<1> HIDE DEF b
<1>7. {b} \cap used_blocks(heap') = {}
  BY <1>3
<1> QED
  BY <1>1, <1>2, <1>3, <1>5, <1>6, <1>7, FreedSafe

LEMMA FreeWhileCopiedSafe ==
  ASSUME Safe, heap.ok, NEW t \in Thread, NEW a \in live, free_while_copied(t, a),
         live' = live \ {a}
  PROVE  SafeStep
<1> DEFINE b == aa[a].blk
           p == page_of(b)
           x == part[b]
           q == page_of(x)
           i == index_of(x)
           target_aa == get_abstract_address_of_page_block(mem, x)
           full == in_full_state(heap)
           e == expect(heap, heap.list_flags[p] = "emptying", heap)
           h == IF full
                THEN release_emptying_page(do_free_full_state(e, q, i), p)
                ELSE release_source_page(
                       IF valid_nfull_pages_ratio(heap, 1) THEN do_free(heap, q, i)
                                                           ELSE do_free_nfull_state(heap, q, i), p)
           v == [aa EXCEPT ![target_aa].free = TRUE]
<1>1. /\ being_copied(b)
      /\ IF ~copy_target(x)
         THEN crash
         ELSE /\ full \/ valid_nfull_pages_ratio(heap, 1) \/ ~is_page_full(heap, q)
              /\ heap' = h
              /\ mem'  = forget(mem, gone({b, x}, heap'))
              /\ part' = forget_part(part, gone({b, x}, heap'))
              /\ clear_abstract_address(v, a)
              /\ op' = op
  BY Zenon DEF free_while_copied
<1>2. a \in AA /\ b \in Block
  BY ONLY Safe, heap.ok, a \in live, CopiedNow
<1>3. PICK u \in CopyingIn(aa, op) :
        /\ op[u].src = b /\ op[u].src_aa = a
        /\ op[u].copied < Increments /\ 1 < Increments
        /\ x = op[u].target
        /\ Field(mem, x) = op[u].address
        /\ aa[op[u].address] = points_to(x)
  <2>1. being_copied(b)
    BY ONLY <1>1
  <2> QED
    BY ONLY Safe, heap.ok, a \in live, <2>1, CopiedNow
<1>4. /\ u \in Thread /\ op[u] # Null
      /\ x \in Block /\ x \in used_blocks(heap) /\ b \notin used_blocks(heap)
      /\ op[u].address \in AA /\ aa[op[u].address] \in Word
  BY <1>3, SafeNow, CopyFacts, JobFacts
<1>5. target_aa = op[u].address
  BY <1>3 DEF Field
<1>6. copy_target(x)
  BY <1>3, <1>4, <1>5, NoneAssumption DEF copy_target
<1>7. /\ full \/ valid_nfull_pages_ratio(heap, 1) \/ ~is_page_full(heap, q)
      /\ heap' = h
      /\ mem'  = forget(mem, gone({b, x}, heap'))
      /\ part' = forget_part(part, gone({b, x}, heap'))
      /\ clear_abstract_address(v, a)
      /\ op' = op
  BY <1>1, <1>6, Zenon
<1> DEFINE e1 == heap.sourceentries
<1>8. p \in Page /\ e1[p] > 0
  BY <1>2, <1>3, BlockPair, SafeNow, PendingCounted, CopyingThreads
<1>9. /\ WellFormed(heap')
      /\ heap'.sourceentries = [e1 EXCEPT ![p] = e1[p] - 1]
      /\ used_blocks(heap') = used_blocks(heap) \ {x}
  <2> HIDE DEF b, x
  <2>1. CASE full
    <3>1. heap.list_flags[p] = "emptying"
      <4> HIDE DEF p
      <4> QED
        BY <1>8, <2>1, SafeNow, PageFacts, FullStateFlags
    <3>2. e = heap
      BY <3>1 DEF expect
    <3> DEFINE g == do_free_full_state(heap, q, i)
    <3>3. /\ WellFormed(g)
          /\ g.sourceentries = heap.sourceentries
          /\ used_blocks(g) = used_blocks(heap) \ {x}
      <4> HIDE DEF g
      <4> QED
        BY <1>4, <2>1, SafeNow, FreedUsedBlock DEF g
    <3>4. heap' = release_emptying_page(g, p)
      BY <1>7, <2>1, <3>2, Zenon
    <3> HIDE DEF g
    <3>5. g.list_flags[p] = "emptying"
      <4>1. heap.used[p] = {} /\ g.used[p] \in SUBSET Index
        BY <1>8, <3>1, <3>3, SafeNow, PageFacts
      <4>2. ASSUME NEW k \in g.used[p] PROVE FALSE
        <5>1. <<p, k>> \in Block /\ page_of(<<p, k>>) = p /\ index_of(<<p, k>>) = k
          BY <1>8, <4>1, <4>2, BlockPair
        <5>2. <<p, k>> \in used_blocks(g)
          BY <4>2, <5>1 DEF used_blocks
        <5>3. <<p, k>> \in used_blocks(heap)
          BY <3>3, <5>2
        <5> QED
          BY <4>1, <5>1, <5>3 DEF used_blocks
      <4>3. g.used[p] = {} /\ g.sourceentries[p] > 0
        BY <1>8, <3>3, <4>2
      <4> HIDE DEF p
      <4> QED
        BY <1>8, <3>3, <4>3, PageFacts
    <3> QED
      BY <1>2, <1>8, <3>3, <3>4, <3>5, ReleasedPage
  <2>2. CASE ~full
    <3> DEFINE g == IF valid_nfull_pages_ratio(heap, 1) THEN do_free(heap, q, i)
                                                        ELSE do_free_nfull_state(heap, q, i)
    <3>1. /\ WellFormed(g)
          /\ g.sourceentries = heap.sourceentries
          /\ used_blocks(g) = used_blocks(heap) \ {x}
      <4>1. \/ g = do_free(heap, q, i)
            \/ ~is_page_full(heap, q) /\ g = do_free_nfull_state(heap, q, i)
        BY <1>7, <2>2, Zenon
      <4> HIDE DEF g
      <4> QED
        BY <1>4, <4>1, SafeNow, FreedUsedBlock
    <3>2. heap' = release_source_page(g, p)
      BY <1>7, <2>2, Zenon
    <3>3. g.sourceentries[p] > 0 /\ g.sourceentries = e1
      BY ONLY <1>8, <3>1
    <3> HIDE DEF g, e1, b
    <3>4. /\ WellFormed(heap')
          /\ heap'.sourceentries = [g.sourceentries EXCEPT ![p] = g.sourceentries[p] - 1]
          /\ used_blocks(heap') = used_blocks(g)
      BY ONLY <1>2, <3>1, <3>2, <3>3, ReleasedPage, Zenon
    <3> QED
      BY ONLY <3>1, <3>3, <3>4
  <2> QED
    BY <2>1, <2>2
<1> HIDE DEF h
<1>10. Protocol(v, mem, part, live \ {a}, op, used_blocks(heap'), {b, x}, {a})
  <2>1. Protocol([aa EXCEPT ![op[u].address].free = TRUE], mem, part, live \ {op[u].src_aa}, op,
                 used_blocks(heap), {op[u].src, op[u].target}, {op[u].src_aa})
    BY <1>3, SafeNow, DetachedCopied
  <2>2. Protocol(v, mem, part, live \ {a}, op, used_blocks(heap), {b, x}, {a})
    <3> HIDE DEF b, x
    <3> QED
      BY <1>3, <1>5, <2>1, Zenon
  <2>3. Protocol(v, mem, part, live \ {a}, op, used_blocks(heap) \ {x}, {b, x}, {a})
    <3> HIDE DEF b, x, v
    <3>1. {x} \subseteq {b, x}
      OBVIOUS
    <3> QED
      BY <2>2, <3>1, Dropped
  <2> QED
    BY <1>9, <2>3, Zenon
<1>11. /\ v[op[u].address] # points_to(op[u].target)
       /\ \A d \in AA : d # op[u].address => v[d] = aa[d]
       /\ \A d \in AA : v[d] = Null <=> aa[d] = Null
  <2>1. aa \in Words
    BY SafeNow
  <2>2. /\ [aa[op[u].address] EXCEPT !.free = TRUE].free = TRUE
        /\ [aa[op[u].address] EXCEPT !.free = TRUE] \in Word
    BY <1>4 DEF Word
  <2>3. /\ v[op[u].address] = [aa[op[u].address] EXCEPT !.free = TRUE]
        /\ \A d \in AA : d # op[u].address => v[d] = aa[d]
    BY <1>4, <1>5, <2>1 DEF Words
  <2> HIDE DEF v
  <2>4. v[op[u].address] # points_to(op[u].target)
    BY <2>2, <2>3 DEF points_to
  <2> QED
    BY <1>4, <2>2, <2>3, <2>4, NoneAssumption
<1>12. SlotsCounted(heap'.sourceentries, CopyingIn(v, op), op, Null, Null)
  <2>1. CopyingIn(v, op) = CopyingIn(aa, op) \ {u}
    <3> HIDE DEF v
    <3> QED
      BY <1>3, <1>11, SafeNow, StoppedCopy
  <2>2. SlotsCounted(e1, CopyingIn(aa, op) \ {u}, op, p, Null)
    BY <1>3, SafeNow, CopyingThreads, SlotLeft
  <2>3. e1 \in [Page -> Int]
    BY SafeNow DEF WellFormed, SizeClassType
  <2>4. SlotsCounted([e1 EXCEPT ![p] = e1[p] - 1], CopyingIn(aa, op) \ {u}, op, Null, Null)
    <3>1. CopyingIn(aa, op) \ {u} \in SUBSET Thread
      BY CopyingThreads
    <3> HIDE DEF p, e1
    <3> QED
      BY <1>8, <2>2, <2>3, <3>1, SlotReleased
  <2> QED
    BY <1>9, <2>1, <2>4, Zenon
<1> HIDE DEF b, x, v
<1>13. {b, x} \cap used_blocks(heap') = {}
  BY <1>4, <1>9
<1> QED
  BY <1>2, <1>7, <1>9, <1>10, <1>11, <1>12, <1>13, FreedSafe

-----------------------------------------------------------------------------
(* The end of a compaction.                                                *)
LEMMA ReleasedEntry ==
  ASSUME NEW h, WellFormed(h), NEW p \in Page, h.sourceentries[p] > 0
  PROVE  LET g == release_source_page(h, p)
         IN  /\ WellFormed(g)
             /\ g.sourceentries = [h.sourceentries EXCEPT ![p] = h.sourceentries[p] - 1]
             /\ used_blocks(g) = used_blocks(h)
<1>1. 0 \in Index
  BY PageBlocksAssumption DEF Index
<1>2. <<p, 0>> \in Block /\ page_of(<<p, 0>>) = p
  BY <1>1, BlockPair
<1> DEFINE b == <<p, 0>>
<1> HIDE DEF b
<1>3. b \in Block /\ page_of(b) = p
  BY <1>2 DEF b
<1> QED
  BY <1>3, ReleasedPage

(* Pending pages are released; Null stands for none.                       *)
LEMMA ReleasedPending ==
  ASSUME NEW h, WellFormed(h), NEW C \in SUBSET Thread, NEW O, NEW k \in Page \cup {Null},
         SlotsCounted(h.sourceentries, C, O, Null, k)
  PROVE  LET g == IF k = Null THEN h ELSE release_source_page(h, k)
         IN  /\ WellFormed(g)
             /\ SlotsCounted(g.sourceentries, C, O, Null, Null)
             /\ used_blocks(g) = used_blocks(h)
<1>1. CASE k = Null
  BY <1>1
<1>2. CASE k # Null
  <2> DEFINE g == release_source_page(h, k)
             e == h.sourceentries
  <2>1. k \in Page /\ e \in [Page -> Int]
    BY <1>2 DEF WellFormed, SizeClassType
  <2>2. e[k] > 0
    BY <2>1, PendingCounted
  <2>3. /\ WellFormed(g)
        /\ g.sourceentries = [e EXCEPT ![k] = e[k] - 1]
        /\ used_blocks(g) = used_blocks(h)
    BY <2>1, <2>2, ReleasedEntry
  <2> HIDE DEF g, e
  <2>4. SlotsCounted([e EXCEPT ![k] = e[k] - 1], C, O, Null, Null)
    <3>1. SlotsCounted(e, C, O, Null, k)
      BY DEF e
    <3> QED
      BY <2>1, <3>1, SlotReleased
  <2>5. SlotsCounted(g.sourceentries, C, O, Null, Null)
    BY <2>3, <2>4, Zenon
  <2> QED
    BY <1>2, <2>3, <2>5 DEF g
<1> QED
  BY <1>1, <1>2

LEMMA FinishSafe ==
  ASSUME NEW t \in Thread, NEW j, NEW h, NEW w, NEW m, NEW q, NEW L, NEW O,
         WellFormed(h), SlotsCounted(h.sourceentries, CopyingIn(w, O), O, Null, Null),
         Protocol(w, m, q, L, O, used_blocks(h), {}, {}),
         t \in CopyingIn(w, O), O[t].copied = Increments,
         j.address = O[t].address, j.target = O[t].target, j.src = O[t].src,
         j.src_aa = O[t].src_aa, j.target_aa_val = O[t].target_aa_val, j.releases = O[t].releases,
         finish(t, j, h, w, m, q), live' = L, op' = [O EXCEPT ![t] = Null], Suspended(op'),
         pool = {d \in AA : w[d] = Null}
  PROVE  SafeStep
<1> DEFINE C == CopyingIn(w, O)
           P == [O EXCEPT ![t] = Null]
           p == page_of(j.src)
           released == release_source_page(h, p)
           done == IF j.releases = Null THEN released ELSE release_source_page(released, j.releases)
           G == gone({j.src}, done)
           v == [[w EXCEPT ![j.src_aa] = j.target_aa_val] EXCEPT ![j.address] = Null]
           r == clear_partition_field(q, j.target)
           e == h.sourceentries
<1>1. /\ heap' = done
      /\ mem'  = forget(m, G)
      /\ part' = forget_part(r, G)
      /\ aa' = v /\ pool' = pool \cup {j.address}
  BY Zenon DEF finish, clear_abstract_address, redirect_address
<1>2. /\ O[t] # Null /\ O[t].src \in Block /\ O[t].releases \in Page \cup {Null}
      /\ O[t].address \in AA /\ O[t].src_aa \in L /\ L \in SUBSET AA
      /\ O[t].target \in Block /\ O[t].target_aa_val = points_to(O[t].target)
      /\ O \in [Thread -> Job \cup {Null}] /\ w \in Words
  BY CopyFacts, JobFacts DEF Protocol, Typed
<1>3. p \in Page /\ e \in [Page -> Int] /\ C \in SUBSET Thread
  <2>1. p \in Page
    BY <1>2, BlockPair
  <2> QED
    BY <2>1, CopyingThreads DEF WellFormed, SizeClassType
<1>4. e[p] > 0
  BY <1>3, PendingCounted
<1>5. /\ WellFormed(released)
      /\ released.sourceentries = [e EXCEPT ![p] = e[p] - 1]
      /\ used_blocks(released) = used_blocks(h)
  BY <1>3, <1>4, ReleasedEntry
<1>6. SlotsCounted(released.sourceentries, C \ {t}, P, Null, j.releases)
  <2>1. SlotsCounted(e, C \ {t}, P, p, j.releases)
    <3>1. P[t] = Null /\ \A y \in Thread : y # t => P[y] = O[y]
      BY <1>2
    <3> HIDE DEF P
    <3>2. SlotsCounted(e, C \ {t}, P, page_of(O[t].src), O[t].releases)
      BY <1>2, <1>3, <3>1, SlotReturned
    <3> QED
      BY <3>2, Zenon
  <2>2. C \ {t} \in SUBSET Thread
    BY <1>3
  <2> HIDE DEF C, P, p, e, released
  <2>3. SlotsCounted([e EXCEPT ![p] = e[p] - 1], C \ {t}, P, Null, j.releases)
    BY <1>3, <2>1, <2>2, SlotReleased
  <2> QED
    BY <1>5, <2>3, Zenon
<1>7. /\ WellFormed(done)
      /\ SlotsCounted(done.sourceentries, C \ {t}, P, Null, Null)
      /\ used_blocks(done) = used_blocks(h)
  <2>1. C \ {t} \in SUBSET Thread /\ j.releases \in Page \cup {Null}
    BY <1>2, <1>3
  <2> HIDE DEF C, P, released
  <2>2. /\ WellFormed(done)
        /\ SlotsCounted(done.sourceentries, C \ {t}, P, Null, Null)
        /\ used_blocks(done) = used_blocks(released)
    BY <1>5, <1>6, <2>1, ReleasedPending
  <2> HIDE DEF done
  <2> QED
    BY <1>5, <2>2, Zenon
<1> HIDE DEF released, done
<1>8. /\ Protocol(v, m, r, L, P, used_blocks(done), {j.src}, {})
      /\ CopyingIn(v, P) = C \ {t}
  <2>1. /\ Protocol(v, m, r, L, P, used_blocks(h), {} \cup {j.src}, {})
        /\ CopyingIn(v, P) = C \ {t}
    <3> DEFINE Z == {}
    <3>1. Protocol(w, m, q, L, O, used_blocks(h), Z, {})
      OBVIOUS
    <3> HIDE DEF Z
    <3>2. LET vv == [[w EXCEPT ![O[t].src_aa] = O[t].target_aa_val] EXCEPT ![O[t].address] = Null]
              PP == [O EXCEPT ![t] = Null]
          IN  /\ Protocol(vv, m, clear_partition_field(q, O[t].target), L, PP, used_blocks(h),
                          Z \cup {O[t].src}, {})
              /\ CopiersAre(vv, PP, CopyingIn(w, O) \ {t})
      BY <3>1, Ended, Zenon
    <3> QED
      BY <3>2, Zenon DEF Z, CopiersAre
  <2> HIDE DEF v, r, P, C
  <2>2. {} \cup {j.src} = {j.src}
    OBVIOUS
  <2> QED
    BY <1>7, <2>1, <2>2, Zenon
<1>9. Protocol(v, forget(m, G), forget_part(r, G), L, P, used_blocks(done), {}, {})
  <2>1. SlotsCounted(done.sourceentries, CopyingIn(v, P), P, Null, Null)
    <3> HIDE DEF v, P, C
    <3> QED
      BY <1>7, <1>8, Zenon
  <2>2. {j.src} \subseteq G
    BY Gone
  <2>3. \A b \in G : b \in {j.src} \/ (b \in Block /\ page_of(b) \in free_pages(done))
    BY Gone
  <2> DEFINE X == {j.src}
  <2>4. X \cap used_blocks(done) = {}
    <3>1. O[t].src \notin used_blocks(h)
      BY CopyFacts
    <3> QED
      BY <1>7, <3>1
  <2> HIDE DEF v, P, r, G, X
  <2> QED
    BY <1>7, <1>8, <2>1, <2>2, <2>3, <2>4, Settled DEF X
<1>10. Sound(heap', aa', mem', part', live', op')
  <2> HIDE DEF v, P, r, C, G
  <2>1. op' = P
    BY DEF P
  <2> QED
    BY <1>1, <1>7, <1>8, <1>9, <2>1, Zenon DEF Sound
<1>11. pool' = {d \in AA : aa'[d] = Null}
  <2>1. points_to(O[t].target) # Null
    BY <1>2, PointsTo, NoneAssumption
  <2>2. w[O[t].src_aa] # Null
    BY <1>2, ObjectFacts
  <2>3. \A d \in AA : v[d] = IF d = j.address THEN Null
                             ELSE IF d = j.src_aa THEN j.target_aa_val ELSE w[d]
    BY <1>2 DEF Words
  <2> HIDE DEF v
  <2> QED
    BY <1>1, <1>2, <2>1, <2>2, <2>3
<1> QED
  BY <1>10, <1>11, SafeNext

-----------------------------------------------------------------------------
(* A thread that gets the lock back.                                       *)
LEMMA AbortSafe ==
  ASSUME Safe, heap.ok, NEW t \in Thread, op[t] # Null, abort_compaction(t, op[t]), live' = live
  PROVE  SafeStep
<1> DEFINE j == op[t]
           C == CopyingIn(aa, op)
           P == [op EXCEPT ![t] = Null]
           v == [aa EXCEPT ![j.address] = Null]
           h == IF j.releases = Null THEN heap ELSE release_source_page(heap, j.releases)
           G == gone({}, h)
<1>1. /\ j.address \in AA /\ j.target_aa = j.address /\ j.releases \in Page \cup {Null}
      /\ aa[j.address] \in Word
  BY SafeNow, JobFacts
<1>2. aa[j.target_aa] # j.target_aa_val /\ t \notin C
  <2>1. aa[j.target_aa] # j.target_aa_val
    BY Zenon DEF abort_compaction
  <2> QED
    BY <2>1 DEF CopyingIn
<1>3. aa[j.target_aa] # Null /\ (aa[j.target_aa].compact \/ aa[j.target_aa].free)
  <2>1. aa[j.address].compact \/ aa[j.address].free
    BY <1>2, SafeNow DEF Protocol, JobsWatch
  <2> QED
    BY <1>1, <2>1, NoneAssumption
<1>4. /\ heap' = h
      /\ mem'  = forget(mem, G)
      /\ part' = forget_part(part, G)
      /\ clear_abstract_address(aa, j.target_aa)
      /\ op'   = P
  BY <1>2, <1>3, Zenon DEF abort_compaction
<1>5. aa' = v /\ pool' = pool \cup {j.address}
  BY <1>1, <1>4, Zenon DEF clear_abstract_address
<1>6. C \in SUBSET Thread
  BY CopyingThreads
<1>7. P[t] = Null /\ \A y \in Thread : y # t => P[y] = op[y]
  BY SafeNow
<1>8. SlotsCounted(heap.sourceentries, C, P, Null, j.releases)
  <2> HIDE DEF P, C
  <2> QED
    BY <1>2, <1>6, <1>7, SafeNow, SlotReturned DEF C
<1>9. /\ WellFormed(h)
      /\ SlotsCounted(h.sourceentries, C, P, Null, Null)
      /\ used_blocks(h) = used_blocks(heap)
  <2> HIDE DEF P, C
  <2> QED
    BY <1>1, <1>6, <1>8, SafeNow, ReleasedPending
<1> HIDE DEF h
<1>10. /\ Protocol(v, mem, part, live, P, used_blocks(heap), {}, {})
       /\ CopiersAre(v, P, C)
  BY <1>2, SafeNow, Returned, Zenon
<1>11. CopyingIn(v, P) = C
  BY <1>10, Zenon DEF CopiersAre
<1>12. Protocol(v, forget(mem, G), forget_part(part, G), live, P, used_blocks(h), {}, {})
  <2> HIDE DEF P, C, v
  <2>1. /\ Protocol(v, mem, part, live, P, used_blocks(h), {}, {})
        /\ SlotsCounted(h.sourceentries, CopyingIn(v, P), P, Null, Null)
    BY <1>9, <1>10, <1>11, Zenon
  <2>2. \A b \in G : b \in {} \/ (b \in Block /\ page_of(b) \in free_pages(h))
    BY Gone
  <2>3. {} \cap used_blocks(h) = {}
    OBVIOUS
  <2> HIDE DEF G
  <2> QED
    BY <1>9, <2>1, <2>2, <2>3, Settled
<1>13. Sound(heap', aa', mem', part', live', op')
  <2> HIDE DEF P, C, v, G
  <2> QED
    BY <1>4, <1>5, <1>9, <1>11, <1>12, Zenon DEF Sound
<1>14. Suspended(op')
  <2> HIDE DEF P
  <2> QED
    BY <1>4, <1>7, SafeNow DEF Suspended
<1>15. pool' = {d \in AA : aa'[d] = Null}
  BY <1>1, <1>5, SafeNow DEF Words
<1> QED
  BY <1>13, <1>14, <1>15, SafeNext

(* Jobs that differ in what they have copied count the same.               *)
LEMMA SameSlots ==
  ASSUME NEW e, NEW C \in SUBSET Thread, NEW O, NEW P, SlotsCounted(e, C, O, Null, Null),
         \A y \in Thread : /\ P[y] = Null <=> O[y] = Null
                           /\ P[y].src = O[y].src /\ P[y].releases = O[y].releases
  PROVE  SlotsCounted(e, C, P, Null, Null)
<1>1. \A p : CopiedFrom(C, P, p) = CopiedFrom(C, O, p) /\ ReleasedBy(P, p) = ReleasedBy(O, p)
  BY DEF CopiedFrom, ReleasedBy
<1> QED
  BY <1>1, Zenon DEF SlotsCounted

LEMMA CopyChunkSafe ==
  ASSUME Safe, heap.ok, NEW t \in Thread, op[t] # Null, copy_chunk(t, op[t]), live' = live
  PROVE  SafeStep
<1> DEFINE j == op[t]
           c == j.copied + 1
           m1 == [mem EXCEPT ![j.target][c] = mem[j.src][c]]
           P == [op EXCEPT ![t].copied = c]
           C == CopyingIn(aa, op)
<1>1. /\ aa[j.target_aa] = j.target_aa_val
      /\ \/ /\ c < Increments
            /\ mem'  = m1
            /\ part' = [part EXCEPT ![j.target] = j.src, ![j.src] = j.target]
            /\ op'   = P
            /\ UNCHANGED <<heap, aa, pool>>
         \/ c = Increments /\ finish(t, j, heap, aa, m1, part)
  BY Zenon DEF copy_chunk
<1>2. t \in C /\ C \in SUBSET Thread
  BY <1>1 DEF CopyingIn
<1>3. j \in Job /\ c \in Chunk /\ 1 < Increments
  <2>1. j \in Job /\ j.copied \in Chunk
    BY SafeNow, JobFacts
  <2>2. j.copied < Increments /\ 1 < Increments
    BY SafeNow DEF Suspended
  <2> QED
    BY <2>1, <2>2, IncrementsAssumption DEF Chunk
<1>4. /\ Protocol(aa, m1, part, live, P, used_blocks(heap), {}, {})
      /\ CopiersAre(aa, P, C)
  BY <1>2, <1>3, SafeNow, Chunked, Zenon
<1>5. CopyingIn(aa, P) = C
  BY <1>4, Zenon DEF CopiersAre
<1>6. /\ P[t] = [j EXCEPT !.copied = c]
      /\ \A y \in Thread : y # t => P[y] = op[y]
  BY SafeNow
<1>7. /\ [j EXCEPT !.copied = c] \in Job /\ [j EXCEPT !.copied = c].copied = c
      /\ [j EXCEPT !.copied = c].address = j.address /\ [j EXCEPT !.copied = c].target = j.target
      /\ [j EXCEPT !.copied = c].src = j.src /\ [j EXCEPT !.copied = c].src_aa = j.src_aa
      /\ [j EXCEPT !.copied = c].target_aa_val = j.target_aa_val
      /\ [j EXCEPT !.copied = c].releases = j.releases
  BY <1>3 DEF Job
<1> HIDE DEF P, c
<1>8. SlotsCounted(heap.sourceentries, CopyingIn(aa, P), P, Null, Null)
  <2>1. ASSUME NEW y \in Thread
        PROVE  /\ P[y] = Null <=> op[y] = Null
               /\ P[y].src = op[y].src /\ P[y].releases = op[y].releases
    BY <1>6, <1>7, NoneAssumption
  <2>2. SlotsCounted(heap.sourceentries, C, P, Null, Null)
    BY <1>2, <2>1, SafeNow, SameSlots
  <2> QED
    BY <1>5, <2>2, Zenon
<1>9. CASE /\ c < Increments
           /\ mem'  = m1
           /\ part' = [part EXCEPT ![j.target] = j.src, ![j.src] = j.target]
           /\ op'   = P
           /\ UNCHANGED <<heap, aa, pool>>
  <2>1. part' = part
    <3>1. /\ part \in Partition /\ j.target \in Block /\ j.src \in Block
          /\ InProgress(aa, mem, part, live, used_blocks(heap), op[t])
      BY <1>2, SafeNow, JobFacts, CopyFacts
    <3>2. part[j.target] = j.src /\ part[j.src] = j.target
      BY <1>3, <3>1, IncrementsAssumption DEF InProgress, Incremental
    <3> QED
      BY <1>9, <3>1, <3>2 DEF Partition
  <2> HIDE DEF m1
  <2>2. Sound(heap', aa', mem', part', live', op')
    BY <1>4, <1>8, <1>9, <2>1, SafeNow, Zenon DEF Sound
  <2>3. Suspended(op')
    <3>1. ASSUME NEW y \in Thread, P[y] # Null PROVE 1 < Increments /\ P[y].copied < Increments
      <4>1. CASE y = t
        BY <1>3, <1>6, <1>7, <1>9, <4>1
      <4>2. CASE y # t
        BY <1>6, <3>1, <4>2, SafeNow DEF Suspended
      <4> QED
        BY <4>1, <4>2
    <3> QED
      BY <1>9, <3>1 DEF Suspended
  <2> QED
    BY <1>9, <2>2, <2>3, SafeNow, SafeNext
<1>10. CASE c = Increments /\ finish(t, j, heap, aa, m1, part)
  <2> DEFINE Q == [P EXCEPT ![t] = Null]
  <2>1. /\ P \in [Thread -> Job \cup {Null}]
        /\ Q[t] = Null /\ \A y \in Thread : y # t => Q[y] = op[y]
    <3>1. P \in [Thread -> Job \cup {Null}]
      BY <1>4 DEF Protocol, Typed
    <3> QED
      BY <1>6, <3>1
  <2>2. op' = Q
    <3>1. op' = [op EXCEPT ![t] = Null]
      BY <1>10 DEF finish
    <3> QED
      BY <1>6, <2>1, <3>1, SafeNow
  <2>3. Suspended(op')
    <3> HIDE DEF Q
    <3> QED
      BY <2>1, <2>2, SafeNow DEF Suspended
  <2>4. /\ t \in CopyingIn(aa, P)
        /\ P[t].copied = Increments
        /\ j.address = P[t].address /\ j.target = P[t].target /\ j.src = P[t].src
        /\ j.src_aa = P[t].src_aa /\ j.target_aa_val = P[t].target_aa_val
        /\ j.releases = P[t].releases
    <3>1. t \in CopyingIn(aa, P)
      BY <1>2, <1>5, Zenon
    <3> QED
      BY <1>6, <1>7, <1>10, <3>1
  <2> HIDE DEF m1, j, C
  <2> QED
    BY <1>4, <1>8, <1>10, <2>2, <2>3, <2>4, SafeNow, FinishSafe
<1> QED
  BY <1>1, <1>9, <1>10

-----------------------------------------------------------------------------
(* do_compaction is entered with block x detached from its object or from  *)
(* a copy, at address a, and with the blocks F given up; w and m are what  *)
(* cf_free made of the words and the memory so far, and page r has lost a  *)
(* copy that is still counted.                                             *)
Compacting(t, a, x, r, w, m, F, L) ==
  /\ Protocol(w, m, part, L, op, used_blocks(heap), F \cup {x}, {a})
  /\ SlotsCounted(heap.sourceentries, CopyingIn(w, op), op, r, Null)
  /\ op[t] = Null
  /\ x \in used_blocks(heap) /\ w[a] = points_to(x) /\ Field(m, x) = a
  /\ is_page_full(heap, page_of(x))
  /\ x \notin F /\ F \cap used_blocks(heap) = {} /\ (~Incremental => F = {})
  /\ \A d \in AA : w[d] = Null <=> aa[d] = Null
  /\ heap.source # <<>> \/ heap.nfull # <<>>

(* The source block do_compaction picks, and what becomes of its page.     *)
LEMMA PickedSource ==
  ASSUME NEW h, WellFormed(h), h.source # <<>> \/ h.nfull # <<>>
  PROVE  LET chosen == get_source_page(h)
             p0     == source_page(h)
             b0     == <<p0, find_used_page_block(chosen, p0)>>
             h0     == page_clear_used_bit(chosen, p0, index_of(b0))
             e      == h.sourceentries
         IN  /\ chosen.ok /\ chosen.used[p0] # {}
             /\ b0 \in used_blocks(h) /\ page_of(b0) = p0
             /\ ~is_page_full(h, p0)
             /\ WellFormed(h0)
             /\ h0.sourceentries = [e EXCEPT ![p0] = e[p0] + 1]
             /\ used_blocks(h0) = used_blocks(h) \ {b0}
<1> DEFINE chosen == get_source_page(h)
           p0     == source_page(h)
           i0     == find_used_page_block(chosen, p0)
           b0     == <<p0, i0>>
           h0     == page_clear_used_bit(chosen, p0, index_of(b0))
           e      == h.sourceentries
<1>1. /\ p0 \in Page
      /\ chosen.ok /\ chosen.used = h.used /\ chosen.used[p0] \in SUBSET Index
      /\ chosen.used[p0] # {}
      /\ h.list_flags[p0] # "full"
      /\ \A i \in h.used[p0] :
           Updated(h, page_clear_used_bit(chosen, p0, i), p0, h.used[p0] \ {i}, e[p0] + 1)
  BY TakeSource
<1> HIDE DEF p0, chosen
<1>2. i0 \in chosen.used[p0] /\ i0 \in Index
  BY <1>1, MinOfIndexes DEF find_used_page_block
<1> HIDE DEF i0
<1>3. b0 \in Block /\ page_of(b0) = p0 /\ index_of(b0) = i0
  BY <1>1, <1>2, BlockPair
<1> HIDE DEF b0
<1>4. b0 \in used_blocks(h)
  BY <1>1, <1>2, <1>3 DEF used_blocks
<1>5. Updated(h, h0, page_of(b0), h.used[page_of(b0)] \ {index_of(b0)}, e[page_of(b0)] + 1)
  BY <1>1, <1>2, <1>3
<1> HIDE DEF h0
<1>6. /\ WellFormed(h0)
      /\ h0.sourceentries = [e EXCEPT ![p0] = e[p0] + 1]
      /\ used_blocks(h0) = used_blocks(h) \ {b0}
  BY <1>3, <1>5, UsedUpdated
<1>7. ~is_page_full(h, p0)
  BY <1>1, PageFacts
<1> QED
  BY <1>1, <1>3, <1>4, <1>6, <1>7 DEF chosen, p0, i0, b0, h0

(* The end of the critical section of an incremental compaction.           *)
LEMMA CompactingSafe ==
  ASSUME Safe, heap.ok, NEW h, NEW v, NEW m, NEW q, NEW L, NEW P, NEW X,
         WellFormed(h), SlotsCounted(h.sourceentries, CopyingIn(v, P), P, Null, Null),
         Protocol(v, m, q, L, P, used_blocks(h), X, {}), X \cap used_blocks(h) = {}, Suspended(P),
         \A d \in AA : v[d] = Null <=> aa[d] = Null,
         heap' = h, aa' = v, mem' = forget(m, gone(X, h)), part' = forget_part(q, gone(X, h)),
         pool' = pool, live' = L, op' = P
  PROVE  SafeStep
<1>1. Protocol(v, forget(m, gone(X, h)), forget_part(q, gone(X, h)), L, P, used_blocks(h), {}, {})
  BY Gone, Settled
<1>2. Sound(heap', aa', mem', part', live', op')
  BY <1>1, Zenon DEF Sound
<1>3. pool' = {d \in AA : aa'[d] = Null}
  BY SafeNow
<1> QED
  BY <1>2, <1>3, SafeNext, Zenon

(* Every suspended compaction is incremental, and no chunk but the first   *)
(* ones of its target has been written.                                    *)
LEMMA CopiesSuspended ==
  ASSUME Safe, heap.ok, NEW w, NEW m, NEW L, NEW U, NEW X, NEW Y,
         Protocol(w, m, part, L, op, U, X, Y), NEW u \in CopyingIn(w, op)
  PROVE  /\ Incremental /\ 1 < Increments /\ op[u].copied < Increments
         /\ part[op[u].target] = op[u].src /\ op[u].src \in Block
         /\ Field(m, op[u].target) = op[u].address /\ op[u].address \in AA
<1>1. u \in Thread /\ op[u] # Null /\ InProgress(w, m, part, L, U, op[u])
  BY CopyFacts
<1>2. 1 < Increments /\ op[u].copied < Increments
  BY <1>1, SafeNow DEF Suspended
<1>3. Incremental
  BY <1>2, IncrementsAssumption DEF Incremental
<1>4. op[u].src \in Block /\ op[u].address \in AA
  <2>1. u \in Thread /\ op[u] # Null
    BY ONLY <1>1
  <2> QED
    BY ONLY <2>1, Protocol(w, m, part, L, op, U, X, Y), JobFacts
<1> QED
  BY <1>1, <1>2, <1>3, <1>4 DEF InProgress

(* The step in which do_compaction takes over the copy of u, and the       *)
(* addresses v and the compactions P after it.                             *)
TakesOver(t, a, x, r, u, s, b0, w, m, F, L, h1, v, P) ==
  /\ v = [w EXCEPT ![op[u].address].compact = TRUE]
  /\ P = [op EXCEPT ![t] = Begun(a, x, s, Field(m, s), r)]
  /\ heap' = h1 /\ aa' = v
  /\ mem' = forget([m EXCEPT ![x][1] = m[s][1]], gone(F \cup {b0}, h1))
  /\ part' = forget_part(Partnered(part, x, s), gone(F \cup {b0}, h1))
  /\ pool' = pool /\ live' = L /\ op' = P

(* do_compaction takes the source of another copy over. *)
LEMMA TakeOverSafe ==
  ASSUME Safe, heap.ok, NEW t \in Thread, NEW a \in AA, NEW x \in Block,
         NEW r \in Page \cup {Null}, NEW w, NEW m, NEW F, NEW L,
         Compacting(t, a, x, r, w, m, F, L),
         NEW u \in CopyingIn(w, op), NEW b0 \in used_blocks(heap), b0 = op[u].target,
         NEW h1, WellFormed(h1), h1.sourceentries = heap.sourceentries,
         used_blocks(h1) = used_blocks(heap) \ {b0},
         NEW s, s = op[u].src, NEW v, NEW P, TakesOver(t, a, x, r, u, s, b0, w, m, F, L, h1, v, P)
  PROVE  SafeStep
<1> USE DEF TakesOver
<1> DEFINE C == CopyingIn(w, op)
           U == used_blocks(heap)
           n == [m EXCEPT ![x][1] = m[s][1]]
           q == Partnered(part, x, s)
<1>1. /\ Protocol(w, m, part, L, op, U, F \cup {x}, {a})
      /\ SlotsCounted(heap.sourceentries, C, op, r, Null)
      /\ op[t] = Null
      /\ x \in U /\ w[a] = points_to(x) /\ Field(m, x) = a /\ x \notin F
      /\ \A d \in AA : w[d] = Null <=> aa[d] = Null
  BY DEF Compacting
<1>2. 1 < Increments /\ op[u].copied < Increments
  BY <1>1, CopiesSuspended
<1>3. /\ Protocol(v, n, q, L, P, U \ {b0}, ((F \cup {x}) \ {x}) \cup {b0}, {})
      /\ CopiersAre(v, P, (C \ {u}) \cup {t})
  <2> DEFINE X == F \cup {x}
  <2>1. x \in X /\ Protocol(w, m, part, L, op, U, X, {a})
    BY <1>1
  <2> HIDE DEF X
  <2>2. LET ss == op[u].src
            vv == [w EXCEPT ![op[u].address].compact = TRUE]
            PP == [op EXCEPT ![t] = Begun(a, x, ss, Field(m, ss), r)]
        IN  ProtocolBegun(vv, [m EXCEPT ![x][1] = m[ss][1]], Partnered(part, x, ss), L, PP,
                          U \ {op[u].target}, (X \ {x}) \cup {op[u].target},
                          (CopyingIn(w, op) \ {u}) \cup {t})
    BY ONLY <1>1, <1>2, <2>1, a \in AA, t \in Thread, x \in Block, u \in CopyingIn(w, op),
            r \in Page \cup {Null}, TakenOver, Zenon
  <2> QED
    BY <2>2, Zenon DEF X, ProtocolBegun
<1>4. Protocol(v, n, q, L, P, used_blocks(h1), F \cup {b0}, {})
  <2>1. ((F \cup {x}) \ {x}) \cup {b0} = F \cup {b0}
    BY <1>1
  <2> HIDE DEF n, q
  <2> QED
    BY <1>3, <2>1, Zenon
<1>5. CopyingIn(v, P) = (C \ {u}) \cup {t}
  BY <1>3, Zenon DEF CopiersAre
<1>6. /\ P[t] = Begun(a, x, s, Field(m, s), r)
      /\ \A y \in Thread : y # t => P[y] = op[y]
      /\ P \in [Thread -> Job \cup {Null}]
  <2>1. P \in [Thread -> Job \cup {Null}]
    BY <1>3 DEF Protocol, Typed
  <2>2. op \in [Thread -> Job \cup {Null}]
    BY ONLY Safe, heap.ok, SafeNow
  <2>3. P = [op EXCEPT ![t] = Begun(a, x, s, Field(m, s), r)]
    OBVIOUS
  <2> QED
    BY ONLY <2>1, <2>2, <2>3, t \in Thread
<1>7. /\ P[t] # Null /\ P[t].src = s /\ P[t].releases = r /\ P[t].copied = 1
  <2>1. t \in CopyingIn(v, P)
    BY <1>5
  <2>2. P[t] # Null
    BY <2>1 DEF CopyingIn
  <2> QED
    BY <1>6, <2>2 DEF Begun
<1>8. SlotsCounted(heap.sourceentries, (C \ {u}) \cup {t}, P, Null, Null)
  <2>1. C \in SUBSET Thread /\ t \notin C
    BY <1>1, CopyingThreads
  <2> HIDE DEF C
  <2>2. u \in C /\ page_of(P[t].src) = page_of(op[u].src)
        /\ SlotsCounted(heap.sourceentries, C, op, P[t].releases, Null)
    BY <1>1, <1>7, Zenon DEF C
  <2> QED
    BY <1>1, <1>6, <1>7, <2>1, <2>2, SlotTakenOver
<1>9. SlotsCounted(h1.sourceentries, CopyingIn(v, P), P, Null, Null)
  <2> HIDE DEF C
  <2> QED
    BY <1>5, <1>8, Zenon
<1>10. Suspended(P)
  BY <1>1, <1>2, <1>6, <1>7, SafeNow DEF Suspended
<1>11. \A d \in AA : v[d] = Null <=> aa[d] = Null
  <2>1. w \in Words /\ op[u].address \in AA /\ w[op[u].address] \in Word
    <3>1. u \in Thread /\ op[u] # Null
      BY DEF CopyingIn
    <3>2. op[u].address \in AA /\ w[op[u].address] \in Word
      BY <1>1, <3>1, JobFacts
    <3> QED
      BY <1>1, <3>2 DEF Protocol, Typed
  <2>2. [w[op[u].address] EXCEPT !.compact = TRUE] \in Word
    BY <2>1 DEF Word
  <2> DEFINE o == [w[op[u].address] EXCEPT !.compact = TRUE]
  <2>3. \A d \in AA : v[d] = IF d = op[u].address THEN o ELSE w[d]
    BY <2>1 DEF Words
  <2>4. o # Null /\ w[op[u].address] # Null
    BY ONLY <2>1, <2>2, NoneAssumption
  <2>5. \A d \in AA : w[d] = Null <=> aa[d] = Null
    BY <1>1
  <2> HIDE DEF o
  <2> QED
    BY ONLY <2>3, <2>4, <2>5
<1> HIDE DEF n, q
<1>12. mem' = forget(n, gone(F \cup {b0}, h1)) /\ part' = forget_part(q, gone(F \cup {b0}, h1))
  BY DEF n, q
<1> DEFINE X == F \cup {b0}
<1>13. X \cap used_blocks(h1) = {}
  BY DEF Compacting
<1>14. mem' = forget(n, gone(X, h1)) /\ part' = forget_part(q, gone(X, h1))
  BY ONLY <1>12
<1>15. Protocol(v, n, q, L, P, used_blocks(h1), X, {})
  BY ONLY <1>4
<1>16. heap' = h1 /\ aa' = v /\ pool' = pool /\ live' = L /\ op' = P
  OBVIOUS
<1> HIDE DEF X, q, n
<1> QED
  BY ONLY <1>9, <1>10, <1>11, <1>13, <1>14, <1>15, <1>16, Safe, heap.ok, WellFormed(h1),
          CompactingSafe, Zenon

(* The words, compactions, memory and partition fields once do_compaction  *)
(* has begun to copy block s.                                              *)
CopyBegun(t, a, x, r, s, w, m, v, n, q, P) ==
  /\ v = [w EXCEPT ![Field(m, s)].compact = TRUE]
  /\ n = [m EXCEPT ![x][1] = m[s][1]]
  /\ q = Partnered(part, x, s)
  /\ P = [op EXCEPT ![t] = Begun(a, x, s, Field(m, s), r)]

(* The size-class once do_compaction has taken the used bit of block s.    *)
HeapBegun(s, h) ==
  /\ WellFormed(h)
  /\ used_blocks(h) = used_blocks(heap) \ {s}
  /\ h.sourceentries
     = [heap.sourceentries EXCEPT ![page_of(s)] = heap.sourceentries[page_of(s)] + 1]

(* The size-class once do_compaction has given up block s, the target of   *)
(* another copy.                                                           *)
HeapGivenUp(s, h) ==
  /\ WellFormed(h)
  /\ used_blocks(h) = used_blocks(heap) \ {s}
  /\ h.sourceentries = heap.sourceentries

(* The block do_compaction picked is the target of another copy: the page  *)
(* is released at once, and the source of that copy has one copy still.    *)
LEMMA RedirectedHeap ==
  ASSUME WellFormed(heap), NEW b0 \in Block, NEW h0, HeapBegun(b0, h0),
         NEW b \in Block, heap.sourceentries[page_of(b)] > 0,
         NEW r, r = release_source_page(h0, page_of(b0))
  PROVE  /\ HeapGivenUp(b0, r)
         /\ r.ok /\ r.sourceentries[page_of(b)] > 0
         /\ r.list_flags[page_of(b)] = "source" \/ r.list_flags[page_of(b)] = "emptying"
<1> USE DEF HeapBegun
<1> DEFINE e == heap.sourceentries
           p == page_of(b0)
<1>1. p \in Page /\ page_of(b) \in Page /\ e \in [Page -> Int]
  <2>1. e \in [Page -> Int]
    BY DEF WellFormed, SizeClassType
  <2> QED
    BY <2>1, BlockPair
<1>2. e[p] \in Nat
  BY <1>1, PageFacts
<1>3. h0.sourceentries[p] = e[p] + 1
  BY <1>1
<1>4. /\ WellFormed(r)
      /\ r.sourceentries = [h0.sourceentries EXCEPT ![p] = h0.sourceentries[p] - 1]
      /\ used_blocks(r) = used_blocks(h0)
  <2>1. h0.sourceentries[p] > 0
    BY <1>2, <1>3
  <2> HIDE DEF p
  <2> QED
    BY <1>1, <2>1, ReleasedEntry DEF p
<1>5. r.sourceentries = e
  <2> HIDE DEF p
  <2>1. r.sourceentries = [[e EXCEPT ![p] = e[p] + 1] EXCEPT ![p] = e[p]]
    <3>1. h0.sourceentries = [e EXCEPT ![p] = e[p] + 1]
      BY DEF p
    <3>2. h0.sourceentries[p] - 1 = e[p]
      BY <1>2, <1>3
    <3> QED
      BY <1>4, <3>1, <3>2, Zenon
  <2> QED
    BY <1>1, <2>1
<1>6. r.ok /\ r.sourceentries[page_of(b)] > 0 /\ r.list_flags[page_of(b)] \in {"source", "emptying"}
  BY <1>1, <1>4, <1>5, PageFacts
<1> QED
  BY <1>4, <1>5, <1>6 DEF HeapGivenUp

(* do_compaction begins to copy a block that is no target. *)
LEMMA BegunNow ==
  ASSUME Safe, heap.ok, NEW t \in Thread, NEW a \in AA, NEW x \in Block,
         NEW r \in Page \cup {Null}, NEW w, NEW m, NEW F, NEW L,
         Compacting(t, a, x, r, w, m, F, L),
         NEW s \in used_blocks(heap), s # x, ~being_copied(s), Field(m, s) \in AA,
         NEW h1, HeapBegun(s, h1),
         NEW v, NEW n, NEW q, NEW P, CopyBegun(t, a, x, r, s, w, m, v, n, q, P)
  PROVE  /\ Protocol(v, n, q, L, P, used_blocks(h1), F, {})
         /\ SlotsCounted(h1.sourceentries, CopyingIn(v, P), P, Null, Null)
         /\ \A d \in AA : v[d] = Null <=> aa[d] = Null
         /\ P[t] = Begun(a, x, s, Field(m, s), r)
         /\ \A y \in Thread : y # t => P[y] = op[y]
         /\ t \in CopyingIn(v, P)
<1> DEFINE C == CopyingIn(w, op)
           U == used_blocks(heap)
           e == heap.sourceentries
           X == F \cup {x}
<1>1. /\ Protocol(w, m, part, L, op, U, X, {a})
      /\ SlotsCounted(e, C, op, r, Null)
      /\ op[t] = Null
      /\ x \in U /\ w[a] = points_to(x) /\ Field(m, x) = a /\ x \notin F
      /\ F \cap U = {}
      /\ \A d \in AA : w[d] = Null <=> aa[d] = Null
  BY DEF Compacting
<1> USE DEF CopyBegun, HeapBegun
<1>2. s \in Block /\ s \notin X /\ x \in X /\ X \ {x} = F
  BY <1>1 DEF used_blocks
<1>3. s \notin TargetsIn(w, op)
  <2>1. SUFFICES ASSUME NEW u \in CopyingIn(w, op), s = op[u].target PROVE FALSE
    BY DEF TargetsIn
  <2>2. Incremental /\ part[s] \in Block
    BY <1>1, <2>1, CopiesSuspended
  <2> QED
    BY <2>2, NullAssumption DEF being_copied
<1>4. ProtocolBegun(v, n, q, L, P, U \ {s}, X \ {x}, C \cup {t}) /\ w[Field(m, s)] # Null
  <2> HIDE DEF X, U
  <2>1. s \in U
    BY DEF U
  <2>2. LET sa == Field(m, s)
            vv == [w EXCEPT ![sa].compact = TRUE]
            PP == [op EXCEPT ![t] = Begun(a, x, s, sa, r)]
        IN  ProtocolBegun(vv, [m EXCEPT ![x][1] = m[s][1]], Partnered(part, x, s), L, PP,
                          U \ {s}, X \ {x}, CopyingIn(w, op) \cup {t})
    BY ONLY <1>1, <1>2, <1>3, <2>1, a \in AA, t \in Thread, x \in Block, r \in Page \cup {Null},
            Field(m, s) \in AA, BegunCopy, Zenon
  <2>3. Field(m, s) \in L /\ w[Field(m, s)] # Null
    BY <1>1, <1>2, <1>3 DEF Protocol, FieldsTrue, AddressesApart
  <2> QED
    BY <2>2, <2>3, Zenon DEF C
<1>5. Protocol(v, n, q, L, P, used_blocks(h1), F, {}) /\ CopyingIn(v, P) = C \cup {t}
  <2> HIDE DEF X, C
  <2> QED
    BY <1>2, <1>4, Zenon DEF ProtocolBegun, CopiersAre, U
<1>6. \A y \in Thread : y # t => P[y] = op[y]
  BY SafeNow
<1>7. P[t] = Begun(a, x, s, Field(m, s), r)
  BY SafeNow
<1>8. t \in CopyingIn(v, P)
  <2> HIDE DEF C
  <2> QED
    BY <1>5
<1>9. P[t] # Null /\ P[t].src = s /\ P[t].releases = r
  <2>1. P[t] # Null
    BY <1>8 DEF CopyingIn
  <2> QED
    BY <1>7, <2>1 DEF Begun
<1>10. SlotsCounted(h1.sourceentries, C \cup {t}, P, Null, Null)
  <2>1. C \in SUBSET Thread /\ t \notin C
    BY <1>1, CopyingThreads
  <2>2. e \in [Page -> Int]
    BY SafeNow DEF WellFormed, SizeClassType
  <2>3. page_of(P[t].src) = page_of(s) /\ SlotsCounted(e, C, op, P[t].releases, Null)
    <3> HIDE DEF C, e
    <3> QED
      BY <1>1, <1>9, Zenon
  <2> HIDE DEF C, e, CopyBegun, HeapBegun
  <2>4. SlotsCounted([e EXCEPT ![page_of(P[t].src)] = e[page_of(P[t].src)] + 1],
                     C \cup {t}, P, Null, Null)
    BY ONLY <1>1, <1>6, <1>9, <2>1, <2>2, <2>3, SlotJoined, t \in Thread
  <2> QED
    BY <1>9, <2>4, Zenon DEF e, HeapBegun
<1>11. SlotsCounted(h1.sourceentries, CopyingIn(v, P), P, Null, Null)
  <2> HIDE DEF C
  <2> QED
    BY <1>5, <1>10, Zenon
<1>12. \A d \in AA : v[d] = Null <=> aa[d] = Null
  <2> DEFINE sa == Field(m, s)
  <2>1. w \in Words /\ sa \in AA /\ w[sa] \in Word
    BY <1>1, <1>4 DEF Protocol, Typed, Words
  <2>2. [w[sa] EXCEPT !.compact = TRUE] \in Word
    <3> HIDE DEF sa
    <3> QED
      BY <2>1 DEF Word
  <2> DEFINE o == [w[sa] EXCEPT !.compact = TRUE]
  <2>3. \A d \in AA : v[d] = IF d = sa THEN o ELSE w[d]
    BY <2>1 DEF Words
  <2> HIDE DEF sa
  <2>4. o # Null /\ w[sa] # Null
    BY ONLY <2>1, <2>2, NoneAssumption
  <2>5. \A d \in AA : w[d] = Null <=> aa[d] = Null
    BY <1>1
  <2> HIDE DEF o
  <2> QED
    BY ONLY <2>3, <2>4, <2>5
<1> QED
  BY <1>5, <1>6, <1>7, <1>8, <1>11, <1>12

LEMMA BeginSafe ==
  ASSUME Safe, heap.ok, NEW t \in Thread, NEW a \in AA, NEW x \in Block,
         NEW r \in Page \cup {Null}, NEW w, NEW m, NEW F, NEW L,
         Compacting(t, a, x, r, w, m, F, L), 1 < Increments,
         NEW s \in used_blocks(heap), s # x, ~being_copied(s), Field(m, s) \in AA,
         NEW h1, HeapBegun(s, h1),
         NEW v, NEW n, NEW q, NEW P, CopyBegun(t, a, x, r, s, w, m, v, n, q, P),
         heap' = h1, aa' = v, mem' = forget(n, gone(F, h1)), part' = forget_part(q, gone(F, h1)),
         pool' = pool, live' = L, op' = P
  PROVE  SafeStep
<1>1. WellFormed(h1)
  BY DEF HeapBegun
<1>3. /\ Protocol(v, n, q, L, P, used_blocks(h1), F, {})
      /\ SlotsCounted(h1.sourceentries, CopyingIn(v, P), P, Null, Null)
      /\ \A d \in AA : v[d] = Null <=> aa[d] = Null
      /\ P[t] = Begun(a, x, s, Field(m, s), r)
      /\ \A y \in Thread : y # t => P[y] = op[y]
  BY BegunNow
<1>4. Suspended(P)
  <2>1. P[t].copied = 1
    BY <1>3 DEF Begun
  <2> QED
    BY <1>3, <2>1, SafeNow DEF Suspended
<1>5. F \cap used_blocks(h1) = {}
  BY DEF Compacting, HeapBegun
<1> QED
  BY <1>1, <1>3, <1>4, <1>5, CompactingSafe

(* Not incremental: the block is copied at once. *)
LEMMA CopiedAtOnceSafe ==
  ASSUME Safe, heap.ok, NEW t \in Thread, NEW a \in AA, NEW x \in Block,
         NEW r \in Page \cup {Null}, NEW w, NEW m, NEW F, NEW L,
         Compacting(t, a, x, r, w, m, F, L), ~(Increments > 1),
         NEW s \in used_blocks(heap), s # x, Field(m, s) \in AA,
         NEW h1, HeapBegun(s, h1),
         NEW v, NEW n, NEW q, NEW P, CopyBegun(t, a, x, r, s, w, m, v, n, q, P),
         NEW j, j = Begun(a, x, s, Field(m, s), r), finish(t, j, h1, v, n, part), live' = L
  PROVE  SafeStep
<1>1. WellFormed(h1)
  BY DEF HeapBegun
<1>2. op' = [op EXCEPT ![t] = Null]
  BY Zenon DEF finish
<1>3. op' = [P EXCEPT ![t] = Null]
  BY <1>2, SafeNow DEF CopyBegun
<1>4. ~Incremental /\ Increments = 1
  BY IncrementsAssumption DEF Incremental
<1>5. F = {} /\ part = q /\ ~being_copied(s)
  BY <1>4 DEF Compacting, Partnered, being_copied, CopyBegun
<1>6. /\ Protocol(v, n, q, L, P, used_blocks(h1), F, {})
      /\ SlotsCounted(h1.sourceentries, CopyingIn(v, P), P, Null, Null)
      /\ \A d \in AA : v[d] = Null <=> aa[d] = Null
      /\ P[t] = Begun(a, x, s, Field(m, s), r)
      /\ t \in CopyingIn(v, P)
  BY <1>5, BegunNow
<1>7. Protocol(v, n, part, L, P, used_blocks(h1), {}, {})
  BY <1>5, <1>6, Zenon
<1>8. P[t] = j
  BY <1>6
<1>9. P[t].copied = Increments
  BY <1>4, <1>6 DEF Begun
<1>10. Suspended(op')
  BY <1>2, SafeNow DEF Suspended
<1>11. pool = {d \in AA : v[d] = Null}
  <2>1. pool = {d \in AA : aa[d] = Null}
    BY SafeNow, Zenon
  <2> QED
    BY <1>6, <2>1
<1>12. /\ j.address = P[t].address /\ j.target = P[t].target /\ j.src = P[t].src
       /\ j.src_aa = P[t].src_aa /\ j.target_aa_val = P[t].target_aa_val
       /\ j.releases = P[t].releases
  BY <1>8, Zenon
<1> QED
  BY <1>1, <1>3, <1>6, <1>7, <1>9, <1>10, <1>11, <1>12, FinishSafe

-----------------------------------------------------------------------------
(* The block do_compaction picked, when it is no target, is that of an     *)
(* object.                                                                 *)
LEMMA PlainSource ==
  ASSUME Safe, heap.ok, NEW t \in Thread, NEW a \in AA, NEW x \in Block,
         NEW r \in Page \cup {Null}, NEW w, NEW m, NEW F, NEW L,
         Compacting(t, a, x, r, w, m, F, L),
         NEW s \in used_blocks(heap), s # x, Field(m, s) \in AA
  PROVE  \/ Field(m, s) # a /\ ~being_copied(s)
         \/ being_copied(s) /\ \E u \in CopyingIn(w, op) : op[u].target = s
<1> DEFINE U == used_blocks(heap)
           X == F \cup {x}
<1>1. Protocol(w, m, part, L, op, U, X, {a})
  BY DEF Compacting
<1>2. s \in Block /\ s \notin X /\ s \in U
  BY DEF Compacting, used_blocks
<1>3. CASE s \in TargetsIn(w, op)
  <2>1. PICK u \in CopyingIn(w, op) : s = op[u].target
    BY <1>3 DEF TargetsIn
  <2>2. Incremental /\ part[s] \in Block
    BY <1>1, <2>1, CopiesSuspended
  <2>3. being_copied(s)
    BY <2>2, NullAssumption DEF being_copied
  <2> QED
    BY <2>1, <2>3
<1>4. CASE s \notin TargetsIn(w, op)
  <2> HIDE DEF U, X
  <2>1. Field(m, s) \in L /\ w[Field(m, s)].blk = s
    BY <1>1, <1>2, <1>4 DEF Protocol, FieldsTrue
  <2>2. Field(m, s) # a
    BY <1>1, <2>1 DEF Protocol, AddressesApart
  <2>3. s \notin SourcesIn(w, op)
    <3>1. SUFFICES ASSUME NEW u \in CopyingIn(w, op), s = op[u].src PROVE FALSE
      BY DEF SourcesIn
    <3>2. op[u].src \notin U
      BY <1>1, CopyFacts
    <3> QED
      BY <1>2, <3>1, <3>2
  <2>4. Incremental => part[s] = Null
    BY <1>1, <2>1, <2>3 DEF Protocol, ObjectsPlain
  <2>5. ~being_copied(s)
    BY <2>4 DEF being_copied
  <2> QED
    BY <2>2, <2>5
<1> QED
  BY <1>3, <1>4

(* v is w with the flag of a copied object, or of a taken over copy, set.  *)
FlagSet(w, a, v) == v = [w EXCEPT ![a].compact = TRUE]

(* The object a taken over copy moves is flagged already. *)
LEMMA TakenOverWords ==
  ASSUME NEW t, NEW a \in AA, NEW x, NEW r, NEW w, NEW m, NEW F, NEW L,
         Compacting(t, a, x, r, w, m, F, L), NEW u \in CopyingIn(w, op),
         NEW v, FlagSet(w, op[u].address, v)
  PROVE  /\ Field(m, op[u].src) = op[u].src_aa
         /\ FlagSet(v, op[u].src_aa, v)
         /\ v[a] = w[a]
<1>0. Protocol(w, m, part, L, op, used_blocks(heap), F \cup {x}, {a})
  BY DEF Compacting
<1> USE DEF FlagSet
<1> DEFINE sa == op[u].src_aa
           ua == op[u].address
<1>1. /\ u \in Thread /\ op[u] # Null /\ sa \in L /\ w[sa].blk = op[u].src
      /\ w[sa] = [blk |-> op[u].src, compact |-> TRUE, free |-> FALSE]
  BY <1>0, CopyFacts DEF InProgress
<1>2. ua \in AA /\ ua \notin L /\ ua # a /\ op[u].src \in Block
  BY <1>0, <1>1, JobFacts
<1>3. sa \in AA /\ Field(m, op[u].src) = sa /\ w[sa] \in Word
  BY <1>0, <1>1, ObjectFacts
<1>4. v \in [AA -> {v[d] : d \in AA}] /\ \A d \in AA : d # ua => v[d] = w[d]
  <2>1. w \in Words
    BY <1>0 DEF Protocol, Typed
  <2> QED
    BY <2>1 DEF Words
<1>5. v[sa] = w[sa] /\ v[a] = w[a]
  <2> HIDE DEF sa, ua
  <2>1. sa # ua
    BY <1>1, <1>2
  <2> QED
    BY ONLY <1>2, <1>3, <1>4, <2>1, a \in AA
<1>6. [v[sa] EXCEPT !.compact = TRUE] = v[sa]
  <2>1. ASSUME NEW o \in Word, o.compact = TRUE PROVE [o EXCEPT !.compact = TRUE] = o
    BY ONLY <2>1 DEF Word
  <2>2. v[sa] \in Word /\ v[sa].compact = TRUE
    <3> HIDE DEF sa, ua
    <3> QED
      BY ONLY <1>1, <1>3, <1>5
  <2> QED
    BY ONLY <2>1, <2>2, Zenon
<1>7. [v EXCEPT ![sa].compact = TRUE] = v
  <2> HIDE DEF sa, ua
  <2>2. ASSUME NEW y, y = v[sa] PROVE [v EXCEPT ![sa] = y] = v
    BY ONLY <1>3, <1>4, <2>2
  <2> QED
    BY <1>6, <2>2, Zenon
<1> QED
  BY <1>1, <1>3, <1>5, <1>7, NoneAssumption

LEMMA Crashed ==
  ASSUME Safe, heap.ok, crash, ~EnoughAddresses
  PROVE  SafeStep
<1>1. heap \in SizeClassType
  BY SafeNow DEF WellFormed
<1>2. ~heap'.ok
  BY <1>1 DEF crash, SizeClassType
<1> QED
  BY <1>2 DEF Safe, SafeStep

(* A flag is set in a word: it is still one.                               *)
LEMMA FlagKeepsWord ==
  ASSUME NEW w \in Words, NEW d \in AA, w[d] # Null, NEW v, FlagSet(w, d, v), NEW e \in AA
  PROVE  v[e] = Null <=> w[e] = Null
<1>1. w[d] \in Word
  BY DEF Words
<1>2. [w[d] EXCEPT !.compact = TRUE] \in Word
  BY <1>1 DEF Word
<1>3. v[e] = IF e = d THEN [w[d] EXCEPT !.compact = TRUE] ELSE w[e]
  BY DEF FlagSet, Words
<1> QED
  BY <1>2, <1>3, NoneAssumption

(* With enough addresses do_compaction finds an address in every block and *)
(* a word at every address it follows.                                     *)
LEMMA SourceHeld ==
  ASSUME Safe, heap.ok, EnoughAddresses, NEW t \in Thread, NEW a \in AA, NEW x \in Block,
         NEW r \in Page \cup {Null}, NEW w, NEW m, NEW F, NEW L,
         Compacting(t, a, x, r, w, m, F, L),
         NEW s \in used_blocks(heap), s # x
  PROVE  /\ w \in Words
         /\ Field(m, s) \in AA /\ w[Field(m, s)] # Null
         /\ being_copied(s) =>
              part[s] \in Block /\ Field(m, part[s]) \in AA /\ w[Field(m, part[s])] # Null
         /\ Field(m, x) = a /\ w[a] # Null
<1> DEFINE U == used_blocks(heap)
           X == F \cup {x}
<1>1. Protocol(w, m, part, L, op, U, X, {a})
  BY DEF Compacting
<1>2. Field(m, s) \in AA
  BY <1>1 DEF Protocol, BlocksHeld
<1>3. w \in Words /\ Field(m, x) = a /\ w[a] # Null
  <2>1. w[a] = points_to(x) /\ Field(m, x) = a
    BY DEF Compacting
  <2>2. points_to(x) # Null
    BY PointsTo, NoneAssumption
  <2> QED
    BY <1>1, <2>1, <2>2 DEF Protocol, Typed
<1>4. CASE being_copied(s)
  <2>1. PICK u \in CopyingIn(w, op) : op[u].target = s
    BY <1>2, <1>4, PlainSource
  <2> HIDE DEF U, X
  <2>2. part[s] = op[u].src /\ op[u].src \in Block /\ Field(m, s) = op[u].address
    BY <1>1, <2>1, CopiesSuspended
  <2>3. u \in Thread /\ op[u] # Null /\ op[u].src_aa \in L /\ w[op[u].src_aa].blk = op[u].src
    BY <1>1, <2>1, CopyFacts
  <2>4. w[op[u].address] # Null
    BY <1>1, <2>3 DEF Protocol, AddressesApart
  <2>5. op[u].src_aa \in AA /\ w[op[u].src_aa] # Null /\ Field(m, op[u].src) = op[u].src_aa
    BY <1>1, <2>3, ObjectFacts
  <2> QED
    BY <1>2, <1>3, <2>2, <2>4, <2>5
<1>5. CASE ~being_copied(s)
  <2>1. s \notin TargetsIn(w, op)
    <3>1. SUFFICES ASSUME NEW u \in CopyingIn(w, op), s = op[u].target PROVE FALSE
      BY DEF TargetsIn
    <3>2. Incremental /\ part[s] \in Block
      BY <1>1, <3>1, CopiesSuspended
    <3> QED
      BY <1>5, <3>2, NullAssumption DEF being_copied
  <2>2. s \in Block /\ s \notin X
    BY DEF Compacting, used_blocks
  <2> HIDE DEF U, X
  <2>3. Field(m, s) \in L
    BY <1>1, <1>2, <2>1, <2>2 DEF Protocol, FieldsTrue
  <2>4. w[Field(m, s)] # Null
    BY <1>1, <2>3, ObjectFacts
  <2> QED
    BY <1>2, <1>3, <1>5, <2>4
<1> QED
  BY <1>4, <1>5

LEMMA CompactionSafe ==
  ASSUME Safe, heap.ok, NEW t \in Thread, NEW a \in AA, NEW x \in Block,
         NEW releases \in Page \cup {Null}, NEW words, NEW m, NEW F, NEW L,
         Compacting(t, a, x, releases, words, m, F, L),
         do_compaction(t, a, x, releases, words, m, F), live' = L
  PROVE  SafeStep
<1> DEFINE chosen == get_source_page(heap)
           p0 == source_page(heap)
           b0 == <<p0, find_used_page_block(chosen, p0)>>
           h0 == page_clear_used_bit(chosen, p0, index_of(b0))
           redirect == source_is_target(b0)
           aa0 == get_abstract_address_of_page_block(m, b0)
           b == IF redirect THEN part[b0] ELSE b0
           words0 == IF redirect THEN [words EXCEPT ![aa0].compact = TRUE] ELSE words
           r == release_source_page(h0, p0)
           s == /\ r.sourceentries[page_of(b)] > 0
                /\ r.list_flags[page_of(b)] \in {"source", "emptying"}
           h1 == IF redirect THEN expect(r, s, r) ELSE h0
           src_aa == get_abstract_address_of_page_block(m, b)
           target_aa == get_abstract_address_of_page_block(m, x)
           words1 == [words0 EXCEPT ![src_aa].compact = TRUE]
           j == [address |-> a, target |-> x, target_aa |-> target_aa,
                 target_aa_val |-> words1[target_aa], src |-> b, src_aa |-> src_aa,
                 copied |-> 1, releases |-> releases]
           m1 == [m EXCEPT ![x][1] = m[b][1]]
           q1 == [part EXCEPT ![x] = b, ![b] = x]
           G == gone(F \cup IF redirect THEN {b0} ELSE {}, h1)
           sane == /\ chosen.ok
                   /\ chosen.used[p0] # {}
                   /\ redirect => part[b0] \in Block /\ aa0 \in AA /\ words[aa0] # Null
                   /\ src_aa \in AA /\ words0[src_aa] # Null
                   /\ target_aa \in AA /\ words0[target_aa] # Null
           go == IF Incremental
                 THEN /\ heap' = h1
                      /\ aa'   = words1
                      /\ mem'  = forget(m1, G)
                      /\ part' = forget_part(q1, G)
                      /\ op'   = [op EXCEPT ![t] = j]
                      /\ UNCHANGED pool
                 ELSE finish(t, j, h1, words1, m1, part)
<1>1. IF ~sane THEN crash ELSE go
  BY Zenon DEF do_compaction
<1>2. CASE ~sane
  <2>1. crash
    <3> HIDE DEF sane, go
    <3> QED
      BY <1>1, <1>2
  <2>2. ASSUME EnoughAddresses PROVE sane
    <3>1. /\ chosen.ok /\ chosen.used[p0] # {}
          /\ b0 \in used_blocks(heap) /\ page_of(b0) = p0 /\ ~is_page_full(heap, p0)
      <4>1. WellFormed(heap) /\ (heap.source # <<>> \/ heap.nfull # <<>>)
        BY SafeNow DEF Compacting
      <4> QED
        BY <4>1, PickedSource, Zenon
    <3>2. b0 # x
      <4> HIDE DEF b0, p0
      <4> QED
        BY <3>1 DEF Compacting
    <3> HIDE DEF chosen, p0, b0
    <3>3. /\ words \in Words
          /\ Field(m, b0) \in AA /\ words[Field(m, b0)] # Null
          /\ being_copied(b0) =>
               part[b0] \in Block /\ Field(m, part[b0]) \in AA /\ words[Field(m, part[b0])] # Null
          /\ Field(m, x) = a /\ words[a] # Null
      BY <2>2, <3>1, <3>2, SourceHeld
    <3>4. /\ redirect => part[b0] \in Block /\ aa0 \in AA /\ words[aa0] # Null
          /\ src_aa \in AA /\ words[src_aa] # Null
          /\ target_aa \in AA /\ words[target_aa] # Null
      BY <3>3, Zenon DEF Field, source_is_target
    <3> HIDE DEF src_aa, target_aa, aa0
    <3>5. \A d \in AA : words0[d] = Null <=> words[d] = Null
      <4>1. CASE redirect
        <5>1. FlagSet(words, aa0, words0)
          BY <4>1, Zenon DEF FlagSet
        <5> HIDE DEF redirect, words0
        <5> QED
          BY <3>3, <3>4, <4>1, <5>1, FlagKeepsWord
      <4>2. CASE ~redirect
        BY <4>2, Zenon
      <4> QED
        BY <4>1, <4>2
    <3> HIDE DEF redirect, words0
    <3> QED
      BY <3>1, <3>4, <3>5
  <2>3. ~EnoughAddresses
    <3> HIDE DEF sane
    <3> QED
      BY <1>2, <2>2
  <2> QED
    BY <2>1, <2>3, Crashed
<1>3. CASE sane
  <2>1. go
    <3> HIDE DEF sane, go
    <3> QED
      BY <1>1, <1>3
  <2>2. /\ b0 \in used_blocks(heap) /\ page_of(b0) = p0
        /\ ~is_page_full(heap, p0)
        /\ WellFormed(h0)
        /\ h0.sourceentries = [heap.sourceentries EXCEPT ![p0] = heap.sourceentries[p0] + 1]
        /\ used_blocks(h0) = used_blocks(heap) \ {b0}
    <3>1. WellFormed(heap) /\ (heap.source # <<>> \/ heap.nfull # <<>>)
      BY SafeNow DEF Compacting
    <3> QED
      BY <3>1, PickedSource, Zenon
  <2>3. /\ redirect => part[b0] \in Block /\ aa0 \in AA /\ words[aa0] # Null
        /\ src_aa \in AA
    BY <1>3, Zenon
  <2> HIDE DEF chosen, sane
  <2>4. b0 # x
    <3> HIDE DEF b0, p0
    <3> QED
      BY <2>2 DEF Compacting
  <2>5. HeapBegun(b0, h0)
    <3> HIDE DEF b0, h0
    <3> QED
      BY <2>2, Zenon DEF HeapBegun
  <2> HIDE DEF p0, b0, h0
  <2>6. CASE ~redirect
    <3> DEFINE P == [op EXCEPT ![t] = j]
               sa == Field(m, b0)
    <3>1. b = b0 /\ words0 = words /\ h1 = h0
      BY <2>6, Zenon
    <3>2. G = gone(F, h0)
      <4>1. (F \cup IF redirect THEN {b0} ELSE {}) = F
        BY <2>6
      <4> HIDE DEF h1, redirect
      <4> QED
        BY <3>1, <4>1, Zenon
    <3>3. ~being_copied(b0)
      BY <2>6 DEF source_is_target
    <3> HIDE DEF redirect, b, words0, h1, G
    <3>4. src_aa = sa /\ sa \in AA
      BY <2>3, <3>1, Zenon DEF Field
    <3>5. words1 = [words EXCEPT ![sa].compact = TRUE] /\ m1 = [m EXCEPT ![x][1] = m[b0][1]]
      <4> HIDE DEF sa, src_aa
      <4> QED
        BY <3>1, <3>4, Zenon
    <3>6. sa # a
      <4> HIDE DEF sa
      <4>1. Field(m, b0) \in AA /\ (Field(m, b0) # a => sa # a)
        BY <3>4, Zenon DEF sa
      <4> QED
        BY <2>2, <2>4, <3>3, <4>1, PlainSource
    <3>7. target_aa = a /\ words[a] = points_to(x) /\ words \in Words
      BY DEF Compacting, Protocol, Typed, Field
    <3>8. words1[target_aa] = points_to(x)
      <4> HIDE DEF sa, words1, target_aa
      <4> QED
        BY <3>4, <3>5, <3>6, <3>7 DEF Words
    <3>9. j = Begun(a, x, b0, sa, releases)
      <4> HIDE DEF words1, src_aa, target_aa, sa
      <4> QED
        BY <3>1, <3>4, <3>7, <3>8, Zenon DEF Begun
    <3> HIDE DEF j, words1, m1, src_aa, target_aa
    <3>10. q1 = [part EXCEPT ![x] = b0, ![b0] = x]
      BY <3>1, Zenon
    <3> HIDE DEF q1
    <3>11. CASE Incremental
      <4>1. CopyBegun(t, a, x, releases, b0, words, m, words1, m1, q1, P)
        BY <3>5, <3>9, <3>10, <3>11, Zenon DEF CopyBegun, Partnered
      <4>2. /\ heap' = h0 /\ aa' = words1 /\ mem' = forget(m1, gone(F, h0))
            /\ part' = forget_part(q1, gone(F, h0)) /\ op' = P /\ pool' = pool
        BY <2>1, <3>1, <3>2, <3>11, Zenon
      <4>3. 1 < Increments
        BY <3>11, IncrementsAssumption DEF Incremental
      <4>4. Field(m, b0) \in AA
        BY <3>4, Zenon
      <4> HIDE DEF P, sa, go
      <4> QED
        BY ONLY <2>2, <2>4, <2>5, <3>3, <4>1, <4>2, <4>3, <4>4, BeginSafe, Safe, heap.ok,
                t \in Thread, a \in AA, x \in Block, releases \in Page \cup {Null},
                Compacting(t, a, x, releases, words, m, F, L), live' = L
    <3>12. CASE ~Incremental
      <4>1. CopyBegun(t, a, x, releases, b0, words, m, words1, m1, part, P)
        BY <3>5, <3>9, <3>12, Zenon DEF CopyBegun, Partnered
      <4>2. finish(t, j, h0, words1, m1, part)
        BY <2>1, <3>1, <3>12, Zenon
      <4>3. ~(Increments > 1)
        BY <3>12 DEF Incremental
      <4>4. Field(m, b0) \in AA
        BY <3>4, Zenon
      <4>5. j = Begun(a, x, b0, Field(m, b0), releases)
        BY <3>9, Zenon
      <4> HIDE DEF P, sa, go
      <4> QED
        BY ONLY <2>2, <2>4, <2>5, <4>1, <4>2, <4>3, <4>4, <4>5, CopiedAtOnceSafe, Safe, heap.ok,
                t \in Thread, a \in AA, x \in Block, releases \in Page \cup {Null},
                Compacting(t, a, x, releases, words, m, F, L), live' = L
    <3> QED
      BY <3>11, <3>12
  <2>7. CASE redirect
    <3> DEFINE P == [op EXCEPT ![t] = j]
               X == F \cup {x}
    <3>1. /\ b = part[b0] /\ words0 = [words EXCEPT ![aa0].compact = TRUE]
          /\ h1 = expect(r, s, r)
      BY <2>7, Zenon
    <3>2. G = gone(F \cup {b0}, h1)
      <4> HIDE DEF h1
      <4> QED
        BY <2>7, Zenon
    <3>3. being_copied(b0) /\ Incremental
      BY <2>7 DEF source_is_target, being_copied
    <3>4. Field(m, b0) = aa0 /\ aa0 \in AA
      BY <2>3, <2>7, Zenon DEF Field
    <3> HIDE DEF redirect, b, words0, h1, G, aa0, s, r
    <3>5. Field(m, b0) \in AA
      BY <3>4, Zenon
    <3>6. PICK u \in CopyingIn(words, op) : op[u].target = b0
      BY <2>2, <2>4, <3>3, <3>5, PlainSource
    <3>7. Protocol(words, m, part, L, op, used_blocks(heap), X, {a})
      BY DEF Compacting
    <3> HIDE DEF X
    <3>8. /\ part[b0] = op[u].src /\ op[u].src \in Block /\ Field(m, b0) = op[u].address
      BY <3>6, <3>7, CopiesSuspended
    <3>9. b = op[u].src /\ b \in Block /\ aa0 = op[u].address
      BY <3>1, <3>4, <3>8, Zenon
    <3>10. words0 = [words EXCEPT ![op[u].address].compact = TRUE]
      BY <3>1, <3>9, Zenon
    <3>11. /\ Field(m, op[u].src) = op[u].src_aa
           /\ [words0 EXCEPT ![op[u].src_aa].compact = TRUE] = words0
           /\ words0[a] = words[a]
      <4>1. FlagSet(words, op[u].address, words0)
        BY <3>10, Zenon DEF FlagSet
      <4>2. /\ Field(m, op[u].src) = op[u].src_aa
            /\ FlagSet(words0, op[u].src_aa, words0)
            /\ words0[a] = words[a]
        BY ONLY a \in AA, Compacting(t, a, x, releases, words, m, F, L), <4>1, TakenOverWords,
                u \in CopyingIn(words, op)
      <4> QED
        BY <4>2, Zenon DEF FlagSet
    <3>12. words1 = words0
      <4>1. src_aa = op[u].src_aa
        BY <3>9, <3>11, Zenon DEF Field
      <4> HIDE DEF src_aa
      <4> QED
        BY <3>11, <4>1, Zenon
    <3>13. target_aa = a /\ words1[target_aa] = points_to(x)
      <4>1. target_aa = a /\ words[a] = points_to(x)
        BY DEF Compacting, Field
      <4> HIDE DEF target_aa, words1
      <4> QED
        BY <3>11, <3>12, <4>1, Zenon
    <3>14. j = Begun(a, x, b, Field(m, b), releases)
      <4>1. src_aa = Field(m, b)
        BY Zenon DEF Field
      <4> HIDE DEF target_aa, words1, src_aa
      <4> QED
        BY <3>13, <4>1, Zenon DEF Begun
    <3> HIDE DEF j, words1, src_aa, target_aa
    <3>15. /\ h1 = r /\ WellFormed(r) /\ r.sourceentries = heap.sourceentries
           /\ used_blocks(r) = used_blocks(heap) \ {b0}
      <4>1. heap.sourceentries[page_of(b)] > 0
        <5>1. SlotsCounted(heap.sourceentries, CopyingIn(words, op), op, releases, Null)
          BY DEF Compacting
        <5>2. page_of(op[u].src) \in Page /\ CopyingIn(words, op) \in SUBSET Thread
          BY <3>8, BlockPair, CopyingThreads
        <5>3. heap.sourceentries[page_of(op[u].src)] > 0
          BY <3>6, <5>1, <5>2, PendingCounted
        <5> QED
          BY <3>9, <5>3, Zenon
      <4>2. b0 \in Block /\ WellFormed(heap)
        BY <2>2, SafeNow DEF used_blocks
      <4>3. r = release_source_page(h0, page_of(b0))
        BY <2>2, Zenon DEF r
      <4>4. /\ HeapGivenUp(b0, r)
            /\ r.ok /\ r.sourceentries[page_of(b)] > 0
            /\ r.list_flags[page_of(b)] = "source" \/ r.list_flags[page_of(b)] = "emptying"
        BY ONLY <2>5, <3>9, <4>1, <4>2, <4>3, RedirectedHeap
      <4>5. s
        BY <4>4 DEF s
      <4>6. expect(r, s, r) = r
        BY <4>4, <4>5, Zenon DEF expect
      <4> QED
        BY <3>1, <4>4, <4>6, Zenon DEF HeapGivenUp
    <3>16. P = [op EXCEPT ![t] = Begun(a, x, b, Field(m, b), releases)]
      BY <3>14, Zenon
    <3>17. /\ heap' = r /\ aa' = words0 /\ op' = P /\ pool' = pool
           /\ mem' = forget([m EXCEPT ![x][1] = m[b][1]], gone(F \cup {b0}, r))
           /\ part' = forget_part(Partnered(part, x, b), gone(F \cup {b0}, r))
      BY <2>1, <3>2, <3>3, <3>12, <3>15, Zenon DEF Partnered
    <3> HIDE DEF P, go
    <3>18. TakesOver(t, a, x, releases, u, b, b0, words, m, F, L, r, words0, P)
      BY ONLY <3>10, <3>16, <3>17, live' = L DEF TakesOver
    <3> QED
      BY ONLY <2>2, <3>6, <3>9, <3>15, <3>18, TakeOverSafe, Safe, heap.ok,
              t \in Thread, a \in AA, x \in Block, releases \in Page \cup {Null},
              Compacting(t, a, x, releases, words, m, F, L), live' = L, Zenon
  <2> QED
    BY <2>6, <2>7
<1> QED
  BY <1>2, <1>3

-----------------------------------------------------------------------------
(* No page may become not-full: there is one that is.                      *)
LEMMA SourcePageThere ==
  ASSUME WellFormed(heap), ~valid_nfull_pages_ratio(heap, 1)
  PROVE  heap.nfull # <<>>
<1>1. SUFFICES ASSUME heap.nfull = <<>> PROVE FALSE
  OBVIOUS
<1>2. Len(heap.nfull) = 0
  BY <1>1
<1> QED
  BY <1>2, BoundAssumption DEF valid_nfull_pages_ratio, nfullentries

LEMMA FreeAndCompactSafe ==
  ASSUME Safe, heap.ok, NEW t \in Thread, op[t] = Null, NEW a \in live,
         free_and_compact(t, a), live' = live \ {a}
  PROVE  SafeStep
<1> DEFINE b == aa[a].blk
           Z == {}
<1>1. /\ ~being_copied(b) /\ ~valid_nfull_pages_ratio(heap, 1)
      /\ is_page_full(heap, page_of(b))
      /\ do_compaction(t, a, b, Null, aa, mem, Z)
  BY Zenon DEF free_and_compact
<1>2. a \in AA /\ b \in Block /\ b \notin SourcesIn(aa, op) /\ b \in used_blocks(heap)
  <2>1. ~being_copied(b)
    BY ONLY <1>1
  <2> QED
    BY ONLY Safe, heap.ok, a \in live, <2>1, CopiedNow
<1>3. Protocol(aa, mem, part, live \ {a}, op, used_blocks(heap), {b}, {a})
  BY <1>2, SafeNow, DetachedPlain
<1>4. aa[a] = points_to(b) /\ Field(mem, b) = a
  BY <1>2, SafeNow, ObjectFacts DEF Protocol, ObjectsPlain
<1>5. Protocol(aa, mem, part, live \ {a}, op, used_blocks(heap), Z \cup {b}, {a})
  <2>1. Z \cup {b} = {b}
    OBVIOUS
  <2> HIDE DEF Z, b
  <2> QED
    BY <1>3, <2>1, Zenon
<1>6. Compacting(t, a, b, Null, aa, mem, Z, live \ {a})
  <2>1. heap.nfull # <<>>
    BY <1>1, SafeNow, SourcePageThere
  <2>2. b \notin Z /\ Z \cap used_blocks(heap) = {} /\ (~Incremental => Z = {})
    OBVIOUS
  <2>3. SlotsCounted(heap.sourceentries, CopyingIn(aa, op), op, Null, Null)
    BY SafeNow
  <2> HIDE DEF Z, b
  <2> QED
    BY <1>1, <1>2, <1>4, <1>5, <2>1, <2>2, <2>3, Zenon DEF Compacting
<1> HIDE DEF Z, b
<1> QED
  BY <1>1, <1>2, <1>6, CompactionSafe

LEMMA FreeWhileCopiedAndCompactSafe ==
  ASSUME Safe, heap.ok, NEW t \in Thread, op[t] = Null, NEW a \in live,
         free_while_copied_and_compact(t, a), live' = live \ {a}
  PROVE  SafeStep
<1> DEFINE b == aa[a].blk
           x == part[b]
           target_aa == get_abstract_address_of_page_block(mem, x)
           v == [aa EXCEPT ![target_aa].free = TRUE]
           w == [v EXCEPT ![a] = points_to(x)]
           m == [mem EXCEPT ![x][Increments] = a]
           L == live \ {a}
           U == used_blocks(heap)
<1>1. /\ being_copied(b) /\ ~valid_nfull_pages_ratio(heap, 1)
      /\ is_page_full(heap, page_of(x))
      /\ do_compaction(t, a, x, page_of(b), w, m, {b})
  BY Zenon DEF free_while_copied_and_compact
<1>2. a \in AA /\ b \in Block /\ aa[a] # Null
  BY ONLY Safe, heap.ok, a \in live, CopiedNow
<1>3. PICK u \in CopyingIn(aa, op) :
        /\ op[u].src = b /\ op[u].src_aa = a
        /\ op[u].copied < Increments /\ 1 < Increments
        /\ x = op[u].target
        /\ Field(mem, x) = op[u].address
        /\ aa[op[u].address] = points_to(x)
  <2>1. being_copied(b)
    BY ONLY <1>1
  <2> QED
    BY ONLY Safe, heap.ok, a \in live, <2>1, CopiedNow
<1>4. /\ u \in Thread /\ op[u] # Null
      /\ x \in Block /\ x \in U /\ b \notin U
      /\ op[u].address \in AA /\ aa[op[u].address] \in Word /\ op[u].address # a
  BY <1>3, SafeNow, CopyFacts, JobFacts
<1>5. target_aa = op[u].address
  BY <1>3 DEF Field
<1>6. Protocol(v, mem, part, L, op, U, {b, x}, {a})
  <2>1. Protocol([aa EXCEPT ![op[u].address].free = TRUE], mem, part, live \ {op[u].src_aa}, op,
                 U, {op[u].src, op[u].target}, {op[u].src_aa})
    BY <1>3, SafeNow, DetachedCopied
  <2> HIDE DEF b, x, U
  <2> QED
    BY <1>3, <1>5, <2>1, Zenon
<1>7. Protocol(w, m, part, L, op, U, {b} \cup {x}, {a})
  <2> DEFINE X == {b, x}
             Y == {a}
  <2>1. x \in X /\ a \in Y /\ X = {b} \cup {x}
    OBVIOUS
  <2>2. Protocol(v, mem, part, L, op, U, X, Y)
    BY <1>6
  <2> HIDE DEF X, Y, v, b, x, L, U
  <2>3. Protocol([v EXCEPT ![a] = points_to(x)], [mem EXCEPT ![x][Increments] = a],
                 part, L, op, U, X, Y)
    BY <1>2, <1>4, <2>1, <2>2, Retargeted, Zenon
  <2> QED
    BY <2>1, <2>3, Zenon DEF Y
<1>8. /\ v[op[u].address] # points_to(op[u].target)
      /\ \A d \in AA : d # op[u].address => v[d] = aa[d]
      /\ \A d \in AA : v[d] = Null <=> aa[d] = Null
  <2>1. aa \in Words
    BY SafeNow
  <2>2. /\ [aa[op[u].address] EXCEPT !.free = TRUE].free = TRUE
        /\ [aa[op[u].address] EXCEPT !.free = TRUE] \in Word
    BY <1>4 DEF Word
  <2>3. /\ v[op[u].address] = [aa[op[u].address] EXCEPT !.free = TRUE]
        /\ \A d \in AA : d # op[u].address => v[d] = aa[d]
    BY <1>4, <1>5, <2>1 DEF Words
  <2> HIDE DEF v
  <2>4. v[op[u].address] # points_to(op[u].target)
    BY <2>2, <2>3 DEF points_to
  <2> QED
    BY <1>4, <2>2, <2>3, <2>4, NoneAssumption
<1>9. w[a] = points_to(x) /\ \A d \in AA : d # a => w[d] = v[d]
  <2>1. v \in [AA -> Word \cup {Null}]
    BY <1>6 DEF Protocol, Typed, Words
  <2>2. w = [v EXCEPT ![a] = points_to(x)]
    OBVIOUS
  <2> HIDE DEF v, w, b, x, target_aa, m, L, U
  <2>3. \A d \in AA : d # a => w[d] = v[d]
    BY ONLY <1>2, <2>1, <2>2
  <2>4. w[a] = points_to(x)
    BY ONLY <1>2, <2>1, <2>2
  <2> QED
    BY ONLY <2>3, <2>4
<1>10. \A d \in AA : w[d] = Null <=> aa[d] = Null
  <2>1. points_to(x) # Null
    BY <1>4, PointsTo, NoneAssumption
  <2> HIDE DEF v, w
  <2> QED
    BY <1>2, <1>8, <1>9, <2>1
<1>11. CopyingIn(w, op) = CopyingIn(aa, op) \ {u}
  <2>1. CopyingIn(v, op) = CopyingIn(aa, op) \ {u}
    <3> HIDE DEF v
    <3> QED
      BY <1>3, <1>8, SafeNow, StoppedCopy
  <2>2. \A y \in Thread : op[y] # Null => w[op[y].target_aa] = v[op[y].target_aa]
    <3> HIDE DEF v, w
    <3> QED
      BY <1>9, SafeNow, JobFacts
  <2>3. CopyingIn(w, op) = CopyingIn(v, op)
    <3> HIDE DEF v, w
    <3> QED
      BY <2>2, SameCopies
  <2> HIDE DEF v, w
  <2> QED
    BY <2>1, <2>3
<1>12. SlotsCounted(heap.sourceentries, CopyingIn(w, op), op, page_of(b), Null)
  <2>1. SlotsCounted(heap.sourceentries, CopyingIn(aa, op) \ {u}, op, page_of(b), Null)
    BY <1>3, SafeNow, CopyingThreads, SlotLeft
  <2> HIDE DEF w, b
  <2> QED
    BY ONLY <1>11, <2>1, Zenon
<1>13. Field(m, x) = a
  <2>1. mem \in Memory
    BY SafeNow
  <2> HIDE DEF x
  <2> QED
    BY <1>4, <2>1, ChunkBounds DEF Field, get_abstract_address_of_page_block, Memory
<1>14. Compacting(t, a, x, page_of(b), w, m, {b}, L)
  <2>1. heap.nfull # <<>>
    BY <1>1, SafeNow, SourcePageThere
  <2>2. x \notin {b} /\ {b} \cap U = {}
    BY <1>4
  <2>3. Incremental
    BY <1>3 DEF Incremental
  <2> DEFINE F == {b}
  <2>4. /\ Protocol(w, m, part, L, op, U, F \cup {x}, {a}) /\ x \notin F /\ F \cap U = {}
    BY <1>7, <2>2
  <2> HIDE DEF F, w, m, x, b, L
  <2>5. Compacting(t, a, x, page_of(b), w, m, F, L)
    BY <1>1, <1>4, <1>9, <1>10, <1>12, <1>13, <2>1, <2>3, <2>4, Zenon DEF Compacting, U
  <2> QED
    BY <2>5, Zenon DEF F
<1>15. page_of(b) \in Page \cup {Null}
  <2> HIDE DEF b
  <2> QED
    BY ONLY <1>2, BlockPage
<1> DEFINE F == {b}
<1>16. do_compaction(t, a, x, page_of(b), w, m, F) /\ Compacting(t, a, x, page_of(b), w, m, F, L)
  BY <1>1, <1>14
<1> HIDE DEF F, w, m, x, b
<1> QED
  BY <1>2, <1>4, <1>15, <1>16, CompactionSafe

LEMMA FreeSafe ==
  ASSUME Safe, NEW t \in Thread, NEW a \in AA, cf_free(t, a)
  PROVE  SafeStep
<1>1. heap.ok /\ op[t] = Null /\ a \in live /\ live' = live \ {a}
  BY Zenon DEF cf_free
<1>2. aa[a] # Null
  BY ONLY Safe, <1>1, CopiedNow
<1>3. \/ free_in_place(t, a)
      \/ free_while_copied(t, a)
      \/ free_and_compact(t, a)
      \/ free_while_copied_and_compact(t, a)
  BY <1>2, Zenon DEF cf_free
<1> QED
  BY <1>1, <1>3, FreeInPlaceSafe, FreeWhileCopiedSafe, FreeAndCompactSafe,
     FreeWhileCopiedAndCompactSafe

LEMMA ResumeSafe ==
  ASSUME Safe, NEW t \in Thread, resume_compaction(t)
  PROVE  SafeStep
<1>1. /\ heap.ok /\ op[t] # Null /\ live' = live
      /\ abort_compaction(t, op[t]) \/ copy_chunk(t, op[t])
  BY Zenon DEF resume_compaction
<1> QED
  BY <1>1, AbortSafe, CopyChunkSafe

LEMMA NextSafe == Safe /\ [Next]_vars => Safe'
<1> SUFFICES ASSUME Safe, [Next]_vars PROVE Safe'
  OBVIOUS
<1>1. ASSUME NEW t \in Thread, cf_malloc(t) PROVE Safe'
  BY <1>1, MallocSafe DEF SafeStep
<1>2. ASSUME NEW t \in Thread, NEW a \in AA, cf_free(t, a) PROVE Safe'
  BY <1>2, FreeSafe DEF SafeStep
<1>3. ASSUME NEW t \in Thread, resume_compaction(t) PROVE Safe'
  BY <1>3, ResumeSafe DEF SafeStep
<1>4. CASE UNCHANGED vars
  <2>1. heap' = heap /\ aa' = aa /\ mem' = mem /\ part' = part /\ live' = live /\ op' = op
        /\ pool' = pool
    BY <1>4 DEF vars
  <2> QED
    BY <2>1, Zenon DEF Safe
<1> QED
  BY <1>1, <1>2, <1>3, <1>4, Zenon DEF Next

(* The invariant the safety of a size-class rests on: the page lists, the  *)
(* count of each source page and the protocol of the half-done compactions *)
(* are in order between two critical sections, whatever their order.       *)
THEOREM Safety == Spec => []Safe
BY InitSafe, NextSafe, PTL DEF Spec

-----------------------------------------------------------------------------
LEMMA SafeCopying == Copying = CopyingIn(aa, op) /\ Sources = SourcesIn(aa, op)
BY DEF Copying, Sources, CopyingIn, SourcesIn

LEMMA SafeData == Safe => DataPreserved
<1>1. ASSUME Safe, heap.ok, NEW a \in live
      PROVE  aa[a] # Null /\ \A c \in Chunk : mem[aa[a].blk][c] = a
  BY <1>1, SafeNow, ObjectFacts
<1> QED
  BY <1>1 DEF DataPreserved

LEMMA SafeProtocol == Safe => CopyProtocol
<1> SUFFICES ASSUME Safe, heap.ok PROVE CopyProtocol
  BY DEF CopyProtocol
<1>1. ASSUME NEW t \in Copying PROVE CopyInProgress(op[t])
  <2>1. t \in CopyingIn(aa, op)
    BY <1>1, SafeCopying
  <2>2. /\ t \in Thread /\ op[t] # Null
        /\ InProgress(aa, mem, part, live, used_blocks(heap), op[t])
        /\ op[t].target \in Block /\ op[t].src \in Block
        /\ op[t].target_aa = op[t].address /\ op[t].target_aa_val = points_to(op[t].target)
    BY <2>1, SafeNow, CopyFacts, JobFacts
  <2>3. Incremental /\ op[t].copied < Increments
    BY <2>1, SafeNow, CopiesSuspended
  <2> QED
    BY <2>2, <2>3 DEF InProgress, CopyInProgress, used_blocks, Field
<1>2. ASSUME NEW t \in Copying, NEW u \in Copying, t # u
      PROVE  {op[t].src, op[t].target} \cap {op[u].src, op[u].target} = {}
  <2>1. t \in CopyingIn(aa, op) /\ u \in CopyingIn(aa, op)
    BY <1>2, SafeCopying
  <2> QED
    BY <1>2, <2>1, SafeNow, CopiesApart
<1> QED
  BY <1>1, <1>2 DEF CopyProtocol

LEMMA SafePlain == Safe => NoStaleCopy
<1>1. ASSUME Safe, heap.ok, NEW a \in live, aa[a].blk \notin Sources
      PROVE  aa[a] = points_to(aa[a].blk) /\ ~being_copied(aa[a].blk)
  <2>1. aa[a].blk \notin SourcesIn(aa, op)
    BY <1>1, SafeCopying
  <2> QED
    BY <1>1, <2>1, SafeNow DEF Protocol, ObjectsPlain, being_copied
<1> QED
  BY <1>1 DEF NoStaleCopy

LEMMA SafeAddresses == Safe => AddressesConserved
<1> SUFFICES ASSUME Safe, heap.ok PROVE AddressesConserved
  BY DEF AddressesConserved
<1> DEFINE K == {op[t].address : t \in {u \in Thread : op[u] # Null}}
<1>1. pool = {a \in AA : aa[a] = Null} /\ AddressesApart(aa, live, op, {}) /\ live \in SUBSET AA
  BY SafeNow DEF Protocol
<1>2. \A t \in Thread : op[t] # Null => op[t].address \in AA
  BY SafeNow, JobFacts
<1>3. AA = pool \cup live \cup K
  BY <1>1, <1>2 DEF AddressesApart
<1> QED
  BY <1>1, <1>2, <1>3 DEF AddressesApart, AddressesConserved

LEMMA SafePages == Safe => PageStates
<1>1. ASSUME Safe, heap.ok, NEW p \in Page PROVE PageState(p)
  BY <1>1, SafeNow DEF WellFormed, StateOf, PageState
<1> QED
  BY <1>1 DEF PageStates

LEMMA SafeSlots == Safe => SourceSlots
<1>1. ASSUME Safe, heap.ok, NEW p \in Page
      PROVE  heap.sourceentries[p] = Cardinality({t \in Copying : page_of(op[t].src) = p})
                                   + Cardinality({t \in Thread : op[t] # Null /\ op[t].releases = p})
  <2>1. heap.sourceentries[p]
          = Cardinality(CopiedFrom(CopyingIn(aa, op), op, p)) + Cardinality(ReleasedBy(op, p))
    <3> DEFINE C == CopyingIn(aa, op)
    <3>1. C \in SUBSET Thread /\ SlotsCounted(heap.sourceentries, C, op, Null, Null)
      BY <1>1, SafeNow, CopyingThreads
    <3> HIDE DEF C
    <3>2. /\ Cardinality(CopiedFrom(C, op, p)) \in Nat /\ Cardinality(ReleasedBy(op, p)) \in Nat
          /\ Pending(Null, p) = 0
      BY <1>1, <3>1, SlotsFinite, NullAssumption DEF Pending
    <3>4. heap.sourceentries[p]
            = Cardinality(CopiedFrom(C, op, p)) + Cardinality(ReleasedBy(op, p))
              + Pending(Null, p) + Pending(Null, p)
      BY <1>1, <3>1, Zenon DEF SlotsCounted
    <3>3. heap.sourceentries[p]
            = Cardinality(CopiedFrom(C, op, p)) + Cardinality(ReleasedBy(op, p))
      BY <3>2, <3>4
    <3> QED
      BY <3>3 DEF C
  <2>2. CopiedFrom(Copying, op, p) = {t \in Copying : page_of(op[t].src) = p}
        /\ ReleasedBy(op, p) = {t \in Thread : op[t] # Null /\ op[t].releases = p}
    BY DEF CopiedFrom, ReleasedBy
  <2>3. CopiedFrom(CopyingIn(aa, op), op, p) = CopiedFrom(Copying, op, p)
    BY SafeCopying, Zenon
  <2> QED
    BY <2>1, <2>2, <2>3, Zenon
<1> QED
  BY <1>1, Zenon DEF SourceSlots

LEMMA SafeBlocks == ASSUME EnoughAddresses PROVE Safe => NoBlockLost
<1> SUFFICES ASSUME Safe, heap.ok PROVE NoBlockLost
  BY DEF NoBlockLost
<1> DEFINE U == used_blocks(heap)
           T == TargetsIn(aa, op)
           S == SourcesIn(aa, op)
<1>1. Protocol(aa, mem, part, live, op, U, {}, {})
  BY SafeNow
<1>2. ASSUME NEW b \in U PROVE b \in ({aa[a].blk : a \in live} \ S) \cup T
  <2>1. b \in Block /\ Field(mem, b) \in AA
    BY <1>1 DEF Protocol, BlocksHeld, used_blocks
  <2>2. b \in T \/ (Field(mem, b) \in live /\ aa[Field(mem, b)].blk = b)
    BY <1>1, <2>1 DEF Protocol, FieldsTrue
  <2>3. b \notin S
    <3>1. SUFFICES ASSUME NEW u \in CopyingIn(aa, op), b = op[u].src PROVE FALSE
      BY DEF SourcesIn
    <3> HIDE DEF U
    <3> QED
      BY <1>1, <1>2, <3>1, CopyFacts
  <2> HIDE DEF U, T, S
  <2> QED
    BY <2>2, <2>3
<1>3. T \subseteq U
  <2>1. ASSUME NEW u \in CopyingIn(aa, op) PROVE op[u].target \in U
    <3> HIDE DEF U
    <3> QED
      BY <1>1, CopyFacts
  <2> QED
    BY <2>1 DEF TargetsIn
<1>4. ASSUME NEW a \in live, aa[a].blk \notin S PROVE aa[a].blk \in U
  BY <1>1, <1>4 DEF Protocol, ObjectsPlain
<1>5. Sources = S /\ Targets = T
  BY DEF Sources, Targets, Copying, CopyingIn, SourcesIn, TargetsIn
<1>6. U = {b \in Block : index_of(b) \in heap.used[page_of(b)]}
  BY DEF used_blocks
<1> HIDE DEF U, T, S
<1>7. U = ({aa[a].blk : a \in live} \ S) \cup T
  BY <1>2, <1>3, <1>4
<1> QED
  BY <1>5, <1>6, <1>7, Zenon DEF NoBlockLost

(* What a program stored in an object it has not freed is what it finds    *)
(* there, in every interleaving of cf_malloc, cf_free and the chunks of    *)
(* half-done compactions, aborted and taken over ones included (cf.c       *)
(* 1463-1697): no two objects ever share memory.                           *)
THEOREM DataIsPreserved == Spec => []DataPreserved
BY Safety, SafeData, PTL

(* A compaction that nobody aborted while the lock was away still owns its *)
(* target and knows its source, and no block takes part in two copies      *)
(* (do_compaction and its loop over incremental_memcpy).                   *)
THEOREM CopiesFollowProtocol == Spec => []CopyProtocol
BY Safety, SafeProtocol, PTL

(* An abort or a copy that has ended leaves no flag in the address of an   *)
(* object and no partition field behind.                                   *)
THEOREM NoCopyGoesStale == Spec => []NoStaleCopy
BY Safety, SafePlain, PTL

(* An abstract address is free, the program's, or kept by exactly one      *)
(* cf_free: an address a suspended compaction watches is never handed out  *)
(* (clear_abstract_address, cf.c 1521-1533, and the abort of cf.c          *)
(* 1590-1603).                                                             *)
THEOREM AddressesAreConserved == Spec => []AddressesConserved
BY Safety, SafeAddresses, PTL

(* The list a page is on tells how many of its blocks are used and whether *)
(* any is being copied out of it; no page is lost between the lists.       *)
THEOREM PagesAreListed == Spec => []PageStates
BY Safety, SafePages, PTL

(* sourceentries counts the copies out of a page and the copies taken over *)
(* that are still to be released: a page is released once, by the last.    *)
THEOREM SourcesAreCounted == Spec => []SourceSlots
BY Safety, SafeSlots, PTL

(* As long as there are so many abstract addresses that get_free_aa never  *)
(* returns -1 (cf.c 580-596), whatever free ones other threads keep in     *)
(* their lists and buckets, no order of calls and of half-done compactions *)
(* trips an assert of the page lists, of do_compaction or of cf_free,      *)
(* follows a word that is no address or takes a block where there is none  *)
(* (cf.c 1463-1697, 1923-2054).                                            *)
THEOREM NoAssertionFails ==
  ASSUME EnoughAddresses
  PROVE  Spec => []AssertionsHold
<1>1. Safe => AssertionsHold
  BY DEF Safe, AssertionsHold
<1> QED
  BY <1>1, Safety, PTL

(* Nor is a block lost: each used bit is that of an object which sits      *)
(* still or of a block a copy fills, whatever was aborted or taken over.   *)
THEOREM NoBlockIsLost ==
  ASSUME EnoughAddresses
  PROVE  Spec => []NoBlockLost
<1>1. Safe => NoBlockLost
  BY SafeBlocks
<1> QED
  BY <1>1, Safety, PTL

-----------------------------------------------------------------------------
(* The refinement mapping.                                                 *)
dereferenced(w, m, a) ==
  IF w[a] = Null THEN Null
  ELSE IF w[a] = points_to(w[a].blk) THEN m[w[a].blk]
  ELSE off_by_a_flag
objects_of(w, m, L) == [a \in L |-> dereferenced(w, m, a)]
returning_of(O) == {O[t].address : t \in {u \in Thread : O[u] # Null}}

(* The objects that are being moved, and what is found at the addresses.   *)
MovedIn(w, O) == {O[t].src_aa : t \in CopyingIn(w, O)}
found(M, L) == [a \in L |-> IF a \in M THEN off_by_a_flag ELSE Fresh(a)]

LEMMA HeapInit == Init => Heap!Init
BY DEF Init, Heap!Init

LEMMA OffByAFlag == ASSUME NEW a \in AA PROVE Fresh(a) # off_by_a_flag
<1>1. Fresh(a)[1] = a /\ off_by_a_flag[1] = Junk
  BY ChunkBounds DEF Fresh, off_by_a_flag
<1> QED
  BY <1>1, NullAssumption

(* The flag is in the word of an object as long as the object is moved.    *)
LEMMA ObjectsFound ==
  ASSUME NEW w, NEW m, NEW q, NEW L, NEW O, NEW U,
         Protocol(w, m, q, L, O, U, {}, {})
  PROVE  /\ objects_of(w, m, L) = found(MovedIn(w, O), L)
         /\ MovedIn(w, O) \in SUBSET L /\ L \in SUBSET AA
<1>1. MovedIn(w, O) \in SUBSET L
  BY CopyFacts DEF MovedIn
<1>2. ASSUME NEW a \in L
      PROVE  dereferenced(w, m, a) = IF a \in MovedIn(w, O) THEN off_by_a_flag ELSE Fresh(a)
  <2>1. w[a] # Null /\ w[a].blk \in Block /\ \A c \in Chunk : m[w[a].blk][c] = a
    BY ObjectFacts
  <2>2. CASE a \in MovedIn(w, O)
    <3>1. PICK t \in CopyingIn(w, O) : a = O[t].src_aa
      BY <2>2 DEF MovedIn
    <3>2. w[a] = [blk |-> O[t].src, compact |-> TRUE, free |-> FALSE]
      BY <3>1, CopyFacts DEF InProgress
    <3>3. w[a].compact /\ ~points_to(w[a].blk).compact
      BY <3>2 DEF points_to
    <3>4. w[a] # points_to(w[a].blk)
      BY <3>3
    <3> QED
      BY <2>1, <2>2, <3>4 DEF dereferenced
  <2>3. CASE a \notin MovedIn(w, O)
    <3>1. ASSUME NEW t \in CopyingIn(w, O) PROVE w[a].blk # O[t].src
      BY <2>3, ObjectBlock DEF MovedIn
    <3>2. w[a].blk \notin SourcesIn(w, O)
      BY <3>1 DEF SourcesIn
    <3>3. w[a] = points_to(w[a].blk)
      BY <3>2 DEF Protocol, ObjectsPlain
    <3>4. m \in Memory
      BY DEF Protocol, Typed
    <3>5. m[w[a].blk] = [c \in Chunk |-> a]
      BY <2>1, <3>4 DEF Memory
    <3> QED
      BY <2>1, <2>3, <3>3, <3>5, Zenon DEF dereferenced, Fresh
  <2> QED
    BY <2>2, <2>3
<1>3. objects_of(w, m, L) = found(MovedIn(w, O), L)
  BY <1>2, Zenon DEF objects_of, found
<1> QED
  BY <1>1, <1>3 DEF Protocol, Typed

(* Each move is that of a cf_free of its own.                              *)
Accounted(M, K) ==
  \E mover \in [M -> K] : \A b, c \in M : mover[b] = mover[c] => b = c

LEMMA MovesCounted ==
  ASSUME NEW w, NEW m, NEW q, NEW L, NEW O, NEW U,
         Protocol(w, m, q, L, O, U, {}, {})
  PROVE  Accounted(MovedIn(w, O), returning_of(O))
<1> DEFINE C == CopyingIn(w, O)
           by(b) == CHOOSE t \in C : O[t].src_aa = b
           mover == [b \in MovedIn(w, O) |-> O[by(b)].address]
<1>1. \A b \in MovedIn(w, O) : by(b) \in C /\ O[by(b)].src_aa = b
  BY DEF MovedIn
<1>2. \A t \in C : t \in Thread /\ O[t] # Null /\ O[t].address \in returning_of(O)
  BY DEF CopyingIn, returning_of
<1>3. \A t, u \in C : O[t].address = O[u].address => t = u
  BY <1>2 DEF Protocol, AddressesApart
<1> HIDE DEF C, by
<1>4. mover \in [MovedIn(w, O) -> returning_of(O)]
  BY <1>1, <1>2
<1>5. ASSUME NEW b \in MovedIn(w, O), NEW c \in MovedIn(w, O), mover[b] = mover[c]
      PROVE  b = c
  <2>1. by(b) = by(c)
    BY <1>1, <1>3, <1>5
  <2> QED
    BY <1>1, <2>1
<1> HIDE DEF mover
<1> QED
  BY <1>4, <1>5 DEF Accounted

LEMMA FewerMoves ==
  ASSUME NEW M, NEW K, Accounted(M, K), NEW N \in SUBSET M
  PROVE  Accounted(N, K)
<1>1. PICK mover \in [M -> K] : \A b, c \in M : mover[b] = mover[c] => b = c
  BY DEF Accounted
<1>2. [b \in N |-> mover[b]] \in [N -> K]
  BY <1>1
<1> QED
  BY <1>1, <1>2 DEF Accounted

LEMMA FoundNow ==
  ASSUME Safe, heap.ok
  PROVE  /\ objects_of(aa, mem, live) = found(MovedIn(aa, op), live)
         /\ MovedIn(aa, op) \in SUBSET live /\ live \in SUBSET AA
BY SafeNow, ObjectsFound

LEMMA FoundNext ==
  ASSUME Safe', heap'.ok
  PROVE  /\ objects_of(aa', mem', live') = found(MovedIn(aa', op'), live')
         /\ MovedIn(aa', op') \in SUBSET live' /\ live' \in SUBSET AA
         /\ Suspended(op')
         /\ Protocol(aa', mem', part', live', op', used_blocks(heap'), {}, {})
<1>1. Protocol(aa', mem', part', live', op', used_blocks(heap'), {}, {}) /\ Suspended(op')
  BY Zenon DEF Safe, Sound
<1> QED
  BY <1>1, ObjectsFound

(* No cf_free leaves an object half moved; a crash moves none.             *)
moving_of(w, m, L) == {b \in L : dereferenced(w, m, b) = off_by_a_flag}

LEMMA MovingFound ==
  ASSUME NEW w, NEW m, NEW q, NEW L, NEW O, NEW U,
         Protocol(w, m, q, L, O, U, {}, {})
  PROVE  moving_of(w, m, L) = MovedIn(w, O)
<1>1. /\ objects_of(w, m, L) = found(MovedIn(w, O), L)
      /\ MovedIn(w, O) \in SUBSET L /\ L \in SUBSET AA
  BY ObjectsFound
<1>2. ASSUME NEW b \in L PROVE dereferenced(w, m, b) = off_by_a_flag <=> b \in MovedIn(w, O)
  <2>1. dereferenced(w, m, b) = objects_of(w, m, L)[b]
    BY DEF objects_of
  <2>2. found(MovedIn(w, O), L)[b] = IF b \in MovedIn(w, O) THEN off_by_a_flag ELSE Fresh(b)
    BY DEF found
  <2>3. Fresh(b) # off_by_a_flag
    BY <1>1, OffByAFlag
  <2> QED
    BY <1>1, <2>1, <2>2, <2>3
<1> QED
  BY <1>1, <1>2 DEF moving_of

LEMMA AccountedNext ==
  ASSUME Safe, heap.ok, SafeStep, live' \in SUBSET live \/ heap'.ok
  PROVE  Heap!MovesAccounted'
<1> SUFFICES Accounted(moving_of(aa', mem', live'), returning_of(op'))
  <2>1. Heap!moving' = moving_of(aa', mem', live')
    BY DEF Heap!moving, moving_of, dereferenced, cf_dereference
  <2> QED
    BY <2>1 DEF Heap!MovesAccounted, returning_of, Accounted
<1>1. CASE heap'.ok
  <2>1. Protocol(aa', mem', part', live', op', used_blocks(heap'), {}, {})
    BY <1>1, FoundNext DEF SafeStep
  <2> QED
    BY <2>1, MovesCounted, MovingFound
<1>2. CASE ~heap'.ok
  <2>1. aa' = aa /\ mem' = mem /\ op' = op /\ live' \in SUBSET live
    BY <1>2 DEF SafeStep, crash
  <2>2. Accounted(moving_of(aa, mem, live), returning_of(op))
    BY SafeNow, MovesCounted, MovingFound
  <2>3. moving_of(aa', mem', live') \in SUBSET moving_of(aa, mem, live)
    BY <2>1 DEF moving_of
  <2> QED
    BY <2>1, <2>2, <2>3, FewerMoves
<1> QED
  BY <1>1, <1>2

(* The copies stay the same where the watched words and the copied objects *)
(* do.                                                                     *)
LEMMA SameMoves ==
  ASSUME Safe, heap.ok, op' = op,
         \A t \in Thread : op[t] # Null => aa'[op[t].address] = aa[op[t].address]
  PROVE  MovedIn(aa', op') = MovedIn(aa, op)
<1>1. ASSUME NEW t \in Thread, op[t] # Null PROVE aa'[op[t].target_aa] = aa[op[t].target_aa]
  BY <1>1, SafeNow, JobFacts
<1>2. CopyingIn(aa', op) = CopyingIn(aa, op)
  BY <1>1, SameCopies
<1> QED
  BY <1>2 DEF MovedIn

LEMMA MallocImplements ==
  ASSUME Safe, NEW t \in Thread, cf_malloc(t)
  PROVE  UNCHANGED Heap!vars \/ (Heap!MovingNext /\ Heap!Next)
<1>1. heap.ok /\ op' = op
  BY Zenon DEF cf_malloc
<1>2. SafeStep
  BY MallocSafe
<1>3. \/ aa' = aa /\ mem' = mem /\ live' = live
      \/ \E a \in pool : \E b : set_abstract_address(a, b)
  <2>1. PICK p \in malloc_pages(heap) :
          LET open  == IF heap.nfull = <<>>
                       THEN add_page_to_nfull_list(get_free_page(heap, p), p)
                       ELSE heap
              taken == get_free_page_block(open, p)
          IN  IF ~taken.ok
              THEN crash /\ UNCHANGED live
              ELSE /\ heap' = IF is_page_full(taken, p)
                              THEN add_page_to_full_list(remove_page_from_nfull_list(taken, p), p)
                              ELSE taken
                   /\ \/ no_abstract_address
                      \/ \E a \in pool : set_abstract_address(a, <<p, free_index(open, p)>>)
    BY Zenon DEF cf_malloc
  <2>2. \/ crash /\ live' = live
        \/ no_abstract_address
        \/ \E a \in pool : \E b : set_abstract_address(a, b)
    BY <2>1, Zenon
  <2> QED
    BY <2>2 DEF crash, no_abstract_address
<1>4. CASE aa' = aa /\ mem' = mem /\ live' = live
  BY <1>1, <1>4 DEF Heap!vars, cf_dereference
<1>5. ASSUME NEW a \in pool, NEW b, set_abstract_address(a, b)
      PROVE  Heap!Alloc(a) /\ Heap!MovesAccounted'
  <2>1. /\ aa' = [aa EXCEPT ![a] = points_to(b)]
        /\ live' = live \cup {a} /\ pool' = pool \ {a}
    BY <1>5 DEF set_abstract_address
  <2>2. heap'.ok
    BY <1>2, <2>1, <1>5 DEF SafeStep, crash
  <2>3. a \in AA /\ a \notin live /\ a \notin returning_of(op)
    <3>1. AddressesConserved
      BY SafeAddresses
    <3> QED
      BY <1>1, <1>5, <3>1, SafeNow DEF AddressesConserved, returning_of
  <2>4. MovedIn(aa', op') = MovedIn(aa, op)
    <3>1. ASSUME NEW y \in Thread, op[y] # Null PROVE aa'[op[y].address] = aa[op[y].address]
      <4>1. op[y].address \in AA /\ op[y].address # a
        BY <1>1, <2>3, <3>1, SafeNow, JobFacts DEF returning_of
      <4> QED
        BY <1>1, <2>1, <4>1, SafeNow DEF Words
    <3> QED
      BY <1>1, <3>1, SameMoves
  <2>5. /\ objects_of(aa, mem, live) = found(MovedIn(aa, op), live)
        /\ MovedIn(aa, op) \in SUBSET live
        /\ objects_of(aa', mem', live') = found(MovedIn(aa, op), live')
    BY <1>1, <1>2, <2>2, <2>4, FoundNow, FoundNext DEF SafeStep
  <2>6. objects_of(aa', mem', live')
        = [c \in live \cup {a} |-> IF c = a THEN Fresh(a) ELSE objects_of(aa, mem, live)[c]]
    BY <2>1, <2>3, <2>5 DEF found
  <2>7. Heap!MovesAccounted'
    BY <1>1, <1>2, <2>2, AccountedNext
  <2> QED
    BY <1>1, <2>3, <2>1, <2>6, <2>7
    DEF Heap!Alloc, objects_of, dereferenced, cf_dereference, returning_of
<1>6. \A a \in pool : a \in AA
  BY <1>1, SafeNow
<1> QED
  BY <1>3, <1>4, <1>5, <1>6, Zenon DEF Heap!Next, Heap!MovingNext

(* The word of an address is the same, or has a flag set that it had not.  *)
Marked(w, v, a) ==
  /\ v \in Words
  /\ \A d \in AA : d # a => v[d] = w[d] \/ (v[d] # Null /\ (v[d].compact \/ v[d].free))

LEMMA MarkedFlag ==
  ASSUME NEW w \in Words, NEW a, NEW v, Marked(w, v, a), NEW d \in AA, v[d] # Null
  PROVE  /\ Marked(w, [v EXCEPT ![d].compact = TRUE], a)
         /\ Marked(w, [v EXCEPT ![d].free = TRUE], a)
<1>1. v \in Words /\ v[d] \in Word
  BY DEF Marked, Words
<1>2. ASSUME NEW y \in Word, y.compact \/ y.free PROVE Marked(w, [v EXCEPT ![d] = y], a)
  <2>1. [v EXCEPT ![d] = y] \in Words
    BY <1>1 DEF Words
  <2>2. y # Null
    BY NoneAssumption
  <2>3. \A e \in AA : [v EXCEPT ![d] = y][e] = IF e = d THEN y ELSE v[e]
    BY <1>1 DEF Words
  <2> QED
    BY <1>2, <2>1, <2>2, <2>3 DEF Marked
<1>3. /\ [v[d] EXCEPT !.compact = TRUE] \in Word /\ [v[d] EXCEPT !.compact = TRUE].compact
      /\ [v[d] EXCEPT !.free = TRUE] \in Word /\ [v[d] EXCEPT !.free = TRUE].free
  BY <1>1 DEF Word
<1> QED
  BY <1>2, <1>3

LEMMA MarkedSame ==
  ASSUME NEW w \in Words, NEW a \in AA, NEW y \in Word \cup {Null}
  PROVE  Marked(w, w, a) /\ \A v : Marked(w, v, a) => Marked(w, [v EXCEPT ![a] = y], a)
BY DEF Marked, Words

(* The address of the freed object stays with the thread while it copies,  *)
(* and it marks the words of the others only.                              *)
LEMMA CompactionMarks ==
  ASSUME NEW t \in Thread, op[t] = Null, op \in [Thread -> Job \cup {Null}], Incremental,
         NEW a, NEW x, NEW releases, NEW words, NEW m, NEW F,
         aa \in Words, Marked(aa, words, a),
         do_compaction(t, a, x, releases, words, m, F)
  PROVE  \/ crash
         \/ Marked(aa, aa', a) /\ \E j : j.address = a /\ op' = [op EXCEPT ![t] = j]
<1> DEFINE chosen == get_source_page(heap)
           p0 == source_page(heap)
           b0 == <<p0, find_used_page_block(chosen, p0)>>
           h0 == page_clear_used_bit(chosen, p0, index_of(b0))
           redirect == source_is_target(b0)
           aa0 == get_abstract_address_of_page_block(m, b0)
           b == IF redirect THEN part[b0] ELSE b0
           words0 == IF redirect THEN [words EXCEPT ![aa0].compact = TRUE] ELSE words
           h1 == IF redirect
                 THEN LET r == release_source_page(h0, p0)
                      IN  expect(r, /\ r.sourceentries[page_of(b)] > 0
                                    /\ r.list_flags[page_of(b)] \in {"source", "emptying"}, r)
                 ELSE h0
           src_aa == get_abstract_address_of_page_block(m, b)
           target_aa == get_abstract_address_of_page_block(m, x)
           words1 == [words0 EXCEPT ![src_aa].compact = TRUE]
           val == words1[target_aa]
           j == [address |-> a, target |-> x, target_aa |-> target_aa,
                 target_aa_val |-> val, src |-> b, src_aa |-> src_aa,
                 copied |-> 1, releases |-> releases]
           m1 == [m EXCEPT ![x][1] = m[b][1]]
           q1 == [part EXCEPT ![x] = b, ![b] = x]
           G == gone(F \cup IF redirect THEN {b0} ELSE {}, h1)
           sane == /\ chosen.ok
                   /\ chosen.used[p0] # {}
                   /\ redirect => part[b0] \in Block /\ aa0 \in AA /\ words[aa0] # Null
                   /\ src_aa \in AA /\ words0[src_aa] # Null
                   /\ target_aa \in AA /\ words0[target_aa] # Null
<1>1. IF ~sane
      THEN crash
      ELSE IF Incremental
      THEN /\ heap' = h1
           /\ aa'   = words1
           /\ mem'  = forget(m1, G)
           /\ part' = forget_part(q1, G)
           /\ op'   = [op EXCEPT ![t] = j]
           /\ UNCHANGED pool
      ELSE finish(t, j, h1, words1, m1, part)
  BY Zenon DEF do_compaction
<1>2. CASE ~sane
  <2> HIDE DEF sane, h1, words1, m1, q1, j, G
  <2> QED
    BY <1>1, <1>2
<1>3. CASE sane
  <2>1. aa' = words1 /\ op' = [op EXCEPT ![t] = j]
    <3> HIDE DEF sane, h1, words1, m1, q1, j, G
    <3> QED
      BY <1>1, <1>3
  <2>2. /\ redirect => aa0 \in AA /\ words[aa0] # Null
        /\ src_aa \in AA /\ words0[src_aa] # Null
    BY <1>3
  <2> HIDE DEF sane, chosen, p0, b0, h0, aa0, b, h1, src_aa, target_aa, val, m1, q1, G
  <2>3. j.address = a
    OBVIOUS
  <2>4. Marked(aa, words0, a)
    <3>1. CASE redirect
      BY <2>2, <3>1, MarkedFlag
    <3>2. CASE ~redirect
      BY <3>2
    <3> QED
      BY <3>1, <3>2
  <2> HIDE DEF redirect, words0, j
  <2>5. Marked(aa, words1, a)
    BY <2>2, <2>4, MarkedFlag
  <2> QED
    BY <2>1, <2>3, <2>5, Zenon
<1> QED
  BY <1>2, <1>3

LEMMA FreeMarks ==
  ASSUME Safe, NEW t \in Thread, NEW a \in AA, cf_free(t, a), Incremental
  PROVE  \/ crash
         \/ /\ Marked(aa, aa', a)
            /\ op' = op \/ \E j : j.address = a /\ op' = [op EXCEPT ![t] = j]
<1>1. heap.ok /\ op[t] = Null /\ a \in live
  BY Zenon DEF cf_free
<1>2. /\ aa \in Words /\ op \in [Thread -> Job \cup {Null}] /\ aa[a] \in Word /\ aa[a].blk \in Block
      /\ being_copied(aa[a].blk) =>
           /\ get_abstract_address_of_page_block(mem, part[aa[a].blk]) \in AA
           /\ aa[get_abstract_address_of_page_block(mem, part[aa[a].blk])] # Null
           /\ part[aa[a].blk] \in Block
  <2>1. ASSUME being_copied(aa[a].blk)
        PROVE  /\ get_abstract_address_of_page_block(mem, part[aa[a].blk]) \in AA
               /\ aa[get_abstract_address_of_page_block(mem, part[aa[a].blk])] # Null
               /\ part[aa[a].blk] \in Block
    <3>1. PICK u \in CopyingIn(aa, op) :
                /\ part[aa[a].blk] = op[u].target
                /\ Field(mem, op[u].target) = op[u].address
      BY <1>1, <2>1, CopiedNow
    <3>2. u \in Thread /\ op[u] # Null
      BY DEF CopyingIn
    <3>3. op[u].address \in AA /\ aa[op[u].address] \in Word /\ op[u].target \in Block
      BY <1>1, <3>2, SafeNow, JobFacts
    <3> QED
      BY <3>1, <3>3, NoneAssumption DEF Field
  <2> QED
    BY <1>1, <2>1, SafeNow, CopiedNow
<1> DEFINE d == get_abstract_address_of_page_block(mem, part[aa[a].blk])
<1>3. CASE free_in_place(t, a)
  <2>1. aa' = [aa EXCEPT ![a] = Null] /\ op' = op
    BY <1>3, Zenon DEF free_in_place, clear_abstract_address
  <2> QED
    BY <1>2, <2>1, MarkedSame
<1>4. CASE free_while_copied(t, a)
  <2> DEFINE v == [aa EXCEPT ![d].free = TRUE]
  <2>1. crash \/ (aa' = [v EXCEPT ![a] = Null] /\ op' = op)
    BY <1>4, Zenon DEF free_while_copied, clear_abstract_address
  <2>2. being_copied(aa[a].blk)
    BY <1>4, Zenon DEF free_while_copied
  <2>3. Marked(aa, v, a)
    BY <1>2, <2>2, MarkedSame, MarkedFlag
  <2> HIDE DEF v
  <2>4. Marked(aa, [v EXCEPT ![a] = Null], a)
    BY <1>2, <2>3, MarkedSame
  <2> QED
    BY <2>1, <2>4, Zenon
<1>5. CASE free_and_compact(t, a)
  <2>1. do_compaction(t, a, aa[a].blk, Null, aa, mem, {})
    BY <1>5, Zenon DEF free_and_compact
  <2> QED
    BY <1>1, <1>2, <2>1, MarkedSame, CompactionMarks
<1>6. CASE free_while_copied_and_compact(t, a)
  <2> DEFINE x == part[aa[a].blk]
             v == [aa EXCEPT ![d].free = TRUE, ![a] = points_to(x)]
  <2>1. /\ being_copied(aa[a].blk)
        /\ do_compaction(t, a, x, page_of(aa[a].blk), v, [mem EXCEPT ![x][Increments] = a],
                         {aa[a].blk})
    BY <1>6, Zenon DEF free_while_copied_and_compact
  <2>2. Marked(aa, [aa EXCEPT ![d].free = TRUE], a) /\ points_to(x) \in Word
    BY <1>2, <2>1, MarkedSame, MarkedFlag, PointsTo
  <2>3. v = [[aa EXCEPT ![d].free = TRUE] EXCEPT ![a] = points_to(x)]
    OBVIOUS
  <2>4. Marked(aa, v, a)
    BY <1>2, <2>2, <2>3, MarkedSame
  <2> HIDE DEF v, x, d
  <2> QED
    BY <1>1, <1>2, <2>1, <2>4, CompactionMarks
<1> QED
  BY <1>1, <1>3, <1>4, <1>5, <1>6, Zenon DEF cf_free

(* Freeing a does not end a move of another object, nor does it begin one  *)
(* but that of the thread itself.                                          *)
LEMMA FreeMoves ==
  ASSUME Safe, NEW t \in Thread, NEW a \in AA, cf_free(t, a), heap'.ok, SafeStep
  PROVE  \/ op' = op /\ MovedIn(aa', op') = MovedIn(aa, op) \ {a}
         \/ /\ returning_of(op') = returning_of(op) \cup {a}
            /\ \/ MovedIn(aa', op') = MovedIn(aa, op) \ {a}
               \/ /\ Increments > 1
                  /\ \E b \in live \ {a} : MovedIn(aa', op') = (MovedIn(aa, op) \ {a}) \cup {b}
<1>1. heap.ok /\ op[t] = Null /\ a \in live /\ live' = live \ {a}
  BY Zenon DEF cf_free
<1>2. ~crash
  BY <1>1, SafeNow DEF crash, SizeClassType, WellFormed
<1>3. op \in [Thread -> Job \cup {Null}] /\ aa \in Words
  BY <1>1, SafeNow
<1>4. /\ Protocol(aa, mem, part, live, op, used_blocks(heap), {}, {}) /\ Suspended(op)
      /\ Protocol(aa', mem', part', live', op', used_blocks(heap'), {}, {}) /\ Suspended(op')
  BY <1>1, SafeNow, FoundNext DEF SafeStep
<1>5. CASE ~Incremental
  <2>1. \A u \in Thread : op[u] = Null /\ op'[u] = Null
    BY <1>4, <1>5, IncrementsAssumption DEF Suspended, Incremental
  <2>2. MovedIn(aa, op) = {} /\ MovedIn(aa', op') = {}
    BY <2>1 DEF MovedIn, CopyingIn
  <2>3. op' = op
    <3>1. op' \in [Thread -> Job \cup {Null}]
      BY <1>4 DEF Protocol, Typed
    <3> QED
      BY <1>3, <2>1, <3>1
  <2> QED
    BY <2>2, <2>3
<1>6. CASE Incremental
  <2>1. Marked(aa, aa', a) /\ (op' = op \/ \E j : j.address = a /\ op' = [op EXCEPT ![t] = j])
    BY <1>2, <1>6, FreeMarks
  <2>2. \A u \in Thread : u # t => op'[u] = op[u]
    BY <1>3, <2>1
  <2>3. ASSUME NEW d \in MovedIn(aa, op), d # a PROVE d \in MovedIn(aa', op')
    <3>1. PICK u \in CopyingIn(aa, op) : d = op[u].src_aa
      BY DEF MovedIn
    <3>2. aa[d] = [blk |-> op[u].src, compact |-> TRUE, free |-> FALSE] /\ d \in live
      BY <1>4, <3>1, CopyFacts DEF InProgress
    <3>3. d \in AA /\ d \in live' /\ (aa'[d] = aa[d] \/ aa'[d].compact \/ aa'[d].free)
      BY <1>1, <1>4, <2>1, <2>3, <3>2, ObjectFacts DEF Marked
    <3>4. aa'[d] # points_to(aa'[d].blk)
      BY <3>2, <3>3 DEF points_to
    <3>5. aa'[d].blk \in SourcesIn(aa', op')
      BY <1>4, <3>3, <3>4 DEF Protocol, ObjectsPlain
    <3>6. PICK y \in CopyingIn(aa', op') : aa'[d].blk = op'[y].src
      BY <3>5 DEF SourcesIn
    <3>7. d = op'[y].src_aa
      BY <1>4, <3>3, <3>6, ObjectBlock
    <3> QED
      BY <3>7 DEF MovedIn
  <2>4. ASSUME NEW u \in CopyingIn(aa', op'), u # t
        PROVE  op'[u].src_aa \in MovedIn(aa, op) \ {a}
    <3>1. u \in Thread /\ op'[u] # Null /\ op'[u] = op[u]
      BY <2>2, <2>4 DEF CopyingIn
    <3>2. /\ op[u].address \in AA /\ op[u].address \notin live
          /\ op[u].target_aa = op[u].address /\ op[u].target_aa_val = points_to(op[u].target)
      BY <1>4, <3>1, JobFacts
    <3>3. aa'[op[u].address] = points_to(op[u].target)
      BY <1>4, <3>1, CopyFacts
    <3>4. ~aa'[op[u].address].compact /\ ~aa'[op[u].address].free
      BY <3>3 DEF points_to
    <3>5. aa[op[u].address] = aa'[op[u].address]
      BY <1>1, <2>1, <3>2, <3>4 DEF Marked
    <3>6. u \in CopyingIn(aa, op)
      BY <3>1, <3>2, <3>3, <3>5 DEF CopyingIn
    <3>7. op'[u].src_aa \in live'
      BY <1>4, CopyFacts
    <3> QED
      BY <1>1, <3>1, <3>6, <3>7 DEF MovedIn
  <2>5. CASE t \notin CopyingIn(aa', op')
    <3>1. MovedIn(aa', op') = MovedIn(aa, op) \ {a}
      <4>1. ASSUME NEW d \in MovedIn(aa', op') PROVE d \in MovedIn(aa, op) \ {a}
        BY <2>4, <2>5 DEF MovedIn
      <4> QED
        BY <2>3, <4>1
    <3>2. CASE op' = op
      BY <3>1, <3>2
    <3>3. ASSUME NEW j, j.address = a, op' = [op EXCEPT ![t] = j], j # Null
          PROVE  returning_of(op') = returning_of(op) \cup {a}
      <4>1. op'[t] = j
        BY <1>3, <3>3
      <4> QED
        BY <1>1, <2>2, <3>3, <4>1 DEF returning_of
    <3>4. ASSUME NEW j, op' = [op EXCEPT ![t] = j], j = Null PROVE op' = op
      BY <1>1, <1>3, <3>4
    <3> QED
      BY <2>1, <3>1, <3>2, <3>3, <3>4
  <2>6. CASE t \in CopyingIn(aa', op')
    <3>1. op'[t] # Null /\ op'[t].src_aa \in live' /\ op'[t] \in Job
      <4>1. op'[t] # Null
        BY <2>6 DEF CopyingIn
      <4> QED
        BY <1>4, <2>6, <4>1, CopyFacts, JobFacts
    <3>2. PICK j : j.address = a /\ op' = [op EXCEPT ![t] = j]
      BY <1>1, <2>1, <3>1
    <3>3. op'[t] = j
      BY <1>3, <3>2
    <3>4. returning_of(op') = returning_of(op) \cup {a}
      BY <1>1, <2>2, <3>1, <3>2, <3>3 DEF returning_of
    <3>5. MovedIn(aa', op') = (MovedIn(aa, op) \ {a}) \cup {op'[t].src_aa}
      <4>1. ASSUME NEW d \in MovedIn(aa', op')
            PROVE  d \in (MovedIn(aa, op) \ {a}) \cup {op'[t].src_aa}
        BY <2>4 DEF MovedIn
      <4>2. op'[t].src_aa \in MovedIn(aa', op')
        BY <2>6 DEF MovedIn
      <4> QED
        BY <2>3, <4>1, <4>2
    <3> QED
      BY <1>1, <1>6, <3>1, <3>4, <3>5 DEF Incremental
  <2> QED
    BY <2>5, <2>6
<1> QED
  BY <1>5, <1>6

LEMMA FreeImplements ==
  ASSUME Safe, NEW t \in Thread, NEW a \in AA, cf_free(t, a)
  PROVE  Heap!MovingNext /\ (Increments = 1 => Heap!Next)
<1>1. heap.ok /\ op[t] = Null /\ a \in live /\ live' = live \ {a}
  BY Zenon DEF cf_free
<1>2. SafeStep
  BY <1>1, FreeSafe
<1>3. Heap!MovesAccounted'
  BY <1>1, <1>2, AccountedNext
<1>4. ASSUME objects_of(aa', mem', live') = [c \in live \ {a} |-> objects_of(aa, mem, live)[c]],
             returning_of(op') \in {returning_of(op), returning_of(op) \cup {a}}
      PROVE  Heap!Free(a)
  BY <1>1, <1>4 DEF Heap!Free, objects_of, dereferenced, cf_dereference, returning_of
<1>5. CASE ~heap'.ok
  <2>1. aa' = aa /\ mem' = mem /\ op' = op
    BY <1>2, <1>5 DEF SafeStep, crash
  <2>2. objects_of(aa', mem', live') = [c \in live \ {a} |-> objects_of(aa, mem, live)[c]]
    BY <1>1, <2>1 DEF objects_of
  <2> QED
    BY <1>3, <1>4, <2>1, <2>2 DEF Heap!Next, Heap!MovingNext
<1>6. CASE heap'.ok
  <2>1. /\ objects_of(aa, mem, live) = found(MovedIn(aa, op), live)
        /\ MovedIn(aa, op) \in SUBSET live /\ live \in SUBSET AA
        /\ objects_of(aa', mem', live') = found(MovedIn(aa', op'), live')
    BY <1>1, <1>2, <1>6, FoundNow, FoundNext DEF SafeStep
  <2>2. CASE MovedIn(aa', op') = MovedIn(aa, op) \ {a} /\ returning_of(op') \in {returning_of(op), returning_of(op) \cup {a}}
    <3>1. objects_of(aa', mem', live') = [c \in live \ {a} |-> objects_of(aa, mem, live)[c]]
      BY <1>1, <2>1, <2>2 DEF found
    <3> QED
      BY <1>3, <1>4, <2>2, <3>1 DEF Heap!Next, Heap!MovingNext
  <2>3. ASSUME returning_of(op') = returning_of(op) \cup {a}, Increments > 1,
               NEW b \in live \ {a}, MovedIn(aa', op') = (MovedIn(aa, op) \ {a}) \cup {b}
        PROVE  Heap!MovingNext /\ Increments # 1
    <3>1. objects_of(aa', mem', live')
          = [c \in live \ {a} |-> IF c = b THEN off_by_a_flag ELSE objects_of(aa, mem, live)[c]]
      BY <1>1, <2>1, <2>3 DEF found
    <3>2. Heap!FreeAndMove(a, b)
      BY <1>1, <2>3, <3>1
      DEF Heap!FreeAndMove, objects_of, dereferenced, cf_dereference, returning_of
    <3>3. b \in AA
      BY <2>1
    <3> QED
      BY <1>3, <2>3, <3>2, <3>3, IncrementsAssumption DEF Heap!MovingNext
  <2>4. \/ op' = op /\ MovedIn(aa', op') = MovedIn(aa, op) \ {a}
        \/ /\ returning_of(op') = returning_of(op) \cup {a}
           /\ \/ MovedIn(aa', op') = MovedIn(aa, op) \ {a}
              \/ /\ Increments > 1
                 /\ \E b \in live \ {a} : MovedIn(aa', op') = (MovedIn(aa, op) \ {a}) \cup {b}
    BY <1>2, <1>6, FreeMoves
  <2> QED
    BY <2>2, <2>3, <2>4
<1> QED
  BY <1>5, <1>6

(* A thread whose address is let go of.                                    *)
LEMMA AddressReturned ==
  ASSUME Safe, heap.ok, NEW t \in Thread, op[t] # Null, op' = [op EXCEPT ![t] = Null]
  PROVE  /\ op[t].address \in returning_of(op) /\ op[t].address \in AA
         /\ returning_of(op') = returning_of(op) \ {op[t].address}
         /\ \A u \in Thread : u # t => op'[u] = op[u]
         /\ \A u \in Thread : u # t /\ op[u] # Null => op[u].address # op[t].address
         /\ op'[t] = Null
<1>1. op'[t] = Null /\ \A u \in Thread : u # t => op'[u] = op[u]
  BY SafeNow
<1>2. \A u \in Thread : u # t /\ op[u] # Null => op[u].address # op[t].address
  <2>1. AddressesConserved
    BY SafeAddresses
  <2> QED
    BY <2>1 DEF AddressesConserved
<1>3. op[t].address \in returning_of(op) /\ op[t].address \in AA
  BY SafeNow, JobFacts DEF returning_of
<1> DEFINE d == op[t].address
<1>4. \A e \in returning_of(op) \ {d} : e \in returning_of(op')
  BY <1>1 DEF returning_of
<1>5. \A e \in returning_of(op') : e \in returning_of(op) /\ e # d
  BY <1>1, <1>2 DEF returning_of
<1> QED
  BY <1>1, <1>2, <1>3, <1>4, <1>5

LEMMA AbortImplements ==
  ASSUME Safe, heap.ok, NEW t \in Thread, op[t] # Null, live' = live, SafeStep, heap'.ok,
         aa[op[t].target_aa] # op[t].target_aa_val,
         clear_abstract_address(aa, op[t].target_aa), op' = [op EXCEPT ![t] = Null],
         NEW d, d = op[t].address
  PROVE  Heap!Return(d)
<1>1. /\ d \in returning_of(op) /\ d \in AA
      /\ returning_of(op') = returning_of(op) \ {d}
      /\ \A u \in Thread : u # t => op'[u] = op[u]
      /\ \A u \in Thread : u # t /\ op[u] # Null => op[u].address # d
      /\ op'[t] = Null
  BY AddressReturned
<1>2. aa' = [aa EXCEPT ![d] = Null]
  <2>1. op[t].target_aa = d
    BY SafeNow, JobFacts
  <2> QED
    BY <2>1, Zenon DEF clear_abstract_address
<1>3. CopyingIn(aa', op') = CopyingIn(aa, op)
  <2>1. t \notin CopyingIn(aa, op) /\ t \notin CopyingIn(aa', op')
    BY <1>1 DEF CopyingIn
  <2>2. ASSUME NEW u \in Thread, u # t, op[u] # Null
        PROVE  aa'[op[u].target_aa] = aa[op[u].target_aa] /\ op'[u] = op[u]
    <3>1. op[u].target_aa = op[u].address /\ op[u].address \in AA /\ op[u].address # d
      BY <1>1, <2>2, SafeNow, JobFacts
    <3> QED
      BY <1>1, <1>2, <2>2, <3>1, SafeNow DEF Words
  <2>3. \A u \in Thread : u \in CopyingIn(aa', op') <=> u \in CopyingIn(aa, op)
    <3> SUFFICES ASSUME NEW u \in Thread, u # t
                 PROVE  u \in CopyingIn(aa', op') <=> u \in CopyingIn(aa, op)
      BY <2>1
    <3>1. op'[u] = op[u]
      BY <1>1
    <3> QED
      BY <2>2, <3>1 DEF CopyingIn
  <2> QED
    BY <2>3 DEF CopyingIn
<1>4. MovedIn(aa', op') = MovedIn(aa, op)
  <2>1. \A u \in CopyingIn(aa, op) : op'[u] = op[u]
    BY <1>1 DEF CopyingIn
  <2> QED
    BY <1>3, <2>1 DEF MovedIn
<1>5. objects_of(aa', mem', live') = objects_of(aa, mem, live)
  BY <1>4, FoundNow, FoundNext DEF SafeStep
<1> QED
  BY <1>1, <1>5
  DEF Heap!Return, objects_of, dereferenced, cf_dereference, returning_of

LEMMA FinishImplements ==
  ASSUME Safe, heap.ok, NEW t \in Thread, op[t] # Null, live' = live, SafeStep, heap'.ok,
         aa[op[t].target_aa] = op[t].target_aa_val,
         clear_abstract_address(redirect_address(aa, op[t]), op[t].address),
         op' = [op EXCEPT ![t] = Null],
         NEW d, d = op[t].address, NEW b, b = op[t].src_aa
  PROVE  Heap!ReturnMoved(d, b)
<1>1. /\ d \in returning_of(op) /\ d \in AA
      /\ returning_of(op') = returning_of(op) \ {d}
      /\ \A u \in Thread : u # t => op'[u] = op[u]
      /\ \A u \in Thread : u # t /\ op[u] # Null => op[u].address # d
      /\ op'[t] = Null
  BY AddressReturned
<1>2. t \in CopyingIn(aa, op)
  BY DEF CopyingIn
<1>3. b \in live /\ b \in AA /\ b # d /\ b \in MovedIn(aa, op)
  BY <1>2, SafeNow, CopyFacts, JobFacts DEF MovedIn
<1>4. \A e \in AA : e # d /\ e # b => aa'[e] = aa[e]
  BY <1>1, <1>3, SafeNow DEF clear_abstract_address, redirect_address, Words
<1>5. CopyingIn(aa', op') = CopyingIn(aa, op) \ {t}
  <2>1. t \notin CopyingIn(aa', op')
    BY <1>1 DEF CopyingIn
  <2>2. ASSUME NEW u \in Thread, u # t, op[u] # Null
        PROVE  aa'[op[u].target_aa] = aa[op[u].target_aa] /\ op'[u] = op[u]
    <3>1. /\ op[u].target_aa = op[u].address /\ op[u].address \in AA /\ op[u].address # d
          /\ op[u].address \notin live
      BY <1>1, <2>2, SafeNow, JobFacts
    <3> QED
      BY <1>1, <1>3, <1>4, <2>2, <3>1
  <2>3. ASSUME NEW u \in Thread, u # t
        PROVE  u \in CopyingIn(aa', op') <=> u \in CopyingIn(aa, op)
    <3>1. op'[u] = op[u]
      BY <1>1, <2>3
    <3> QED
      BY <2>2, <2>3, <3>1 DEF CopyingIn
  <2> QED
    BY <2>1, <2>3 DEF CopyingIn
<1>6. MovedIn(aa', op') = MovedIn(aa, op) \ {b}
  <2>1. \A u \in CopyingIn(aa, op) \ {t} : op'[u] = op[u] /\ op[u].src_aa # b
    <3> SUFFICES ASSUME NEW u \in CopyingIn(aa, op), u # t
                 PROVE  op'[u] = op[u] /\ op[u].src_aa # b
      OBVIOUS
    <3> QED
      <4>1. u \in Thread /\ op'[u] = op[u]
        BY <1>1 DEF CopyingIn
      <4>2. Protocol(aa, mem, part, live, op, used_blocks(heap), {}, {})
        BY SafeNow
      <4> QED
        BY <1>2, <4>1, <4>2, CopiesApart
  <2>2. ASSUME NEW e \in MovedIn(aa', op') PROVE e \in MovedIn(aa, op) /\ e # b
    <3>1. PICK u \in CopyingIn(aa, op) \ {t} : e = op'[u].src_aa
      BY <1>5 DEF MovedIn
    <3> QED
      BY <2>1, <3>1 DEF MovedIn
  <2>3. ASSUME NEW e \in MovedIn(aa, op), e # b PROVE e \in MovedIn(aa', op')
    <3>1. PICK u \in CopyingIn(aa, op) : e = op[u].src_aa
      BY DEF MovedIn
    <3>2. u # t
      BY <2>3, <3>1
    <3>3. u \in CopyingIn(aa', op') /\ e = op'[u].src_aa
      BY <1>5, <2>1, <3>1, <3>2
    <3> QED
      BY <3>3 DEF MovedIn
  <2> QED
    BY <2>2, <2>3
<1>7. /\ objects_of(aa, mem, live) = found(MovedIn(aa, op), live)
      /\ objects_of(aa', mem', live') = found(MovedIn(aa, op) \ {b}, live)
  BY <1>6, FoundNow, FoundNext DEF SafeStep
<1>8. /\ objects_of(aa', mem', live') = [objects_of(aa, mem, live) EXCEPT ![b] = Fresh(b)]
      /\ objects_of(aa, mem, live)[b] = off_by_a_flag
  BY <1>3, <1>7 DEF found
<1> QED
  BY <1>1, <1>3, <1>8
  DEF Heap!ReturnMoved, objects_of, dereferenced, cf_dereference, returning_of

LEMMA ResumeImplements ==
  ASSUME Safe, NEW t \in Thread, resume_compaction(t)
  PROVE  (UNCHANGED Heap!vars \/ Heap!MovingNext) /\ Increments # 1
<1> DEFINE j == op[t]
<1>1. /\ heap.ok /\ j # Null /\ live' = live
      /\ abort_compaction(t, j) \/ copy_chunk(t, j)
  BY Zenon DEF resume_compaction
<1>2. SafeStep /\ op \in [Thread -> Job \cup {Null}] /\ j \in Job
  BY <1>1, ResumeSafe, SafeNow
<1>3. Increments # 1 /\ j.copied + 1 \in Chunk
  <2>1. 1 < Increments /\ j.copied < Increments
    BY <1>1, SafeNow DEF Suspended
  <2> QED
    BY <1>2, <2>1, IncrementsAssumption DEF Job, Chunk
<1>4. CASE crash
  BY <1>1, <1>3, <1>4 DEF crash, Heap!vars, cf_dereference
<1>5. ASSUME ~crash PROVE heap'.ok /\ Heap!MovesAccounted'
  BY <1>1, <1>2, <1>5, AccountedNext DEF SafeStep
<1>6. CASE ~crash /\ abort_compaction(t, j)
  <2>1. /\ aa[j.target_aa] # j.target_aa_val
        /\ clear_abstract_address(aa, j.target_aa) /\ op' = [op EXCEPT ![t] = Null]
    BY <1>6, Zenon DEF abort_compaction
  <2>2. \E d \in AA : Heap!Return(d)
    <3>1. PICK d \in AA : d = j.address
      BY <1>2 DEF Job
    <3>2. Heap!Return(d)
      BY <1>1, <1>2, <1>5, <1>6, <2>1, <3>1, AbortImplements
    <3> QED
      BY <3>2, Zenon
  <2> QED
    BY <1>3, <1>5, <1>6, <2>2 DEF Heap!Next, Heap!MovingNext
<1>7. ASSUME ~crash, copy_chunk(t, j), j.copied + 1 = Increments
      PROVE  Heap!MovingNext
  <2>1. /\ aa[j.target_aa] = j.target_aa_val
        /\ clear_abstract_address(redirect_address(aa, j), j.address)
        /\ op' = [op EXCEPT ![t] = Null]
    BY <1>7, IncrementsAssumption DEF copy_chunk, finish
  <2>2. \E d, b \in AA : Heap!ReturnMoved(d, b)
    <3>1. PICK d \in AA : d = j.address
      BY <1>2 DEF Job
    <3>2. PICK b \in AA : b = j.src_aa
      BY <1>2 DEF Job
    <3>3. Heap!ReturnMoved(d, b)
      BY <1>1, <1>2, <1>5, <1>7, <2>1, <3>1, <3>2, FinishImplements
    <3> QED
      BY <3>3, Zenon
  <2> QED
    BY <1>5, <1>7, <2>2 DEF Heap!MovingNext
<1>8. ASSUME ~crash, copy_chunk(t, j), j.copied + 1 # Increments
      PROVE  UNCHANGED Heap!vars
  <2>1. aa' = aa /\ op' = [op EXCEPT ![t].copied = j.copied + 1]
    BY <1>8, Zenon DEF copy_chunk
  <2>2. op'[t] = [j EXCEPT !.copied = j.copied + 1] /\ \A y \in Thread : y # t => op'[y] = op[y]
    BY <1>2, <2>1
  <2>3. /\ [j EXCEPT !.copied = j.copied + 1] \in Job
        /\ [j EXCEPT !.copied = j.copied + 1].address = j.address
        /\ [j EXCEPT !.copied = j.copied + 1].target_aa = j.target_aa
        /\ [j EXCEPT !.copied = j.copied + 1].target_aa_val = j.target_aa_val
        /\ [j EXCEPT !.copied = j.copied + 1].src_aa = j.src_aa
    BY <1>2, <1>3 DEF Job
  <2>4. op'[t] # Null
    BY <2>2, <2>3, NoneAssumption
  <2>5. \A y \in Thread : /\ op'[y] # Null <=> op[y] # Null
                          /\ op'[y].address = op[y].address
                          /\ op'[y].target_aa = op[y].target_aa
                          /\ op'[y].target_aa_val = op[y].target_aa_val
                          /\ op'[y].src_aa = op[y].src_aa
    BY <1>1, <2>2, <2>3, <2>4
  <2>6. returning_of(op') = returning_of(op)
    BY <2>5 DEF returning_of
  <2>7. CopyingIn(aa', op') = CopyingIn(aa, op)
    BY <2>1, <2>5 DEF CopyingIn
  <2>8. MovedIn(aa', op') = MovedIn(aa, op)
    BY <2>5, <2>7 DEF MovedIn, CopyingIn
  <2>9. objects_of(aa', mem', live') = objects_of(aa, mem, live)
    BY <1>1, <1>2, <1>5, <1>8, <2>8, FoundNow, FoundNext DEF SafeStep
  <2> QED
    BY <1>1, <2>6, <2>9
    DEF Heap!vars, objects_of, dereferenced, cf_dereference, returning_of
<1> QED
  BY <1>1, <1>3, <1>4, <1>6, <1>7, <1>8

LEMMA NextImplements ==
  ASSUME Safe, [Next]_vars
  PROVE  /\ [Heap!MovingNext]_Heap!vars
         /\ Increments = 1 => [Heap!Next]_Heap!vars
<1>1. CASE UNCHANGED vars
  BY <1>1 DEF vars, Heap!vars, cf_dereference
<1> QED
  BY <1>1, MallocImplements, FreeImplements, ResumeImplements DEF Next

(* Every critical section of a class is an allocation, a free, a return of *)
(* the address of a freed object, or the begin or the end of a move; what  *)
(* cf_dereference finds is always what the owner put there, but for the    *)
(* objects being moved: at most one for each cf_free that is in            *)
(* do_compaction, for as long as the flag of cf.c 1574 is in their word    *)
(* (cf.c 2056-2063).                                                       *)
THEOREM Implements == Spec => ImplementsMovingHeap
<1>1. Safe /\ [Next]_vars => [Heap!MovingNext]_Heap!vars
  BY NextImplements
<1> QED
  BY <1>1, HeapInit, Safety, PTL DEF Spec, ImplementsMovingHeap, Heap!MovingSpec

(* Where objects are moved as a whole, with incremental_memcpy off or      *)
(* blocks of one increment, no flag is there between critical sections:    *)
(* the size-class is the heap of cf.h, with cf_dereference as cf.h 72-77   *)
(* has it.                                                                 *)
THEOREM ImplementsWhole ==
  ASSUME Increments = 1
  PROVE  Spec => ImplementsHeap
<1>1. Safe /\ [Next]_vars => [Heap!Next]_Heap!vars
  BY NextImplements
<1> QED
  BY <1>1, HeapInit, Safety, PTL DEF Spec, ImplementsHeap, Heap!Spec
=============================================================================
