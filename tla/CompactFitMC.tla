---------------------------- MODULE CompactFitMC ----------------------------
(***************************************************************************)
(* Symmetry for the runs of CompactFit.  Threads and pages are             *)
(* interchangeable and few: a SYMMETRY set.  Abstract addresses are        *)
(* interchangeable too, but too many to permute; View renames each after   *)
(* the one thing that has it: the block a live address points to, or the   *)
(* thread that is in cf_free with it.  The renaming is injective on the    *)
(* addresses in use, so states with the same view differ by a permutation  *)
(* of AA, and in what an aborted compaction remembers and never looks at   *)
(* again.  The liveness run uses neither.                                  *)
(***************************************************************************)
EXTENDS CompactFit

Symmetry == Permutations(Thread) \cup Permutations(Page)

freed_by(a) == {t \in Thread : op[t] # Null /\ op[t].address = a}
name(a) ==
  IF a \in live THEN aa[a].blk
  ELSE IF freed_by(a) # {} THEN CHOOSE t \in Thread : t \in freed_by(a)
  ELSE Null
name_of_word(w) == IF w \in AA THEN name(w) ELSE w

(* The liveness run instead fixes which free address and which free page   *)
(* come out of their pools; any other choice is a renaming of this one.    *)
LowestFirst ==
  /\ \A a \in live' \ live : a = CHOOSE x \in pool : TRUE
  /\ \A p \in free_pages(heap) \ free_pages(heap') : p = CHOOSE x \in free_pages(heap) : TRUE

View ==
  << vars = vars,  \* has TLC put every set of the state in normal form first
     heap, part, pool \cap live,
     {<<name(a), aa[a]>> : a \in AA},
     [b \in Block |-> [c \in Chunk |-> name_of_word(mem[b][c])]],
     [t \in Thread |->
        IF op[t] = Null THEN Null
        ELSE IF t \notin Copying THEN <<name(op[t].target_aa), op[t].releases>>
        ELSE <<name(op[t].address), name(op[t].target_aa), op[t].target, op[t].target_aa_val,
               op[t].src, name(op[t].src_aa), op[t].copied, op[t].releases>>] >>
=============================================================================
