--------------------------- MODULE PageLockingMC ---------------------------
(***************************************************************************)
(* Symmetry for the runs of PageLocking.  Threads, pages and classes are a *)
(* SYMMETRY set; View names an abstract address after the block of the     *)
(* object it belongs to, or after the thread that is freeing it, as in     *)
(* CompactFitMC.                                                           *)
(***************************************************************************)
EXTENDS PageLocking

Symmetry == Permutations(Thread) \cup Permutations(Page) \cup Permutations(Class)

freed_by(a) == {t \in Thread : job[t] # Null /\ job[t].address = a}
name(a) ==
  IF a \in live THEN aa[a]
  ELSE IF freed_by(a) # {} THEN CHOOSE t \in Thread : t \in freed_by(a)
  ELSE Null

View ==
  << vars = vars,  \* has TLC put every set of the state in normal form first
     heap, page_sc, class_lock, page_lock,
     {<<name(a), aa[a]>> : a \in AA},
     [b \in Block |-> IF mem[b] \in AA THEN name(mem[b]) ELSE mem[b]],
     [t \in Thread |->
        IF job[t] = Null THEN Null
        ELSE << job[t].at, job[t].sc, job[t].blk, job[t].src,
                IF job[t].address = Null THEN Null ELSE name(job[t].address),
                IF at(t, "copy") THEN name(job[t].src_aa) ELSE Null >>] >>
=============================================================================
