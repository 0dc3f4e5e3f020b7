------------------------- MODULE PageLockingProofs -------------------------
(***************************************************************************)
(* Proofs about PageLocking: the locks of classes and pages protect what   *)
(* the code takes them for, for every number of threads, classes, pages    *)
(* and blocks.                                                             *)
(*                                                                         *)
(* The invariant Inv is said of parameters, which stand for                *)
(*   h  the size-classes        s  the sc fields of the pages              *)
(*   w  the words of addresses  m  the memory                              *)
(*   k  the locks of classes    l  the locks of pages                      *)
(*   L  the live addresses      J  the calls threads are in                *)
(* It relates the two looks cf_free has at an address (Looked), the locks  *)
(* and the places of calls (LocksHeld), classes and their pages            *)
(* (PagesApart, Counted), and addresses and blocks (Objects, Copied).      *)
(***************************************************************************)
EXTENDS PageLocking, SizeClassProofs

Freeing == {"retry", "class", "lock", "check", "source", "redirect"}
Moving == {"copy", "relock"}
In(J, P) == {t \in Thread : J[t] # Null /\ J[t].at \in P}

(* The addresses of objects: cf_free gives up the one it frees when it     *)
(* moves another object to the block.                                      *)
Owned(L, J) == L \cup {J[t].address : t \in In(J, Freeing)}

(* What the locals of a call are at its places.                            *)
Placed(j) ==
  /\ j.at = "malloc" <=> j.address = Null
  /\ j.at \in {"malloc", "lock", "check", "source", "redirect"} \cup Moving => j.sc \in Class
  /\ j.at \in {"class", "lock", "check", "source", "redirect"} \cup Moving => j.blk \in Block
  /\ j.at \in {"redirect"} \cup Moving => j.src \in Block
  /\ j.at \in Moving => j.src_aa \in AA
Typed == TypeOK /\ \A t \in Thread : job[t] # Null => Placed(job[t])

(* The lock of a class is held from malloc_lock or dereference on, those   *)
(* of the pages while do_compaction picks a source and copies.             *)
HasClass(j, c) == j # Null /\ j.at \in {"malloc", "check", "source", "redirect"} /\ j.sc = c
HasPage(j, p) ==
  j # Null /\ \/ j.at \in {"source", "redirect", "copy"} /\ p = page_of(j.blk)
              \/ j.at \in {"redirect", "copy"} /\ p = page_of(j.src)
LocksHeld(k, l, J) ==
  \A t \in Thread : /\ \A c \in Class : k[c] = t <=> HasClass(J[t], c)
                    /\ \A p \in Page : l[p] = t <=> HasPage(J[t], p)

(* A page with blocks that are used or being copied has the class it names.*)
PagesApart(h, s) ==
  \A c \in Class :
    /\ WellFormed(h[c])
    /\ \A p \in Page : h[c].used[p] # {} \/ h[c].sourceentries[p] # 0 => s[p] = c

(* sourceentries counts the calls that have a block of the page to release.*)
MovedFrom(J, c, p) == {t \in In(J, Moving) : J[t].sc = c /\ page_of(J[t].src) = p}
Counted(h, J) ==
  \A c \in Class, p \in Page : h[c].sourceentries[p] = Cardinality(MovedFrom(J, c, p))

(* Nobody frees an address that is live, and no two calls free the same.   *)
AddressesApart(w, L, J) ==
  /\ \A a \in L : w[a] # Null
  /\ \A t \in Thread : J[t] # Null /\ J[t].address # Null =>
       /\ J[t].address \notin L /\ w[J[t].address] # Null
       /\ \A u \in Thread : J[u] # Null /\ J[u].address = J[t].address => u = t

(* The used blocks are those of the objects, one for each, and have their  *)
(* contents, but for an object that is being copied.                       *)
all_used(h) == UNION {used_blocks(h[c]) : c \in Class}
Objects(h, w, m, L, J) ==
  /\ {w[a] : a \in Owned(L, J)} = all_used(h)
  /\ \A a, b \in Owned(L, J) : w[a] = w[b] => a = b
  /\ \A a \in Owned(L, J) :
       m[w[a]] = a \/ \E t \in In(J, {"copy"}) : J[t].src_aa = a /\ J[t].blk = w[a]

(* A block that cf_free has read is in a page that some class has used; if *)
(* it is in a page of the class that is locked then it is what the address *)
(* says still, and neither its page nor the choice of the block to move    *)
(* changes before the compaction begins.                                   *)
is_full(h, p) == h.used[p] = Index
LookedAt(h, s, w, j) ==
  /\ j.at = "class" => s[page_of(j.blk)] \in Class
  /\ j.at = "check" /\ s[page_of(j.blk)] = j.sc => j.blk = w[j.address]
  /\ j.at \in {"source", "redirect"} =>
       /\ s[page_of(j.blk)] = j.sc /\ j.blk = w[j.address]
       /\ is_full(h[j.sc], page_of(j.blk))
       /\ ~in_full_state(h[j.sc])
  /\ j.at = "redirect" => j.src = source_block(h[j.sc])
Looked(h, s, w, J) == \A t \in Thread : J[t] # Null => LookedAt(h, s, w, J[t])

(* A copy without the class lock; and a call that waits to release the     *)
(* block it has copied.                                                    *)
CopyGoesOn(h, w, m, O, j) ==
  /\ j.src_aa \in O /\ w[j.src_aa] = j.blk /\ w[j.address] = j.blk
  /\ m[j.src] = j.src_aa /\ m[j.blk] = j.address
  /\ is_full(h[j.sc], page_of(j.blk))
Copied(h, w, m, L, J) ==
  /\ \A t \in In(J, {"copy"}) : CopyGoesOn(h, w, m, Owned(L, J), J[t])
  /\ \A t \in In(J, Moving) :
       /\ J[t].src \notin used_blocks(h[J[t].sc])
       /\ \A u \in In(J, Moving) : J[u].src = J[t].src => u = t

Inv ==
  /\ Typed
  /\ LocksHeld(class_lock, page_lock, job)
  /\ PagesApart(heap, page_sc)
  /\ Counted(heap, job)
  /\ AddressesApart(aa, live, job)
  /\ Objects(heap, aa, mem, live, job)
  /\ Looked(heap, page_sc, aa, job)
  /\ Copied(heap, aa, mem, live, job)

-----------------------------------------------------------------------------
(* One thread steps.                                                       *)
OthersKeep(J, K, t) ==
  /\ J \in [Thread -> Job \cup {Null}] /\ K \in [Thread -> Job \cup {Null}]
  /\ \A u \in Thread \ {t} : K[u] = J[u]

LEMMA OnlyOneSteps ==
  ASSUME NEW J \in [Thread -> Job \cup {Null}], NEW t \in Thread, NEW j \in Job \cup {Null},
         NEW K, K = [J EXCEPT ![t] = j]
  PROVE  OthersKeep(J, K, t) /\ K[t] = j
BY DEF OthersKeep

LEMMA InOthers ==
  ASSUME NEW J, NEW K, NEW t \in Thread, OthersKeep(J, K, t), NEW P
  PROVE  /\ \A u \in Thread \ {t} : u \in In(K, P) <=> u \in In(J, P)
         /\ t \in In(K, P) <=> K[t] # Null /\ K[t].at \in P
         /\ t \notin In(J, P) /\ t \notin In(K, P) => In(K, P) = In(J, P)
BY DEF In, OthersKeep

LEMMA LocksChange ==
  ASSUME NEW k, NEW l, NEW J, LocksHeld(k, l, J),
         NEW K, NEW t \in Thread, OthersKeep(J, K, t), NEW i, NEW n,
         \A c \in Class : (i[c] = t <=> HasClass(K[t], c))
                         /\ (i[c] = k[c] \/ {i[c], k[c]} \subseteq {t, Null}),
         \A p \in Page : (n[p] = t <=> HasPage(K[t], p))
                        /\ (n[p] = l[p] \/ {n[p], l[p]} \subseteq {t, Null})
  PROVE  LocksHeld(i, n, K)
<1>1. ASSUME NEW u \in Thread, u # t
      PROVE  /\ \A c \in Class : i[c] = u <=> HasClass(K[u], c)
             /\ \A p \in Page : n[p] = u <=> HasPage(K[u], p)
  <2>1. K[u] = J[u] /\ u # Null
    BY <1>1, NullAssumption DEF OthersKeep
  <2>2. \A c \in Class : i[c] = u <=> k[c] = u
    BY <1>1, <2>1
  <2>3. \A p \in Page : n[p] = u <=> l[p] = u
    BY <1>1, <2>1
  <2> QED
    BY <2>1, <2>2, <2>3 DEF LocksHeld
<1> QED
  BY <1>1 DEF LocksHeld

LEMMA QuietStep ==
  ASSUME NEW h, NEW w, NEW m, NEW L, NEW J, NEW M, NEW K, NEW t \in Thread,
         OthersKeep(J, K, t), t \notin In(J, Moving), t \notin In(K, Moving),
         Owned(M, K) = Owned(L, J)
  PROVE  /\ Counted(h, J) => Counted(h, K)
         /\ Objects(h, w, m, L, J) => Objects(h, w, m, M, K)
         /\ Copied(h, w, m, L, J) => Copied(h, w, m, M, K)
<1>1. In(K, Moving) = In(J, Moving) /\ \A u \in In(J, Moving) : K[u] = J[u]
  BY InOthers DEF In, OthersKeep
<1>2. In(K, {"copy"}) = In(J, {"copy"}) /\ In(J, {"copy"}) \subseteq In(J, Moving)
  <2>1. In(J, {"copy"}) = {u \in In(J, Moving) : J[u].at = "copy"}
    BY DEF In, Moving
  <2>2. In(K, {"copy"}) = {u \in In(K, Moving) : K[u].at = "copy"}
    BY DEF In, Moving
  <2> QED
    BY <1>1, <2>1, <2>2
<1>3. ASSUME NEW c, NEW p PROVE MovedFrom(K, c, p) = MovedFrom(J, c, p)
  BY <1>1 DEF MovedFrom
<1>4. Counted(h, J) => Counted(h, K)
  BY <1>3 DEF Counted
<1>5. ASSUME Objects(h, w, m, L, J) PROVE Objects(h, w, m, M, K)
  BY <1>1, <1>2, <1>5 DEF Objects
<1>6. ASSUME Copied(h, w, m, L, J) PROVE Copied(h, w, m, M, K)
  BY <1>1, <1>2, <1>6 DEF Copied
<1> QED
  BY <1>4, <1>5, <1>6

(* The block of an object is used, in the class of its page.               *)
LEMMA OwnedBlock ==
  ASSUME NEW h, NEW s, PagesApart(h, s), NEW w, NEW m, NEW L, NEW J, Objects(h, w, m, L, J)
  PROVE  /\ \A a \in Owned(L, J) :
              /\ w[a] \in Block /\ w[a] \in all_used(h)
              /\ s[page_of(w[a])] \in Class
              /\ w[a] \in used_blocks(h[s[page_of(w[a])]])
         /\ \A b \in all_used(h) : \E a \in Owned(L, J) : w[a] = b
         /\ \A c \in Class : \A b \in used_blocks(h[c]) :
              b \in Block /\ b \in all_used(h) /\ s[page_of(b)] = c
<1>1. \A c \in Class : \A b \in used_blocks(h[c]) :
        b \in Block /\ b \in all_used(h) /\ s[page_of(b)] = c
  <2> SUFFICES ASSUME NEW c \in Class, NEW b \in used_blocks(h[c])
               PROVE  b \in Block /\ b \in all_used(h) /\ s[page_of(b)] = c
    OBVIOUS
  <2>1. b \in Block /\ page_of(b) \in Page /\ h[c].used[page_of(b)] # {}
    BY BlockPair DEF used_blocks
  <2> QED
    BY <2>1 DEF PagesApart, all_used
<1>2. ASSUME NEW a \in Owned(L, J)
      PROVE  /\ w[a] \in Block /\ w[a] \in all_used(h)
             /\ s[page_of(w[a])] \in Class
             /\ w[a] \in used_blocks(h[s[page_of(w[a])]])
  <2>1. w[a] \in all_used(h)
    BY DEF Objects
  <2>2. PICK c \in Class : w[a] \in used_blocks(h[c])
    BY <2>1 DEF all_used
  <2> QED
    BY <1>1, <2>1, <2>2
<1>3. \A b \in all_used(h) : \E a \in Owned(L, J) : w[a] = b
  BY DEF Objects
<1> QED
  BY <1>1, <1>2, <1>3

Quiet(t) ==
  /\ t \notin In(job, Moving) /\ OthersKeep(job, job', t)
  /\ heap' = heap /\ page_sc' = page_sc /\ aa' = aa /\ mem' = mem
  /\ class_lock' \in [Class -> Thread \cup {Null}]
  /\ page_lock' \in [Page -> Thread \cup {Null}]
  /\ live' \in SUBSET AA /\ Owned(live', job') = Owned(live, job)
  /\ LocksHeld(class_lock', page_lock', job') /\ AddressesApart(aa, live', job')
  /\ job'[t] # Null => /\ job'[t].at \notin Moving /\ Placed(job'[t])
                       /\ LookedAt(heap, page_sc, aa, job'[t])

LEMMA QuietInv ==
  ASSUME Inv, NEW t \in Thread, Quiet(t)
  PROVE  Inv'
<1> USE DEF Quiet
<1>1. \A u \in Thread : u # t => job'[u] = job[u]
  BY DEF OthersKeep
<1>2. t \notin In(job', Moving)
  BY DEF In
<1>3. Typed'
  <2>1. job' \in [Thread -> Job \cup {Null}]
    BY DEF OthersKeep
  <2>2. \A u \in Thread : job'[u] # Null => Placed(job'[u])
    BY <1>1 DEF Inv, Typed
  <2>3. \A u \in Thread : job'[u] # Null /\ job'[u].at = "copy" =>
                           job'[u].src \in Block /\ job'[u].src_aa \in AA
    BY <2>2 DEF Placed, Moving
  <2> QED
    BY <2>1, <2>2, <2>3 DEF Inv, Typed, TypeOK, at
<1>4. Looked(heap, page_sc, aa, job')
  BY <1>1 DEF Inv, Looked
<1>5. /\ Counted(heap, job') /\ Objects(heap, aa, mem, live', job')
      /\ Copied(heap, aa, mem, live', job')
  BY <1>2, QuietStep DEF Inv
<1>6. PagesApart(heap, page_sc)
  BY DEF Inv
<1> QED
  BY <1>3, <1>4, <1>5, <1>6, Zenon DEF Inv

-----------------------------------------------------------------------------
(* Steps that change no page and no object.                                *)
LEMMA OwnedSame ==
  ASSUME NEW J, NEW K, NEW t \in Thread, OthersKeep(J, K, t), NEW L,
         t \in In(J, Freeing) <=> t \in In(K, Freeing),
         t \in In(J, Freeing) => K[t].address = J[t].address
  PROVE  Owned(L, K) = Owned(L, J)
<1>1. In(K, Freeing) = In(J, Freeing)
  BY InOthers DEF In
<1>2. \A u \in In(J, Freeing) : K[u].address = J[u].address
  BY DEF OthersKeep, In
<1> QED
  BY <1>1, <1>2 DEF Owned

LEMMA AddressesSame ==
  ASSUME NEW w, NEW L, NEW J, AddressesApart(w, L, J),
         NEW K, NEW t \in Thread, OthersKeep(J, K, t),
         K[t] # Null /\ K[t].address # Null => J[t] # Null /\ K[t].address = J[t].address
  PROVE  AddressesApart(w, L, K)
<1>1. ASSUME NEW u \in Thread, K[u] # Null, K[u].address # Null
      PROVE  J[u] # Null /\ K[u].address = J[u].address
  BY <1>1 DEF OthersKeep
<1> QED
  BY <1>1 DEF AddressesApart

LEMMA JobNow ==
  ASSUME Inv, NEW t \in Thread
  PROVE  /\ job \in [Thread -> Job \cup {Null}]
         /\ class_lock \in [Class -> Thread \cup {Null}]
         /\ page_lock \in [Page -> Thread \cup {Null}]
         /\ live \in SUBSET AA
         /\ \A c \in Class : class_lock[c] = t <=> HasClass(job[t], c)
         /\ \A p \in Page : page_lock[p] = t <=> HasPage(job[t], p)
         /\ job[t] # Null =>
              /\ job[t] \in Job /\ Placed(job[t]) /\ LookedAt(heap, page_sc, aa, job[t])
              /\ job[t].at \in Freeing => job[t].address \in Owned(live, job)
BY DEF Inv, Typed, TypeOK, LocksHeld, Looked, Owned, In

LEMMA MallocLockInv ==
  ASSUME Inv, NEW t \in Thread, NEW c \in Class, malloc_lock(t, c)
  PROVE  Inv'
<1> DEFINE k == call("malloc", Null, c)
<1>1. /\ job[t] = Null /\ class_lock[c] = Null
      /\ class_lock' = [class_lock EXCEPT ![c] = t] /\ job' = [job EXCEPT ![t] = k]
      /\ heap' = heap /\ page_sc' = page_sc /\ aa' = aa /\ mem' = mem
      /\ page_lock' = page_lock /\ live' = live
  BY DEF malloc_lock, lock_sizeClass
<1>2. k \in Job /\ k.at = "malloc" /\ k.address = Null /\ k.sc = c
  BY DEF call, Job
<1> HIDE DEF k
<1>3. OthersKeep(job, job', t) /\ job'[t] = k /\ k # Null
  <2>1. job \in [Thread -> Job \cup {Null}] /\ k \in Job \cup {Null} /\ k # Null
    BY <1>2, JobNow, NoneAssumption
  <2> QED
    BY ONLY t \in Thread, <1>1, <2>1, OnlyOneSteps
<1>4. Placed(k) /\ LookedAt(heap, page_sc, aa, k)
  BY <1>2 DEF Placed, LookedAt, Moving
<1>5. LocksHeld(class_lock', page_lock', job')
  <2>1. LocksHeld(class_lock, page_lock, job)
    BY DEF Inv
  <2>2. \A d \in Class : (class_lock'[d] = t <=> HasClass(k, d))
                         /\ (class_lock'[d] = class_lock[d]
                             \/ {class_lock'[d], class_lock[d]} \subseteq {t, Null})
    BY <1>1, <1>2, <1>3, JobNow DEF HasClass
  <2>3. \A p \in Page : (page_lock'[p] = t <=> HasPage(k, p))
                        /\ (page_lock'[p] = page_lock[p]
                            \/ {page_lock'[p], page_lock[p]} \subseteq {t, Null})
    BY <1>1, <1>2, JobNow DEF HasPage
  <2> QED
    BY <1>3, <2>1, <2>2, <2>3, LocksChange
<1>6. AddressesApart(aa, live', job')
  BY <1>1, <1>2, <1>3, AddressesSame DEF Inv
<1>7. t \notin In(job, Freeing) /\ t \notin In(job', Freeing) /\ t \notin In(job, Moving)
  BY <1>1, <1>2, <1>3 DEF In, Freeing
<1>8. Owned(live', job') = Owned(live, job)
  BY <1>1, <1>3, <1>7, OwnedSame
<1>9. /\ class_lock' \in [Class -> Thread \cup {Null}]
      /\ page_lock' \in [Page -> Thread \cup {Null}]
      /\ live' \in SUBSET AA
  BY <1>1, JobNow
<1>10. Quiet(t)
  BY <1>1, <1>2, <1>3, <1>4, <1>5, <1>6, <1>7, <1>8, <1>9 DEF Quiet, Moving
<1> QED
  BY <1>10, QuietInv

LEMMA CfFreeInv ==
  ASSUME Inv, NEW t \in Thread, NEW a \in AA, cf_free(t, a)
  PROVE  Inv'
<1> DEFINE k == [call("class", a, Null) EXCEPT !.blk = aa[a]]
<1>1. /\ job[t] = Null /\ a \in live /\ live' = live \ {a} /\ job' = [job EXCEPT ![t] = k]
      /\ heap' = heap /\ page_sc' = page_sc /\ aa' = aa /\ mem' = mem
      /\ class_lock' = class_lock /\ page_lock' = page_lock
  BY DEF cf_free
<1>2. a \in Owned(live, job) /\ aa[a] \in Block /\ page_sc[page_of(aa[a])] \in Class
  BY <1>1, OwnedBlock DEF Inv, Owned
<1>3. k \in Job /\ k.at = "class" /\ k.address = a /\ k.blk = aa[a] /\ a # Null
  BY <1>2, NullAssumption DEF call, Job
<1> HIDE DEF k
<1>4. OthersKeep(job, job', t) /\ job'[t] = k /\ k # Null
  <2>1. job \in [Thread -> Job \cup {Null}] /\ k \in Job \cup {Null} /\ k # Null
    BY <1>3, JobNow, NoneAssumption
  <2> QED
    BY ONLY t \in Thread, <1>1, <2>1, OnlyOneSteps
<1>5. Placed(k) /\ LookedAt(heap, page_sc, aa, k)
  BY <1>2, <1>3 DEF Placed, LookedAt, Moving
<1>6. LocksHeld(class_lock', page_lock', job')
  <2>1. LocksHeld(class_lock, page_lock, job)
    BY DEF Inv
  <2>2. \A d \in Class : class_lock[d] = t <=> HasClass(job'[t], d)
    BY <1>1, <1>3, <1>4, JobNow DEF HasClass
  <2>3. \A p \in Page : page_lock[p] = t <=> HasPage(job'[t], p)
    BY <1>1, <1>3, <1>4, JobNow DEF HasPage
  <2>4. LocksHeld(class_lock, page_lock, job')
    BY <1>4, <2>1, <2>2, <2>3, LocksChange
  <2> QED
    BY <1>1, <2>4
<1>7. AddressesApart(aa, live', job')
  <2>1. AddressesApart(aa, live, job)
    BY DEF Inv
  <2>2. \A u \in Thread : u # t => job'[u] = job[u]
    BY <1>4 DEF OthersKeep
  <2>3. ASSUME NEW u \in Thread, job'[u] # Null, job'[u].address # Null
        PROVE  /\ job'[u].address \notin live' /\ aa[job'[u].address] # Null
               /\ \A v \in Thread : job'[v] # Null /\ job'[v].address = job'[u].address => v = u
    <3>1. aa[a] # Null /\ a \in live
      BY <1>1, <2>1 DEF AddressesApart
    <3>2. CASE u = t
      BY <1>1, <1>3, <1>4, <2>1, <2>2, <3>1, <3>2 DEF AddressesApart
    <3>3. CASE u # t
      BY <1>1, <1>3, <1>4, <2>1, <2>2, <2>3, <3>1, <3>3 DEF AddressesApart
    <3> QED
      BY <3>2, <3>3
  <2> QED
    BY <1>1, <2>1, <2>3 DEF AddressesApart
<1>8. t \notin In(job, Moving) /\ k.at \notin Moving /\ k.at \in Freeing
  BY <1>1, <1>3 DEF In, Freeing, Moving
<1>9. Owned(live', job') = Owned(live, job)
  <2>1. In(job', Freeing) = In(job, Freeing) \cup {t} /\ t \notin In(job, Freeing)
    BY <1>1, <1>4, <1>8, InOthers DEF In
  <2>2. job'[t].address = a /\ \A u \in In(job, Freeing) : job'[u].address = job[u].address
    BY <1>3, <1>4, <2>1 DEF OthersKeep, In
  <2>3. {job'[u].address : u \in In(job', Freeing)} = {job[u].address : u \in In(job, Freeing)} \cup {a}
    BY ONLY <2>1, <2>2
  <2>4. live' \cup {a} = live
    BY <1>1
  <2> QED
    BY ONLY <2>3, <2>4 DEF Owned
<1>10. /\ class_lock' \in [Class -> Thread \cup {Null}]
       /\ page_lock' \in [Page -> Thread \cup {Null}]
       /\ live' \in SUBSET AA
  BY <1>1, JobNow
<1>11. Quiet(t)
  BY <1>1, <1>4, <1>5, <1>6, <1>7, <1>8, <1>9, <1>10 DEF Quiet
<1> QED
  BY <1>11, QuietInv

(* A step within cf_free that does not begin to copy.                      *)
FreeingStep(t, k) ==
  /\ job[t] # Null /\ job[t].at \in Freeing
  /\ k \in Job /\ k.at \in Freeing /\ k.address = job[t].address
  /\ job' = [job EXCEPT ![t] = k]
  /\ heap' = heap /\ page_sc' = page_sc /\ aa' = aa /\ mem' = mem /\ live' = live
  /\ Placed(k) /\ LookedAt(heap, page_sc, aa, k)
  /\ class_lock' \in [Class -> Thread \cup {Null}]
  /\ page_lock' \in [Page -> Thread \cup {Null}]
  /\ \A d \in Class : (class_lock'[d] = t <=> HasClass(k, d))
                       /\ (class_lock'[d] = class_lock[d]
                           \/ {class_lock'[d], class_lock[d]} \subseteq {t, Null})
  /\ \A p \in Page : (page_lock'[p] = t <=> HasPage(k, p))
                      /\ (page_lock'[p] = page_lock[p]
                          \/ {page_lock'[p], page_lock[p]} \subseteq {t, Null})

LEMMA FreeingInv ==
  ASSUME Inv, NEW t \in Thread, NEW k, FreeingStep(t, k)
  PROVE  Inv'
<1> USE DEF FreeingStep
<1>1. OthersKeep(job, job', t) /\ job'[t] = k /\ k # Null
  <2>1. job \in [Thread -> Job \cup {Null}] /\ k \in Job \cup {Null} /\ k # Null
    BY JobNow, NoneAssumption
  <2>2. job' = [job EXCEPT ![t] = k]
    OBVIOUS
  <2> QED
    BY ONLY t \in Thread, <2>1, <2>2, OnlyOneSteps
<1>2. LocksHeld(class_lock', page_lock', job')
  <2>1. LocksHeld(class_lock, page_lock, job)
    BY DEF Inv
  <2>2. \A d \in Class : (class_lock'[d] = t <=> HasClass(job'[t], d))
                         /\ (class_lock'[d] = class_lock[d]
                             \/ {class_lock'[d], class_lock[d]} \subseteq {t, Null})
    BY <1>1
  <2>3. \A p \in Page : (page_lock'[p] = t <=> HasPage(job'[t], p))
                        /\ (page_lock'[p] = page_lock[p]
                            \/ {page_lock'[p], page_lock[p]} \subseteq {t, Null})
    BY <1>1
  <2> QED
    BY ONLY t \in Thread, <1>1, <2>1, <2>2, <2>3, LocksChange
<1>3. AddressesApart(aa, live', job')
  BY <1>1, AddressesSame DEF Inv
<1>4. t \in In(job, Freeing) /\ t \in In(job', Freeing) /\ t \notin In(job, Moving)
  BY <1>1 DEF In, Freeing, Moving
<1>5. Owned(live, job') = Owned(live, job)
  <2>1. job'[t].address = job[t].address
    BY <1>1
  <2> QED
    BY ONLY t \in Thread, <1>1, <1>4, <2>1, OwnedSame
<1>6. k.at \notin Moving /\ live' \in SUBSET AA
  BY JobNow DEF Freeing, Moving
<1>7. Quiet(t)
  BY <1>1, <1>2, <1>3, <1>4, <1>5, <1>6 DEF Quiet
<1> QED
  BY <1>7, QuietInv

LEMMA RetryInv ==
  ASSUME Inv, NEW t \in Thread, retry(t)
  PROVE  Inv'
<1> DEFINE j == job[t]
           k == [j EXCEPT !.at = "class", !.blk = aa[j.address]]
<1>1. /\ j # Null /\ j.at = "retry"
      /\ heap' = heap /\ page_sc' = page_sc /\ aa' = aa /\ mem' = mem /\ live' = live
      /\ class_lock' = class_lock /\ page_lock' = page_lock
  BY DEF retry, at
<1>2. /\ job \in [Thread -> Job \cup {Null}] /\ j \in Job /\ Placed(j)
      /\ j.address \in Owned(live, job)
  BY <1>1, JobNow DEF Freeing
<1>3. aa[j.address] \in Block /\ page_sc[page_of(aa[j.address])] \in Class
  BY <1>2, OwnedBlock DEF Inv
<1>4. job' = [job EXCEPT ![t] = k]
  BY <1>1, <1>2 DEF retry
<1>5. k \in Job /\ k.at = "class" /\ k.address = j.address /\ k.blk = aa[j.address]
  BY <1>2, <1>3 DEF Job
<1> HIDE DEF k
<1>6. Placed(k) /\ LookedAt(heap, page_sc, aa, k)
  BY <1>1, <1>2, <1>3, <1>5 DEF Placed, LookedAt, Moving
<1>7. \A d \in Class : class_lock'[d] = class_lock[d] /\ (class_lock[d] = t <=> HasClass(k, d))
  BY <1>1, <1>5, JobNow DEF HasClass
<1>8. \A p \in Page : page_lock'[p] = page_lock[p] /\ (page_lock[p] = t <=> HasPage(k, p))
  BY <1>1, <1>5, JobNow DEF HasPage
<1>9. /\ class_lock' \in [Class -> Thread \cup {Null}]
      /\ page_lock' \in [Page -> Thread \cup {Null}]
  BY <1>1, JobNow
<1>10. j.at \in Freeing /\ k.at \in Freeing
  BY <1>1, <1>5 DEF Freeing
<1>11. FreeingStep(t, k)
  BY <1>1, <1>4, <1>5, <1>6, <1>7, <1>8, <1>9, <1>10 DEF FreeingStep
<1> QED
  BY <1>11, FreeingInv

LEMMA GetClassInv ==
  ASSUME Inv, NEW t \in Thread, get_size_class_of_page(t)
  PROVE  Inv'
<1> DEFINE j == job[t]
           c == page_sc[page_of(j.blk)]
           k == [j EXCEPT !.at = "lock", !.sc = c]
<1>1. /\ j # Null /\ j.at = "class"
      /\ heap' = heap /\ page_sc' = page_sc /\ aa' = aa /\ mem' = mem /\ live' = live
      /\ class_lock' = class_lock /\ page_lock' = page_lock
  BY DEF get_size_class_of_page, at
<1>2. /\ job \in [Thread -> Job \cup {Null}] /\ j \in Job /\ Placed(j)
      /\ LookedAt(heap, page_sc, aa, j)
  BY <1>1, JobNow
<1>3. c \in Class
  BY <1>1, <1>2 DEF LookedAt
<1>4. job' = [job EXCEPT ![t] = k]
  BY <1>1, <1>2 DEF get_size_class_of_page
<1> HIDE DEF c
<1>5. k \in Job /\ k.at = "lock" /\ k.address = j.address /\ k.blk = j.blk /\ k.sc = c
  BY <1>2, <1>3 DEF Job
<1> HIDE DEF k
<1>6. Placed(k) /\ LookedAt(heap, page_sc, aa, k)
  BY <1>1, <1>2, <1>3, <1>5 DEF Placed, LookedAt, Moving
<1>7. \A d \in Class : class_lock'[d] = class_lock[d] /\ (class_lock[d] = t <=> HasClass(k, d))
  BY <1>1, <1>5, JobNow DEF HasClass
<1>8. \A p \in Page : page_lock'[p] = page_lock[p] /\ (page_lock[p] = t <=> HasPage(k, p))
  BY <1>1, <1>5, JobNow DEF HasPage
<1>9. /\ class_lock' \in [Class -> Thread \cup {Null}]
      /\ page_lock' \in [Page -> Thread \cup {Null}]
  BY <1>1, JobNow
<1>10. j.at \in Freeing /\ k.at \in Freeing
  BY <1>1, <1>5 DEF Freeing
<1>11. FreeingStep(t, k)
  BY <1>1, <1>4, <1>5, <1>6, <1>7, <1>8, <1>9, <1>10 DEF FreeingStep
<1> QED
  BY <1>11, FreeingInv

LEMMA DereferenceInv ==
  ASSUME Inv, NEW t \in Thread, dereference(t)
  PROVE  Inv'
<1> DEFINE j == job[t]
           c == j.sc
           k == [j EXCEPT !.at = "check", !.blk = aa[j.address]]
<1>1. /\ j # Null /\ j.at = "lock"
      /\ heap' = heap /\ page_sc' = page_sc /\ aa' = aa /\ mem' = mem /\ live' = live
      /\ class_lock[c] = Null /\ class_lock' = [class_lock EXCEPT ![c] = t]
      /\ page_lock' = page_lock
  BY DEF dereference, at, lock_sizeClass
<1>2. /\ job \in [Thread -> Job \cup {Null}] /\ j \in Job /\ Placed(j)
      /\ j.address \in Owned(live, job)
  BY <1>1, JobNow DEF Freeing
<1>3. aa[j.address] \in Block /\ c \in Class
  BY <1>1, <1>2, OwnedBlock DEF Inv, Placed
<1>4. job' = [job EXCEPT ![t] = k]
  BY <1>1, <1>2 DEF dereference, dereference_again
<1>5. /\ k \in Job /\ k.at = "check" /\ k.address = j.address /\ k.blk = aa[j.address]
      /\ k.sc = c
  BY <1>2, <1>3 DEF Job
<1> HIDE DEF k
<1>6. Placed(k) /\ LookedAt(heap, page_sc, aa, k)
  BY <1>1, <1>2, <1>3, <1>5 DEF Placed, LookedAt, Moving
<1>7. k # Null /\ class_lock \in [Class -> Thread \cup {Null}]
  BY <1>5, NoneAssumption, JobNow
<1>8. \A d \in Class : (class_lock'[d] = t <=> HasClass(k, d))
                       /\ (class_lock'[d] = class_lock[d]
                           \/ {class_lock'[d], class_lock[d]} \subseteq {t, Null})
  <2> HIDE DEF c
  <2> QED
    BY <1>1, <1>3, <1>5, <1>7, JobNow DEF HasClass
<1>9. \A p \in Page : page_lock'[p] = page_lock[p] /\ (page_lock[p] = t <=> HasPage(k, p))
  BY <1>1, <1>5, JobNow DEF HasPage
<1>10. /\ class_lock' \in [Class -> Thread \cup {Null}]
       /\ page_lock' \in [Page -> Thread \cup {Null}]
  BY <1>1, JobNow
<1>11. j.at \in Freeing /\ k.at \in Freeing
  BY <1>1, <1>5 DEF Freeing
<1>12. FreeingStep(t, k)
  BY <1>1, <1>4, <1>5, <1>6, <1>8, <1>9, <1>10, <1>11 DEF FreeingStep
<1> QED
  BY <1>12, FreeingInv

LEMMA BacktrackInv ==
  ASSUME Inv, NEW t \in Thread, backtrack(t)
  PROVE  Inv'
<1> DEFINE j == job[t]
           c == j.sc
           k == call("retry", j.address, Null)
<1>1. /\ j # Null /\ j.at = "check" /\ job' = [job EXCEPT ![t] = k]
      /\ heap' = heap /\ page_sc' = page_sc /\ aa' = aa /\ mem' = mem /\ live' = live
      /\ class_lock' = [class_lock EXCEPT ![c] = Null] /\ page_lock' = page_lock
  BY DEF backtrack, at, unlock_sizeClass
<1>2. j \in Job /\ Placed(j)
  BY <1>1, JobNow
<1>3. c \in Class /\ j.address \in AA /\ j.address # Null
  BY <1>1, <1>2 DEF Placed, Job
<1>4. k \in Job /\ k.at = "retry" /\ k.address = j.address
  BY <1>3 DEF Job, call
<1> HIDE DEF k
<1>5. Placed(k) /\ LookedAt(heap, page_sc, aa, k)
  BY <1>3, <1>4 DEF Placed, LookedAt, Moving
<1>6. class_lock \in [Class -> Thread \cup {Null}] /\ t # Null
  BY JobNow, NullAssumption
<1>7. \A d \in Class : (class_lock'[d] = t <=> HasClass(k, d))
                       /\ (class_lock'[d] = class_lock[d]
                           \/ {class_lock'[d], class_lock[d]} \subseteq {t, Null})
  <2>1. \A d \in Class : class_lock[d] = t <=> d = c
    BY <1>1, JobNow DEF HasClass
  <2>2. \A d \in Class : ~HasClass(k, d)
    BY <1>4 DEF HasClass
  <2> HIDE DEF c
  <2> QED
    BY <1>1, <1>3, <1>6, <2>1, <2>2
<1>8. \A p \in Page : page_lock'[p] = page_lock[p] /\ (page_lock[p] = t <=> HasPage(k, p))
  BY <1>1, <1>4, JobNow DEF HasPage
<1>9. /\ class_lock' \in [Class -> Thread \cup {Null}]
      /\ page_lock' \in [Page -> Thread \cup {Null}]
  BY <1>1, JobNow
<1>10. j.at \in Freeing /\ k.at \in Freeing
  BY <1>1, <1>4 DEF Freeing
<1>11. FreeingStep(t, k)
  BY <1>1, <1>4, <1>5, <1>7, <1>8, <1>9, <1>10 DEF FreeingStep
<1> QED
  BY <1>11, FreeingInv

LEMMA FullPage ==
  ASSUME NEW h, WellFormed(h), NEW p \in Page
  PROVE  is_page_full(h, p) <=> is_full(h, p)
<1>1. h.nr_used[p] = Cardinality(h.used[p]) /\ h.used[p] \in SUBSET Index
  BY PageFacts
<1> QED
  BY <1>1, UsedBlocks DEF is_page_full, is_full

LEMMA LockTargetInv ==
  ASSUME Inv, NEW t \in Thread, lock_target_page(t)
  PROVE  Inv'
<1> DEFINE j == job[t]
           q == page_of(j.blk)
           k == [j EXCEPT !.at = "source"]
<1>1. /\ j # Null /\ j.at = "check" /\ page_sc[q] = j.sc
      /\ ~in_full_state(heap[j.sc]) /\ is_page_full(heap[j.sc], q)
      /\ heap' = heap /\ page_sc' = page_sc /\ aa' = aa /\ mem' = mem /\ live' = live
      /\ page_lock[q] = Null /\ page_lock' = [page_lock EXCEPT ![q] = t]
      /\ class_lock' = class_lock
  BY DEF lock_target_page, at, lock_page, page_unlocked, got_right_lock, compaction_needed
<1>2. /\ job \in [Thread -> Job \cup {Null}] /\ j \in Job /\ Placed(j)
      /\ LookedAt(heap, page_sc, aa, j)
  BY <1>1, JobNow
<1>3. j.blk \in Block /\ q \in Page /\ j.sc \in Class
  BY <1>1, <1>2, BlockPair DEF Placed
<1>4. is_full(heap[j.sc], q)
  BY <1>1, <1>3, FullPage DEF Inv, PagesApart
<1>5. job' = [job EXCEPT ![t] = k]
  BY <1>1, <1>2 DEF lock_target_page
<1>6. /\ k \in Job /\ k.at = "source" /\ k.address = j.address /\ k.blk = j.blk
      /\ k.sc = j.sc
  BY <1>2 DEF Job
<1> HIDE DEF k
<1>7. Placed(k)
  BY <1>1, <1>2, <1>3, <1>6 DEF Placed, Moving
<1>8. LookedAt(heap, page_sc, aa, k)
  BY <1>1, <1>2, <1>4, <1>6 DEF LookedAt
<1>9. k # Null /\ page_lock \in [Page -> Thread \cup {Null}]
  BY <1>6, NoneAssumption, JobNow
<1>10. \A d \in Class : class_lock'[d] = class_lock[d] /\ (class_lock[d] = t <=> HasClass(k, d))
  BY <1>1, <1>6, <1>9, JobNow DEF HasClass
<1>11. \A p \in Page : (page_lock'[p] = t <=> HasPage(k, p))
                       /\ (page_lock'[p] = page_lock[p]
                           \/ {page_lock'[p], page_lock[p]} \subseteq {t, Null})
  <2>1. \A p \in Page : page_lock[p] # t
    BY <1>1, JobNow DEF HasPage
  <2>2. \A p \in Page : HasPage(k, p) <=> p = q
    BY <1>6, <1>9 DEF HasPage
  <2> HIDE DEF q
  <2> QED
    BY <1>1, <1>3, <1>9, <2>1, <2>2
<1>12. /\ class_lock' \in [Class -> Thread \cup {Null}]
       /\ page_lock' \in [Page -> Thread \cup {Null}]
  BY <1>1, JobNow
<1>13. j.at \in Freeing /\ k.at \in Freeing
  BY <1>1, <1>6 DEF Freeing
<1>14. FreeingStep(t, k)
  BY <1>1, <1>5, <1>6, <1>7, <1>8, <1>10, <1>11, <1>12, <1>13 DEF FreeingStep
<1> QED
  BY <1>14, FreeingInv

-----------------------------------------------------------------------------
(* Steps that change a page of one class, and the locks of nobody else.    *)
(* h and k differ in the page of block b of class c: its used blocks are  *)
(* u and e of its blocks are being moved.                                  *)
ChangedAt(h, k, c, b, u, e) ==
  /\ k \in [Class -> SizeClassType]
  /\ \A d \in Class : WellFormed(k[d])
  /\ \A d \in Class \ {c} : k[d] = h[d]
  /\ \A d \in Class, q \in Page : d # c \/ q # page_of(b) =>
       /\ k[d].used[q] = h[d].used[q]
       /\ k[d].sourceentries[q] = h[d].sourceentries[q]
  /\ k[c].used[page_of(b)] = u /\ k[c].sourceentries[page_of(b)] = e
  /\ u = h[c].used[page_of(b)] \cup {index_of(b)} =>
       /\ used_blocks(k[c]) = used_blocks(h[c]) \cup {b}
       /\ all_used(k) = all_used(h) \cup {b}
  /\ u = h[c].used[page_of(b)] \ {index_of(b)} /\ index_of(b) \in h[c].used[page_of(b)] =>
       /\ used_blocks(k[c]) = used_blocks(h[c]) \ {b}
       /\ all_used(k) = all_used(h) \ {b}
  /\ u = h[c].used[page_of(b)] =>
       /\ used_blocks(k[c]) = used_blocks(h[c])
       /\ all_used(k) = all_used(h)

LEMMA ClassChange ==
  ASSUME NEW h \in [Class -> SizeClassType], NEW s, PagesApart(h, s), NEW c \in Class,
         NEW b \in Block, NEW g, NEW u, NEW e, Updated(h[c], g, page_of(b), u, e),
         NEW k, k = [h EXCEPT ![c] = g]
  PROVE  ChangedAt(h, k, c, b, u, e)
<1> DEFINE p == page_of(b)
           i == index_of(b)
<1>1. p \in Page /\ i \in Index /\ \A d \in Class : WellFormed(h[d])
  BY BlockPair DEF PagesApart
<1>2. /\ WellFormed(g) /\ g \in SizeClassType
      /\ u = h[c].used[p] \ {i} => used_blocks(g) = used_blocks(h[c]) \ {b}
      /\ u = h[c].used[p] \cup {i} => used_blocks(g) = used_blocks(h[c]) \cup {b}
      /\ u = h[c].used[p] => used_blocks(g) = used_blocks(h[c])
  <2> DEFINE f == h[c]
  <2>1. WellFormed(f) /\ Updated(f, g, page_of(b), u, e)
    BY <1>1
  <2> HIDE DEF f
  <2>2. /\ WellFormed(g)
        /\ g.sourceentries = [f.sourceentries EXCEPT ![page_of(b)] = e]
        /\ f.sourceentries \in [Page -> Int]
        /\ u = f.used[page_of(b)] \ {index_of(b)} => used_blocks(g) = used_blocks(f) \ {b}
        /\ u = f.used[page_of(b)] \cup {index_of(b)} => used_blocks(g) = used_blocks(f) \cup {b}
        /\ u = f.used[page_of(b)] => used_blocks(g) = used_blocks(f)
    BY ONLY b \in Block, <2>1, UsedUpdated
  <2> QED
    BY <2>2 DEF WellFormed, f
<1>3. k[c] = g /\ \A d \in Class \ {c} : k[d] = h[d]
  OBVIOUS
<1>4. k \in [Class -> SizeClassType] /\ \A d \in Class : WellFormed(k[d])
  BY <1>1, <1>2, <1>3
<1>5. /\ \A q \in Page : g.used[q] = IF q = p THEN u ELSE h[c].used[q]
      /\ \A q \in Page : g.sourceentries[q] = IF q = p THEN e ELSE h[c].sourceentries[q]
  BY <1>1 DEF Updated, WellFormed, SizeClassType
<1>6. ASSUME i \in h[c].used[p], NEW d \in Class, d # c PROVE b \notin used_blocks(h[d])
  <2>1. s[p] = c
    BY <1>1, <1>6 DEF PagesApart
  <2>2. h[d].used[p] = {}
    BY <1>1, <1>6, <2>1 DEF PagesApart
  <2> QED
    BY <2>2 DEF used_blocks
<1>7. /\ \A x : x \in all_used(k) <=> x \in used_blocks(g) \/ \E d \in Class \ {c} : x \in used_blocks(h[d])
      /\ \A x : x \in all_used(h) <=> x \in used_blocks(h[c]) \/ \E d \in Class \ {c} : x \in used_blocks(h[d])
  BY <1>3 DEF all_used
<1>8. u = h[c].used[p] \cup {i} => all_used(k) = all_used(h) \cup {b}
  BY <1>2, <1>7
<1>9. u = h[c].used[p] \ {i} /\ i \in h[c].used[p] => all_used(k) = all_used(h) \ {b}
  <2> SUFFICES ASSUME u = h[c].used[p] \ {i}, i \in h[c].used[p]
               PROVE  all_used(k) = all_used(h) \ {b}
    OBVIOUS
  <2>1. used_blocks(g) = used_blocks(h[c]) \ {b}
    BY <1>2
  <2>2. \A d \in Class \ {c} : b \notin used_blocks(h[d])
    BY <1>6
  <2>3. \A x : x \in all_used(k) <=> x \in all_used(h) /\ x # b
    BY <1>7, <2>1, <2>2
  <2> QED
    BY <2>3
<1>10. u = h[c].used[p] => all_used(k) = all_used(h)
  BY <1>2, <1>7
<1> QED
  BY <1>1, <1>2, <1>3, <1>4, <1>5, <1>8, <1>9, <1>10 DEF ChangedAt

(* A block to release is in a page that its class has.                     *)
LEMMA MovingPage ==
  ASSUME Inv, NEW t \in In(job, Moving)
  PROVE  /\ t \in Thread /\ job[t] # Null /\ job[t] \in Job /\ Placed(job[t])
         /\ job[t].sc \in Class /\ job[t].address \in AA
         /\ job[t].src \in Block /\ job[t].blk \in Block /\ job[t].src_aa \in AA
         /\ heap[job[t].sc].sourceentries[page_of(job[t].src)] > 0
         /\ page_sc[page_of(job[t].src)] = job[t].sc
         /\ job[t].src \notin used_blocks(heap[job[t].sc])
<1> DEFINE c == job[t].sc
           p == page_of(job[t].src)
<1>1. /\ t \in Thread /\ job[t] # Null /\ job[t] \in Job /\ job[t].at \in Moving
      /\ Placed(job[t])
  BY JobNow DEF In
<1>2. /\ c \in Class /\ job[t].address \in AA
      /\ job[t].src \in Block /\ job[t].blk \in Block /\ job[t].src_aa \in AA
  BY <1>1 DEF Placed, Job, Moving
<1>3. p \in Page
  BY <1>2, BlockPair
<1>4. t \in MovedFrom(job, c, p) /\ IsFiniteSet(MovedFrom(job, c, p))
  <2>1. MovedFrom(job, c, p) \subseteq Thread
    BY DEF MovedFrom, In
  <2>2. IsFiniteSet(MovedFrom(job, c, p))
    BY <2>1, ThreadAssumption, FS_Subset
  <2> QED
    BY <2>2 DEF MovedFrom
<1>5. Cardinality(MovedFrom(job, c, p)) \in Nat /\ Cardinality(MovedFrom(job, c, p)) # 0
  BY <1>4, FS_CardinalityType, FS_EmptySet
<1>6. heap[c].sourceentries[p] > 0
  BY <1>2, <1>3, <1>5 DEF Inv, Counted
<1>7. page_sc[p] = c
  BY <1>2, <1>3, <1>6 DEF Inv, PagesApart
<1>8. job[t].src \notin used_blocks(heap[c])
  BY DEF Inv, Copied
<1> QED
  BY <1>1, <1>2, <1>6, <1>7, <1>8

(* Others that have the lock of a class see no change of another.          *)
StepsIn(t, c) ==
  /\ OthersKeep(job, job', t) /\ class_lock[c] \in {t, Null}
  /\ \A d \in Class \ {c} : heap'[d] = heap[d]
  /\ \A q \in Page : \/ page_sc'[q] = page_sc[q]
                     \/ page_sc'[q] = c /\ \A d \in Class \ {c} : heap[d].used[q] = {}
  /\ \A x \in Owned(live, job) : page_sc[page_of(aa[x])] # c => aa'[x] = aa[x]

LEMMA OthersLook ==
  ASSUME Inv, NEW t \in Thread, NEW c \in Class, StepsIn(t, c)
  PROVE  \A u \in Thread \ {t} : job'[u] # Null => LookedAt(heap', page_sc', aa', job'[u])
<1> USE DEF StepsIn
<1> SUFFICES ASSUME NEW u \in Thread \ {t}, job'[u] # Null
             PROVE  LookedAt(heap', page_sc', aa', job'[u])
  OBVIOUS
<1> DEFINE j == job[u]
           q == page_of(j.blk)
<1>1. job'[u] = j /\ j # Null
  BY DEF OthersKeep
<1>2. /\ j \in Job /\ Placed(j) /\ LookedAt(heap, page_sc, aa, j)
      /\ j.at \in Freeing => j.address \in Owned(live, job)
      /\ \A d \in Class : class_lock[d] = u <=> HasClass(j, d)
  BY <1>1, JobNow
<1> HIDE DEF j
<1>3. ASSUME j.at = "class" PROVE page_sc'[q] \in Class
  <2>1. q \in Page /\ page_sc[q] \in Class
    BY <1>2, <1>3, BlockPair DEF Placed, LookedAt
  <2> QED
    BY <2>1
<1>4. ASSUME j.at \in {"check", "source", "redirect"}, page_sc[q] = j.sc, j.blk = aa[j.address]
      PROVE  /\ aa'[j.address] = j.blk /\ heap'[j.sc] = heap[j.sc] /\ j.sc \in Class \ {c}
  <2>1. j.sc \in Class /\ j.blk \in Block /\ j.address \in Owned(live, job)
    BY <1>2, <1>4 DEF Placed, Freeing
  <2>2. class_lock[j.sc] = u
    BY <1>1, <1>2, <1>4, <2>1 DEF HasClass
  <2>3. u # Null /\ u # t
    BY NullAssumption
  <2>4. j.sc # c
    BY <2>2, <2>3
  <2> QED
    BY <1>4, <2>1, <2>4
<1>5. ASSUME j.at \in {"check", "source", "redirect"}, page_sc'[q] = j.sc
      PROVE  page_sc[q] = j.sc
  <2>1. j.sc \in Class /\ j.blk \in Block /\ q \in Page
    BY <1>2, <1>5, BlockPair DEF Placed
  <2>2. class_lock[j.sc] = u
    BY <1>1, <1>2, <1>5, <2>1 DEF HasClass
  <2>3. u # Null /\ u # t
    BY NullAssumption
  <2>4. j.sc # c
    BY <2>2, <2>3
  <2> QED
    BY <1>5, <2>1, <2>4
<1>6. ASSUME j.at = "check", page_sc'[q] = j.sc PROVE j.blk = aa'[j.address]
  BY <1>2, <1>4, <1>5, <1>6 DEF LookedAt
<1>7. ASSUME j.at \in {"source", "redirect"}
      PROVE  /\ page_sc'[q] = j.sc /\ j.blk = aa'[j.address]
             /\ is_full(heap'[j.sc], q) /\ ~in_full_state(heap'[j.sc])
             /\ j.at = "redirect" => j.src = source_block(heap'[j.sc])
  <2>1. /\ page_sc[q] = j.sc /\ j.blk = aa[j.address]
        /\ is_full(heap[j.sc], q) /\ ~in_full_state(heap[j.sc])
        /\ j.at = "redirect" => j.src = source_block(heap[j.sc])
    BY <1>2, <1>7 DEF LookedAt
  <2>2. aa'[j.address] = j.blk /\ heap'[j.sc] = heap[j.sc] /\ j.sc \in Class \ {c}
    BY <1>4, <1>7, <2>1
  <2>3. q \in Page /\ heap[j.sc].used[q] # {}
    <3>1. j.blk \in Block
      BY <1>2, <1>7 DEF Placed
    <3>2. Index # {}
      BY <3>1, BlockPair
    <3> QED
      BY <2>1, <3>1, <3>2, BlockPair DEF is_full
  <2>4. page_sc'[q] = page_sc[q]
    BY <2>2, <2>3
  <2> QED
    BY <2>1, <2>2, <2>4
<1> QED
  BY <1>1, <1>3, <1>6, <1>7 DEF LookedAt

LEMMA MovingSame ==
  ASSUME NEW J, NEW K, NEW t \in Thread, OthersKeep(J, K, t),
         t \notin In(J, Moving), t \notin In(K, Moving)
  PROVE  /\ In(K, Moving) = In(J, Moving) /\ In(K, {"copy"}) = In(J, {"copy"})
         /\ \A u \in In(J, {"copy"}) : u \in In(J, Moving)
         /\ \A u \in In(J, Moving) : K[u] = J[u]
         /\ \A c, p : MovedFrom(K, c, p) = MovedFrom(J, c, p)
<1>1. In(K, Moving) = In(J, Moving) /\ \A u \in In(J, Moving) : K[u] = J[u]
  BY InOthers DEF In, OthersKeep
<1>2. In(K, {"copy"}) = In(J, {"copy"}) /\ \A u \in In(J, {"copy"}) : u \in In(J, Moving)
  <2>1. In(J, {"copy"}) = {u \in In(J, Moving) : J[u].at = "copy"}
    BY DEF In, Moving
  <2>2. In(K, {"copy"}) = {u \in In(K, Moving) : K[u].at = "copy"}
    BY DEF In, Moving
  <2> QED
    BY <1>1, <2>1, <2>2
<1>3. ASSUME NEW c, NEW p PROVE MovedFrom(K, c, p) = MovedFrom(J, c, p)
  BY <1>1 DEF MovedFrom
<1> QED
  BY <1>1, <1>2, <1>3

(* cf_malloc, or cf_free without a compaction, gives its lock away.        *)
LEMMA CallReturns ==
  ASSUME Inv, NEW t \in Thread, job[t] # Null, job[t].at \in {"malloc", "check"},
         job' = [job EXCEPT ![t] = Null], unlock_sizeClass(job[t].sc), page_lock' = page_lock
  PROVE  /\ OthersKeep(job, job', t) /\ job'[t] = Null
         /\ t \notin In(job, Moving) /\ t \notin In(job', Moving)
         /\ LocksHeld(class_lock', page_lock', job')
         /\ class_lock' \in [Class -> Thread \cup {Null}]
         /\ page_lock' \in [Page -> Thread \cup {Null}]
         /\ job[t].sc \in Class /\ class_lock[job[t].sc] = t
<1> DEFINE c == job[t].sc
<1>1. OthersKeep(job, job', t) /\ job'[t] = Null
  BY JobNow, OnlyOneSteps
<1>2. c \in Class /\ class_lock[c] = t
  BY JobNow DEF Placed, HasClass
<1>3. t \notin In(job, Moving) /\ t \notin In(job', Moving)
  BY <1>1 DEF In, Moving
<1>4. /\ class_lock \in [Class -> Thread \cup {Null}]
      /\ \A d \in Class : class_lock[d] = t <=> d = c
      /\ page_lock \in [Page -> Thread \cup {Null}]
      /\ \A q \in Page : page_lock[q] # t
      /\ t # Null
  BY JobNow, NullAssumption DEF HasClass, HasPage
<1>5. class_lock' = [class_lock EXCEPT ![c] = Null]
  BY DEF unlock_sizeClass
<1> HIDE DEF c
<1>6. /\ class_lock' \in [Class -> Thread \cup {Null}]
      /\ page_lock' \in [Page -> Thread \cup {Null}]
  BY <1>4, <1>5
<1>7. \A d \in Class : (class_lock'[d] = t <=> HasClass(job'[t], d))
                       /\ (class_lock'[d] = class_lock[d]
                           \/ {class_lock'[d], class_lock[d]} \subseteq {t, Null})
  BY <1>1, <1>2, <1>4, <1>5 DEF HasClass
<1>8. \A q \in Page : (page_lock'[q] = t <=> HasPage(job'[t], q))
                      /\ page_lock'[q] = page_lock[q]
  BY <1>1, <1>4 DEF HasPage
<1>9. LocksHeld(class_lock, page_lock, job)
  BY DEF Inv
<1>10. LocksHeld(class_lock', page_lock', job')
  BY ONLY t \in Thread, <1>1, <1>7, <1>8, <1>9, LocksChange
<1> QED
  BY <1>1, <1>2, <1>3, <1>6, <1>10 DEF c

LEMMA NoPagesInv ==
  ASSUME Inv, NEW t \in Thread, cf_malloc(t), no_more_pages(t)
  PROVE  Inv'
<1>1. /\ job[t] # Null /\ job[t].at = "malloc" /\ job' = [job EXCEPT ![t] = Null]
      /\ heap' = heap /\ page_sc' = page_sc /\ aa' = aa /\ mem' = mem /\ live' = live
      /\ unlock_sizeClass(job[t].sc) /\ page_lock' = page_lock
  BY DEF cf_malloc, no_more_pages, at
<1>2. /\ OthersKeep(job, job', t) /\ job'[t] = Null
      /\ t \notin In(job, Moving)
      /\ LocksHeld(class_lock', page_lock', job')
      /\ class_lock' \in [Class -> Thread \cup {Null}]
      /\ page_lock' \in [Page -> Thread \cup {Null}]
  BY <1>1, CallReturns
<1>3. AddressesApart(aa, live', job')
  BY <1>1, <1>2, AddressesSame DEF Inv
<1>4. t \notin In(job, Freeing) /\ t \notin In(job', Freeing) /\ live' \in SUBSET AA
  BY <1>1, <1>2, JobNow DEF In, Freeing
<1>5. Owned(live, job') = Owned(live, job)
  BY <1>2, <1>4, OwnedSame
<1>6. Quiet(t)
  BY <1>1, <1>2, <1>3, <1>4, <1>5 DEF Quiet
<1> QED
  BY <1>6, QuietInv

(* The page cf_malloc takes a block from is in no other class.             *)
LEMMA MallocPages ==
  ASSUME Inv, NEW c \in Class,
         NEW p \in pages_for(c)
  PROVE  /\ p \in malloc_pages(heap[c])
         /\ p \in Page
         /\ \A d \in Class \ {c} : heap[d].used[p] = {} /\ heap[d].sourceentries[p] = 0
<1> USE DEF pages_for
<1>1. p \in malloc_pages(heap[c])
  BY DEF malloc_pages
<1>2. \A d \in Class : WellFormed(heap[d])
  BY DEF Inv, PagesApart
<1>3. CASE heap[c].nfull = <<>>
  <2>1. p \in Page /\ \A d \in Class : heap[d].list_flags[p] = "free"
    BY <1>3 DEF free_pages
  <2> QED
    BY <1>1, <1>2, <2>1, PageFacts
<1>4. CASE heap[c].nfull # <<>>
  <2> DEFINE f == heap[c].nfull
  <2>1. p = f[Len(f)] /\ ListOf(f, flagged(heap[c], "nfull"))
    BY <1>2, <1>4 DEF Last, WellFormed, Lists
  <2>2. f \in Seq(Page) /\ f # <<>>
    BY <1>4, <2>1 DEF ListOf
  <2> HIDE DEF f
  <2>3. Len(f) \in 1 .. Len(f) /\ p \in Page
    BY <2>1, <2>2
  <2>4. heap[c].list_flags[p] = "nfull"
    BY <2>1, <2>3 DEF ListOf, on_list, flagged
  <2>5. heap[c].used[p] # {}
    BY <1>2, <2>3, <2>4, PageFacts
  <2>6. page_sc[p] = c
    BY <2>3, <2>5 DEF Inv, PagesApart
  <2> QED
    BY <1>1, <2>3, <2>6 DEF Inv, PagesApart
<1> QED
  BY <1>3, <1>4

(* What malloc_block does, without the operations on pages.                *)
MallocEffect(t, c, b, a) ==
  /\ heap' = [heap EXCEPT ![c] = heap'[c]]
  /\ Updated(heap[c], heap'[c], page_of(b), heap[c].used[page_of(b)] \cup {index_of(b)}, 0)
  /\ heap[c].sourceentries[page_of(b)] = 0
  /\ index_of(b) \notin heap[c].used[page_of(b)]
  /\ \A d \in Class \ {c} : heap[d].used[page_of(b)] = {} /\ heap[d].sourceentries[page_of(b)] = 0
  /\ aa[a] = Null
  /\ page_sc' = [page_sc EXCEPT ![page_of(b)] = c]
  /\ aa' = [aa EXCEPT ![a] = b]
  /\ mem' = [mem EXCEPT ![b] = a]
  /\ live' = live \cup {a}

LEMMA MallocTakes ==
  ASSUME Inv, NEW t \in Thread, at(t, "malloc"), malloc_block(t)
  PROVE  \E b \in Block, a \in AA : MallocEffect(t, job[t].sc, b, a)
<1> DEFINE c == job[t].sc
<1>1. job[t] # Null /\ c \in Class /\ heap \in [Class -> SizeClassType]
  BY JobNow DEF at, Placed, Inv, Typed, TypeOK
<1>2. WellFormed(heap[c])
  BY <1>1 DEF Inv, PagesApart
<1>3. PICK p \in pages_for(c), a \in pool :
    LET open  == IF heap[c].nfull = <<>>
                 THEN add_page_to_nfull_list(get_free_page(heap[c], p), p)
                 ELSE heap[c]
        taken == get_free_page_block(open, p)
        b     == <<p, free_index(open, p)>>
    IN  /\ heap' = [heap EXCEPT ![c] =
                      IF taken.ok /\ is_page_full(taken, p)
                      THEN add_page_to_full_list(remove_page_from_nfull_list(taken, p), p)
                      ELSE taken]
        /\ taken.ok => /\ page_sc' = [page_sc EXCEPT ![p] = c]
                       /\ aa' = [aa EXCEPT ![a] = b]
                       /\ mem' = [mem EXCEPT ![b] = a]
                       /\ live' = live \cup {a}
  BY Zenon DEF malloc_block
<1> DEFINE open  == IF heap[c].nfull = <<>>
                    THEN add_page_to_nfull_list(get_free_page(heap[c], p), p) ELSE heap[c]
           taken == get_free_page_block(open, p)
           g     == IF is_page_full(taken, p)
                    THEN add_page_to_full_list(remove_page_from_nfull_list(taken, p), p)
                    ELSE taken
           i     == free_index(open, p)
           b     == <<p, i>>
<1>4. /\ p \in malloc_pages(heap[c]) /\ p \in Page
      /\ \A d \in Class \ {c} : heap[d].used[p] = {} /\ heap[d].sourceentries[p] = 0
  <2>1. c \in Class /\ p \in pages_for(c)
    BY <1>1
  <2> HIDE DEF c
  <2> QED
    BY ONLY Inv, <2>1, MallocPages
<1>5. /\ taken.ok
      /\ heap[c].sourceentries[p] = 0
      /\ i \in Index \ heap[c].used[p]
      /\ Updated(heap[c], g, p, heap[c].used[p] \cup {i}, 0)
  BY <1>2, <1>4, MallocPage
<1>6. /\ heap' = [heap EXCEPT ![c] = g]
      /\ page_sc' = [page_sc EXCEPT ![p] = c]
      /\ aa' = [aa EXCEPT ![a] = b]
      /\ mem' = [mem EXCEPT ![b] = a]
      /\ live' = live \cup {a}
  <2> HIDE DEF c
  <2> QED
    BY <1>3, <1>5, Zenon
<1> HIDE DEF taken, open, g, i
<1>7. b \in Block /\ page_of(b) = p /\ index_of(b) = i
  BY <1>4, <1>5, BlockPair
<1> HIDE DEF b
<1>8. heap'[c] = g
  BY <1>1, <1>6
<1>9. a \in AA /\ aa[a] = Null
  BY DEF pool
<1>10. MallocEffect(t, c, b, a)
  BY <1>4, <1>5, <1>6, <1>7, <1>8, <1>9 DEF MallocEffect
<1> QED
  BY <1>7, <1>9, <1>10

LEMMA TypedAfter ==
  ASSUME Inv, NEW t \in Thread, OthersKeep(job, job', t),
         job'[t] # Null => Placed(job'[t]),
         heap' \in [Class -> SizeClassType], page_sc' \in [Page -> Class \cup {Null}],
         aa' \in [AA -> Block \cup {Null}], mem' \in [Block -> AA \cup {Null}],
         class_lock' \in [Class -> Thread \cup {Null}],
         page_lock' \in [Page -> Thread \cup {Null}], live' \in SUBSET AA
  PROVE  Typed'
<1>1. job' \in [Thread -> Job \cup {Null}]
  BY DEF OthersKeep
<1>2. \A u \in Thread : job'[u] # Null => Placed(job'[u])
  BY DEF Inv, Typed, OthersKeep
<1>3. \A u \in Thread : job'[u] # Null /\ job'[u].at = "copy" =>
                         job'[u].src \in Block /\ job'[u].src_aa \in AA
  BY <1>2 DEF Placed, Moving
<1> QED
  BY <1>1, <1>2, <1>3 DEF Typed, TypeOK, at

LEMMA MallocBlockInv ==
  ASSUME Inv, NEW t \in Thread, cf_malloc(t), malloc_block(t)
  PROVE  Inv'
<1> DEFINE c == job[t].sc
<1>1. /\ at(t, "malloc") /\ job[t] # Null /\ job[t].at = "malloc"
      /\ job' = [job EXCEPT ![t] = Null]
      /\ unlock_sizeClass(c) /\ page_lock' = page_lock
  BY DEF cf_malloc, at
<1>2. /\ OthersKeep(job, job', t) /\ job'[t] = Null
      /\ t \notin In(job, Moving) /\ t \notin In(job', Moving)
      /\ LocksHeld(class_lock', page_lock', job')
      /\ class_lock' \in [Class -> Thread \cup {Null}]
      /\ page_lock' \in [Page -> Thread \cup {Null}]
      /\ c \in Class /\ class_lock[c] = t
  BY <1>1, CallReturns
<1>3. PICK b \in Block, a \in AA : MallocEffect(t, c, b, a)
  BY <1>1, MallocTakes
<1> DEFINE p == page_of(b)
           i == index_of(b)
<1> HIDE DEF c
<1>4. /\ heap \in [Class -> SizeClassType] /\ page_sc \in [Page -> Class \cup {Null}]
      /\ aa \in [AA -> Block \cup {Null}] /\ mem \in [Block -> AA \cup {Null}]
      /\ live \in SUBSET AA
  BY DEF Inv, Typed, TypeOK
<1>5. /\ heap' = [heap EXCEPT ![c] = heap'[c]]
      /\ Updated(heap[c], heap'[c], p, heap[c].used[p] \cup {i}, 0)
      /\ heap[c].sourceentries[p] = 0
      /\ i \notin heap[c].used[p]
      /\ \A d \in Class \ {c} : heap[d].used[p] = {} /\ heap[d].sourceentries[p] = 0
      /\ aa[a] = Null
  BY <1>3 DEF MallocEffect
<1>6. /\ page_sc' = [page_sc EXCEPT ![p] = c]
      /\ aa' = [aa EXCEPT ![a] = b]
      /\ mem' = [mem EXCEPT ![b] = a]
      /\ live' = live \cup {a}
  BY <1>3 DEF MallocEffect
<1>7. PagesApart(heap, page_sc)
  BY DEF Inv
<1>8. p \in Page /\ i \in Index
  BY BlockPair
<1> HIDE DEF p, i
<1>9. /\ heap' \in [Class -> SizeClassType]
      /\ \A d \in Class : WellFormed(heap'[d])
      /\ \A d \in Class \ {c} : heap'[d] = heap[d]
      /\ \A d \in Class, q \in Page : d # c \/ q # p =>
           /\ heap'[d].used[q] = heap[d].used[q]
           /\ heap'[d].sourceentries[q] = heap[d].sourceentries[q]
      /\ heap'[c].sourceentries[p] = 0
      /\ used_blocks(heap'[c]) = used_blocks(heap[c]) \cup {b}
      /\ all_used(heap') = all_used(heap) \cup {b}
  <2> DEFINE u == heap[c].used[p] \cup {i}
  <2>1. u = heap[c].used[page_of(b)] \cup {index_of(b)}
    BY DEF p, i
  <2>2. ChangedAt(heap, heap', c, b, u, 0)
    <3>1. Updated(heap[c], heap'[c], page_of(b), u, 0)
      BY <1>5 DEF p
    <3>2. heap' = [heap EXCEPT ![c] = heap'[c]]
      BY <1>5
    <3> HIDE DEF u
    <3> QED
      BY ONLY b \in Block, <1>2, <1>4, <1>7, <3>1, <3>2, ClassChange
  <2> QED
    BY <2>1, <2>2 DEF ChangedAt, p
<1>10. b \notin all_used(heap)
  BY <1>2, <1>5 DEF all_used, used_blocks, p, i
<1>11. PagesApart(heap', page_sc')
  <2>1. ASSUME NEW d \in Class, NEW q \in Page, heap'[d].used[q] # {} \/ heap'[d].sourceentries[q] # 0
        PROVE  page_sc'[q] = d
    <3>1. CASE q = p
      <4>1. d = c
        BY <1>5, <1>9, <2>1, <3>1
      <4> QED
        BY <1>4, <1>6, <1>8, <3>1, <4>1
    <3>2. CASE q # p
      BY <1>4, <1>6, <1>7, <1>9, <2>1, <3>2 DEF PagesApart
    <3> QED
      BY <3>1, <3>2
  <2> QED
    BY <1>9, <2>1 DEF PagesApart
<1>12. /\ In(job', Moving) = In(job, Moving) /\ In(job', {"copy"}) = In(job, {"copy"})
       /\ \A u \in In(job, {"copy"}) : u \in In(job, Moving)
       /\ \A u \in In(job, Moving) : job'[u] = job[u]
       /\ \A d, q : MovedFrom(job', d, q) = MovedFrom(job, d, q)
  BY <1>2, MovingSame
<1>13. Counted(heap', job')
  <2>1. Counted(heap, job)
    BY DEF Inv
  <2>2. ASSUME NEW d \in Class, NEW q \in Page
        PROVE  heap'[d].sourceentries[q] = Cardinality(MovedFrom(job', d, q))
    <3>1. heap'[d].sourceentries[q] = heap[d].sourceentries[q]
      BY <1>5, <1>9
    <3> QED
      BY <1>12, <2>1, <3>1 DEF Counted
  <2> QED
    BY <2>2 DEF Counted
<1>14. Objects(heap, aa, mem, live, job) /\ AddressesApart(aa, live, job)
  BY DEF Inv
<1>15. /\ Owned(live', job') = Owned(live, job) \cup {a}
       /\ a \notin Owned(live, job)
       /\ \A x \in Owned(live, job) : /\ aa[x] \in Block /\ aa[x] # b /\ aa'[x] = aa[x] /\ x \in AA
                                      /\ mem'[aa[x]] = mem[aa[x]]
       /\ aa'[a] = b /\ mem'[b] = a
  <2>1. t \notin In(job, Freeing) /\ t \notin In(job', Freeing)
    BY <1>1, <1>2 DEF In, Freeing
  <2>2. Owned(live, job') = Owned(live, job)
    BY ONLY t \in Thread, <1>2, <2>1, OwnedSame
  <2>3. Owned(live', job') = Owned(live, job) \cup {a}
    BY <1>6, <2>2 DEF Owned
  <2>4. ASSUME NEW x \in Owned(live, job) PROVE aa[x] \in Block /\ aa[x] # b /\ x # a /\ x \in AA
    <3>1. aa[x] \in Block /\ aa[x] # b
      BY <1>7, <1>10, <1>14, OwnedBlock
    <3>2. x \in AA
      BY <1>4, JobNow DEF Owned, In, Placed, Job, Freeing, Moving, Inv, Typed
    <3> QED
      BY <1>5, <3>1, <3>2, NullAssumption
  <2> QED
    BY <1>4, <1>6, <2>3, <2>4
<1>16. AddressesApart(aa', live', job')
  <2>1. \A u \in Thread : job'[u] # Null => job[u] # Null /\ job'[u] = job[u]
    BY <1>2 DEF OthersKeep
  <2>2. ASSUME NEW x, aa[x] # Null, x \in AA PROVE x # a /\ aa'[x] # Null
    BY <1>4, <1>5, <1>6, <2>2
  <2>3. \A x \in live : x \in AA /\ aa[x] # Null
    BY <1>4, <1>14 DEF AddressesApart
  <2>4. b # Null
    BY NullAssumption
  <2>5. \A x \in live' : aa'[x] # Null
    BY <1>6, <1>15, <2>2, <2>3, <2>4
  <2>6. \A u \in Thread : job[u] # Null /\ job[u].address # Null => job[u].address \in AA
    BY JobNow DEF Job
  <2>7. ASSUME NEW u \in Thread, job'[u] # Null, job'[u].address # Null
        PROVE  /\ job'[u].address \notin live' /\ aa'[job'[u].address] # Null
               /\ \A v \in Thread : job'[v] # Null /\ job'[v].address = job'[u].address => v = u
    BY <1>6, <1>14, <2>1, <2>2, <2>6, <2>7 DEF AddressesApart
  <2> QED
    BY <2>5, <2>7 DEF AddressesApart
<1>17. Objects(heap', aa', mem', live', job')
  <2>1. {aa'[x] : x \in Owned(live', job')} = all_used(heap')
    BY <1>9, <1>14, <1>15 DEF Objects
  <2>2. \A x, y \in Owned(live', job') : aa'[x] = aa'[y] => x = y
    BY <1>14, <1>15 DEF Objects
  <2>3. ASSUME NEW x \in Owned(live', job')
        PROVE  mem'[aa'[x]] = x
               \/ \E u \in In(job', {"copy"}) : job'[u].src_aa = x /\ job'[u].blk = aa'[x]
    BY <1>12, <1>14, <1>15 DEF Objects
  <2> QED
    BY <2>1, <2>2, <2>3 DEF Objects
<1>18. Looked(heap', page_sc', aa', job')
  <2>1. \A q \in Page : \/ page_sc'[q] = page_sc[q]
                        \/ page_sc'[q] = c /\ \A d \in Class \ {c} : heap[d].used[q] = {}
    BY <1>4, <1>5, <1>6
  <2>2. \A u \in Thread \ {t} : job'[u] # Null => LookedAt(heap', page_sc', aa', job'[u])
    <3>1. OthersKeep(job, job', t) /\ class_lock[c] \in {t, Null} /\ c \in Class /\ t \in Thread
      BY <1>2, <1>9, <1>15, <2>1
    <3>2. \A d \in Class \ {c} : heap'[d] = heap[d]
      BY <1>2, <1>9, <1>15, <2>1
    <3>3. \A q \in Page : \/ page_sc'[q] = page_sc[q]
                          \/ page_sc'[q] = c /\ \A d \in Class \ {c} : heap[d].used[q] = {}
      BY <1>2, <1>9, <1>15, <2>1
    <3>4. \A x \in Owned(live, job) : page_sc[page_of(aa[x])] # c => aa'[x] = aa[x]
      BY <1>2, <1>9, <1>15, <2>1
    <3>5. StepsIn(t, c)
      BY ONLY <3>1, <3>2, <3>3, <3>4 DEF StepsIn
    <3> QED
      BY <3>1, <3>5, OthersLook
  <2> QED
    BY <1>2, <2>2 DEF Looked
<1>19. Copied(heap', aa', mem', live', job')
  <2>1. Copied(heap, aa, mem, live, job)
    BY DEF Inv
  <2>2. ASSUME NEW u \in In(job, Moving)
        PROVE  /\ job[u].src # b /\ job[u].src \in Block /\ job[u].src \notin used_blocks(heap'[job[u].sc])
    <3>1. /\ job[u].sc \in Class /\ job[u].src \in Block
          /\ heap[job[u].sc].sourceentries[page_of(job[u].src)] > 0
          /\ job[u].src \notin used_blocks(heap[job[u].sc])
      BY MovingPage
    <3>2. job[u].src # b
      BY <1>5, <3>1 DEF p
    <3> QED
      BY <1>9, <3>1, <3>2
  <2>3. ASSUME NEW u \in In(job, {"copy"})
        PROVE  CopyGoesOn(heap', aa', mem', Owned(live', job'), job[u])
    <3> DEFINE j == job[u]
    <3>1. /\ j.sc \in Class /\ j.blk \in Block /\ j.address \in AA /\ j.src \in Block /\ j.src # b
      BY <1>12, <2>2, MovingPage
    <3>2. CopyGoesOn(heap, aa, mem, Owned(live, job), j)
      BY <2>1 DEF Copied
    <3>3. j.address # a /\ j.blk # b
      <4>1. j.src_aa \in Owned(live, job) /\ aa[j.src_aa] = j.blk /\ aa[j.address] = j.blk
        BY <3>2 DEF CopyGoesOn
      <4> QED
        BY <1>5, <1>15, <3>1, <4>1, NullAssumption
    <3>4. is_full(heap'[j.sc], page_of(j.blk))
      <4>1. is_full(heap[j.sc], page_of(j.blk)) /\ page_of(j.blk) \in Page
        BY <3>1, <3>2, BlockPair DEF CopyGoesOn
      <4>2. ~(j.sc = c /\ page_of(j.blk) = p)
        BY <1>5, <1>8, <4>1 DEF is_full
      <4> QED
        BY <1>9, <3>1, <4>1, <4>2 DEF is_full
    <3> HIDE DEF j
    <3>5. /\ j.src_aa \in Owned(live', job') /\ aa'[j.src_aa] = j.blk
      BY <1>15, <3>2 DEF CopyGoesOn
    <3>6. /\ aa'[j.address] = j.blk
      BY <1>4, <1>6, <3>1, <3>2, <3>3 DEF CopyGoesOn
    <3>7. mem'[j.src] = j.src_aa /\ mem'[j.blk] = j.address
      BY <1>4, <1>6, <3>1, <3>2, <3>3 DEF CopyGoesOn
    <3> QED
      BY <3>4, <3>5, <3>6, <3>7 DEF CopyGoesOn, j
  <2> QED
    BY <1>12, <2>1, <2>2, <2>3 DEF Copied
<1>20. Typed'
  <2>1. /\ page_sc' \in [Page -> Class \cup {Null}] /\ aa' \in [AA -> Block \cup {Null}]
        /\ mem' \in [Block -> AA \cup {Null}] /\ live' \in SUBSET AA
    BY <1>2, <1>4, <1>6
  <2> QED
    BY <1>2, <1>9, <2>1, TypedAfter
<1> QED
  BY <1>2, <1>11, <1>13, <1>16, <1>17, <1>18, <1>19, <1>20, Zenon DEF Inv
-----------------------------------------------------------------------------
(* cf_free without a compaction.                                           *)
LEMMA FreePages ==
  ASSUME NEW h, WellFormed(h), NEW p \in Page
  PROVE  p \in free_pages(h) <=> h.used[p] = {} /\ h.sourceentries[p] = 0
<1>1. ASSUME h.used[p] = {}, h.sourceentries[p] = 0 PROVE h.list_flags[p] = "free"
  <2>1. h.nr_used[p] = 0
    BY <1>1, PageFacts, UsedBlocks
  <2>2. StateOf(h.list_flags[p], h.used[p], h.nr_used[p], h.sourceentries[p])
    BY DEF WellFormed
  <2> QED
    BY <1>1, <2>1, <2>2, PageBlocksAssumption DEF StateOf
<1>2. p \in free_pages(h) <=> h.list_flags[p] = "free"
  BY DEF free_pages
<1> QED
  BY <1>1, <1>2, PageFacts

(* Only the block that is given back is forgotten, and the page it is in   *)
(* once that page is free.                                                 *)
LEMMA Remembered ==
  ASSUME NEW c \in Class, WellFormed(heap[c]), NEW b \in Block, NEW g, NEW u, NEW e,
         Updated(heap[c], g, page_of(b), u, e),
         mem \in [Block -> AA \cup {Null}], NEW m, m = forget(mem, b, c, g)
  PROVE  /\ m \in [Block -> AA \cup {Null}]
         /\ \A x \in Block :
              x # b /\ (page_of(x) # page_of(b) \/ u # {} \/ e # 0) => m[x] = mem[x]
<1> DEFINE p == page_of(b)
<1>1. /\ p \in Page /\ WellFormed(g)
      /\ \A q \in Page : q # p => /\ g.used[q] = heap[c].used[q]
                                  /\ g.sourceentries[q] = heap[c].sourceentries[q]
      /\ g.used[p] = u /\ g.sourceentries[p] = e
  <2>1. p \in Page /\ WellFormed(g)
    BY BlockPair DEF Updated
  <2>2. heap[c] \in SizeClassType
    BY DEF WellFormed
  <2>3. heap[c].used \in [Page -> SUBSET Index] /\ heap[c].sourceentries \in [Page -> Int]
    BY ONLY <2>2 DEF SizeClassType
  <2>4. g.used = [heap[c].used EXCEPT ![p] = u] /\ g.sourceentries = [heap[c].sourceentries EXCEPT ![p] = e]
    BY DEF Updated
  <2> HIDE DEF p
  <2> QED
    BY ONLY <2>1, <2>3, <2>4
<1>2. \A q \in Page : q \in free_pages(g) \ free_pages(heap[c]) => q = p /\ u = {} /\ e = 0
  <2> SUFFICES ASSUME NEW q \in Page, q \in free_pages(g), q \notin free_pages(heap[c])
               PROVE  q = p /\ u = {} /\ e = 0
    OBVIOUS
  <2>1. g.used[q] = {} /\ g.sourceentries[q] = 0
    BY <1>1, FreePages
  <2>2. ~(heap[c].used[q] = {} /\ heap[c].sourceentries[q] = 0)
    BY FreePages
  <2> QED
    BY <1>1, <2>1, <2>2
<1>3. \A x \in Block : page_of(x) \in Page
  BY BlockPair
<1>4. m = [x \in Block |-> IF x = b \/ page_of(x) \in free_pages(g) \ free_pages(heap[c])
                            THEN Null ELSE mem[x]]
  BY DEF forget
<1> QED
  BY <1>2, <1>3, <1>4

(* A copy that goes on has its pages for itself.                           *)
LEMMA CopyOfOther ==
  ASSUME Inv, NEW u \in In(job, {"copy"})
  PROVE  /\ u \in Thread /\ u \in In(job, Moving)
         /\ job[u].src \in Block /\ job[u].blk \in Block /\ job[u].src_aa \in AA
         /\ job[u].address \in AA /\ job[u].sc \in Class
         /\ job[u].src_aa \in Owned(live, job)
         /\ aa[job[u].src_aa] = job[u].blk /\ aa[job[u].address] = job[u].blk
         /\ mem[job[u].src] = job[u].src_aa /\ mem[job[u].blk] = job[u].address
         /\ is_full(heap[job[u].sc], page_of(job[u].blk))
         /\ page_of(job[u].src) \in Page /\ page_of(job[u].blk) \in Page
         /\ page_lock[page_of(job[u].src)] = u /\ page_lock[page_of(job[u].blk)] = u
<1>1. u \in Thread /\ job[u] # Null /\ job[u].at = "copy" /\ u \in In(job, Moving)
  BY DEF In, Moving
<1>2. CopyGoesOn(heap, aa, mem, Owned(live, job), job[u])
  BY DEF Inv, Copied
<1>3. /\ job[u].src \in Block /\ job[u].blk \in Block /\ job[u].src_aa \in AA
      /\ job[u].address \in AA /\ job[u].sc \in Class
  BY <1>1, MovingPage
<1>4. page_of(job[u].src) \in Page /\ page_of(job[u].blk) \in Page
  BY <1>3, BlockPair
<1>5. page_lock[page_of(job[u].src)] = u /\ page_lock[page_of(job[u].blk)] = u
  BY <1>1, <1>4, JobNow DEF HasPage
<1> QED
  BY <1>1, <1>2, <1>3, <1>4, <1>5 DEF CopyGoesOn

LEMMA FreeInPlaceInv ==
  ASSUME Inv, NEW t \in Thread, free_in_place(t)
  PROVE  Inv'
<1> DEFINE c == job[t].sc
           b == job[t].blk
           a == job[t].address
           p == page_of(b)
           i == index_of(b)
           g == IF in_full_state(heap[c]) THEN do_free_full_state(heap[c], p, i)
                ELSE IF valid_nfull_pages_ratio(heap[c], 1) THEN do_free(heap[c], p, i)
                ELSE do_free_nfull_state(heap[c], p, i)
           u == heap[c].used[p] \ {i}
           e == heap[c].sourceentries[p]
<1>1. /\ job[t] # Null /\ job[t].at = "check" /\ page_sc[p] = c
      /\ ~compaction_needed(heap[c], p) /\ page_lock[p] = Null
      /\ job' = [job EXCEPT ![t] = Null]
      /\ unlock_sizeClass(c) /\ page_lock' = page_lock
      /\ page_sc' = page_sc /\ live' = live
      /\ aa' = [aa EXCEPT ![a] = Null]
  BY DEF free_in_place, at, got_right_lock, page_unlocked
<1>2. heap' = [heap EXCEPT ![c] = g] /\ mem' = forget(mem, b, c, g)
  BY DEF free_in_place
<1>3. /\ heap \in [Class -> SizeClassType] /\ page_sc \in [Page -> Class \cup {Null}]
      /\ aa \in [AA -> Block \cup {Null}] /\ mem \in [Block -> AA \cup {Null}]
      /\ live \in SUBSET AA
  BY DEF Inv, Typed, TypeOK
<1>4. /\ job[t] \in Job /\ Placed(job[t]) /\ LookedAt(heap, page_sc, aa, job[t])
      /\ a \in Owned(live, job)
  BY <1>1, JobNow DEF Freeing
<1>5. c \in Class /\ b \in Block /\ a \in AA /\ b = aa[a] /\ p \in Page /\ i \in Index
  <2>1. c \in Class /\ b \in Block /\ a # Null
    BY <1>1, <1>4 DEF Placed
  <2>2. a \in AA /\ b = aa[a]
    BY <1>1, <1>4, <2>1 DEF LookedAt, Job
  <2> QED
    BY <2>1, <2>2, BlockPair
<1>6. PagesApart(heap, page_sc) /\ Objects(heap, aa, mem, live, job)
      /\ AddressesApart(aa, live, job) /\ Counted(heap, job)
  BY DEF Inv
<1>7. b \in used_blocks(heap[c]) /\ i \in heap[c].used[p] /\ WellFormed(heap[c])
  <2>1. b \in used_blocks(heap[page_sc[p]])
    BY <1>4, <1>5, <1>6, OwnedBlock
  <2> QED
    BY <1>1, <1>5, <1>6, <2>1 DEF used_blocks, PagesApart
<1>8. Updated(heap[c], g, p, u, e)
  <2>1. ASSUME in_full_state(heap[c]) PROVE heap[c].list_flags[p] = "full"
    BY <1>5, <1>7, <2>1, PageFacts, FullStateFlags
  <2>2. CASE in_full_state(heap[c])
    <3>1. g = do_free_full_state(heap[c], p, i)
      BY <2>2
    <3> HIDE DEF g, p, i, c
    <3> QED
      BY <1>5, <1>7, <2>1, <2>2, <3>1, FreeFullPage
  <2>3. CASE ~in_full_state(heap[c]) /\ valid_nfull_pages_ratio(heap[c], 1)
    <3>1. g = do_free(heap[c], p, i)
      BY <2>3
    <3> HIDE DEF g, p, i, c
    <3> QED
      BY <1>5, <1>7, <3>1, FreePage
  <2>4. CASE ~in_full_state(heap[c]) /\ ~valid_nfull_pages_ratio(heap[c], 1)
    <3>1. g = do_free_nfull_state(heap[c], p, i)
      BY <2>4
    <3>2. ~is_page_full(heap[c], p)
      BY <1>1, <2>4 DEF compaction_needed
    <3> HIDE DEF g, p, i, c
    <3> QED
      BY <1>5, <1>7, <3>1, <3>2, FreeNfullPage
  <2> QED
    BY <2>2, <2>3, <2>4
<1> HIDE DEF g, c
<1>9. ChangedAt(heap, heap', c, b, u, e)
  <2> HIDE DEF u, e
  <2>1. Updated(heap[c], g, page_of(b), u, e)
    BY <1>8
  <2> QED
    BY <1>2, <1>3, <1>5, <1>6, <2>1, ClassChange
<1>10. /\ mem' \in [Block -> AA \cup {Null}]
       /\ \A x \in Block : x # b /\ (page_of(x) # p \/ u # {} \/ e # 0) => mem'[x] = mem[x]
  <2> HIDE DEF u, e
  <2>1. Updated(heap[c], g, page_of(b), u, e)
    BY <1>8
  <2>2. /\ mem' \in [Block -> AA \cup {Null}]
        /\ \A x \in Block :
             x # b /\ (page_of(x) # page_of(b) \/ u # {} \/ e # 0) => mem'[x] = mem[x]
    <3> HIDE DEF b, p, i
    <3> QED
      BY <1>2, <1>3, <1>5, <1>7, <2>1, Remembered
  <2> QED
    BY <2>2
<1>11. /\ heap' \in [Class -> SizeClassType]
       /\ \A d \in Class : WellFormed(heap'[d])
       /\ \A d \in Class \ {c} : heap'[d] = heap[d]
       /\ \A d \in Class, q \in Page :
            /\ d # c \/ q # p => heap'[d].used[q] = heap[d].used[q]
            /\ heap'[d].used[q] \subseteq heap[d].used[q]
            /\ heap'[d].sourceentries[q] = heap[d].sourceentries[q]
       /\ used_blocks(heap'[c]) = used_blocks(heap[c]) \ {b}
       /\ all_used(heap') = all_used(heap) \ {b}
  BY <1>7, <1>9 DEF ChangedAt
<1>12. /\ OthersKeep(job, job', t) /\ job'[t] = Null
       /\ t \notin In(job, Moving) /\ t \notin In(job', Moving)
       /\ LocksHeld(class_lock', page_lock', job')
       /\ class_lock' \in [Class -> Thread \cup {Null}]
       /\ page_lock' \in [Page -> Thread \cup {Null}]
       /\ class_lock[c] = t
  BY <1>1, CallReturns DEF c
<1>13. /\ In(job', Moving) = In(job, Moving) /\ In(job', {"copy"}) = In(job, {"copy"})
       /\ \A v \in In(job, {"copy"}) : v \in In(job, Moving)
       /\ \A v \in In(job, Moving) : job'[v] = job[v]
       /\ \A d, q : MovedFrom(job', d, q) = MovedFrom(job, d, q)
  BY <1>12, MovingSame
<1>14. PagesApart(heap', page_sc')
  BY <1>1, <1>6, <1>11 DEF PagesApart
<1>15. Counted(heap', job')
  BY <1>6, <1>11, <1>13 DEF Counted
<1>16. /\ Owned(live', job') = Owned(live, job) \ {a}
       /\ \A x \in Owned(live, job) \ {a} : x \in AA /\ aa[x] \in Block /\ aa[x] # b /\ aa'[x] = aa[x]
  <2>1. \A x : x \in Owned(live', job') <=> x \in Owned(live, job) /\ x # a
    <3>1. a \notin live
      BY <1>1, <1>5, <1>6, NullAssumption DEF AddressesApart
    <3>2. \A v \in Thread \ {t} : job[v] # Null /\ job[v].at \in Freeing => job[v].address # a
      BY <1>1, <1>5, <1>6, NullAssumption DEF AddressesApart
    <3>3. \A v \in Thread : v \in In(job', Freeing) <=> v # t /\ v \in In(job, Freeing)
      BY <1>12 DEF In, OthersKeep
    <3>4. \A v \in Thread \ {t} : job'[v] = job[v]
      BY <1>12 DEF OthersKeep
    <3>5. \A v \in In(job, Freeing) : v \in Thread /\ job[v] # Null /\ job[v].at \in Freeing
      BY DEF In
    <3>6. \A x : x \in Owned(live', job') <=> x \in live \/ \E v \in In(job', Freeing) : x = job'[v].address
      BY <1>1 DEF Owned
    <3>7. \A x : x \in Owned(live, job) <=> x \in live \/ \E v \in In(job, Freeing) : x = job[v].address
      BY DEF Owned
    <3>8. \A v \in In(job', Freeing) : v \in Thread
      BY DEF In
    <3> HIDE DEF a
    <3> QED
      BY <1>4, <3>1, <3>2, <3>3, <3>4, <3>5, <3>6, <3>7, <3>8
  <2>2. ASSUME NEW x \in Owned(live, job), x # a
        PROVE  x \in AA /\ aa[x] \in Block /\ aa[x] # b /\ aa'[x] = aa[x]
    <3>1. x \in AA
      BY <1>3, JobNow DEF Owned, In, Placed, Job, Freeing, Moving, Inv, Typed
    <3>2. aa[x] \in Block
      BY <1>6, OwnedBlock
    <3>3. aa[x] # b
      BY <1>4, <1>5, <1>6, <2>2 DEF Objects
    <3> QED
      BY <1>1, <1>3, <1>5, <2>2, <3>1, <3>2, <3>3
  <2> QED
    BY <2>1, <2>2
<1>17. AddressesApart(aa', live', job')
  <2>1. \A v \in Thread : job'[v] # Null => v # t /\ job[v] # Null /\ job'[v] = job[v]
    BY <1>12 DEF OthersKeep
  <2>2. \A x \in AA : x # a => aa'[x] = aa[x]
    BY <1>1, <1>3
  <2>3. \A x \in live : x # a
    BY <1>1, <1>5, <1>6, NullAssumption DEF AddressesApart
  <2>4. \A v \in Thread : v # t /\ job[v] # Null /\ job[v].address # Null =>
          job[v].address # a /\ job[v].address \in AA
    BY <1>1, <1>5, <1>6, JobNow, NullAssumption DEF AddressesApart, Job
  <2> HIDE DEF a
  <2> QED
    BY <1>1, <1>3, <1>6, <2>1, <2>2, <2>3, <2>4 DEF AddressesApart
<1>18. Objects(heap', aa', mem', live', job')
  <2>1. {aa'[x] : x \in Owned(live', job')} = all_used(heap')
    <3>1. \A y : y \in all_used(heap) <=> \E x \in Owned(live, job) : y = aa[x]
      BY <1>6 DEF Objects
    <3> HIDE DEF a
    <3>2. \A y : y \in all_used(heap') <=> \E x \in Owned(live', job') : y = aa'[x]
      BY <1>5, <1>11, <1>16, <3>1
    <3> QED
      BY <3>2
  <2>2. \A x, y \in Owned(live', job') : aa'[x] = aa'[y] => x = y
    BY <1>6, <1>16 DEF Objects
  <2>3. ASSUME NEW x \in Owned(live', job')
        PROVE  mem'[aa'[x]] = x
               \/ \E v \in In(job', {"copy"}) : job'[v].src_aa = x /\ job'[v].blk = aa'[x]
    <3>1. x \in Owned(live, job) /\ x # a /\ aa[x] \in Block /\ aa[x] # b /\ aa'[x] = aa[x]
      BY <1>16
    <3>2. page_of(aa[x]) = p => u # {}
      <4> SUFFICES ASSUME page_of(aa[x]) = p PROVE u # {}
        OBVIOUS
      <4>1. aa[x] \in used_blocks(heap[c])
        BY <1>1, <1>6, <3>1, OwnedBlock
      <4>2. index_of(aa[x]) \in heap[c].used[p] /\ index_of(aa[x]) # i
        BY <1>5, <3>1, <4>1, BlockPair DEF used_blocks
      <4> QED
        BY <4>2
    <3>3. mem'[aa[x]] = mem[aa[x]]
      BY <1>10, <3>1, <3>2
    <3> QED
      BY <1>6, <1>13, <3>1, <3>3 DEF Objects
  <2> QED
    BY <2>1, <2>2, <2>3 DEF Objects
<1>19. Looked(heap', page_sc', aa', job')
  <2>1. \A x \in Owned(live, job) : page_sc[page_of(aa[x])] # c => aa'[x] = aa[x]
    BY <1>1, <1>5, <1>16
  <2>2. \A v \in Thread \ {t} : job'[v] # Null => LookedAt(heap', page_sc', aa', job'[v])
    <3>1. OthersKeep(job, job', t) /\ class_lock[c] \in {t, Null} /\ c \in Class /\ t \in Thread
      BY <1>1, <1>5, <1>11, <1>12, <2>1
    <3>2. \A d \in Class \ {c} : heap'[d] = heap[d]
      BY <1>1, <1>5, <1>11, <1>12, <2>1
    <3>3. \A q \in Page : \/ page_sc'[q] = page_sc[q]
                          \/ page_sc'[q] = c /\ \A d \in Class \ {c} : heap[d].used[q] = {}
      BY <1>1, <1>5, <1>11, <1>12, <2>1
    <3>4. \A x \in Owned(live, job) : page_sc[page_of(aa[x])] # c => aa'[x] = aa[x]
      BY <1>1, <1>5, <1>11, <1>12, <2>1
    <3>5. StepsIn(t, c)
      BY ONLY <3>1, <3>2, <3>3, <3>4 DEF StepsIn
    <3> QED
      BY <3>1, <3>5, OthersLook
  <2> QED
    BY <1>12, <2>2 DEF Looked
<1>20. Copied(heap', aa', mem', live', job')
  <2>1. Copied(heap, aa, mem, live, job)
    BY DEF Inv
  <2>2. ASSUME NEW v \in In(job, Moving) PROVE job[v].src \notin used_blocks(heap'[job[v].sc])
    <3>1. job[v].sc \in Class /\ job[v].src \notin used_blocks(heap[job[v].sc])
      BY MovingPage
    <3> QED
      BY <1>11, <3>1
  <2>3. ASSUME NEW v \in In(job, {"copy"})
        PROVE  CopyGoesOn(heap', aa', mem', Owned(live', job'), job[v])
    <3> DEFINE k == job[v]
    <3>1. /\ v \in Thread /\ k.src \in Block /\ k.blk \in Block /\ k.sc \in Class
          /\ k.address \in AA /\ k.src_aa \in Owned(live, job)
          /\ aa[k.src_aa] = k.blk /\ aa[k.address] = k.blk
          /\ mem[k.src] = k.src_aa /\ mem[k.blk] = k.address
          /\ is_full(heap[k.sc], page_of(k.blk))
          /\ page_of(k.src) \in Page /\ page_of(k.blk) \in Page
          /\ page_lock[page_of(k.src)] = v /\ page_lock[page_of(k.blk)] = v
      BY CopyOfOther
    <3> HIDE DEF k
    <3>2. page_of(k.src) # p /\ page_of(k.blk) # p
      BY <1>1, <3>1, NullAssumption
    <3>3. k.src # b /\ k.blk # b /\ k.src_aa # a /\ k.address # a
      BY <1>5, <3>1, <3>2
    <3>4. mem'[k.src] = k.src_aa /\ mem'[k.blk] = k.address
      BY <1>10, <3>1, <3>2, <3>3
    <3>5. aa'[k.src_aa] = k.blk /\ aa'[k.address] = k.blk /\ k.src_aa \in Owned(live', job')
      BY <1>1, <1>3, <1>16, <3>1, <3>3
    <3>6. is_full(heap'[k.sc], page_of(k.blk))
      BY <1>11, <3>1, <3>2 DEF is_full
    <3> QED
      BY <3>4, <3>5, <3>6 DEF CopyGoesOn, k
  <2> QED
    BY <1>13, <2>1, <2>2, <2>3 DEF Copied
<1>21. Typed'
  <2>1. /\ page_sc' \in [Page -> Class \cup {Null}] /\ aa' \in [AA -> Block \cup {Null}]
        /\ live' \in SUBSET AA
    BY <1>1, <1>3
  <2> QED
    BY <1>10, <1>11, <1>12, <2>1, TypedAfter
<1> QED
  BY <1>12, <1>14, <1>15, <1>17, <1>18, <1>19, <1>20, <1>21, Zenon DEF Inv

-----------------------------------------------------------------------------
(* do_compaction: the source block is chosen, its object copied and the    *)
(* source page released.                                                   *)

(* The block do_compaction chooses, and what taking its object does to its *)
(* page.                                                                   *)
LEMMA SourceChosen ==
  ASSUME Inv, NEW t \in Thread, job[t] # Null, job[t].at \in {"source", "redirect"}
  PROVE  LET h == heap[job[t].sc]
             src == source_block(h)
             p == source_page(h)
         IN  /\ job[t].sc \in Class /\ src \in Block /\ p \in Page
             /\ page_of(src) = p /\ p # page_of(job[t].blk)
             /\ src \in used_blocks(h) /\ get_source_page(h).used[p] # {}
             /\ get_source_page(h).ok
             /\ Updated(h, page_clear_used_bit(get_source_page(h), p, index_of(src)), p,
                        h.used[p] \ {index_of(src)}, h.sourceentries[p] + 1)
<1> DEFINE c == job[t].sc
           p == source_page(heap[c])
           chosen == get_source_page(heap[c])
           i == find_used_page_block(chosen, p)
           src == source_block(heap[c])
           g == page_clear_used_bit(chosen, p, index_of(src))
           q == page_of(job[t].blk)
<1>1. /\ Placed(job[t]) /\ LookedAt(heap, page_sc, aa, job[t])
      /\ heap \in [Class -> SizeClassType]
  BY JobNow DEF Inv, Typed, TypeOK
<1>2. /\ c \in Class /\ job[t].blk \in Block /\ is_full(heap[c], q)
      /\ ~in_full_state(heap[c])
  BY <1>1 DEF Placed, LookedAt
<1>3. WellFormed(heap[c])
  BY <1>2 DEF Inv, PagesApart
<1>4. heap[c].source # <<>> \/ heap[c].nfull # <<>>
  BY <1>2 DEF in_full_state, nfullentries
<1>5. /\ p \in Page /\ chosen.ok /\ chosen.used = heap[c].used
      /\ chosen.used[p] \in SUBSET Index /\ chosen.used[p] # {}
      /\ heap[c].list_flags[p] # "full"
      /\ \A n \in heap[c].used[p] :
           Updated(heap[c], page_clear_used_bit(chosen, p, n), p, heap[c].used[p] \ {n},
                   heap[c].sourceentries[p] + 1)
  <2> HIDE DEF c
  <2> QED
    BY <1>3, <1>4, TakeSource
<1>6. i \in heap[c].used[p] /\ i \in Index
  BY <1>5, MinOfIndexes DEF find_used_page_block
<1>7. src = <<p, i>>
  BY DEF source_block
<1> HIDE DEF chosen, p, i, src
<1>8. src \in Block /\ page_of(src) = p /\ index_of(src) = i
  BY <1>5, <1>6, <1>7, BlockPair
<1> HIDE DEF c
<1>9. Updated(heap[c], g, p, heap[c].used[p] \ {index_of(src)}, heap[c].sourceentries[p] + 1)
  BY <1>5, <1>6, <1>8
<1>10. src \in used_blocks(heap[c])
  BY <1>6, <1>8 DEF used_blocks
<1>11. p # q
  <2>1. q \in Page
    BY <1>2, BlockPair
  <2>2. heap[c].list_flags[q] = "full"
    BY <1>2, <1>3, <2>1, FullPage, PageFacts
  <2> QED
    BY <1>5, <2>2
<1> QED
  BY <1>2, <1>5, <1>8, <1>9, <1>10, <1>11 DEF c, chosen, p, src

LEMMA LockSourceInv ==
  ASSUME Inv, NEW t \in Thread, lock_source_page(t)
  PROVE  Inv'
<1> DEFINE j == job[t]
           q == page_of(j.blk)
           p == source_page(heap[j.sc])
           src == source_block(heap[j.sc])
           k == [j EXCEPT !.at = "redirect", !.src = src]
<1>1. /\ j # Null /\ j.at = "source"
      /\ heap' = heap /\ page_sc' = page_sc /\ aa' = aa /\ mem' = mem /\ live' = live
      /\ page_lock[p] = Null /\ page_lock' = [page_lock EXCEPT ![p] = t]
      /\ class_lock' = class_lock
  BY DEF lock_source_page, at, lock_page, page_unlocked
<1>2. /\ job \in [Thread -> Job \cup {Null}] /\ j \in Job /\ Placed(j)
      /\ LookedAt(heap, page_sc, aa, j)
  BY <1>1, JobNow
<1>3. j.sc \in Class /\ src \in Block /\ p \in Page /\ page_of(src) = p /\ p # q
  BY <1>1, SourceChosen
<1>4. j.blk \in Block /\ q \in Page
  BY <1>1, <1>2, BlockPair DEF Placed
<1>5. job' = [job EXCEPT ![t] = k]
  BY <1>1, <1>2 DEF lock_source_page
<1> HIDE DEF src
<1>6. /\ k \in Job /\ k.at = "redirect" /\ k.address = j.address /\ k.blk = j.blk
      /\ k.sc = j.sc /\ k.src = src
  BY <1>2, <1>3 DEF Job
<1> HIDE DEF k
<1>7. Placed(k)
  BY <1>1, <1>2, <1>3, <1>4, <1>6 DEF Placed, Moving
<1>8. LookedAt(heap, page_sc, aa, k)
  BY <1>1, <1>2, <1>6 DEF LookedAt, src
<1>9. k # Null /\ page_lock \in [Page -> Thread \cup {Null}]
  BY <1>6, NoneAssumption, JobNow
<1>10. \A d \in Class : class_lock'[d] = class_lock[d] /\ (class_lock[d] = t <=> HasClass(k, d))
  BY <1>1, <1>6, <1>9, JobNow DEF HasClass
<1>11. \A r \in Page : (page_lock'[r] = t <=> HasPage(k, r))
                       /\ (page_lock'[r] = page_lock[r]
                           \/ {page_lock'[r], page_lock[r]} \subseteq {t, Null})
  <2>1. \A r \in Page : page_lock[r] = t <=> r = q
    BY <1>1, JobNow DEF HasPage
  <2>2. \A r \in Page : HasPage(k, r) <=> r = q \/ r = p
    BY <1>3, <1>6, <1>9 DEF HasPage
  <2> HIDE DEF q, p
  <2> QED
    BY <1>1, <1>3, <1>4, <1>9, <2>1, <2>2
<1>12. /\ class_lock' \in [Class -> Thread \cup {Null}]
       /\ page_lock' \in [Page -> Thread \cup {Null}]
  BY <1>1, JobNow
<1>13. j.at \in Freeing /\ k.at \in Freeing
  BY <1>1, <1>6 DEF Freeing
<1>14. FreeingStep(t, k)
  BY <1>1, <1>5, <1>6, <1>7, <1>8, <1>10, <1>11, <1>12, <1>13 DEF FreeingStep
<1> QED
  BY <1>14, FreeingInv

(* What redirect does, without the operations on pages: an object o moves  *)
(* from src to the block of the address that is freed.                     *)
SourceEffect(t, c, src, o) ==
  /\ heap' = [heap EXCEPT ![c] = heap'[c]]
  /\ Updated(heap[c], heap'[c], page_of(src), heap[c].used[page_of(src)] \ {index_of(src)},
             heap[c].sourceentries[page_of(src)] + 1)
  /\ src \in used_blocks(heap[c])
  /\ o \in Owned(live, job) /\ aa[o] = src /\ mem[src] = o
  /\ page_of(src) # page_of(job[t].blk)
  /\ aa' = [aa EXCEPT ![o] = aa[job[t].address]]
  /\ job[t].src = src
  /\ job' = [job EXCEPT ![t].at = "copy", ![t].src_aa = o]

LEMMA SourceTaken ==
  ASSUME Inv, NEW t \in Thread, redirect(t)
  PROVE  \E src \in Block, o \in AA : SourceEffect(t, job[t].sc, src, o)
<1> DEFINE c == job[t].sc
           chosen == get_source_page(heap[c])
           src == job[t].src
           p == page_of(src)
           o == mem[src]
           g == page_clear_used_bit(chosen, p, index_of(src))
<1>1. job[t] # Null /\ job[t].at = "redirect"
  BY Zenon DEF redirect, at
<1>2. \/ /\ chosen.ok /\ chosen.used[p] # {} /\ o \in AA
         /\ heap' = [heap EXCEPT ![c] = g]
         /\ aa' = [aa EXCEPT ![o] = aa[job[t].address]]
         /\ job' = [job EXCEPT ![t].at = "copy", ![t].src_aa = o]
      \/ ~(chosen.ok /\ chosen.used[p] # {} /\ o \in AA)
  BY DEF redirect
<1>3. src = source_block(heap[c]) /\ heap \in [Class -> SizeClassType]
  BY <1>1, JobNow DEF LookedAt, Inv, Typed, TypeOK
<1>4. /\ c \in Class /\ src \in Block /\ p \in Page /\ p # page_of(job[t].blk)
      /\ src \in used_blocks(heap[c]) /\ chosen.used[p] # {} /\ chosen.ok
      /\ Updated(heap[c], g, p, heap[c].used[p] \ {index_of(src)}, heap[c].sourceentries[p] + 1)
  BY <1>1, <1>3, SourceChosen
<1>5. page_lock[p] = t
  BY <1>1, <1>4, JobNow DEF HasPage
<1> HIDE DEF chosen, p, src, c
<1>6. PagesApart(heap, page_sc) /\ Objects(heap, aa, mem, live, job)
  BY DEF Inv
<1>7. PICK x \in Owned(live, job) : aa[x] = src
  BY <1>4, <1>6, OwnedBlock
<1>8. mem[src] = x
  <2>1. ASSUME NEW u \in In(job, {"copy"}), job[u].blk = src PROVE FALSE
    <3>1. page_lock[p] = u /\ u # t
      BY <1>1, <2>1, CopyOfOther DEF In, p
    <3> QED
      BY <1>5, <3>1
  <2> QED
    BY <1>6, <1>7, <2>1 DEF Objects
<1>9. x \in AA
  <2>1. mem \in [Block -> AA \cup {Null}] /\ aa \in [AA -> Block \cup {Null}]
    BY DEF Inv, Typed, TypeOK
  <2>2. x # Null
    BY JobNow, NullAssumption DEF Owned, In, Placed, Job, Freeing, Moving, Inv, Typed
  <2> QED
    BY <1>4, <1>8, <2>1, <2>2
<1>10. o \in AA /\ o = x
  BY <1>8, <1>9
<1> HIDE DEF o, g
<1>11. /\ heap' = [heap EXCEPT ![c] = g]
       /\ aa' = [aa EXCEPT ![o] = aa[job[t].address]]
       /\ job' = [job EXCEPT ![t].at = "copy", ![t].src_aa = o]
  BY <1>2, <1>4, <1>10
<1>12. heap'[c] = g
  BY <1>3, <1>4, <1>11
<1>13. SourceEffect(t, c, src, o)
  BY <1>4, <1>7, <1>8, <1>10, <1>11, <1>12 DEF SourceEffect, p, src
<1> QED
  BY <1>4, <1>10, <1>13 DEF c

LEMMA RedirectInv ==
  ASSUME Inv, NEW t \in Thread, redirect(t)
  PROVE  Inv'
<1> DEFINE c == job[t].sc
           b == job[t].blk
           a == job[t].address
           q == page_of(b)
<1>1. PICK src \in Block, o \in AA : SourceEffect(t, c, src, o)
  BY SourceTaken, Zenon
<1> DEFINE p == page_of(src)
           u == heap[c].used[p] \ {index_of(src)}
           e == heap[c].sourceentries[p] + 1
           k == [job[t] EXCEPT !.at = "copy", !.src_aa = o]
<1>2. /\ job[t] # Null /\ job[t].at = "redirect" /\ job[t].src = src
      /\ class_lock' = [class_lock EXCEPT ![c] = Null]
      /\ page_lock' = page_lock /\ page_sc' = page_sc /\ mem' = mem /\ live' = live
  BY <1>1 DEF redirect, at, unlock_sizeClass, SourceEffect
<1>3. /\ heap \in [Class -> SizeClassType] /\ page_sc \in [Page -> Class \cup {Null}]
      /\ aa \in [AA -> Block \cup {Null}] /\ mem \in [Block -> AA \cup {Null}]
      /\ live \in SUBSET AA /\ class_lock \in [Class -> Thread \cup {Null}]
      /\ page_lock \in [Page -> Thread \cup {Null}] /\ job \in [Thread -> Job \cup {Null}]
  BY DEF Inv, Typed, TypeOK
<1>4. /\ job[t] \in Job /\ Placed(job[t]) /\ LookedAt(heap, page_sc, aa, job[t])
      /\ a \in Owned(live, job)
      /\ \A d \in Class : class_lock[d] = t <=> HasClass(job[t], d)
      /\ \A r \in Page : page_lock[r] = t <=> HasPage(job[t], r)
  BY <1>2, JobNow DEF Freeing
<1>5. /\ c \in Class /\ b \in Block /\ a \in AA /\ b = aa[a] /\ q \in Page
      /\ page_sc[q] = c /\ is_full(heap[c], q)
      /\ \A d \in Class : class_lock[d] = t <=> d = c
      /\ \A r \in Page : page_lock[r] = t <=> r = q \/ r = p
  <2>1. c \in Class /\ b \in Block /\ a # Null
    BY <1>2, <1>4 DEF Placed
  <2>2. /\ a \in AA /\ b = aa[a] /\ page_sc[q] = c /\ is_full(heap[c], q)
    BY <1>2, <1>4, <2>1 DEF LookedAt, Job
  <2>3. \A d \in Class : class_lock[d] = t <=> d = c
    BY <1>2, <1>4 DEF HasClass
  <2>4. \A r \in Page : page_lock[r] = t <=> r = q \/ r = p
    BY <1>2, <1>4 DEF HasPage
  <2> QED
    BY <2>1, <2>2, <2>3, <2>4, BlockPair
<1>6. /\ heap' = [heap EXCEPT ![c] = heap'[c]]
      /\ Updated(heap[c], heap'[c], p, u, e)
      /\ src \in used_blocks(heap[c])
      /\ o \in Owned(live, job) /\ aa[o] = src /\ mem[src] = o
      /\ p # q
      /\ aa' = [aa EXCEPT ![o] = b]
      /\ job' = [job EXCEPT ![t] = k]
  BY <1>1, <1>3, <1>5 DEF SourceEffect
<1>7. /\ k \in Job /\ k.at = "copy" /\ k.address = a /\ k.sc = c /\ k.blk = b
      /\ k.src = src /\ k.src_aa = o
  BY <1>2, <1>4 DEF Job
<1> HIDE DEF k, c
<1>8. OthersKeep(job, job', t) /\ job'[t] = k /\ k # Null
  BY <1>3, <1>6, <1>7, OnlyOneSteps, NoneAssumption
<1>9. /\ PagesApart(heap, page_sc) /\ Objects(heap, aa, mem, live, job)
      /\ AddressesApart(aa, live, job) /\ Counted(heap, job)
      /\ LocksHeld(class_lock, page_lock, job)
  BY DEF Inv
<1>10. /\ p \in Page /\ page_sc[p] = c /\ index_of(src) \in heap[c].used[p] /\ src # b /\ o # a
  <2>1. p \in Page /\ index_of(src) \in heap[c].used[p]
    BY <1>6, BlockPair DEF used_blocks
  <2> QED
    BY <1>5, <1>6, <1>9, <2>1 DEF PagesApart
<1>11. ChangedAt(heap, heap', c, src, u, e)
  <2> HIDE DEF u, e
  <2>1. Updated(heap[c], heap'[c], page_of(src), u, e)
    BY <1>6
  <2>2. heap' = [heap EXCEPT ![c] = heap'[c]]
    BY <1>6
  <2> QED
    BY ONLY src \in Block, <1>3, <1>5, <1>9, <2>1, <2>2, ClassChange
<1>12. /\ heap' \in [Class -> SizeClassType]
       /\ \A d \in Class : WellFormed(heap'[d])
       /\ \A d \in Class \ {c} : heap'[d] = heap[d]
       /\ \A d \in Class, r \in Page :
            d # c \/ r # p => /\ heap'[d].used[r] = heap[d].used[r]
                              /\ heap'[d].sourceentries[r] = heap[d].sourceentries[r]
       /\ heap'[c].sourceentries[p] = heap[c].sourceentries[p] + 1
       /\ used_blocks(heap'[c]) = used_blocks(heap[c]) \ {src}
       /\ all_used(heap') = all_used(heap) \ {src}
  BY <1>10, <1>11 DEF ChangedAt
<1>13. PagesApart(heap', page_sc')
  <2>1. ASSUME NEW d \in Class, NEW r \in Page, heap'[d].used[r] # {} \/ heap'[d].sourceentries[r] # 0
        PROVE  page_sc'[r] = d
    <3>1. CASE d = c /\ r = p
      BY <1>2, <1>10, <3>1
    <3>2. CASE d # c \/ r # p
      BY <1>2, <1>9, <1>12, <2>1, <3>2 DEF PagesApart
    <3> QED
      BY <3>1, <3>2
  <2> QED
    BY <1>12, <2>1 DEF PagesApart
<1>14. /\ t \notin In(job, Moving) /\ t \in In(job', Moving) /\ t \in In(job', {"copy"})
       /\ t \in In(job, Freeing) /\ t \notin In(job', Freeing)
       /\ \A v \in Thread : v # t => /\ job'[v] = job[v]
                                     /\ v \in In(job', Moving) <=> v \in In(job, Moving)
                                     /\ v \in In(job', {"copy"}) <=> v \in In(job, {"copy"})
                                     /\ v \in In(job', Freeing) <=> v \in In(job, Freeing)
  BY <1>2, <1>7, <1>8 DEF In, Moving, Freeing, OthersKeep
<1>15. Counted(heap', job')
  <2>1. ASSUME NEW d \in Class, NEW r \in Page
        PROVE  heap'[d].sourceentries[r] = Cardinality(MovedFrom(job', d, r))
    <3>1. IsFiniteSet(MovedFrom(job, d, r))
      <4>1. MovedFrom(job, d, r) \subseteq Thread
        BY DEF MovedFrom, In
      <4> QED
        BY <4>1, ThreadAssumption, FS_Subset
    <3>2. \A v : v \in MovedFrom(job, d, r) <=>
                 v \in In(job, Moving) /\ job[v].sc = d /\ page_of(job[v].src) = r
      BY DEF MovedFrom
    <3>3. \A v : v \in MovedFrom(job', d, r) <=>
                 v \in In(job', Moving) /\ job'[v].sc = d /\ page_of(job'[v].src) = r
      BY DEF MovedFrom
    <3>4. \A v : (v \in In(job', Moving) => v \in Thread) /\ (v \in In(job, Moving) => v \in Thread)
      BY DEF In
    <3>5. heap[d].sourceentries[r] = Cardinality(MovedFrom(job, d, r))
      BY <1>9 DEF Counted
    <3>6. CASE d = c /\ r = p
      <4>1. MovedFrom(job', d, r) = MovedFrom(job, d, r) \cup {t}
        BY <1>7, <1>8, <1>14, <3>2, <3>3, <3>4, <3>6
      <4>2. t \notin MovedFrom(job, d, r)
        BY <1>14, <3>2
      <4>3. Cardinality(MovedFrom(job', d, r)) = Cardinality(MovedFrom(job, d, r)) + 1
        BY <3>1, <4>1, <4>2, FS_AddElement
      <4> QED
        BY <1>12, <3>5, <3>6, <4>3
    <3>7. CASE ~(d = c /\ r = p)
      <4>1. job'[t].sc = c /\ page_of(job'[t].src) = p
        BY <1>7, <1>8
      <4>2. \A v : v \in MovedFrom(job', d, r) <=> v \in MovedFrom(job, d, r)
        BY <1>14, <3>2, <3>3, <3>4, <3>7, <4>1
      <4>3. MovedFrom(job', d, r) = MovedFrom(job, d, r)
        BY <4>2
      <4> QED
        BY <1>12, <3>5, <3>7, <4>3
    <3> QED
      BY <3>6, <3>7
  <2> QED
    BY <2>1 DEF Counted
<1>16. /\ Owned(live', job') = Owned(live, job) \ {a}
       /\ \A x \in Owned(live, job) : x \in AA /\ aa[x] \in Block
       /\ \A x \in Owned(live, job) : x # a => aa[x] # b
       /\ \A x \in Owned(live, job) : x # o => aa[x] # src
       /\ \A x \in AA : x # o => aa'[x] = aa[x]
       /\ aa'[o] = b
  <2>1. \A x : x \in Owned(live', job') <=> x \in Owned(live, job) /\ x # a
    <3>1. a \notin live
      BY <1>2, <1>5, <1>9, NullAssumption DEF AddressesApart
    <3>2. \A v \in Thread \ {t} : job[v] # Null /\ job[v].at \in Freeing => job[v].address # a
      BY <1>2, <1>5, <1>9, NullAssumption DEF AddressesApart
    <3>3. \A v \in In(job, Freeing) : v \in Thread /\ job[v] # Null /\ job[v].at \in Freeing
      BY DEF In
    <3>4. \A x : x \in Owned(live', job') <=> x \in live \/ \E v \in In(job', Freeing) : x = job'[v].address
      BY <1>2 DEF Owned
    <3>5. \A x : x \in Owned(live, job) <=> x \in live \/ \E v \in In(job, Freeing) : x = job[v].address
      BY DEF Owned
    <3>6. \A v \in In(job', Freeing) : v \in Thread
      BY DEF In
    <3>7. job[t].address = a
      OBVIOUS
    <3> HIDE DEF a
    <3> QED
      BY <1>4, <1>14, <3>1, <3>2, <3>3, <3>4, <3>5, <3>6, <3>7
  <2>2. ASSUME NEW x \in Owned(live, job)
        PROVE  x \in AA /\ aa[x] \in Block /\ (x # a => aa[x] # b) /\ (x # o => aa[x] # src)
    <3>1. x \in AA
      BY <1>3, JobNow DEF Owned, In, Placed, Job, Freeing, Moving, Inv, Typed
    <3>2. aa[x] \in Block
      BY <1>9, OwnedBlock
    <3> QED
      BY <1>4, <1>5, <1>6, <1>9, <3>1, <3>2 DEF Objects
  <2>3. (\A x \in AA : x # o => aa'[x] = aa[x]) /\ aa'[o] = b
    BY <1>3, <1>6
  <2> QED
    BY <2>1, <2>2, <2>3
<1>17. AddressesApart(aa', live', job')
  <2>1. AddressesApart(aa, live, job')
    <3>1. job'[t].address = job[t].address
      BY <1>7, <1>8
    <3> QED
      BY ONLY t \in Thread, <1>2, <1>8, <1>9, <3>1, AddressesSame
  <2>2. \A x \in AA : aa[x] # Null => aa'[x] # Null
    BY <1>5, <1>16, NullAssumption
  <2>3. \A x \in live : x \in AA
    BY <1>3
  <2>4. \A v \in Thread : job'[v] # Null /\ job'[v].address # Null => job'[v].address \in AA
    BY <1>8 DEF OthersKeep, Job
  <2> QED
    BY <1>2, <2>1, <2>2, <2>3, <2>4 DEF AddressesApart
<1>18. Objects(heap', aa', mem', live', job')
  <2>1. {aa'[x] : x \in Owned(live', job')} = all_used(heap')
    <3>1. \A y : y \in all_used(heap) <=> \E x \in Owned(live, job) : y = aa[x]
      BY <1>9 DEF Objects
    <3> HIDE DEF a, b
    <3>2. ASSUME NEW y, y \in all_used(heap') PROVE \E x \in Owned(live', job') : y = aa'[x]
      <4>1. PICK x \in Owned(live, job) : y = aa[x]
        BY <1>12, <3>1, <3>2
      <4>2. x # o
        BY <1>6, <1>12, <3>2, <4>1
      <4>3. CASE x = a
        BY <1>5, <1>6, <1>10, <1>16, <4>1, <4>3
      <4>4. CASE x # a
        BY <1>16, <4>1, <4>2, <4>4
      <4> QED
        BY <4>3, <4>4
    <3>3. ASSUME NEW x \in Owned(live', job') PROVE aa'[x] \in all_used(heap')
      <4>1. CASE x = o
        BY <1>4, <1>5, <1>10, <1>12, <1>16, <3>1, <4>1
      <4>2. CASE x # o
        BY <1>12, <1>16, <3>1, <3>3, <4>2
      <4> QED
        BY <4>1, <4>2
    <3> QED
      BY <3>2, <3>3
  <2>2. \A x, y \in Owned(live', job') : aa'[x] = aa'[y] => x = y
    <3> HIDE DEF a, b
    <3> QED
      BY <1>9, <1>16 DEF Objects
  <2>3. ASSUME NEW x \in Owned(live', job')
        PROVE  mem'[aa'[x]] = x
               \/ \E v \in In(job', {"copy"}) : job'[v].src_aa = x /\ job'[v].blk = aa'[x]
    <3>1. CASE x = o
      BY <1>7, <1>8, <1>14, <1>16, <3>1
    <3>2. CASE x # o
      <4>1. x \in Owned(live, job) /\ aa'[x] = aa[x]
        BY <1>16, <3>2
      <4>2. ASSUME NEW v \in In(job, {"copy"}), job[v].src_aa = x, job[v].blk = aa[x]
            PROVE  v \in In(job', {"copy"}) /\ job'[v].src_aa = x /\ job'[v].blk = aa'[x]
        <5>1. v \in Thread /\ v # t
          BY <1>2, <4>2 DEF In
        <5> QED
          BY <1>14, <4>1, <4>2, <5>1
      <4> QED
        BY <1>2, <1>9, <4>1, <4>2 DEF Objects
    <3> QED
      BY <3>1, <3>2
  <2> QED
    BY <2>1, <2>2, <2>3 DEF Objects
<1>19. Looked(heap', page_sc', aa', job')
  <2>1. \A x \in Owned(live, job) : page_sc[page_of(aa[x])] # c => aa'[x] = aa[x]
    BY <1>6, <1>10, <1>16
  <2>2. class_lock[c] = t
    BY <1>5
  <2>3. \A v \in Thread \ {t} : job'[v] # Null => LookedAt(heap', page_sc', aa', job'[v])
    <3>1. OthersKeep(job, job', t) /\ class_lock[c] \in {t, Null} /\ c \in Class /\ t \in Thread
      BY <1>2, <1>5, <1>8, <1>12, <2>1, <2>2
    <3>2. \A d \in Class \ {c} : heap'[d] = heap[d]
      BY <1>2, <1>5, <1>8, <1>12, <2>1, <2>2
    <3>3. \A y \in Page : \/ page_sc'[y] = page_sc[y]
                          \/ page_sc'[y] = c /\ \A d \in Class \ {c} : heap[d].used[y] = {}
      BY <1>2, <1>5, <1>8, <1>12, <2>1, <2>2
    <3>4. \A x \in Owned(live, job) : page_sc[page_of(aa[x])] # c => aa'[x] = aa[x]
      BY <1>2, <1>5, <1>8, <1>12, <2>1, <2>2
    <3>5. StepsIn(t, c)
      BY ONLY <3>1, <3>2, <3>3, <3>4 DEF StepsIn
    <3> QED
      BY <3>1, <3>5, OthersLook
  <2>4. LookedAt(heap', page_sc', aa', k)
    BY <1>7 DEF LookedAt
  <2> QED
    BY <1>8, <2>3, <2>4 DEF Looked
<1>20. Copied(heap', aa', mem', live', job')
  <2>1. Copied(heap, aa, mem, live, job)
    BY DEF Inv
  <2>2. ASSUME NEW v \in In(job, Moving)
        PROVE  /\ job[v].sc \in Class /\ job[v].src \notin used_blocks(heap'[job[v].sc])
               /\ job[v].src # src
    <3>1. /\ job[v].sc \in Class /\ job[v].src \notin used_blocks(heap[job[v].sc])
          /\ page_sc[page_of(job[v].src)] = job[v].sc
      BY MovingPage
    <3>2. job[v].src # src
      BY <1>6, <1>10, <3>1
    <3> QED
      BY <1>12, <3>1, <3>2
  <2>3. ASSUME NEW v \in In(job, {"copy"}), v # t
        PROVE  CopyGoesOn(heap', aa', mem', Owned(live', job'), job'[v])
    <3> DEFINE j == job[v]
    <3>1. /\ v \in Thread /\ j.src \in Block /\ j.blk \in Block /\ j.sc \in Class
          /\ j.address \in AA /\ j.src_aa \in Owned(live, job)
          /\ aa[j.src_aa] = j.blk /\ aa[j.address] = j.blk
          /\ mem[j.src] = j.src_aa /\ mem[j.blk] = j.address
          /\ is_full(heap[j.sc], page_of(j.blk))
          /\ page_of(j.src) \in Page /\ page_of(j.blk) \in Page
          /\ page_lock[page_of(j.src)] = v /\ page_lock[page_of(j.blk)] = v
      BY CopyOfOther
    <3>2. j = job'[v]
      BY <1>14, <2>3, <3>1
    <3> HIDE DEF j
    <3>3. page_of(j.blk) # p /\ page_of(j.blk) # q
      BY <1>5, <1>6, <2>3, <3>1, NullAssumption
    <3>4. j.src_aa # a /\ j.src_aa # o /\ j.address # o
      BY <1>5, <1>6, <3>1, <3>3
    <3>5. aa'[j.src_aa] = j.blk /\ aa'[j.address] = j.blk /\ j.src_aa \in Owned(live', job')
      BY <1>16, <3>1, <3>4
    <3>6. is_full(heap'[j.sc], page_of(j.blk))
      BY <1>12, <3>1, <3>3 DEF is_full
    <3>7. CopyGoesOn(heap', aa', mem', Owned(live', job'), j)
      BY <1>2, <3>1, <3>5, <3>6 DEF CopyGoesOn
    <3> QED
      BY <3>2, <3>7
  <2>4. CopyGoesOn(heap', aa', mem', Owned(live', job'), k)
    <3>1. mem[b] = a
      <4>1. ASSUME NEW v \in In(job, {"copy"}), job[v].blk = b PROVE FALSE
        <5>1. page_lock[q] = v /\ v # t
          BY <1>2, <4>1, CopyOfOther DEF In
        <5> QED
          BY <1>5, <5>1
      <4> QED
        BY <1>4, <1>5, <1>9, <4>1 DEF Objects
    <3>2. o \in Owned(live', job') /\ aa'[o] = b /\ aa'[a] = b
      BY <1>5, <1>6, <1>10, <1>16
    <3>3. is_full(heap'[c], q)
      BY <1>5, <1>6, <1>12 DEF is_full
    <3> QED
      BY <1>2, <1>6, <1>7, <3>1, <3>2, <3>3 DEF CopyGoesOn
  <2>5. \A v \in In(job', {"copy"}) : CopyGoesOn(heap', aa', mem', Owned(live', job'), job'[v])
    <3>1. \A v \in In(job', {"copy"}) : v \in Thread
      BY DEF In
    <3> QED
      BY <1>8, <1>14, <2>3, <2>4, <3>1
  <2>6. ASSUME NEW v \in In(job', Moving)
        PROVE  /\ job'[v].src \notin used_blocks(heap'[job'[v].sc])
               /\ \A w \in In(job', Moving) : job'[w].src = job'[v].src => w = v
    <3>1. \A w \in In(job', Moving) : w \in Thread
      BY DEF In
    <3>2. job'[t].src = src /\ job'[t].sc = c
      BY <1>7, <1>8
    <3>3. \A w \in In(job', Moving) : w # t => w \in In(job, Moving) /\ job'[w] = job[w]
      BY <1>14, <3>1
    <3>4. src \notin used_blocks(heap'[c])
      BY <1>12
    <3>5. job'[v].src \notin used_blocks(heap'[job'[v].sc])
      BY <2>2, <3>2, <3>3, <3>4
    <3>6. ASSUME NEW w \in In(job', Moving), job'[w].src = job'[v].src PROVE w = v
      BY <2>1, <2>2, <3>2, <3>3, <3>6 DEF Copied
    <3> QED
      BY <3>5, <3>6
  <2> QED
    BY <2>5, <2>6 DEF Copied
<1>21. LocksHeld(class_lock', page_lock', job')
  <2>1. \A d \in Class : (class_lock'[d] = t <=> HasClass(job'[t], d))
                         /\ (class_lock'[d] = class_lock[d]
                             \/ {class_lock'[d], class_lock[d]} \subseteq {t, Null})
    <3>1. \A d \in Class : ~HasClass(k, d)
      BY <1>7 DEF HasClass
    <3> QED
      BY <1>2, <1>3, <1>5, <1>8, <3>1, NullAssumption
  <2>2. \A r \in Page : (page_lock'[r] = t <=> HasPage(job'[t], r))
                        /\ (page_lock'[r] = page_lock[r]
                            \/ {page_lock'[r], page_lock[r]} \subseteq {t, Null})
    <3>1. \A r \in Page : HasPage(k, r) <=> r \in {p, q}
      BY <1>7, <1>8 DEF HasPage
    <3> HIDE DEF p, q
    <3> QED
      BY <1>2, <1>5, <1>8, <3>1
  <2> QED
    BY ONLY t \in Thread, <1>8, <1>9, <2>1, <2>2, LocksChange
<1>22. Typed'
  <2>1. /\ page_sc' \in [Page -> Class \cup {Null}] /\ aa' \in [AA -> Block \cup {Null}]
        /\ mem' \in [Block -> AA \cup {Null}] /\ live' \in SUBSET AA
        /\ class_lock' \in [Class -> Thread \cup {Null}]
        /\ page_lock' \in [Page -> Thread \cup {Null}]
    BY <1>2, <1>3, <1>5, <1>6
  <2>2. Placed(k)
    BY <1>5, <1>7, NullAssumption DEF Placed, Moving
  <2> QED
    BY <1>8, <1>12, <2>1, <2>2, TypedAfter
<1> QED
  BY <1>13, <1>15, <1>17, <1>18, <1>19, <1>20, <1>21, <1>22, Zenon DEF Inv

LEMMA CopyInv ==
  ASSUME Inv, NEW t \in Thread, copy(t)
  PROVE  Inv'
<1> DEFINE j == job[t]
           k == [j EXCEPT !.at = "relock"]
<1>1. /\ t \in In(job, {"copy"}) /\ j # Null /\ j.at = "copy"
      /\ heap' = heap /\ page_sc' = page_sc /\ class_lock' = class_lock /\ live' = live
      /\ mem' = [mem EXCEPT ![j.blk] = mem[j.src]] /\ aa' = [aa EXCEPT ![j.src_aa] = j.blk]
      /\ page_lock' = [p \in Page |-> IF page_lock[p] = t THEN Null ELSE page_lock[p]]
  BY DEF copy, at, In, unlock_pages
<1>2. /\ heap \in [Class -> SizeClassType] /\ page_sc \in [Page -> Class \cup {Null}]
      /\ aa \in [AA -> Block \cup {Null}] /\ mem \in [Block -> AA \cup {Null}]
      /\ live \in SUBSET AA /\ class_lock \in [Class -> Thread \cup {Null}]
      /\ page_lock \in [Page -> Thread \cup {Null}] /\ job \in [Thread -> Job \cup {Null}]
  BY DEF Inv, Typed, TypeOK
<1>3. /\ t \in In(job, Moving) /\ j.src \in Block /\ j.blk \in Block /\ j.src_aa \in AA
      /\ j.src_aa \in Owned(live, job) /\ aa[j.src_aa] = j.blk
      /\ mem[j.src] = j.src_aa
      /\ page_of(j.blk) \in Page /\ page_lock[page_of(j.blk)] = t
  BY <1>1, CopyOfOther
<1>4. j \in Job /\ Placed(j)
  BY <1>1, JobNow
<1>5. /\ k \in Job /\ k.at = "relock" /\ k.address = j.address /\ k.sc = j.sc /\ k.blk = j.blk
      /\ k.src = j.src /\ k.src_aa = j.src_aa
  BY <1>4 DEF Job
<1>6. job' = [job EXCEPT ![t] = k]
  BY <1>1, <1>2, <1>4 DEF copy
<1> HIDE DEF k
<1>7. OthersKeep(job, job', t) /\ job'[t] = k /\ k # Null
  BY <1>2, <1>5, <1>6, OnlyOneSteps, NoneAssumption
<1>8. aa' = aa
  <2>1. \A x \in AA : aa'[x] = aa[x]
    BY <1>1, <1>2, <1>3
  <2> QED
    BY <1>1, <1>2, <2>1
<1>9. /\ t \notin In(job, Freeing) /\ t \notin In(job', Freeing) /\ t \notin In(job', {"copy"})
      /\ In(job', Moving) = In(job, Moving)
      /\ \A v \in In(job', {"copy"}) : v # t /\ v \in In(job, {"copy"}) /\ job'[v] = job[v]
      /\ \A v \in In(job, {"copy"}) : v # t => v \in In(job', {"copy"}) /\ job'[v] = job[v]
      /\ \A v \in In(job, Moving) : /\ job'[v].src = job[v].src /\ job'[v].sc = job[v].sc
                                    /\ v \in Thread
  BY <1>1, <1>5, <1>7 DEF In, Moving, Freeing, OthersKeep
<1>10. Owned(live', job') = Owned(live, job)
  BY ONLY t \in Thread, <1>1, <1>7, <1>9, OwnedSame
<1>11. /\ PagesApart(heap, page_sc) /\ Objects(heap, aa, mem, live, job)
       /\ AddressesApart(aa, live, job) /\ Counted(heap, job)
       /\ LocksHeld(class_lock, page_lock, job) /\ Looked(heap, page_sc, aa, job)
       /\ Copied(heap, aa, mem, live, job)
  BY DEF Inv
<1>12. /\ mem' \in [Block -> AA \cup {Null}] /\ mem'[j.blk] = j.src_aa
       /\ \A x \in Block : x # j.blk => mem'[x] = mem[x]
  BY <1>1, <1>2, <1>3
<1>13. PagesApart(heap', page_sc')
  BY <1>1, <1>11
<1>14. Counted(heap', job')
  <2>1. ASSUME NEW c, NEW p PROVE MovedFrom(job', c, p) = MovedFrom(job, c, p)
    BY <1>9 DEF MovedFrom
  <2> QED
    BY <1>1, <1>11, <2>1 DEF Counted
<1>15. AddressesApart(aa', live', job')
  <2>1. job'[t].address = job[t].address
    BY <1>5, <1>7
  <2>2. AddressesApart(aa, live, job')
    BY ONLY t \in Thread, <1>1, <1>7, <1>11, <2>1, AddressesSame
  <2> QED
    BY <1>1, <1>8, <2>2
<1>16. Objects(heap', aa', mem', live', job')
  <2>1. ASSUME NEW x \in Owned(live, job)
        PROVE  mem'[aa[x]] = x
               \/ \E v \in In(job', {"copy"}) : job'[v].src_aa = x /\ job'[v].blk = aa[x]
    <3>1. CASE x = j.src_aa
      BY <1>3, <1>12, <3>1
    <3>2. CASE x # j.src_aa
      <4>1. aa[x] \in Block /\ aa[x] # j.blk
        BY <1>3, <1>11, <3>2, OwnedBlock DEF Objects
      <4>2. mem'[aa[x]] = mem[aa[x]]
        BY <1>12, <4>1
      <4>3. ASSUME NEW v \in In(job, {"copy"}), job[v].src_aa = x, job[v].blk = aa[x]
            PROVE  v \in In(job', {"copy"}) /\ job'[v].src_aa = x /\ job'[v].blk = aa[x]
        BY <1>9, <3>2, <4>3
      <4> QED
        BY <1>11, <4>2, <4>3 DEF Objects
    <3> QED
      BY <3>1, <3>2
  <2> QED
    BY <1>1, <1>8, <1>10, <1>11, <2>1 DEF Objects
<1>17. Looked(heap', page_sc', aa', job')
  <2>1. LookedAt(heap, page_sc, aa, k)
    BY <1>5 DEF LookedAt
  <2> QED
    BY <1>1, <1>7, <1>8, <1>11, <2>1 DEF Looked, OthersKeep
<1>18. Copied(heap', aa', mem', live', job')
  <2>1. ASSUME NEW v \in In(job', {"copy"})
        PROVE  CopyGoesOn(heap', aa', mem', Owned(live', job'), job'[v])
    <3>1. v # t /\ v \in In(job, {"copy"}) /\ job'[v] = job[v]
      BY <1>9
    <3>2. /\ job[v].src \in Block /\ job[v].blk \in Block
          /\ page_lock[page_of(job[v].src)] = v /\ page_lock[page_of(job[v].blk)] = v
      BY <3>1, CopyOfOther
    <3>3. job[v].src # j.blk /\ job[v].blk # j.blk
      BY <1>3, <3>1, <3>2
    <3>4. mem'[job[v].src] = mem[job[v].src] /\ mem'[job[v].blk] = mem[job[v].blk]
      BY <1>12, <3>2, <3>3
    <3>5. CopyGoesOn(heap, aa, mem, Owned(live, job), job[v])
      BY <1>11, <3>1 DEF Copied
    <3> QED
      BY <1>1, <1>8, <1>10, <3>1, <3>4, <3>5 DEF CopyGoesOn
  <2>2. ASSUME NEW v \in In(job', Moving)
        PROVE  /\ job'[v].src \notin used_blocks(heap'[job'[v].sc])
               /\ \A w \in In(job', Moving) : job'[w].src = job'[v].src => w = v
    BY <1>1, <1>9, <1>11 DEF Copied
  <2> QED
    BY <2>1, <2>2 DEF Copied
<1>19. LocksHeld(class_lock', page_lock', job')
  <2>1. \A d \in Class : (class_lock'[d] = t <=> HasClass(job'[t], d))
                         /\ (class_lock'[d] = class_lock[d]
                             \/ {class_lock'[d], class_lock[d]} \subseteq {t, Null})
    <3>1. \A d \in Class : class_lock[d] = t <=> HasClass(j, d)
      BY JobNow
    <3>2. \A d \in Class : ~HasClass(j, d) /\ ~HasClass(k, d)
      BY <1>1, <1>5 DEF HasClass
    <3> QED
      BY <1>1, <1>7, <3>1, <3>2
  <2>2. \A r \in Page : (page_lock'[r] = t <=> HasPage(job'[t], r))
                        /\ (page_lock'[r] = page_lock[r]
                            \/ {page_lock'[r], page_lock[r]} \subseteq {t, Null})
    <3>1. \A r \in Page : ~HasPage(k, r)
      BY <1>5 DEF HasPage
    <3> QED
      BY <1>1, <1>7, <3>1, NullAssumption
  <2> QED
    BY ONLY t \in Thread, <1>7, <1>11, <2>1, <2>2, LocksChange
<1>20. Typed'
  <2>1. page_lock' \in [Page -> Thread \cup {Null}]
    BY <1>1, <1>2
  <2>2. Placed(k)
    BY <1>1, <1>4, <1>5 DEF Placed, Moving
  <2>3. /\ heap' \in [Class -> SizeClassType] /\ page_sc' \in [Page -> Class \cup {Null}]
        /\ aa' \in [AA -> Block \cup {Null}] /\ mem' \in [Block -> AA \cup {Null}]
        /\ class_lock' \in [Class -> Thread \cup {Null}] /\ live' \in SUBSET AA
    BY ONLY <1>1, <1>2, <1>8, <1>12
  <2>4. OthersKeep(job, job', t) /\ Placed(job'[t])
    BY ONLY <1>7, <2>2
  <2> QED
    BY ONLY Inv, t \in Thread, <2>1, <2>3, <2>4, TypedAfter
<1> QED
  BY <1>13, <1>14, <1>15, <1>16, <1>17, <1>18, <1>19, <1>20, Zenon DEF Inv

LEMMA RelockInv ==
  ASSUME Inv, NEW t \in Thread, relock(t)
  PROVE  Inv'
<1> DEFINE c == job[t].sc
           a == job[t].address
           src == job[t].src
           p == page_of(src)
           g == release_source_page(heap[c], p)
           u == heap[c].used[p]
           e == heap[c].sourceentries[p] - 1
<1>1. /\ t \in In(job, Moving) /\ job[t] # Null /\ job[t].at = "relock"
      /\ class_lock[c] = Null
      /\ heap' = [heap EXCEPT ![c] = g] /\ mem' = forget(mem, src, c, g)
      /\ aa' = [aa EXCEPT ![a] = Null] /\ job' = [job EXCEPT ![t] = Null]
      /\ page_sc' = page_sc /\ class_lock' = class_lock /\ page_lock' = page_lock
      /\ live' = live
  BY DEF relock, at, In, Moving
<1>2. /\ heap \in [Class -> SizeClassType] /\ page_sc \in [Page -> Class \cup {Null}]
      /\ aa \in [AA -> Block \cup {Null}] /\ mem \in [Block -> AA \cup {Null}]
      /\ live \in SUBSET AA /\ class_lock \in [Class -> Thread \cup {Null}]
      /\ page_lock \in [Page -> Thread \cup {Null}] /\ job \in [Thread -> Job \cup {Null}]
  BY DEF Inv, Typed, TypeOK
<1>3. /\ c \in Class /\ a \in AA /\ src \in Block /\ heap[c].sourceentries[p] > 0
      /\ page_sc[p] = c /\ src \notin used_blocks(heap[c])
      /\ p \in Page
  BY <1>1, MovingPage, BlockPair
<1>4. /\ PagesApart(heap, page_sc) /\ Objects(heap, aa, mem, live, job)
      /\ AddressesApart(aa, live, job) /\ Counted(heap, job)
      /\ LocksHeld(class_lock, page_lock, job) /\ Copied(heap, aa, mem, live, job)
  BY DEF Inv
<1>5. WellFormed(heap[c])
  BY <1>3, <1>4 DEF PagesApart
<1> HIDE DEF c, src, a
<1>6. Updated(heap[c], g, p, u, e)
  <2> HIDE DEF p
  <2> QED
    BY <1>3, <1>5, ReleasePage
<1> HIDE DEF g
<1>7. ChangedAt(heap, heap', c, src, u, e)
  <2> HIDE DEF u, e
  <2>1. Updated(heap[c], g, page_of(src), u, e)
    BY <1>6
  <2> QED
    BY ONLY <1>1, <1>2, <1>3, <1>4, <2>1, ClassChange
<1>8. /\ mem' \in [Block -> AA \cup {Null}]
      /\ \A x \in Block : x # src /\ (page_of(x) # p \/ u # {} \/ e # 0) => mem'[x] = mem[x]
  <2> HIDE DEF u, e
  <2>1. Updated(heap[c], g, page_of(src), u, e)
    BY <1>6
  <2> QED
    BY <1>1, <1>2, <1>3, <1>5, <2>1, Remembered
<1>9. /\ heap' \in [Class -> SizeClassType]
      /\ \A d \in Class : WellFormed(heap'[d])
      /\ \A d \in Class \ {c} : heap'[d] = heap[d]
      /\ \A d \in Class, r \in Page :
           /\ heap'[d].used[r] = heap[d].used[r]
           /\ d # c \/ r # p => heap'[d].sourceentries[r] = heap[d].sourceentries[r]
      /\ heap'[c].sourceentries[p] = heap[c].sourceentries[p] - 1
      /\ used_blocks(heap'[c]) = used_blocks(heap[c])
      /\ all_used(heap') = all_used(heap)
  BY <1>7 DEF ChangedAt
<1>10. OthersKeep(job, job', t) /\ job'[t] = Null
  BY <1>1, <1>2, OnlyOneSteps
<1>11. /\ t \notin In(job, Freeing) /\ t \notin In(job', Freeing)
       /\ \A v : v \in In(job', Moving) <=> v \in In(job, Moving) /\ v # t
       /\ \A v : v \in In(job', {"copy"}) <=> v \in In(job, {"copy"})
       /\ \A v \in Thread : v # t => job'[v] = job[v]
       /\ \A v \in In(job, {"copy"}) : v # t /\ v \in In(job, Moving)
       /\ \A v \in In(job, Moving) : v \in Thread
  BY <1>1, <1>10 DEF In, Freeing, Moving, OthersKeep
<1>12. Owned(live', job') = Owned(live, job)
  <2>1. job'[t] = Null
    BY <1>10
  <2> QED
    BY ONLY t \in Thread, <1>1, <1>10, <1>11, OwnedSame
<1>13. \A x \in Owned(live, job) : /\ x # a /\ x \in AA /\ aa'[x] = aa[x] /\ aa[x] \in Block
                                   /\ aa[x] # src
  <2> SUFFICES ASSUME NEW x \in Owned(live, job)
               PROVE  x # a /\ x \in AA /\ aa'[x] = aa[x] /\ aa[x] \in Block /\ aa[x] # src
    OBVIOUS
  <2>1. x # a
    <3>1. a \notin live
      BY <1>1, <1>3, <1>4, NullAssumption DEF AddressesApart, a
    <3>2. ASSUME NEW v \in In(job, Freeing), job[v].address = a PROVE FALSE
      <4>1. v \in Thread /\ v # t /\ job[v] # Null
        BY <1>11, <3>2 DEF In
      <4> QED
        BY <1>1, <1>3, <1>4, <3>2, <4>1, NullAssumption DEF AddressesApart, a
    <3> QED
      BY <3>1, <3>2 DEF Owned
  <2>2. x \in AA
    BY <1>2, JobNow DEF Owned, In, Placed, Job, Freeing, Moving, Inv, Typed
  <2>3. aa[x] \in Block /\ aa[x] \in used_blocks(heap[page_sc[page_of(aa[x])]])
    BY <1>4, OwnedBlock
  <2>4. aa[x] # src
    BY <1>3, <2>3
  <2> QED
    BY <1>1, <1>2, <1>3, <2>1, <2>2, <2>3, <2>4
<1>14. PagesApart(heap', page_sc')
  <2>1. ASSUME NEW d \in Class, NEW r \in Page, heap'[d].used[r] # {} \/ heap'[d].sourceentries[r] # 0
        PROVE  page_sc'[r] = d
    <3>1. CASE d = c /\ r = p
      BY <1>1, <1>3, <3>1
    <3>2. CASE d # c \/ r # p
      BY <1>1, <1>4, <1>9, <2>1, <3>2 DEF PagesApart
    <3> QED
      BY <3>1, <3>2
  <2> QED
    BY <1>9, <2>1 DEF PagesApart
<1>15. Counted(heap', job')
  <2>1. ASSUME NEW d \in Class, NEW r \in Page
        PROVE  heap'[d].sourceentries[r] = Cardinality(MovedFrom(job', d, r))
    <3>1. IsFiniteSet(MovedFrom(job, d, r))
      <4>1. MovedFrom(job, d, r) \subseteq Thread
        BY DEF MovedFrom, In
      <4> QED
        BY <4>1, ThreadAssumption, FS_Subset
    <3>2. \A v : v \in MovedFrom(job, d, r) <=>
                 v \in In(job, Moving) /\ job[v].sc = d /\ page_of(job[v].src) = r
      BY DEF MovedFrom
    <3>3. \A v : v \in MovedFrom(job', d, r) <=>
                 v \in In(job', Moving) /\ job'[v].sc = d /\ page_of(job'[v].src) = r
      BY DEF MovedFrom
    <3>4. \A v : v \in MovedFrom(job', d, r) <=> v \in MovedFrom(job, d, r) /\ v # t
      BY <1>11, <3>2, <3>3
    <3>5. heap[d].sourceentries[r] = Cardinality(MovedFrom(job, d, r))
      BY <1>4 DEF Counted
    <3>6. t \in MovedFrom(job, d, r) <=> d = c /\ r = p
      BY <1>1, <3>2 DEF c, src
    <3>7. CASE d = c /\ r = p
      <4>1. MovedFrom(job', d, r) = MovedFrom(job, d, r) \ {t}
        BY <3>4
      <4>2. Cardinality(MovedFrom(job', d, r)) = Cardinality(MovedFrom(job, d, r)) - 1
        <5>1. Cardinality(MovedFrom(job, d, r) \ {t})
                = IF t \in MovedFrom(job, d, r) THEN Cardinality(MovedFrom(job, d, r)) - 1
                                                ELSE Cardinality(MovedFrom(job, d, r))
          BY ONLY <3>1, FS_RemoveElement, Zenon
        <5> QED
          BY ONLY <3>6, <3>7, <4>1, <5>1
      <4> QED
        BY ONLY <1>9, <3>5, <3>7, <4>2
    <3>8. CASE ~(d = c /\ r = p)
      <4>1. MovedFrom(job', d, r) = MovedFrom(job, d, r)
        BY <3>4, <3>6, <3>8
      <4> QED
        BY <1>9, <3>5, <3>8, <4>1
    <3> QED
      BY <3>7, <3>8
  <2> QED
    BY <2>1 DEF Counted
<1>16. AddressesApart(aa', live', job')
  <2>1. \A v \in Thread : job'[v] # Null => v # t /\ job[v] # Null /\ job'[v] = job[v]
    BY <1>10, <1>11
  <2>2. \A x \in AA : x # a => aa'[x] = aa[x]
    BY <1>1, <1>2
  <2>3. \A x \in live : x # a
    BY <1>13 DEF Owned
  <2>4. \A v \in Thread : v # t /\ job[v] # Null /\ job[v].address # Null =>
          job[v].address # a /\ job[v].address \in AA
    BY <1>1, <1>3, <1>4, JobNow, NullAssumption DEF AddressesApart, Job, a
  <2> QED
    BY <1>1, <1>2, <1>4, <2>1, <2>2, <2>3, <2>4 DEF AddressesApart
<1>17. Objects(heap', aa', mem', live', job')
  <2>1. ASSUME NEW x \in Owned(live, job) PROVE mem'[aa[x]] = mem[aa[x]]
    <3>1. page_of(aa[x]) = p => u # {}
      <4> SUFFICES ASSUME page_of(aa[x]) = p PROVE u # {}
        OBVIOUS
      <4>1. aa[x] \in used_blocks(heap[c])
        BY <1>3, <1>4, OwnedBlock
      <4> QED
        BY <4>1 DEF used_blocks
    <3> HIDE DEF u, e, p
    <3> QED
      BY <1>8, <1>13, <3>1
  <2>2. ASSUME NEW x \in Owned(live, job)
        PROVE  mem'[aa'[x]] = x
               \/ \E v \in In(job', {"copy"}) : job'[v].src_aa = x /\ job'[v].blk = aa'[x]
    BY <1>4, <1>11, <1>13, <2>1, <2>2 DEF Objects
  <2>3. {aa'[x] : x \in Owned(live, job)} = {aa[x] : x \in Owned(live, job)}
    BY <1>13
  <2> QED
    BY <1>4, <1>9, <1>12, <1>13, <2>2, <2>3 DEF Objects
<1>18. Looked(heap', page_sc', aa', job')
  <2>1. \A v \in Thread \ {t} : job'[v] # Null => LookedAt(heap', page_sc', aa', job'[v])
    <3>1. OthersKeep(job, job', t) /\ class_lock[c] \in {t, Null} /\ c \in Class /\ t \in Thread
      BY <1>1, <1>3, <1>9, <1>10, <1>13
    <3>2. \A d \in Class \ {c} : heap'[d] = heap[d]
      BY <1>1, <1>3, <1>9, <1>10, <1>13
    <3>3. \A q \in Page : \/ page_sc'[q] = page_sc[q]
                          \/ page_sc'[q] = c /\ \A d \in Class \ {c} : heap[d].used[q] = {}
      BY <1>1, <1>3, <1>9, <1>10, <1>13
    <3>4. \A x \in Owned(live, job) : page_sc[page_of(aa[x])] # c => aa'[x] = aa[x]
      BY <1>1, <1>3, <1>9, <1>10, <1>13
    <3>5. StepsIn(t, c)
      BY ONLY <3>1, <3>2, <3>3, <3>4 DEF StepsIn
    <3> QED
      BY <3>1, <3>5, OthersLook
  <2> QED
    BY <1>10, <2>1 DEF Looked
<1>19. Copied(heap', aa', mem', live', job')
  <2>1. ASSUME NEW v \in In(job', {"copy"})
        PROVE  CopyGoesOn(heap', aa', mem', Owned(live', job'), job'[v])
    <3> DEFINE k == job[v]
    <3>1. v # t /\ v \in In(job, {"copy"}) /\ v \in In(job, Moving) /\ v \in Thread
          /\ job'[v] = k
      BY <1>11
    <3>2. /\ k.src \in Block /\ k.blk \in Block /\ k.sc \in Class
          /\ k.address \in AA /\ k.src_aa \in Owned(live, job)
          /\ aa[k.src_aa] = k.blk /\ aa[k.address] = k.blk
          /\ mem[k.src] = k.src_aa /\ mem[k.blk] = k.address
          /\ is_full(heap[k.sc], page_of(k.blk))
          /\ page_of(k.src) \in Page /\ page_of(k.blk) \in Page
      BY <3>1, CopyOfOther
    <3>3. /\ heap'[k.sc].sourceentries[page_of(k.src)] # 0
          /\ page_sc[page_of(k.src)] = k.sc
      <4>1. IsFiniteSet(MovedFrom(job', k.sc, page_of(k.src)))
        <5>1. MovedFrom(job', k.sc, page_of(k.src)) \subseteq Thread
          BY DEF MovedFrom, In
        <5> QED
          BY <5>1, ThreadAssumption, FS_Subset
      <4>2. v \in MovedFrom(job', k.sc, page_of(k.src))
        BY <1>11, <3>1 DEF MovedFrom
      <4>3. Cardinality(MovedFrom(job', k.sc, page_of(k.src))) # 0
        BY <4>1, <4>2, FS_EmptySet
      <4> QED
        BY <1>15, <3>1, <3>2, <4>3, MovingPage DEF Counted
    <3>4. k.src # src /\ k.address # a
      BY <1>1, <1>3, <1>4, <3>1, <3>2, MovingPage, NullAssumption DEF Copied, AddressesApart, a, src
    <3> HIDE DEF k
    <3>5. mem'[k.src] = k.src_aa
      <4>1. page_of(k.src) = p => e # 0
        BY <1>3, <1>9, <3>3
      <4> QED
        BY <1>8, <3>2, <3>4, <4>1
    <3>6. mem'[k.blk] = k.address
      <4>1. k.blk # src
        BY <1>13, <3>2
      <4>2. page_of(k.blk) = p => u # {}
        <5> SUFFICES ASSUME page_of(k.blk) = p PROVE u # {}
          OBVIOUS
        <5>1. k.blk \in used_blocks(heap[c])
          BY <1>3, <1>4, <3>2, OwnedBlock
        <5> QED
          BY <5>1 DEF used_blocks
      <4> QED
        BY <1>8, <3>2, <4>1, <4>2
    <3>7. aa'[k.src_aa] = k.blk /\ aa'[k.address] = k.blk
      BY <1>1, <1>2, <1>13, <3>2, <3>4
    <3>8. is_full(heap'[k.sc], page_of(k.blk))
      BY <1>9, <3>2 DEF is_full
    <3>9. CopyGoesOn(heap', aa', mem', Owned(live', job'), k)
      BY <1>12, <3>2, <3>5, <3>6, <3>7, <3>8 DEF CopyGoesOn
    <3> QED
      BY <3>1, <3>9
  <2>2. ASSUME NEW v \in In(job', Moving)
        PROVE  /\ job'[v].src \notin used_blocks(heap'[job'[v].sc])
               /\ \A w \in In(job', Moving) : job'[w].src = job'[v].src => w = v
    <3>1. \A w \in In(job', Moving) : w \in In(job, Moving) /\ job'[w] = job[w]
      BY <1>11
    <3>2. job[v].sc \in Class /\ job[v].src \notin used_blocks(heap[job[v].sc])
      BY <3>1, MovingPage
    <3>3. job'[v].src \notin used_blocks(heap'[job'[v].sc])
      BY <1>9, <3>1, <3>2
    <3> QED
      BY <1>4, <3>1, <3>3 DEF Copied
  <2> QED
    BY <2>1, <2>2 DEF Copied
<1>20. LocksHeld(class_lock', page_lock', job')
  <2>1. \A d \in Class : /\ class_lock'[d] = t <=> HasClass(job'[t], d)
                         /\ class_lock'[d] = class_lock[d]
    <3>1. \A d \in Class : class_lock[d] = t <=> HasClass(job[t], d)
      BY JobNow
    <3>2. \A d \in Class : ~HasClass(job[t], d) /\ ~HasClass(Null, d)
      BY <1>1 DEF HasClass
    <3> QED
      BY <1>1, <1>10, <3>1, <3>2
  <2>2. \A r \in Page : /\ page_lock'[r] = t <=> HasPage(job'[t], r)
                        /\ page_lock'[r] = page_lock[r]
    <3>1. \A r \in Page : page_lock[r] = t <=> HasPage(job[t], r)
      BY JobNow
    <3>2. \A r \in Page : ~HasPage(job[t], r) /\ ~HasPage(Null, r)
      BY <1>1 DEF HasPage
    <3> QED
      BY <1>1, <1>10, <3>1, <3>2
  <2> QED
    BY ONLY t \in Thread, <1>4, <1>10, <2>1, <2>2, LocksChange
<1>21. Typed'
  <2>1. aa' \in [AA -> Block \cup {Null}]
    BY <1>1, <1>2
  <2> QED
    BY <1>1, <1>2, <1>8, <1>9, <1>10, <2>1, TypedAfter
<1> QED
  BY <1>14, <1>15, <1>16, <1>17, <1>18, <1>19, <1>20, <1>21, Zenon DEF Inv

-----------------------------------------------------------------------------
(* The invariant, and what the runs check of it.                           *)
LEMMA InitInv == Init => Inv
<1> SUFFICES ASSUME Init PROVE Inv
  OBVIOUS
<1>1. /\ \A c \in Class : heap[c] = init_size_class
      /\ heap \in [Class -> SizeClassType]
  BY Zenon, InitWellFormed DEF Init, WellFormed
<1>2. /\ page_sc = [p \in Page |-> Null] /\ aa = [a \in AA |-> Null]
      /\ mem = [b \in Block |-> Null] /\ class_lock = [c \in Class |-> Null]
      /\ page_lock = [p \in Page |-> Null] /\ live = {} /\ job = [t \in Thread |-> Null]
  BY Zenon DEF Init
<1>3. \A t \in Thread : job[t] = Null
  BY <1>2
<1>4. \A P : In(job, P) = {}
  BY <1>3 DEF In
<1>5. Typed
  BY <1>1, <1>2, <1>3 DEF Typed, TypeOK, at
<1>6. LocksHeld(class_lock, page_lock, job)
  BY <1>2, <1>3, NullAssumption DEF LocksHeld, HasClass, HasPage
<1>7. /\ \A c \in Class : WellFormed(heap[c])
      /\ \A c \in Class, p \in Page : heap[c].used[p] = {} /\ heap[c].sourceentries[p] = 0
  BY <1>1, InitWellFormed
<1>8. PagesApart(heap, page_sc)
  BY <1>7 DEF PagesApart
<1>9. Counted(heap, job)
  <2>1. \A c, p : MovedFrom(job, c, p) = {}
    BY <1>4 DEF MovedFrom
  <2> QED
    BY <1>7, <2>1, FS_EmptySet DEF Counted
<1>10. AddressesApart(aa, live, job)
  BY <1>2, <1>3 DEF AddressesApart
<1>11. Owned(live, job) = {} /\ all_used(heap) = {}
  <2>1. \A c \in Class : used_blocks(heap[c]) = {}
    BY <1>7, BlockPair DEF used_blocks
  <2> QED
    BY <1>2, <1>4, <2>1 DEF Owned, all_used
<1>12. Objects(heap, aa, mem, live, job)
  BY <1>11 DEF Objects
<1>13. Looked(heap, page_sc, aa, job)
  BY <1>3 DEF Looked
<1>14. Copied(heap, aa, mem, live, job)
  BY <1>4 DEF Copied
<1> QED
  BY <1>5, <1>6, <1>8, <1>9, <1>10, <1>12, <1>13, <1>14 DEF Inv

LEMMA NextInv ==
  ASSUME Inv, [Next]_vars
  PROVE  Inv'
<1>1. ASSUME NEW t \in Thread, NEW c \in Class, malloc_lock(t, c) PROVE Inv'
  BY <1>1, MallocLockInv
<1>2. ASSUME NEW t \in Thread, NEW a \in AA, cf_free(t, a) PROVE Inv'
  BY <1>2, CfFreeInv
<1>3. ASSUME NEW t \in Thread, retry(t) PROVE Inv'
  BY <1>3, RetryInv
<1>4. ASSUME NEW t \in Thread, get_size_class_of_page(t) PROVE Inv'
  BY <1>4, GetClassInv
<1>5. ASSUME NEW t \in Thread, dereference(t) PROVE Inv'
  BY <1>5, DereferenceInv
<1>6. ASSUME NEW t \in Thread, backtrack(t) PROVE Inv'
  BY <1>6, BacktrackInv
<1>7. ASSUME NEW t \in Thread, free_in_place(t) PROVE Inv'
  BY <1>7, FreeInPlaceInv
<1>8. ASSUME NEW t \in Thread, lock_target_page(t) PROVE Inv'
  BY <1>8, LockTargetInv
<1>9. ASSUME NEW t \in Thread, lock_source_page(t) PROVE Inv'
  BY <1>9, LockSourceInv
<1>10. ASSUME NEW t \in Thread, redirect(t) PROVE Inv'
  BY <1>10, RedirectInv
<1>11. ASSUME NEW t \in Thread, copy(t) PROVE Inv'
  BY <1>11, CopyInv
<1>12. ASSUME NEW t \in Thread, relock(t) PROVE Inv'
  BY <1>12, RelockInv
<1>13. ASSUME NEW t \in Thread, cf_malloc(t) PROVE Inv'
  <2>1. CASE no_more_pages(t)
    BY <1>13, <2>1, NoPagesInv
  <2>2. CASE malloc_block(t)
    BY <1>13, <2>2, MallocBlockInv
  <2> QED
    BY <1>13, <2>1, <2>2 DEF cf_malloc
<1>14. CASE UNCHANGED vars
  <2>1. /\ heap' = heap /\ page_sc' = page_sc /\ aa' = aa /\ mem' = mem
        /\ class_lock' = class_lock /\ page_lock' = page_lock /\ live' = live /\ job' = job
    BY <1>14 DEF vars
  <2>2. Typed'
    BY <2>1 DEF Inv, Typed, TypeOK, at
  <2> QED
    BY <2>1, <2>2, Zenon DEF Inv
<1> QED
  BY <1>1, <1>2, <1>3, <1>4, <1>5, <1>6, <1>7, <1>8, <1>9, <1>10, <1>11, <1>12, <1>13, <1>14
  DEF Next, step

(* In every state the locks, the pages, the addresses and the calls go     *)
(* together as Inv says.                                                   *)
THEOREM Invariant == Spec => []Inv
<1>1. Init => Inv
  BY InitInv
<1>2. Inv /\ [Next]_vars => Inv'
  BY NextInv
<1> QED
  BY <1>1, <1>2, PTL DEF Spec

(* Every variable keeps its type, so do the locals of cf_free and of       *)
(* do_compaction.                                                          *)
THEOREM TypeCorrect == Spec => []TypeOK
<1>1. Inv => TypeOK
  BY DEF Inv, Typed
<1> QED
  BY <1>1, Invariant, PTL

(* After the retry loop of cf_free the thread has the lock of the class    *)
(* its object is in, and the object is where it looked.                    *)
THEOREM RightLockHeld == Spec => []RightLock
<1>1. Inv => RightLock
  <2> SUFFICES ASSUME Inv, NEW t \in Thread, job[t] # Null,
                      \/ job[t].at = "check" /\ page_sc[page_of(job[t].blk)] = job[t].sc
                      \/ job[t].at \in {"source", "redirect"}
               PROVE  /\ class_lock[job[t].sc] = t
                      /\ job[t].blk = aa[job[t].address]
                      /\ page_of(job[t].blk) \notin free_pages(heap[job[t].sc])
                      /\ index_of(job[t].blk) \in heap[job[t].sc].used[page_of(job[t].blk)]
    BY DEF RightLock, at, got_right_lock
  <2> DEFINE j == job[t]
             p == page_of(j.blk)
  <2>1. /\ Placed(j) /\ LookedAt(heap, page_sc, aa, j) /\ j.address \in Owned(live, job)
        /\ \A d \in Class : class_lock[d] = t <=> HasClass(j, d)
    BY JobNow DEF Freeing
  <2>2. j.sc \in Class /\ j.blk \in Block /\ p \in Page
    BY <2>1, BlockPair DEF Placed
  <2>3. class_lock[j.sc] = t
    BY <2>1, <2>2 DEF HasClass
  <2>4. j.blk = aa[j.address] /\ page_sc[p] = j.sc
    BY <2>1 DEF LookedAt
  <2>5. PagesApart(heap, page_sc) /\ Objects(heap, aa, mem, live, job)
    BY DEF Inv
  <2>6. index_of(j.blk) \in heap[j.sc].used[p]
    BY <2>1, <2>2, <2>4, <2>5, OwnedBlock DEF used_blocks
  <2>7. p \notin free_pages(heap[j.sc])
    BY <2>2, <2>5, <2>6, FreePages DEF PagesApart
  <2> QED
    BY <2>3, <2>4, <2>6, <2>7
<1> QED
  BY <1>1, Invariant, PTL

(* do_compaction copies an object without the lock of its class: the locks *)
(* of the two pages keep everybody else away from both blocks.             *)
THEOREM CopiesUndisturbed == Spec => []CopyUndisturbed
<1>1. Inv => CopyUndisturbed
  <2> SUFFICES ASSUME Inv PROVE CopyUndisturbed
    OBVIOUS
  <2>1. \A c \in Class : WellFormed(heap[c]) /\ heap[c].ok
    BY DEF Inv, PagesApart, WellFormed
  <2>2. \A t \in Copying : t \in In(job, {"copy"})
    BY DEF Copying, at, In
  <2>3. ASSUME NEW t \in Copying
        PROVE  /\ aa[job[t].src_aa] = job[t].blk /\ aa[job[t].address] = job[t].blk
               /\ mem[job[t].src] = job[t].src_aa /\ mem[job[t].blk] = job[t].address
               /\ is_page_full(heap[job[t].sc], page_of(job[t].blk))
               /\ index_of(job[t].src) \notin heap[job[t].sc].used[page_of(job[t].src)]
               /\ heap[job[t].sc].sourceentries[page_of(job[t].src)] > 0
               /\ \A u \in Copying : u # t =>
                    {page_of(job[t].src), page_of(job[t].blk)} \cap
                    {page_of(job[u].src), page_of(job[u].blk)} = {}
    <3>1. /\ t \in In(job, Moving) /\ job[t].src \in Block /\ job[t].sc \in Class
          /\ aa[job[t].src_aa] = job[t].blk /\ aa[job[t].address] = job[t].blk
          /\ mem[job[t].src] = job[t].src_aa /\ mem[job[t].blk] = job[t].address
          /\ is_full(heap[job[t].sc], page_of(job[t].blk)) /\ page_of(job[t].blk) \in Page
      BY <2>2, CopyOfOther
    <3>2. is_page_full(heap[job[t].sc], page_of(job[t].blk))
      BY <2>1, <3>1, FullPage
    <3>3. /\ job[t].src \notin used_blocks(heap[job[t].sc])
          /\ heap[job[t].sc].sourceentries[page_of(job[t].src)] > 0
      BY <3>1, MovingPage
    <3>4. \A u \in Copying : u # t =>
            {page_of(job[t].src), page_of(job[t].blk)} \cap
            {page_of(job[u].src), page_of(job[u].blk)} = {}
      BY <2>2, CopyOfOther
    <3> QED
      BY <3>1, <3>2, <3>3, <3>4 DEF used_blocks
  <2> QED
    BY <2>1, <2>3 DEF CopyUndisturbed
<1> QED
  BY <1>1, Invariant, PTL

(* The word that is flagged is the one of the block that is moved.         *)
LEMMA FlaggedWord ==
  ASSUME Inv, NEW t \in Thread, job[t] # Null, job[t].at = "redirect"
  PROVE  aa[mem[job[t].src]] = job[t].src
<1> DEFINE src == job[t].src
           p == page_of(src)
<1>1. src = source_block(heap[job[t].sc])
  BY JobNow DEF LookedAt
<1>2. /\ src \in used_blocks(heap[job[t].sc]) /\ job[t].sc \in Class /\ p \in Page
  BY <1>1, SourceChosen
<1>3. page_lock[p] = t
  BY <1>2, JobNow DEF HasPage
<1> HIDE DEF p, src
<1>4. PagesApart(heap, page_sc) /\ Objects(heap, aa, mem, live, job)
  BY DEF Inv
<1>5. PICK x \in Owned(live, job) : aa[x] = src
  BY <1>2, <1>4, OwnedBlock
<1>6. ASSUME NEW u \in In(job, {"copy"}), job[u].blk = src PROVE FALSE
  <2>1. page_lock[p] = u /\ u # t
    BY <1>6, CopyOfOther DEF In, p
  <2> QED
    BY <1>3, <2>1
<1>7. mem[src] = x
  BY <1>4, <1>5, <1>6 DEF Objects
<1> QED
  BY <1>5, <1>7 DEF src

(* No page belongs to two classes, and a program finds in a block what it  *)
(* put there, and in the word no flag, unless a thread moves the object    *)
(* that has the lock of the page.                                          *)
THEOREM ObjectsStayApart == Spec => []ObjectsApart
<1>1. Inv => ObjectsApart
  <2> SUFFICES ASSUME Inv PROVE ObjectsApart
    OBVIOUS
  <2>1. PagesApart(heap, page_sc) /\ \A c \in Class : WellFormed(heap[c])
    BY DEF Inv, PagesApart
  <2>2. ASSUME NEW p \in Page, NEW c \in Class, p \notin free_pages(heap[c])
        PROVE  page_sc[p] = c
    BY <2>1, <2>2, FreePages DEF PagesApart
  <2>3. ASSUME NEW a \in live, NEW t \in Thread, moves(t, a)
        PROVE  page_lock[page_of(aa[a])] = t
    <3>1. a \in Owned(live, job) /\ PagesApart(heap, page_sc)
          /\ Objects(heap, aa, mem, live, job)
      BY DEF Owned, Inv
    <3>2. CASE flagged_by(t, a)
      <4>1. job[t] # Null /\ job[t].at = "redirect" /\ mem[job[t].src] = a
        BY <3>2 DEF flagged_by, at
      <4>2. aa[a] = job[t].src
        BY <4>1, FlaggedWord
      <4>3. page_of(job[t].src) \in Page
        BY <4>1, JobNow, BlockPair DEF Placed
      <4> QED
        BY <4>1, <4>2, <4>3, JobNow DEF HasPage
    <3>3. CASE at(t, "copy") /\ job[t].src_aa = a
      <4>1. t \in In(job, {"copy"}) /\ job[t].src_aa = a
        BY <3>3 DEF at, In
      <4> QED
        BY <4>1, CopyOfOther
    <3> QED
      BY <2>3, <3>2, <3>3 DEF moves
  <2>4. ASSUME NEW a \in live, mem[aa[a]] # a
        PROVE  \E t \in Thread : moves(t, a)
    <3>1. a \in Owned(live, job)
      BY DEF Owned
    <3>2. PICK t \in In(job, {"copy"}) : job[t].src_aa = a
      BY <2>4, <3>1 DEF Inv, Objects
    <3> QED
      BY <3>2 DEF In, at, moves
  <2>5. ASSUME NEW a \in live
        PROVE  \/ mem[cf_dereference(a).blk] = a /\ ~cf_dereference(a).flagged
               \/ \E t \in Thread : moves(t, a) /\ page_lock[page_of(aa[a])] = t
    BY <2>3, <2>4 DEF cf_dereference, moves
  <2> QED
    BY <2>2, <2>5 DEF ObjectsApart
<1> QED
  BY <1>1, Invariant, PTL

-----------------------------------------------------------------------------
(* Waiting.  A thread that waits for a class has no lock that another one  *)
(* could want; who holds a class waits for a page at most; and who holds   *)
(* the page of its target waits for one at most that is locked by a call   *)
(* which has all its locks, and waits for nobody.                          *)
LEMMA SourceWanted ==
  ASSUME Inv, NEW t \in Thread, job[t] # Null, job[t].at = "source"
  PROVE  LET p == source_page(heap[job[t].sc])
         IN  /\ p \in Page /\ page_sc[p] = job[t].sc /\ job[t].sc \in Class
             /\ ~is_full(heap[job[t].sc], p)
<1> DEFINE c == job[t].sc
           p == source_page(heap[c])
<1>1. /\ c \in Class /\ ~in_full_state(heap[c])
  BY JobNow DEF Placed, LookedAt
<1>2. WellFormed(heap[c]) /\ PagesApart(heap, page_sc)
  BY <1>1 DEF Inv, PagesApart
<1>3. heap[c].source # <<>> \/ heap[c].nfull # <<>>
  BY <1>1 DEF in_full_state, nfullentries
<1>4. /\ p \in Page /\ heap[c].used[p] # {} /\ heap[c].list_flags[p] # "full"
  <2> HIDE DEF c
  <2> QED
    BY <1>2, <1>3, TakeSource
<1>5. ~is_full(heap[c], p)
  BY <1>2, <1>4, PageFacts, FullPage
<1>6. page_sc[p] = c
  BY <1>1, <1>2, <1>4 DEF PagesApart
<1> QED
  BY <1>1, <1>4, <1>5, <1>6

LEMMA PageHolder ==
  ASSUME Inv, NEW u \in Thread, NEW p \in Page, page_lock[p] = u
  PROVE  /\ job[u] # Null
         /\ \/ /\ job[u].at \in {"source", "redirect"} /\ job[u].sc \in Class
               /\ page_sc[p] = job[u].sc /\ heap[job[u].sc].used[p] # {}
               /\ class_lock[job[u].sc] = u
               /\ job[u].at = "source" => is_full(heap[job[u].sc], p)
            \/ u \in In(job, {"copy"}) /\ job[u].at = "copy" /\ p \in {page_of(job[u].blk), page_of(job[u].src)}
<1>1. HasPage(job[u], p)
  BY JobNow
<1>2. job[u] # Null
  BY <1>1 DEF HasPage
<1>3. CASE job[u].at \in {"source", "redirect"}
  <2>1. /\ job[u].sc \in Class /\ job[u].blk \in Block
        /\ page_sc[page_of(job[u].blk)] = job[u].sc
        /\ is_full(heap[job[u].sc], page_of(job[u].blk))
        /\ job[u].at = "redirect" => job[u].src = source_block(heap[job[u].sc])
    BY <1>2, <1>3, JobNow DEF Placed, LookedAt
  <2>2. class_lock[job[u].sc] = u
    BY <1>2, <1>3, <2>1, JobNow DEF HasClass
  <2>3. PagesApart(heap, page_sc) /\ Index # {}
    BY <2>1, BlockPair DEF Inv
  <2>4. CASE p = page_of(job[u].blk)
    BY <1>2, <1>3, <2>1, <2>2, <2>3, <2>4 DEF is_full
  <2>5. CASE p # page_of(job[u].blk)
    <3>1. job[u].at = "redirect" /\ p = page_of(job[u].src)
      BY <1>1, <1>3, <2>5 DEF HasPage
    <3>2. /\ job[u].src \in used_blocks(heap[job[u].sc])
      BY <1>2, <2>1, <3>1, SourceChosen
    <3>3. heap[job[u].sc].used[p] # {}
      BY <3>1, <3>2 DEF used_blocks
    <3>4. page_sc[p] = job[u].sc
      BY <2>1, <2>3, <3>3 DEF PagesApart
    <3> QED
      BY <1>2, <2>1, <2>2, <3>1, <3>3, <3>4
  <2> QED
    BY <2>4, <2>5
<1>4. CASE job[u].at = "copy" /\ p \in {page_of(job[u].blk), page_of(job[u].src)}
  BY <1>2, <1>4 DEF In
<1> QED
  BY <1>1, <1>3, <1>4 DEF HasPage

(* Whom a thread may wait for, place by place. *)
LEMMA WhoIsWaitedFor ==
  ASSUME Inv, NEW t \in Thread, NEW u \in Thread, waits_for(t) = u
  PROVE  /\ job[t] # Null /\ job[u] # Null
         /\ \/ job[t].at \in {"lock", "relock"} /\ job[u].at \in {"malloc", "check", "source", "redirect"}
            \/ job[t].at = "check" /\ job[u].at \in {"source", "redirect", "copy"}
            \/ job[t].at = "source" /\ job[u].at \in {"redirect", "copy"}
<1>1. u # Null
  BY NullAssumption
<1>2. CASE at(t, "lock") \/ at(t, "relock")
  <2>1. job[t] # Null /\ job[t].at \in {"lock", "relock"} /\ class_lock[job[t].sc] = u
    BY <1>2 DEF at, waits_for
  <2>2. job[t].sc \in Class
    BY <2>1, JobNow DEF Placed, Moving
  <2>3. HasClass(job[u], job[t].sc)
    BY <2>1, <2>2, JobNow
  <2> QED
    BY <2>1, <2>3 DEF HasClass
<1>3. CASE at(t, "source")
  <2> DEFINE p == source_page(heap[job[t].sc])
  <2>1. job[t] # Null /\ job[t].at = "source"
    BY <1>3 DEF at
  <2>2. p \in Page /\ page_sc[p] = job[t].sc /\ job[t].sc \in Class /\ ~is_full(heap[job[t].sc], p)
    BY <2>1, SourceWanted
  <2>3. page_wanted(t) = p /\ ~at(t, "lock") /\ ~at(t, "relock")
    BY <1>3, <2>1 DEF page_wanted, at
  <2>4. page_lock[p] = u
    BY <1>1, <2>3 DEF waits_for
  <2> HIDE DEF p
  <2>5. job[u] # Null /\ job[u].at \in {"redirect", "copy"}
    BY <2>2, <2>4, PageHolder
  <2> QED
    BY <2>1, <2>5
<1>4. CASE at(t, "check")
  <2> DEFINE p == page_of(job[t].blk)
  <2>1. job[t] # Null /\ job[t].at = "check"
    BY <1>4 DEF at
  <2>2. p \in Page
    BY <2>1, JobNow, BlockPair DEF Placed
  <2>3. page_wanted(t) = p /\ ~at(t, "lock") /\ ~at(t, "relock")
    BY <1>4, <2>1 DEF page_wanted, at
  <2>4. page_lock[p] = u
    BY <1>1, <2>3 DEF waits_for
  <2> HIDE DEF p
  <2>5. job[u] # Null /\ job[u].at \in {"source", "redirect", "copy"}
    BY <2>2, <2>4, PageHolder
  <2> QED
    BY <2>1, <2>5
<1>5. CASE ~at(t, "lock") /\ ~at(t, "relock") /\ ~at(t, "source") /\ ~at(t, "check")
  <2>1. page_wanted(t) = Null
    BY <1>5 DEF page_wanted
  <2> QED
    BY <1>1, <1>5, <2>1 DEF waits_for
<1> QED
  BY <1>2, <1>3, <1>4, <1>5

(* The locks of classes and pages are never waited for in a circle, though *)
(* cf_free takes pages under a class and, after the copy, a class again.   *)
THEOREM NobodyWaitsInACircle == Spec => []NoCircularWait
<1>1. Inv => NoCircularWait
  <2> SUFFICES ASSUME Inv, NEW S \in (SUBSET Thread) \ {{}}, \A t \in S : waits_for(t) \in S
               PROVE  FALSE
    BY Zenon DEF NoCircularWait
  <2>1. \A t \in S : t \in Thread /\ waits_for(t) \in Thread
    OBVIOUS
  <2>2. \A t \in S : job[t].at \notin {"copy", "malloc", "redirect"}
    BY <2>1, WhoIsWaitedFor
  <2>3. \A t \in S : job[t].at # "source"
    BY <2>1, <2>2, WhoIsWaitedFor
  <2>4. \A t \in S : job[t].at # "check"
    BY <2>1, <2>2, <2>3, WhoIsWaitedFor
  <2>5. \A t \in S : job[t].at \notin {"lock", "relock"}
    BY <2>1, <2>2, <2>3, <2>4, WhoIsWaitedFor
  <2> QED
    BY <2>1, <2>3, <2>4, <2>5, WhoIsWaitedFor
<1> QED
  BY <1>1, Invariant, PTL

(* cf_malloc never finds the page locked that it takes a block from: the   *)
(* only lock it waits for is that of the class.                            *)
MallocNeverWaits ==
  \A t \in Thread : at(t, "malloc") => \A p \in pages_for(job[t].sc) : page_unlocked(p)

THEOREM MallocWaitsForNoPage == Spec => []MallocNeverWaits
<1>1. Inv => MallocNeverWaits
  <2> SUFFICES ASSUME Inv, NEW t \in Thread, job[t] # Null, job[t].at = "malloc",
                      NEW p \in pages_for(job[t].sc)
               PROVE  page_lock[p] = Null
    BY DEF MallocNeverWaits, at, page_unlocked
  <2> DEFINE c == job[t].sc
  <2>1. c \in Class
    BY JobNow DEF Placed
  <2>2. class_lock[c] = t
    BY <2>1, JobNow DEF HasClass
  <2>3. /\ p \in malloc_pages(heap[c]) /\ p \in Page
        /\ \A d \in Class \ {c} : heap[d].used[p] = {} /\ heap[d].sourceentries[p] = 0
    BY <2>1, MallocPages DEF pages_for
  <2>4. heap[c].sourceentries[p] = 0 /\ ~is_full(heap[c], p) /\ Index # {}
    <3>1. WellFormed(heap[c])
      BY <2>1 DEF Inv, PagesApart
    <3> HIDE DEF c
    <3>2. heap[c].sourceentries[p] = 0 /\ Index \ heap[c].used[p] # {}
      BY <2>3, <3>1, MallocPage
    <3> QED
      BY <3>2 DEF is_full
  <2> HIDE DEF c
  <2>5. \A d \in Class : ~is_full(heap[d], p) /\ heap[d].sourceentries[p] = 0
    BY <2>3, <2>4 DEF is_full
  <2>6. ASSUME NEW u \in Thread, page_lock[p] = u PROVE FALSE
    <3>1. \/ /\ job[u].at \in {"source", "redirect"} /\ job[u].sc \in Class
             /\ heap[job[u].sc].used[p] # {} /\ class_lock[job[u].sc] = u
          \/ u \in In(job, {"copy"}) /\ p \in {page_of(job[u].blk), page_of(job[u].src)}
      BY <2>3, <2>6, PageHolder
    <3>2. PICK v \in In(job, {"copy"}) : v = u /\ p \in {page_of(job[v].blk), page_of(job[v].src)}
      <4>1. CASE /\ job[u].at \in {"source", "redirect"} /\ job[u].sc \in Class
                 /\ heap[job[u].sc].used[p] # {} /\ class_lock[job[u].sc] = u
        <5>1. job[u].sc = c
          BY <2>3, <4>1
        <5>2. u = t
          BY <2>2, <4>1, <5>1
        <5> QED
          BY <4>1, <5>2
      <4> QED
        BY <3>1, <4>1
    <3>3. job[v].sc \in Class /\ is_full(heap[job[v].sc], page_of(job[v].blk)) /\ v \in In(job, Moving)
      BY CopyOfOther
    <3>4. heap[job[v].sc].sourceentries[page_of(job[v].src)] > 0
      BY <3>3, MovingPage
    <3> QED
      BY <2>5, <3>2, <3>3, <3>4
  <2>7. page_lock \in [Page -> Thread \cup {Null}]
    BY DEF Inv, Typed, TypeOK
  <2> QED
    BY <2>3, <2>6, <2>7
<1> QED
  BY <1>1, Invariant, PTL

=============================================================================
