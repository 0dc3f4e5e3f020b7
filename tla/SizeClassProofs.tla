-------------------------- MODULE SizeClassProofs --------------------------
(***************************************************************************)
(* Lemmas about the operators of SizeClass, for every set of pages and     *)
(* every page size: each takes a size-class record to one.                 *)
(*                                                                         *)
(* The first part is about the two counters that fragmentation is about,   *)
(* nfullentries and the length of the source list; the second about the    *)
(* pages of a class whose lists and counters are in order: each operation  *)
(* keeps them in order, none of its assertions fails, and the used bits    *)
(* and the count of source entries change for one page only.               *)
(***************************************************************************)
EXTENDS SizeClass, FiniteSetTheorems, WellFoundedInduction, TLAPS

(* The lowest set bit exists whenever there is a set bit. *)
LEMMA MinOfIndexes ==
  ASSUME NEW S \in SUBSET Index, S # {}
  PROVE  Min(S) \in S
<1> DEFINE R == {ss \in Nat \X Nat : ss[1] < ss[2]}
<1>1. S \in SUBSET Nat
  BY PageBlocksAssumption DEF Index
<1>2. IsWellFoundedOn(R, Nat)
  BY NatLessThanWellFounded, Zenon DEF OpToRel
<1>3. PICK x \in S : \A y \in S : ~(<<y, x>> \in R)
  <2> HIDE DEF R
  <2> QED BY <1>1, <1>2, WFMin, Zenon
<1>4. \A y \in S : x <= y
  <2> TAKE y \in S
  <2>1. y < x => <<y, x>> \in R
    BY <1>1
  <2> HIDE DEF R
  <2> QED BY <1>1, <1>3, <2>1
<1> QED
  BY <1>4 DEF Min

-----------------------------------------------------------------------------
(* list_add links a page in, list_del unlinks one that is on the list.     *)
LEMMA ListAdd ==
  ASSUME NEW s \in Seq(Page), NEW p \in Page
  PROVE  /\ list_add(s, p) \in Seq(Page)
         /\ Len(list_add(s, p)) = Len(s) + 1
BY DEF list_add

LEMMA ListDel ==
  ASSUME NEW s \in Seq(Page), NEW p \in Page, on_list(s, p)
  PROVE  /\ list_del(s, p) \in Seq(Page)
         /\ Len(list_del(s, p)) = Len(s) - 1
<1> DEFINE i == CHOOSE j \in 1 .. Len(s) : s[j] = p
<1>1. i \in 1 .. Len(s) /\ Len(s) \in Nat
  BY DEF on_list
<1> HIDE DEF i
<1>2. SubSeq(s, 1, i - 1) \in Seq(Page) /\ Len(SubSeq(s, 1, i - 1)) = i - 1
  BY <1>1
<1>3. SubSeq(s, i + 1, Len(s)) \in Seq(Page) /\ Len(SubSeq(s, i + 1, Len(s))) = Len(s) - i
  BY <1>1
<1>4. \A u, v \in Seq(Page) : u \o v \in Seq(Page) /\ Len(u \o v) = Len(u) + Len(v)
  OBVIOUS
<1>5. /\ RemoveAt(s, i) \in Seq(Page)
      /\ Len(RemoveAt(s, i)) = (i - 1) + (Len(s) - i)
  BY <1>2, <1>3, <1>4, Zenon DEF RemoveAt
<1> QED
  BY <1>1, <1>5 DEF list_del, i

-----------------------------------------------------------------------------
nsources(h) == Len(h.source)

(* From h to g, if no check failed, nfullentries grows by dn and the       *)
(* length of the source list by ds.                                        *)
Moves(h, g, dn, ds) ==
  g.ok => /\ h.ok
          /\ nfullentries(g) = nfullentries(h) + dn
          /\ nsources(g) = nsources(h) + ds

LEMMA Lengths ==
  ASSUME NEW h \in SizeClassType
  PROVE  nfullentries(h) \in Nat /\ nsources(h) \in Nat /\ h.ok \in BOOLEAN
BY DEF SizeClassType, nfullentries, nsources

LEMMA Compose ==
  ASSUME NEW h \in SizeClassType, NEW g \in SizeClassType, NEW k \in SizeClassType,
         NEW a \in Int, NEW b \in Int, NEW c \in Int, NEW d \in Int,
         Moves(h, g, a, b), Moves(g, k, c, d)
  PROVE  Moves(h, k, a + c, b + d)
<1>1. /\ nfullentries(h) \in Nat /\ nsources(h) \in Nat
      /\ nfullentries(g) \in Nat /\ nsources(g) \in Nat
      /\ nfullentries(k) \in Nat /\ nsources(k) \in Nat
  BY Lengths, Zenon
<1>0. SUFFICES ASSUME k.ok
             PROVE  /\ h.ok
                    /\ nfullentries(k) = nfullentries(h) + (a + c)
                    /\ nsources(k) = nsources(h) + (b + d)
  BY Zenon DEF Moves
<1>2. g.ok
  BY <1>0, Zenon DEF Moves
<1>3. nfullentries(k) = nfullentries(g) + c /\ nsources(k) = nsources(g) + d
  BY <1>0, Zenon DEF Moves
<1>4. h.ok
  BY <1>2, Zenon DEF Moves
<1>5. nfullentries(g) = nfullentries(h) + a /\ nsources(g) = nsources(h) + b
  BY <1>2, Zenon DEF Moves
<1>6. nfullentries(k) = nfullentries(h) + (a + c) /\ nsources(k) = nsources(h) + (b + d)
  BY <1>1, <1>3, <1>5
<1> QED
  BY <1>4, <1>6, Zenon

(* An update behind a check keeps the type and does what the update does.  *)
LEMMA Expect ==
  ASSUME NEW h \in SizeClassType, NEW c \in BOOLEAN, NEW g,
         NEW dn \in Int, NEW ds \in Int,
         h.ok /\ c => /\ g \in SizeClassType
                      /\ nfullentries(g) = nfullentries(h) + dn
                      /\ nsources(g) = nsources(h) + ds
  PROVE  /\ expect(h, c, g) \in SizeClassType
         /\ Moves(h, expect(h, c, g), dn, ds)
BY Lengths DEF expect, Moves, SizeClassType, nfullentries, nsources

LEMMA AddNfull ==
  ASSUME NEW h \in SizeClassType, NEW p \in Page
  PROVE  /\ add_page_to_nfull_list(h, p) \in SizeClassType
         /\ Moves(h, add_page_to_nfull_list(h, p), 1, 0)
<1> DEFINE c == h.list_flags[p] = "none"
           g == [h EXCEPT !.list_flags[p] = "nfull", !.nfull = list_add(@, p)]
<1>1. c => g \in SizeClassType /\ Len(g.nfull) = Len(h.nfull) + 1 /\ g.source = h.source
  BY ListAdd DEF SizeClassType, ListFlag
<1>2. add_page_to_nfull_list(h, p) = expect(h, c, g)
  BY DEF add_page_to_nfull_list
<1>3. c \in BOOLEAN
  BY DEF c
<1> HIDE DEF c, g
<1> QED
  BY <1>1, <1>2, <1>3, Expect, Lengths DEF nfullentries, nsources

LEMMA RemoveNfull ==
  ASSUME NEW h \in SizeClassType, NEW p \in Page
  PROVE  /\ remove_page_from_nfull_list(h, p) \in SizeClassType
         /\ Moves(h, remove_page_from_nfull_list(h, p), (-1), 0)
<1> DEFINE c == h.list_flags[p] = "nfull" /\ on_list(h.nfull, p)
           g == [h EXCEPT !.list_flags[p] = "none", !.nfull = list_del(@, p)]
<1>1. c => g \in SizeClassType /\ Len(g.nfull) = Len(h.nfull) - 1 /\ g.source = h.source
  BY ListDel DEF SizeClassType, ListFlag
<1>2. remove_page_from_nfull_list(h, p) = expect(h, c, g)
  BY DEF remove_page_from_nfull_list
<1>3. c \in BOOLEAN
  BY DEF c
<1> HIDE DEF c, g
<1> QED
  BY <1>1, <1>2, <1>3, Expect, Lengths DEF nfullentries, nsources

LEMMA AddSource ==
  ASSUME NEW h \in SizeClassType, NEW p \in Page
  PROVE  /\ add_page_to_source_list(h, p) \in SizeClassType
         /\ Moves(h, add_page_to_source_list(h, p), 0, 1)
<1> DEFINE c == h.list_flags[p] = "none"
           g == [h EXCEPT !.list_flags[p] = "source", !.source = list_add(@, p)]
<1>1. c => g \in SizeClassType /\ g.nfull = h.nfull /\ Len(g.source) = Len(h.source) + 1
  BY ListAdd DEF SizeClassType, ListFlag
<1>2. add_page_to_source_list(h, p) = expect(h, c, g)
  BY DEF add_page_to_source_list
<1>3. c \in BOOLEAN
  BY DEF c
<1> HIDE DEF c, g
<1> QED
  BY <1>1, <1>2, <1>3, Expect, Lengths DEF nfullentries, nsources

LEMMA RemoveSource ==
  ASSUME NEW h \in SizeClassType, NEW p \in Page
  PROVE  /\ remove_page_from_source_list(h, p) \in SizeClassType
         /\ Moves(h, remove_page_from_source_list(h, p), 0, (-1))
<1> DEFINE c == h.list_flags[p] = "source" /\ on_list(h.source, p)
           g == [h EXCEPT !.list_flags[p] = "none", !.source = list_del(@, p)]
<1>1. c => g \in SizeClassType /\ g.nfull = h.nfull /\ Len(g.source) = Len(h.source) - 1
  BY ListDel DEF SizeClassType, ListFlag
<1>2. remove_page_from_source_list(h, p) = expect(h, c, g)
  BY DEF remove_page_from_source_list
<1>3. c \in BOOLEAN
  BY DEF c
<1> HIDE DEF c, g
<1> QED
  BY <1>1, <1>2, <1>3, Expect, Lengths DEF nfullentries, nsources

LEMMA AddFull ==
  ASSUME NEW h \in SizeClassType, NEW p \in Page
  PROVE  /\ add_page_to_full_list(h, p) \in SizeClassType
         /\ Moves(h, add_page_to_full_list(h, p), 0, 0)
<1> DEFINE c == h.list_flags[p] = "none"
           g == [h EXCEPT !.list_flags[p] = "full"]
<1>1. c => g \in SizeClassType /\ g.nfull = h.nfull /\ g.source = h.source
  BY DEF SizeClassType, ListFlag
<1>2. add_page_to_full_list(h, p) = expect(h, c, g)
  BY DEF add_page_to_full_list
<1>3. c \in BOOLEAN
  BY DEF c
<1> HIDE DEF c, g
<1> QED
  BY <1>1, <1>2, <1>3, Expect, Lengths DEF nfullentries, nsources

LEMMA RemoveFull ==
  ASSUME NEW h \in SizeClassType, NEW p \in Page
  PROVE  /\ remove_page_from_full_list(h, p) \in SizeClassType
         /\ Moves(h, remove_page_from_full_list(h, p), 0, 0)
<1> DEFINE c == h.list_flags[p] = "full"
           g == [h EXCEPT !.list_flags[p] = "none"]
<1>1. c => g \in SizeClassType /\ g.nfull = h.nfull /\ g.source = h.source
  BY DEF SizeClassType, ListFlag
<1>2. remove_page_from_full_list(h, p) = expect(h, c, g)
  BY DEF remove_page_from_full_list
<1>3. c \in BOOLEAN
  BY DEF c
<1> HIDE DEF c, g
<1> QED
  BY <1>1, <1>2, <1>3, Expect, Lengths DEF nfullentries, nsources

LEMMA AddEmptying ==
  ASSUME NEW h \in SizeClassType, NEW p \in Page
  PROVE  /\ add_page_to_emptying_list(h, p) \in SizeClassType
         /\ Moves(h, add_page_to_emptying_list(h, p), 0, 0)
<1> DEFINE c == h.list_flags[p] = "none"
           g == [h EXCEPT !.list_flags[p] = "emptying"]
<1>1. c => g \in SizeClassType /\ g.nfull = h.nfull /\ g.source = h.source
  BY DEF SizeClassType, ListFlag
<1>2. add_page_to_emptying_list(h, p) = expect(h, c, g)
  BY DEF add_page_to_emptying_list
<1>3. c \in BOOLEAN
  BY DEF c
<1> HIDE DEF c, g
<1> QED
  BY <1>1, <1>2, <1>3, Expect, Lengths DEF nfullentries, nsources

LEMMA RemoveEmptying ==
  ASSUME NEW h \in SizeClassType, NEW p \in Page
  PROVE  /\ remove_page_from_emptying_list(h, p) \in SizeClassType
         /\ Moves(h, remove_page_from_emptying_list(h, p), 0, 0)
<1> DEFINE c == h.list_flags[p] = "emptying"
           g == [h EXCEPT !.list_flags[p] = "none"]
<1>1. c => g \in SizeClassType /\ g.nfull = h.nfull /\ g.source = h.source
  BY DEF SizeClassType, ListFlag
<1>2. remove_page_from_emptying_list(h, p) = expect(h, c, g)
  BY DEF remove_page_from_emptying_list
<1>3. c \in BOOLEAN
  BY DEF c
<1> HIDE DEF c, g
<1> QED
  BY <1>1, <1>2, <1>3, Expect, Lengths DEF nfullentries, nsources

LEMMA AddFree ==
  ASSUME NEW h \in SizeClassType, NEW p \in Page
  PROVE  /\ add_free_page(h, p) \in SizeClassType
         /\ Moves(h, add_free_page(h, p), 0, 0)
<1> DEFINE c == h.list_flags[p] = "none"
           g == [h EXCEPT !.list_flags[p] = "free"]
<1>1. c => g \in SizeClassType /\ g.nfull = h.nfull /\ g.source = h.source
  BY DEF SizeClassType, ListFlag
<1>2. add_free_page(h, p) = expect(h, c, g)
  BY DEF add_free_page
<1>3. c \in BOOLEAN
  BY DEF c
<1> HIDE DEF c, g
<1> QED
  BY <1>1, <1>2, <1>3, Expect, Lengths DEF nfullentries, nsources

LEMMA GetFree ==
  ASSUME NEW h \in SizeClassType, NEW p \in Page
  PROVE  /\ get_free_page(h, p) \in SizeClassType
         /\ Moves(h, get_free_page(h, p), 0, 0)
<1> DEFINE c == h.list_flags[p] = "free"
           g == [h EXCEPT !.list_flags[p] = "none", !.nr_used[p] = 0]
<1>1. c => g \in SizeClassType /\ g.nfull = h.nfull /\ g.source = h.source
  <2> SUFFICES ASSUME c PROVE g \in SizeClassType /\ g.nfull = h.nfull /\ g.source = h.source
    OBVIOUS
  <2>1. [h.list_flags EXCEPT ![p] = "none"] \in [Page -> ListFlag]
    BY DEF SizeClassType, ListFlag
  <2>2. [h.nr_used EXCEPT ![p] = 0] \in [Page -> Int]
    BY DEF SizeClassType
  <2> QED
    BY <2>1, <2>2 DEF SizeClassType
<1>2. get_free_page(h, p) = expect(h, c, g)
  BY DEF get_free_page
<1>3. c \in BOOLEAN
  BY DEF c
<1> HIDE DEF c, g
<1> QED
  BY <1>1, <1>2, <1>3, Expect, Lengths DEF nfullentries, nsources

LEMMA FreeIndex ==
  ASSUME NEW h \in SizeClassType, NEW p \in Page, Index \ h.used[p] # {}
  PROVE  free_index(h, p) \in Index \ h.used[p]
BY MinOfIndexes DEF free_index

LEMMA GetFreeBlock ==
  ASSUME NEW h \in SizeClassType, NEW p \in Page
  PROVE  /\ get_free_page_block(h, p) \in SizeClassType
         /\ Moves(h, get_free_page_block(h, p), 0, 0)
<1> DEFINE c == Index \ h.used[p] # {}
           g == [h EXCEPT !.used[p] = @ \cup {free_index(h, p)}, !.nr_used[p] = @ + 1]
<1>1. c => g \in SizeClassType /\ g.nfull = h.nfull /\ g.source = h.source
  <2> SUFFICES ASSUME c PROVE g \in SizeClassType /\ g.nfull = h.nfull /\ g.source = h.source
    OBVIOUS
  <2>1. free_index(h, p) \in Index
    BY FreeIndex
  <2>2. [h.used EXCEPT ![p] = @ \cup {free_index(h, p)}] \in [Page -> SUBSET Index]
    BY <2>1 DEF SizeClassType
  <2>3. [h.nr_used EXCEPT ![p] = @ + 1] \in [Page -> Int]
    BY DEF SizeClassType
  <2> QED
    BY <2>1, <2>2, <2>3 DEF SizeClassType
<1>2. get_free_page_block(h, p) = expect(h, c, g)
  BY DEF get_free_page_block
<1>3. c \in BOOLEAN
  BY DEF c
<1> HIDE DEF c, g
<1> QED
  BY <1>1, <1>2, <1>3, Expect, Lengths DEF nfullentries, nsources

LEMMA ClearUsedBit ==
  ASSUME NEW h \in SizeClassType, NEW p \in Page, NEW i \in Index
  PROVE  /\ page_clear_used_bit(h, p, i) \in SizeClassType
         /\ Moves(h, page_clear_used_bit(h, p, i), 0, 0)
<1> DEFINE c == i \in h.used[p]
           g == [h EXCEPT !.used[p] = @ \ {i}]
<1>1. c => g \in SizeClassType /\ g.nfull = h.nfull /\ g.source = h.source
  BY DEF SizeClassType, ListFlag
<1>2. page_clear_used_bit(h, p, i) = expect(h, c, g)
  BY DEF page_clear_used_bit
<1>3. c \in BOOLEAN
  BY DEF c
<1> HIDE DEF c, g
<1> QED
  BY <1>1, <1>2, <1>3, Expect, Lengths DEF nfullentries, nsources

LEMMA FreeUsedBlock ==
  ASSUME NEW h \in SizeClassType, NEW p \in Page, NEW i \in Index
  PROVE  /\ free_used_page_block(h, p, i) \in SizeClassType
         /\ Moves(h, free_used_page_block(h, p, i), 0, 0)
<1> DEFINE c == i \in h.used[p] /\ h.nr_used[p] > 0
           g == [h EXCEPT !.used[p] = @ \ {i}, !.nr_used[p] = @ - 1]
<1>1. c => g \in SizeClassType /\ g.nfull = h.nfull /\ g.source = h.source
  <2> SUFFICES ASSUME c PROVE g \in SizeClassType /\ g.nfull = h.nfull /\ g.source = h.source
    OBVIOUS
  <2>1. [h.used EXCEPT ![p] = @ \ {i}] \in [Page -> SUBSET Index]
    BY DEF SizeClassType
  <2>2. [h.nr_used EXCEPT ![p] = @ - 1] \in [Page -> Int]
    BY DEF SizeClassType
  <2> QED
    BY <2>1, <2>2 DEF SizeClassType
<1>2. free_used_page_block(h, p, i) = expect(h, c, g)
  BY DEF free_used_page_block
<1>3. c \in BOOLEAN
  BY DEF c
<1> HIDE DEF c, g
<1> QED
  BY <1>1, <1>2, <1>3, Expect, Lengths DEF nfullentries, nsources

-----------------------------------------------------------------------------
(* From h to g no more pages are neither full nor emptying, and there are  *)
(* not two source pages if there were not before.                          *)
Shrinks(h, g) ==
  g.ok => /\ h.ok
          /\ nfullentries(g) + nsources(g) <= nfullentries(h) + nsources(h)
          /\ nsources(h) <= 1 => nsources(g) <= 1

(* Sequencing of updates. *)
LEMMA ShrinksTransitive ==
  ASSUME NEW h \in SizeClassType, NEW g \in SizeClassType, NEW k \in SizeClassType,
         Shrinks(h, g), Shrinks(g, k)
  PROVE  Shrinks(h, k)
<1>1. /\ nfullentries(h) \in Nat /\ nsources(h) \in Nat
      /\ nfullentries(g) \in Nat /\ nsources(g) \in Nat
      /\ nfullentries(k) \in Nat /\ nsources(k) \in Nat
  BY Lengths, Zenon
<1>0. SUFFICES ASSUME k.ok
             PROVE  /\ h.ok
                    /\ nfullentries(k) + nsources(k) <= nfullentries(h) + nsources(h)
                    /\ nsources(h) <= 1 => nsources(k) <= 1
  BY Zenon DEF Shrinks
<1>2. g.ok
  BY <1>0, Zenon DEF Shrinks
<1>3. /\ nfullentries(k) + nsources(k) <= nfullentries(g) + nsources(g)
      /\ nsources(g) <= 1 => nsources(k) <= 1
  BY <1>0, Zenon DEF Shrinks
<1>4. h.ok
  BY <1>2, Zenon DEF Shrinks
<1>5. /\ nfullentries(g) + nsources(g) <= nfullentries(h) + nsources(h)
      /\ nsources(h) <= 1 => nsources(g) <= 1
  BY <1>2, Zenon DEF Shrinks
<1>6. /\ nfullentries(k) + nsources(k) <= nfullentries(h) + nsources(h)
      /\ nsources(h) <= 1 => nsources(k) <= 1
  BY <1>1, <1>3, <1>5
<1> QED
  BY <1>4, <1>6, Zenon

LEMMA MovesShrinks ==
  ASSUME NEW h \in SizeClassType, NEW g \in SizeClassType, NEW dn \in Int, NEW ds \in Int,
         Moves(h, g, dn, ds), dn + ds <= 0, ds <= 0
  PROVE  Shrinks(h, g)
<1>1. /\ nfullentries(h) \in Nat /\ nsources(h) \in Nat
      /\ nfullentries(g) \in Nat /\ nsources(g) \in Nat
  BY Lengths, Zenon
<1>0. SUFFICES ASSUME g.ok
             PROVE  /\ h.ok
                    /\ nfullentries(g) + nsources(g) <= nfullentries(h) + nsources(h)
                    /\ nsources(h) <= 1 => nsources(g) <= 1
  BY Zenon DEF Shrinks
<1>2. h.ok
  BY <1>0, Zenon DEF Moves
<1>3. nfullentries(g) = nfullentries(h) + dn /\ nsources(g) = nsources(h) + ds
  BY <1>0, Zenon DEF Moves
<1>4. /\ nfullentries(g) + nsources(g) <= nfullentries(h) + nsources(h)
      /\ nsources(h) <= 1 => nsources(g) <= 1
  BY <1>1, <1>3
<1> QED
  BY <1>2, <1>4, Zenon

(* A page that goes from the not-full to the source list, or the other way *)
(* round, or straight to the emptying pages.                               *)
LEMMA SourceToNfull ==
  ASSUME NEW h \in SizeClassType, NEW p \in Page
  PROVE  LET g == add_page_to_nfull_list(remove_page_from_source_list(h, p), p)
         IN  g \in SizeClassType /\ Shrinks(h, g)
<1> DEFINE f == remove_page_from_source_list(h, p)
           g == add_page_to_nfull_list(f, p)
<1>1. f \in SizeClassType /\ Moves(h, f, 0, -1)
  BY RemoveSource
<1> HIDE DEF f
<1>2. g \in SizeClassType /\ Moves(f, g, 1, 0)
  BY <1>1, AddNfull
<1> HIDE DEF g
<1>3. Moves(h, g, 0 + 1, -1 + 0)
  BY <1>1, <1>2, Compose
<1>4. Shrinks(h, g)
  BY <1>2, <1>3, MovesShrinks
<1> QED
  BY <1>2, <1>4 DEF f, g

LEMMA SourceToEmptying ==
  ASSUME NEW h \in SizeClassType, NEW p \in Page
  PROVE  LET g == add_page_to_emptying_list(remove_page_from_source_list(h, p), p)
         IN  g \in SizeClassType /\ Shrinks(h, g)
<1> DEFINE f == remove_page_from_source_list(h, p)
           g == add_page_to_emptying_list(f, p)
<1>1. f \in SizeClassType /\ Moves(h, f, 0, -1)
  BY RemoveSource
<1> HIDE DEF f
<1>2. g \in SizeClassType /\ Moves(f, g, 0, 0)
  BY <1>1, AddEmptying
<1> HIDE DEF g
<1>3. Moves(h, g, 0 + 0, -1 + 0)
  BY <1>1, <1>2, Compose
<1>4. Shrinks(h, g)
  BY <1>2, <1>3, MovesShrinks
<1> QED
  BY <1>2, <1>4 DEF f, g

LEMMA EmptyingToFree ==
  ASSUME NEW h \in SizeClassType, NEW p \in Page
  PROVE  LET g == add_free_page(remove_page_from_emptying_list(h, p), p)
         IN  g \in SizeClassType /\ Shrinks(h, g)
<1> DEFINE f == remove_page_from_emptying_list(h, p)
           g == add_free_page(f, p)
<1>1. f \in SizeClassType /\ Moves(h, f, 0, 0)
  BY RemoveEmptying
<1> HIDE DEF f
<1>2. g \in SizeClassType /\ Moves(f, g, 0, 0)
  BY <1>1, AddFree
<1> HIDE DEF g
<1>3. Moves(h, g, 0 + 0, 0 + 0)
  BY <1>1, <1>2, Compose
<1>4. Shrinks(h, g)
  BY <1>2, <1>3, MovesShrinks
<1> QED
  BY <1>2, <1>4 DEF f, g

LEMMA NfullToFree ==
  ASSUME NEW h \in SizeClassType, NEW p \in Page
  PROVE  LET g == add_free_page(remove_page_from_nfull_list(h, p), p)
         IN  g \in SizeClassType /\ Shrinks(h, g)
<1> DEFINE f == remove_page_from_nfull_list(h, p)
           g == add_free_page(f, p)
<1>1. f \in SizeClassType /\ Moves(h, f, -1, 0)
  BY RemoveNfull
<1> HIDE DEF f
<1>2. g \in SizeClassType /\ Moves(f, g, 0, 0)
  BY <1>1, AddFree
<1> HIDE DEF g
<1>3. Moves(h, g, -1 + 0, 0 + 0)
  BY <1>1, <1>2, Compose
<1>4. Shrinks(h, g)
  BY <1>2, <1>3, MovesShrinks
<1> QED
  BY <1>2, <1>4 DEF f, g

LEMMA NfullToEmptying ==
  ASSUME NEW h \in SizeClassType, NEW p \in Page
  PROVE  LET g == add_page_to_emptying_list(remove_page_from_nfull_list(h, p), p)
         IN  g \in SizeClassType /\ Shrinks(h, g)
<1> DEFINE f == remove_page_from_nfull_list(h, p)
           g == add_page_to_emptying_list(f, p)
<1>1. f \in SizeClassType /\ Moves(h, f, -1, 0)
  BY RemoveNfull
<1> HIDE DEF f
<1>2. g \in SizeClassType /\ Moves(f, g, 0, 0)
  BY <1>1, AddEmptying
<1> HIDE DEF g
<1>3. Moves(h, g, -1 + 0, 0 + 0)
  BY <1>1, <1>2, Compose
<1>4. Shrinks(h, g)
  BY <1>2, <1>3, MovesShrinks
<1> QED
  BY <1>2, <1>4 DEF f, g

(* The first source page comes from the not-full list: the sum stays, and  *)
(* one source page is the only one.                                        *)
LEMMA NfullToSource ==
  ASSUME NEW h \in SizeClassType, NEW p \in Page, nsources(h) = 0
  PROVE  LET g == add_page_to_source_list(remove_page_from_nfull_list(h, p), p)
         IN  g \in SizeClassType /\ Shrinks(h, g)
<1> DEFINE f == remove_page_from_nfull_list(h, p)
           g == add_page_to_source_list(f, p)
<1>1. f \in SizeClassType /\ Moves(h, f, -1, 0)
  BY RemoveNfull
<1> HIDE DEF f
<1>2. g \in SizeClassType /\ Moves(f, g, 0, 1)
  BY <1>1, AddSource
<1> HIDE DEF g
<1>3. Moves(h, g, -1 + 0, 0 + 1)
  BY <1>1, <1>2, Compose
<1>4. /\ nfullentries(h) \in Nat /\ nfullentries(g) \in Nat /\ nsources(g) \in Nat
  BY <1>2, Lengths, Zenon
<1>5. ASSUME g.ok
      PROVE  /\ h.ok
             /\ nfullentries(g) + nsources(g) <= nfullentries(h) + nsources(h)
             /\ nsources(h) <= 1 => nsources(g) <= 1
  <2>1. h.ok
    BY <1>3, <1>5, Zenon DEF Moves
  <2>2. nfullentries(g) = nfullentries(h) + (-1 + 0) /\ nsources(g) = nsources(h) + (0 + 1)
    BY <1>3, <1>5, Zenon DEF Moves
  <2>3. /\ nfullentries(g) + nsources(g) <= nfullentries(h) + nsources(h)
        /\ nsources(h) <= 1 => nsources(g) <= 1
    BY <1>4, <2>2
  <2> QED
    BY <2>1, <2>3, Zenon
<1>6. Shrinks(h, g)
  BY <1>5, Zenon DEF Shrinks
<1> QED
  BY <1>2, <1>6 DEF f, g

-----------------------------------------------------------------------------
(* Counters of a page do not touch the lists. *)
LEMMA Unmoved ==
  ASSUME NEW h \in SizeClassType, NEW g \in SizeClassType,
         g.ok = h.ok, g.nfull = h.nfull, g.source = h.source
  PROVE  Moves(h, g, 0, 0) /\ Shrinks(h, g)
<1>1. nfullentries(g) = nfullentries(h) /\ nsources(g) = nsources(h)
  BY DEF nfullentries, nsources
<1>2. /\ nfullentries(h) \in Nat /\ nsources(h) \in Nat
      /\ nfullentries(g) \in Nat /\ nsources(g) \in Nat
  BY Lengths, Zenon
<1>3. nfullentries(g) = nfullentries(h) + 0 /\ nsources(g) = nsources(h) + 0
  BY <1>1, <1>2
<1>4. Moves(h, g, 0, 0)
  BY <1>3, Zenon DEF Moves
<1>5. Shrinks(h, g)
  BY <1>4, MovesShrinks
<1> QED
  BY <1>4, <1>5

(* The count of blocks being copied out of a page, up and down. *)
LEMMA MoreSourceentries ==
  ASSUME NEW h \in SizeClassType, NEW p \in Page
  PROVE  LET g == [h EXCEPT !.sourceentries[p] = @ + 1]
         IN  g \in SizeClassType /\ Shrinks(h, g)
<1> DEFINE g == [h EXCEPT !.sourceentries[p] = @ + 1]
<1>1. [h.sourceentries EXCEPT ![p] = @ + 1] \in [Page -> Int]
  BY DEF SizeClassType
<1>2. g \in SizeClassType /\ g.ok = h.ok /\ g.nfull = h.nfull /\ g.source = h.source
  BY <1>1 DEF SizeClassType
<1> HIDE DEF g
<1>3. Shrinks(h, g)
  BY <1>2, Unmoved
<1> QED
  BY <1>2, <1>3 DEF g

LEMMA FewerSourceentries ==
  ASSUME NEW h \in SizeClassType, NEW p \in Page
  PROVE  LET g == [h EXCEPT !.sourceentries[p] = @ - 1]
         IN  g \in SizeClassType /\ Shrinks(h, g)
<1> DEFINE g == [h EXCEPT !.sourceentries[p] = @ - 1]
<1>1. [h.sourceentries EXCEPT ![p] = @ - 1] \in [Page -> Int]
  BY DEF SizeClassType
<1>2. g \in SizeClassType /\ g.ok = h.ok /\ g.nfull = h.nfull /\ g.source = h.source
  BY <1>1 DEF SizeClassType
<1> HIDE DEF g
<1>3. Shrinks(h, g)
  BY <1>2, Unmoved
<1> QED
  BY <1>2, <1>3 DEF g

LEMMA ShrinksReflexive ==
  ASSUME NEW h \in SizeClassType
  PROVE  Shrinks(h, h)
BY Unmoved

(* A copy out of a page that is over leaves no more not-full pages and     *)
(* sources than there were.                                                *)
LEMMA DoFreeSourceState ==
  ASSUME NEW h \in SizeClassType, NEW p \in Page
  PROVE  /\ do_free_source_state(h, p) \in SizeClassType
         /\ Shrinks(h, do_free_source_state(h, p))
<1>1. CASE h.sourceentries[p] # 0
  BY <1>1, ShrinksReflexive DEF do_free_source_state
<1>2. CASE h.sourceentries[p] = 0 /\ h.nr_used[p] = 0
  BY <1>2, EmptyingToFree DEF do_free_source_state
<1>3. CASE h.sourceentries[p] = 0 /\ h.nr_used[p] # 0
  BY <1>3, SourceToNfull DEF do_free_source_state
<1> QED
  BY <1>1, <1>2, <1>3

LEMMA ReleaseSourcePage ==
  ASSUME NEW h \in SizeClassType, NEW p \in Page
  PROVE  /\ release_source_page(h, p) \in SizeClassType
         /\ Shrinks(h, release_source_page(h, p))
<1> DEFINE f == [h EXCEPT !.sourceentries[p] = @ - 1]
           g == do_free_source_state(f, p)
<1>1. f \in SizeClassType /\ Shrinks(h, f)
  BY FewerSourceentries
<1> HIDE DEF f
<1>3. g \in SizeClassType /\ Shrinks(f, g)
  BY <1>1, DoFreeSourceState
<1> HIDE DEF g
<1>4. Shrinks(h, g)
  BY <1>1, <1>3, ShrinksTransitive
<1> QED
  BY <1>3, <1>4 DEF f, g, release_source_page

LEMMA ReleaseEmptyingPage ==
  ASSUME NEW h \in SizeClassType, NEW p \in Page
  PROVE  /\ release_emptying_page(h, p) \in SizeClassType
         /\ Shrinks(h, release_emptying_page(h, p))
<1> DEFINE f == [h EXCEPT !.sourceentries[p] = @ - 1]
           g == add_free_page(remove_page_from_emptying_list(f, p), p)
<1>1. f \in SizeClassType /\ Shrinks(h, f)
  BY FewerSourceentries
<1>2. release_emptying_page(h, p) = IF f.sourceentries[p] # 0 THEN f ELSE g
  BY DEF release_emptying_page
<1> HIDE DEF f
<1>3. g \in SizeClassType /\ Shrinks(f, g)
  BY <1>1, EmptyingToFree
<1> HIDE DEF g
<1>4. Shrinks(h, g)
  BY <1>1, <1>3, ShrinksTransitive
<1> QED
  BY <1>1, <1>2, <1>3, <1>4

-----------------------------------------------------------------------------
(* Freeing a block of a page that is not full makes no page not-full.      *)
LEMMA DoFreeNfullState ==
  ASSUME NEW h \in SizeClassType, NEW p \in Page, NEW i \in Index
  PROVE  /\ do_free_nfull_state(h, p, i) \in SizeClassType
         /\ Shrinks(h, do_free_nfull_state(h, p, i))
<1> DEFINE f == free_used_page_block(h, p, i)
           g == add_free_page(remove_page_from_nfull_list(f, p), p)
           k == add_page_to_emptying_list(remove_page_from_source_list(f, p), p)
<1>1. f \in SizeClassType /\ Moves(h, f, 0, 0)
  BY FreeUsedBlock
<1>2. do_free_nfull_state(h, p, i) =
        IF h.nr_used[p] # 1 THEN f ELSE IF h.sourceentries[p] = 0 THEN g ELSE k
  BY DEF do_free_nfull_state
<1> HIDE DEF f
<1>3. Shrinks(h, f)
  BY <1>1, MovesShrinks
<1>4. g \in SizeClassType /\ Shrinks(f, g)
  BY <1>1, NfullToFree
<1>5. k \in SizeClassType /\ Shrinks(f, k)
  BY <1>1, SourceToEmptying
<1> HIDE DEF g, k
<1>6. Shrinks(h, g) /\ Shrinks(h, k)
  BY <1>1, <1>3, <1>4, <1>5, ShrinksTransitive
<1> QED
  BY <1>1, <1>2, <1>3, <1>4, <1>5, <1>6

(* An assertion on its own. *)
LEMMA Assertion ==
  ASSUME NEW h \in SizeClassType, NEW c \in BOOLEAN
  PROVE  expect(h, c, h) \in SizeClassType /\ Shrinks(h, expect(h, c, h))
<1> DEFINE g == expect(h, c, h)
<1>1. nfullentries(h) = nfullentries(h) + 0 /\ nsources(h) = nsources(h) + 0
  BY Lengths
<1>2. g \in SizeClassType /\ Moves(h, g, 0, 0)
  BY <1>1, Expect
<1> HIDE DEF g
<1>3. Shrinks(h, g)
  BY <1>2, MovesShrinks
<1> QED
  BY <1>2, <1>3 DEF g

-----------------------------------------------------------------------------
(* The bound on fragmentation, and a bound with room for one more page.    *)
Bounded(h) == h.ok => /\ nsources(h) <= 1
                      /\ nfullentries(h) + nsources(h) <= PartialCompactionBound + 1
Roomy(h) == h.ok => /\ nsources(h) <= 1
                    /\ nfullentries(h) + nsources(h) <= PartialCompactionBound

LEMMA ShrinksBounded ==
  ASSUME NEW h \in SizeClassType, NEW g \in SizeClassType, Shrinks(h, g), Bounded(h)
  PROVE  Bounded(g)
<1>1. /\ nfullentries(h) \in Nat /\ nsources(h) \in Nat
      /\ nfullentries(g) \in Nat /\ nsources(g) \in Nat
  BY Lengths, Zenon
<1>2. SUFFICES ASSUME g.ok
               PROVE  /\ nsources(g) <= 1
                      /\ nfullentries(g) + nsources(g) <= PartialCompactionBound + 1
  BY Zenon DEF Bounded
<1>3. /\ h.ok
      /\ nfullentries(g) + nsources(g) <= nfullentries(h) + nsources(h)
      /\ nsources(h) <= 1 => nsources(g) <= 1
  BY <1>2, Zenon DEF Shrinks
<1>4. nsources(h) <= 1 /\ nfullentries(h) + nsources(h) <= PartialCompactionBound + 1
  BY <1>3, Zenon DEF Bounded
<1> QED
  BY <1>1, <1>3, <1>4, BoundAssumption

LEMMA ShrinksRoomy ==
  ASSUME NEW h \in SizeClassType, NEW g \in SizeClassType, Shrinks(h, g), Roomy(h)
  PROVE  Roomy(g)
<1>1. /\ nfullentries(h) \in Nat /\ nsources(h) \in Nat
      /\ nfullentries(g) \in Nat /\ nsources(g) \in Nat
  BY Lengths, Zenon
<1>2. SUFFICES ASSUME g.ok
               PROVE  /\ nsources(g) <= 1
                      /\ nfullentries(g) + nsources(g) <= PartialCompactionBound
  BY Zenon DEF Roomy
<1>3. /\ h.ok
      /\ nfullentries(g) + nsources(g) <= nfullentries(h) + nsources(h)
      /\ nsources(h) <= 1 => nsources(g) <= 1
  BY <1>2, Zenon DEF Shrinks
<1>4. nsources(h) <= 1 /\ nfullentries(h) + nsources(h) <= PartialCompactionBound
  BY <1>3, Zenon DEF Roomy
<1> QED
  BY <1>1, <1>3, <1>4, BoundAssumption

LEMMA RoomyBounded ==
  ASSUME NEW h \in SizeClassType, Roomy(h)
  PROVE  Bounded(h)
<1>1. nfullentries(h) \in Nat /\ nsources(h) \in Nat
  BY Lengths, Zenon
<1>2. SUFFICES ASSUME h.ok
               PROVE  /\ nsources(h) <= 1
                      /\ nfullentries(h) + nsources(h) <= PartialCompactionBound + 1
  BY Zenon DEF Bounded
<1>3. nsources(h) <= 1 /\ nfullentries(h) + nsources(h) <= PartialCompactionBound
  BY <1>2, Zenon DEF Roomy
<1> QED
  BY <1>1, <1>3, BoundAssumption

(* One page more on the not-full list uses the room up. *)
LEMMA AddNfullBounded ==
  ASSUME NEW h \in SizeClassType, NEW p \in Page, Roomy(h)
  PROVE  /\ add_page_to_nfull_list(h, p) \in SizeClassType
         /\ Bounded(add_page_to_nfull_list(h, p))
<1> DEFINE g == add_page_to_nfull_list(h, p)
<1>1. g \in SizeClassType /\ Moves(h, g, 1, 0)
  BY AddNfull
<1> HIDE DEF g
<1>2. /\ nfullentries(h) \in Nat /\ nsources(h) \in Nat
  BY Lengths, Zenon
<1>3. ASSUME g.ok
      PROVE  nsources(g) <= 1 /\ nfullentries(g) + nsources(g) <= PartialCompactionBound + 1
  <2>1. h.ok /\ nfullentries(g) = nfullentries(h) + 1 /\ nsources(g) = nsources(h) + 0
    BY <1>1, <1>3, Zenon DEF Moves
  <2>2. nsources(h) <= 1 /\ nfullentries(h) + nsources(h) <= PartialCompactionBound
    BY <2>1, Zenon DEF Roomy
  <2> QED
    BY <1>2, <2>1, <2>2, BoundAssumption
<1>4. Bounded(g)
  BY <1>3, Zenon DEF Bounded
<1> QED
  BY <1>1, <1>4 DEF g

(* Where there is room: in a full state, below the bound, and when         *)
(* allocation finds no page to take a block from.                          *)
LEMMA FullStateRoomy ==
  ASSUME NEW h \in SizeClassType, in_full_state(h)
  PROVE  Roomy(h)
BY BoundAssumption DEF in_full_state, Roomy, nfullentries, nsources

LEMMA BelowBoundRoomy ==
  ASSUME NEW h \in SizeClassType, Bounded(h), valid_nfull_pages_ratio(h, 1)
  PROVE  Roomy(h)
<1>1. nfullentries(h) \in Nat /\ nsources(h) \in Nat
  BY Lengths, Zenon
<1>2. nfullentries(h) + 1 <= PartialCompactionBound
  BY Zenon DEF valid_nfull_pages_ratio
<1>3. ASSUME h.ok
      PROVE  nsources(h) <= 1 /\ nfullentries(h) + nsources(h) <= PartialCompactionBound
  <2>1. nsources(h) <= 1
    BY <1>3, Zenon DEF Bounded
  <2> QED
    BY <1>1, <1>2, <2>1, BoundAssumption
<1> QED
  BY <1>3, Zenon DEF Roomy

LEMMA EmptyNfullRoomy ==
  ASSUME NEW h \in SizeClassType, Bounded(h), h.nfull = <<>>
  PROVE  Roomy(h)
<1>1. nfullentries(h) = 0 /\ nsources(h) \in Nat
  BY Lengths DEF nfullentries
<1>2. ASSUME h.ok
      PROVE  nsources(h) <= 1 /\ nfullentries(h) + nsources(h) <= PartialCompactionBound
  <2>1. nsources(h) <= 1
    BY <1>2, Zenon DEF Bounded
  <2> QED
    BY <1>1, <2>1, BoundAssumption
<1> QED
  BY <1>2, Zenon DEF Roomy

(* Freeing a block of a full page can make it not-full: it needs room.     *)
LEMMA DoFreeFullState ==
  ASSUME NEW h \in SizeClassType, NEW p \in Page, NEW i \in Index
  PROVE  /\ do_free_full_state(h, p, i) \in SizeClassType
         /\ Roomy(h) => Bounded(do_free_full_state(h, p, i))
<1> DEFINE e == free_used_page_block(h, p, i)
           f == remove_page_from_full_list(e, p)
           g == add_free_page(f, p)
           k == add_page_to_nfull_list(f, p)
<1>1. e \in SizeClassType /\ Moves(h, e, 0, 0)
  BY FreeUsedBlock
<1>2. do_free_full_state(h, p, i) = IF f.nr_used[p] = 0 THEN g ELSE k
  BY DEF do_free_full_state
<1> HIDE DEF e
<1>3. f \in SizeClassType /\ Moves(e, f, 0, 0)
  BY <1>1, RemoveFull
<1> HIDE DEF f
<1>4. g \in SizeClassType /\ Moves(f, g, 0, 0)
  BY <1>3, AddFree
<1>5. k \in SizeClassType
  BY <1>3, AddNfull
<1> HIDE DEF g
<1>6. ASSUME Roomy(h) PROVE Bounded(g) /\ Bounded(k)
  <2>1. Shrinks(h, e) /\ Shrinks(e, f) /\ Shrinks(f, g)
    BY <1>1, <1>3, <1>4, MovesShrinks
  <2>2. Roomy(e)
    BY <1>1, <1>6, <2>1, ShrinksRoomy
  <2>3. Roomy(f)
    BY <1>1, <1>3, <2>1, <2>2, ShrinksRoomy
  <2>4. Bounded(g)
    BY <1>3, <1>4, <2>1, <2>3, RoomyBounded, ShrinksBounded
  <2>5. Bounded(k)
    BY <1>3, <2>3, AddNfullBounded
  <2> QED
    BY <2>4, <2>5
<1> HIDE DEF k
<1> QED
  BY <1>2, <1>4, <1>5, <1>6

LEMMA DoFree ==
  ASSUME NEW h \in SizeClassType, NEW p \in Page, NEW i \in Index
  PROVE  /\ do_free(h, p, i) \in SizeClassType
         /\ Roomy(h) => Bounded(do_free(h, p, i))
<1>1. /\ do_free_nfull_state(h, p, i) \in SizeClassType
      /\ Roomy(h) => Bounded(do_free_nfull_state(h, p, i))
  BY DoFreeNfullState, RoomyBounded, ShrinksBounded
<1> QED
  BY <1>1, DoFreeFullState DEF do_free

-----------------------------------------------------------------------------
(* Compaction takes a block out of the source page: the first source page  *)
(* leaves the not-full list, and there is only one.                        *)
LEMMA SourcePage ==
  ASSUME NEW h \in SizeClassType, h.source # <<>> \/ h.nfull # <<>>
  PROVE  source_page(h) \in Page
BY DEF source_page, source_begun, SizeClassType

LEMMA SourceFound ==
  ASSUME NEW h \in SizeClassType, NEW g, g = get_source_page(h), g.ok
  PROVE  h.source # <<>> \/ h.nfull # <<>>
<1> SUFFICES ASSUME ~(h.source # <<>> \/ h.nfull # <<>>) PROVE FALSE
  OBVIOUS
<1>1. g = [h EXCEPT !.ok = FALSE]
  BY Zenon DEF get_source_page, expect
<1>2. [h EXCEPT !.ok = FALSE].ok = FALSE
  BY DEF SizeClassType
<1> QED
  BY ONLY <1>1, <1>2, g.ok

LEMMA Taken ==
  ASSUME NEW h \in SizeClassType, NEW p \in Page
  PROVE  LET g == [h EXCEPT !.nr_used[p] = @ - 1]
         IN  g \in SizeClassType /\ Shrinks(h, g) /\ g.source = h.source
<1> DEFINE g == [h EXCEPT !.nr_used[p] = @ - 1]
<1>1. [h.nr_used EXCEPT ![p] = @ - 1] \in [Page -> Int]
  BY DEF SizeClassType
<1>2. g \in SizeClassType /\ g.ok = h.ok /\ g.nfull = h.nfull /\ g.source = h.source
  BY <1>1 DEF SizeClassType
<1> HIDE DEF g
<1>3. Shrinks(h, g)
  BY <1>2, Unmoved
<1> QED
  BY <1>2, <1>3 DEF g

LEMMA GetSourcePage ==
  ASSUME NEW h \in SizeClassType
  PROVE  /\ get_source_page(h) \in SizeClassType
         /\ Shrinks(h, get_source_page(h))
<1> DEFINE c == h.source # <<>> \/ h.nfull # <<>>
           p == source_page(h)
           taken == [h EXCEPT !.nr_used[p] = @ - 1]
           last == taken.nr_used[p] = 0
           m1 == add_page_to_emptying_list(remove_page_from_source_list(taken, p), p)
           out == remove_page_from_nfull_list(taken, p)
           m2 == add_page_to_emptying_list(out, p)
           m3 == add_page_to_source_list(out, p)
           moved == IF source_begun(h) THEN IF last THEN m1 ELSE taken
                    ELSE IF last THEN m2 ELSE m3
           g == [moved EXCEPT !.sourceentries[p] = @ + 1]
<1>1. get_source_page(h) = expect(h, c, g)
  BY DEF get_source_page
<1>2. ASSUME c PROVE g \in SizeClassType /\ Shrinks(h, g)
  <2>1. p \in Page
    BY <1>2, SourcePage
  <2>2. taken \in SizeClassType /\ Shrinks(h, taken) /\ taken.source = h.source
    BY <2>1, Taken
  <2> HIDE DEF p, c
  <2> HIDE DEF taken
  <2>3. m1 \in SizeClassType /\ Shrinks(taken, m1)
    BY <2>1, <2>2, SourceToEmptying
  <2>4. m2 \in SizeClassType /\ Shrinks(taken, m2)
    BY <2>1, <2>2, NfullToEmptying
  <2>5. h.source = <<>> => m3 \in SizeClassType /\ Shrinks(taken, m3)
    <3>1. h.source = <<>> => nsources(taken) = 0
      BY <2>2 DEF nsources
    <3> QED
      BY <2>1, <2>2, <3>1, NfullToSource
  <2> HIDE DEF m1, m2, m3, last
  <2>6. moved \in SizeClassType /\ Shrinks(h, moved)
    <3>1. Shrinks(h, m1) /\ Shrinks(h, m2)
      BY <2>2, <2>3, <2>4, ShrinksTransitive
    <3>2. h.source = <<>> => Shrinks(h, m3)
      BY <2>2, <2>5, ShrinksTransitive
    <3> QED
      BY <2>2, <2>3, <2>4, <2>5, <3>1, <3>2 DEF source_begun
  <2> HIDE DEF moved
  <2>7. g \in SizeClassType /\ Shrinks(moved, g)
    BY <2>1, <2>6, MoreSourceentries
  <2> HIDE DEF g
  <2> QED
    BY <2>6, <2>7, ShrinksTransitive
<1> HIDE DEF c, g
<1>3. CASE h.ok /\ c
  BY <1>1, <1>2, <1>3 DEF expect
<1>4. CASE ~(h.ok /\ c)
  <2> DEFINE f == [h EXCEPT !.ok = FALSE]
  <2>1. get_source_page(h) = f
    BY <1>1, <1>4 DEF expect
  <2>2. f \in SizeClassType /\ ~f.ok
    BY DEF SizeClassType
  <2>3. Shrinks(h, f)
    <3> HIDE DEF f
    <3> QED BY <2>2, Zenon DEF Shrinks
  <2> QED
    BY <2>1, <2>2, <2>3
<1> QED
  BY <1>3, <1>4

(* A page that allocation fills leaves the not-full list. *)
LEMMA NfullToFull ==
  ASSUME NEW h \in SizeClassType, NEW p \in Page
  PROVE  LET g == add_page_to_full_list(remove_page_from_nfull_list(h, p), p)
         IN  g \in SizeClassType /\ Shrinks(h, g)
<1> DEFINE f == remove_page_from_nfull_list(h, p)
           g == add_page_to_full_list(f, p)
<1>1. f \in SizeClassType /\ Moves(h, f, -1, 0)
  BY RemoveNfull
<1> HIDE DEF f
<1>2. g \in SizeClassType /\ Moves(f, g, 0, 0)
  BY <1>1, AddFull
<1> HIDE DEF g
<1>3. Moves(h, g, -1 + 0, 0 + 0)
  BY <1>1, <1>2, Compose
<1>4. Shrinks(h, g)
  BY <1>2, <1>3, MovesShrinks
<1> QED
  BY <1>2, <1>4 DEF f, g

(* A new page that allocation opens is the one not-full page of its class. *)
LEMMA OpenPage ==
  ASSUME NEW h \in SizeClassType, NEW p \in Page, Bounded(h), h.nfull = <<>>
  PROVE  LET g == add_page_to_nfull_list(get_free_page(h, p), p)
         IN  g \in SizeClassType /\ Bounded(g)
<1> DEFINE f == get_free_page(h, p)
<1>1. f \in SizeClassType /\ Moves(h, f, 0, 0)
  BY GetFree
<1> HIDE DEF f
<1>2. Shrinks(h, f)
  BY <1>1, MovesShrinks
<1>3. Roomy(f)
  BY <1>1, <1>2, EmptyNfullRoomy, ShrinksRoomy
<1> QED
  BY <1>1, <1>3, AddNfullBounded DEF f

-----------------------------------------------------------------------------
(* Each list has the pages whose flag says so, each once.                  *)
ListOf(s, F) ==
  /\ s \in Seq(Page)
  /\ \A i, k \in 1 .. Len(s) : s[i] = s[k] => i = k
  /\ \A p \in Page : p \in F <=> on_list(s, p)

flagged(h, f) == {p \in Page : h.list_flags[p] = f}
Lists(h) == ListOf(h.nfull, flagged(h, "nfull")) /\ ListOf(h.source, flagged(h, "source"))

(* A page between two critical sections: its flag f, its used blocks u, n  *)
(* of them counted, and s blocks being copied.                             *)
StateOf(f, u, n, s) ==
  /\ n = Cardinality(u)
  /\ \/ f = "free" /\ n = 0 /\ s = 0
     \/ f = "nfull" /\ n \in 1 .. PageBlocks - 1 /\ s = 0
     \/ f = "full" /\ n = PageBlocks /\ s = 0
     \/ f = "source" /\ n \in 1 .. PageBlocks - 1 /\ s > 0
     \/ f = "emptying" /\ n = 0 /\ s > 0

WellFormed(h) ==
  /\ h \in SizeClassType
  /\ h.ok
  /\ Lists(h)
  /\ \A p \in Page : StateOf(h.list_flags[p], h.used[p], h.nr_used[p], h.sourceentries[p])

-----------------------------------------------------------------------------
(* Lists of pages.                                                         *)
LEMMA ListOfAdd ==
  ASSUME NEW F, NEW s, ListOf(s, F), NEW p \in Page, p \notin F
  PROVE  ListOf(list_add(s, p), F \cup {p})
<1> DEFINE r == list_add(s, p)
<1>1. s \in Seq(Page) /\ Len(s) \in Nat
  BY DEF ListOf
<1>2. /\ r \in Seq(Page) /\ Len(r) = Len(s) + 1
      /\ r[1] = p
      /\ \A i \in 2 .. Len(s) + 1 : r[i] = s[i - 1]
  BY <1>1 DEF list_add
<1> HIDE DEF r
<1>3. \A i \in 1 .. Len(s) : s[i] # p
  BY DEF ListOf, on_list
<1>4. ASSUME NEW i \in 1 .. Len(r), NEW k \in 1 .. Len(r), r[i] = r[k]
      PROVE  i = k
  <2>1. CASE i = 1 \/ k = 1
    BY <1>1, <1>2, <1>3, <1>4, <2>1
  <2>2. CASE i # 1 /\ k # 1
    <3>1. i - 1 \in 1 .. Len(s) /\ k - 1 \in 1 .. Len(s) /\ s[i - 1] = s[k - 1]
      BY <1>1, <1>2, <1>4, <2>2
    <3> QED
      BY <1>1, <3>1 DEF ListOf
  <2> QED
    BY <2>1, <2>2
<1>5. ASSUME NEW y \in Page
      PROVE  y \in F \cup {p} <=> on_list(r, y)
  <2>1. ASSUME on_list(r, y) PROVE y \in F \cup {p}
    <3>1. PICK i \in 1 .. Len(r) : r[i] = y
      BY <2>1 DEF on_list
    <3>2. CASE i = 1
      BY <1>2, <3>1, <3>2
    <3>3. CASE i # 1
      <4>1. i - 1 \in 1 .. Len(s) /\ s[i - 1] = y
        BY <1>1, <1>2, <3>1, <3>3
      <4> QED
        BY <4>1 DEF ListOf, on_list
    <3> QED
      BY <3>2, <3>3
  <2>2. ASSUME y \in F PROVE on_list(r, y)
    <3>1. PICK i \in 1 .. Len(s) : s[i] = y
      BY <2>2 DEF ListOf, on_list
    <3>2. i + 1 \in 1 .. Len(r) /\ r[i + 1] = y
      BY <1>1, <1>2, <3>1
    <3> QED
      BY <3>2 DEF on_list
  <2>3. on_list(r, p)
    BY <1>1, <1>2 DEF on_list
  <2> QED
    BY <2>1, <2>2, <2>3
<1> QED
  BY <1>2, <1>4, <1>5 DEF ListOf, r

LEMMA Joined ==
  ASSUME NEW u \in Seq(Page), NEW v \in Seq(Page)
  PROVE  /\ u \o v \in Seq(Page) /\ Len(u \o v) = Len(u) + Len(v)
         /\ \A k \in 1 .. Len(u) : (u \o v)[k] = u[k]
         /\ \A k \in Len(u) + 1 .. Len(u) + Len(v) : (u \o v)[k] = v[k - Len(u)]
OBVIOUS

LEMMA ListOfDel ==
  ASSUME NEW F, NEW s, ListOf(s, F), NEW p \in Page, p \in F
  PROVE  /\ on_list(s, p)
         /\ ListOf(list_del(s, p), F \ {p})
<1> DEFINE i == CHOOSE j \in 1 .. Len(s) : s[j] = p
           r == list_del(s, p)
<1>1. s \in Seq(Page) /\ Len(s) \in Nat /\ on_list(s, p)
  BY DEF ListOf
<1>2. i \in 1 .. Len(s) /\ s[i] = p
  BY <1>1 DEF on_list
<1>3. r = SubSeq(s, 1, i - 1) \o SubSeq(s, i + 1, Len(s))
  BY DEF list_del, RemoveAt
<1> HIDE DEF i, r
<1> DEFINE before == SubSeq(s, 1, i - 1)
           after  == SubSeq(s, i + 1, Len(s))
<1>4. /\ before \in Seq(Page) /\ Len(before) = i - 1
      /\ \A k \in 1 .. i - 1 : before[k] = s[k]
  BY <1>1, <1>2
<1>5. /\ after \in Seq(Page) /\ Len(after) = Len(s) - i
      /\ \A k \in 1 .. Len(s) - i : after[k] = s[k + i]
  BY <1>1, <1>2
<1> HIDE DEF before, after
<1>6. /\ r \in Seq(Page) /\ Len(r) = Len(s) - 1
      /\ \A k \in 1 .. i - 1 : r[k] = s[k]
      /\ \A k \in i .. Len(s) - 1 : r[k] = s[k + 1]
  <2>1. r = before \o after
    BY <1>3 DEF before, after
  <2>2. r \in Seq(Page) /\ Len(r) = Len(before) + Len(after)
    BY ONLY <1>4, <1>5, <2>1, Joined, Zenon
  <2>3. /\ \A k \in 1 .. Len(before) : r[k] = before[k]
        /\ \A k \in Len(before) + 1 .. Len(before) + Len(after) : r[k] = after[k - Len(before)]
    BY ONLY <1>4, <1>5, <2>1, Joined, Zenon
  <2>4. Len(r) = Len(s) - 1
    BY <1>1, <1>2, <1>4, <1>5, <2>2
  <2>5. ASSUME NEW k \in i .. Len(s) - 1 PROVE r[k] = s[k + 1]
    <3>1. k \in Len(before) + 1 .. Len(before) + Len(after) /\ k - Len(before) \in 1 .. Len(s) - i
      <4>1. Len(s) \in Nat /\ i \in 1 .. Len(s) /\ Len(before) = i - 1 /\ Len(after) = Len(s) - i
        BY <1>1, <1>2, <1>4, <1>5
      <4> QED
        BY ONLY <4>1, k \in i .. Len(s) - 1
    <3>2. r[k] = after[k - Len(before)] /\ after[k - Len(before)] = s[(k - Len(before)) + i]
      BY <1>5, <2>3, <3>1
    <3>3. (k - Len(before)) + i = k + 1
      BY <1>1, <1>2, <1>4
    <3> QED
      BY <3>2, <3>3
  <2> QED
    BY <1>4, <2>2, <2>3, <2>4, <2>5
<1>7. ASSUME NEW k \in 1 .. Len(r)
      PROVE  \E n \in 1 .. Len(s) : n # i /\ r[k] = s[n] /\ n = IF k < i THEN k ELSE k + 1
  BY <1>1, <1>2, <1>6
<1>8. ASSUME NEW k \in 1 .. Len(r), NEW l \in 1 .. Len(r), r[k] = r[l]
      PROVE  k = l
  <2>1. PICK n \in 1 .. Len(s) : n # i /\ r[k] = s[n] /\ n = IF k < i THEN k ELSE k + 1
    BY <1>7
  <2>2. PICK o \in 1 .. Len(s) : o # i /\ r[l] = s[o] /\ o = IF l < i THEN l ELSE l + 1
    BY <1>7
  <2>3. n = o
    BY <1>8, <2>1, <2>2 DEF ListOf
  <2> QED
    BY <1>1, <1>2, <1>6, <2>1, <2>2, <2>3
<1>9. ASSUME NEW y \in Page
      PROVE  y \in F \ {p} <=> on_list(r, y)
  <2>1. ASSUME on_list(r, y) PROVE y \in F \ {p}
    <3>1. PICK k \in 1 .. Len(r) : r[k] = y
      BY <2>1 DEF on_list
    <3>2. PICK n \in 1 .. Len(s) : n # i /\ r[k] = s[n]
      BY <1>7
    <3>3. s[n] # s[i]
      BY <1>2, <3>2 DEF ListOf
    <3> QED
      BY <1>2, <3>1, <3>2, <3>3 DEF ListOf, on_list
  <2>2. ASSUME y \in F \ {p} PROVE on_list(r, y)
    <3>1. PICK n \in 1 .. Len(s) : s[n] = y
      BY <2>2 DEF ListOf, on_list
    <3>2. n # i
      BY <1>2, <2>2, <3>1
    <3>3. \E k \in 1 .. Len(r) : r[k] = s[n]
      <4>1. CASE n < i
        BY <1>1, <1>2, <1>6, <4>1
      <4>2. CASE n > i
        <5>1. n - 1 \in i .. Len(s) - 1 /\ n - 1 \in 1 .. Len(r) /\ (n - 1) + 1 = n
          BY <1>1, <1>2, <1>6, <4>2
        <5> QED
          BY <1>6, <5>1
      <4> QED
        BY <1>2, <3>2, <4>1, <4>2
    <3> QED
      BY <3>1, <3>3 DEF on_list
  <2> QED
    BY <2>1, <2>2
<1> QED
  BY <1>1, <1>6, <1>8, <1>9 DEF ListOf, r

-----------------------------------------------------------------------------
(* g is h with page p moved to the list of flag f.                         *)
Relinked(h, g, p, f) ==
  /\ g \in SizeClassType /\ g.ok /\ Lists(g)
  /\ g.list_flags = [h.list_flags EXCEPT ![p] = f]
  /\ g.used = h.used /\ g.nr_used = h.nr_used /\ g.sourceentries = h.sourceentries

LEMMA FlaggedAfter ==
  ASSUME NEW h \in SizeClassType, NEW g, NEW p \in Page, NEW f,
         g.list_flags = [h.list_flags EXCEPT ![p] = f]
  PROVE  \A e : flagged(g, e) = IF e = f THEN flagged(h, e) \cup {p} ELSE flagged(h, e) \ {p}
BY DEF flagged, SizeClassType

LEMMA AddNfullLink ==
  ASSUME NEW h \in SizeClassType, h.ok, Lists(h), NEW p \in Page, h.list_flags[p] = "none"
  PROVE  Relinked(h, add_page_to_nfull_list(h, p), p, "nfull")
<1> DEFINE g == [h EXCEPT !.list_flags[p] = "nfull", !.nfull = list_add(@, p)]
<1>1. add_page_to_nfull_list(h, p) = g
  BY DEF add_page_to_nfull_list, expect
<1>2. g \in SizeClassType
  BY <1>1, AddNfull
<1>3. /\ g.ok /\ g.list_flags = [h.list_flags EXCEPT ![p] = "nfull"]
      /\ g.used = h.used /\ g.nr_used = h.nr_used /\ g.sourceentries = h.sourceentries
      /\ g.nfull = list_add(h.nfull, p) /\ g.source = h.source
  BY DEF SizeClassType
<1> HIDE DEF g
<1>4. p \notin flagged(h, "nfull") /\ p \notin flagged(h, "source")
  BY DEF flagged
<1>5. Lists(g)
  <2>1. /\ flagged(g, "nfull") = flagged(h, "nfull") \cup {p}
        /\ flagged(g, "source") = flagged(h, "source")
    <3>1. \A e : flagged(g, e) = IF e = "nfull" THEN flagged(h, e) \cup {p} ELSE flagged(h, e) \ {p}
      BY ONLY h \in SizeClassType, p \in Page, <1>3, FlaggedAfter
    <3> QED BY ONLY <1>4, <3>1
  <2> QED
    BY <1>3, <1>4, <2>1, ListOfAdd DEF Lists
<1> QED
  BY <1>1, <1>2, <1>3, <1>5 DEF Relinked

LEMMA AddSourceLink ==
  ASSUME NEW h \in SizeClassType, h.ok, Lists(h), NEW p \in Page, h.list_flags[p] = "none"
  PROVE  Relinked(h, add_page_to_source_list(h, p), p, "source")
<1> DEFINE g == [h EXCEPT !.list_flags[p] = "source", !.source = list_add(@, p)]
<1>1. add_page_to_source_list(h, p) = g
  BY DEF add_page_to_source_list, expect
<1>2. g \in SizeClassType
  BY <1>1, AddSource
<1>3. /\ g.ok /\ g.list_flags = [h.list_flags EXCEPT ![p] = "source"]
      /\ g.used = h.used /\ g.nr_used = h.nr_used /\ g.sourceentries = h.sourceentries
      /\ g.nfull = h.nfull /\ g.source = list_add(h.source, p)
  BY DEF SizeClassType
<1> HIDE DEF g
<1>4. p \notin flagged(h, "nfull") /\ p \notin flagged(h, "source")
  BY DEF flagged
<1>5. Lists(g)
  <2>1. /\ flagged(g, "source") = flagged(h, "source") \cup {p}
        /\ flagged(g, "nfull") = flagged(h, "nfull")
    <3>1. \A e : flagged(g, e) = IF e = "source" THEN flagged(h, e) \cup {p} ELSE flagged(h, e) \ {p}
      BY ONLY h \in SizeClassType, p \in Page, <1>3, FlaggedAfter
    <3> QED BY ONLY <1>4, <3>1
  <2> QED
    BY <1>3, <1>4, <2>1, ListOfAdd DEF Lists
<1> QED
  BY <1>1, <1>2, <1>3, <1>5 DEF Relinked

LEMMA AddFullLink ==
  ASSUME NEW h \in SizeClassType, h.ok, Lists(h), NEW p \in Page, h.list_flags[p] = "none"
  PROVE  Relinked(h, add_page_to_full_list(h, p), p, "full")
<1> DEFINE g == [h EXCEPT !.list_flags[p] = "full"]
<1>1. add_page_to_full_list(h, p) = g
  BY DEF add_page_to_full_list, expect
<1>2. g \in SizeClassType
  BY <1>1, AddFull
<1>3. /\ g.ok /\ g.list_flags = [h.list_flags EXCEPT ![p] = "full"]
      /\ g.used = h.used /\ g.nr_used = h.nr_used /\ g.sourceentries = h.sourceentries
      /\ g.nfull = h.nfull /\ g.source = h.source
  BY DEF SizeClassType
<1> HIDE DEF g
<1>4. p \notin flagged(h, "nfull") /\ p \notin flagged(h, "source")
  BY DEF flagged
<1>5. Lists(g)
  <2>1. /\ flagged(g, "nfull") = flagged(h, "nfull")
        /\ flagged(g, "source") = flagged(h, "source")
    BY <1>3 DEF flagged, SizeClassType
  <2> QED
    BY <1>3, <2>1 DEF Lists
<1> QED
  BY <1>1, <1>2, <1>3, <1>5 DEF Relinked

LEMMA AddEmptyingLink ==
  ASSUME NEW h \in SizeClassType, h.ok, Lists(h), NEW p \in Page, h.list_flags[p] = "none"
  PROVE  Relinked(h, add_page_to_emptying_list(h, p), p, "emptying")
<1> DEFINE g == [h EXCEPT !.list_flags[p] = "emptying"]
<1>1. add_page_to_emptying_list(h, p) = g
  BY DEF add_page_to_emptying_list, expect
<1>2. g \in SizeClassType
  BY <1>1, AddEmptying
<1>3. /\ g.ok /\ g.list_flags = [h.list_flags EXCEPT ![p] = "emptying"]
      /\ g.used = h.used /\ g.nr_used = h.nr_used /\ g.sourceentries = h.sourceentries
      /\ g.nfull = h.nfull /\ g.source = h.source
  BY DEF SizeClassType
<1> HIDE DEF g
<1>4. p \notin flagged(h, "nfull") /\ p \notin flagged(h, "source")
  BY DEF flagged
<1>5. Lists(g)
  <2>1. /\ flagged(g, "nfull") = flagged(h, "nfull")
        /\ flagged(g, "source") = flagged(h, "source")
    BY <1>3 DEF flagged, SizeClassType
  <2> QED
    BY <1>3, <2>1 DEF Lists
<1> QED
  BY <1>1, <1>2, <1>3, <1>5 DEF Relinked

LEMMA AddFreeLink ==
  ASSUME NEW h \in SizeClassType, h.ok, Lists(h), NEW p \in Page, h.list_flags[p] = "none"
  PROVE  Relinked(h, add_free_page(h, p), p, "free")
<1> DEFINE g == [h EXCEPT !.list_flags[p] = "free"]
<1>1. add_free_page(h, p) = g
  BY DEF add_free_page, expect
<1>2. g \in SizeClassType
  BY <1>1, AddFree
<1>3. /\ g.ok /\ g.list_flags = [h.list_flags EXCEPT ![p] = "free"]
      /\ g.used = h.used /\ g.nr_used = h.nr_used /\ g.sourceentries = h.sourceentries
      /\ g.nfull = h.nfull /\ g.source = h.source
  BY DEF SizeClassType
<1> HIDE DEF g
<1>4. p \notin flagged(h, "nfull") /\ p \notin flagged(h, "source")
  BY DEF flagged
<1>5. Lists(g)
  <2>1. /\ flagged(g, "nfull") = flagged(h, "nfull")
        /\ flagged(g, "source") = flagged(h, "source")
    BY <1>3 DEF flagged, SizeClassType
  <2> QED
    BY <1>3, <2>1 DEF Lists
<1> QED
  BY <1>1, <1>2, <1>3, <1>5 DEF Relinked

LEMMA RemoveNfullLink ==
  ASSUME NEW h \in SizeClassType, h.ok, Lists(h), NEW p \in Page, h.list_flags[p] = "nfull"
  PROVE  Relinked(h, remove_page_from_nfull_list(h, p), p, "none")
<1> DEFINE g == [h EXCEPT !.list_flags[p] = "none", !.nfull = list_del(@, p)]
<1>0. p \in flagged(h, "nfull") /\ p \notin flagged(h, "source") /\ on_list(h.nfull, p)
  <2>1. p \in flagged(h, "nfull") /\ p \notin flagged(h, "source")
    BY DEF flagged
  <2> QED
    BY <2>1, ListOfDel DEF Lists
<1>1. remove_page_from_nfull_list(h, p) = g
  BY <1>0 DEF remove_page_from_nfull_list, expect
<1>2. g \in SizeClassType
  BY <1>1, RemoveNfull
<1>3. /\ g.ok /\ g.list_flags = [h.list_flags EXCEPT ![p] = "none"]
      /\ g.used = h.used /\ g.nr_used = h.nr_used /\ g.sourceentries = h.sourceentries
      /\ g.nfull = list_del(h.nfull, p) /\ g.source = h.source
  <2>1. g.ok /\ g.list_flags = [h.list_flags EXCEPT ![p] = "none"]
    BY DEF SizeClassType
  <2>2. g.used = h.used /\ g.nr_used = h.nr_used /\ g.sourceentries = h.sourceentries
    BY DEF SizeClassType
  <2>3. g.nfull = list_del(h.nfull, p) /\ g.source = h.source
    BY DEF SizeClassType
  <2> QED
    BY ONLY <2>1, <2>2, <2>3
<1> HIDE DEF g
<1>5. Lists(g)
  <2>1. /\ flagged(g, "nfull") = flagged(h, "nfull") \ {p}
        /\ flagged(g, "source") = flagged(h, "source")
    <3>1. \A e : flagged(g, e) = IF e = "none" THEN flagged(h, e) \cup {p} ELSE flagged(h, e) \ {p}
      BY ONLY h \in SizeClassType, p \in Page, <1>3, FlaggedAfter
    <3> QED BY ONLY <1>0, <3>1
  <2> QED
    BY <1>0, <1>3, <2>1, ListOfDel DEF Lists
<1> QED
  BY <1>1, <1>2, <1>3, <1>5 DEF Relinked

LEMMA RemoveSourceLink ==
  ASSUME NEW h \in SizeClassType, h.ok, Lists(h), NEW p \in Page, h.list_flags[p] = "source"
  PROVE  Relinked(h, remove_page_from_source_list(h, p), p, "none")
<1> DEFINE g == [h EXCEPT !.list_flags[p] = "none", !.source = list_del(@, p)]
<1>0. p \in flagged(h, "source") /\ p \notin flagged(h, "nfull") /\ on_list(h.source, p)
  <2>1. p \in flagged(h, "source") /\ p \notin flagged(h, "nfull")
    BY DEF flagged
  <2> QED
    BY <2>1, ListOfDel DEF Lists
<1>1. remove_page_from_source_list(h, p) = g
  BY <1>0 DEF remove_page_from_source_list, expect
<1>2. g \in SizeClassType
  BY <1>1, RemoveSource
<1>3. /\ g.ok /\ g.list_flags = [h.list_flags EXCEPT ![p] = "none"]
      /\ g.used = h.used /\ g.nr_used = h.nr_used /\ g.sourceentries = h.sourceentries
      /\ g.nfull = h.nfull /\ g.source = list_del(h.source, p)
  <2>1. g.ok /\ g.list_flags = [h.list_flags EXCEPT ![p] = "none"]
    BY DEF SizeClassType
  <2>2. g.used = h.used /\ g.nr_used = h.nr_used /\ g.sourceentries = h.sourceentries
    BY DEF SizeClassType
  <2>3. g.nfull = h.nfull /\ g.source = list_del(h.source, p)
    BY DEF SizeClassType
  <2> QED
    BY ONLY <2>1, <2>2, <2>3
<1> HIDE DEF g
<1>5. Lists(g)
  <2>1. /\ flagged(g, "source") = flagged(h, "source") \ {p}
        /\ flagged(g, "nfull") = flagged(h, "nfull")
    <3>1. \A e : flagged(g, e) = IF e = "none" THEN flagged(h, e) \cup {p} ELSE flagged(h, e) \ {p}
      BY ONLY h \in SizeClassType, p \in Page, <1>3, FlaggedAfter
    <3> QED BY ONLY <1>0, <3>1
  <2> QED
    BY <1>0, <1>3, <2>1, ListOfDel DEF Lists
<1> QED
  BY <1>1, <1>2, <1>3, <1>5 DEF Relinked

LEMMA RemoveFullLink ==
  ASSUME NEW h \in SizeClassType, h.ok, Lists(h), NEW p \in Page, h.list_flags[p] = "full"
  PROVE  Relinked(h, remove_page_from_full_list(h, p), p, "none")
<1> DEFINE g == [h EXCEPT !.list_flags[p] = "none"]
<1>1. remove_page_from_full_list(h, p) = g
  BY DEF remove_page_from_full_list, expect
<1>2. g \in SizeClassType
  BY <1>1, RemoveFull
<1>3. /\ g.ok /\ g.list_flags = [h.list_flags EXCEPT ![p] = "none"]
      /\ g.used = h.used /\ g.nr_used = h.nr_used /\ g.sourceentries = h.sourceentries
      /\ g.nfull = h.nfull /\ g.source = h.source
  BY DEF SizeClassType
<1> HIDE DEF g
<1>5. Lists(g)
  <2>1. /\ flagged(g, "nfull") = flagged(h, "nfull")
        /\ flagged(g, "source") = flagged(h, "source")
    BY <1>3 DEF flagged, SizeClassType
  <2> QED
    BY <1>3, <2>1 DEF Lists
<1> QED
  BY <1>1, <1>2, <1>3, <1>5 DEF Relinked

LEMMA RemoveEmptyingLink ==
  ASSUME NEW h \in SizeClassType, h.ok, Lists(h), NEW p \in Page, h.list_flags[p] = "emptying"
  PROVE  Relinked(h, remove_page_from_emptying_list(h, p), p, "none")
<1> DEFINE g == [h EXCEPT !.list_flags[p] = "none"]
<1>1. remove_page_from_emptying_list(h, p) = g
  BY DEF remove_page_from_emptying_list, expect
<1>2. g \in SizeClassType
  BY <1>1, RemoveEmptying
<1>3. /\ g.ok /\ g.list_flags = [h.list_flags EXCEPT ![p] = "none"]
      /\ g.used = h.used /\ g.nr_used = h.nr_used /\ g.sourceentries = h.sourceentries
      /\ g.nfull = h.nfull /\ g.source = h.source
  BY DEF SizeClassType
<1> HIDE DEF g
<1>5. Lists(g)
  <2>1. /\ flagged(g, "nfull") = flagged(h, "nfull")
        /\ flagged(g, "source") = flagged(h, "source")
    BY <1>3 DEF flagged, SizeClassType
  <2> QED
    BY <1>3, <2>1 DEF Lists
<1> QED
  BY <1>1, <1>2, <1>3, <1>5 DEF Relinked

LEMMA Relink ==
  ASSUME NEW h \in SizeClassType, NEW g, NEW k, NEW p \in Page, NEW e, NEW f,
         Relinked(h, g, p, e), Relinked(g, k, p, f)
  PROVE  Relinked(h, k, p, f)
<1>1. h.list_flags \in [Page -> ListFlag]
  BY DEF SizeClassType
<1>2. /\ g.list_flags = [h.list_flags EXCEPT ![p] = e] /\ k.list_flags = [g.list_flags EXCEPT ![p] = f]
      /\ k.used = h.used /\ k.nr_used = h.nr_used /\ k.sourceentries = h.sourceentries
      /\ k \in SizeClassType /\ k.ok /\ Lists(k)
  BY DEF Relinked
<1>3. k.list_flags = [h.list_flags EXCEPT ![p] = f]
  BY ONLY <1>1, <1>2
<1> QED
  BY ONLY <1>2, <1>3 DEF Relinked

-----------------------------------------------------------------------------
(* Counting the blocks of a page.                                          *)
LEMMA UsedBlocks ==
  ASSUME NEW u \in SUBSET Index
  PROVE  /\ IsFiniteSet(u) /\ Cardinality(u) \in Nat /\ Cardinality(u) <= PageBlocks
         /\ Cardinality(u) = 0 <=> u = {}
         /\ Cardinality(u) = PageBlocks <=> u = Index
         /\ \A i \in u : Cardinality(u \ {i}) = Cardinality(u) - 1
         /\ \A i \in Index \ u : Cardinality(u \cup {i}) = Cardinality(u) + 1
<1>1. IsFiniteSet(Index) /\ Cardinality(Index) = PageBlocks
  BY PageBlocksAssumption, FS_Interval DEF Index
<1>2. IsFiniteSet(u) /\ Cardinality(u) <= PageBlocks /\ (Cardinality(u) = PageBlocks => u = Index)
  BY <1>1, FS_Subset
<1>3. Cardinality(u) \in Nat
  BY <1>2, FS_CardinalityType
<1>4. Cardinality(u) = 0 <=> u = {}
  BY <1>2, FS_EmptySet
<1>5. \A i \in u : Cardinality(u \ {i}) = Cardinality(u) - 1
  BY <1>2, FS_RemoveElement
<1>6. \A i \in Index \ u : Cardinality(u \cup {i}) = Cardinality(u) + 1
  BY <1>2, FS_AddElement
<1> QED
  BY <1>1, <1>2, <1>3, <1>4, <1>5, <1>6

LEMMA PageFacts ==
  ASSUME NEW h, WellFormed(h), NEW p \in Page
  PROVE  /\ h \in SizeClassType /\ h.ok /\ Lists(h)
         /\ h.used[p] \in SUBSET Index
         /\ h.nr_used[p] = Cardinality(h.used[p]) /\ h.nr_used[p] \in Nat
         /\ h.sourceentries[p] \in Nat
         /\ h.list_flags[p] = "free" => h.used[p] = {} /\ h.sourceentries[p] = 0
         /\ h.list_flags[p] = "full" <=> is_page_full(h, p)
         /\ h.list_flags[p] = "full" => h.sourceentries[p] = 0
         /\ h.list_flags[p] = "nfull" => h.used[p] # {} /\ h.used[p] # Index /\ h.sourceentries[p] = 0
         /\ h.list_flags[p] = "source" => h.used[p] # {} /\ h.used[p] # Index /\ h.sourceentries[p] > 0
         /\ h.list_flags[p] = "emptying" => h.used[p] = {} /\ h.sourceentries[p] > 0
         /\ h.used[p] # {} => h.list_flags[p] \in {"nfull", "full", "source"}
         /\ h.sourceentries[p] > 0 => h.list_flags[p] \in {"source", "emptying"}
<1>1. /\ h \in SizeClassType /\ h.ok /\ Lists(h)
      /\ StateOf(h.list_flags[p], h.used[p], h.nr_used[p], h.sourceentries[p])
  BY DEF WellFormed
<1>2. h.used[p] \in SUBSET Index /\ h.sourceentries[p] \in Int
  BY <1>1 DEF SizeClassType
<1> DEFINE f == h.list_flags[p]
           u == h.used[p]
           n == h.nr_used[p]
           e == h.sourceentries[p]
<1>3. /\ Cardinality(u) \in Nat
      /\ Cardinality(u) = 0 <=> u = {}
      /\ Cardinality(u) = PageBlocks <=> u = Index
  BY <1>2, UsedBlocks
<1>4. n = Cardinality(u) /\ n \in Nat
  BY <1>1, <1>3 DEF StateOf
<1>5. \/ f = "free" /\ n = 0 /\ e = 0
      \/ f = "nfull" /\ n \in 1 .. PageBlocks - 1 /\ e = 0
      \/ f = "full" /\ n = PageBlocks /\ e = 0
      \/ f = "source" /\ n \in 1 .. PageBlocks - 1 /\ e > 0
      \/ f = "emptying" /\ n = 0 /\ e > 0
  BY <1>1 DEF StateOf
<1>6. PageBlocks \in Nat /\ PageBlocks > 0
  BY PageBlocksAssumption
<1>7. is_page_full(h, p) <=> n = PageBlocks
  BY DEF is_page_full
<1> HIDE DEF f, u, n, e
<1>8. /\ e \in Nat
      /\ f = "free" => u = {} /\ e = 0
      /\ f = "full" <=> n = PageBlocks
      /\ f = "full" => e = 0
      /\ f = "nfull" => u # {} /\ u # Index /\ e = 0
      /\ f = "source" => u # {} /\ u # Index /\ e > 0
      /\ f = "emptying" => u = {} /\ e > 0
      /\ u # {} => f \in {"nfull", "full", "source"}
      /\ e > 0 => f \in {"source", "emptying"}
  <2>1. CASE f = "free" /\ n = 0 /\ e = 0
    BY <1>3, <1>4, <1>6, <2>1
  <2>2. CASE f = "nfull" /\ n \in 1 .. PageBlocks - 1 /\ e = 0
    BY <1>3, <1>4, <1>6, <2>2
  <2>3. CASE f = "full" /\ n = PageBlocks /\ e = 0
    BY <1>3, <1>4, <1>6, <2>3
  <2>4. CASE f = "source" /\ n \in 1 .. PageBlocks - 1 /\ e > 0
    BY <1>2, <1>3, <1>4, <1>6, <2>4 DEF e
  <2>5. CASE f = "emptying" /\ n = 0 /\ e > 0
    BY <1>2, <1>3, <1>4, <1>6, <2>5 DEF e
  <2> QED
    BY <1>5, <2>1, <2>2, <2>3, <2>4, <2>5
<1> QED
  BY <1>1, <1>2, <1>4, <1>7, <1>8 DEF f, u, n, e

(* g is h with page p changed and still in order. *)
Updated(h, g, p, u, e) ==
  /\ WellFormed(g)
  /\ g.used = [h.used EXCEPT ![p] = u]
  /\ g.sourceentries = [h.sourceentries EXCEPT ![p] = e]

LEMMA PageUpdated ==
  ASSUME NEW h, WellFormed(h), NEW g \in SizeClassType, g.ok, Lists(g), NEW p \in Page,
         NEW f, NEW u, NEW n, NEW e, StateOf(f, u, n, e),
         g.list_flags = [h.list_flags EXCEPT ![p] = f],
         g.used = [h.used EXCEPT ![p] = u],
         g.nr_used = [h.nr_used EXCEPT ![p] = n],
         g.sourceentries = [h.sourceentries EXCEPT ![p] = e]
  PROVE  Updated(h, g, p, u, e)
<1>1. ASSUME NEW y \in Page
      PROVE  StateOf(g.list_flags[y], g.used[y], g.nr_used[y], g.sourceentries[y])
  <2>1. h \in SizeClassType
    BY DEF WellFormed
  <2>2. /\ g.list_flags[y] = IF y = p THEN f ELSE h.list_flags[y]
        /\ g.used[y] = IF y = p THEN u ELSE h.used[y]
        /\ g.nr_used[y] = IF y = p THEN n ELSE h.nr_used[y]
        /\ g.sourceentries[y] = IF y = p THEN e ELSE h.sourceentries[y]
    BY <2>1 DEF SizeClassType
  <2>3. StateOf(h.list_flags[y], h.used[y], h.nr_used[y], h.sourceentries[y])
    BY DEF WellFormed
  <2> QED
    BY <2>2, <2>3
<1> QED
  BY <1>1 DEF Updated, WellFormed

-----------------------------------------------------------------------------
(* Freeing a block.                                                        *)
(* g is h without block i of page p. *)
Freed(h, g, p, i) ==
  /\ g \in SizeClassType /\ g.ok /\ Lists(g)
  /\ g.list_flags = h.list_flags /\ g.sourceentries = h.sourceentries
  /\ g.used = [h.used EXCEPT ![p] = h.used[p] \ {i}]
  /\ g.nr_used = [h.nr_used EXCEPT ![p] = h.nr_used[p] - 1]
  /\ g.nr_used[p] = h.nr_used[p] - 1
  /\ h.nr_used[p] >= 1
  /\ Cardinality(h.used[p] \ {i}) = h.nr_used[p] - 1

LEMMA FreedBlock ==
  ASSUME NEW h, WellFormed(h), NEW p \in Page, NEW i \in h.used[p]
  PROVE  Freed(h, free_used_page_block(h, p, i), p, i)
<1> DEFINE f == free_used_page_block(h, p, i)
           g == [h EXCEPT !.used[p] = @ \ {i}, !.nr_used[p] = @ - 1]
<1>1. /\ h \in SizeClassType /\ h.ok /\ Lists(h) /\ i \in Index
      /\ h.used[p] \in SUBSET Index
      /\ h.nr_used[p] = Cardinality(h.used[p]) /\ h.nr_used[p] \in Nat
  BY PageFacts
<1>2. /\ Cardinality(h.used[p] \ {i}) = h.nr_used[p] - 1
      /\ h.nr_used[p] # 0
  BY <1>1, UsedBlocks
<1>3. h.nr_used[p] > 0 /\ h.nr_used[p] >= 1
  BY <1>1, <1>2
<1>4. f = g
  BY <1>1, <1>3 DEF free_used_page_block, expect
<1>5. f \in SizeClassType
  BY <1>1, FreeUsedBlock
<1>6. /\ g.ok /\ g.nfull = h.nfull /\ g.source = h.source
      /\ g.list_flags = h.list_flags /\ g.sourceentries = h.sourceentries
      /\ g.used = [h.used EXCEPT ![p] = h.used[p] \ {i}]
      /\ g.nr_used = [h.nr_used EXCEPT ![p] = h.nr_used[p] - 1]
  BY <1>1 DEF SizeClassType
<1>7. g.nr_used[p] = h.nr_used[p] - 1
  BY <1>1, <1>6 DEF SizeClassType
<1>8. g \in SizeClassType
  BY ONLY <1>4, <1>5
<1> HIDE DEF f, g
<1>9. Lists(g)
  BY <1>1, <1>6 DEF Lists, flagged
<1>10. Freed(h, g, p, i)
  BY ONLY <1>2, <1>3, <1>6, <1>7, <1>8, <1>9 DEF Freed
<1> QED
  BY ONLY <1>4, <1>10 DEF f

LEMMA FreeFullPage ==
  ASSUME NEW h, WellFormed(h), NEW p \in Page, NEW i \in h.used[p], h.list_flags[p] = "full"
  PROVE  Updated(h, do_free_full_state(h, p, i), p, h.used[p] \ {i}, h.sourceentries[p])
<1> DEFINE f == free_used_page_block(h, p, i)
           r == remove_page_from_full_list(f, p)
           g == do_free_full_state(h, p, i)
           u == h.used[p] \ {i}
           n == h.nr_used[p] - 1
           e == h.sourceentries[p]
<1>1. /\ h \in SizeClassType /\ e = 0 /\ h.nr_used[p] \in Nat /\ h.nr_used[p] = PageBlocks
  BY PageFacts DEF is_page_full
<1>2. /\ f \in SizeClassType /\ f.ok /\ Lists(f)
      /\ f.list_flags = h.list_flags /\ f.sourceentries = h.sourceentries
      /\ f.used = [h.used EXCEPT ![p] = u]
      /\ f.nr_used = [h.nr_used EXCEPT ![p] = n]
      /\ f.nr_used[p] = n /\ n = Cardinality(u) /\ n \in 0 .. PageBlocks - 1
  <2>1. Freed(h, f, p, i)
    BY ONLY WellFormed(h), p \in Page, i \in h.used[p], FreedBlock
  <2> HIDE DEF f
  <2>2. /\ f \in SizeClassType /\ f.ok /\ Lists(f)
        /\ f.list_flags = h.list_flags /\ f.sourceentries = h.sourceentries
        /\ f.used = [h.used EXCEPT ![p] = u]
        /\ f.nr_used = [h.nr_used EXCEPT ![p] = n]
        /\ f.nr_used[p] = n /\ n = Cardinality(u) /\ h.nr_used[p] >= 1
    BY ONLY <2>1 DEF Freed
  <2>3. n \in 0 .. PageBlocks - 1
    BY ONLY <1>1, <2>2
  <2> QED
    BY ONLY <2>2, <2>3
<1> HIDE DEF f
<1>3. Relinked(f, r, p, "none")
  BY <1>2, RemoveFullLink
<1>4. r \in SizeClassType /\ r.ok /\ Lists(r) /\ r.list_flags[p] = "none" /\ r.nr_used[p] = n
  BY <1>2, <1>3 DEF Relinked, SizeClassType
<1>5. g = IF n = 0 THEN add_free_page(r, p) ELSE add_page_to_nfull_list(r, p)
  BY <1>4 DEF do_free_full_state, f
<1> DEFINE flag == IF n = 0 THEN "free" ELSE "nfull"
<1>6. Relinked(r, g, p, flag)
  BY <1>4, <1>5, AddFreeLink, AddNfullLink
<1> HIDE DEF r, g
<1>7. Relinked(f, g, p, flag)
  BY <1>2, <1>3, <1>6, Relink
<1>8. StateOf(flag, u, n, e)
  BY <1>1, <1>2 DEF StateOf
<1> HIDE DEF u, n, e, flag
<1>9. /\ g \in SizeClassType /\ g.ok /\ Lists(g)
      /\ g.list_flags = [h.list_flags EXCEPT ![p] = flag]
      /\ g.used = [h.used EXCEPT ![p] = u]
      /\ g.nr_used = [h.nr_used EXCEPT ![p] = n]
      /\ g.sourceentries = h.sourceentries
  BY <1>2, <1>7 DEF Relinked
<1>10. g.sourceentries = [h.sourceentries EXCEPT ![p] = e]
  BY <1>1, <1>9 DEF e, SizeClassType
<1>11. Updated(h, g, p, u, e)
  BY <1>8, <1>9, <1>10, PageUpdated
<1> QED
  BY <1>11 DEF g, u, e

LEMMA StateAfterFree ==
  ASSUME NEW f \in {"nfull", "source"}, NEW u, NEW n \in 0 .. PageBlocks - 2, NEW e \in Nat,
         n = Cardinality(u), f = "nfull" => e = 0, f = "source" => e > 0
  PROVE  StateOf(IF n # 0 THEN f ELSE IF e = 0 THEN "free" ELSE "emptying", u, n, e)
<1>0. PageBlocks \in Nat /\ PageBlocks > 0
  BY PageBlocksAssumption
<1>1. CASE n = 0 /\ e = 0
  BY <1>1 DEF StateOf
<1>2. CASE n = 0 /\ e # 0
  BY <1>2 DEF StateOf
<1>3. CASE n # 0 /\ f = "nfull"
  BY <1>0, <1>3 DEF StateOf
<1>4. CASE n # 0 /\ f = "source"
  BY <1>0, <1>4 DEF StateOf
<1> QED
  BY <1>1, <1>2, <1>3, <1>4

LEMMA StateAfterRelease ==
  ASSUME NEW f \in {"emptying", "source"}, NEW u, NEW n \in 0 .. PageBlocks - 1, NEW e \in Nat,
         n = Cardinality(u), f = "source" => n # 0, f = "emptying" => n = 0
  PROVE  StateOf(IF e # 0 THEN f ELSE IF n = 0 THEN "free" ELSE "nfull", u, n, e)
<1>0. PageBlocks \in Nat /\ PageBlocks > 0
  BY PageBlocksAssumption
<1>1. CASE n = 0 /\ e = 0
  BY <1>1 DEF StateOf
<1>2. CASE n = 0 /\ e # 0
  BY <1>2 DEF StateOf
<1>3. CASE n # 0 /\ e = 0
  BY <1>0, <1>3 DEF StateOf
<1>4. CASE n # 0 /\ e # 0
  BY <1>0, <1>4 DEF StateOf
<1> QED
  BY <1>1, <1>2, <1>3, <1>4

LEMMA FreeNfullPage ==
  ASSUME NEW h, WellFormed(h), NEW p \in Page, NEW i \in h.used[p], ~is_page_full(h, p)
  PROVE  Updated(h, do_free_nfull_state(h, p, i), p, h.used[p] \ {i}, h.sourceentries[p])
<1> DEFINE f == free_used_page_block(h, p, i)
           g == do_free_nfull_state(h, p, i)
           u == h.used[p] \ {i}
           n == h.nr_used[p] - 1
           e == h.sourceentries[p]
           was == h.list_flags[p]
<1>1. /\ h \in SizeClassType /\ e \in Nat /\ h.nr_used[p] \in Nat
      /\ was \in {"nfull", "source"}
      /\ was = "nfull" => e = 0
      /\ was = "source" => e > 0
  BY PageFacts
<1>2. h.nr_used[p] \in 1 .. PageBlocks - 1
  BY <1>1 DEF WellFormed, StateOf
<1>3. /\ f \in SizeClassType /\ f.ok /\ Lists(f)
      /\ f.list_flags = h.list_flags /\ f.sourceentries = h.sourceentries
      /\ f.used = [h.used EXCEPT ![p] = u]
      /\ f.nr_used = [h.nr_used EXCEPT ![p] = n]
      /\ n = Cardinality(u)
  <2>1. Freed(h, f, p, i)
    BY ONLY WellFormed(h), p \in Page, i \in h.used[p], FreedBlock
  <2> HIDE DEF f
  <2> QED
    BY ONLY <2>1 DEF Freed
<1> HIDE DEF f
<1> DEFINE r == remove_page_from_nfull_list(f, p)
           s == remove_page_from_source_list(f, p)
           flag == IF n # 0 THEN was ELSE IF e = 0 THEN "free" ELSE "emptying"
<1>4. g = IF h.nr_used[p] # 1 THEN f
          ELSE IF e = 0 THEN add_free_page(r, p) ELSE add_page_to_emptying_list(s, p)
  BY DEF do_free_nfull_state, f
<1>5. /\ g \in SizeClassType /\ g.ok /\ Lists(g)
      /\ g.list_flags = [h.list_flags EXCEPT ![p] = flag]
      /\ g.used = f.used /\ g.nr_used = f.nr_used /\ g.sourceentries = f.sourceentries
  <2>1. CASE h.nr_used[p] # 1
    <3>1. g = f /\ flag = was
      BY <1>2, <1>4, <2>1
    <3>2. h.list_flags = [h.list_flags EXCEPT ![p] = was]
      BY <1>1 DEF SizeClassType
    <3> QED
      BY <1>3, <3>1, <3>2
  <2>2. CASE h.nr_used[p] = 1 /\ e = 0
    <3>1. Relinked(f, r, p, "none")
      BY <1>1, <1>3, <2>2, RemoveNfullLink
    <3>2. r \in SizeClassType /\ r.ok /\ Lists(r) /\ r.list_flags[p] = "none"
      BY <1>3, <3>1 DEF Relinked, SizeClassType
    <3>3. Relinked(r, g, p, "free")
      BY <1>4, <2>2, <3>2, AddFreeLink
    <3> HIDE DEF r, g
    <3>4. Relinked(f, g, p, "free")
      BY <1>3, <3>1, <3>3, Relink
    <3> QED
      BY <1>3, <2>2, <3>4 DEF Relinked
  <2>3. CASE h.nr_used[p] = 1 /\ e # 0
    <3>1. Relinked(f, s, p, "none")
      BY <1>1, <1>3, <2>3, RemoveSourceLink
    <3>2. s \in SizeClassType /\ s.ok /\ Lists(s) /\ s.list_flags[p] = "none"
      BY <1>3, <3>1 DEF Relinked, SizeClassType
    <3>3. Relinked(s, g, p, "emptying")
      BY <1>4, <2>3, <3>2, AddEmptyingLink
    <3> HIDE DEF s, g
    <3>4. Relinked(f, g, p, "emptying")
      BY <1>3, <3>1, <3>3, Relink
    <3> QED
      BY <1>3, <2>3, <3>4 DEF Relinked
  <2> QED
    BY <2>1, <2>2, <2>3
<1> HIDE DEF r, s, g
<1>6. StateOf(flag, u, n, e)
  <2>1. n \in 0 .. PageBlocks - 2 /\ n = Cardinality(u)
    BY <1>2, <1>3, PageBlocksAssumption
  <2> HIDE DEF was, n, u, e
  <2> QED
    BY <1>1, <2>1, StateAfterFree
<1> HIDE DEF flag, u, n
<1>7. g.sourceentries = [h.sourceentries EXCEPT ![p] = e]
  BY <1>1, <1>3, <1>5 DEF SizeClassType
<1> HIDE DEF e
<1>8. Updated(h, g, p, u, e)
  BY <1>3, <1>5, <1>6, <1>7, PageUpdated
<1> QED
  BY <1>8 DEF g, u, e

LEMMA FreePage ==
  ASSUME NEW h, WellFormed(h), NEW p \in Page, NEW i \in h.used[p]
  PROVE  Updated(h, do_free(h, p, i), p, h.used[p] \ {i}, h.sourceentries[p])
<1>1. h.list_flags[p] = "full" <=> is_page_full(h, p)
  BY PageFacts
<1> QED
  BY <1>1, FreeFullPage, FreeNfullPage DEF do_free

(* A copy from a page is over. *)
LEMMA FewerEntries ==
  ASSUME NEW h, WellFormed(h), NEW p \in Page
  PROVE  LET g == [h EXCEPT !.sourceentries[p] = @ - 1]
         IN  /\ g \in SizeClassType /\ g.ok /\ Lists(g)
             /\ g.list_flags = h.list_flags /\ g.used = h.used /\ g.nr_used = h.nr_used
             /\ g.sourceentries = [h.sourceentries EXCEPT ![p] = h.sourceentries[p] - 1]
             /\ g.sourceentries[p] = h.sourceentries[p] - 1
<1> DEFINE g == [h EXCEPT !.sourceentries[p] = @ - 1]
<1>1. h \in SizeClassType /\ h.ok /\ Lists(h)
  BY DEF WellFormed
<1>2. g \in SizeClassType
  BY <1>1, FewerSourceentries
<1>3. /\ g.ok /\ g.nfull = h.nfull /\ g.source = h.source
      /\ g.list_flags = h.list_flags /\ g.used = h.used /\ g.nr_used = h.nr_used
      /\ g.sourceentries = [h.sourceentries EXCEPT ![p] = h.sourceentries[p] - 1]
      /\ g.sourceentries[p] = h.sourceentries[p] - 1
  BY <1>1 DEF SizeClassType
<1> HIDE DEF g
<1>4. Lists(g)
  BY <1>1, <1>3 DEF Lists, flagged
<1> QED
  BY <1>2, <1>3, <1>4 DEF g

LEMMA ReleasePage ==
  ASSUME NEW h, WellFormed(h), NEW p \in Page, h.sourceentries[p] > 0
  PROVE  Updated(h, release_source_page(h, p), p, h.used[p], h.sourceentries[p] - 1)
<1> DEFINE f == [h EXCEPT !.sourceentries[p] = @ - 1]
           g == release_source_page(h, p)
           u == h.used[p]
           n == h.nr_used[p]
           e == h.sourceentries[p] - 1
           was == h.list_flags[p]
<1>1. /\ h \in SizeClassType /\ n = Cardinality(u) /\ n \in Nat /\ e \in Nat
      /\ was \in {"source", "emptying"}
  BY PageFacts
<1>2. /\ was = "source" => n \in 1 .. PageBlocks - 1
      /\ was = "emptying" => n = 0
  BY <1>1 DEF WellFormed, StateOf
<1>3. /\ f \in SizeClassType /\ f.ok /\ Lists(f)
      /\ f.list_flags = h.list_flags /\ f.used = h.used /\ f.nr_used = h.nr_used
      /\ f.sourceentries = [h.sourceentries EXCEPT ![p] = e]
      /\ f.sourceentries[p] = e
  BY FewerEntries
<1> HIDE DEF f
<1> DEFINE r == remove_page_from_emptying_list(f, p)
           s == remove_page_from_source_list(f, p)
           flag == IF e # 0 THEN was ELSE IF n = 0 THEN "free" ELSE "nfull"
<1>4. g = IF e # 0 THEN f
          ELSE IF n = 0 THEN add_free_page(r, p) ELSE add_page_to_nfull_list(s, p)
  BY <1>3 DEF release_source_page, do_free_source_state, f
<1>5. /\ g \in SizeClassType /\ g.ok /\ Lists(g)
      /\ g.list_flags = [h.list_flags EXCEPT ![p] = flag]
      /\ g.used = f.used /\ g.nr_used = f.nr_used /\ g.sourceentries = f.sourceentries
  <2>1. CASE e # 0
    <3>1. h.list_flags = [h.list_flags EXCEPT ![p] = was]
      BY <1>1 DEF SizeClassType
    <3> QED
      BY <1>3, <1>4, <2>1, <3>1
  <2>2. CASE e = 0 /\ n = 0
    <3>1. Relinked(f, r, p, "none")
      BY <1>1, <1>2, <1>3, <2>2, RemoveEmptyingLink
    <3>2. r \in SizeClassType /\ r.ok /\ Lists(r) /\ r.list_flags[p] = "none"
      BY <1>3, <3>1 DEF Relinked, SizeClassType
    <3>3. Relinked(r, g, p, "free")
      BY <1>4, <2>2, <3>2, AddFreeLink
    <3> HIDE DEF r, g
    <3>4. Relinked(f, g, p, "free")
      BY <1>3, <3>1, <3>3, Relink
    <3> QED
      BY <1>3, <2>2, <3>4 DEF Relinked
  <2>3. CASE e = 0 /\ n # 0
    <3>1. Relinked(f, s, p, "none")
      BY <1>1, <1>2, <1>3, <2>3, RemoveSourceLink
    <3>2. s \in SizeClassType /\ s.ok /\ Lists(s) /\ s.list_flags[p] = "none"
      BY <1>3, <3>1 DEF Relinked, SizeClassType
    <3>3. Relinked(s, g, p, "nfull")
      BY <1>4, <2>3, <3>2, AddNfullLink
    <3> HIDE DEF s, g
    <3>4. Relinked(f, g, p, "nfull")
      BY <1>3, <3>1, <3>3, Relink
    <3> QED
      BY <1>3, <2>3, <3>4 DEF Relinked
  <2> QED
    BY <2>1, <2>2, <2>3
<1> HIDE DEF r, s, g
<1>6. StateOf(flag, u, n, e)
  <2>1. n \in 0 .. PageBlocks - 1 /\ n = Cardinality(u)
    BY <1>1, <1>2, PageBlocksAssumption
  <2> HIDE DEF was, n, u, e
  <2> QED
    BY <1>1, <1>2, <2>1, StateAfterRelease
<1> HIDE DEF flag
<1>7. /\ g.used = [h.used EXCEPT ![p] = u]
      /\ g.nr_used = [h.nr_used EXCEPT ![p] = n]
  BY <1>1, <1>3, <1>5 DEF SizeClassType
<1> HIDE DEF u, n, e
<1>8. Updated(h, g, p, u, e)
  BY <1>3, <1>5, <1>6, <1>7, PageUpdated
<1> QED
  BY <1>8 DEF g, u, e

LEMMA ReleaseEmptied ==
  ASSUME NEW h, WellFormed(h), NEW p \in Page, h.list_flags[p] = "emptying"
  PROVE  Updated(h, release_emptying_page(h, p), p, h.used[p], h.sourceentries[p] - 1)
<1>1. h.used[p] = {} /\ h.sourceentries[p] > 0 /\ h.nr_used[p] = 0
  BY PageFacts DEF WellFormed, StateOf
<1> DEFINE f == [h EXCEPT !.sourceentries[p] = @ - 1]
<1>2. f.nr_used[p] = 0
  BY <1>1, FewerEntries
<1>3. release_emptying_page(h, p) = release_source_page(h, p)
  <2> HIDE DEF f
  <2> QED
    BY <1>2, Zenon DEF release_emptying_page, release_source_page, do_free_source_state, f
<1> QED
  BY <1>1, <1>3, ReleasePage

-----------------------------------------------------------------------------
(* Taking a block as the source of a copy.                                 *)
LEMMA SourcePageFlag ==
  ASSUME NEW h, WellFormed(h), h.source # <<>> \/ h.nfull # <<>>
  PROVE  /\ source_page(h) \in Page
         /\ h.list_flags[source_page(h)] = IF source_begun(h) THEN "source" ELSE "nfull"
<1> DEFINE s == IF source_begun(h) THEN h.source ELSE h.nfull
           f == IF source_begun(h) THEN "source" ELSE "nfull"
<1>1. h \in SizeClassType /\ ListOf(s, flagged(h, f))
  BY DEF WellFormed, Lists
<1>2. s # <<>> /\ source_page(h) = Head(s)
  BY DEF source_begun, source_page
<1> HIDE DEF s, f
<1>3. s \in Seq(Page)
  BY <1>1 DEF ListOf
<1>4. Head(s) \in Page /\ Len(s) \in Nat /\ Len(s) # 0 /\ Head(s) = s[1]
  BY <1>2, <1>3
<1>5. on_list(s, Head(s))
  BY <1>4 DEF on_list
<1>6. Head(s) \in flagged(h, f)
  BY <1>1, <1>4, <1>5 DEF ListOf
<1> QED
  BY <1>2, <1>4, <1>6 DEF flagged, f

LEMMA TakenBlock ==
  ASSUME NEW h, WellFormed(h), NEW p \in Page
  PROVE  LET g == [h EXCEPT !.nr_used[p] = @ - 1]
         IN  /\ g \in SizeClassType /\ g.ok /\ Lists(g)
             /\ g.list_flags = h.list_flags /\ g.used = h.used
             /\ g.sourceentries = h.sourceentries
             /\ g.nr_used = [h.nr_used EXCEPT ![p] = h.nr_used[p] - 1]
             /\ g.nr_used[p] = h.nr_used[p] - 1
<1> DEFINE g == [h EXCEPT !.nr_used[p] = @ - 1]
<1>1. h \in SizeClassType /\ h.ok /\ Lists(h)
  BY DEF WellFormed
<1>2. g \in SizeClassType
  BY <1>1, Taken
<1>3. /\ g.ok /\ g.nfull = h.nfull /\ g.source = h.source
      /\ g.list_flags = h.list_flags /\ g.used = h.used
      /\ g.sourceentries = h.sourceentries
      /\ g.nr_used = [h.nr_used EXCEPT ![p] = h.nr_used[p] - 1]
      /\ g.nr_used[p] = h.nr_used[p] - 1
  BY <1>1 DEF SizeClassType
<1> HIDE DEF g
<1>4. Lists(g)
  BY <1>1, <1>3 DEF Lists, flagged
<1> QED
  BY <1>2, <1>3, <1>4 DEF g

LEMMA TakeSource ==
  ASSUME NEW h, WellFormed(h), h.source # <<>> \/ h.nfull # <<>>
  PROVE  LET p == source_page(h)
             g == get_source_page(h)
         IN  /\ p \in Page
             /\ g.ok /\ g.used = h.used /\ g.used[p] \in SUBSET Index /\ g.used[p] # {}
             /\ h.list_flags[p] # "full"
             /\ \A i \in h.used[p] :
                  Updated(h, page_clear_used_bit(g, p, i), p, h.used[p] \ {i},
                          h.sourceentries[p] + 1)
<1> DEFINE p == source_page(h)
           t == [h EXCEPT !.nr_used[p] = @ - 1]
           last == t.nr_used[p] = 0
           b1 == add_page_to_emptying_list(remove_page_from_source_list(t, p), p)
           out == remove_page_from_nfull_list(t, p)
           m == IF source_begun(h) THEN IF last THEN b1 ELSE t
                ELSE IF last THEN add_page_to_emptying_list(out, p)
                             ELSE add_page_to_source_list(out, p)
           g == get_source_page(h)
           n == h.nr_used[p] - 1
           e == h.sourceentries[p] + 1
           flag == IF n = 0 THEN "emptying" ELSE "source"
<1>1. /\ p \in Page
      /\ h.list_flags[p] = IF source_begun(h) THEN "source" ELSE "nfull"
  BY SourcePageFlag
<1>2. g = [m EXCEPT !.sourceentries[p] = @ + 1]
  <2>1. h.ok
    BY DEF WellFormed
  <2> QED
    BY <2>1, Zenon DEF get_source_page, expect
<1> HIDE DEF p
<1>3. /\ t \in SizeClassType /\ t.ok /\ Lists(t)
      /\ t.list_flags = h.list_flags /\ t.used = h.used
      /\ t.sourceentries = h.sourceentries
      /\ t.nr_used = [h.nr_used EXCEPT ![p] = n]
      /\ t.nr_used[p] = n
  BY <1>1, TakenBlock
<1> HIDE DEF t
<1>4. /\ m \in SizeClassType /\ m.ok /\ Lists(m)
      /\ m.list_flags = [h.list_flags EXCEPT ![p] = flag]
      /\ m.used = t.used /\ m.nr_used = t.nr_used /\ m.sourceentries = t.sourceentries
  <2>1. CASE source_begun(h) /\ n # 0
    <3>1. m = t
      BY <1>3, <2>1
    <3>2. h.list_flags = [h.list_flags EXCEPT ![p] = "source"]
      BY <1>1, <2>1 DEF WellFormed, SizeClassType
    <3> QED
      BY <1>3, <2>1, <3>1, <3>2
  <2>2. CASE source_begun(h) /\ n = 0
    <3> DEFINE s == remove_page_from_source_list(t, p)
    <3>1. Relinked(t, s, p, "none")
      BY <1>1, <1>3, <2>2, RemoveSourceLink
    <3>2. s \in SizeClassType /\ s.ok /\ Lists(s) /\ s.list_flags[p] = "none"
      BY <1>1, <1>3, <3>1 DEF Relinked, SizeClassType
    <3>3. Relinked(s, m, p, "emptying")
      BY <1>1, <1>3, <2>2, <3>2, AddEmptyingLink
    <3> HIDE DEF s, m
    <3>4. Relinked(t, m, p, "emptying")
      BY <1>1, <1>3, <3>1, <3>3, Relink
    <3> QED
      BY <1>3, <2>2, <3>4 DEF Relinked
  <2>3. CASE ~source_begun(h)
    <3>1. Relinked(t, out, p, "none")
      BY <1>1, <1>3, <2>3, RemoveNfullLink
    <3>2. out \in SizeClassType /\ out.ok /\ Lists(out) /\ out.list_flags[p] = "none"
      BY <1>1, <1>3, <3>1 DEF Relinked, SizeClassType
    <3>3. Relinked(out, m, p, flag)
      BY <1>1, <1>3, <2>3, <3>2, AddEmptyingLink, AddSourceLink
    <3> HIDE DEF out, m
    <3>4. Relinked(t, m, p, flag)
      BY <1>1, <1>3, <3>1, <3>3, Relink
    <3> QED
      BY <1>3, <3>4 DEF Relinked
  <2> QED
    BY <2>1, <2>2, <2>3
<1> HIDE DEF last, b1, out, m
<1>5. /\ g \in SizeClassType /\ g.ok
      /\ g.nfull = m.nfull /\ g.source = m.source /\ g.list_flags = m.list_flags
      /\ g.used = h.used /\ g.nr_used = [h.nr_used EXCEPT ![p] = n]
      /\ g.sourceentries = [h.sourceentries EXCEPT ![p] = e]
  <2>1. g \in SizeClassType
    BY GetSourcePage DEF WellFormed
  <2>2. m.sourceentries[p] + 1 = e
    BY <1>3, <1>4
  <2> HIDE DEF e, n, g, flag
  <2>3. g = [m EXCEPT !.sourceentries = [m.sourceentries EXCEPT ![p] = e]]
    BY <1>2, <1>4, <2>2 DEF SizeClassType
  <2> QED
    BY <1>3, <1>4, <2>1, <2>3 DEF SizeClassType
<1>6. Lists(g)
  BY <1>4, <1>5 DEF Lists, flagged
<1> HIDE DEF g
<1>7. /\ h \in SizeClassType
      /\ h.used[p] \in SUBSET Index /\ h.used[p] # {} /\ h.sourceentries[p] \in Nat
      /\ h.nr_used[p] = Cardinality(h.used[p]) /\ h.nr_used[p] \in Nat
      /\ h.list_flags[p] \in {"source", "nfull"}
      /\ ~is_page_full(h, p)
  BY <1>1, PageFacts
<1>8. h.nr_used[p] \in 1 .. PageBlocks - 1
  BY <1>1, <1>7 DEF WellFormed, StateOf
<1>9. ASSUME NEW i \in h.used[p]
      PROVE  Updated(h, page_clear_used_bit(g, p, i), p, h.used[p] \ {i}, e)
  <2> DEFINE k == page_clear_used_bit(g, p, i)
             u == h.used[p] \ {i}
  <2>1. k = [g EXCEPT !.used[p] = @ \ {i}]
    BY <1>5 DEF page_clear_used_bit, expect
  <2>2. k \in SizeClassType
    BY <1>1, <1>5, <1>7, ClearUsedBit
  <2>3. /\ k.ok /\ k.nfull = g.nfull /\ k.source = g.source
        /\ k.list_flags = [h.list_flags EXCEPT ![p] = flag]
        /\ k.used = [h.used EXCEPT ![p] = u]
        /\ k.nr_used = [h.nr_used EXCEPT ![p] = n]
        /\ k.sourceentries = [h.sourceentries EXCEPT ![p] = e]
    BY <1>1, <1>4, <1>5, <2>1 DEF SizeClassType
  <2> HIDE DEF k
  <2>4. Lists(k)
    BY <1>4, <1>5, <1>6, <2>3 DEF Lists, flagged
  <2>5. n = Cardinality(u)
    BY <1>7, UsedBlocks
  <2>6. n \in Nat /\ n < PageBlocks /\ e > 0
    BY <1>7, <1>8, PageBlocksAssumption
  <2> HIDE DEF n, u, e
  <2>7. StateOf(flag, u, n, e)
    <3>1. CASE n = 0
      BY <2>5, <2>6, <3>1 DEF StateOf
    <3>2. CASE n # 0
      BY <2>5, <2>6, <3>2, PageBlocksAssumption DEF StateOf
    <3> QED
      BY <3>1, <3>2
  <2> HIDE DEF flag
  <2> QED
    BY <1>1, <2>2, <2>3, <2>4, <2>7, PageUpdated DEF k, u
<1> HIDE DEF n, e
<1>10. g.used[p] \in SUBSET Index /\ g.used[p] # {} /\ h.list_flags[p] # "full"
  BY <1>5, <1>7
<1> QED
  BY <1>1, <1>5, <1>9, <1>10 DEF p, g, e

-----------------------------------------------------------------------------
(* Taking a block for a new object.                                        *)
LEMMA OpenedPage ==
  ASSUME NEW h, WellFormed(h), NEW p \in malloc_pages(h)
  PROVE  LET g == IF h.nfull = <<>>
                  THEN add_page_to_nfull_list(get_free_page(h, p), p) ELSE h
         IN  /\ p \in Page
             /\ g \in SizeClassType /\ g.ok /\ Lists(g)
             /\ g.list_flags = [h.list_flags EXCEPT ![p] = "nfull"]
             /\ g.used = h.used /\ g.nr_used = h.nr_used
             /\ g.sourceentries = h.sourceentries
             /\ h.sourceentries[p] = 0
             /\ h.nr_used[p] \in 0 .. PageBlocks - 1
<1>1. h \in SizeClassType /\ h.ok /\ Lists(h)
  BY DEF WellFormed
<1>2. CASE h.nfull = <<>>
  <2> DEFINE f == get_free_page(h, p)
             g == add_page_to_nfull_list(f, p)
  <2>1. p \in Page /\ h.list_flags[p] = "free"
    BY <1>2 DEF malloc_pages, free_pages
  <2>2. h.sourceentries[p] = 0 /\ h.nr_used[p] = 0
    BY <1>1, <2>1 DEF WellFormed, StateOf
  <2>3. f = [h EXCEPT !.list_flags[p] = "none", !.nr_used[p] = 0]
    BY <1>1, <2>1 DEF get_free_page, expect
  <2>4. f \in SizeClassType
    BY <1>1, <2>1, GetFree
  <2>5. /\ f.ok /\ f.nfull = h.nfull /\ f.source = h.source
        /\ f.list_flags = [h.list_flags EXCEPT ![p] = "none"]
        /\ f.list_flags[p] = "none"
        /\ f.used = h.used /\ f.nr_used = h.nr_used
        /\ f.sourceentries = h.sourceentries
    BY <1>1, <2>1, <2>2, <2>3 DEF SizeClassType
  <2> HIDE DEF f
  <2>6. flagged(f, "nfull") = flagged(h, "nfull") /\ flagged(f, "source") = flagged(h, "source")
    BY <1>1, <2>1, <2>5 DEF flagged, SizeClassType
  <2>7. Lists(f)
    BY <1>1, <2>5, <2>6 DEF Lists
  <2>8. Relinked(f, g, p, "nfull")
    BY <2>1, <2>4, <2>5, <2>7, AddNfullLink
  <2> HIDE DEF g
  <2>9. /\ g \in SizeClassType /\ g.ok /\ Lists(g)
        /\ g.list_flags = [h.list_flags EXCEPT ![p] = "nfull"]
        /\ g.used = h.used /\ g.nr_used = h.nr_used
        /\ g.sourceentries = h.sourceentries
    BY <2>5, <2>8 DEF Relinked
  <2>10. h.nr_used[p] \in 0 .. PageBlocks - 1
    BY <2>2, PageBlocksAssumption
  <2> QED
    BY <1>2, <2>1, <2>2, <2>9, <2>10 DEF g, f
<1>3. CASE h.nfull # <<>>
  <2>1. p = h.nfull[Len(h.nfull)] /\ h.nfull \in Seq(Page)
    BY <1>1, <1>3 DEF malloc_pages, Last, SizeClassType
  <2>2. Len(h.nfull) \in 1 .. Len(h.nfull) /\ p \in Page
    BY <1>3, <2>1
  <2>3. p \in flagged(h, "nfull")
    BY <1>1, <2>1, <2>2 DEF Lists, ListOf, on_list
  <2>4. h.list_flags[p] = "nfull" /\ h.list_flags = [h.list_flags EXCEPT ![p] = "nfull"]
    BY <1>1, <2>3 DEF flagged, SizeClassType
  <2>5. h.sourceentries[p] = 0 /\ h.nr_used[p] \in 1 .. PageBlocks - 1
    BY <2>2, <2>4 DEF WellFormed, StateOf
  <2> QED
    BY <1>1, <1>3, <2>2, <2>4, <2>5, PageBlocksAssumption
<1> QED
  BY <1>2, <1>3

LEMMA MallocPage ==
  ASSUME NEW h, WellFormed(h), NEW p \in malloc_pages(h)
  PROVE  LET open  == IF h.nfull = <<>>
                      THEN add_page_to_nfull_list(get_free_page(h, p), p) ELSE h
             taken == get_free_page_block(open, p)
             g     == IF is_page_full(taken, p)
                      THEN add_page_to_full_list(remove_page_from_nfull_list(taken, p), p)
                      ELSE taken
             i     == free_index(open, p)
         IN  /\ p \in Page
             /\ taken.ok
             /\ h.sourceentries[p] = 0
             /\ i \in Index \ h.used[p]
             /\ Updated(h, g, p, h.used[p] \cup {i}, 0)
<1> DEFINE open  == IF h.nfull = <<>>
                    THEN add_page_to_nfull_list(get_free_page(h, p), p) ELSE h
           taken == get_free_page_block(open, p)
           r     == remove_page_from_nfull_list(taken, p)
           full  == add_page_to_full_list(r, p)
           g     == IF is_page_full(taken, p) THEN full ELSE taken
           i     == free_index(open, p)
           u     == h.used[p] \cup {i}
           n     == h.nr_used[p] + 1
           flag  == IF n = PageBlocks THEN "full" ELSE "nfull"
<1>1. /\ p \in Page
      /\ open \in SizeClassType /\ open.ok /\ Lists(open)
      /\ open.list_flags = [h.list_flags EXCEPT ![p] = "nfull"]
      /\ open.used = h.used /\ open.nr_used = h.nr_used
      /\ open.sourceentries = h.sourceentries
      /\ h.sourceentries[p] = 0
      /\ h.nr_used[p] \in 0 .. PageBlocks - 1
  BY OpenedPage
<1> HIDE DEF open
<1>2. /\ h \in SizeClassType /\ h.used[p] \in SUBSET Index
      /\ h.nr_used[p] = Cardinality(h.used[p])
  BY <1>1, PageFacts
<1>3. i \in Index \ h.used[p] /\ Index \ open.used[p] # {}
  <2>1. h.used[p] # Index
    BY <1>1, <1>2, UsedBlocks, PageBlocksAssumption
  <2> QED
    BY <1>1, <1>2, <2>1, FreeIndex
<1>4. taken = [open EXCEPT !.used[p] = @ \cup {i}, !.nr_used[p] = @ + 1]
  BY <1>1, <1>3 DEF get_free_page_block, expect
<1>5. taken \in SizeClassType
  BY <1>1, GetFreeBlock
<1> HIDE DEF i
<1>6. /\ taken.ok /\ taken.nfull = open.nfull /\ taken.source = open.source
      /\ taken.list_flags = [h.list_flags EXCEPT ![p] = "nfull"]
      /\ taken.list_flags[p] = "nfull"
      /\ taken.used = [h.used EXCEPT ![p] = u]
      /\ taken.nr_used = [h.nr_used EXCEPT ![p] = n]
      /\ taken.nr_used[p] = n
      /\ taken.sourceentries = h.sourceentries
  <2> HIDE DEF taken
  <2>1. open.used[p] \cup {i} = u /\ open.nr_used[p] + 1 = n
    BY <1>1
  <2> HIDE DEF u, n
  <2>2. /\ taken.ok = open.ok /\ taken.nfull = open.nfull /\ taken.source = open.source
        /\ taken.list_flags = open.list_flags
        /\ taken.used = [open.used EXCEPT ![p] = u]
        /\ taken.nr_used = [open.nr_used EXCEPT ![p] = n]
        /\ taken.sourceentries = open.sourceentries
    BY <1>1, <1>4, <2>1 DEF SizeClassType
  <2>3. taken.list_flags[p] = "nfull" /\ taken.nr_used[p] = n
    BY <1>1, <1>2, <2>2 DEF SizeClassType
  <2> QED
    BY <1>1, <2>2, <2>3
<1> HIDE DEF taken
<1>7. Lists(taken)
  <2>1. taken.list_flags = open.list_flags
    BY <1>1, <1>6
  <2> QED
    BY <1>1, <1>6, <2>1 DEF Lists, flagged
<1>8. /\ g \in SizeClassType /\ g.ok /\ Lists(g)
      /\ g.list_flags = [h.list_flags EXCEPT ![p] = flag]
      /\ g.used = taken.used /\ g.nr_used = taken.nr_used
      /\ g.sourceentries = taken.sourceentries
  <2>1. CASE n # PageBlocks
    BY <1>5, <1>6, <1>7, <2>1 DEF is_page_full
  <2>2. CASE n = PageBlocks
    <3>1. g = full
      BY <1>6, <2>2 DEF is_page_full
    <3>2. Relinked(taken, r, p, "none")
      BY <1>1, <1>5, <1>6, <1>7, RemoveNfullLink
    <3>3. r \in SizeClassType /\ r.ok /\ Lists(r) /\ r.list_flags[p] = "none"
      BY <1>1, <1>5, <3>2 DEF Relinked, SizeClassType
    <3>4. Relinked(r, full, p, "full")
      BY <1>1, <3>3, AddFullLink
    <3> HIDE DEF r, full
    <3>5. Relinked(taken, full, p, "full")
      BY <1>1, <1>5, <3>2, <3>4, Relink
    <3> QED
      BY <1>6, <2>2, <3>1, <3>5 DEF Relinked
  <2> QED
    BY <2>1, <2>2
<1> HIDE DEF r, full, g
<1>9. n = Cardinality(u) /\ n \in 1 .. PageBlocks
  BY <1>1, <1>2, <1>3, UsedBlocks, PageBlocksAssumption
<1> HIDE DEF u, n
<1>10. StateOf(flag, u, n, 0)
  <2>1. CASE n = PageBlocks
    BY <1>9, <2>1 DEF StateOf
  <2>2. CASE n # PageBlocks
    BY <1>9, <2>2, PageBlocksAssumption DEF StateOf
  <2> QED
    BY <2>1, <2>2
<1>11. g.sourceentries = [h.sourceentries EXCEPT ![p] = 0]
  BY <1>1, <1>2, <1>6, <1>8 DEF SizeClassType
<1> HIDE DEF flag
<1>12. Updated(h, g, p, u, 0)
  BY <1>1, <1>6, <1>8, <1>10, <1>11, PageUpdated
<1> QED
  BY <1>1, <1>3, <1>6, <1>12 DEF open, taken, r, full, g, i, u

(* A class begins with all its pages free.                                 *)
LEMMA InitWellFormed ==
  /\ WellFormed(init_size_class)
  /\ \A p \in Page : init_size_class.used[p] = {} /\ init_size_class.sourceentries[p] = 0
<1>1. init_size_class \in SizeClassType /\ init_size_class.ok
  BY DEF init_size_class, SizeClassType, ListFlag
<1>2. Lists(init_size_class)
  BY DEF Lists, ListOf, flagged, on_list, init_size_class
<1>3. Cardinality({}) = 0
  BY FS_EmptySet
<1>4. \A p \in Page : StateOf("free", {}, 0, 0)
  BY <1>3 DEF StateOf
<1>5. \A p \in Page : StateOf(init_size_class.list_flags[p], init_size_class.used[p],
                              init_size_class.nr_used[p], init_size_class.sourceentries[p])
  BY <1>4 DEF init_size_class
<1>6. \A p \in Page : init_size_class.used[p] = {} /\ init_size_class.sourceentries[p] = 0
  BY DEF init_size_class
<1> QED
  BY <1>1, <1>2, <1>5, <1>6, Zenon DEF WellFormed

-----------------------------------------------------------------------------
(* The blocks whose used bit is set.                                       *)
used_blocks(h) == {b \in Block : index_of(b) \in h.used[page_of(b)]}

LEMMA BlockPair ==
  /\ \A b \in Block : page_of(b) \in Page /\ index_of(b) \in Index /\ b = <<page_of(b), index_of(b)>>
  /\ \A p \in Page, i \in Index :
       <<p, i>> \in Block /\ page_of(<<p, i>>) = p /\ index_of(<<p, i>>) = i
  /\ \A b, d \in Block : page_of(b) = page_of(d) /\ index_of(b) = index_of(d) => b = d
BY DEF Block, page_of, index_of


LEMMA BlockPage ==
  \A b \in Block : page_of(b) \in Page
BY BlockPair
LEMMA UsedUpdated ==
  ASSUME NEW h, WellFormed(h), NEW b \in Block, NEW g, NEW u, NEW e,
         Updated(h, g, page_of(b), u, e)
  PROVE  /\ WellFormed(g)
         /\ g.sourceentries = [h.sourceentries EXCEPT ![page_of(b)] = e]
         /\ h.sourceentries \in [Page -> Int]
         /\ u = h.used[page_of(b)] \ {index_of(b)} => used_blocks(g) = used_blocks(h) \ {b}
         /\ u = h.used[page_of(b)] \cup {index_of(b)} => used_blocks(g) = used_blocks(h) \cup {b}
         /\ u = h.used[page_of(b)] => used_blocks(g) = used_blocks(h)
<1>1. /\ h.used \in [Page -> SUBSET Index] /\ h.sourceentries \in [Page -> Int]
      /\ g.used = [h.used EXCEPT ![page_of(b)] = u]
  BY DEF WellFormed, SizeClassType, Updated
<1>2. ASSUME NEW d \in Block
      PROVE  /\ page_of(d) = page_of(b) => g.used[page_of(d)] = u
             /\ page_of(d) # page_of(b) => g.used[page_of(d)] = h.used[page_of(d)]
             /\ page_of(d) = page_of(b) /\ index_of(d) = index_of(b) <=> d = b
  BY <1>1, BlockPair
<1>3. u = h.used[page_of(b)] \ {index_of(b)} => used_blocks(g) = used_blocks(h) \ {b}
  BY <1>2 DEF used_blocks
<1>4. u = h.used[page_of(b)] \cup {index_of(b)} => used_blocks(g) = used_blocks(h) \cup {b}
  BY <1>2 DEF used_blocks
<1>5. u = h.used[page_of(b)] => used_blocks(g) = used_blocks(h)
  BY <1>2 DEF used_blocks
<1> QED
  BY <1>1, <1>3, <1>4, <1>5, Zenon DEF Updated

LEMMA SameEntries ==
  ASSUME NEW e \in [Page -> Int], NEW p \in Page
  PROVE  [e EXCEPT ![p] = e[p]] = e
OBVIOUS

(* A class in the full state has no page that is not full or a source.     *)
LEMMA FullStateFlags ==
  ASSUME NEW h, WellFormed(h), in_full_state(h), NEW p \in Page
  PROVE  h.list_flags[p] \notin {"nfull", "source"}
<1>1. h.nfull = <<>> /\ h.source = <<>>
  <2>1. h.nfull \in Seq(Page)
    BY DEF WellFormed, SizeClassType
  <2> QED
    BY <2>1 DEF in_full_state, nfullentries
<1>2. ~on_list(h.nfull, p) /\ ~on_list(h.source, p)
  BY <1>1 DEF on_list
<1> QED
  BY <1>2 DEF WellFormed, Lists, ListOf, flagged

LEMMA FreedUsedBlock ==
  ASSUME NEW h, WellFormed(h), NEW b \in used_blocks(h), NEW g,
         \/ in_full_state(h) /\ g = do_free_full_state(h, page_of(b), index_of(b))
         \/ g = do_free(h, page_of(b), index_of(b))
         \/ ~is_page_full(h, page_of(b)) /\ g = do_free_nfull_state(h, page_of(b), index_of(b))
  PROVE  /\ WellFormed(g)
         /\ g.sourceentries = h.sourceentries
         /\ used_blocks(g) = used_blocks(h) \ {b}
<1> DEFINE p == page_of(b)
           i == index_of(b)
<1>1. b \in Block /\ p \in Page /\ i \in h.used[p]
  BY BlockPair DEF used_blocks
<1>2. Updated(h, g, p, h.used[p] \ {i}, h.sourceentries[p])
  <2> HIDE DEF p, i
  <2>1. ASSUME in_full_state(h) PROVE h.list_flags[p] = "full"
    <3>1. h.used[p] # {}
      BY <1>1
    <3> QED
      BY <1>1, <2>1, <3>1, PageFacts, FullStateFlags
  <2>2. CASE in_full_state(h) /\ g = do_free_full_state(h, p, i)
    BY <1>1, <2>1, <2>2, FreeFullPage
  <2>3. CASE g = do_free(h, p, i)
    BY <1>1, <2>3, FreePage
  <2>4. CASE ~is_page_full(h, p) /\ g = do_free_nfull_state(h, p, i)
    BY <1>1, <2>4, FreeNfullPage
  <2> QED
    BY <2>2, <2>3, <2>4 DEF p, i
<1>3. h.sourceentries \in [Page -> Int]
  BY DEF WellFormed, SizeClassType
<1> QED
  BY <1>1, <1>2, <1>3, UsedUpdated, SameEntries

(* The page of a block that was copied is released.                        *)
LEMMA ReleasedPage ==
  ASSUME NEW h, WellFormed(h), NEW b \in Block, h.sourceentries[page_of(b)] > 0, NEW g,
         \/ g = release_source_page(h, page_of(b))
         \/ h.list_flags[page_of(b)] = "emptying" /\ g = release_emptying_page(h, page_of(b))
  PROVE  /\ WellFormed(g)
         /\ g.sourceentries
            = [h.sourceentries EXCEPT ![page_of(b)] = h.sourceentries[page_of(b)] - 1]
         /\ used_blocks(g) = used_blocks(h)
<1>1. page_of(b) \in Page
  BY BlockPair
<1>2. Updated(h, g, page_of(b), h.used[page_of(b)], h.sourceentries[page_of(b)] - 1)
  BY <1>1, ReleasePage, ReleaseEmptied
<1> QED
  BY <1>2, UsedUpdated
=============================================================================
