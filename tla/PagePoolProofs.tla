--------------------------- MODULE PagePoolProofs ---------------------------
(***************************************************************************)
(* Proofs about PagePool, for every number of pages and threads and every  *)
(* length of the lists.                                                    *)
(*                                                                         *)
(* The invariant knows of every page which list it is in and where (in and *)
(* at, PagesPlaced), and of every full list, by its first page, which list *)
(* of lists it is in and where (hin and hat, HeadsPlaced).  The lists are  *)
(* apart because a page has one place; that they can be walked from the    *)
(* data of the threads and the top of the stack is what each step keeps.   *)
(* An operation does a few things one after the other, a lemma for each.   *)
(***************************************************************************)
EXTENDS PagePool, LinkedLists

Open(t) == <<"open", t>>
Full(h) == <<"full", h>>
Used == <<"used", Null>>

Kept(t) == <<"kept", t>>
Stack == <<"stack", Null>>
None == <<"none", Null>>

LEMMA PageNames ==
  /\ \A t : Open(t) # Used
  /\ \A h : Full(h) # Used
  /\ \A t, h : Open(t) # Full(h)
  /\ \A t, u : Open(t) = Open(u) => t = u
  /\ \A h, g : Full(h) = Full(g) => h = g
BY DEF Open, Full, Used

LEMMA HeadNames ==
  /\ \A t : Kept(t) # None /\ Kept(t) # Stack
  /\ Stack # None
  /\ \A t, u : Kept(t) = Kept(u) => t = u
BY DEF Kept, Stack, None

(* Where the pages are: lp is local_pages, us are the pages in use, D is   *)
(* the data of the threads and H has the first pages of the full lists.    *)
PagesPlaced(lp, us, D, in, at, H) ==
  /\ \A t \in Thread : IsList(Page, lp, in, at, Open(t), D[t].pages, D[t].pages_count)
  /\ \A h \in H : IsList(Page, lp, in, at, Full(h), h, nr_local_pages)
  /\ \A p \in Page : \/ in[p] = Used
                     \/ \E t \in Thread : in[p] = Open(t)
                     \/ \E h \in H : in[p] = Full(h)
  /\ \A p \in Page : p \in us <=> in[p] = Used
  /\ \A p \in Page : in[p] # Used => lp[p] \in Page \cup {Null}
  /\ H \subseteq Page /\ us \subseteq Page

(* Where the full lists are: nx is next, hd is free_page_head, and there   *)
(* are m full lists on the stack.                                          *)
HeadsPlaced(nx, hd, D, hin, hat, H, m) ==
  /\ \A t \in Thread : IsList(Page, nx, hin, hat, Kept(t), D[t].pbuckets, D[t].pbuckets_count)
  /\ \A t \in Thread : D[t].pbuckets_count > 0 =>
       D[t].last_pbucket \in Page /\ hin[D[t].last_pbucket] = Kept(t) /\ hat[D[t].last_pbucket] = 1
  /\ IsList(Page, nx, hin, hat, Stack, hd, m)
  /\ m = 0 => hd = Null
  /\ \A h \in Page : hin[h] = Stack /\ hat[h] = 1 => nx[h] = Null
  /\ \A h \in Page : hin[h] = None \/ hin[h] = Stack \/ \E t \in Thread : hin[h] = Kept(t)
  /\ \A h \in Page : h \in H <=> hin[h] # None
  /\ \A h \in H : nx[h] \in Page \cup {Null}
  /\ H \subseteq Page

-----------------------------------------------------------------------------
(* What an operation does to the pages. *)

(* D2 has the lists and the kept buckets of D for the threads of S. *)
SamePages(D, D2, S) == \A u \in S : D2[u].pages = D[u].pages /\ D2[u].pages_count = D[u].pages_count

SameKept(D, D2, S) ==
  \A u \in S : /\ D2[u].pbuckets = D[u].pbuckets
               /\ D2[u].pbuckets_count = D[u].pbuckets_count
               /\ D2[u].last_pbucket = D[u].last_pbucket

(* D2 is D when t has taken p, the first page of its list. *)
FirstTaken(lp, lp2, D, D2, t, p) ==
  /\ t \in Thread /\ D[t].pages_count > 0 /\ p = D[t].pages
  /\ SamePages(D, D2, Thread \ {t})
  /\ D2[t].pages = lp[p] /\ D2[t].pages_count = D[t].pages_count - 1
  /\ \A q \in Page \ {p} : lp2[q] = lp[q]

(* A set with p, and without p. *)
Gains(S, S2, p) == S2 = S \cup {p}
Loses(S, S2, p) == S2 = S \ {p}

(* D2 is D when the list of t, which was empty, is the one of head h. *)
ListTaken(D, D2, t, h) ==
  /\ t \in Thread /\ D[t].pages_count = 0
  /\ SamePages(D, D2, Thread \ {t})
  /\ D2[t].pages = h /\ D2[t].pages_count = nr_local_pages

(* D2 is D when t has taken the first of its full lists, of head h. *)
KeptTaken(nx, D, D2, t, h) ==
  /\ t \in Thread /\ D[t].pbuckets_count > 0 /\ h = D[t].pbuckets
  /\ SameKept(D, D2, Thread \ {t})
  /\ D2[t].pbuckets = nx[h] /\ D2[t].pbuckets_count = D[t].pbuckets_count - 1
  /\ D2[t].last_pbucket = D[t].last_pbucket

LEMMA PutPages ==
  ASSUME NEW lp, NEW us, NEW D, NEW in, NEW at, NEW H,
         PagesPlaced(lp, us, D, in, at, H), lp \in [Page -> Link],
         NEW t \in Thread, D[t].pages \in Page \cup {Null},
         NEW p \in us,
         NEW D2, SamePages(D, D2, Thread \ {t}),
         D2[t].pages = p, D2[t].pages_count = D[t].pages_count + 1
  PROVE  \E in2, at2 : PagesPlaced([lp EXCEPT ![p] = D[t].pages], us \ {p}, D2, in2, at2, H)
<1> USE DEF SamePages
<1> DEFINE lp2 == [lp EXCEPT ![p] = D[t].pages]
           in2 == [q \in Page |-> IF q = p THEN Open(t) ELSE in[q]]
           at2 == [q \in Page |-> IF q = p THEN D[t].pages_count + 1 ELSE at[q]]
<1>1. p \in Page /\ in[p] = Used
  BY DEF PagesPlaced
<1>2. /\ in2[p] = Open(t) /\ at2[p] = D[t].pages_count + 1 /\ lp2[p] = D[t].pages
      /\ \A q \in Page \ {p} : in2[q] = in[q] /\ at2[q] = at[q] /\ lp2[q] = lp[q]
  BY <1>1
<1> HIDE DEF lp2, in2, at2
<1>3. IsList(Page, lp2, in2, at2, Open(t), p, D[t].pages_count + 1)
  <2>1. IsList(Page, lp, in, at, Open(t), D[t].pages, D[t].pages_count)
    BY DEF PagesPlaced
  <2>2. in[p] # Open(t)
    BY <1>1, PageNames
  <2>3. \A g \in Page : in2[g] = Open(t) <=> in[g] = Open(t) \/ g = p
    BY <1>2
  <2>4. \A g \in Page : in[g] = Open(t) => at2[g] = at[g] /\ (at[g] > 1 => lp2[g] = lp[g])
    BY <1>2, <2>2
  <2>5. at2[p] = D[t].pages_count + 1 /\ (D[t].pages_count > 0 => lp2[p] = D[t].pages)
    BY <1>2
  <2> QED
    BY ONLY <1>1, <2>1, <2>2, <2>3, <2>4, <2>5, PutFirst
<1>4. ASSUME NEW u \in Thread, u # t
      PROVE  IsList(Page, lp2, in2, at2, Open(u), D[u].pages, D[u].pages_count)
  <2>1. IsList(Page, lp, in, at, Open(u), D[u].pages, D[u].pages_count)
    BY DEF PagesPlaced
  <2>2. \A g \in Page : in2[g] = Open(u) <=> in[g] = Open(u)
    BY <1>1, <1>2, <1>4, PageNames
  <2>3. \A g \in Page : in[g] = Open(u) => at2[g] = at[g] /\ (at[g] > 1 => lp2[g] = lp[g])
    BY <1>1, <1>2, PageNames
  <2> QED
    BY ONLY <2>1, <2>2, <2>3, SameList
<1>5. ASSUME NEW h \in H
      PROVE  IsList(Page, lp2, in2, at2, Full(h), h, nr_local_pages)
  <2>1. IsList(Page, lp, in, at, Full(h), h, nr_local_pages)
    BY DEF PagesPlaced
  <2>2. \A g \in Page : in2[g] = Full(h) <=> in[g] = Full(h)
    BY <1>1, <1>2, PageNames
  <2>3. \A g \in Page : in[g] = Full(h) => at2[g] = at[g] /\ (at[g] > 1 => lp2[g] = lp[g])
    BY <1>1, <1>2, PageNames
  <2> QED
    BY ONLY <2>1, <2>2, <2>3, SameList
<1>6. \A u \in Thread : IsList(Page, lp2, in2, at2, Open(u), D2[u].pages, D2[u].pages_count)
  <2> TAKE u \in Thread
  <2>1. CASE u = t
    BY <1>3, <2>1
  <2>2. CASE u # t
    BY <1>4, <2>2
  <2> QED BY <2>1, <2>2
<1>7. \A q \in Page : \/ in2[q] = Used
                      \/ \E u \in Thread : in2[q] = Open(u)
                      \/ \E h \in H : in2[q] = Full(h)
  BY <1>2 DEF PagesPlaced
<1>8. \A q \in Page : q \in us \ {p} <=> in2[q] = Used
  BY <1>2, PageNames DEF PagesPlaced
<1>9. \A q \in Page : in2[q] # Used => lp2[q] \in Page \cup {Null}
  BY <1>2 DEF PagesPlaced
<1>10. PagesPlaced(lp2, us \ {p}, D2, in2, at2, H)
  BY <1>5, <1>6, <1>7, <1>8, <1>9 DEF PagesPlaced
<1> QED
  BY <1>10 DEF lp2

LEMMA TakePages ==
  ASSUME NEW lp, NEW us, NEW D, NEW in, NEW at, NEW H,
         PagesPlaced(lp, us, D, in, at, H), lp \in [Page -> Link],
         NEW t, NEW p, NEW lp2, NEW D2, FirstTaken(lp, lp2, D, D2, t, p),
         NEW us2, Gains(us, us2, p)
  PROVE  /\ p \in Page /\ p \notin us /\ p \notin H /\ lp[p] \in Page \cup {Null}
         /\ \E in2, at2 : PagesPlaced(lp2, us2, D2, in2, at2, H)
<1> USE DEF SamePages, FirstTaken, Gains
<1> DEFINE in2 == [q \in Page |-> IF q = p THEN Used ELSE in[q]]
<1>1. p \in Page /\ in[p] = Open(t)
  BY DEF PagesPlaced, IsList
<1>2. /\ in2[p] = Used
      /\ \A q \in Page \ {p} : in2[q] = in[q] /\ lp2[q] = lp[q]
  BY <1>1
<1>3. p \notin us /\ lp[p] \in Page \cup {Null}
  BY <1>1, PageNames DEF PagesPlaced
<1>4. p \notin H
  <2>1. p \in H => IsList(Page, lp, in, at, Full(p), p, nr_local_pages)
    BY DEF PagesPlaced
  <2>2. p \in H => in[p] = Full(p)
    BY <2>1, LimitsAssumption DEF IsList
  <2> QED BY <1>1, <2>2, PageNames
<1> HIDE DEF in2
<1>5. IsList(Page, lp2, in2, at, Open(t), lp[p], D[t].pages_count - 1)
  <2>1. IsList(Page, lp, in, at, Open(t), p, D[t].pages_count)
    BY DEF PagesPlaced
  <2>2. \A g \in Page : in2[g] = Open(t) <=> in[g] = Open(t) /\ g # p
    BY <1>2, PageNames
  <2>3. \A g \in Page : in[g] = Open(t) /\ g # p => at[g] = at[g] /\ (at[g] > 1 => lp2[g] = lp[g])
    BY <1>2
  <2>4. D[t].pages_count > 0
    OBVIOUS
  <2> QED
    BY ONLY <2>1, <2>2, <2>3, <2>4, TakeFirst
<1>6. ASSUME NEW u \in Thread, u # t
      PROVE  IsList(Page, lp2, in2, at, Open(u), D[u].pages, D[u].pages_count)
  <2>1. IsList(Page, lp, in, at, Open(u), D[u].pages, D[u].pages_count)
    BY DEF PagesPlaced
  <2>2. \A g \in Page : in2[g] = Open(u) <=> in[g] = Open(u)
    BY <1>1, <1>2, <1>6, PageNames
  <2>3. \A g \in Page : in[g] = Open(u) => at[g] = at[g] /\ (at[g] > 1 => lp2[g] = lp[g])
    BY <1>1, <1>2, <1>6, PageNames
  <2> QED
    BY ONLY <2>1, <2>2, <2>3, SameList
<1>7. ASSUME NEW h \in H
      PROVE  IsList(Page, lp2, in2, at, Full(h), h, nr_local_pages)
  <2>1. IsList(Page, lp, in, at, Full(h), h, nr_local_pages)
    BY DEF PagesPlaced
  <2>2. \A g \in Page : in2[g] = Full(h) <=> in[g] = Full(h)
    BY <1>1, <1>2, PageNames
  <2>3. \A g \in Page : in[g] = Full(h) => at[g] = at[g] /\ (at[g] > 1 => lp2[g] = lp[g])
    BY <1>1, <1>2, PageNames
  <2> QED
    BY ONLY <2>1, <2>2, <2>3, SameList
<1>8. \A u \in Thread : IsList(Page, lp2, in2, at, Open(u), D2[u].pages, D2[u].pages_count)
  <2> TAKE u \in Thread
  <2>1. CASE u = t
    BY <1>5, <2>1
  <2>2. CASE u # t
    BY <1>6, <2>2
  <2> QED BY <2>1, <2>2
<1>9. \A q \in Page : \/ in2[q] = Used
                      \/ \E u \in Thread : in2[q] = Open(u)
                      \/ \E h \in H : in2[q] = Full(h)
  BY <1>2 DEF PagesPlaced
<1>10. \A q \in Page : q \in us2 <=> in2[q] = Used
  BY <1>2, PageNames DEF PagesPlaced
<1>11. \A q \in Page : in2[q] # Used => lp2[q] \in Page \cup {Null}
  BY <1>2 DEF PagesPlaced
<1>12. H \subseteq Page /\ us2 \subseteq Page
  BY <1>1 DEF PagesPlaced
<1>13. PagesPlaced(lp2, us2, D2, in2, at, H)
  BY <1>7, <1>8, <1>9, <1>10, <1>11, <1>12 DEF PagesPlaced
<1> QED
  BY <1>1, <1>3, <1>4, <1>13

LEMMA FetchPages ==
  ASSUME NEW lp, NEW us, NEW D, NEW in, NEW at, NEW H,
         PagesPlaced(lp, us, D, in, at, H),
         NEW h \in H, NEW t, NEW D2, ListTaken(D, D2, t, h),
         NEW H2, Loses(H, H2, h)
  PROVE  \E in2, at2 : PagesPlaced(lp, us, D2, in2, at2, H2)
<1> USE DEF SamePages, ListTaken, Loses
<1> DEFINE in2 == [q \in Page |-> IF in[q] = Full(h) THEN Open(t) ELSE in[q]]
<1>1. \A q \in Page : in2[q] = IF in[q] = Full(h) THEN Open(t) ELSE in[q]
  OBVIOUS
<1> HIDE DEF in2
<1>2. \A q \in Page : in[q] # Open(t)
  <2>1. IsList(Page, lp, in, at, Open(t), D[t].pages, 0)
    BY DEF PagesPlaced
  <2> QED BY <2>1, EmptyList
<1>3. IsList(Page, lp, in2, at, Open(t), h, nr_local_pages)
  <2>1. IsList(Page, lp, in, at, Full(h), h, nr_local_pages)
    BY DEF PagesPlaced
  <2>2. \A g \in Page : in2[g] = Open(t) <=> in[g] = Full(h)
    BY <1>1, <1>2
  <2>3. \A g \in Page : in[g] = Full(h) => at[g] = at[g] /\ (at[g] > 1 => lp[g] = lp[g])
    OBVIOUS
  <2> QED
    BY ONLY <2>1, <2>2, <2>3, SameList
<1>4. ASSUME NEW u \in Thread, u # t
      PROVE  IsList(Page, lp, in2, at, Open(u), D[u].pages, D[u].pages_count)
  <2>1. IsList(Page, lp, in, at, Open(u), D[u].pages, D[u].pages_count)
    BY DEF PagesPlaced
  <2>2. \A g \in Page : in2[g] = Open(u) <=> in[g] = Open(u)
    BY <1>1, <1>4, PageNames
  <2>3. \A g \in Page : in[g] = Open(u) => at[g] = at[g] /\ (at[g] > 1 => lp[g] = lp[g])
    OBVIOUS
  <2> QED
    BY ONLY <2>1, <2>2, <2>3, SameList
<1>5. ASSUME NEW g \in H \ {h}
      PROVE  IsList(Page, lp, in2, at, Full(g), g, nr_local_pages)
  <2>1. IsList(Page, lp, in, at, Full(g), g, nr_local_pages)
    BY DEF PagesPlaced
  <2>2. \A q \in Page : in2[q] = Full(g) <=> in[q] = Full(g)
    BY <1>1, <1>5, PageNames
  <2>3. \A q \in Page : in[q] = Full(g) => at[q] = at[q] /\ (at[q] > 1 => lp[q] = lp[q])
    OBVIOUS
  <2> QED
    BY ONLY <2>1, <2>2, <2>3, SameList
<1>6. \A u \in Thread : IsList(Page, lp, in2, at, Open(u), D2[u].pages, D2[u].pages_count)
  <2> TAKE u \in Thread
  <2>1. CASE u = t
    BY <1>3, <2>1
  <2>2. CASE u # t
    BY <1>4, <2>2
  <2> QED BY <2>1, <2>2
<1>7. \A q \in Page : \/ in2[q] = Used
                      \/ \E u \in Thread : in2[q] = Open(u)
                      \/ \E g \in H \ {h} : in2[q] = Full(g)
  BY <1>1 DEF PagesPlaced
<1>8. \A q \in Page : q \in us <=> in2[q] = Used
  BY <1>1, PageNames DEF PagesPlaced
<1>9. \A q \in Page : in2[q] # Used => lp[q] \in Page \cup {Null}
  BY <1>1, PageNames DEF PagesPlaced
<1>10. PagesPlaced(lp, us, D2, in2, at, H2)
  BY <1>5, <1>6, <1>7, <1>8, <1>9 DEF PagesPlaced
<1> QED
  BY <1>10

LEMMA ClosePages ==
  ASSUME NEW lp, NEW us, NEW D, NEW in, NEW at, NEW H,
         PagesPlaced(lp, us, D, in, at, H),
         NEW t \in Thread, D[t].pages_count = nr_local_pages,
         NEW h, h = D[t].pages,
         NEW D2, SamePages(D, D2, Thread \ {t}),
         D2[t].pages_count = 0
  PROVE  /\ h \in Page /\ h \notin H
         /\ \E in2, at2 : PagesPlaced(lp, us, D2, in2, at2, H \cup {h})
<1> USE DEF SamePages
<1> DEFINE in2 == [q \in Page |-> IF in[q] = Open(t) THEN Full(h) ELSE in[q]]
<1>1. \A q \in Page : in2[q] = IF in[q] = Open(t) THEN Full(h) ELSE in[q]
  OBVIOUS
<1> HIDE DEF in2
<1>2. h \in Page /\ in[h] = Open(t)
  <2>1. IsList(Page, lp, in, at, Open(t), h, nr_local_pages)
    BY DEF PagesPlaced
  <2> QED BY <2>1, LimitsAssumption DEF IsList
<1>3. h \notin H
  <2>1. h \in H => IsList(Page, lp, in, at, Full(h), h, nr_local_pages)
    BY DEF PagesPlaced
  <2>2. h \in H => in[h] = Full(h)
    BY <2>1, LimitsAssumption DEF IsList
  <2> QED BY <1>2, <2>2, PageNames
<1>4. \A q \in Page : in[q] # Full(h)
  BY <1>3, PageNames DEF PagesPlaced
<1>5. IsList(Page, lp, in2, at, Full(h), h, nr_local_pages)
  <2>1. IsList(Page, lp, in, at, Open(t), h, nr_local_pages)
    BY DEF PagesPlaced
  <2>2. \A g \in Page : in2[g] = Full(h) <=> in[g] = Open(t)
    BY <1>1, <1>4
  <2>3. \A g \in Page : in[g] = Open(t) => at[g] = at[g] /\ (at[g] > 1 => lp[g] = lp[g])
    OBVIOUS
  <2> QED
    BY ONLY <2>1, <2>2, <2>3, SameList
<1>6. ASSUME NEW u \in Thread, u # t
      PROVE  IsList(Page, lp, in2, at, Open(u), D[u].pages, D[u].pages_count)
  <2>1. IsList(Page, lp, in, at, Open(u), D[u].pages, D[u].pages_count)
    BY DEF PagesPlaced
  <2>2. \A g \in Page : in2[g] = Open(u) <=> in[g] = Open(u)
    BY <1>1, <1>6, PageNames
  <2>3. \A g \in Page : in[g] = Open(u) => at[g] = at[g] /\ (at[g] > 1 => lp[g] = lp[g])
    OBVIOUS
  <2> QED
    BY ONLY <2>1, <2>2, <2>3, SameList
<1>7. ASSUME NEW g \in H
      PROVE  IsList(Page, lp, in2, at, Full(g), g, nr_local_pages)
  <2>1. IsList(Page, lp, in, at, Full(g), g, nr_local_pages)
    BY DEF PagesPlaced
  <2>2. \A q \in Page : in2[q] = Full(g) <=> in[q] = Full(g)
    BY <1>1, <1>3, PageNames
  <2>3. \A q \in Page : in[q] = Full(g) => at[q] = at[q] /\ (at[q] > 1 => lp[q] = lp[q])
    OBVIOUS
  <2> QED
    BY ONLY <2>1, <2>2, <2>3, SameList
<1>8. \A q \in Page : in2[q] # Open(t)
  BY <1>1, PageNames
<1>9. \A u \in Thread : IsList(Page, lp, in2, at, Open(u), D2[u].pages, D2[u].pages_count)
  <2> TAKE u \in Thread
  <2>1. CASE u = t
    BY <1>8, <2>1, EmptyList
  <2>2. CASE u # t
    BY <1>6, <2>2
  <2> QED BY <2>1, <2>2
<1>10. \A q \in Page : \/ in2[q] = Used
                       \/ \E u \in Thread : in2[q] = Open(u)
                       \/ \E g \in H \cup {h} : in2[q] = Full(g)
  BY <1>1 DEF PagesPlaced
<1>11. \A q \in Page : q \in us <=> in2[q] = Used
  BY <1>1, PageNames DEF PagesPlaced
<1>12. \A q \in Page : in2[q] # Used => lp[q] \in Page \cup {Null}
  BY <1>1, PageNames DEF PagesPlaced
<1>13. \A g \in H \cup {h} : IsList(Page, lp, in2, at, Full(g), g, nr_local_pages)
  BY <1>5, <1>7
<1>14. H \cup {h} \subseteq Page /\ us \subseteq Page
  BY <1>2 DEF PagesPlaced
<1>15. PagesPlaced(lp, us, D2, in2, at, H \cup {h})
  BY <1>9, <1>10, <1>11, <1>12, <1>13, <1>14 DEF PagesPlaced
<1> QED
  BY <1>2, <1>3, <1>15

-----------------------------------------------------------------------------
(* What an operation does to the full lists. *)

LEMMA HeadsSame ==
  ASSUME NEW nx, NEW hd, NEW D, NEW hin, NEW hat, NEW H, NEW m,
         HeadsPlaced(nx, hd, D, hin, hat, H, m),
         NEW nx2, \A h \in H : nx2[h] = nx[h],
         NEW D2, SameKept(D, D2, Thread)
  PROVE  HeadsPlaced(nx2, hd, D2, hin, hat, H, m)
<1> USE DEF SameKept
<1>1. \A h \in Page : hin[h] # None => nx2[h] = nx[h]
  BY DEF HeadsPlaced
<1>2. ASSUME NEW x, x # None, NEW first, NEW n, IsList(Page, nx, hin, hat, x, first, n)
      PROVE  IsList(Page, nx2, hin, hat, x, first, n)
  <2>1. \A g \in Page : hin[g] = x <=> hin[g] = x
    OBVIOUS
  <2>2. \A g \in Page : hin[g] = x => hat[g] = hat[g] /\ (hat[g] > 1 => nx2[g] = nx[g])
    BY <1>1, <1>2
  <2> QED
    BY ONLY <1>2, <2>1, <2>2, SameList
<1>3. \A u \in Thread : IsList(Page, nx2, hin, hat, Kept(u), D2[u].pbuckets, D2[u].pbuckets_count)
  BY <1>2, HeadNames DEF HeadsPlaced
<1>4. IsList(Page, nx2, hin, hat, Stack, hd, m)
  BY <1>2, HeadNames DEF HeadsPlaced
<1>5. \A h \in Page : hin[h] = Stack /\ hat[h] = 1 => nx2[h] = Null
  BY <1>1, HeadNames DEF HeadsPlaced
<1>6. \A h \in H : nx2[h] \in Page \cup {Null}
  BY <1>1 DEF HeadsPlaced
<1> QED
  BY <1>3, <1>4, <1>5, <1>6 DEF HeadsPlaced

LEMMA FetchKept ==
  ASSUME NEW nx, NEW hd, NEW D, NEW hin, NEW hat, NEW H, NEW m,
         HeadsPlaced(nx, hd, D, hin, hat, H, m),
         NEW t, NEW h, NEW D2, KeptTaken(nx, D, D2, t, h),
         NEW H2, Loses(H, H2, h)
  PROVE  /\ h \in H /\ nx[h] \in Page \cup {Null}
         /\ \E hin2, hat2 : HeadsPlaced(nx, hd, D2, hin2, hat2, H2, m)
<1> USE DEF SameKept, KeptTaken, Loses
<1> DEFINE hin2 == [q \in Page |-> IF q = h THEN None ELSE hin[q]]
<1>1. \A q \in Page : hin2[q] = IF q = h THEN None ELSE hin[q]
  OBVIOUS
<1> HIDE DEF hin2
<1>2. IsList(Page, nx, hin, hat, Kept(t), h, D[t].pbuckets_count)
  BY DEF HeadsPlaced
<1>3. h \in Page /\ hin[h] = Kept(t) /\ hat[h] = D[t].pbuckets_count /\ D[t].pbuckets_count \in Nat
  BY <1>2 DEF IsList
<1>4. h \in H /\ nx[h] \in Page \cup {Null}
  BY <1>3, HeadNames DEF HeadsPlaced
<1>5. ASSUME NEW x, x # None, x # Kept(t), NEW first, NEW n, IsList(Page, nx, hin, hat, x, first, n)
      PROVE  IsList(Page, nx, hin2, hat, x, first, n)
  <2>1. \A g \in Page : hin2[g] = x <=> hin[g] = x
    BY <1>1, <1>3, <1>5
  <2>2. \A g \in Page : hin[g] = x => hat[g] = hat[g] /\ (hat[g] > 1 => nx[g] = nx[g])
    OBVIOUS
  <2> QED
    BY ONLY <1>5, <2>1, <2>2, SameList
<1>6. IsList(Page, nx, hin2, hat, Kept(t), nx[h], D[t].pbuckets_count - 1)
  <2>1. \A g \in Page : hin2[g] = Kept(t) <=> hin[g] = Kept(t) /\ g # h
    BY <1>1, HeadNames
  <2>2. \A g \in Page : hin[g] = Kept(t) /\ g # h => hat[g] = hat[g] /\ (hat[g] > 1 => nx[g] = nx[g])
    OBVIOUS
  <2>3. D[t].pbuckets_count > 0
    OBVIOUS
  <2> QED
    BY ONLY <1>2, <2>1, <2>2, <2>3, TakeFirst
<1>7. ASSUME NEW u \in Thread
      PROVE  /\ IsList(Page, nx, hin2, hat, Kept(u), D2[u].pbuckets, D2[u].pbuckets_count)
             /\ D2[u].pbuckets_count > 0 =>
                  /\ D2[u].last_pbucket \in Page
                  /\ hin2[D2[u].last_pbucket] = Kept(u) /\ hat[D2[u].last_pbucket] = 1
  <2>1. CASE u = t
    <3>1. D2[u].pbuckets_count > 0 => D[t].last_pbucket # h
      BY <1>3, <2>1 DEF HeadsPlaced
    <3>2. D2[u].pbuckets_count > 0 =>
            /\ D[t].last_pbucket \in Page
            /\ hin[D[t].last_pbucket] = Kept(t) /\ hat[D[t].last_pbucket] = 1
      BY DEF HeadsPlaced
    <3> QED BY <1>1, <1>6, <2>1, <3>1, <3>2
  <2>2. CASE u # t
    <3>1. Kept(u) # Kept(t) /\ Kept(u) # None
      BY <2>2, HeadNames
    <3>2. IsList(Page, nx, hin, hat, Kept(u), D[u].pbuckets, D[u].pbuckets_count)
      BY DEF HeadsPlaced
    <3>3. IsList(Page, nx, hin2, hat, Kept(u), D[u].pbuckets, D[u].pbuckets_count)
      BY <1>5, <3>1, <3>2
    <3>4. D[u].pbuckets_count > 0 =>
            /\ D[u].last_pbucket \in Page
            /\ hin[D[u].last_pbucket] = Kept(u) /\ hat[D[u].last_pbucket] = 1
      BY DEF HeadsPlaced
    <3>5. D[u].pbuckets_count > 0 => D[u].last_pbucket # h
      BY <1>3, <3>1, <3>4
    <3> QED BY <1>1, <2>2, <3>3, <3>4, <3>5
  <2> QED BY <2>1, <2>2
<1>8. IsList(Page, nx, hin2, hat, Stack, hd, m)
  BY <1>5, HeadNames DEF HeadsPlaced
<1>9. \A g \in Page : hin2[g] = Stack /\ hat[g] = 1 => nx[g] = Null
  BY <1>1, HeadNames DEF HeadsPlaced
<1>10. \A g \in Page : hin2[g] = None \/ hin2[g] = Stack \/ \E u \in Thread : hin2[g] = Kept(u)
  BY <1>1 DEF HeadsPlaced
<1>11. \A g \in Page : g \in H \ {h} <=> hin2[g] # None
  BY <1>1 DEF HeadsPlaced
<1>12. HeadsPlaced(nx, hd, D2, hin2, hat, H2, m)
  BY <1>7, <1>8, <1>9, <1>10, <1>11 DEF HeadsPlaced
<1> QED
  BY <1>4, <1>12

LEMMA FetchTop ==
  ASSUME NEW nx, NEW hd, NEW D, NEW hin, NEW hat, NEW H, NEW m,
         HeadsPlaced(nx, hd, D, hin, hat, H, m), hd # Null,
         NEW D2, SameKept(D, D2, Thread)
  PROVE  /\ hd \in H /\ nx[hd] \in Page \cup {Null}
         /\ \E hin2, hat2, m2 : HeadsPlaced(nx, nx[hd], D2, hin2, hat2, H \ {hd}, m2)
<1> USE DEF SameKept
<1> DEFINE hin2 == [q \in Page |-> IF q = hd THEN None ELSE hin[q]]
<1>1. \A q \in Page : hin2[q] = IF q = hd THEN None ELSE hin[q]
  OBVIOUS
<1> HIDE DEF hin2
<1>2. IsList(Page, nx, hin, hat, Stack, hd, m) /\ m > 0
  BY DEF HeadsPlaced, IsList
<1>3. hd \in Page /\ hin[hd] = Stack /\ hat[hd] = m /\ m \in Nat
  BY <1>2 DEF IsList
<1>4. hd \in H /\ nx[hd] \in Page \cup {Null}
  BY <1>3, HeadNames DEF HeadsPlaced
<1>5. IsList(Page, nx, hin2, hat, Stack, nx[hd], m - 1)
  <2>1. \A g \in Page : hin2[g] = Stack <=> hin[g] = Stack /\ g # hd
    BY <1>1, HeadNames
  <2>2. \A g \in Page : hin[g] = Stack /\ g # hd => hat[g] = hat[g] /\ (hat[g] > 1 => nx[g] = nx[g])
    OBVIOUS
  <2> QED
    BY ONLY <1>2, <2>1, <2>2, TakeFirst
<1>6. ASSUME NEW u \in Thread
      PROVE  /\ IsList(Page, nx, hin2, hat, Kept(u), D2[u].pbuckets, D2[u].pbuckets_count)
             /\ D2[u].pbuckets_count > 0 =>
                  /\ D2[u].last_pbucket \in Page
                  /\ hin2[D2[u].last_pbucket] = Kept(u) /\ hat[D2[u].last_pbucket] = 1
  <2>1. Kept(u) # Stack /\ Kept(u) # None
    BY HeadNames
  <2>2. IsList(Page, nx, hin, hat, Kept(u), D[u].pbuckets, D[u].pbuckets_count)
    BY DEF HeadsPlaced
  <2>3. \A g \in Page : hin2[g] = Kept(u) <=> hin[g] = Kept(u)
    BY <1>1, <1>3, <2>1
  <2>4. \A g \in Page : hin[g] = Kept(u) => hat[g] = hat[g] /\ (hat[g] > 1 => nx[g] = nx[g])
    OBVIOUS
  <2>5. IsList(Page, nx, hin2, hat, Kept(u), D[u].pbuckets, D[u].pbuckets_count)
    BY ONLY <2>2, <2>3, <2>4, SameList
  <2>6. D[u].pbuckets_count > 0 =>
          /\ D[u].last_pbucket \in Page
          /\ hin[D[u].last_pbucket] = Kept(u) /\ hat[D[u].last_pbucket] = 1
    BY DEF HeadsPlaced
  <2> QED BY <2>3, <2>5, <2>6
<1>7. m - 1 = 0 => nx[hd] = Null
  BY <1>3 DEF HeadsPlaced
<1>8. \A g \in Page : hin2[g] = Stack /\ hat[g] = 1 => nx[g] = Null
  BY <1>1, HeadNames DEF HeadsPlaced
<1>9. \A g \in Page : hin2[g] = None \/ hin2[g] = Stack \/ \E u \in Thread : hin2[g] = Kept(u)
  BY <1>1 DEF HeadsPlaced
<1>10. \A g \in Page : g \in H \ {hd} <=> hin2[g] # None
  BY <1>1 DEF HeadsPlaced
<1>11. HeadsPlaced(nx, nx[hd], D2, hin2, hat, H \ {hd}, m - 1)
  BY <1>5, <1>6, <1>7, <1>8, <1>9, <1>10 DEF HeadsPlaced
<1> QED
  BY <1>4, <1>11

LEMMA CloseHead ==
  ASSUME NEW nx, NEW hd, NEW D, NEW hin, NEW hat, NEW H, NEW m,
         HeadsPlaced(nx, hd, D, hin, hat, H, m), nx \in [Page -> Link],
         NEW t \in Thread, NEW h \in Page, h \notin H,
         D[t].pbuckets \in Page \cup {Null},
         NEW D2, SameKept(D, D2, Thread \ {t}),
         D2[t].pbuckets = h, D2[t].pbuckets_count = D[t].pbuckets_count + 1,
         D2[t].last_pbucket = IF D[t].pbuckets_count = 0 THEN h ELSE D[t].last_pbucket
  PROVE  \E hin2, hat2 :
           HeadsPlaced([nx EXCEPT ![h] = D[t].pbuckets], hd, D2, hin2, hat2, H \cup {h}, m)
<1> USE DEF SameKept
<1> DEFINE nx2 == [nx EXCEPT ![h] = D[t].pbuckets]
           hin2 == [q \in Page |-> IF q = h THEN Kept(t) ELSE hin[q]]
           hat2 == [q \in Page |-> IF q = h THEN D[t].pbuckets_count + 1 ELSE hat[q]]
<1>1. /\ nx2[h] = D[t].pbuckets /\ hin2[h] = Kept(t) /\ hat2[h] = D[t].pbuckets_count + 1
      /\ \A q \in Page : q # h => nx2[q] = nx[q] /\ hin2[q] = hin[q] /\ hat2[q] = hat[q]
  OBVIOUS
<1> HIDE DEF nx2, hin2, hat2
<1>2. hin[h] = None
  BY DEF HeadsPlaced
<1>3. ASSUME NEW x, x # None, x # Kept(t), NEW first, NEW n, IsList(Page, nx, hin, hat, x, first, n)
      PROVE  IsList(Page, nx2, hin2, hat2, x, first, n)
  <2>1. \A g \in Page : hin2[g] = x <=> hin[g] = x
    BY <1>1, <1>2, <1>3
  <2>2. \A g \in Page : hin[g] = x => hat2[g] = hat[g] /\ (hat[g] > 1 => nx2[g] = nx[g])
    BY <1>1, <1>2, <1>3
  <2> QED
    BY ONLY <1>3, <2>1, <2>2, SameList
<1>4. D[t].pbuckets_count \in Nat
  BY DEF HeadsPlaced, IsList
<1>5. IsList(Page, nx2, hin2, hat2, Kept(t), h, D[t].pbuckets_count + 1)
  <2>1. IsList(Page, nx, hin, hat, Kept(t), D[t].pbuckets, D[t].pbuckets_count)
    BY DEF HeadsPlaced
  <2>2. hin[h] # Kept(t)
    BY <1>2, HeadNames
  <2>3. \A g \in Page : hin2[g] = Kept(t) <=> hin[g] = Kept(t) \/ g = h
    BY <1>1
  <2>4. \A g \in Page : hin[g] = Kept(t) => hat2[g] = hat[g] /\ (hat[g] > 1 => nx2[g] = nx[g])
    BY <1>1, <2>2
  <2>5. hat2[h] = D[t].pbuckets_count + 1 /\ (D[t].pbuckets_count > 0 => nx2[h] = D[t].pbuckets)
    BY <1>1
  <2>6. h \in Page
    OBVIOUS
  <2> QED
    BY ONLY <2>1, <2>2, <2>3, <2>4, <2>5, <2>6, PutFirst
<1>6. ASSUME NEW u \in Thread
      PROVE  /\ IsList(Page, nx2, hin2, hat2, Kept(u), D2[u].pbuckets, D2[u].pbuckets_count)
             /\ D2[u].pbuckets_count > 0 =>
                  /\ D2[u].last_pbucket \in Page
                  /\ hin2[D2[u].last_pbucket] = Kept(u) /\ hat2[D2[u].last_pbucket] = 1
  <2>1. D[u].pbuckets_count > 0 =>
            /\ D[u].last_pbucket \in Page
            /\ hin[D[u].last_pbucket] = Kept(u) /\ hat[D[u].last_pbucket] = 1
    BY DEF HeadsPlaced
  <2>2. D[u].pbuckets_count > 0 => D[u].last_pbucket # h
    BY <1>2, <2>1, HeadNames
  <2>3. CASE u = t
    BY <1>1, <1>4, <1>5, <2>1, <2>2, <2>3
  <2>4. CASE u # t
    <3>1. Kept(u) # Kept(t) /\ Kept(u) # None
      BY <2>4, HeadNames
    <3>2. IsList(Page, nx, hin, hat, Kept(u), D[u].pbuckets, D[u].pbuckets_count)
      BY DEF HeadsPlaced
    <3>3. IsList(Page, nx2, hin2, hat2, Kept(u), D[u].pbuckets, D[u].pbuckets_count)
      BY <1>3, <3>1, <3>2
    <3> QED BY <1>1, <2>1, <2>2, <2>4, <3>3
  <2> QED BY <2>3, <2>4
<1>7. IsList(Page, nx2, hin2, hat2, Stack, hd, m)
  BY <1>3, HeadNames DEF HeadsPlaced
<1>8. \A g \in Page : hin2[g] = Stack /\ hat2[g] = 1 => nx2[g] = Null
  BY <1>1, HeadNames DEF HeadsPlaced
<1>9. \A g \in Page : hin2[g] = None \/ hin2[g] = Stack \/ \E u \in Thread : hin2[g] = Kept(u)
  BY <1>1 DEF HeadsPlaced
<1>10. \A g \in Page : g \in H \cup {h} <=> hin2[g] # None
  BY <1>1, HeadNames DEF HeadsPlaced
<1>11. \A g \in H \cup {h} : nx2[g] \in Page \cup {Null}
  BY <1>1 DEF HeadsPlaced
<1>12. HeadsPlaced(nx2, hd, D2, hin2, hat2, H \cup {h}, m)
  BY <1>6, <1>7, <1>8, <1>9, <1>10, <1>11 DEF HeadsPlaced
<1> QED
  BY <1>12 DEF nx2

LEMMA ReturnHeads ==
  ASSUME NEW nx, NEW hd, NEW D, NEW hin, NEW hat, NEW H, NEW m,
         HeadsPlaced(nx, hd, D, hin, hat, H, m), nx \in [Page -> Link],
         hd \in Page \cup {Null},
         NEW t \in Thread, D[t].pbuckets_count > 0,
         NEW D2, SameKept(D, D2, Thread \ {t}),
         D2[t].pbuckets_count = 0
  PROVE  /\ D[t].pbuckets \in Page /\ D[t].last_pbucket \in Page
         /\ \E hin2, hat2, m2 :
              HeadsPlaced([nx EXCEPT ![D[t].last_pbucket] = hd], D[t].pbuckets, D2, hin2, hat2, H, m2)
<1> USE DEF SameKept
<1> DEFINE last == D[t].last_pbucket
           nx2 == [nx EXCEPT ![last] = hd]
           hin2 == [q \in Page |-> IF hin[q] = Kept(t) THEN Stack ELSE hin[q]]
           hat2 == [q \in Page |-> IF hin[q] = Kept(t) THEN hat[q] + m ELSE hat[q]]
           n == D[t].pbuckets_count
<1>1. last \in Page /\ hin[last] = Kept(t) /\ hat[last] = 1
  BY DEF HeadsPlaced
<1>2. /\ IsList(Page, nx, hin, hat, Kept(t), D[t].pbuckets, n) /\ n \in Nat /\ n > 0
      /\ IsList(Page, nx, hin, hat, Stack, hd, m) /\ m \in Nat
      /\ D[t].pbuckets \in Page
  BY DEF HeadsPlaced, IsList
<1>3. /\ nx2[last] = hd
      /\ \A q \in Page : q # last => nx2[q] = nx[q]
      /\ \A q \in Page : hin[q] = Kept(t) => hin2[q] = Stack /\ hat2[q] = hat[q] + m
      /\ \A q \in Page : hin[q] # Kept(t) => hin2[q] = hin[q] /\ hat2[q] = hat[q]
  BY <1>1
<1> HIDE DEF nx2, hin2, hat2, last, n
<1>4. IsList(Page, nx2, hin2, hat2, Stack, D[t].pbuckets, n + m)
  <2>1. Kept(t) # Stack
    BY HeadNames
  <2>2. \A g \in Page : hin2[g] = Stack <=> hin[g] = Kept(t) \/ hin[g] = Stack
    BY <1>3
  <2>3. \A g \in Page : hin[g] = Kept(t) => hat2[g] = hat[g] + m /\ (g # last => nx2[g] = nx[g])
    BY <1>3
  <2>4. \A g \in Page : hin[g] = Stack => hat2[g] = hat[g] /\ nx2[g] = nx[g]
    BY <1>1, <1>3, <2>1
  <2>5. nx2[last] = hd
    BY <1>3
  <2> QED
    BY ONLY <1>1, <1>2, <2>1, <2>2, <2>3, <2>4, <2>5, JoinLists
<1>5. \A g \in Page : hin2[g] # Kept(t)
  BY <1>3, HeadNames
<1>6. ASSUME NEW u \in Thread
      PROVE  /\ IsList(Page, nx2, hin2, hat2, Kept(u), D2[u].pbuckets, D2[u].pbuckets_count)
             /\ D2[u].pbuckets_count > 0 =>
                  /\ D2[u].last_pbucket \in Page
                  /\ hin2[D2[u].last_pbucket] = Kept(u) /\ hat2[D2[u].last_pbucket] = 1
  <2>1. CASE u = t
    BY <1>5, <2>1, EmptyList
  <2>2. CASE u # t
    <3>1. Kept(u) # Kept(t) /\ Kept(u) # Stack
      BY <2>2, HeadNames
    <3>2. IsList(Page, nx, hin, hat, Kept(u), D[u].pbuckets, D[u].pbuckets_count)
      BY DEF HeadsPlaced
    <3>3. \A g \in Page : hin2[g] = Kept(u) <=> hin[g] = Kept(u)
      BY <1>3, <3>1
    <3>4. \A g \in Page : hin[g] = Kept(u) => hat2[g] = hat[g] /\ (hat[g] > 1 => nx2[g] = nx[g])
      BY <1>1, <1>3, <3>1
    <3>5. IsList(Page, nx2, hin2, hat2, Kept(u), D[u].pbuckets, D[u].pbuckets_count)
      BY ONLY <3>2, <3>3, <3>4, SameList
    <3>6. D[u].pbuckets_count > 0 =>
            /\ D[u].last_pbucket \in Page
            /\ hin[D[u].last_pbucket] = Kept(u) /\ hat[D[u].last_pbucket] = 1
      BY DEF HeadsPlaced
    <3> QED BY <1>3, <2>2, <3>1, <3>5, <3>6
  <2> QED BY <2>1, <2>2
<1>7. ASSUME NEW g \in Page, hin2[g] = Stack, hat2[g] = 1
      PROVE  nx2[g] = Null
  <2>1. CASE hin[g] = Kept(t)
    <3>1. hat[g] \in 1 .. n /\ hat[g] + m = 1
      BY <1>2, <1>3, <1>7, <2>1 DEF IsList
    <3>2. m = 0 /\ hat[g] = 1
      BY <1>2, <3>1
    <3>3. g = last
      BY <1>1, <1>2, <2>1, <3>2 DEF IsList
    <3>4. hd = Null
      BY <3>2 DEF HeadsPlaced
    <3> QED BY <1>3, <3>3, <3>4
  <2>2. CASE hin[g] # Kept(t)
    <3>1. hin[g] = Stack /\ hat[g] = 1 /\ g # last
      BY <1>1, <1>3, <1>7, <2>2
    <3> QED BY <1>3, <3>1 DEF HeadsPlaced
  <2> QED BY <2>1, <2>2
<1>8. \A g \in Page : hin2[g] = None \/ hin2[g] = Stack \/ \E u \in Thread : hin2[g] = Kept(u)
  BY <1>3 DEF HeadsPlaced
<1>9. \A g \in Page : g \in H <=> hin2[g] # None
  BY <1>3, HeadNames DEF HeadsPlaced
<1>10. \A g \in H : nx2[g] \in Page \cup {Null}
  BY <1>1, <1>3 DEF HeadsPlaced
<1>11. H \subseteq Page /\ n + m # 0
  BY <1>2 DEF HeadsPlaced
<1>12. HeadsPlaced(nx2, D[t].pbuckets, D2, hin2, hat2, H, n + m)
  BY <1>4, <1>6, <1>7, <1>8, <1>9, <1>10, <1>11 DEF HeadsPlaced
<1> QED
  BY <1>1, <1>2, <1>12 DEF last, nx2

-----------------------------------------------------------------------------
(* Both together.  In the middle of an operation a thread may have a full  *)
(* list more than its record has room for.                                 *)
Placed(lp, nx, us, hd, D) ==
  \E in, at, hin, hat, H, m : PagesPlaced(lp, us, D, in, at, H) /\ HeadsPlaced(nx, hd, D, hin, hat, H, m)

Data ==
  [pages_count : Nat, pages : Page \cup {Null}, pbuckets_count : Nat,
   pbuckets : Page \cup {Null}, last_pbucket : Page \cup {Null}]

Memory == [Page -> Link]

(* A page p is the first of the list of d now, another page or the one     *)
(* after the first.                                                        *)
WithPage(d, p) == [d EXCEPT !.pages = p, !.pages_count = @ + 1]
Without(d, p) == [d EXCEPT !.pages = p, !.pages_count = @ - 1]

LEMMA DataPut ==
  ASSUME NEW d \in Data, NEW p \in Page \cup {Null},
         NEW e, e = WithPage(d, p)
  PROVE  /\ e \in Data
         /\ e.pages = p /\ e.pages_count = d.pages_count + 1
         /\ e.pbuckets = d.pbuckets /\ e.pbuckets_count = d.pbuckets_count
         /\ e.last_pbucket = d.last_pbucket
<1>1. e = [pages_count |-> d.pages_count + 1, pages |-> p, pbuckets_count |-> d.pbuckets_count,
           pbuckets |-> d.pbuckets, last_pbucket |-> d.last_pbucket]
  BY DEF Data, WithPage
<1>2. /\ d.pages_count + 1 \in Nat /\ d.pbuckets_count \in Nat
      /\ d.pbuckets \in Page \cup {Null} /\ d.last_pbucket \in Page \cup {Null}
  BY DEF Data
<1> QED
  BY ONLY <1>1, <1>2, p \in Page \cup {Null} DEF Data

LEMMA DataTake ==
  ASSUME NEW d \in Data, d.pages_count > 0, NEW p \in Page \cup {Null},
         NEW e, e = Without(d, p)
  PROVE  /\ e \in Data
         /\ e.pages = p /\ e.pages_count = d.pages_count - 1
         /\ e.pbuckets = d.pbuckets /\ e.pbuckets_count = d.pbuckets_count
         /\ e.last_pbucket = d.last_pbucket
<1>1. e = [pages_count |-> d.pages_count - 1, pages |-> p, pbuckets_count |-> d.pbuckets_count,
           pbuckets |-> d.pbuckets, last_pbucket |-> d.last_pbucket]
  BY DEF Data, Without
<1>2. /\ d.pages_count - 1 \in Nat /\ d.pbuckets_count \in Nat
      /\ d.pbuckets \in Page \cup {Null} /\ d.last_pbucket \in Page \cup {Null}
  BY DEF Data
<1> QED
  BY ONLY <1>1, <1>2, p \in Page \cup {Null} DEF Data

(* D2 is D but for thread t. *)
OthersSame(D, D2, t) == \A u \in Thread \ {t} : D2[u] = D[u]

(* A page in use goes to the list of t. *)
LEMMA Put ==
  ASSUME NEW lp \in Memory, NEW nx, NEW us, NEW hd, NEW D, Placed(lp, nx, us, hd, D),
         NEW t \in Thread, D[t] \in Data, NEW p \in us,
         NEW D2, OthersSame(D, D2, t), D2[t] = WithPage(D[t], p)
  PROVE  /\ Placed([lp EXCEPT ![p] = D[t].pages], nx, us \ {p}, hd, D2)
         /\ p \in Page
<1>1. PICK in, at, hin, hat, H, m :
        PagesPlaced(lp, us, D, in, at, H) /\ HeadsPlaced(nx, hd, D, hin, hat, H, m)
  BY DEF Placed
<1>2. p \in Page
  BY <1>1 DEF PagesPlaced
<1>3. /\ D2[t].pages = p /\ D2[t].pages_count = D[t].pages_count + 1
      /\ D2[t].pbuckets = D[t].pbuckets /\ D2[t].pbuckets_count = D[t].pbuckets_count
      /\ D2[t].last_pbucket = D[t].last_pbucket
      /\ D[t].pages \in Page \cup {Null}
  <2>1. D[t].pages \in Page \cup {Null}
    BY DEF Data
  <2>2. p \in Page \cup {Null} /\ D[t] \in Data
    BY <1>2
  <2>3. D2[t] = WithPage(D[t], p)
    OBVIOUS
  <2> QED BY ONLY <2>1, <2>2, <2>3, DataPut
<1>4. PICK in2, at2 : PagesPlaced([lp EXCEPT ![p] = D[t].pages], us \ {p}, D2, in2, at2, H)
  <2>1. lp \in [Page -> Link]
    BY DEF Memory
  <2>2. SamePages(D, D2, Thread \ {t})
    BY DEF OthersSame, SamePages
  <2> QED BY <1>1, <1>3, <2>1, <2>2, PutPages
<1>5. HeadsPlaced(nx, hd, D2, hin, hat, H, m)
  <2>1. SameKept(D, D2, Thread)
    BY <1>3 DEF OthersSame, SameKept
  <2>2. \A h \in H : nx[h] = nx[h]
    OBVIOUS
  <2> QED BY ONLY <1>1, <2>1, <2>2, HeadsSame
<1> QED
  BY <1>2, <1>4, <1>5 DEF Placed

Junked(f, g, p) == g = [f EXCEPT ![p] = Junk]

(* The first page of the list of t is in use from now on. *)
LEMMA Take ==
  ASSUME NEW lp \in Memory, NEW nx \in Memory, NEW us, NEW hd, NEW D, Placed(lp, nx, us, hd, D),
         NEW t \in Thread, D[t] \in Data, D[t].pages_count > 0, NEW p, p = D[t].pages,
         NEW D2, OthersSame(D, D2, t), D2[t] = Without(D[t], lp[p]),
         NEW lp2, Junked(lp, lp2, p), NEW nx2, Junked(nx, nx2, p)
  PROVE  /\ Placed(lp2, nx2, us \cup {p}, hd, D2)
         /\ p \in Page \ us /\ lp[p] \in Page \cup {Null}
<1> USE DEF Junked
<1>1. PICK in, at, hin, hat, H, m :
        PagesPlaced(lp, us, D, in, at, H) /\ HeadsPlaced(nx, hd, D, hin, hat, H, m)
  BY DEF Placed
<1>2. p \in Page /\ lp[p] \in Page \cup {Null}
  <2>1. IsList(Page, lp, in, at, Open(t), p, D[t].pages_count)
    BY <1>1 DEF PagesPlaced
  <2>2. p \in Page /\ in[p] = Open(t)
    BY <2>1 DEF IsList
  <2> QED BY <1>1, <2>2, PageNames DEF PagesPlaced
<1>3. /\ D2[t].pages = lp[p] /\ D2[t].pages_count = D[t].pages_count - 1
      /\ D2[t].pbuckets = D[t].pbuckets /\ D2[t].pbuckets_count = D[t].pbuckets_count
      /\ D2[t].last_pbucket = D[t].last_pbucket
  <2>1. lp[p] \in Page \cup {Null} /\ D[t] \in Data /\ D[t].pages_count > 0
    BY <1>2
  <2>2. D2[t] = Without(D[t], lp[p])
    OBVIOUS
  <2> QED BY ONLY <2>1, <2>2, DataTake
<1>4. /\ p \notin us /\ p \notin H
      /\ \E in2, at2 : PagesPlaced(lp2, us \cup {p}, D2, in2, at2, H)
  <2>1. lp \in [Page -> Link]
    BY DEF Memory
  <2>2. SamePages(D, D2, Thread \ {t})
    BY DEF OthersSame, SamePages
  <2>3. p = D[t].pages /\ D[t].pages_count > 0 /\ t \in Thread
    OBVIOUS
  <2>4. \A q \in Page \ {p} : lp2[q] = lp[q]
    BY <2>1
  <2>5. FirstTaken(lp, lp2, D, D2, t, p)
    BY ONLY <1>3, <2>2, <2>3, <2>4 DEF FirstTaken
  <2>6. PagesPlaced(lp, us, D, in, at, H)
    BY ONLY <1>1
  <2> DEFINE us2 == us \cup {p}
  <2>7. Gains(us, us2, p)
    BY DEF Gains
  <2> HIDE DEF us2
  <2>8. p \notin us /\ p \notin H /\ \E in2, at2 : PagesPlaced(lp2, us2, D2, in2, at2, H)
    BY ONLY <2>1, <2>5, <2>6, <2>7, TakePages
  <2> QED BY ONLY <2>8 DEF us2
<1>5. PICK in2, at2 : PagesPlaced(lp2, us \cup {p}, D2, in2, at2, H)
  BY <1>4
<1>6. HeadsPlaced(nx2, hd, D2, hin, hat, H, m)
  <2>1. SameKept(D, D2, Thread)
    BY <1>3 DEF OthersSame, SameKept
  <2>2. \A h \in H : nx2[h] = nx[h]
    BY <1>1, <1>4 DEF Memory, HeadsPlaced
  <2> QED BY ONLY <1>1, <2>1, <2>2, HeadsSame
<1> QED
  BY <1>2, <1>4, <1>5, <1>6 DEF Placed

(* A full list of t becomes its list. *)
LEMMA TakeKept ==
  ASSUME NEW lp, NEW nx, NEW us, NEW hd, NEW D, Placed(lp, nx, us, hd, D),
         NEW t \in Thread, D[t] \in Data, D[t].pages_count = 0, D[t].pbuckets_count > 0,
         NEW D2, OthersSame(D, D2, t),
         D2[t].pages = D[t].pbuckets, D2[t].pages_count = nr_local_pages,
         D2[t].pbuckets = nx[D[t].pbuckets], D2[t].pbuckets_count = D[t].pbuckets_count - 1,
         D2[t].last_pbucket = D[t].last_pbucket
  PROVE  /\ Placed(lp, nx, us, hd, D2)
         /\ nx[D[t].pbuckets] \in Page \cup {Null} /\ D[t].pbuckets \in Page
<1>1. PICK in, at, hin, hat, H, m :
        PagesPlaced(lp, us, D, in, at, H) /\ HeadsPlaced(nx, hd, D, hin, hat, H, m)
  BY DEF Placed
<1> DEFINE h == D[t].pbuckets
<1>2. /\ h \in H /\ nx[h] \in Page \cup {Null}
      /\ \E hin2, hat2 : HeadsPlaced(nx, hd, D2, hin2, hat2, H \ {h}, m)
  <2>1. SameKept(D, D2, Thread \ {t})
    BY DEF OthersSame, SameKept
  <2>2. /\ HeadsPlaced(nx, hd, D, hin, hat, H, m) /\ t \in Thread /\ D[t].pbuckets_count > 0
        /\ h = D[t].pbuckets
        /\ D2[t].pbuckets = nx[h] /\ D2[t].pbuckets_count = D[t].pbuckets_count - 1
        /\ D2[t].last_pbucket = D[t].last_pbucket
    BY <1>1
  <2> HIDE DEF h
  <2>3. KeptTaken(nx, D, D2, t, h)
    BY ONLY <2>1, <2>2 DEF KeptTaken
  <2> DEFINE H2 == H \ {h}
  <2>4. Loses(H, H2, h)
    BY DEF Loses
  <2> HIDE DEF H2
  <2>5. h \in H /\ nx[h] \in Page \cup {Null} /\ \E hin2, hat2 : HeadsPlaced(nx, hd, D2, hin2, hat2, H2, m)
    BY ONLY <2>2, <2>3, <2>4, FetchKept
  <2> QED BY ONLY <2>5 DEF H2
<1>3. \E in2, at2 : PagesPlaced(lp, us, D2, in2, at2, H \ {h})
  <2>1. SamePages(D, D2, Thread \ {t})
    BY DEF OthersSame, SamePages
  <2>2. D2[t].pages = h /\ D2[t].pages_count = nr_local_pages /\ D[t].pages_count = 0 /\ t \in Thread
    OBVIOUS
  <2>3. h \in H /\ PagesPlaced(lp, us, D, in, at, H)
    BY <1>1, <1>2
  <2> HIDE DEF h
  <2>4. ListTaken(D, D2, t, h)
    BY ONLY <2>1, <2>2 DEF ListTaken
  <2> DEFINE H2 == H \ {h}
  <2>5. Loses(H, H2, h)
    BY DEF Loses
  <2> HIDE DEF H2
  <2>6. \E in2, at2 : PagesPlaced(lp, us, D2, in2, at2, H2)
    BY ONLY <2>3, <2>4, <2>5, FetchPages
  <2> QED BY ONLY <2>6 DEF H2
<1>4. h \in Page
  BY <1>1, <1>2 DEF PagesPlaced
<1> HIDE DEF h
<1>5. Placed(lp, nx, us, hd, D2)
  BY <1>2, <1>3 DEF Placed
<1> QED
  BY <1>2, <1>4, <1>5 DEF h

(* The top of the stack becomes the list of t. *)
LEMMA TakeTop ==
  ASSUME NEW lp, NEW nx, NEW us, NEW hd, NEW D, Placed(lp, nx, us, hd, D), hd # Null,
         NEW t \in Thread, D[t] \in Data, D[t].pages_count = 0,
         NEW D2, OthersSame(D, D2, t),
         D2[t].pages = hd, D2[t].pages_count = nr_local_pages,
         D2[t].pbuckets = D[t].pbuckets, D2[t].pbuckets_count = D[t].pbuckets_count,
         D2[t].last_pbucket = D[t].last_pbucket
  PROVE  /\ Placed(lp, nx, us, nx[hd], D2)
         /\ nx[hd] \in Page \cup {Null} /\ hd \in Page
<1>1. PICK in, at, hin, hat, H, m :
        PagesPlaced(lp, us, D, in, at, H) /\ HeadsPlaced(nx, hd, D, hin, hat, H, m)
  BY DEF Placed
<1>2. /\ hd \in H /\ nx[hd] \in Page \cup {Null}
      /\ \E hin2, hat2, m2 : HeadsPlaced(nx, nx[hd], D2, hin2, hat2, H \ {hd}, m2)
  <2>1. SameKept(D, D2, Thread)
    BY DEF OthersSame, SameKept
  <2>2. hd # Null
    OBVIOUS
  <2> QED BY ONLY <1>1, <2>1, <2>2, FetchTop
<1>3. \E in2, at2 : PagesPlaced(lp, us, D2, in2, at2, H \ {hd})
  <2>1. SamePages(D, D2, Thread \ {t})
    BY DEF OthersSame, SamePages
  <2>2. D2[t].pages = hd /\ D2[t].pages_count = nr_local_pages /\ D[t].pages_count = 0 /\ t \in Thread
    OBVIOUS
  <2>3. hd \in H /\ PagesPlaced(lp, us, D, in, at, H)
    BY <1>1, <1>2
  <2>4. ListTaken(D, D2, t, hd)
    BY ONLY <2>1, <2>2 DEF ListTaken
  <2> DEFINE H2 == H \ {hd}
  <2>5. Loses(H, H2, hd)
    BY DEF Loses
  <2> HIDE DEF H2
  <2>6. \E in2, at2 : PagesPlaced(lp, us, D2, in2, at2, H2)
    BY ONLY <2>3, <2>4, <2>5, FetchPages
  <2> QED BY ONLY <2>6 DEF H2
<1>4. hd \in Page
  BY <1>1, <1>2 DEF PagesPlaced
<1>5. Placed(lp, nx, us, nx[hd], D2)
  BY <1>2, <1>3 DEF Placed
<1> QED
  BY <1>2, <1>4, <1>5

(* The list of t, which is full, becomes a full list of t. *)
LEMMA Close ==
  ASSUME NEW lp, NEW nx \in Memory, NEW us, NEW hd, NEW D, Placed(lp, nx, us, hd, D),
         NEW t \in Thread, D[t] \in Data, D[t].pages_count = nr_local_pages,
         NEW D2, OthersSame(D, D2, t),
         D2[t].pages_count = 0,
         D2[t].pbuckets = D[t].pages, D2[t].pbuckets_count = D[t].pbuckets_count + 1,
         D2[t].last_pbucket = IF D[t].pbuckets_count = 0 THEN D[t].pages ELSE D[t].last_pbucket
  PROVE  /\ Placed(lp, [nx EXCEPT ![D[t].pages] = D[t].pbuckets], us, hd, D2)
         /\ D[t].pages \in Page
<1>1. PICK in, at, hin, hat, H, m :
        PagesPlaced(lp, us, D, in, at, H) /\ HeadsPlaced(nx, hd, D, hin, hat, H, m)
  BY DEF Placed
<1> DEFINE h == D[t].pages
<1>2. /\ h \in Page /\ h \notin H
      /\ \E in2, at2 : PagesPlaced(lp, us, D2, in2, at2, H \cup {h})
  <2>1. SamePages(D, D2, Thread \ {t})
    BY DEF OthersSame, SamePages
  <2> QED BY <1>1, <2>1, ClosePages
<1>3. \E hin2, hat2 :
        HeadsPlaced([nx EXCEPT ![h] = D[t].pbuckets], hd, D2, hin2, hat2, H \cup {h}, m)
  <2>1. SameKept(D, D2, Thread \ {t})
    BY DEF OthersSame, SameKept
  <2>2. nx \in [Page -> Link] /\ D[t].pbuckets \in Page \cup {Null}
    BY DEF Memory, Data
  <2>3. /\ D2[t].pbuckets = h /\ D2[t].pbuckets_count = D[t].pbuckets_count + 1
        /\ D2[t].last_pbucket = IF D[t].pbuckets_count = 0 THEN h ELSE D[t].last_pbucket
        /\ t \in Thread
    OBVIOUS
  <2> HIDE DEF h
  <2> QED BY ONLY <1>1, <1>2, <2>1, <2>2, <2>3, CloseHead
<1> HIDE DEF h
<1>4. Placed(lp, [nx EXCEPT ![h] = D[t].pbuckets], us, hd, D2)
  BY <1>2, <1>3 DEF Placed
<1> QED
  BY <1>2, <1>4 DEF h

(* The full lists of t go onto the stack. *)
LEMMA Return ==
  ASSUME NEW lp, NEW nx \in Memory, NEW us, NEW hd \in Page \cup {Null}, NEW D,
         Placed(lp, nx, us, hd, D),
         NEW t \in Thread, D[t].pbuckets_count > 0,
         NEW D2, OthersSame(D, D2, t),
         D2[t].pages_count = D[t].pages_count, D2[t].pages = D[t].pages,
         D2[t].pbuckets_count = 0
  PROVE  /\ Placed(lp, [nx EXCEPT ![D[t].last_pbucket] = hd], us, D[t].pbuckets, D2)
         /\ D[t].pbuckets \in Page /\ D[t].last_pbucket \in Page
<1>1. PICK in, at, hin, hat, H, m :
        PagesPlaced(lp, us, D, in, at, H) /\ HeadsPlaced(nx, hd, D, hin, hat, H, m)
  BY DEF Placed
<1>2. /\ D[t].pbuckets \in Page /\ D[t].last_pbucket \in Page
      /\ \E hin2, hat2, m2 :
           HeadsPlaced([nx EXCEPT ![D[t].last_pbucket] = hd], D[t].pbuckets, D2, hin2, hat2, H, m2)
  <2>1. SameKept(D, D2, Thread \ {t})
    BY DEF OthersSame, SameKept
  <2>2. nx \in [Page -> Link] /\ t \in Thread /\ D[t].pbuckets_count > 0 /\ D2[t].pbuckets_count = 0
        /\ hd \in Page \cup {Null}
    BY DEF Memory
  <2> QED BY ONLY <1>1, <2>1, <2>2, ReturnHeads
<1>3. PagesPlaced(lp, us, D2, in, at, H)
  <2>1. \A u \in Thread : D2[u].pages = D[u].pages /\ D2[u].pages_count = D[u].pages_count
    BY DEF OthersSame
  <2>2. PagesPlaced(lp, us, D, in, at, H)
    BY <1>1
  <2> QED BY ONLY <2>1, <2>2 DEF PagesPlaced
<1> QED
  BY <1>2, <1>3 DEF Placed

-----------------------------------------------------------------------------
Inv ==
  /\ TypeOK
  /\ free = Page \ used
  /\ Placed(local_pages, next, used, free_page_head, data)

LEMMA DataTyped ==
  ASSUME NEW d
  PROVE  d \in ThreadData <=>
           d \in Data /\ d.pages_count \in 0 .. nr_local_pages /\ d.pbuckets_count \in 0 .. nr_local_pbuckets - 1
<1>1. ASSUME d \in ThreadData
      PROVE  d \in Data /\ d.pages_count \in 0 .. nr_local_pages /\ d.pbuckets_count \in 0 .. nr_local_pbuckets - 1
  <2>1. nr_local_pages \in Nat /\ nr_local_pbuckets \in Nat
    BY LimitsAssumption
  <2>2. /\ d = [pages_count |-> d.pages_count, pages |-> d.pages, pbuckets_count |-> d.pbuckets_count,
                pbuckets |-> d.pbuckets, last_pbucket |-> d.last_pbucket]
        /\ d.pages_count \in 0 .. nr_local_pages /\ d.pbuckets_count \in 0 .. nr_local_pbuckets - 1
        /\ d.pages \in Page \cup {Null} /\ d.pbuckets \in Page \cup {Null} /\ d.last_pbucket \in Page \cup {Null}
    BY <1>1 DEF ThreadData
  <2>3. d.pages_count \in Nat /\ d.pbuckets_count \in Nat
    BY <2>1, <2>2
  <2> QED BY ONLY <2>2, <2>3 DEF Data
<1>2. ASSUME d \in Data, d.pages_count \in 0 .. nr_local_pages, d.pbuckets_count \in 0 .. nr_local_pbuckets - 1
      PROVE  d \in ThreadData
  <2>1. /\ d = [pages_count |-> d.pages_count, pages |-> d.pages, pbuckets_count |-> d.pbuckets_count,
                pbuckets |-> d.pbuckets, last_pbucket |-> d.last_pbucket]
        /\ d.pages \in Page \cup {Null} /\ d.pbuckets \in Page \cup {Null} /\ d.last_pbucket \in Page \cup {Null}
    BY <1>2 DEF Data
  <2> QED BY ONLY <1>2, <2>1 DEF ThreadData
<1> QED
  BY <1>1, <1>2

(* The data of a thread, the head of whose full lists may be any of X. *)
DataKeeping(X) ==
  [pages_count : Nat, pages : Page \cup {Null}, pbuckets_count : Int,
   pbuckets : X, last_pbucket : Page \cup {Null}]

Installed(d, e, p) == e = install_list(d, p)

LEMMA DataInstall ==
  ASSUME NEW X, NEW d \in DataKeeping(X), NEW p, NEW e, Installed(d, e, p)
  PROVE  e = [pages_count |-> nr_local_pages, pages |-> p, pbuckets_count |-> d.pbuckets_count,
              pbuckets |-> d.pbuckets, last_pbucket |-> d.last_pbucket]
BY DEF Installed, install_list, DataKeeping

Unkept(d, e, f) == e = [d EXCEPT !.pbuckets = f[@], !.pbuckets_count = @ - 1]

LEMMA DataUnkept ==
  ASSUME NEW d \in Data, NEW f, NEW e, Unkept(d, e, f)
  PROVE  e = [pages_count |-> d.pages_count, pages |-> d.pages, pbuckets_count |-> d.pbuckets_count - 1,
              pbuckets |-> f[d.pbuckets], last_pbucket |-> d.last_pbucket]
BY DEF Data, Unkept

(* The common end of the ways to get a page: d is the data of t as the     *)
(* operation left it until there, hd the top of the stack.                 *)
LEMMA TakePage ==
  ASSUME Inv, NEW t \in Thread, NEW d \in ThreadData, d.pages_count > 0,
         NEW hd \in Page \cup {Null}, NEW D, OthersSame(data, D, t), D[t] = d,
         Placed(local_pages, next, used, hd, D),
         take_page(t, d), free_page_head' = hd
  PROVE  Inv'
<1> DEFINE p == d.pages
<1>1. /\ local_pages \in Memory /\ next \in Memory /\ data \in [Thread -> ThreadData]
      /\ used \subseteq Page /\ free = Page \ used
  BY DEF Inv, TypeOK, Memory
<1>2. d \in Data /\ d.pages_count \in 0 .. nr_local_pages /\ d.pbuckets_count \in 0 .. nr_local_pbuckets - 1
  BY DataTyped
<1>3. /\ data' = [data EXCEPT ![t] = Without(d, local_pages[p])]
      /\ free' = free \ {p} /\ used' = used \cup {p}
      /\ next' = [next EXCEPT ![p] = Junk] /\ local_pages' = [local_pages EXCEPT ![p] = Junk]
  BY DEF take_page, Without
<1>4. data'[t] = Without(d, local_pages[p]) /\ OthersSame(D, data', t)
  BY <1>1, <1>3 DEF OthersSame
<1>5. /\ Placed(local_pages', next', used', hd, data')
      /\ p \in Page \ used /\ local_pages[p] \in Page \cup {Null}
  <2>1. D[t] \in Data /\ D[t].pages_count > 0 /\ p = D[t].pages /\ data'[t] = Without(D[t], local_pages[p])
    BY <1>2, <1>4
  <2>2. Placed(local_pages, next, used, hd, D) /\ t \in Thread
    OBVIOUS
  <2>3. /\ Placed(local_pages', next', used \cup {p}, hd, data')
        /\ p \in Page \ used /\ local_pages[p] \in Page \cup {Null}
    <3>1. local_pages \in Memory /\ next \in Memory /\ OthersSame(D, data', t)
      BY <1>1, <1>4
    <3>2. Junked(local_pages, local_pages', p) /\ Junked(next, next', p)
      BY <1>3 DEF Junked
    <3> HIDE DEF p
    <3> QED BY ONLY <3>1, <3>2, <2>1, <2>2, Take
  <2> HIDE DEF p
  <2> QED BY <1>3, <2>3
<1>6. data' \in [Thread -> ThreadData]
  <2>1. Without(d, local_pages[p]) \in ThreadData
    <3> DEFINE e == Without(d, local_pages[p])
    <3>1. /\ e \in Data /\ e.pages_count = d.pages_count - 1 /\ e.pbuckets_count = d.pbuckets_count
      <4> HIDE DEF p
      <4> QED BY <1>2, <1>5, DataTake
    <3>2. e.pages_count \in 0 .. nr_local_pages /\ e.pbuckets_count \in 0 .. nr_local_pbuckets - 1
      <4>1. nr_local_pages \in Nat /\ d.pages_count > 0
        BY LimitsAssumption
      <4> HIDE DEF e
      <4> QED BY ONLY <1>2, <3>1, <4>1
    <3>3. e \in ThreadData
      BY ONLY <3>1, <3>2, DataTyped
    <3> QED BY <3>3 DEF e
  <2> HIDE DEF p
  <2> QED BY <1>1, <1>3, <2>1
<1>7. next' \in [Page -> Link] /\ local_pages' \in [Page -> Link]
  <2> HIDE DEF p
  <2> QED BY <1>1, <1>3 DEF Memory, Link
<1>8. free' = Page \ used' /\ free' \subseteq Page /\ used' \subseteq Page
  <2> HIDE DEF p
  <2> QED BY <1>1, <1>3, <1>5
<1>9. TypeOK'
  BY <1>6, <1>7, <1>8 DEF TypeOK
<1> QED
  BY <1>5, <1>8, <1>9 DEF Inv

LEMMA GetFreePage ==
  ASSUME Inv, NEW t \in Thread, get_free_page(t)
  PROVE  Inv'
<1> DEFINE d == data[t]
<1>1. /\ d \in ThreadData /\ d \in Data /\ d.pages_count \in 0 .. nr_local_pages
      /\ d.pbuckets_count \in 0 .. nr_local_pbuckets - 1 /\ d.pbuckets \in Page \cup {Null}
      /\ d.last_pbucket \in Page \cup {Null}
  <2>1. d \in ThreadData
    BY DEF Inv, TypeOK
  <2>2. d \in Data
    BY <2>1, DataTyped
  <2> QED BY <2>1, <2>2, DataTyped DEF Data
<1>2. /\ data \in [Thread -> ThreadData] /\ Placed(local_pages, next, used, free_page_head, data)
      /\ free_page_head \in Page \cup {Null}
  BY DEF Inv, TypeOK
<1>3. nr_local_pages \in Nat \ {0} /\ nr_local_pbuckets \in Nat
  BY LimitsAssumption
<1>4. CASE d.pages_count > 0 /\ take_page(t, d) /\ UNCHANGED free_page_head
  <2>1. OthersSame(data, data, t) /\ data[t] = d
    BY DEF OthersSame
  <2> HIDE DEF d
  <2> QED BY <1>1, <1>2, <1>4, <2>1, TakePage
<1>5. CASE /\ d.pages_count = 0 /\ d.pbuckets_count > 0
           /\ take_page(t, install_list([d EXCEPT !.pbuckets = next[@], !.pbuckets_count = @ - 1], d.pbuckets))
           /\ UNCHANGED free_page_head
  <2> DEFINE e == install_list([d EXCEPT !.pbuckets = next[@], !.pbuckets_count = @ - 1], d.pbuckets)
             D == [data EXCEPT ![t] = e]
  <2>1. OthersSame(data, D, t) /\ D[t] = e
    BY <1>2 DEF OthersSame
  <2>2. e = [pages_count |-> nr_local_pages, pages |-> d.pbuckets, pbuckets_count |-> d.pbuckets_count - 1,
             pbuckets |-> next[d.pbuckets], last_pbucket |-> d.last_pbucket]
    <3> DEFINE c == [d EXCEPT !.pbuckets = next[@], !.pbuckets_count = @ - 1]
    <3>1. d \in Data
      BY <1>1
    <3>2. c = [pages_count |-> d.pages_count, pages |-> d.pages, pbuckets_count |-> d.pbuckets_count - 1,
               pbuckets |-> next[d.pbuckets], last_pbucket |-> d.last_pbucket]
      <4>1. Unkept(d, c, next)
        BY DEF Unkept
      <4> HIDE DEF d, c
      <4> QED BY ONLY <3>1, <4>1, DataUnkept
    <3>3. Installed(c, e, d.pbuckets)
      BY DEF Installed
    <3>4. c \in DataKeeping({next[d.pbuckets]})
      <4>1. /\ d.pages_count \in Nat /\ d.pages \in Page \cup {Null} /\ d.pbuckets_count - 1 \in Int
            /\ d.last_pbucket \in Page \cup {Null}
        <5> HIDE DEF d
        <5> QED BY <3>1 DEF Data
      <4> HIDE DEF c, d
      <4> QED BY ONLY <3>2, <4>1 DEF DataKeeping
    <3>5. /\ c.pbuckets_count = d.pbuckets_count - 1 /\ c.pbuckets = next[d.pbuckets]
          /\ c.last_pbucket = d.last_pbucket
      <4> HIDE DEF c, d
      <4> QED BY ONLY <3>2
    <3> HIDE DEF c, d, e
    <3>6. e = [pages_count |-> nr_local_pages, pages |-> d.pbuckets, pbuckets_count |-> c.pbuckets_count,
               pbuckets |-> c.pbuckets, last_pbucket |-> c.last_pbucket]
      BY ONLY <3>3, <3>4, DataInstall
    <3> QED BY ONLY <3>5, <3>6
  <2>3. /\ e.pages = d.pbuckets /\ e.pages_count = nr_local_pages
        /\ e.pbuckets = next[d.pbuckets] /\ e.pbuckets_count = d.pbuckets_count - 1
        /\ e.last_pbucket = d.last_pbucket
    <3> HIDE DEF e
    <3> QED BY <2>2
  <2>4. take_page(t, e)
    BY <1>5
  <2> HIDE DEF e, D
  <2>5. Placed(local_pages, next, used, free_page_head, D) /\ next[d.pbuckets] \in Page \cup {Null}
    <3> HIDE DEF d
    <3>1. data[t] = d
      BY DEF d
    <3> QED BY <1>1, <1>2, <1>5, <2>1, <2>3, <3>1, TakeKept
  <2>6. e \in ThreadData
    <3>1. nr_local_pages \in 0 .. nr_local_pages /\ d.pbuckets_count - 1 \in 0 .. nr_local_pbuckets - 1
      BY <1>1, <1>3, <1>5
    <3> HIDE DEF d
    <3> QED BY ONLY <1>1, <2>2, <2>5, <3>1 DEF ThreadData
  <2> QED
    BY <1>2, <1>3, <1>5, <2>1, <2>3, <2>4, <2>5, <2>6, TakePage
<1>6. CASE /\ d.pages_count = 0 /\ d.pbuckets_count = 0
           /\ page_get(free_page_head)
           /\ take_page(t, install_list(d, free_page_head))
  <2> DEFINE e == install_list(d, free_page_head)
             D == [data EXCEPT ![t] = e]
  <2>1. OthersSame(data, D, t) /\ D[t] = e
    BY <1>2 DEF OthersSame
  <2>2. e = [pages_count |-> nr_local_pages, pages |-> free_page_head, pbuckets_count |-> d.pbuckets_count,
             pbuckets |-> d.pbuckets, last_pbucket |-> d.last_pbucket]
    <3>1. d \in Data
      BY <1>1
    <3>2. d \in DataKeeping(Page \cup {Null})
      <4> HIDE DEF d
      <4> QED BY <3>1 DEF Data, DataKeeping
    <3>3. Installed(d, e, free_page_head)
      BY DEF Installed
    <3> HIDE DEF d, e
    <3> QED BY ONLY <3>2, <3>3, DataInstall
  <2>3. /\ e.pages = free_page_head /\ e.pages_count = nr_local_pages
        /\ e.pbuckets = d.pbuckets /\ e.pbuckets_count = d.pbuckets_count
        /\ e.last_pbucket = d.last_pbucket
    <3> HIDE DEF e
    <3> QED BY <2>2
  <2>4. take_page(t, e) /\ free_page_head # Null /\ free_page_head' = next[free_page_head]
    BY <1>6 DEF page_get
  <2> HIDE DEF e, D
  <2>5. /\ Placed(local_pages, next, used, next[free_page_head], D)
        /\ next[free_page_head] \in Page \cup {Null} /\ free_page_head \in Page
    <3> HIDE DEF d
    <3>1. data[t] = d
      BY DEF d
    <3> QED BY <1>1, <1>2, <1>6, <2>1, <2>3, <2>4, <3>1, TakeTop
  <2>6. e \in ThreadData
    <3>1. nr_local_pages \in 0 .. nr_local_pages
      BY <1>3
    <3> HIDE DEF d
    <3> QED BY ONLY <1>1, <2>2, <2>5, <3>1 DEF ThreadData
  <2> QED
    BY <1>3, <2>1, <2>3, <2>4, <2>5, <2>6, TakePage
<1> QED
  BY <1>4, <1>5, <1>6 DEF get_free_page

LEMMA DataClosed ==
  ASSUME NEW d \in Data, NEW e, e = list_closed(d)
  PROVE  e = [pages_count |-> 0, pages |-> Null, pbuckets_count |-> d.pbuckets_count + 1,
              pbuckets |-> d.pages,
              last_pbucket |-> IF d.pbuckets_count = 0 THEN d.pages ELSE d.last_pbucket]
BY DEF list_closed, Data

LEMMA DataReturned ==
  ASSUME NEW d \in Data, NEW e, e = buckets_returned(d)
  PROVE  e = [pages_count |-> d.pages_count, pages |-> d.pages, pbuckets_count |-> 0,
              pbuckets |-> Null, last_pbucket |-> Null]
BY DEF buckets_returned, Data

(* The common end of the ways to release a page. *)
LEMMA PutPage ==
  ASSUME Inv, NEW t \in Thread, NEW d \in ThreadData, d.pages_count < nr_local_pages,
         NEW p \in used, NEW nx \in Memory, NEW hd \in Page \cup {Null},
         NEW D, OthersSame(data, D, t), D[t] = d,
         Placed(local_pages, nx, used, hd, D),
         put_page(t, d, p), next' = nx, free_page_head' = hd,
         used' = used \ {p}, free' = free \cup {p}
  PROVE  Inv'
<1>1. /\ local_pages \in Memory /\ data \in [Thread -> ThreadData]
      /\ used \subseteq Page /\ free = Page \ used
  BY DEF Inv, TypeOK, Memory
<1>2. d \in Data /\ d.pages_count \in 0 .. nr_local_pages /\ d.pbuckets_count \in 0 .. nr_local_pbuckets - 1
  BY DataTyped
<1>3. /\ data' = [data EXCEPT ![t] = WithPage(d, p)]
      /\ local_pages' = [local_pages EXCEPT ![p] = d.pages]
  BY DEF put_page, WithPage
<1>4. data'[t] = WithPage(d, p) /\ OthersSame(D, data', t)
  BY <1>1, <1>3 DEF OthersSame
<1>5. Placed(local_pages', next', used', hd, data') /\ p \in Page
  <2>1. D[t] \in Data /\ data'[t] = WithPage(D[t], p)
    BY <1>2, <1>4
  <2>2. Placed(local_pages, nx, used, hd, D) /\ t \in Thread /\ p \in used
    OBVIOUS
  <2>3. Placed([local_pages EXCEPT ![p] = D[t].pages], nx, used \ {p}, hd, data') /\ p \in Page
    BY ONLY <1>1, <1>4, <2>1, <2>2, Put
  <2> QED BY <1>3, <2>3
<1>6. data' \in [Thread -> ThreadData]
  <2> DEFINE e == WithPage(d, p)
  <2>1. e \in Data /\ e.pages_count = d.pages_count + 1 /\ e.pbuckets_count = d.pbuckets_count
    BY <1>2, <1>5, DataPut
  <2>2. e.pages_count \in 0 .. nr_local_pages /\ e.pbuckets_count \in 0 .. nr_local_pbuckets - 1
    <3>1. nr_local_pages \in Nat /\ d.pages_count < nr_local_pages
      BY LimitsAssumption
    <3> HIDE DEF e
    <3> QED BY ONLY <1>2, <2>1, <3>1
  <2> HIDE DEF e
  <2>3. e \in ThreadData
    BY ONLY <2>1, <2>2, DataTyped
  <2>4. data' = [data EXCEPT ![t] = e]
    BY <1>3 DEF e
  <2> QED BY <1>1, <2>3, <2>4
<1>7. next' \in [Page -> Link] /\ local_pages' \in [Page -> Link]
  <2>1. d.pages \in Link
    BY <1>2 DEF Data, Link
  <2> QED BY <1>1, <1>3, <2>1 DEF Memory
<1>8. free' = Page \ used' /\ free' \subseteq Page /\ used' \subseteq Page
  BY <1>1, <1>5
<1>9. TypeOK'
  BY <1>6, <1>7, <1>8 DEF TypeOK
<1> QED
  BY <1>5, <1>8, <1>9 DEF Inv

LEMMA AddFreePage ==
  ASSUME Inv, NEW t \in Thread, add_free_page(t)
  PROVE  Inv'
<1> DEFINE d == data[t]
<1>1. /\ d \in ThreadData /\ d \in Data /\ d.pages_count \in 0 .. nr_local_pages
      /\ d.pbuckets_count \in 0 .. nr_local_pbuckets - 1
      /\ d.pages \in Page \cup {Null} /\ d.pbuckets \in Page \cup {Null}
      /\ d.last_pbucket \in Page \cup {Null}
  <2>1. d \in ThreadData
    BY DEF Inv, TypeOK
  <2>2. d \in Data
    BY <2>1, DataTyped
  <2> QED BY <2>1, <2>2, DataTyped DEF Data
<1>2. /\ data \in [Thread -> ThreadData] /\ Placed(local_pages, next, used, free_page_head, data)
      /\ free_page_head \in Page \cup {Null} /\ next \in Memory
  BY DEF Inv, TypeOK, Memory
<1>3. nr_local_pages \in Nat \ {0} /\ nr_local_pbuckets \in Nat
  BY LimitsAssumption
<1> DEFINE c == list_closed(d)
           linked == [next EXCEPT ![d.pages] = d.pbuckets]
<1>4. PICK p \in used :
        /\ used' = used \ {p} /\ free' = free \cup {p}
        /\ \/ /\ d.pages_count < nr_local_pages
              /\ put_page(t, d, p)
              /\ UNCHANGED <<next, free_page_head>>
           \/ /\ d.pages_count = nr_local_pages
              /\ IF too_many_buckets(c)
                 THEN /\ page_put(c.pbuckets, c.last_pbucket, linked)
                      /\ put_page(t, buckets_returned(c), p)
                 ELSE /\ next' = linked
                      /\ UNCHANGED free_page_head
                      /\ put_page(t, c, p)
  BY DEF add_free_page
<1>5. data[t] = d
  OBVIOUS
<1>6. c = [pages_count |-> 0, pages |-> Null, pbuckets_count |-> d.pbuckets_count + 1,
           pbuckets |-> d.pages,
           last_pbucket |-> IF d.pbuckets_count = 0 THEN d.pages ELSE d.last_pbucket]
  <2> HIDE DEF d
  <2> QED BY <1>1, DataClosed
<1>7. linked = [next EXCEPT ![d.pages] = d.pbuckets]
  OBVIOUS
<1> HIDE DEF d, c, linked
<1>8. CASE d.pages_count < nr_local_pages /\ put_page(t, d, p) /\ UNCHANGED <<next, free_page_head>>
  <2>1. OthersSame(data, data, t)
    BY DEF OthersSame
  <2> QED BY <1>1, <1>2, <1>4, <1>5, <1>8, <2>1, PutPage
<1>9. ASSUME d.pages_count = nr_local_pages,
             IF too_many_buckets(c)
             THEN /\ page_put(c.pbuckets, c.last_pbucket, linked)
                  /\ put_page(t, buckets_returned(c), p)
             ELSE /\ next' = linked
                  /\ UNCHANGED free_page_head
                  /\ put_page(t, c, p)
      PROVE  Inv'
  <2> DEFINE D == [data EXCEPT ![t] = c]
  <2>1. OthersSame(data, D, t) /\ D[t] = c
    BY <1>2 DEF OthersSame
  <2> HIDE DEF D
  <2>2. /\ c.pages_count = 0 /\ c.pages = Null
        /\ c.pbuckets = d.pages /\ c.pbuckets_count = d.pbuckets_count + 1
        /\ c.last_pbucket = IF d.pbuckets_count = 0 THEN d.pages ELSE d.last_pbucket
    BY <1>6
  <2>3. Placed(local_pages, linked, used, free_page_head, D) /\ d.pages \in Page
    BY <1>1, <1>2, <1>5, <1>7, <1>9, <2>1, <2>2, Close
  <2>4. linked \in Memory
    BY <1>1, <1>2, <1>7 DEF Memory, Link
  <2>5. c \in Data
    <3>1. d.pbuckets_count + 1 \in Nat /\ 0 \in Nat
      BY <1>1, <1>3
    <3>2. (IF d.pbuckets_count = 0 THEN d.pages ELSE d.last_pbucket) \in Page \cup {Null}
      BY <1>1
    <3> QED BY ONLY <1>1, <1>6, <3>1, <3>2 DEF Data
  <2>6. CASE ~too_many_buckets(c)
    <3>1. next' = linked /\ free_page_head' = free_page_head /\ put_page(t, c, p)
      BY <1>9, <2>6
    <3>2. c.pbuckets_count \in 0 .. nr_local_pbuckets - 1 /\ c.pages_count \in 0 .. nr_local_pages
      BY <1>1, <1>3, <2>2, <2>6 DEF too_many_buckets
    <3>3. c \in ThreadData
      BY ONLY <2>5, <3>2, DataTyped
    <3>4. c.pages_count < nr_local_pages
      BY <1>3, <2>2
    <3> QED
      BY <1>2, <1>4, <2>1, <2>3, <2>4, <3>1, <3>3, <3>4, PutPage
  <2>7. CASE too_many_buckets(c)
    <3> DEFINE r == buckets_returned(c)
               E == [data EXCEPT ![t] = r]
               nx == [linked EXCEPT ![c.last_pbucket] = free_page_head]
    <3>1. OthersSame(D, E, t) /\ OthersSame(data, E, t) /\ E[t] = r
      BY <1>2, <2>1 DEF OthersSame
    <3>2. r = [pages_count |-> c.pages_count, pages |-> c.pages, pbuckets_count |-> 0,
               pbuckets |-> Null, last_pbucket |-> Null]
      BY <2>5, DataReturned
    <3>3. next' = nx /\ free_page_head' = c.pbuckets /\ put_page(t, r, p)
      BY <1>9, <2>7 DEF page_put
    <3> HIDE DEF r, E
    <3>4. r.pages_count = c.pages_count /\ r.pages = c.pages /\ r.pbuckets_count = 0
      BY <3>2
    <3>5. Placed(local_pages, nx, used, c.pbuckets, E) /\ c.last_pbucket \in Page /\ c.pbuckets \in Page
      <4>1. D[t].pbuckets_count > 0 /\ D[t].last_pbucket = c.last_pbucket /\ D[t].pbuckets = c.pbuckets
        BY <1>1, <1>3, <2>1, <2>2
      <4>2. E[t].pages_count = D[t].pages_count /\ E[t].pages = D[t].pages /\ E[t].pbuckets_count = 0
        BY <2>1, <3>1, <3>4
      <4>3. t \in Thread
        OBVIOUS
      <4>4. /\ Placed(local_pages, [linked EXCEPT ![D[t].last_pbucket] = free_page_head], used, D[t].pbuckets, E)
            /\ D[t].pbuckets \in Page /\ D[t].last_pbucket \in Page
        BY ONLY <1>2, <2>3, <2>4, <3>1, <4>1, <4>2, <4>3, Return
      <4> QED BY <4>1, <4>4
    <3>6. nx \in Memory
      BY <1>2, <2>4, <3>5 DEF Memory, Link
    <3>7. r \in ThreadData
      <4>1. 0 \in 0 .. nr_local_pages /\ 0 \in 0 .. nr_local_pbuckets - 1
        BY <1>3, LimitsAssumption
      <4> QED BY ONLY <2>2, <3>2, <4>1 DEF ThreadData
    <3>8. r.pages_count < nr_local_pages
      BY <1>3, <2>2, <3>4
    <3> HIDE DEF nx
    <3> QED
      BY <1>4, <3>1, <3>3, <3>5, <3>6, <3>7, <3>8, PutPage
  <2> QED BY <2>6, <2>7
<1> QED
  BY <1>4, <1>8, <1>9

-----------------------------------------------------------------------------
(* In the pool of cf_init page p is the column-th page, from the end, of   *)
(* the full list in row p, counted from the end of the stack.              *)
Row(p) == (p - 1) \div nr_local_pages
Column(p) == (p - 1) % nr_local_pages
Rows == nr_pages \div nr_local_pages

(* p is in column c, counted from 0, of row k.                             *)
InRow(p, k, c) == k \in Int /\ c \in 0 .. nr_local_pages - 1 /\ p = nr_local_pages * k + c

LEMMA Remainder ==
  ASSUME NEW p, NEW k, NEW c, InRow(p, k, c)
  PROVE  p \div nr_local_pages = k /\ p % nr_local_pages = c
<1>1. nr_local_pages \in Nat \ {0}
  BY LimitsAssumption
<1>2. k \in Int /\ c \in 0 .. nr_local_pages - 1 /\ p = nr_local_pages * k + c
  BY DEF InRow
<1> QED
  BY ONLY <1>1, <1>2, Division

LEMMA PageRow ==
  ASSUME NEW p \in Int
  PROVE  /\ Row(p) \in Int /\ Column(p) \in 0 .. nr_local_pages - 1
         /\ p = nr_local_pages * Row(p) + Column(p) + 1
         /\ nr_local_pages * Row(p) \in Int
<1>1. nr_local_pages \in Nat \ {0} /\ p - 1 \in Int
  BY LimitsAssumption
<1>2. /\ p - 1 = nr_local_pages * ((p - 1) \div nr_local_pages) + ((p - 1) % nr_local_pages)
      /\ (p - 1) % nr_local_pages \in 0 .. nr_local_pages - 1 /\ (p - 1) \div nr_local_pages \in Int
  BY ONLY <1>1, DivMod
<1>3. /\ p - 1 = nr_local_pages * Row(p) + Column(p)
      /\ Column(p) \in 0 .. nr_local_pages - 1 /\ Row(p) \in Int
  BY <1>2 DEF Row, Column
<1>4. nr_local_pages * Row(p) \in Int
  BY <1>1, <1>3
<1> QED
  BY <1>1, <1>3, <1>4

LEMMA RowPage ==
  ASSUME NEW p \in Int, NEW k \in Int, NEW c \in 0 .. nr_local_pages - 1,
         p = nr_local_pages * k + c + 1
  PROVE  Row(p) = k /\ Column(p) = c
<1>1. InRow(p - 1, k, c)
  BY LimitsAssumption DEF InRow
<1>2. (p - 1) \div nr_local_pages = k /\ (p - 1) % nr_local_pages = c
  BY ONLY <1>1, Remainder
<1> QED
  BY <1>2 DEF Row, Column

LEMMA AllRows ==
  Rows \in Nat /\ nr_pages = nr_local_pages * Rows
<1>1. nr_local_pages \in Nat \ {0} /\ nr_pages \in Nat /\ nr_pages % nr_local_pages = 0
  BY LimitsAssumption
<1>2. nr_pages = nr_local_pages * Rows + (nr_pages % nr_local_pages) /\ Rows \in Int
  BY <1>1, DivMod DEF Rows
<1>3. nr_pages = nr_local_pages * Rows
  BY <1>1, <1>2
<1>4. Rows < 0 => nr_local_pages * Rows + nr_local_pages <= nr_local_pages * 0
  BY <1>1, <1>2, NextRow
<1> QED
  BY <1>1, <1>2, <1>3, <1>4

LEMMA RowBounds ==
  ASSUME NEW p \in Page
  PROVE  Row(p) \in 0 .. Rows - 1
<1>1. nr_local_pages \in Nat \ {0} /\ nr_pages \in Nat /\ p \in Int /\ p >= 1 /\ p <= nr_pages
  BY LimitsAssumption DEF Page
<1>2. /\ Row(p) \in Int /\ Column(p) \in 0 .. nr_local_pages - 1
      /\ p = nr_local_pages * Row(p) + Column(p) + 1
      /\ nr_local_pages * Row(p) \in Int
  BY <1>1, PageRow
<1>3. Row(p) < 0 => nr_local_pages * Row(p) + nr_local_pages <= nr_local_pages * 0
  BY <1>1, <1>2, NextRow
<1>4. Rows - 1 < Row(p) => nr_local_pages * (Rows - 1) + nr_local_pages <= nr_local_pages * Row(p)
  BY <1>1, <1>2, AllRows, NextRow
<1>5. nr_local_pages * (Rows - 1) + nr_local_pages = nr_local_pages * Rows
  BY <1>1, AllRows
<1>6. Row(p) >= 0
  BY <1>1, <1>2, <1>3
<1>7. Row(p) <= Rows - 1
  BY <1>1, <1>2, <1>4, <1>5, AllRows
<1> QED
  BY <1>2, <1>6, <1>7, AllRows

LEMMA SamePage ==
  ASSUME NEW p \in Page, NEW q \in Page, Row(p) = Row(q), Column(p) = Column(q)
  PROVE  p = q
<1>1. p \in Int /\ q \in Int
  BY LimitsAssumption DEF Page
<1>2. /\ p = nr_local_pages * Row(p) + Column(p) + 1
      /\ q = nr_local_pages * Row(q) + Column(q) + 1
  BY <1>1, PageRow
<1> QED
  BY <1>2

LEMMA SecondColumn ==
  ASSUME nr_local_pages > 1
  PROVE  1 % nr_local_pages = 1
<1>1. InRow(1, 0, 1)
  BY LimitsAssumption DEF InRow
<1> QED
  BY ONLY <1>1, Remainder

(* Below a page comes the page before it. *)
LEMMA PageBelow ==
  ASSUME NEW p \in Page, Column(p) > 0
  PROVE  /\ p - 1 \in Page /\ Row(p - 1) = Row(p) /\ Column(p - 1) = Column(p) - 1
         /\ p % nr_local_pages # 1 % nr_local_pages
<1>1. nr_local_pages \in Nat \ {0} /\ nr_pages \in Nat /\ p \in Int /\ p >= 1 /\ p <= nr_pages
  BY LimitsAssumption DEF Page
<1>2. /\ Row(p) \in Int /\ Column(p) \in 0 .. nr_local_pages - 1
      /\ p = nr_local_pages * Row(p) + Column(p) + 1
      /\ nr_local_pages * Row(p) \in Int
  BY <1>1, PageRow
<1>3. Row(p) >= 0 /\ nr_local_pages * Row(p) >= 0
  BY <1>1, <1>2, RowBounds, AllRows
<1>4. p - 1 \in Page
  BY <1>1, <1>2, <1>3 DEF Page
<1>5. Row(p - 1) = Row(p) /\ Column(p - 1) = Column(p) - 1
  <2>1. /\ p - 1 = nr_local_pages * Row(p) + (Column(p) - 1) + 1
        /\ Column(p) - 1 \in 0 .. nr_local_pages - 1 /\ p - 1 \in Int
    BY <1>1, <1>2
  <2> QED BY <1>2, <2>1, RowPage
<1>6. 1 % nr_local_pages = 1
  BY <1>1, <1>2, SecondColumn
<1>7. CASE Column(p) < nr_local_pages - 1
  <2>1. InRow(p, Row(p), Column(p) + 1)
    BY <1>1, <1>2, <1>7 DEF InRow
  <2>2. p % nr_local_pages = Column(p) + 1
    BY ONLY <2>1, Remainder
  <2> QED BY <1>2, <1>4, <1>5, <1>6, <2>2
<1>8. CASE Column(p) = nr_local_pages - 1
  <2>1. nr_local_pages * (Row(p) + 1) = nr_local_pages * Row(p) + nr_local_pages
    BY <1>1, <1>2
  <2>2. InRow(p, Row(p) + 1, 0)
    BY <1>1, <1>2, <1>8, <2>1 DEF InRow
  <2>3. p % nr_local_pages = 0
    BY ONLY <2>2, Remainder
  <2> QED BY <1>4, <1>5, <1>6, <2>3
<1> QED
  BY <1>1, <1>2, <1>7, <1>8

(* The heads are the pages of the last column, one in each row. *)
LEMMA ListHead ==
  ASSUME NEW p \in Page
  PROVE  is_list_head(p) <=> Column(p) = nr_local_pages - 1
<1>1. nr_local_pages \in Nat \ {0} /\ p \in Int
  BY LimitsAssumption DEF Page
<1>2. /\ Row(p) \in Int /\ Column(p) \in 0 .. nr_local_pages - 1
      /\ p = nr_local_pages * Row(p) + Column(p) + 1
      /\ nr_local_pages * Row(p) \in Int
  BY <1>1, PageRow
<1>3. CASE Column(p) < nr_local_pages - 1
  <2>1. InRow(p, Row(p), Column(p) + 1)
    BY <1>1, <1>2, <1>3 DEF InRow
  <2>2. p % nr_local_pages = Column(p) + 1
    BY ONLY <2>1, Remainder
  <2>3. Column(p) + 1 # 0 /\ Column(p) # nr_local_pages - 1
    BY <1>1, <1>2, <1>3
  <2> QED BY <2>2, <2>3 DEF is_list_head
<1>4. CASE Column(p) = nr_local_pages - 1
  <2>1. nr_local_pages * (Row(p) + 1) = nr_local_pages * Row(p) + nr_local_pages
    BY <1>1, <1>2
  <2>2. InRow(p, Row(p) + 1, 0)
    BY <1>1, <1>2, <1>4, <2>1 DEF InRow
  <2>3. p % nr_local_pages = 0
    BY ONLY <2>2, Remainder
  <2> QED BY <1>4, <2>3 DEF is_list_head
<1>5. Column(p) < nr_local_pages - 1 \/ Column(p) = nr_local_pages - 1
  <2>1. Column(p) \in 0 .. nr_local_pages - 1 /\ nr_local_pages \in Nat
    BY <1>1, <1>2
  <2> QED BY ONLY <2>1
<1> QED
  BY <1>3, <1>4, <1>5, Zenon

HeadOf(k) == nr_local_pages * k + nr_local_pages

LEMMA RowHead ==
  ASSUME NEW k \in 0 .. Rows - 1
  PROVE  /\ HeadOf(k) \in Page /\ Row(HeadOf(k)) = k /\ Column(HeadOf(k)) = nr_local_pages - 1
<1>1. nr_local_pages \in Nat \ {0} /\ nr_pages \in Nat /\ Rows \in Nat /\ nr_pages = nr_local_pages * Rows
  BY LimitsAssumption, AllRows
<1>2. k \in Int /\ k >= 0 /\ k < Rows
  BY <1>1
<1>3. nr_local_pages * k + nr_local_pages <= nr_local_pages * Rows
  BY <1>1, <1>2, NextRow
<1>4. nr_local_pages * k \in Int /\ nr_local_pages * k >= 0
  BY <1>1, <1>2
<1>5. HeadOf(k) \in Page /\ HeadOf(k) \in Int
  BY <1>1, <1>3, <1>4 DEF HeadOf, Page
<1>6. HeadOf(k) = nr_local_pages * k + (nr_local_pages - 1) + 1 /\ nr_local_pages - 1 \in 0 .. nr_local_pages - 1
  BY <1>1, <1>4 DEF HeadOf
<1>7. Row(HeadOf(k)) = k /\ Column(HeadOf(k)) = nr_local_pages - 1
  BY <1>2, <1>5, <1>6, RowPage
<1> QED
  BY <1>5, <1>7

LEMMA HeadBelow ==
  ASSUME NEW p \in Page, Column(p) = nr_local_pages - 1
  PROVE  /\ p = HeadOf(Row(p))
         /\ Row(p) = 0 => ~(p > nr_local_pages)
         /\ Row(p) > 0 => /\ p > nr_local_pages
                          /\ p - nr_local_pages = HeadOf(Row(p) - 1)
<1>1. nr_local_pages \in Nat \ {0} /\ p \in Int
  BY LimitsAssumption DEF Page
<1>2. /\ Row(p) \in Int
      /\ p = nr_local_pages * Row(p) + (nr_local_pages - 1) + 1
      /\ nr_local_pages * Row(p) \in Int
  BY <1>1, PageRow
<1>3. p = HeadOf(Row(p))
  BY <1>1, <1>2 DEF HeadOf
<1>4. Row(p) = 0 => p = nr_local_pages
  BY <1>1, <1>2
<1>5. ASSUME Row(p) > 0
      PROVE  p > nr_local_pages /\ p - nr_local_pages = HeadOf(Row(p) - 1)
  <2>1. nr_local_pages * 0 + nr_local_pages <= nr_local_pages * Row(p)
    BY <1>1, <1>2, <1>5, NextRow
  <2>2. nr_local_pages * (Row(p) - 1) = nr_local_pages * Row(p) - nr_local_pages
    BY <1>1, <1>2
  <2> QED BY <1>1, <1>2, <2>1, <2>2 DEF HeadOf
<1> QED
  BY <1>1, <1>3, <1>4, <1>5

LEMMA InitPages ==
  ASSUME Init
  PROVE  LET H == {h \in Page : Column(h) = nr_local_pages - 1}
         IN  PagesPlaced(local_pages, used, data, [p \in Page |-> Full(HeadOf(Row(p)))],
                         [p \in Page |-> Column(p) + 1], H)
<1> DEFINE H == {h \in Page : Column(h) = nr_local_pages - 1}
           in == [p \in Page |-> Full(HeadOf(Row(p)))]
           at == [p \in Page |-> Column(p) + 1]
<1>1. /\ local_pages = [p \in Page |-> IF p % nr_local_pages = 1 % nr_local_pages THEN Null ELSE p - 1]
      /\ used = {} /\ data = [t \in Thread |-> init_thread]
  BY DEF Init, init_free_pages_list, get_thread_data
<1>2. /\ \A p \in Page : in[p] = Full(HeadOf(Row(p))) /\ at[p] = Column(p) + 1
      /\ \A h : h \in H <=> h \in Page /\ Column(h) = nr_local_pages - 1
  OBVIOUS
<1> HIDE DEF H, in, at
<1>3. \A p \in Page : /\ Column(p) \in 0 .. nr_local_pages - 1 /\ Row(p) \in 0 .. Rows - 1
                      /\ HeadOf(Row(p)) \in H
                      /\ Row(HeadOf(Row(p))) = Row(p)
  <2> TAKE p \in Page
  <2>1. p \in Int
    BY LimitsAssumption DEF Page
  <2> QED BY <1>2, <2>1, PageRow, RowBounds, RowHead
<1>4. nr_local_pages \in Nat \ {0}
  BY LimitsAssumption
<1>5. \A t \in Thread : IsList(Page, local_pages, in, at, Open(t), data[t].pages, data[t].pages_count)
  <2> TAKE t \in Thread
  <2>1. data[t].pages_count = 0
    BY <1>1 DEF init_thread
  <2>2. \A p \in Page : in[p] # Open(t)
    BY <1>2, PageNames
  <2> QED BY <2>1, <2>2, EmptyList
<1>6. ASSUME NEW h \in H
      PROVE  IsList(Page, local_pages, in, at, Full(h), h, nr_local_pages)
  <2>1. h \in Page /\ Column(h) = nr_local_pages - 1 /\ h = HeadOf(Row(h))
    BY <1>2, HeadBelow
  <2>2. h \in Page /\ in[h] = Full(h) /\ at[h] = nr_local_pages
    BY <1>2, <1>4, <2>1
  <2>3. ASSUME NEW e \in Page
        PROVE  in[e] = Full(h) <=> Row(e) = Row(h)
    <3>1. in[e] = Full(h) => HeadOf(Row(e)) = h
      BY <1>2, PageNames
    <3>2. HeadOf(Row(e)) = h => Row(e) = Row(h)
      BY <1>3
    <3> QED BY <1>2, <2>1, <3>1, <3>2
  <2>4. ASSUME NEW e \in Page, in[e] = Full(h)
        PROVE  /\ at[e] \in 1 .. nr_local_pages
               /\ at[e] > 1 => /\ local_pages[e] \in Page /\ in[local_pages[e]] = Full(h)
                               /\ at[local_pages[e]] = at[e] - 1
    <3>1. at[e] = Column(e) + 1 /\ Column(e) \in 0 .. nr_local_pages - 1
      BY <1>2, <1>3
    <3>2. at[e] \in 1 .. nr_local_pages /\ (at[e] > 1 => Column(e) > 0)
      BY <1>4, <3>1
    <3>3. ASSUME Column(e) > 0
          PROVE  /\ local_pages[e] \in Page /\ in[local_pages[e]] = Full(h)
                 /\ at[local_pages[e]] = at[e] - 1
      <4>1. /\ e - 1 \in Page /\ Row(e - 1) = Row(e) /\ Column(e - 1) = Column(e) - 1
            /\ e % nr_local_pages # 1 % nr_local_pages
        BY <3>3, PageBelow
      <4>2. local_pages[e] = e - 1
        BY <1>1, <4>1
      <4>3. in[e - 1] = Full(h)
        BY <2>3, <2>4, <4>1
      <4>4. at[e - 1] = (Column(e) - 1) + 1
        BY <1>2, <4>1
      <4> QED BY <3>1, <4>1, <4>2, <4>3, <4>4
    <3> QED BY <3>2, <3>3
  <2>5. ASSUME NEW e \in Page, NEW g \in Page, in[e] = Full(h), in[g] = Full(h), at[e] = at[g]
        PROVE  e = g
    <3>1. Row(e) = Row(g)
      BY <2>3, <2>5
    <3>2. /\ Column(e) + 1 = Column(g) + 1
          /\ Column(e) \in 0 .. nr_local_pages - 1 /\ Column(g) \in 0 .. nr_local_pages - 1
      BY <1>2, <1>3, <2>5
    <3>3. Column(e) = Column(g)
      BY ONLY <3>2
    <3> QED BY <3>1, <3>3, SamePage
  <2> QED BY <1>4, <2>2, <2>4, <2>5 DEF IsList
<1>7. \A p \in Page : \E h \in H : in[p] = Full(h)
  BY <1>2, <1>3
<1>8. \A p \in Page : p \in used <=> in[p] = Used
  BY <1>1, <1>2, PageNames
<1>9. \A p \in Page : in[p] # Used => local_pages[p] \in Page \cup {Null}
  <2> TAKE p \in Page
  <2>1. Column(p) > 0 => p - 1 \in Page
    BY PageBelow
  <2>2. ~(Column(p) > 0) => p % nr_local_pages = 1 % nr_local_pages
    <3>1. SUFFICES ASSUME Column(p) = 0
                   PROVE  p % nr_local_pages = 1 % nr_local_pages
      <4>1. Column(p) \in 0 .. nr_local_pages - 1
        BY <1>3
      <4>2. ~(Column(p) > 0) => Column(p) = 0
        BY ONLY <1>4, <4>1
      <4> QED BY <4>2
    <3>2. p = nr_local_pages * Row(p) + 0 + 1 /\ Row(p) \in Int /\ nr_local_pages * Row(p) \in Int
      <4>1. p \in Int
        BY LimitsAssumption DEF Page
      <4> QED BY <3>1, <4>1, PageRow
    <3>3. CASE nr_local_pages = 1
      <4>1. p = 1 * p + 0 /\ 1 = 1 * 1 + 0 /\ p \in Int /\ 0 \in 0 .. 1 - 1
        BY <3>2, LimitsAssumption DEF Page
      <4>2. p % 1 = 0 /\ 1 % 1 = 0
        <5>1. 1 \in Nat \ {0} /\ 1 \in Int
          OBVIOUS
        <5> QED BY ONLY <4>1, <5>1, Division
      <4> QED BY <3>3, <4>2
    <3>4. CASE nr_local_pages > 1
      <4>1. /\ p = nr_local_pages * Row(p) + 1 /\ 1 \in 0 .. nr_local_pages - 1
            /\ 1 = nr_local_pages * 0 + 1 /\ 0 \in Int
        BY <1>4, <3>2, <3>4
      <4>2. InRow(p, Row(p), 1)
        BY ONLY <3>2, <4>1 DEF InRow
      <4>3. p % nr_local_pages = 1
        BY ONLY <1>4, <4>2, Remainder
      <4>4. 1 % nr_local_pages = 1
        BY <3>4, SecondColumn
      <4> QED BY <4>3, <4>4
    <3> QED BY <1>4, <3>3, <3>4
  <2> QED BY <1>1, <2>1, <2>2
<1>10. PagesPlaced(local_pages, used, data, in, at, H)
  BY <1>1, <1>2, <1>5, <1>6, <1>7, <1>8, <1>9 DEF PagesPlaced
<1> QED
  BY <1>10 DEF in, at, H

LEMMA InitHeads ==
  ASSUME Init
  PROVE  LET H == {h \in Page : Column(h) = nr_local_pages - 1}
         IN  HeadsPlaced(next, free_page_head, data, [p \in Page |-> IF p \in H THEN Stack ELSE None],
                         [p \in Page |-> Row(p) + 1], H, Rows)
<1> DEFINE H == {h \in Page : Column(h) = nr_local_pages - 1}
           hin == [p \in Page |-> IF p \in H THEN Stack ELSE None]
           hat == [p \in Page |-> Row(p) + 1]
<1>1. /\ next = [p \in Page |-> IF is_list_head(p) /\ p > nr_local_pages THEN p - nr_local_pages ELSE Null]
      /\ free_page_head = IF nr_pages = 0 THEN Null ELSE nr_pages
      /\ data = [t \in Thread |-> init_thread]
  BY DEF Init, init_free_pages_list, get_thread_data
<1>2. /\ \A p \in Page : hin[p] = (IF p \in H THEN Stack ELSE None) /\ hat[p] = Row(p) + 1
      /\ \A h : h \in H <=> h \in Page /\ Column(h) = nr_local_pages - 1
  OBVIOUS
<1> HIDE DEF H, hin, hat
<1>3. /\ nr_local_pages \in Nat \ {0} /\ nr_pages \in Nat
      /\ Rows \in Nat /\ nr_pages = nr_local_pages * Rows
  BY LimitsAssumption, AllRows
<1>4. ASSUME NEW h \in H
      PROVE  /\ h \in Page /\ Row(h) \in 0 .. Rows - 1
             /\ Row(h) = 0 => next[h] = Null
             /\ Row(h) > 0 => next[h] \in H /\ Row(next[h]) = Row(h) - 1
  <2>1. h \in Page /\ Column(h) = nr_local_pages - 1 /\ Row(h) \in 0 .. Rows - 1 /\ is_list_head(h)
    BY <1>2, RowBounds, ListHead
  <2>2. /\ Row(h) = 0 => ~(h > nr_local_pages)
        /\ Row(h) > 0 => h > nr_local_pages /\ h - nr_local_pages = HeadOf(Row(h) - 1)
    BY <2>1, HeadBelow
  <2>3. Row(h) = 0 => next[h] = Null
    BY <1>1, <2>1, <2>2
  <2>4. ASSUME Row(h) > 0
        PROVE  next[h] \in H /\ Row(next[h]) = Row(h) - 1
    <3>1. next[h] = HeadOf(Row(h) - 1)
      BY <1>1, <2>1, <2>2, <2>4
    <3>2. Row(h) - 1 \in 0 .. Rows - 1
      BY <1>3, <2>1, <2>4
    <3> QED BY <1>2, <3>1, <3>2, RowHead
  <2> QED BY <2>1, <2>3, <2>4
<1>5. \A h \in Page : hin[h] = Stack <=> h \in H
  BY <1>2, HeadNames
<1>6. IsList(Page, next, hin, hat, Stack, free_page_head, Rows)
  <2>1. ASSUME Rows > 0
        PROVE  /\ free_page_head \in Page /\ hin[free_page_head] = Stack
               /\ hat[free_page_head] = Rows
    <3>1. nr_local_pages * (Rows - 1) + nr_local_pages = nr_local_pages * Rows
      BY <1>3
    <3>2. HeadOf(Rows - 1) = nr_pages /\ Rows - 1 \in 0 .. Rows - 1
      BY <1>3, <2>1, <3>1 DEF HeadOf
    <3>3. /\ nr_pages \in Page /\ Row(nr_pages) = Rows - 1 /\ Column(nr_pages) = nr_local_pages - 1
      BY <3>2, RowHead
    <3>4. free_page_head = nr_pages
      BY <1>1, <3>3 DEF Page
    <3>5. hat[nr_pages] = (Rows - 1) + 1
      BY <1>2, <3>3
    <3> QED BY <1>2, <1>3, <1>5, <3>3, <3>4, <3>5
  <2>2. ASSUME NEW e \in Page, hin[e] = Stack
        PROVE  /\ hat[e] \in 1 .. Rows
               /\ hat[e] > 1 => next[e] \in Page /\ hin[next[e]] = Stack /\ hat[next[e]] = hat[e] - 1
    <3>1. e \in H /\ hat[e] = Row(e) + 1 /\ Row(e) \in 0 .. Rows - 1
      BY <1>2, <1>4, <1>5, <2>2
    <3>2. hat[e] \in 1 .. Rows /\ (hat[e] > 1 => Row(e) > 0)
      BY <1>3, <3>1
    <3>3. ASSUME Row(e) > 0
          PROVE  next[e] \in Page /\ hin[next[e]] = Stack /\ hat[next[e]] = hat[e] - 1
      <4>1. next[e] \in H /\ Row(next[e]) = Row(e) - 1
        BY <1>4, <3>1, <3>3
      <4>2. next[e] \in Page /\ hin[next[e]] = Stack /\ hat[next[e]] = (Row(e) - 1) + 1
        BY <1>2, <1>5, <4>1
      <4> QED BY <3>1, <4>2
    <3> QED BY <3>2, <3>3
  <2>3. ASSUME NEW e \in Page, NEW g \in Page, hin[e] = Stack, hin[g] = Stack, hat[e] = hat[g]
        PROVE  e = g
    <3>1. /\ e \in H /\ g \in H /\ Row(e) + 1 = Row(g) + 1
          /\ Row(e) \in 0 .. Rows - 1 /\ Row(g) \in 0 .. Rows - 1
      BY <1>2, <1>4, <1>5, <2>3
    <3>2. Row(e) = Row(g)
      BY ONLY <3>1
    <3>3. Column(e) = Column(g)
      BY <1>2, <3>1
    <3> QED BY <3>2, <3>3, SamePage
  <2> QED BY <1>3, <2>1, <2>2, <2>3 DEF IsList
<1>7. ASSUME NEW t \in Thread
      PROVE  /\ data[t].pbuckets_count = 0
             /\ IsList(Page, next, hin, hat, Kept(t), data[t].pbuckets, data[t].pbuckets_count)
  <2>1. data[t].pbuckets_count = 0
    BY <1>1 DEF init_thread
  <2>2. \A p \in Page : hin[p] # Kept(t)
    BY <1>2, HeadNames
  <2> QED BY <2>1, <2>2, EmptyList
<1>8. Rows = 0 => free_page_head = Null
  BY <1>1, <1>3
<1>9. \A h \in Page : hin[h] = Stack /\ hat[h] = 1 => next[h] = Null
  <2> TAKE h \in Page
  <2>1. SUFFICES ASSUME h \in H, Row(h) + 1 = 1 PROVE next[h] = Null
    BY <1>2, <1>5
  <2>2. Row(h) = 0
    <3>1. Row(h) \in 0 .. Rows - 1
      BY <1>4, <2>1
    <3> QED BY ONLY <2>1, <3>1
  <2> QED BY <1>4, <2>1, <2>2
<1>10. \A h \in H : next[h] \in Page \cup {Null}
  <2> TAKE h \in H
  <2>1. Row(h) \in 0 .. Rows - 1
    BY <1>4
  <2>2. Row(h) = 0 \/ Row(h) > 0
    BY ONLY <2>1
  <2> QED BY <1>2, <1>4, <2>2
<1>11. \A h \in Page : (hin[h] = None \/ hin[h] = Stack) /\ (h \in H <=> hin[h] # None)
  BY <1>2, HeadNames
<1>12. HeadsPlaced(next, free_page_head, data, hin, hat, H, Rows)
  BY <1>2, <1>6, <1>7, <1>8, <1>9, <1>10, <1>11 DEF HeadsPlaced
<1> QED
  BY <1>12 DEF hin, hat, H

LEMMA InitInv == Init => Inv
<1> SUFFICES ASSUME Init PROVE Inv
  OBVIOUS
<1> DEFINE H == {h \in Page : Column(h) = nr_local_pages - 1}
           in == [p \in Page |-> Full(HeadOf(Row(p)))]
           at == [p \in Page |-> Column(p) + 1]
           hin == [p \in Page |-> IF p \in H THEN Stack ELSE None]
           hat == [p \in Page |-> Row(p) + 1]
<1>1. PagesPlaced(local_pages, used, data, in, at, H)
  BY InitPages
<1>2. HeadsPlaced(next, free_page_head, data, hin, hat, H, Rows)
  BY InitHeads
<1> HIDE DEF H, in, at, hin, hat
<1>3. Placed(local_pages, next, used, free_page_head, data)
  BY <1>1, <1>2 DEF Placed
<1>4. /\ local_pages = [p \in Page |-> IF p % nr_local_pages = 1 % nr_local_pages THEN Null ELSE p - 1]
      /\ next = [p \in Page |-> IF is_list_head(p) /\ p > nr_local_pages THEN p - nr_local_pages ELSE Null]
      /\ free_page_head = IF nr_pages = 0 THEN Null ELSE nr_pages
      /\ free = Page /\ used = {} /\ data = [t \in Thread |-> init_thread]
  BY DEF Init, init_free_pages_list, get_thread_data
<1>5. nr_local_pages \in Nat \ {0} /\ nr_local_pbuckets \in Nat \ {0} /\ nr_pages \in Nat
  BY LimitsAssumption
<1>6. \A p \in Page : local_pages[p] \in Page \cup {Null}
  <2>1. \A p \in Page : in[p] # Used
    BY PageNames DEF in
  <2> QED BY <1>1, <2>1 DEF PagesPlaced
<1>7. local_pages \in [Page -> Link]
  BY <1>4, <1>6 DEF Link
<1>8. next \in [Page -> Link]
  <2>1. \A p \in Page : p > nr_local_pages => p - nr_local_pages \in Page
    BY <1>5 DEF Page
  <2> QED BY <1>4, <2>1 DEF Link
<1>9. free_page_head \in Page \cup {Null}
  BY <1>4, <1>5 DEF Page
<1>10. data \in [Thread -> ThreadData]
  <2>1. 0 \in 0 .. nr_local_pages /\ 0 \in 0 .. nr_local_pbuckets - 1
    BY <1>5
  <2>2. init_thread \in ThreadData
    BY ONLY <2>1 DEF init_thread, ThreadData
  <2> QED BY <1>4, <2>2
<1> QED
  BY <1>3, <1>4, <1>7, <1>8, <1>9, <1>10 DEF Inv, TypeOK

LEMMA NextInv == Inv /\ [Next]_vars => Inv'
<1> SUFFICES ASSUME Inv, [Next]_vars PROVE Inv'
  OBVIOUS
<1>1. ASSUME NEW t \in Thread, get_free_page(t) PROVE Inv'
  BY <1>1, GetFreePage
<1>2. ASSUME NEW t \in Thread, add_free_page(t) PROVE Inv'
  BY <1>2, AddFreePage
<1>3. CASE UNCHANGED vars
  BY <1>3 DEF vars, Inv, TypeOK, Placed
<1> QED
  BY <1>1, <1>2, <1>3 DEF Next

LEMMA InvAlways == Spec => []Inv
<1>1. Init => Inv
  BY InitInv
<1>2. Inv /\ [Next]_vars => Inv'
  BY NextInv
<1> QED
  BY <1>1, <1>2, PTL DEF Spec

(* TypeOK: the links, the counts and the lists of every thread are within  *)
(* what the fields of struct mem_page and thread_data have room for.       *)
THEOREM TypeCorrect ==
  Spec => []TypeOK
<1>1. Inv => TypeOK
  BY DEF Inv
<1> QED
  BY <1>1, InvAlways, PTL

-----------------------------------------------------------------------------
(* a is the walk that chain gives the sequence of. *)
Along(f, p, n, a) ==
  /\ IsWalk(Page, f, p, n, Null, a)
  /\ DOMAIN chain(f, p, n) = 1 .. n
  /\ \A i \in 1 .. n : chain(f, p, n)[i] = a[i - 1]

LEMMA ChainWalk ==
  ASSUME NEW f, NEW p, NEW n \in Nat
  PROVE  \E a : Along(f, p, n, a)
<1> DEFINE a == CHOOSE b : IsWalk(Page, f, p, n, Null, b)
<1>1. chain(f, p, n) = [i \in 1 .. n |-> a[i - 1]]
  BY DEF chain, IsWalk
<1>2. IsWalk(Page, f, p, n, Null, a)
  BY WalkExists
<1> HIDE DEF a
<1>3. DOMAIN chain(f, p, n) = 1 .. n /\ \A i \in 1 .. n : chain(f, p, n)[i] = a[i - 1]
  BY <1>1
<1>4. Along(f, p, n, a)
  BY ONLY <1>2, <1>3 DEF Along
<1> QED
  BY ONLY <1>4

LEMMA ChainList ==
  ASSUME NEW f, NEW in, NEW at, NEW x, NEW first, NEW n,
         IsList(Page, f, in, at, x, first, n)
  PROVE  Spelled(Page, chain(f, first, n), in, at, x, n)
<1>1. n \in Nat
  BY DEF IsList
<1>2. PICK a : Along(f, first, n, a)
  BY ONLY <1>1, ChainWalk
<1> DEFINE w == chain(f, first, n)
<1>3. IsWalk(Page, f, first, n, Null, a) /\ DOMAIN w = 1 .. n /\ \A i \in 1 .. n : w[i] = a[i - 1]
  BY ONLY <1>2 DEF Along
<1> HIDE DEF w
<1>4. Spelled(Page, w, in, at, x, n)
  BY ONLY <1>3, IsList(Page, f, in, at, x, first, n), WalkSpells
<1> QED
  BY ONLY <1>4 DEF w

LEMMA Family ==
  ASSUME NEW lists, NEW in, NEW at, NEW nm, NEW n, AllSpelled(Page, lists, in, at, nm, n)
  PROVE  /\ NoneTwice(lists)
         /\ pages_in(lists) = {p \in Page : \E x \in DOMAIN lists : in[p] = nm[x]}
<1>1. /\ \A x, y \in DOMAIN lists : \A i \in DOMAIN lists[x], j \in DOMAIN lists[y] :
           lists[x][i] = lists[y][j] => x = y /\ i = j
      /\ UNION {{lists[x][i] : i \in DOMAIN lists[x]} : x \in DOMAIN lists}
           = {p \in Page : \E x \in DOMAIN lists : in[p] = nm[x]}
  BY ONLY AllSpelled(Page, lists, in, at, nm, n), SpelledApart
<1> QED
  BY ONLY <1>1 DEF NoneTwice, pages_in, Range

(* on_stack comes to the end of the stack. *)
LEMMA StackSpelled ==
  ASSUME NEW nx, NEW hd, NEW hin, NEW hat, NEW m,
         IsList(Page, nx, hin, hat, Stack, hd, m),
         m = 0 => hd = Null,
         \A h \in Page : hin[h] = Stack /\ hat[h] = 1 => nx[h] = Null,
         NEW s, s = chain(nx, hd, nr_pages)
  PROVE  Spelled(Page, [i \in {j \in 1 .. nr_pages : s[j] # Null} |-> s[i]], hin, hat, Stack, m)
<1> DEFINE k == nr_pages
<1>1. k \in Nat /\ Null \notin Page
  BY LimitsAssumption, LinkAssumption
<1>2. Page = 1 .. k
  BY DEF Page
<1>3. s = chain(nx, hd, k)
  OBVIOUS
<1> HIDE DEF k
<1>4. m <= k
  <2>1. IsFiniteSet(Page) /\ Cardinality(Page) = k
    BY ONLY <1>1, <1>2, NumberUpTo
  <2>2. m <= Cardinality(Page)
    BY ONLY <2>1, IsList(Page, nx, hin, hat, Stack, hd, m), ListLength
  <2> QED BY ONLY <2>1, <2>2
<1>5. PICK a : Along(nx, hd, k, a)
  BY ONLY <1>1, ChainWalk
<1>6. IsWalk(Page, nx, hd, k, Null, a) /\ DOMAIN s = 1 .. k /\ \A i \in 1 .. k : s[i] = a[i - 1]
  BY ONLY <1>3, <1>5 DEF Along
<1>7. Spelled(Page, [i \in {j \in 1 .. k : s[j] # Null} |-> s[i]], hin, hat, Stack, m)
  BY ONLY <1>1, <1>4, <1>6, IsList(Page, nx, hin, hat, Stack, hd, m), m = 0 => hd = Null,
     \A h \in Page : hin[h] = Stack /\ hat[h] = 1 => nx[h] = Null, WalkSpellsAll
<1> QED
  BY ONLY <1>7 DEF k

-----------------------------------------------------------------------------
LEMMA OpenSpelled ==
  ASSUME NEW in, NEW at, NEW H, PagesPlaced(local_pages, used, data, in, at, H)
  PROVE  /\ DOMAIN open = Thread
         /\ NoneTwice(open)
         /\ pages_in(open) = {p \in Page : \E t \in Thread : in[p] = Open(t)}
<1> DEFINE nm == [t \in Thread |-> Open(t)]
           n == [t \in Thread |-> data[t].pages_count]
<1>1. DOMAIN open = Thread
  BY DEF open
<1>2. \A t \in Thread : nm[t] = Open(t) /\ n[t] = data[t].pages_count
  OBVIOUS
<1> HIDE DEF nm, n
<1>3. ASSUME NEW t \in Thread
      PROVE  Spelled(Page, open[t], in, at, nm[t], n[t])
  <2>1. IsList(Page, local_pages, in, at, nm[t], data[t].pages, n[t])
    BY <1>2 DEF PagesPlaced
  <2>2. open[t] = chain(local_pages, data[t].pages, n[t])
    BY <1>2 DEF open
  <2> DEFINE first == data[t].pages
  <2> HIDE DEF first
  <2>3. Spelled(Page, chain(local_pages, first, n[t]), in, at, nm[t], n[t])
    <3>1. IsList(Page, local_pages, in, at, nm[t], first, n[t])
      BY <2>1 DEF first
    <3> QED BY ONLY <3>1, ChainList
  <2> QED BY <2>2, <2>3 DEF first
<1>4. \A x, y \in DOMAIN open : nm[x] = nm[y] => x = y
  BY <1>1, <1>2, PageNames
<1>5. AllSpelled(Page, open, in, at, nm, n)
  BY <1>1, <1>3, <1>4 DEF AllSpelled
<1>6. /\ NoneTwice(open)
      /\ pages_in(open) = {p \in Page : \E x \in DOMAIN open : in[p] = nm[x]}
  BY ONLY <1>5, Family
<1>7. pages_in(open) = {p \in Page : \E t \in Thread : in[p] = Open(t)}
  BY <1>1, <1>2, <1>6
<1> QED
  BY <1>1, <1>6, <1>7

LEMMA KeptSpelled ==
  ASSUME NEW hin, NEW hat, NEW H, NEW m, HeadsPlaced(next, free_page_head, data, hin, hat, H, m)
  PROVE  /\ NoneTwice(kept)
         /\ pages_in(kept) = {p \in Page : \E t \in Thread : hin[p] = Kept(t)}
<1> DEFINE nm == [t \in Thread |-> Kept(t)]
           n == [t \in Thread |-> data[t].pbuckets_count]
<1>1. DOMAIN kept = Thread
  BY DEF kept
<1>2. \A t \in Thread : nm[t] = Kept(t) /\ n[t] = data[t].pbuckets_count
  OBVIOUS
<1> HIDE DEF nm, n
<1>3. ASSUME NEW t \in Thread
      PROVE  Spelled(Page, kept[t], hin, hat, nm[t], n[t])
  <2> DEFINE first == data[t].pbuckets
  <2>1. IsList(Page, next, hin, hat, nm[t], first, n[t])
    BY <1>2 DEF HeadsPlaced
  <2>2. kept[t] = chain(next, first, n[t])
    BY <1>2 DEF kept
  <2> HIDE DEF first
  <2>3. Spelled(Page, chain(next, first, n[t]), hin, hat, nm[t], n[t])
    BY ONLY <2>1, ChainList
  <2> QED BY <2>2, <2>3
<1>4. \A x, y \in DOMAIN kept : nm[x] = nm[y] => x = y
  BY <1>1, <1>2, HeadNames
<1>5. AllSpelled(Page, kept, hin, hat, nm, n)
  BY <1>1, <1>3, <1>4 DEF AllSpelled
<1>6. /\ NoneTwice(kept)
      /\ pages_in(kept) = {p \in Page : \E x \in DOMAIN kept : hin[p] = nm[x]}
  BY ONLY <1>5, Family
<1>7. pages_in(kept) = {p \in Page : \E t \in Thread : hin[p] = Kept(t)}
  BY <1>1, <1>2, <1>6
<1> QED
  BY <1>6, <1>7

LEMMA OnStackSpelled ==
  ASSUME NEW hin, NEW hat, NEW H, NEW m, HeadsPlaced(next, free_page_head, data, hin, hat, H, m)
  PROVE  /\ IsInjective(on_stack)
         /\ Range(on_stack) = {p \in Page : hin[p] = Stack}
<1> DEFINE s == chain(next, free_page_head, nr_pages)
           r == [i \in {j \in 1 .. nr_pages : s[j] # Null} |-> s[i]]
<1>1. Spelled(Page, r, hin, hat, Stack, m)
  <2>1. /\ IsList(Page, next, hin, hat, Stack, free_page_head, m)
        /\ m = 0 => free_page_head = Null
        /\ \A h \in Page : hin[h] = Stack /\ hat[h] = 1 => next[h] = Null
    BY DEF HeadsPlaced
  <2>2. s = chain(next, free_page_head, nr_pages)
    OBVIOUS
  <2> HIDE DEF s
  <2> QED BY ONLY <2>1, <2>2, StackSpelled
<1>2. r = on_stack
  BY DEF on_stack
<1> HIDE DEF r
<1>3. /\ \A i, j \in DOMAIN r : r[i] = r[j] => i = j
      /\ {r[i] : i \in DOMAIN r} = {p \in Page : hin[p] = Stack}
  BY ONLY <1>1, SpelledOnce
<1>4. IsInjective(r) /\ Range(r) = {p \in Page : hin[p] = Stack}
  BY ONLY <1>3 DEF IsInjective, Range
<1> QED
  BY ONLY <1>2, <1>4

LEMMA FullSpelled ==
  ASSUME NEW in, NEW at, NEW H, PagesPlaced(local_pages, used, data, in, at, H),
         full_lists = H
  PROVE  /\ NoneTwice(full)
         /\ pages_in(full) = {p \in Page : \E h \in H : in[p] = Full(h)}
<1> DEFINE nm == [h \in H |-> Full(h)]
           n == [h \in H |-> nr_local_pages]
<1>1. DOMAIN full = H
  BY DEF full
<1>2. \A h \in H : nm[h] = Full(h) /\ n[h] = nr_local_pages
  OBVIOUS
<1> HIDE DEF nm, n
<1>3. ASSUME NEW h \in H
      PROVE  Spelled(Page, full[h], in, at, nm[h], n[h])
  <2>1. IsList(Page, local_pages, in, at, nm[h], h, n[h])
    BY <1>2 DEF PagesPlaced
  <2>2. full[h] = chain(local_pages, h, n[h])
    BY <1>2 DEF full
  <2>3. Spelled(Page, chain(local_pages, h, n[h]), in, at, nm[h], n[h])
    BY ONLY <2>1, ChainList
  <2> QED BY <2>2, <2>3
<1>4. \A x, y \in DOMAIN full : nm[x] = nm[y] => x = y
  BY <1>1, <1>2, PageNames
<1>5. AllSpelled(Page, full, in, at, nm, n)
  BY <1>1, <1>3, <1>4 DEF AllSpelled
<1>6. /\ NoneTwice(full)
      /\ pages_in(full) = {p \in Page : \E x \in DOMAIN full : in[p] = nm[x]}
  BY ONLY <1>5, Family
<1>7. pages_in(full) = {p \in Page : \E h \in H : in[p] = Full(h)}
  BY <1>1, <1>2, <1>6
<1> QED
  BY <1>6, <1>7

LEMMA InvPagesOnce ==
  ASSUME Inv
  PROVE  EveryPageOnce
<1>1. PICK in, at, hin, hat, H, m :
        /\ PagesPlaced(local_pages, used, data, in, at, H)
        /\ HeadsPlaced(next, free_page_head, data, hin, hat, H, m)
  BY DEF Inv, Placed
<1>2. /\ NoneTwice(open)
      /\ pages_in(open) = {p \in Page : \E t \in Thread : in[p] = Open(t)}
  BY <1>1, OpenSpelled
<1>3. /\ NoneTwice(kept)
      /\ pages_in(kept) = {p \in Page : \E t \in Thread : hin[p] = Kept(t)}
  BY <1>1, KeptSpelled
<1>4. /\ IsInjective(on_stack)
      /\ Range(on_stack) = {p \in Page : hin[p] = Stack}
  BY <1>1, OnStackSpelled
<1>5. full_lists = H
  <2>1. ASSUME NEW p
        PROVE  p \in Range(on_stack) \cup pages_in(kept) <=> p \in H
    <3>1. p \in H <=> p \in Page /\ hin[p] # None
      BY <1>1 DEF HeadsPlaced
    <3>2. p \in Range(on_stack) \cup pages_in(kept) <=>
            p \in Page /\ (hin[p] = Stack \/ \E t \in Thread : hin[p] = Kept(t))
      BY <1>3, <1>4
    <3>3. p \in Page /\ hin[p] # None => hin[p] = Stack \/ \E t \in Thread : hin[p] = Kept(t)
      BY <1>1 DEF HeadsPlaced
    <3>4. hin[p] = Stack \/ (\E t \in Thread : hin[p] = Kept(t)) => hin[p] # None
      BY HeadNames
    <3> QED BY <3>1, <3>2, <3>3, <3>4
  <2> QED BY <2>1 DEF full_lists
<1>6. /\ NoneTwice(full)
      /\ pages_in(full) = {p \in Page : \E h \in H : in[p] = Full(h)}
  BY <1>1, <1>5, FullSpelled
<1>7. Range(on_stack) \cap pages_in(kept) = {}
  BY <1>3, <1>4, HeadNames
<1>8. pages_in(open) \cap pages_in(full) = {}
  BY <1>2, <1>6, PageNames
<1>9. free = pages_in(open) \cup pages_in(full)
  <2>1. ASSUME NEW p
        PROVE  p \in free <=> p \in pages_in(open) \cup pages_in(full)
    <3>1. p \in free <=> p \in Page /\ in[p] # Used
      BY <1>1 DEF Inv, PagesPlaced
    <3>2. p \in pages_in(open) \cup pages_in(full) <=>
            p \in Page /\ ((\E t \in Thread : in[p] = Open(t)) \/ \E h \in H : in[p] = Full(h))
      BY <1>2, <1>6
    <3>3. p \in Page /\ in[p] # Used => (\E t \in Thread : in[p] = Open(t)) \/ \E h \in H : in[p] = Full(h)
      BY <1>1 DEF PagesPlaced
    <3>4. (\E t \in Thread : in[p] = Open(t)) \/ (\E h \in H : in[p] = Full(h)) => in[p] # Used
      BY PageNames
    <3> QED BY <3>1, <3>2, <3>3, <3>4
  <2> QED BY <2>1
<1>10. used = Page \ free
  BY DEF Inv, TypeOK
<1> QED
  BY <1>2, <1>3, <1>4, <1>6, <1>7, <1>8, <1>9, <1>10 DEF EveryPageOnce

(* EveryPageOnce: a page is in one list or with a size-class, and a full   *)
(* list is with one thread or on the stack: no two size-classes get the    *)
(* same page, and the flag that get_free_page and add_free_page assert is  *)
(* right.                                                                  *)
THEOREM PagesApart ==
  Spec => []EveryPageOnce
<1>1. Inv => EveryPageOnce
  BY InvPagesOnce
<1> QED
  BY <1>1, InvAlways, PTL

-----------------------------------------------------------------------------
(* The page p is in the list of u, or in one of its full lists: its slot c *)
(* among those that there are.                                             *)
HasSlot(p, u, c, in, at, hin, hat, H) ==
  \/ in[p] = Open(u) /\ c = <<u, <<at[p], nr_local_pbuckets>>>>
  \/ \E h \in H : in[p] = Full(h) /\ hin[h] = Kept(u) /\ c = <<u, <<at[p], hat[h]>>>>

LEMMA SlotExists ==
  ASSUME NEW in, NEW at, NEW hin, NEW hat, NEW H, NEW m, TypeOK,
         PagesPlaced(local_pages, used, data, in, at, H),
         HeadsPlaced(next, free_page_head, data, hin, hat, H, m),
         NEW t \in Thread, data[t].pages_count = 0, data[t].pbuckets_count = 0, free_page_head = Null,
         NEW p \in Page \ used
  PROVE  \E u \in Thread \ {t}, i \in 1 .. nr_local_pages, j \in 1 .. nr_local_pbuckets :
           HasSlot(p, u, <<u, <<i, j>>>>, in, at, hin, hat, H)
<1>1. /\ nr_local_pages \in Nat \ {0} /\ nr_local_pbuckets \in Nat \ {0}
      /\ nr_local_pbuckets \in 1 .. nr_local_pbuckets
  BY LimitsAssumption
<1>2. ASSUME NEW u \in Thread
      PROVE  /\ data[u].pages_count \in 0 .. nr_local_pages
             /\ data[u].pbuckets_count \in 0 .. nr_local_pbuckets - 1
  BY DEF TypeOK, ThreadData
<1>3. CASE \E u \in Thread : in[p] = Open(u)
  <2>1. PICK u \in Thread : in[p] = Open(u)
    BY <1>3
  <2>2. IsList(Page, local_pages, in, at, Open(u), data[u].pages, data[u].pages_count)
    BY DEF PagesPlaced
  <2>3. at[p] \in 1 .. data[u].pages_count
    BY <2>1, <2>2 DEF IsList
  <2>4. u # t
    BY <2>3
  <2>5. at[p] \in 1 .. nr_local_pages
    BY <1>1, <1>2, <2>3
  <2>6. HasSlot(p, u, <<u, <<at[p], nr_local_pbuckets>>>>, in, at, hin, hat, H)
    BY <2>1 DEF HasSlot
  <2> QED
    BY <1>1, <2>4, <2>5, <2>6
<1>4. CASE \E h \in H : in[p] = Full(h)
  <2>1. PICK h \in H : in[p] = Full(h)
    BY <1>4
  <2>2. h \in Page /\ hin[h] # None
    BY DEF HeadsPlaced
  <2>3. hin[h] # Stack
    <3>1. IsList(Page, next, hin, hat, Stack, free_page_head, m)
      BY DEF HeadsPlaced
    <3>2. Null \notin Page
      BY LinkAssumption
    <3>3. m = 0
      BY <3>1, <3>2 DEF IsList
    <3>4. \A e \in Page : hin[e] # Stack
      BY <3>1, <3>3, EmptyList
    <3> QED BY <2>2, <3>4
  <2>4. PICK u \in Thread : hin[h] = Kept(u)
    BY <2>2, <2>3 DEF HeadsPlaced
  <2>5. IsList(Page, next, hin, hat, Kept(u), data[u].pbuckets, data[u].pbuckets_count)
    BY DEF HeadsPlaced
  <2>6. hat[h] \in 1 .. data[u].pbuckets_count
    BY <2>2, <2>4, <2>5 DEF IsList
  <2>7. u # t
    BY <2>6
  <2>8. hat[h] \in 1 .. nr_local_pbuckets
    BY <1>1, <1>2, <2>6
  <2>9. at[p] \in 1 .. nr_local_pages
    <3>1. IsList(Page, local_pages, in, at, Full(h), h, nr_local_pages)
      BY DEF PagesPlaced
    <3> QED BY <2>1, <3>1 DEF IsList
  <2>10. HasSlot(p, u, <<u, <<at[p], hat[h]>>>>, in, at, hin, hat, H)
    BY <2>1, <2>4 DEF HasSlot
  <2> QED
    BY <2>7, <2>8, <2>9, <2>10
<1> QED
  BY <1>3, <1>4 DEF PagesPlaced

LEMMA SlotOnce ==
  ASSUME NEW in, NEW at, NEW hin, NEW hat, NEW H, NEW m, TypeOK,
         PagesPlaced(local_pages, used, data, in, at, H),
         HeadsPlaced(next, free_page_head, data, hin, hat, H, m),
         NEW p \in Page, NEW q \in Page, NEW u \in Thread, NEW w \in Thread, NEW c,
         HasSlot(p, u, c, in, at, hin, hat, H),
         HasSlot(q, w, c, in, at, hin, hat, H)
  PROVE  p = q
<1>1. u = w /\ at[p] = at[q]
  BY DEF HasSlot
<1>2. ASSUME NEW h \in H, hin[h] = Kept(u)
      PROVE  h \in Page /\ hat[h] # nr_local_pbuckets
  <2>1. IsList(Page, next, hin, hat, Kept(u), data[u].pbuckets, data[u].pbuckets_count)
    BY DEF HeadsPlaced
  <2>2. h \in Page
    BY DEF HeadsPlaced
  <2>3. hat[h] \in 1 .. data[u].pbuckets_count
    BY <1>2, <2>1, <2>2 DEF IsList
  <2>4. data[u].pbuckets_count \in 0 .. nr_local_pbuckets - 1 /\ nr_local_pbuckets \in Nat
    BY LimitsAssumption DEF TypeOK, ThreadData
  <2> QED BY <2>2, <2>3, <2>4
<1>3. CASE in[p] = Open(u) /\ in[q] = Open(u)
  <2>1. IsList(Page, local_pages, in, at, Open(u), data[u].pages, data[u].pages_count)
    BY DEF PagesPlaced
  <2> QED BY <1>1, <1>3, <2>1 DEF IsList
<1>4. ASSUME NEW h \in H, in[p] = Full(h), hin[h] = Kept(u), c = <<u, <<at[p], hat[h]>>>>,
             NEW g \in H, in[q] = Full(g), hin[g] = Kept(u), c = <<u, <<at[q], hat[g]>>>>
      PROVE  p = q
  <2>1. IsList(Page, next, hin, hat, Kept(u), data[u].pbuckets, data[u].pbuckets_count)
    BY DEF HeadsPlaced
  <2>2. hat[h] = hat[g]
    BY <1>4
  <2>3. h \in Page /\ g \in Page
    BY <1>2, <1>4
  <2>4. h = g
    BY <1>4, <2>1, <2>2, <2>3 DEF IsList
  <2>5. IsList(Page, local_pages, in, at, Full(h), h, nr_local_pages)
    BY DEF PagesPlaced
  <2> QED BY <1>1, <1>4, <2>4, <2>5 DEF IsList
<1>5. \/ in[p] = Open(u) /\ c = <<u, <<at[p], nr_local_pbuckets>>>>
      \/ \E h \in H : in[p] = Full(h) /\ hin[h] = Kept(u) /\ c = <<u, <<at[p], hat[h]>>>>
  BY DEF HasSlot
<1>6. \/ in[q] = Open(u) /\ c = <<u, <<at[q], nr_local_pbuckets>>>>
      \/ \E h \in H : in[q] = Full(h) /\ hin[h] = Kept(u) /\ c = <<u, <<at[q], hat[h]>>>>
  BY <1>1 DEF HasSlot
<1>7. ASSUME c = <<u, <<at[p], nr_local_pbuckets>>>>,
             NEW h \in H, hin[h] = Kept(u), c = <<u, <<at[q], hat[h]>>>>
      PROVE  FALSE
  BY <1>2, <1>7
<1>8. ASSUME c = <<u, <<at[q], nr_local_pbuckets>>>>,
             NEW h \in H, hin[h] = Kept(u), c = <<u, <<at[p], hat[h]>>>>
      PROVE  FALSE
  BY <1>2, <1>8
<1> QED
  BY <1>3, <1>4, <1>5, <1>6, <1>7, <1>8

LEMMA NumberOfSlots ==
  ASSUME NEW t \in Thread
  PROVE  LET T == (Thread \ {t}) \X ((1 .. nr_local_pages) \X (1 .. nr_local_pbuckets))
         IN  /\ IsFiniteSet(T)
             /\ Cardinality(T) = (Cardinality(Thread) - 1) * nr_local_pages * nr_local_pbuckets
<1> DEFINE I == 1 .. nr_local_pages
           J == 1 .. nr_local_pbuckets
           U == Thread \ {t}
<1>1. nr_local_pages \in Nat \ {0} /\ nr_local_pbuckets \in Nat \ {0}
  BY LimitsAssumption
<1>2. IsFiniteSet(I) /\ Cardinality(I) = nr_local_pages
  BY <1>1, NumberUpTo
<1>3. IsFiniteSet(J) /\ Cardinality(J) = nr_local_pbuckets
  BY <1>1, NumberUpTo
<1>4. IsFiniteSet(U) /\ Cardinality(U) = Cardinality(Thread) - 1
  BY ThreadAssumption, FS_RemoveElement
<1> HIDE DEF I, J, U
<1>5. IsFiniteSet(I \X J) /\ Cardinality(I \X J) = nr_local_pages * nr_local_pbuckets
  BY <1>2, <1>3, FS_Product
<1>6. /\ IsFiniteSet(U \X (I \X J))
      /\ Cardinality(U \X (I \X J)) = Cardinality(U) * Cardinality(I \X J)
  BY <1>4, <1>5, FS_Product
<1>7. Cardinality(Thread) \in Nat
  BY ThreadAssumption, FS_CardinalityType
<1>8. Cardinality(U \X (I \X J)) = (Cardinality(Thread) - 1) * (nr_local_pages * nr_local_pbuckets)
  BY <1>4, <1>5, <1>6
<1>9. \A a \in Int, b \in Int, d \in Int : a * (b * d) = a * b * d
  OBVIOUS
<1>10. Cardinality(U \X (I \X J)) = (Cardinality(Thread) - 1) * nr_local_pages * nr_local_pbuckets
  BY <1>1, <1>7, <1>8, <1>9
<1> QED
  BY <1>6, <1>10 DEF I, J, U

LEMMA InvHoarding ==
  ASSUME Inv
  PROVE  HoardingBound
<1> SUFFICES ASSUME NEW t \in Thread,
                    data[t].pages_count = 0, data[t].pbuckets_count = 0, free_page_head = Null
             PROVE  nr_pages - Cardinality(used)
                      <= (Cardinality(Thread) - 1) * nr_local_pages * nr_local_pbuckets
  BY DEF HoardingBound
<1>1. PICK in, at, hin, hat, H, m :
        /\ PagesPlaced(local_pages, used, data, in, at, H)
        /\ HeadsPlaced(next, free_page_head, data, hin, hat, H, m)
  BY DEF Inv, Placed
<1>2. TypeOK
  BY DEF Inv
<1> DEFINE S == Page \ used
           T == (Thread \ {t}) \X ((1 .. nr_local_pages) \X (1 .. nr_local_pbuckets))
           Slot(p, c) == \E u \in Thread : HasSlot(p, u, c, in, at, hin, hat, H)
           g == [p \in S |-> CHOOSE c \in T : Slot(p, c)]
<1>3. ASSUME NEW p \in S
      PROVE  g[p] \in T /\ Slot(p, g[p])
  <2>1. \E c \in T : Slot(p, c)
    <3>1. PICK u \in Thread \ {t}, i \in 1 .. nr_local_pages, j \in 1 .. nr_local_pbuckets :
            HasSlot(p, u, <<u, <<i, j>>>>, in, at, hin, hat, H)
      BY <1>1, <1>2, SlotExists
    <3>2. <<u, <<i, j>>>> \in T
      OBVIOUS
    <3>3. Slot(p, <<u, <<i, j>>>>)
      BY <3>1
    <3> HIDE DEF T, Slot
    <3> QED BY <3>2, <3>3
  <2>2. g[p] = CHOOSE c \in T : Slot(p, c)
    OBVIOUS
  <2> HIDE DEF T, Slot, g
  <2> QED BY <2>1, <2>2
<1>4. ASSUME NEW p \in S, NEW q \in S, g[p] = g[q]
      PROVE  p = q
  <2>1. PICK u \in Thread : HasSlot(p, u, g[p], in, at, hin, hat, H)
    BY <1>3
  <2>2. PICK w \in Thread : HasSlot(q, w, g[q], in, at, hin, hat, H)
    BY <1>3
  <2>3. HasSlot(q, w, g[p], in, at, hin, hat, H)
    BY <1>4, <2>2
  <2> HIDE DEF g
  <2> QED BY <1>1, <1>2, <2>1, <2>3, SlotOnce
<1>5. IsFiniteSet(T) /\ Cardinality(T) = (Cardinality(Thread) - 1) * nr_local_pages * nr_local_pbuckets
  BY NumberOfSlots
<1>6. Cardinality(S) <= Cardinality(T)
  <2>1. \A p \in S : g[p] \in T
    BY <1>3
  <2>2. \A p, q \in S : g[p] = g[q] => p = q
    BY <1>4
  <2>3. IsFiniteSet(T)
    BY <1>5
  <2> HIDE DEF g, S, T
  <2> QED BY ONLY <2>1, <2>2, <2>3, NoMoreThan
<1>7. Cardinality(S) = nr_pages - Cardinality(used) 
  <2>1. nr_pages \in Nat
    BY LimitsAssumption
  <2>2. /\ IsFiniteSet(1 .. nr_pages)
        /\ Cardinality(1 .. nr_pages) = IF 1 > nr_pages THEN 0 ELSE nr_pages - 1 + 1
    BY <2>1, FS_Interval
  <2>3. IsFiniteSet(Page) /\ Cardinality(Page) = nr_pages
    BY <2>1, <2>2 DEF Page
  <2>4. Page \cap used = used
    BY <1>2 DEF TypeOK
  <2>5. Cardinality(Page \ used) = Cardinality(Page) - Cardinality(Page \cap used)
    BY <2>3, FS_Difference
  <2> QED BY <2>3, <2>4, <2>5
<1> QED
  BY <1>5, <1>6, <1>7

(* HoardingBound: when get_free_page returns NULL, each of the other       *)
(* threads keeps at most nr_local_pbuckets lists of free pages.            *)
THEOREM FewPagesHoarded ==
  Spec => []HoardingBound
<1>1. Inv => HoardingBound
  BY InvHoarding
<1> QED
  BY <1>1, InvAlways, PTL
=============================================================================
