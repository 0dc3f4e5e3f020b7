----------------------------- MODULE AaPoolProofs -----------------------------
(***************************************************************************)
(* Theorems about AaPool, for every finite set of threads, every number of *)
(* buckets and every length of the lists that threads keep: types, every   *)
(* address and every bucket is in one place, the bound on what threads     *)
(* keep from the others, and when an empty bucket is found.                *)
(*                                                                         *)
(* Three families of lists say where everything is: AddressesPlaced for    *)
(* the addresses of open lists and full buckets, BucketsPlaced for the     *)
(* full buckets with threads and on the stack, and EmptiesPlaced for the   *)
(* empty ones.  A list that becomes a full bucket, or a chain of empty     *)
(* ones that goes to the stack, only gets another name.                    *)
(*                                                                         *)
(* The lemmas Take..., Put..., Fill... say what one assignment does to     *)
(* them, those that begin with Step what it does to the pool and to the    *)
(* data of its thread; the last ones add what a thread has between two     *)
(* calls of nb_stack.                                                      *)
(***************************************************************************)
EXTENDS AaPool, LinkedLists

(* The lists of addresses: the list of a thread, a full bucket.            *)
Open(t) == <<"open", t>>
Full(b) == <<"full", b>>
AddressLists == {Open(t) : t \in Thread} \cup {Full(b) : b \in Bucket}

(* Those of full buckets and of chains: what a thread keeps, two stacks.   *)
Kept(t) == <<"kept", t>>
Stack == <<"stack", Null>>
Chains == <<"chains", Null>>
FullLists == {Kept(t) : t \in Thread} \cup {Stack, Chains}

(* Those of empty buckets: what a thread keeps, and a chain on the stack.  *)
Empty(t) == <<"empty", t>>
Chain(b) == <<"chain", b>>
EmptyLists == {Empty(t) : t \in Thread} \cup {Chain(b) : b \in Bucket}

LEMMA AddressNames ==
  /\ \A t : Open(t) # NoList
  /\ \A b : Full(b) # NoList
  /\ \A t, b : Open(t) # Full(b)
  /\ \A t, u : Open(t) = Open(u) => t = u
  /\ \A b, c : Full(b) = Full(c) => b = c
  /\ \A t \in Thread : Open(t) \in AddressLists
  /\ \A b \in Bucket : Full(b) \in AddressLists
  /\ \A x \in AddressLists : (\E t \in Thread : x = Open(t)) \/ \E b \in Bucket : x = Full(b)
BY DEF Open, Full, NoList, AddressLists

LEMMA FullNames ==
  /\ \A t : Kept(t) # NoList /\ Kept(t) # Stack /\ Kept(t) # Chains
  /\ Stack # NoList /\ Chains # NoList /\ Stack # Chains
  /\ \A t, u : Kept(t) = Kept(u) => t = u
  /\ \A t \in Thread : Kept(t) \in FullLists
  /\ Stack \in FullLists /\ Chains \in FullLists
  /\ \A x \in FullLists : (\E t \in Thread : x = Kept(t)) \/ x = Stack \/ x = Chains
BY DEF Kept, Stack, Chains, NoList, FullLists

LEMMA EmptyNames ==
  /\ \A t : Empty(t) # NoList
  /\ \A b : Chain(b) # NoList
  /\ \A t, b : Empty(t) # Chain(b)
  /\ \A t, u : Empty(t) = Empty(u) => t = u
  /\ \A b, c : Chain(b) = Chain(c) => b = c
  /\ \A t \in Thread : Empty(t) \in EmptyLists
  /\ \A b \in Bucket : Chain(b) \in EmptyLists
  /\ \A x \in EmptyLists : (\E t \in Thread : x = Empty(t)) \/ \E b \in Bucket : x = Chain(b)
BY DEF Empty, Chain, NoList, EmptyLists

(* Where the addresses are: w is aa_space, lo is local, D is the data of   *)
(* the threads, and F has the full buckets.                                *)
AddressesPlaced(A, w, lo, D, F) ==
  /\ Lists(Address, w, AddressLists, A)
  /\ \A t \in Thread : /\ A.len[Open(t)] = D[t].aas_count
                       /\ D[t].aas_count > 0 => A.first[Open(t)] = D[t].aas
  /\ \A b \in F : A.len[Full(b)] = nr_local_aas /\ A.first[Full(b)] = lo[b]
  /\ \A b \in Bucket \ F : A.len[Full(b)] = 0
  /\ F \subseteq Bucket

(* The elements of E that are in no list. *)
Apart(E, s) == {e \in E : s.in[e] = NoList}

-----------------------------------------------------------------------------
(* What an operation does to the addresses. *)

SameAddresses(D, D2, S) == \A u \in S : D2[u].aas = D[u].aas /\ D2[u].aas_count = D[u].aas_count

(* t takes a, the first of its list. *)
AddressTaken(w, w2, D, D2, t, a) ==
  /\ t \in Thread /\ D[t].aas_count > 0 /\ a = D[t].aas
  /\ \A e \in Address \ {a} : w2[e] = w[e]
  /\ D2[t].aas = w[a] /\ D2[t].aas_count = D[t].aas_count - 1
  /\ SameAddresses(D, D2, Thread \ {t})

(* t puts a before the others. *)
AddressPut(w, w2, D, D2, t, a) ==
  /\ t \in Thread /\ a \in Address
  /\ \A e \in Address \ {a} : w2[e] = w[e]
  /\ D[t].aas_count > 0 => w2[a] = D[t].aas
  /\ D2[t].aas = a /\ D2[t].aas_count = D[t].aas_count + 1
  /\ SameAddresses(D, D2, Thread \ {t})

(* The list of t becomes the full bucket b. *)
BucketFilled(lo, lo2, D, D2, F, F2, t, b) ==
  /\ t \in Thread /\ D[t].aas_count = nr_local_aas
  /\ F2 = F \cup {b}
  /\ lo2[b] = D[t].aas /\ \A c \in F : lo2[c] = lo[c]
  /\ D2[t].aas_count = 0
  /\ SameAddresses(D, D2, Thread \ {t})

(* The full bucket b becomes the list of t. *)
BucketOpened(lo, lo2, D, D2, F, F2, t, b) ==
  /\ t \in Thread /\ D[t].aas_count = 0
  /\ b \in F /\ F2 = F \ {b}
  /\ \A c \in F2 : lo2[c] = lo[c]
  /\ D2[t].aas = lo[b] /\ D2[t].aas_count = nr_local_aas
  /\ SameAddresses(D, D2, Thread \ {t})

LEMMA TakeAddress ==
  ASSUME NEW A, NEW w, NEW lo, NEW D, NEW F, AddressesPlaced(A, w, lo, D, F),
         NEW w2, NEW D2, NEW t, NEW a, AddressTaken(w, w2, D, D2, t, a)
  PROVE  /\ a \in Address \ Apart(Address, A)
         /\ \E A2 : /\ AddressesPlaced(A2, w2, lo, D2, F)
                    /\ Apart(Address, A2) = Apart(Address, A) \cup {a}
<1>1. /\ Lists(Address, w, AddressLists, A) /\ Open(t) \in AddressLists
      /\ A.len[Open(t)] = D[t].aas_count /\ A.len[Open(t)] > 0 /\ A.first[Open(t)] = a
  BY AddressNames DEF AddressesPlaced, AddressTaken
<1>2. a \in Address /\ A.in[a] = Open(t) /\ Open(t) # NoList
  BY ONLY <1>1, ListsHave
<1>3. SameLinks(Address, w, w2, A, {a})
  BY DEF SameLinks, AddressTaken
<1>4. PICK A2 : Lists(Address, w2, AddressLists, A2) /\ ListPopped(Address, AddressLists, w, A, A2, Open(t), a)
  BY ONLY <1>1, <1>3, PopList
<1>5. Apart(Address, A2) = Apart(Address, A) \cup {a}
  BY ONLY <1>2, <1>4 DEF Apart, ListPopped
<1>6. ASSUME NEW u \in Thread
      PROVE  /\ A2.len[Open(u)] = D2[u].aas_count
             /\ D2[u].aas_count > 0 => A2.first[Open(u)] = D2[u].aas
  <2>1. CASE u = t
    BY ONLY <2>1, <1>1, <1>4, AddressTaken(w, w2, D, D2, t, a) DEF ListPopped, AddressTaken
  <2>2. CASE u # t
    <3>1. Open(u) \in AddressLists \ {Open(t)}
      BY <2>2, AddressNames
    <3>2. A2.len[Open(u)] = A.len[Open(u)] /\ A2.first[Open(u)] = A.first[Open(u)]
      BY ONLY <1>4, <3>1 DEF ListPopped, SameLists
    <3> QED BY ONLY <3>2, <2>2, u \in Thread, AddressesPlaced(A, w, lo, D, F), AddressTaken(w, w2, D, D2, t, a)
            DEF AddressesPlaced, AddressTaken, SameAddresses
  <2> QED BY <2>1, <2>2
<1>7. ASSUME NEW b \in Bucket
      PROVE  A2.len[Full(b)] = A.len[Full(b)] /\ A2.first[Full(b)] = A.first[Full(b)]
  <2>1. Full(b) \in AddressLists \ {Open(t)}
    BY AddressNames
  <2> QED BY ONLY <1>4, <2>1 DEF ListPopped, SameLists
<1>8. AddressesPlaced(A2, w2, lo, D2, F)
  BY ONLY <1>4, <1>6, <1>7, AddressesPlaced(A, w, lo, D, F) DEF AddressesPlaced
<1>9. a \notin Apart(Address, A)
  BY ONLY <1>2 DEF Apart
<1> QED
  BY <1>2, <1>5, <1>8, <1>9

LEMMA PutAddress ==
  ASSUME NEW A, NEW w, NEW lo, NEW D, NEW F, AddressesPlaced(A, w, lo, D, F),
         NEW w2, NEW D2, NEW t, NEW a, AddressPut(w, w2, D, D2, t, a), a \in Apart(Address, A)
  PROVE  \E A2 : /\ AddressesPlaced(A2, w2, lo, D2, F)
                 /\ Apart(Address, A2) = Apart(Address, A) \ {a}
<1>1. /\ Lists(Address, w, AddressLists, A) /\ Open(t) \in AddressLists
      /\ A.len[Open(t)] = D[t].aas_count /\ (A.len[Open(t)] > 0 => w2[a] = A.first[Open(t)])
  BY AddressNames DEF AddressesPlaced, AddressPut
<1>2. a \in Address /\ A.in[a] = NoList
  BY DEF Apart
<1>3. SameLinks(Address, w, w2, A, {a})
  BY DEF SameLinks, AddressPut
<1>4. PICK A2 : Lists(Address, w2, AddressLists, A2) /\ ListPushed(Address, AddressLists, A, A2, Open(t), a)
  BY ONLY <1>1, <1>2, <1>3, PushList
<1>5. Apart(Address, A2) = Apart(Address, A) \ {a}
  BY ONLY <1>2, <1>4, AddressNames DEF Apart, ListPushed
<1>6. ASSUME NEW u \in Thread
      PROVE  /\ A2.len[Open(u)] = D2[u].aas_count
             /\ D2[u].aas_count > 0 => A2.first[Open(u)] = D2[u].aas
  <2>1. CASE u = t
    BY ONLY <2>1, <1>1, <1>4, AddressPut(w, w2, D, D2, t, a) DEF ListPushed, AddressPut
  <2>2. CASE u # t
    <3>1. Open(u) \in AddressLists \ {Open(t)}
      BY <2>2, AddressNames
    <3>2. A2.len[Open(u)] = A.len[Open(u)] /\ A2.first[Open(u)] = A.first[Open(u)]
      BY ONLY <1>4, <3>1 DEF ListPushed, SameLists
    <3> QED BY ONLY <3>2, <2>2, u \in Thread, AddressesPlaced(A, w, lo, D, F), AddressPut(w, w2, D, D2, t, a)
            DEF AddressesPlaced, AddressPut, SameAddresses
  <2> QED BY <2>1, <2>2
<1>7. ASSUME NEW b \in Bucket
      PROVE  A2.len[Full(b)] = A.len[Full(b)] /\ A2.first[Full(b)] = A.first[Full(b)]
  <2>1. Full(b) \in AddressLists \ {Open(t)}
    BY AddressNames
  <2> QED BY ONLY <1>4, <2>1 DEF ListPushed, SameLists
<1>8. AddressesPlaced(A2, w2, lo, D2, F)
  BY ONLY <1>4, <1>6, <1>7, AddressesPlaced(A, w, lo, D, F) DEF AddressesPlaced
<1> QED
  BY <1>5, <1>8

LEMMA FillBucket ==
  ASSUME NEW A, NEW w, NEW lo, NEW D, NEW F, AddressesPlaced(A, w, lo, D, F),
         NEW lo2, NEW D2, NEW F2, NEW t, NEW b \in Bucket \ F, BucketFilled(lo, lo2, D, D2, F, F2, t, b)
  PROVE  \E A2 : /\ AddressesPlaced(A2, w, lo2, D2, F2)
                 /\ Apart(Address, A2) = Apart(Address, A)
<1>1. nr_local_aas \in Nat /\ nr_local_aas > 0
  BY LimitsAssumption
<1>2. /\ Lists(Address, w, AddressLists, A) /\ Open(t) \in AddressLists /\ Full(b) \in AddressLists
      /\ Open(t) # Full(b) /\ Open(t) # NoList /\ Full(b) # NoList
      /\ A.len[Open(t)] = nr_local_aas /\ A.first[Open(t)] = D[t].aas /\ A.len[Full(b)] = 0
  BY <1>1, AddressNames DEF AddressesPlaced, BucketFilled
<1>3. SameLinks(Address, w, w, A, {}) /\ A.len[Open(t)] > 0
  BY <1>1, <1>2 DEF SameLinks
<1>4. PICK A2 : Lists(Address, w, AddressLists, A2) /\ ListJoined(Address, AddressLists, A, A2, Open(t), Full(b))
  BY ONLY <1>2, <1>3, RenameList
<1>5. Apart(Address, A2) = Apart(Address, A)
  BY ONLY <1>2, <1>4 DEF Apart, ListJoined
<1>6. ASSUME NEW u \in Thread
      PROVE  /\ A2.len[Open(u)] = D2[u].aas_count
             /\ D2[u].aas_count > 0 => A2.first[Open(u)] = D2[u].aas
  <2>1. CASE u = t
    BY ONLY <2>1, <1>4, BucketFilled(lo, lo2, D, D2, F, F2, t, b) DEF ListJoined, BucketFilled
  <2>2. CASE u # t
    <3>1. Open(u) \in AddressLists \ {Open(t), Full(b)}
      BY <2>2, AddressNames
    <3>2. A2.len[Open(u)] = A.len[Open(u)] /\ A2.first[Open(u)] = A.first[Open(u)]
      BY ONLY <1>4, <3>1 DEF ListJoined, SameLists
    <3> QED BY ONLY <3>2, <2>2, u \in Thread, AddressesPlaced(A, w, lo, D, F),
               BucketFilled(lo, lo2, D, D2, F, F2, t, b)
            DEF AddressesPlaced, BucketFilled, SameAddresses
  <2> QED BY <2>1, <2>2
<1>7. ASSUME NEW c \in Bucket, c # b
      PROVE  A2.len[Full(c)] = A.len[Full(c)] /\ A2.first[Full(c)] = A.first[Full(c)]
  <2>1. Full(c) \in AddressLists \ {Open(t), Full(b)}
    BY <1>7, AddressNames
  <2> QED BY ONLY <1>4, <2>1 DEF ListJoined, SameLists
<1>8. A2.len[Full(b)] = nr_local_aas /\ A2.first[Full(b)] = D[t].aas
  BY ONLY <1>1, <1>2, <1>4 DEF ListJoined
<1>9. /\ \A c \in F2 : A2.len[Full(c)] = nr_local_aas /\ A2.first[Full(c)] = lo2[c]
      /\ \A c \in Bucket \ F2 : A2.len[Full(c)] = 0
      /\ F2 \subseteq Bucket
  BY ONLY <1>7, <1>8, b \in Bucket \ F, AddressesPlaced(A, w, lo, D, F), BucketFilled(lo, lo2, D, D2, F, F2, t, b)
     DEF AddressesPlaced, BucketFilled
<1>10. AddressesPlaced(A2, w, lo2, D2, F2)
  BY ONLY <1>4, <1>6, <1>9 DEF AddressesPlaced
<1> QED
  BY <1>5, <1>10

LEMMA OpenBucket ==
  ASSUME NEW A, NEW w, NEW lo, NEW D, NEW F, AddressesPlaced(A, w, lo, D, F),
         NEW lo2, NEW D2, NEW F2, NEW t, NEW b, BucketOpened(lo, lo2, D, D2, F, F2, t, b)
  PROVE  /\ lo[b] \in Address
         /\ \E A2 : /\ AddressesPlaced(A2, w, lo2, D2, F2)
                    /\ Apart(Address, A2) = Apart(Address, A)
<1>1. nr_local_aas \in Nat /\ nr_local_aas > 0
  BY LimitsAssumption
<1>2. /\ Lists(Address, w, AddressLists, A) /\ Open(t) \in AddressLists /\ Full(b) \in AddressLists
      /\ Open(t) # Full(b) /\ Open(t) # NoList /\ Full(b) # NoList
      /\ A.len[Full(b)] = nr_local_aas /\ A.first[Full(b)] = lo[b] /\ A.len[Open(t)] = 0
  BY <1>1, AddressNames DEF AddressesPlaced, BucketOpened
<1>3. SameLinks(Address, w, w, A, {}) /\ A.len[Full(b)] > 0
  BY <1>1, <1>2 DEF SameLinks
<1>4. PICK A2 : Lists(Address, w, AddressLists, A2) /\ ListJoined(Address, AddressLists, A, A2, Full(b), Open(t))
  BY ONLY <1>2, <1>3, RenameList
<1>5. Apart(Address, A2) = Apart(Address, A)
  BY ONLY <1>2, <1>4 DEF Apart, ListJoined
<1>6. ASSUME NEW u \in Thread
      PROVE  /\ A2.len[Open(u)] = D2[u].aas_count
             /\ D2[u].aas_count > 0 => A2.first[Open(u)] = D2[u].aas
  <2>1. CASE u = t
    BY ONLY <2>1, <1>1, <1>2, <1>4, BucketOpened(lo, lo2, D, D2, F, F2, t, b) DEF ListJoined, BucketOpened
  <2>2. CASE u # t
    <3>1. Open(u) \in AddressLists \ {Open(t), Full(b)}
      BY <2>2, AddressNames
    <3>2. A2.len[Open(u)] = A.len[Open(u)] /\ A2.first[Open(u)] = A.first[Open(u)]
      BY ONLY <1>4, <3>1 DEF ListJoined, SameLists
    <3> QED BY ONLY <3>2, <2>2, u \in Thread, AddressesPlaced(A, w, lo, D, F),
               BucketOpened(lo, lo2, D, D2, F, F2, t, b)
            DEF AddressesPlaced, BucketOpened, SameAddresses
  <2> QED BY <2>1, <2>2
<1>7. ASSUME NEW c \in Bucket, c # b
      PROVE  A2.len[Full(c)] = A.len[Full(c)] /\ A2.first[Full(c)] = A.first[Full(c)]
  <2>1. Full(c) \in AddressLists \ {Open(t), Full(b)}
    BY <1>7, AddressNames
  <2> QED BY ONLY <1>4, <2>1 DEF ListJoined, SameLists
<1>8. A2.len[Full(b)] = 0
  BY ONLY <1>4 DEF ListJoined
<1>9. /\ \A c \in F2 : A2.len[Full(c)] = nr_local_aas /\ A2.first[Full(c)] = lo2[c]
      /\ \A c \in Bucket \ F2 : A2.len[Full(c)] = 0
      /\ F2 \subseteq Bucket
  BY ONLY <1>7, <1>8, AddressesPlaced(A, w, lo, D, F), BucketOpened(lo, lo2, D, D2, F, F2, t, b)
     DEF AddressesPlaced, BucketOpened
<1>10. AddressesPlaced(A2, w, lo2, D2, F2)
  BY ONLY <1>4, <1>6, <1>9 DEF AddressesPlaced
<1>11. lo[b] \in Address
  BY ONLY <1>2, <1>3, ListsHave
<1> QED
  BY <1>5, <1>10, <1>11

(* Nothing an operation on buckets does to the data is about addresses.    *)
LEMMA AddressesStay ==
  ASSUME NEW A, NEW w, NEW lo, NEW D, NEW F, AddressesPlaced(A, w, lo, D, F),
         NEW lo2, \A b \in F : lo2[b] = lo[b], NEW D2, SameAddresses(D, D2, Thread)
  PROVE  AddressesPlaced(A, w, lo2, D2, F)
BY DEF AddressesPlaced, SameAddresses

-----------------------------------------------------------------------------
(* Where the full buckets are, and the chains of empty ones: nx is next,   *)
(* hd is free_aa_head, bh is free_aa_buckets_head, and C has the first     *)
(* buckets of the chains.                                                  *)
Ends(N, nx, x, h) ==
  /\ N.first[x] = h
  /\ N.len[x] = 0 => h = Null
  /\ N.len[x] > 0 => nx[N.last[x]] = Null

BucketsPlaced(N, nx, hd, bh, D, F, C) ==
  /\ Lists(Bucket, nx, FullLists, N)
  /\ \A t \in Thread : /\ N.len[Kept(t)] = D[t].abuckets_count
                       /\ D[t].abuckets_count > 0 => /\ N.first[Kept(t)] = D[t].abuckets
                                                     /\ N.last[Kept(t)] = D[t].last_abucket
  /\ Ends(N, nx, Stack, hd)
  /\ Ends(N, nx, Chains, bh)
  /\ F = {b \in Bucket : N.in[b] = Stack \/ \E t \in Thread : N.in[b] = Kept(t)}
  /\ C = {b \in Bucket : N.in[b] = Chains}

SameKept(D, D2, S) ==
  \A u \in S : /\ D2[u].abuckets = D[u].abuckets
               /\ D2[u].abuckets_count = D[u].abuckets_count
               /\ D2[u].last_abucket = D[u].last_abucket

(* t takes b, the first of the full buckets it keeps. *)
KeptTaken(nx, D, D2, F, F2, t, b) ==
  /\ t \in Thread /\ D[t].abuckets_count > 0 /\ b = D[t].abuckets
  /\ F2 = F \ {b}
  /\ D2[t].abuckets = nx[b] /\ D2[t].abuckets_count = D[t].abuckets_count - 1
  /\ D2[t].last_abucket = D[t].last_abucket
  /\ SameKept(D, D2, Thread \ {t})

(* t keeps the full bucket b. *)
FullKept(nx, nx2, D, D2, F, F2, t, b) ==
  /\ t \in Thread /\ F2 = F \cup {b}
  /\ nx2[b] = D[t].abuckets /\ \A c \in Bucket \ {b} : nx2[c] = nx[c]
  /\ D2[t].abuckets = b /\ D2[t].abuckets_count = D[t].abuckets_count + 1
  /\ D2[t].last_abucket = IF D[t].abuckets_count = 0 THEN b ELSE D[t].last_abucket
  /\ SameKept(D, D2, Thread \ {t})

(* All full buckets of t go on the stack. *)
FullReturned(nx, nx2, hd, hd2, D, D2, t) ==
  /\ t \in Thread /\ D[t].abuckets_count > 0
  /\ nx2[D[t].last_abucket] = hd /\ \A c \in Bucket \ {D[t].last_abucket} : nx2[c] = nx[c]
  /\ hd2 = D[t].abuckets
  /\ D2[t].abuckets_count = 0
  /\ SameKept(D, D2, Thread \ {t})

LEMMA EndsStay ==
  ASSUME NEW N, NEW nx, Lists(Bucket, nx, FullLists, N), NEW x \in FullLists, NEW h, Ends(N, nx, x, h),
         NEW N2, N2.first[x] = N.first[x], N2.last[x] = N.last[x], N2.len[x] = N.len[x],
         NEW nx2, \A b \in Bucket : N.in[b] = x => nx2[b] = nx[b]
  PROVE  Ends(N2, nx2, x, h)
<1>1. N.len[x] > 0 => N.last[x] \in Bucket /\ N.in[N.last[x]] = x
  BY ONLY Lists(Bucket, nx, FullLists, N), x \in FullLists, ListsHave
<1> QED
  BY <1>1 DEF Ends

LEMMA BucketsStay ==
  ASSUME NEW N, NEW nx, NEW hd, NEW bh, NEW D, NEW F, NEW C, BucketsPlaced(N, nx, hd, bh, D, F, C),
         NEW D2, SameKept(D, D2, Thread)
  PROVE  BucketsPlaced(N, nx, hd, bh, D2, F, C)
BY DEF BucketsPlaced, SameKept

(* What is neither full nor the first of a chain is in no list. *)
LEMMA InNoFullList ==
  ASSUME NEW N, NEW nx, NEW hd, NEW bh, NEW D, NEW F, NEW C, BucketsPlaced(N, nx, hd, bh, D, F, C)
  PROVE  /\ F \cap C = {} /\ F \subseteq Bucket /\ C \subseteq Bucket
         /\ \A b \in Bucket : N.in[b] = NoList <=> b \notin F \cup C
BY FullNames DEF BucketsPlaced, Lists

LEMMA TakeKept ==
  ASSUME NEW N, NEW nx, NEW hd, NEW bh, NEW D, NEW F, NEW C, BucketsPlaced(N, nx, hd, bh, D, F, C),
         NEW D2, NEW F2, NEW t, NEW b, KeptTaken(nx, D, D2, F, F2, t, b)
  PROVE  /\ b \in F
         /\ \E N2 : BucketsPlaced(N2, nx, hd, bh, D2, F2, C)
<1>1. /\ Lists(Bucket, nx, FullLists, N) /\ Kept(t) \in FullLists
      /\ N.len[Kept(t)] = D[t].abuckets_count /\ N.len[Kept(t)] > 0
      /\ N.first[Kept(t)] = b /\ N.last[Kept(t)] = D[t].last_abucket
  BY FullNames DEF BucketsPlaced, KeptTaken
<1>2. b \in Bucket /\ N.in[b] = Kept(t)
  BY ONLY <1>1, ListsHave
<1>3. SameLinks(Bucket, nx, nx, N, {b})
  BY DEF SameLinks
<1>4. PICK N2 : Lists(Bucket, nx, FullLists, N2) /\ ListPopped(Bucket, FullLists, nx, N, N2, Kept(t), b)
  BY ONLY <1>1, <1>3, PopList
<1>5. ASSUME NEW u \in Thread
      PROVE  /\ N2.len[Kept(u)] = D2[u].abuckets_count
             /\ D2[u].abuckets_count > 0 => /\ N2.first[Kept(u)] = D2[u].abuckets
                                            /\ N2.last[Kept(u)] = D2[u].last_abucket
  <2>1. CASE u = t
    BY ONLY <2>1, <1>1, <1>4, KeptTaken(nx, D, D2, F, F2, t, b) DEF ListPopped, KeptTaken
  <2>2. CASE u # t
    <3>1. Kept(u) \in FullLists \ {Kept(t)}
      BY <2>2, FullNames
    <3>2. /\ N2.len[Kept(u)] = N.len[Kept(u)]
          /\ N2.first[Kept(u)] = N.first[Kept(u)] /\ N2.last[Kept(u)] = N.last[Kept(u)]
      BY ONLY <1>4, <3>1 DEF ListPopped, SameLists
    <3> QED BY ONLY <3>2, <2>2, u \in Thread, BucketsPlaced(N, nx, hd, bh, D, F, C),
               KeptTaken(nx, D, D2, F, F2, t, b)
            DEF BucketsPlaced, KeptTaken, SameKept
  <2> QED BY <2>1, <2>2
<1>6. ASSUME NEW x \in {Stack, Chains}, NEW h, Ends(N, nx, x, h)
      PROVE  Ends(N2, nx, x, h)
  <2>1. x \in FullLists \ {Kept(t)}
    BY FullNames
  <2>2. N2.len[x] = N.len[x] /\ N2.first[x] = N.first[x] /\ N2.last[x] = N.last[x]
    BY ONLY <1>4, <2>1 DEF ListPopped, SameLists
  <2> QED BY ONLY <1>1, <1>6, <2>1, <2>2, EndsStay
<1>7. N2.in[b] = NoList /\ \A c \in Bucket \ {b} : N2.in[c] = N.in[c]
  BY ONLY <1>4 DEF ListPopped
<1>8. /\ F2 = {c \in Bucket : N2.in[c] = Stack \/ \E u \in Thread : N2.in[c] = Kept(u)}
      /\ C = {c \in Bucket : N2.in[c] = Chains}
  BY ONLY <1>2, <1>7, FullNames, BucketsPlaced(N, nx, hd, bh, D, F, C), KeptTaken(nx, D, D2, F, F2, t, b)
     DEF BucketsPlaced, KeptTaken
<1>9. BucketsPlaced(N2, nx, hd, bh, D2, F2, C)
  BY ONLY <1>4, <1>5, <1>6, <1>8, BucketsPlaced(N, nx, hd, bh, D, F, C) DEF BucketsPlaced
<1>10. b \in F
  BY <1>2, KeptTaken(nx, D, D2, F, F2, t, b) DEF BucketsPlaced, KeptTaken
<1> QED
  BY <1>9, <1>10

(* The first of the list of a stack leaves it. *)
EndPopped(N, N2, nx, x, b) ==
  /\ Lists(Bucket, nx, FullLists, N2)
  /\ N2.in[b] = NoList /\ \A c \in Bucket \ {b} : N2.in[c] = N.in[c]
  /\ SameLists(N, N2, FullLists \ {x})
  /\ Ends(N2, nx, x, nx[b])

LEMMA PopEnds ==
  ASSUME NEW N, NEW nx, Lists(Bucket, nx, FullLists, N), NEW x \in FullLists,
         NEW b, b # Null, Ends(N, nx, x, b)
  PROVE  /\ b \in Bucket /\ N.in[b] = x
         /\ \E N2 : EndPopped(N, N2, nx, x, b)
<1>1. x \in FullLists
  OBVIOUS
<1>2. N.len[x] \in Nat
  BY ONLY Lists(Bucket, nx, FullLists, N), <1>1, ListsHave
<1>3. N.len[x] > 0 /\ N.first[x] = b /\ nx[N.last[x]] = Null
  BY <1>2 DEF Ends
<1>4. /\ b \in Bucket /\ N.in[b] = x /\ (N.len[x] > 1 => N.last[x] # b)
      /\ nx[b] \in Bucket \/ b = N.last[x]
  BY ONLY Lists(Bucket, nx, FullLists, N), <1>1, <1>3, ListsHave
<1>5. SameLinks(Bucket, nx, nx, N, {b})
  BY DEF SameLinks
<1>6. PICK N2 : Lists(Bucket, nx, FullLists, N2) /\ ListPopped(Bucket, FullLists, nx, N, N2, x, b)
  BY ONLY Lists(Bucket, nx, FullLists, N), <1>1, <1>3, <1>5, PopList
<1>7. /\ N2.first[x] = nx[b] /\ N2.last[x] = N.last[x] /\ N2.len[x] = N.len[x] - 1
      /\ N2.in[b] = NoList /\ SameLists(N, N2, FullLists \ {x})
      /\ \A c \in Bucket \ {b} : N2.in[c] = N.in[c]
  BY ONLY <1>6 DEF ListPopped
<1>8. N2.len[x] = 0 => nx[b] = Null
  <2>1. CASE b = N.last[x]
    BY <1>3, <2>1
  <2>2. CASE b # N.last[x]
    <3>1. /\ N2.len[x] > 0 => TRUE
          /\ \A c \in Bucket : N.in[c] = x /\ c # b => N2.in[c] = x
      BY <1>7
    <3>2. N.last[x] \in Bucket /\ N.in[N.last[x]] = x
      BY ONLY Lists(Bucket, nx, FullLists, N), <1>1, <1>3, ListsHave
    <3>3. N2.len[x] # 0
      BY ONLY <1>1, <1>6, <2>2, <3>1, <3>2, ListsHave
    <3> QED BY <3>3
  <2> QED BY <2>1, <2>2
<1>9. Ends(N2, nx, x, nx[b])
  BY ONLY <1>3, <1>7, <1>8 DEF Ends
<1> QED
  BY ONLY <1>4, <1>6, <1>7, <1>9 DEF EndPopped

LEMMA TakeTop ==
  ASSUME NEW N, NEW nx, NEW hd, NEW bh, NEW D, NEW F, NEW C, BucketsPlaced(N, nx, hd, bh, D, F, C),
         hd # Null, NEW hd2, hd2 = nx[hd], NEW F2, F2 = F \ {hd}
  PROVE  /\ hd \in F
         /\ \E N2 : BucketsPlaced(N2, nx, hd2, bh, D, F2, C)
<1>1. /\ Lists(Bucket, nx, FullLists, N) /\ Ends(N, nx, Stack, hd) /\ Ends(N, nx, Chains, bh)
      /\ Stack \in FullLists
  BY FullNames DEF BucketsPlaced
<1>2. /\ hd \in Bucket /\ N.in[hd] = Stack
      /\ \E N2 : EndPopped(N, N2, nx, Stack, hd)
  BY ONLY <1>1, hd # Null, PopEnds
<1>3. PICK N2 : /\ Lists(Bucket, nx, FullLists, N2)
                /\ N2.in[hd] = NoList /\ \A c \in Bucket \ {hd} : N2.in[c] = N.in[c]
                /\ SameLists(N, N2, FullLists \ {Stack})
                /\ Ends(N2, nx, Stack, nx[hd])
  BY ONLY <1>2 DEF EndPopped
<1>4. \A u \in Thread : /\ N2.len[Kept(u)] = N.len[Kept(u)]
                        /\ N2.first[Kept(u)] = N.first[Kept(u)] /\ N2.last[Kept(u)] = N.last[Kept(u)]
  BY ONLY <1>3, FullNames DEF SameLists
<1>5. Ends(N2, nx, Chains, bh)
  <2>1. N2.len[Chains] = N.len[Chains] /\ N2.first[Chains] = N.first[Chains] /\ N2.last[Chains] = N.last[Chains]
    BY ONLY <1>3, FullNames DEF SameLists
  <2> QED BY ONLY <1>1, <2>1, FullNames, EndsStay
<1>6. /\ F \ {hd} = {c \in Bucket : N2.in[c] = Stack \/ \E u \in Thread : N2.in[c] = Kept(u)}
      /\ C = {c \in Bucket : N2.in[c] = Chains}
  BY ONLY <1>2, <1>3, FullNames, BucketsPlaced(N, nx, hd, bh, D, F, C) DEF BucketsPlaced
<1>7. BucketsPlaced(N2, nx, nx[hd], bh, D, F \ {hd}, C)
  BY ONLY <1>3, <1>4, <1>5, <1>6, BucketsPlaced(N, nx, hd, bh, D, F, C) DEF BucketsPlaced
<1>8. hd \in F
  BY ONLY <1>2, BucketsPlaced(N, nx, hd, bh, D, F, C) DEF BucketsPlaced
<1> QED
  BY <1>7, <1>8

LEMMA TakeChain ==
  ASSUME NEW N, NEW nx, NEW hd, NEW bh, NEW D, NEW F, NEW C, BucketsPlaced(N, nx, hd, bh, D, F, C),
         bh # Null, NEW bh2, bh2 = nx[bh], NEW C2, C2 = C \ {bh}
  PROVE  /\ bh \in C
         /\ \E N2 : BucketsPlaced(N2, nx, hd, bh2, D, F, C2)
<1>1. /\ Lists(Bucket, nx, FullLists, N) /\ Ends(N, nx, Stack, hd) /\ Ends(N, nx, Chains, bh)
      /\ Chains \in FullLists
  BY FullNames DEF BucketsPlaced
<1>2. /\ bh \in Bucket /\ N.in[bh] = Chains
      /\ \E N2 : EndPopped(N, N2, nx, Chains, bh)
  BY ONLY <1>1, bh # Null, PopEnds
<1>3. PICK N2 : /\ Lists(Bucket, nx, FullLists, N2)
                /\ N2.in[bh] = NoList /\ \A c \in Bucket \ {bh} : N2.in[c] = N.in[c]
                /\ SameLists(N, N2, FullLists \ {Chains})
                /\ Ends(N2, nx, Chains, nx[bh])
  BY ONLY <1>2 DEF EndPopped
<1>4. \A u \in Thread : /\ N2.len[Kept(u)] = N.len[Kept(u)]
                        /\ N2.first[Kept(u)] = N.first[Kept(u)] /\ N2.last[Kept(u)] = N.last[Kept(u)]
  BY ONLY <1>3, FullNames DEF SameLists
<1>5. Ends(N2, nx, Stack, hd)
  <2>1. N2.len[Stack] = N.len[Stack] /\ N2.first[Stack] = N.first[Stack] /\ N2.last[Stack] = N.last[Stack]
    BY ONLY <1>3, FullNames DEF SameLists
  <2> QED BY ONLY <1>1, <2>1, FullNames, EndsStay
<1>6. /\ F = {c \in Bucket : N2.in[c] = Stack \/ \E u \in Thread : N2.in[c] = Kept(u)}
      /\ C \ {bh} = {c \in Bucket : N2.in[c] = Chains}
  BY ONLY <1>2, <1>3, FullNames, BucketsPlaced(N, nx, hd, bh, D, F, C) DEF BucketsPlaced
<1>7. BucketsPlaced(N2, nx, hd, nx[bh], D, F, C \ {bh})
  BY ONLY <1>3, <1>4, <1>5, <1>6, BucketsPlaced(N, nx, hd, bh, D, F, C) DEF BucketsPlaced
<1>8. bh \in C
  BY ONLY <1>2, BucketsPlaced(N, nx, hd, bh, D, F, C) DEF BucketsPlaced
<1> QED
  BY <1>7, <1>8

LEMMA KeepFull ==
  ASSUME NEW N, NEW nx, NEW hd, NEW bh, NEW D, NEW F, NEW C, BucketsPlaced(N, nx, hd, bh, D, F, C),
         NEW nx2, NEW D2, NEW F2, NEW t, NEW b \in Bucket \ (F \cup C), FullKept(nx, nx2, D, D2, F, F2, t, b)
  PROVE  \E N2 : BucketsPlaced(N2, nx2, hd, bh, D2, F2, C)
<1>1. /\ Lists(Bucket, nx, FullLists, N) /\ Kept(t) \in FullLists
      /\ N.len[Kept(t)] = D[t].abuckets_count
      /\ N.len[Kept(t)] > 0 => nx2[b] = N.first[Kept(t)] /\ N.last[Kept(t)] = D[t].last_abucket
  BY FullNames DEF BucketsPlaced, FullKept
<1>2. b \in Bucket /\ N.in[b] = NoList
  BY InNoFullList
<1>3. \A c \in Bucket \ {b} : nx2[c] = nx[c]
  BY DEF FullKept
<1>4. SameLinks(Bucket, nx, nx2, N, {b})
  BY <1>3 DEF SameLinks
<1>5. PICK N2 : Lists(Bucket, nx2, FullLists, N2) /\ ListPushed(Bucket, FullLists, N, N2, Kept(t), b)
  BY ONLY <1>1, <1>2, <1>4, PushList
<1>6. ASSUME NEW u \in Thread
      PROVE  /\ N2.len[Kept(u)] = D2[u].abuckets_count
             /\ D2[u].abuckets_count > 0 => /\ N2.first[Kept(u)] = D2[u].abuckets
                                            /\ N2.last[Kept(u)] = D2[u].last_abucket
  <2>1. CASE u = t
    <3>1. N.len[Kept(t)] \in Nat
      BY ONLY <1>1, ListsHave
    <3> QED
      BY ONLY <2>1, <3>1, <1>1, <1>5, FullKept(nx, nx2, D, D2, F, F2, t, b) DEF ListPushed, FullKept
  <2>2. CASE u # t
    <3>1. Kept(u) \in FullLists \ {Kept(t)}
      BY <2>2, FullNames
    <3>2. /\ N2.len[Kept(u)] = N.len[Kept(u)]
          /\ N2.first[Kept(u)] = N.first[Kept(u)] /\ N2.last[Kept(u)] = N.last[Kept(u)]
      BY ONLY <1>5, <3>1 DEF ListPushed, SameLists
    <3> QED BY ONLY <3>2, <2>2, u \in Thread, BucketsPlaced(N, nx, hd, bh, D, F, C),
               FullKept(nx, nx2, D, D2, F, F2, t, b)
            DEF BucketsPlaced, FullKept, SameKept
  <2> QED BY <2>1, <2>2
<1>7. ASSUME NEW x \in {Stack, Chains}, NEW h, Ends(N, nx, x, h)
      PROVE  Ends(N2, nx2, x, h)
  <2>1. x \in FullLists \ {Kept(t)} /\ x # NoList
    BY FullNames
  <2>2. N2.len[x] = N.len[x] /\ N2.first[x] = N.first[x] /\ N2.last[x] = N.last[x]
    BY ONLY <1>5, <2>1 DEF ListPushed, SameLists
  <2>3. \A c \in Bucket : N.in[c] = x => nx2[c] = nx[c]
    BY ONLY <1>2, <1>3, <2>1
  <2> QED BY ONLY <1>1, <1>7, <2>1, <2>2, <2>3, EndsStay
<1>8. N2.in[b] = Kept(t) /\ \A c \in Bucket \ {b} : N2.in[c] = N.in[c]
  BY ONLY <1>5 DEF ListPushed
<1>9. /\ F2 = {c \in Bucket : N2.in[c] = Stack \/ \E u \in Thread : N2.in[c] = Kept(u)}
      /\ C = {c \in Bucket : N2.in[c] = Chains}
  BY ONLY <1>2, <1>8, FullNames, BucketsPlaced(N, nx, hd, bh, D, F, C), FullKept(nx, nx2, D, D2, F, F2, t, b)
     DEF BucketsPlaced, FullKept
<1> QED
  BY ONLY <1>5, <1>6, <1>7, <1>9, BucketsPlaced(N, nx, hd, bh, D, F, C) DEF BucketsPlaced

LEMMA ReturnFull ==
  ASSUME NEW N, NEW nx, NEW hd, NEW bh, NEW D, NEW F, NEW C, BucketsPlaced(N, nx, hd, bh, D, F, C),
         NEW nx2, NEW hd2, NEW D2, NEW t, FullReturned(nx, nx2, hd, hd2, D, D2, t)
  PROVE  /\ D[t].last_abucket \in Bucket
         /\ \E N2 : BucketsPlaced(N2, nx2, hd2, bh, D2, F, C)
<1> DEFINE last == D[t].last_abucket
<1>1. /\ Lists(Bucket, nx, FullLists, N) /\ Kept(t) \in FullLists /\ Stack \in FullLists /\ Kept(t) # Stack
      /\ N.len[Kept(t)] = D[t].abuckets_count /\ N.len[Kept(t)] > 0
      /\ N.first[Kept(t)] = hd2 /\ N.last[Kept(t)] = last
      /\ N.first[Stack] = hd /\ nx2[last] = hd /\ Ends(N, nx, Stack, hd)
  BY FullNames DEF BucketsPlaced, FullReturned, Ends
<1>2. \A c \in Bucket \ {last} : nx2[c] = nx[c]
  BY DEF FullReturned
<1> HIDE DEF last
<1>3. last \in Bucket /\ N.in[last] = Kept(t) /\ N.len[Kept(t)] \in Nat /\ N.len[Stack] \in Nat
  BY ONLY <1>1, ListsHave
<1>4. SameLinks(Bucket, nx, nx2, N, {last}) /\ nx2[last] = N.first[Stack]
  BY <1>1, <1>2 DEF SameLinks
<1>5. PICK N2 : Lists(Bucket, nx2, FullLists, N2) /\ ListJoined(Bucket, FullLists, N, N2, Kept(t), Stack)
  BY ONLY <1>1, <1>4, JoinList
<1>6. ASSUME NEW u \in Thread
      PROVE  /\ N2.len[Kept(u)] = D2[u].abuckets_count
             /\ D2[u].abuckets_count > 0 => /\ N2.first[Kept(u)] = D2[u].abuckets
                                            /\ N2.last[Kept(u)] = D2[u].last_abucket
  <2>1. CASE u = t
    BY ONLY <2>1, <1>5, FullReturned(nx, nx2, hd, hd2, D, D2, t) DEF ListJoined, FullReturned
  <2>2. CASE u # t
    <3>1. Kept(u) \in FullLists \ {Kept(t), Stack}
      BY <2>2, FullNames
    <3>2. /\ N2.len[Kept(u)] = N.len[Kept(u)]
          /\ N2.first[Kept(u)] = N.first[Kept(u)] /\ N2.last[Kept(u)] = N.last[Kept(u)]
      BY ONLY <1>5, <3>1 DEF ListJoined, SameLists
    <3> QED BY ONLY <3>2, <2>2, u \in Thread, BucketsPlaced(N, nx, hd, bh, D, F, C),
               FullReturned(nx, nx2, hd, hd2, D, D2, t)
            DEF BucketsPlaced, FullReturned, SameKept
  <2> QED BY <2>1, <2>2
<1>7. Ends(N2, nx2, Stack, hd2)
  <2>1. /\ N2.first[Stack] = hd2 /\ N2.len[Stack] > 0
        /\ N2.last[Stack] = IF N.len[Stack] = 0 THEN last ELSE N.last[Stack]
    BY ONLY <1>1, <1>3, <1>5 DEF ListJoined
  <2>2. CASE N.len[Stack] = 0
    BY <1>1, <2>1, <2>2 DEF Ends
  <2>3. CASE N.len[Stack] # 0
    <3>1. N.len[Stack] > 0
      BY <1>3, <2>3
    <3>2. N.last[Stack] \in Bucket /\ N.in[N.last[Stack]] = Stack
      BY ONLY <1>1, <3>1, ListsHave
    <3>3. nx2[N.last[Stack]] = nx[N.last[Stack]]
      BY <1>1, <1>2, <1>3, <3>2
    <3> QED BY <1>1, <2>1, <3>1, <3>3, <2>3 DEF Ends
  <2> QED BY <2>2, <2>3
<1>8. Ends(N2, nx2, Chains, bh)
  <2>1. Chains \in FullLists \ {Kept(t), Stack}
    BY FullNames
  <2>2. N2.len[Chains] = N.len[Chains] /\ N2.first[Chains] = N.first[Chains] /\ N2.last[Chains] = N.last[Chains]
    BY ONLY <1>5, <2>1 DEF ListJoined, SameLists
  <2>3. \A c \in Bucket : N.in[c] = Chains => nx2[c] = nx[c]
    BY ONLY <1>2, <1>3, <2>1
  <2>4. Ends(N, nx, Chains, bh)
    BY DEF BucketsPlaced
  <2> QED BY ONLY <1>1, <2>1, <2>2, <2>3, <2>4, EndsStay
<1>9. \A c \in Bucket : N2.in[c] = IF N.in[c] = Kept(t) THEN Stack ELSE N.in[c]
  BY ONLY <1>5 DEF ListJoined
<1>10. /\ F = {c \in Bucket : N2.in[c] = Stack \/ \E u \in Thread : N2.in[c] = Kept(u)}
       /\ C = {c \in Bucket : N2.in[c] = Chains}
  <2>1. t \in Thread
    BY DEF FullReturned
  <2>2. /\ F = {c \in Bucket : N.in[c] = Stack \/ \E u \in Thread : N.in[c] = Kept(u)}
        /\ C = {c \in Bucket : N.in[c] = Chains}
    BY DEF BucketsPlaced
  <2>3. ASSUME NEW c \in Bucket
        PROVE  /\ (N.in[c] = Stack \/ \E u \in Thread : N.in[c] = Kept(u))
                    <=> (N2.in[c] = Stack \/ \E u \in Thread : N2.in[c] = Kept(u))
               /\ N.in[c] = Chains <=> N2.in[c] = Chains
    BY ONLY <1>9, <2>1, c \in Bucket, FullNames
  <2> QED BY ONLY <2>2, <2>3
<1>11. BucketsPlaced(N2, nx2, hd2, bh, D2, F, C)
  BY ONLY <1>5, <1>6, <1>7, <1>8, <1>10, BucketsPlaced(N, nx, hd, bh, D, F, C) DEF BucketsPlaced
<1> QED
  BY <1>3, <1>11 DEF last

(* b goes on the stack of chains. *)
ChainPut(nx, nx2, bh, b) ==
  /\ nx2[b] = bh /\ \A c \in Bucket \ {b} : nx2[c] = nx[c]

LEMMA PutChain ==
  ASSUME NEW N, NEW nx, NEW hd, NEW bh, NEW D, NEW F, NEW C, BucketsPlaced(N, nx, hd, bh, D, F, C),
         NEW nx2, NEW b \in Bucket \ (F \cup C), ChainPut(nx, nx2, bh, b)
  PROVE  \E N2 : BucketsPlaced(N2, nx2, hd, b, D, F, C \cup {b})
<1>1. /\ Lists(Bucket, nx, FullLists, N) /\ Chains \in FullLists
      /\ Ends(N, nx, Chains, bh) /\ nx2[b] = N.first[Chains]
  BY FullNames DEF BucketsPlaced, Ends, ChainPut
<1>2. b \in Bucket /\ N.in[b] = NoList
  BY InNoFullList
<1>3. \A c \in Bucket \ {b} : nx2[c] = nx[c]
  BY DEF ChainPut
<1>4. SameLinks(Bucket, nx, nx2, N, {b})
  BY <1>3 DEF SameLinks
<1>5. PICK N2 : Lists(Bucket, nx2, FullLists, N2) /\ ListPushed(Bucket, FullLists, N, N2, Chains, b)
  BY ONLY <1>1, <1>2, <1>4, PushList
<1>6. \A u \in Thread : /\ N2.len[Kept(u)] = N.len[Kept(u)]
                        /\ N2.first[Kept(u)] = N.first[Kept(u)] /\ N2.last[Kept(u)] = N.last[Kept(u)]
  BY ONLY <1>5, FullNames DEF ListPushed, SameLists
<1>7. Ends(N2, nx2, Stack, hd)
  <2>1. Stack \in FullLists \ {Chains} /\ Stack # NoList
    BY FullNames
  <2>2. N2.len[Stack] = N.len[Stack] /\ N2.first[Stack] = N.first[Stack] /\ N2.last[Stack] = N.last[Stack]
    BY ONLY <1>5, <2>1 DEF ListPushed, SameLists
  <2>3. \A c \in Bucket : N.in[c] = Stack => nx2[c] = nx[c]
    BY ONLY <1>2, <1>3, <2>1
  <2>4. Ends(N, nx, Stack, hd)
    BY DEF BucketsPlaced
  <2> QED BY ONLY <1>1, <2>1, <2>2, <2>3, <2>4, EndsStay
<1>8. Ends(N2, nx2, Chains, b)
  <2>1. N.len[Chains] \in Nat
    BY ONLY <1>1, ListsHave
  <2>2. /\ N2.first[Chains] = b /\ N2.len[Chains] > 0
        /\ N2.last[Chains] = IF N.len[Chains] = 0 THEN b ELSE N.last[Chains]
    BY ONLY <2>1, <1>5 DEF ListPushed
  <2>3. CASE N.len[Chains] = 0
    BY <1>1, <2>2, <2>3 DEF Ends
  <2>4. CASE N.len[Chains] # 0
    <3>1. N.len[Chains] > 0
      BY <2>1, <2>4
    <3>2. N.last[Chains] \in Bucket /\ N.in[N.last[Chains]] = Chains
      BY ONLY <1>1, <3>1, ListsHave
    <3>3. nx2[N.last[Chains]] = nx[N.last[Chains]]
      BY <1>2, <1>3, <3>2, FullNames
    <3> QED BY <1>1, <2>2, <3>1, <3>3, <2>4 DEF Ends
  <2> QED BY <2>3, <2>4
<1>9. N2.in[b] = Chains /\ \A c \in Bucket \ {b} : N2.in[c] = N.in[c]
  BY ONLY <1>5 DEF ListPushed
<1>10. /\ F = {c \in Bucket : N2.in[c] = Stack \/ \E u \in Thread : N2.in[c] = Kept(u)}
       /\ C \cup {b} = {c \in Bucket : N2.in[c] = Chains}
  BY ONLY <1>2, <1>9, FullNames, BucketsPlaced(N, nx, hd, bh, D, F, C) DEF BucketsPlaced
<1> QED
  BY ONLY <1>5, <1>6, <1>7, <1>8, <1>10, BucketsPlaced(N, nx, hd, bh, D, F, C) DEF BucketsPlaced

-----------------------------------------------------------------------------
(* Where the empty buckets are: lo is local.                               *)
EmptiesPlaced(L, lo, D, C) ==
  /\ Lists(Bucket, lo, EmptyLists, L)
  /\ \A t \in Thread : /\ L.len[Empty(t)] = D[t].free_abuckets_count
                       /\ D[t].free_abuckets_count > 0 => L.first[Empty(t)] = D[t].free_abuckets
  /\ \A b \in C : L.len[Chain(b)] = nr_local_free_abuckets /\ L.first[Chain(b)] = b
  /\ \A b \in Bucket \ C : L.len[Chain(b)] = 0
  /\ \A b \in Bucket \ Apart(Bucket, L) : lo[b] \in Link
  /\ C \subseteq Bucket

SameEmpties(D, D2, S) ==
  \A u \in S : /\ D2[u].free_abuckets_count = D[u].free_abuckets_count
               /\ D[u].free_abuckets_count > 0 => D2[u].free_abuckets = D[u].free_abuckets

(* t keeps the empty bucket b. *)
EmptyKept(lo, lo2, D, D2, t, b) ==
  /\ t \in Thread
  /\ lo2[b] = D[t].free_abuckets /\ lo2[b] \in Link
  /\ \A c \in Bucket \ {b} : lo2[c] = lo[c]
  /\ D2[t].free_abuckets = b /\ D2[t].free_abuckets_count = D[t].free_abuckets_count + 1
  /\ SameEmpties(D, D2, Thread \ {t})

(* t uses b, the first of the empty buckets it keeps. *)
EmptyUsed(lo, lo2, D, D2, t, b) ==
  /\ t \in Thread /\ D[t].free_abuckets_count > 0 /\ b = D[t].free_abuckets
  /\ \A c \in Bucket \ {b} : lo2[c] = lo[c]
  /\ D2[t].free_abuckets = lo[b] /\ D2[t].free_abuckets_count = D[t].free_abuckets_count - 1
  /\ SameEmpties(D, D2, Thread \ {t})

(* The empty buckets of t become the chain of b, their first. *)
ChainMade(D, D2, t, b) ==
  /\ t \in Thread /\ D[t].free_abuckets_count = nr_local_free_abuckets /\ b = D[t].free_abuckets
  /\ D2[t].free_abuckets_count = 0
  /\ SameEmpties(D, D2, Thread \ {t})

(* The chain of b becomes the empty buckets of t. *)
ChainFetched(D, D2, t, b) ==
  /\ t \in Thread /\ D[t].free_abuckets_count = 0
  /\ D2[t].free_abuckets = b /\ D2[t].free_abuckets_count = nr_local_free_abuckets
  /\ SameEmpties(D, D2, Thread \ {t})

LEMMA EmptiesStay ==
  ASSUME NEW L, NEW lo, NEW D, NEW C, EmptiesPlaced(L, lo, D, C),
         NEW D2, SameEmpties(D, D2, Thread)
  PROVE  EmptiesPlaced(L, lo, D2, C)
BY DEF EmptiesPlaced, SameEmpties

LEMMA KeepEmpty ==
  ASSUME NEW L, NEW lo, NEW D, NEW C, EmptiesPlaced(L, lo, D, C),
         NEW lo2, NEW D2, NEW t, NEW b \in Apart(Bucket, L), EmptyKept(lo, lo2, D, D2, t, b)
  PROVE  \E L2 : /\ EmptiesPlaced(L2, lo2, D2, C)
                 /\ Apart(Bucket, L2) = Apart(Bucket, L) \ {b}
<1>1. /\ Lists(Bucket, lo, EmptyLists, L) /\ Empty(t) \in EmptyLists
      /\ L.len[Empty(t)] = D[t].free_abuckets_count
      /\ L.len[Empty(t)] > 0 => lo2[b] = L.first[Empty(t)]
  BY EmptyNames DEF EmptiesPlaced, EmptyKept
<1>2. b \in Bucket /\ L.in[b] = NoList
  BY DEF Apart
<1>3. SameLinks(Bucket, lo, lo2, L, {b})
  BY DEF SameLinks, EmptyKept
<1>4. PICK L2 : Lists(Bucket, lo2, EmptyLists, L2) /\ ListPushed(Bucket, EmptyLists, L, L2, Empty(t), b)
  BY ONLY <1>1, <1>2, <1>3, PushList
<1>5. Apart(Bucket, L2) = Apart(Bucket, L) \ {b}
  BY ONLY <1>2, <1>4, EmptyNames DEF Apart, ListPushed
<1>6. ASSUME NEW u \in Thread
      PROVE  /\ L2.len[Empty(u)] = D2[u].free_abuckets_count
             /\ D2[u].free_abuckets_count > 0 => L2.first[Empty(u)] = D2[u].free_abuckets
  <2>1. CASE u = t
    BY ONLY <2>1, <1>1, <1>4, EmptyKept(lo, lo2, D, D2, t, b) DEF ListPushed, EmptyKept
  <2>2. CASE u # t
    <3>1. Empty(u) \in EmptyLists \ {Empty(t)}
      BY <2>2, EmptyNames
    <3>2. L2.len[Empty(u)] = L.len[Empty(u)] /\ L2.first[Empty(u)] = L.first[Empty(u)]
      BY ONLY <1>4, <3>1 DEF ListPushed, SameLists
    <3> QED BY ONLY <3>2, <2>2, u \in Thread, EmptiesPlaced(L, lo, D, C), EmptyKept(lo, lo2, D, D2, t, b)
            DEF EmptiesPlaced, EmptyKept, SameEmpties
  <2> QED BY <2>1, <2>2
<1>7. ASSUME NEW c \in Bucket
      PROVE  L2.len[Chain(c)] = L.len[Chain(c)] /\ L2.first[Chain(c)] = L.first[Chain(c)]
  <2>1. Chain(c) \in EmptyLists \ {Empty(t)}
    BY EmptyNames
  <2> QED BY ONLY <1>4, <2>1 DEF ListPushed, SameLists
<1>8. \A c \in Bucket \ Apart(Bucket, L2) : lo2[c] \in Link
  BY ONLY <1>5, EmptiesPlaced(L, lo, D, C), EmptyKept(lo, lo2, D, D2, t, b) DEF EmptiesPlaced, EmptyKept
<1>9. EmptiesPlaced(L2, lo2, D2, C)
  BY ONLY <1>4, <1>6, <1>7, <1>8, EmptiesPlaced(L, lo, D, C) DEF EmptiesPlaced
<1> QED
  BY <1>5, <1>9

(* A bucket with a thread is not the first of a chain. *)
LEMMA FirstOfChain ==
  ASSUME NEW L, NEW lo, NEW D, NEW C, EmptiesPlaced(L, lo, D, C), NEW b \in C
  PROVE  b \in Bucket /\ L.in[b] = Chain(b)
<1>1. nr_local_free_abuckets \in Nat /\ nr_local_free_abuckets > 0
  BY LimitsAssumption
<1>2. /\ Lists(Bucket, lo, EmptyLists, L) /\ Chain(b) \in EmptyLists /\ b \in Bucket
      /\ L.len[Chain(b)] > 0 /\ L.first[Chain(b)] = b
  BY <1>1, EmptyNames DEF EmptiesPlaced
<1> QED
  BY ONLY <1>2, ListsHave

LEMMA UseEmpty ==
  ASSUME NEW L, NEW lo, NEW D, NEW C, EmptiesPlaced(L, lo, D, C),
         NEW lo2, NEW D2, NEW t, NEW b, EmptyUsed(lo, lo2, D, D2, t, b)
  PROVE  /\ b \in Bucket \ (C \cup Apart(Bucket, L)) /\ lo[b] \in Link
         /\ \E L2 : /\ EmptiesPlaced(L2, lo2, D2, C)
                    /\ Apart(Bucket, L2) = Apart(Bucket, L) \cup {b}
<1>1. /\ Lists(Bucket, lo, EmptyLists, L) /\ Empty(t) \in EmptyLists
      /\ L.len[Empty(t)] = D[t].free_abuckets_count /\ L.len[Empty(t)] > 0 /\ L.first[Empty(t)] = b
  BY EmptyNames DEF EmptiesPlaced, EmptyUsed
<1>2. b \in Bucket /\ L.in[b] = Empty(t) /\ Empty(t) # NoList
  BY ONLY <1>1, ListsHave
<1>3. SameLinks(Bucket, lo, lo2, L, {b})
  BY DEF SameLinks, EmptyUsed
<1>4. PICK L2 : Lists(Bucket, lo2, EmptyLists, L2) /\ ListPopped(Bucket, EmptyLists, lo, L, L2, Empty(t), b)
  BY ONLY <1>1, <1>3, PopList
<1>5. Apart(Bucket, L2) = Apart(Bucket, L) \cup {b}
  BY ONLY <1>2, <1>4 DEF Apart, ListPopped
<1>6. ASSUME NEW u \in Thread
      PROVE  /\ L2.len[Empty(u)] = D2[u].free_abuckets_count
             /\ D2[u].free_abuckets_count > 0 => L2.first[Empty(u)] = D2[u].free_abuckets
  <2>1. CASE u = t
    BY ONLY <2>1, <1>1, <1>4, EmptyUsed(lo, lo2, D, D2, t, b) DEF ListPopped, EmptyUsed
  <2>2. CASE u # t
    <3>1. Empty(u) \in EmptyLists \ {Empty(t)}
      BY <2>2, EmptyNames
    <3>2. L2.len[Empty(u)] = L.len[Empty(u)] /\ L2.first[Empty(u)] = L.first[Empty(u)]
      BY ONLY <1>4, <3>1 DEF ListPopped, SameLists
    <3> QED BY ONLY <3>2, <2>2, u \in Thread, EmptiesPlaced(L, lo, D, C), EmptyUsed(lo, lo2, D, D2, t, b)
            DEF EmptiesPlaced, EmptyUsed, SameEmpties
  <2> QED BY <2>1, <2>2
<1>7. ASSUME NEW c \in Bucket
      PROVE  L2.len[Chain(c)] = L.len[Chain(c)] /\ L2.first[Chain(c)] = L.first[Chain(c)]
  <2>1. Chain(c) \in EmptyLists \ {Empty(t)}
    BY EmptyNames
  <2> QED BY ONLY <1>4, <2>1 DEF ListPopped, SameLists
<1>8. \A c \in Bucket \ Apart(Bucket, L2) : lo2[c] \in Link
  BY ONLY <1>5, EmptiesPlaced(L, lo, D, C), EmptyUsed(lo, lo2, D, D2, t, b) DEF EmptiesPlaced, EmptyUsed
<1>9. EmptiesPlaced(L2, lo2, D2, C)
  BY ONLY <1>4, <1>6, <1>7, <1>8, EmptiesPlaced(L, lo, D, C) DEF EmptiesPlaced
<1>10. b \notin Apart(Bucket, L)
  BY ONLY <1>2 DEF Apart
<1>11. b \notin C
  BY <1>2, FirstOfChain, EmptyNames
<1>12. lo[b] \in Link
  BY <1>2, <1>10 DEF EmptiesPlaced
<1> QED
  BY ONLY <1>2, <1>5, <1>9, <1>10, <1>11, <1>12

LEMMA MakeChain ==
  ASSUME NEW L, NEW lo, NEW D, NEW C, EmptiesPlaced(L, lo, D, C),
         NEW D2, NEW t, NEW b, ChainMade(D, D2, t, b)
  PROVE  /\ b \in Bucket \ (C \cup Apart(Bucket, L))
         /\ \E L2 : /\ EmptiesPlaced(L2, lo, D2, C \cup {b})
                    /\ Apart(Bucket, L2) = Apart(Bucket, L)
<1>1. nr_local_free_abuckets \in Nat /\ nr_local_free_abuckets > 0
  BY LimitsAssumption
<1>2. /\ Lists(Bucket, lo, EmptyLists, L) /\ Empty(t) \in EmptyLists /\ Empty(t) # NoList
      /\ L.len[Empty(t)] = nr_local_free_abuckets /\ L.len[Empty(t)] > 0 /\ L.first[Empty(t)] = b
  BY <1>1, EmptyNames DEF EmptiesPlaced, ChainMade
<1>3. b \in Bucket /\ L.in[b] = Empty(t)
  BY ONLY <1>2, ListsHave
<1>4. b \notin C
  BY <1>3, FirstOfChain, EmptyNames
<1>5. /\ Chain(b) \in EmptyLists /\ Empty(t) # Chain(b) /\ Chain(b) # NoList /\ L.len[Chain(b)] = 0
      /\ SameLinks(Bucket, lo, lo, L, {})
  BY <1>3, <1>4, EmptyNames DEF EmptiesPlaced, SameLinks
<1>6. PICK L2 : Lists(Bucket, lo, EmptyLists, L2) /\ ListJoined(Bucket, EmptyLists, L, L2, Empty(t), Chain(b))
  BY ONLY <1>2, <1>5, RenameList
<1>7. Apart(Bucket, L2) = Apart(Bucket, L)
  BY ONLY <1>2, <1>5, <1>6 DEF Apart, ListJoined
<1>8. ASSUME NEW u \in Thread
      PROVE  /\ L2.len[Empty(u)] = D2[u].free_abuckets_count
             /\ D2[u].free_abuckets_count > 0 => L2.first[Empty(u)] = D2[u].free_abuckets
  <2>1. CASE u = t
    BY ONLY <2>1, <1>6, ChainMade(D, D2, t, b) DEF ListJoined, ChainMade
  <2>2. CASE u # t
    <3>1. Empty(u) \in EmptyLists \ {Empty(t), Chain(b)}
      BY <2>2, EmptyNames
    <3>2. L2.len[Empty(u)] = L.len[Empty(u)] /\ L2.first[Empty(u)] = L.first[Empty(u)]
      BY ONLY <1>6, <3>1 DEF ListJoined, SameLists
    <3> QED BY ONLY <3>2, <2>2, u \in Thread, EmptiesPlaced(L, lo, D, C), ChainMade(D, D2, t, b)
            DEF EmptiesPlaced, ChainMade, SameEmpties
  <2> QED BY <2>1, <2>2
<1>9. ASSUME NEW c \in Bucket, c # b
      PROVE  L2.len[Chain(c)] = L.len[Chain(c)] /\ L2.first[Chain(c)] = L.first[Chain(c)]
  <2>1. Chain(c) \in EmptyLists \ {Empty(t), Chain(b)}
    BY <1>9, EmptyNames
  <2> QED BY ONLY <1>6, <2>1 DEF ListJoined, SameLists
<1>10. L2.len[Chain(b)] = nr_local_free_abuckets /\ L2.first[Chain(b)] = b
  BY ONLY <1>1, <1>2, <1>5, <1>6 DEF ListJoined
<1>11. EmptiesPlaced(L2, lo, D2, C \cup {b})
  BY ONLY <1>3, <1>6, <1>7, <1>8, <1>9, <1>10, EmptiesPlaced(L, lo, D, C) DEF EmptiesPlaced
<1>12. b \notin Apart(Bucket, L)
  BY ONLY <1>2, <1>3 DEF Apart
<1> QED
  BY ONLY <1>3, <1>4, <1>7, <1>11, <1>12

LEMMA FetchChain ==
  ASSUME NEW L, NEW lo, NEW D, NEW C, EmptiesPlaced(L, lo, D, C),
         NEW D2, NEW t, NEW b \in C, ChainFetched(D, D2, t, b)
  PROVE  \E L2 : /\ EmptiesPlaced(L2, lo, D2, C \ {b})
                 /\ Apart(Bucket, L2) = Apart(Bucket, L)
<1>1. nr_local_free_abuckets \in Nat /\ nr_local_free_abuckets > 0
  BY LimitsAssumption
<1>2. /\ Lists(Bucket, lo, EmptyLists, L) /\ Empty(t) \in EmptyLists /\ Empty(t) # NoList
      /\ b \in Bucket /\ Chain(b) \in EmptyLists /\ Empty(t) # Chain(b) /\ Chain(b) # NoList
      /\ L.len[Chain(b)] = nr_local_free_abuckets /\ L.len[Chain(b)] > 0 /\ L.first[Chain(b)] = b
      /\ L.len[Empty(t)] = 0 /\ SameLinks(Bucket, lo, lo, L, {})
  BY <1>1, EmptyNames DEF EmptiesPlaced, ChainFetched, SameLinks
<1>3. PICK L2 : Lists(Bucket, lo, EmptyLists, L2) /\ ListJoined(Bucket, EmptyLists, L, L2, Chain(b), Empty(t))
  BY ONLY <1>2, RenameList
<1>4. Apart(Bucket, L2) = Apart(Bucket, L)
  BY ONLY <1>2, <1>3 DEF Apart, ListJoined
<1>5. ASSUME NEW u \in Thread
      PROVE  /\ L2.len[Empty(u)] = D2[u].free_abuckets_count
             /\ D2[u].free_abuckets_count > 0 => L2.first[Empty(u)] = D2[u].free_abuckets
  <2>1. CASE u = t
    BY ONLY <2>1, <1>1, <1>2, <1>3, ChainFetched(D, D2, t, b) DEF ListJoined, ChainFetched
  <2>2. CASE u # t
    <3>1. Empty(u) \in EmptyLists \ {Empty(t), Chain(b)}
      BY <2>2, EmptyNames
    <3>2. L2.len[Empty(u)] = L.len[Empty(u)] /\ L2.first[Empty(u)] = L.first[Empty(u)]
      BY ONLY <1>3, <3>1 DEF ListJoined, SameLists
    <3> QED BY ONLY <3>2, <2>2, u \in Thread, EmptiesPlaced(L, lo, D, C), ChainFetched(D, D2, t, b)
            DEF EmptiesPlaced, ChainFetched, SameEmpties
  <2> QED BY <2>1, <2>2
<1>6. ASSUME NEW c \in Bucket, c # b
      PROVE  L2.len[Chain(c)] = L.len[Chain(c)] /\ L2.first[Chain(c)] = L.first[Chain(c)]
  <2>1. Chain(c) \in EmptyLists \ {Empty(t), Chain(b)}
    BY <1>6, EmptyNames
  <2> QED BY ONLY <1>3, <2>1 DEF ListJoined, SameLists
<1>7. L2.len[Chain(b)] = 0
  BY ONLY <1>3 DEF ListJoined
<1>8. EmptiesPlaced(L2, lo, D2, C \ {b})
  BY ONLY <1>2, <1>3, <1>4, <1>5, <1>6, <1>7, EmptiesPlaced(L, lo, D, C) DEF EmptiesPlaced
<1> QED
  BY ONLY <1>4, <1>8

-----------------------------------------------------------------------------
(* The whole pool: U has the addresses that are in no list, G the buckets  *)
(* that are not among the empty ones, and F of those the full ones.        *)
AllPlaced(w, nx, lo, hd, bh, D, U, G, F, A, N, L, C) ==
  /\ AddressesPlaced(A, w, lo, D, F) /\ U = Apart(Address, A)
  /\ BucketsPlaced(N, nx, hd, bh, D, F, C)
  /\ EmptiesPlaced(L, lo, D, C) /\ G = Apart(Bucket, L)
  /\ F \subseteq G

Pool(w, nx, lo, hd, bh, D, U, G, F) ==
  \E A, N, L, C : AllPlaced(w, nx, lo, hd, bh, D, U, G, F, A, N, L, C)

LEMMA PoolTake ==
  ASSUME NEW w, NEW nx, NEW lo, NEW hd, NEW bh, NEW D, NEW U, NEW G, NEW F,
         Pool(w, nx, lo, hd, bh, D, U, G, F),
         NEW w2, NEW D2, NEW t, NEW a, AddressTaken(w, w2, D, D2, t, a),
         SameKept(D, D2, Thread), SameEmpties(D, D2, Thread)
  PROVE  /\ a \in Address \ U
         /\ Pool(w2, nx, lo, hd, bh, D2, U \cup {a}, G, F)
<1>1. PICK A, N, L, C : AllPlaced(w, nx, lo, hd, bh, D, U, G, F, A, N, L, C)
  BY DEF Pool
<1>2. /\ AddressesPlaced(A, w, lo, D, F) /\ U = Apart(Address, A)
      /\ BucketsPlaced(N, nx, hd, bh, D, F, C)
      /\ EmptiesPlaced(L, lo, D, C) /\ G = Apart(Bucket, L)
      /\ F \subseteq G
  BY <1>1 DEF AllPlaced
<1>3. a \in Address \ Apart(Address, A)
  BY ONLY <1>2, AddressTaken(w, w2, D, D2, t, a), TakeAddress
<1>4. PICK A2 : AddressesPlaced(A2, w2, lo, D2, F) /\ Apart(Address, A2) = Apart(Address, A) \cup {a}
  BY ONLY <1>2, AddressTaken(w, w2, D, D2, t, a), TakeAddress
<1>5. BucketsPlaced(N, nx, hd, bh, D2, F, C)
  BY ONLY <1>2, SameKept(D, D2, Thread), BucketsStay
<1>6. EmptiesPlaced(L, lo, D2, C)
  BY ONLY <1>2, SameEmpties(D, D2, Thread), EmptiesStay
<1>7. AllPlaced(w2, nx, lo, hd, bh, D2, U \cup {a}, G, F, A2, N, L, C)
  BY ONLY <1>2, <1>4, <1>5, <1>6 DEF AllPlaced
<1> QED
  BY ONLY <1>2, <1>3, <1>7 DEF Pool

LEMMA PoolPut ==
  ASSUME NEW w, NEW nx, NEW lo, NEW hd, NEW bh, NEW D, NEW U, NEW G, NEW F,
         Pool(w, nx, lo, hd, bh, D, U, G, F),
         NEW w2, NEW D2, NEW t, NEW a \in U, AddressPut(w, w2, D, D2, t, a),
         SameKept(D, D2, Thread), SameEmpties(D, D2, Thread)
  PROVE  Pool(w2, nx, lo, hd, bh, D2, U \ {a}, G, F)
<1>1. PICK A, N, L, C : AllPlaced(w, nx, lo, hd, bh, D, U, G, F, A, N, L, C)
  BY DEF Pool
<1>2. /\ AddressesPlaced(A, w, lo, D, F) /\ U = Apart(Address, A)
      /\ BucketsPlaced(N, nx, hd, bh, D, F, C)
      /\ EmptiesPlaced(L, lo, D, C) /\ G = Apart(Bucket, L)
      /\ F \subseteq G
  BY <1>1 DEF AllPlaced
<1>3. a \in Apart(Address, A)
  BY <1>2
<1>4. PICK A2 : AddressesPlaced(A2, w2, lo, D2, F) /\ Apart(Address, A2) = Apart(Address, A) \ {a}
  BY ONLY <1>2, <1>3, AddressPut(w, w2, D, D2, t, a), PutAddress
<1>5. BucketsPlaced(N, nx, hd, bh, D2, F, C)
  BY ONLY <1>2, SameKept(D, D2, Thread), BucketsStay
<1>6. EmptiesPlaced(L, lo, D2, C)
  BY ONLY <1>2, SameEmpties(D, D2, Thread), EmptiesStay
<1>7. AllPlaced(w2, nx, lo, hd, bh, D2, U \ {a}, G, F, A2, N, L, C)
  BY ONLY <1>2, <1>4, <1>5, <1>6 DEF AllPlaced
<1> QED
  BY ONLY <1>7 DEF Pool

LEMMA PoolOpenKept ==
  ASSUME NEW w, NEW nx, NEW lo, NEW hd, NEW bh, NEW D, NEW U, NEW G, NEW F,
         Pool(w, nx, lo, hd, bh, D, U, G, F),
         NEW D2, NEW F2, NEW t, NEW b, KeptTaken(nx, D, D2, F, F2, t, b),
         b \in F => BucketOpened(lo, lo, D, D2, F, F2, t, b),
         SameEmpties(D, D2, Thread)
  PROVE  /\ b \in F /\ lo[b] \in Address
         /\ Pool(w, nx, lo, hd, bh, D2, U, G, F2)
<1>1. PICK A, N, L, C : AllPlaced(w, nx, lo, hd, bh, D, U, G, F, A, N, L, C)
  BY DEF Pool
<1>2. /\ AddressesPlaced(A, w, lo, D, F) /\ U = Apart(Address, A)
      /\ BucketsPlaced(N, nx, hd, bh, D, F, C)
      /\ EmptiesPlaced(L, lo, D, C) /\ G = Apart(Bucket, L)
      /\ F \subseteq G
  BY <1>1 DEF AllPlaced
<1>3. b \in F
  BY ONLY <1>2, KeptTaken(nx, D, D2, F, F2, t, b), TakeKept
<1>4. PICK N2 : BucketsPlaced(N2, nx, hd, bh, D2, F2, C)
  BY ONLY <1>2, KeptTaken(nx, D, D2, F, F2, t, b), TakeKept
<1>5. BucketOpened(lo, lo, D, D2, F, F2, t, b)
  BY <1>3
<1>6. lo[b] \in Address
  BY ONLY <1>2, <1>5, OpenBucket
<1>7. PICK A2 : AddressesPlaced(A2, w, lo, D2, F2) /\ Apart(Address, A2) = Apart(Address, A)
  BY ONLY <1>2, <1>5, OpenBucket
<1>8. EmptiesPlaced(L, lo, D2, C)
  BY ONLY <1>2, SameEmpties(D, D2, Thread), EmptiesStay
<1>9. F2 \subseteq G
  BY ONLY <1>2, <1>5 DEF BucketOpened
<1>10. AllPlaced(w, nx, lo, hd, bh, D2, U, G, F2, A2, N2, L, C)
  BY ONLY <1>2, <1>4, <1>7, <1>8, <1>9 DEF AllPlaced
<1> QED
  BY ONLY <1>3, <1>6, <1>10 DEF Pool

LEMMA PoolOpenTop ==
  ASSUME NEW w, NEW nx, NEW lo, NEW hd, NEW bh, NEW D, NEW U, NEW G, NEW F,
         Pool(w, nx, lo, hd, bh, D, U, G, F), hd # Null,
         NEW hd2, hd2 = nx[hd], NEW F2, F2 = F \ {hd},
         NEW D2, NEW t, hd \in F => BucketOpened(lo, lo, D, D2, F, F2, t, hd),
         SameKept(D, D2, Thread), SameEmpties(D, D2, Thread)
  PROVE  /\ hd \in F /\ lo[hd] \in Address
         /\ Pool(w, nx, lo, hd2, bh, D2, U, G, F2)
<1>1. PICK A, N, L, C : AllPlaced(w, nx, lo, hd, bh, D, U, G, F, A, N, L, C)
  BY DEF Pool
<1>2. /\ AddressesPlaced(A, w, lo, D, F) /\ U = Apart(Address, A)
      /\ BucketsPlaced(N, nx, hd, bh, D, F, C)
      /\ EmptiesPlaced(L, lo, D, C) /\ G = Apart(Bucket, L)
      /\ F \subseteq G
  BY <1>1 DEF AllPlaced
<1>3. hd \in F /\ \E N2 : BucketsPlaced(N2, nx, hd2, bh, D, F2, C)
  <2>1. BucketsPlaced(N, nx, hd, bh, D, F, C)
    BY <1>2
  <2> QED BY ONLY <2>1, hd # Null, hd2 = nx[hd], F2 = F \ {hd}, TakeTop
<1>4. PICK N2 : BucketsPlaced(N2, nx, hd2, bh, D, F2, C)
  BY ONLY <1>3
<1>5. BucketOpened(lo, lo, D, D2, F, F2, t, hd)
  BY <1>3
<1>6. lo[hd] \in Address
  BY ONLY <1>2, <1>5, OpenBucket
<1>7. PICK A2 : AddressesPlaced(A2, w, lo, D2, F2) /\ Apart(Address, A2) = Apart(Address, A)
  BY ONLY <1>2, <1>5, OpenBucket
<1>8. BucketsPlaced(N2, nx, hd2, bh, D2, F2, C)
  BY ONLY <1>4, SameKept(D, D2, Thread), BucketsStay
<1>9. EmptiesPlaced(L, lo, D2, C)
  BY ONLY <1>2, SameEmpties(D, D2, Thread), EmptiesStay
<1>10. AllPlaced(w, nx, lo, hd2, bh, D2, U, G, F2, A2, N2, L, C)
  BY ONLY <1>2, <1>7, <1>8, <1>9, F2 = F \ {hd} DEF AllPlaced
<1> QED
  BY ONLY <1>3, <1>6, <1>10 DEF Pool

LEMMA PoolKeepEmpty ==
  ASSUME NEW w, NEW nx, NEW lo, NEW hd, NEW bh, NEW D, NEW U, NEW G, NEW F,
         Pool(w, nx, lo, hd, bh, D, U, G, F),
         NEW lo2, NEW D2, NEW t, NEW b \in G \ F, EmptyKept(lo, lo2, D, D2, t, b),
         SameAddresses(D, D2, Thread), SameKept(D, D2, Thread)
  PROVE  Pool(w, nx, lo2, hd, bh, D2, U, G \ {b}, F)
<1>1. PICK A, N, L, C : AllPlaced(w, nx, lo, hd, bh, D, U, G, F, A, N, L, C)
  BY DEF Pool
<1>2. /\ AddressesPlaced(A, w, lo, D, F) /\ U = Apart(Address, A)
      /\ BucketsPlaced(N, nx, hd, bh, D, F, C)
      /\ EmptiesPlaced(L, lo, D, C) /\ G = Apart(Bucket, L)
      /\ F \subseteq G
  BY <1>1 DEF AllPlaced
<1>3. b \in Apart(Bucket, L) /\ b \notin F
  BY <1>2
<1>4. PICK L2 : EmptiesPlaced(L2, lo2, D2, C) /\ Apart(Bucket, L2) = Apart(Bucket, L) \ {b}
  BY ONLY <1>2, <1>3, EmptyKept(lo, lo2, D, D2, t, b), KeepEmpty
<1>5. \A c \in F : lo2[c] = lo[c]
  BY ONLY <1>2, <1>3, EmptyKept(lo, lo2, D, D2, t, b) DEF EmptyKept, AddressesPlaced
<1>6. AddressesPlaced(A, w, lo2, D2, F)
  BY ONLY <1>2, <1>5, SameAddresses(D, D2, Thread), AddressesStay
<1>7. BucketsPlaced(N, nx, hd, bh, D2, F, C)
  BY ONLY <1>2, SameKept(D, D2, Thread), BucketsStay
<1>8. AllPlaced(w, nx, lo2, hd, bh, D2, U, G \ {b}, F, A, N, L2, C)
  BY ONLY <1>2, <1>3, <1>4, <1>6, <1>7 DEF AllPlaced
<1> QED
  BY ONLY <1>8 DEF Pool

(* b, if no list has it, is filled and kept. *)
BucketUsed(lo, lo2, nx, nx2, D, D2, F, F2, G, t, b) ==
  b \in Bucket \ G =>
    BucketFilled(lo, lo2, D, D2, F, F2, t, b) /\ FullKept(nx, nx2, D, D2, F, F2, t, b)

LEMMA PoolFill ==
  ASSUME NEW w, NEW nx, NEW lo, NEW hd, NEW bh, NEW D, NEW U, NEW G, NEW F,
         Pool(w, nx, lo, hd, bh, D, U, G, F),
         NEW nx2, NEW lo2, NEW D2, NEW F2, NEW t, NEW b, EmptyUsed(lo, lo2, D, D2, t, b),
         BucketUsed(lo, lo2, nx, nx2, D, D2, F, F2, G, t, b)
  PROVE  /\ b \in Bucket \ G /\ lo[b] \in Link
         /\ Pool(w, nx2, lo2, hd, bh, D2, U, G \cup {b}, F2)
<1>1. PICK A, N, L, C : AllPlaced(w, nx, lo, hd, bh, D, U, G, F, A, N, L, C)
  BY DEF Pool
<1>2. /\ AddressesPlaced(A, w, lo, D, F) /\ U = Apart(Address, A)
      /\ BucketsPlaced(N, nx, hd, bh, D, F, C)
      /\ EmptiesPlaced(L, lo, D, C) /\ G = Apart(Bucket, L)
      /\ F \subseteq G
  BY <1>1 DEF AllPlaced
<1>3. b \in Bucket \ (C \cup Apart(Bucket, L)) /\ lo[b] \in Link
  BY ONLY <1>2, EmptyUsed(lo, lo2, D, D2, t, b), UseEmpty
<1>4. PICK L2 : EmptiesPlaced(L2, lo2, D2, C) /\ Apart(Bucket, L2) = Apart(Bucket, L) \cup {b}
  BY ONLY <1>2, EmptyUsed(lo, lo2, D, D2, t, b), UseEmpty
<1>5. b \in Bucket \ G /\ b \in Bucket \ F /\ b \in Bucket \ (F \cup C)
  BY <1>2, <1>3
<1>6. BucketFilled(lo, lo2, D, D2, F, F2, t, b) /\ FullKept(nx, nx2, D, D2, F, F2, t, b)
  BY <1>5 DEF BucketUsed
<1>7. PICK A2 : AddressesPlaced(A2, w, lo2, D2, F2) /\ Apart(Address, A2) = Apart(Address, A)
  BY ONLY <1>2, <1>5, <1>6, FillBucket
<1>8. PICK N2 : BucketsPlaced(N2, nx2, hd, bh, D2, F2, C)
  BY ONLY <1>2, <1>5, <1>6, KeepFull
<1>9. F2 \subseteq G \cup {b}
  BY ONLY <1>2, <1>6 DEF BucketFilled
<1>10. AllPlaced(w, nx2, lo2, hd, bh, D2, U, G \cup {b}, F2, A2, N2, L2, C)
  BY ONLY <1>2, <1>4, <1>7, <1>8, <1>9 DEF AllPlaced
<1> QED
  BY ONLY <1>3, <1>5, <1>10 DEF Pool

LEMMA PoolReturn ==
  ASSUME NEW w, NEW nx, NEW lo, NEW hd, NEW bh, NEW D, NEW U, NEW G, NEW F,
         Pool(w, nx, lo, hd, bh, D, U, G, F),
         NEW nx2, NEW hd2, NEW D2, NEW t,
         D[t].last_abucket \in Bucket => FullReturned(nx, nx2, hd, hd2, D, D2, t),
         t \in Thread, D[t].abuckets_count > 0,
         SameAddresses(D, D2, Thread), SameEmpties(D, D2, Thread)
  PROVE  Pool(w, nx2, lo, hd2, bh, D2, U, G, F)
<1>1. PICK A, N, L, C : AllPlaced(w, nx, lo, hd, bh, D, U, G, F, A, N, L, C)
  BY DEF Pool
<1>2. /\ AddressesPlaced(A, w, lo, D, F) /\ U = Apart(Address, A)
      /\ BucketsPlaced(N, nx, hd, bh, D, F, C)
      /\ EmptiesPlaced(L, lo, D, C) /\ G = Apart(Bucket, L)
      /\ F \subseteq G
  BY <1>1 DEF AllPlaced
<1>3. D[t].last_abucket \in Bucket
  <2>1. /\ Lists(Bucket, nx, FullLists, N) /\ Kept(t) \in FullLists
        /\ N.len[Kept(t)] > 0 /\ N.last[Kept(t)] = D[t].last_abucket
    BY <1>2, FullNames DEF BucketsPlaced
  <2> QED BY ONLY <2>1, ListsHave
<1>4. PICK N2 : BucketsPlaced(N2, nx2, hd2, bh, D2, F, C)
  BY ONLY <1>2, <1>3, D[t].last_abucket \in Bucket => FullReturned(nx, nx2, hd, hd2, D, D2, t), ReturnFull
<1>5. AddressesPlaced(A, w, lo, D2, F)
  BY ONLY <1>2, SameAddresses(D, D2, Thread), AddressesStay
<1>6. EmptiesPlaced(L, lo, D2, C)
  BY ONLY <1>2, SameEmpties(D, D2, Thread), EmptiesStay
<1>7. AllPlaced(w, nx2, lo, hd2, bh, D2, U, G, F, A, N2, L, C)
  BY ONLY <1>2, <1>4, <1>5, <1>6 DEF AllPlaced
<1> QED
  BY ONLY <1>7 DEF Pool

LEMMA PoolGiveChain ==
  ASSUME NEW w, NEW nx, NEW lo, NEW hd, NEW bh, NEW D, NEW U, NEW G, NEW F,
         Pool(w, nx, lo, hd, bh, D, U, G, F),
         NEW nx2, NEW D2, NEW t, NEW b, ChainMade(D, D2, t, b),
         b \in Bucket => ChainPut(nx, nx2, bh, b),
         SameAddresses(D, D2, Thread), SameKept(D, D2, Thread)
  PROVE  /\ b \in Bucket
         /\ Pool(w, nx2, lo, hd, b, D2, U, G, F)
<1>1. PICK A, N, L, C : AllPlaced(w, nx, lo, hd, bh, D, U, G, F, A, N, L, C)
  BY DEF Pool
<1>2. /\ AddressesPlaced(A, w, lo, D, F) /\ U = Apart(Address, A)
      /\ BucketsPlaced(N, nx, hd, bh, D, F, C)
      /\ EmptiesPlaced(L, lo, D, C) /\ G = Apart(Bucket, L)
      /\ F \subseteq G
  BY <1>1 DEF AllPlaced
<1>3. b \in Bucket \ (C \cup Apart(Bucket, L))
  BY ONLY <1>2, ChainMade(D, D2, t, b), MakeChain
<1>4. PICK L2 : EmptiesPlaced(L2, lo, D2, C \cup {b}) /\ Apart(Bucket, L2) = Apart(Bucket, L)
  BY ONLY <1>2, ChainMade(D, D2, t, b), MakeChain
<1>5. b \in Bucket \ (F \cup C) /\ ChainPut(nx, nx2, bh, b)
  BY <1>2, <1>3
<1>6. PICK N2 : BucketsPlaced(N2, nx2, hd, b, D, F, C \cup {b})
  BY ONLY <1>2, <1>5, PutChain
<1>7. BucketsPlaced(N2, nx2, hd, b, D2, F, C \cup {b})
  BY ONLY <1>6, SameKept(D, D2, Thread), BucketsStay
<1>8. AddressesPlaced(A, w, lo, D2, F)
  BY ONLY <1>2, SameAddresses(D, D2, Thread), AddressesStay
<1>9. AllPlaced(w, nx2, lo, hd, b, D2, U, G, F, A, N2, L2, C \cup {b})
  BY ONLY <1>2, <1>4, <1>7, <1>8 DEF AllPlaced
<1> QED
  BY ONLY <1>3, <1>9 DEF Pool

LEMMA PoolFetchChain ==
  ASSUME NEW w, NEW nx, NEW lo, NEW hd, NEW bh, NEW D, NEW U, NEW G, NEW F,
         Pool(w, nx, lo, hd, bh, D, U, G, F), bh # Null, NEW bh2, bh2 = nx[bh],
         NEW D2, NEW t, ChainFetched(D, D2, t, bh),
         SameAddresses(D, D2, Thread), SameKept(D, D2, Thread)
  PROVE  /\ bh \in Bucket
         /\ Pool(w, nx, lo, hd, bh2, D2, U, G, F)
<1>1. PICK A, N, L, C : AllPlaced(w, nx, lo, hd, bh, D, U, G, F, A, N, L, C)
  BY DEF Pool
<1>2. /\ AddressesPlaced(A, w, lo, D, F) /\ U = Apart(Address, A)
      /\ BucketsPlaced(N, nx, hd, bh, D, F, C)
      /\ EmptiesPlaced(L, lo, D, C) /\ G = Apart(Bucket, L)
      /\ F \subseteq G
  BY <1>1 DEF AllPlaced
<1>3. bh \in C /\ \E N2 : BucketsPlaced(N2, nx, hd, bh2, D, F, C \ {bh})
  <2>1. BucketsPlaced(N, nx, hd, bh, D, F, C)
    BY <1>2
  <2> QED BY ONLY <2>1, bh # Null, bh2 = nx[bh], TakeChain
<1>4. PICK N2 : BucketsPlaced(N2, nx, hd, bh2, D, F, C \ {bh})
  BY ONLY <1>3
<1>5. PICK L2 : EmptiesPlaced(L2, lo, D2, C \ {bh}) /\ Apart(Bucket, L2) = Apart(Bucket, L)
  BY ONLY <1>2, <1>3, ChainFetched(D, D2, t, bh), FetchChain
<1>6. BucketsPlaced(N2, nx, hd, bh2, D2, F, C \ {bh})
  BY ONLY <1>4, SameKept(D, D2, Thread), BucketsStay
<1>7. AddressesPlaced(A, w, lo, D2, F)
  BY ONLY <1>2, SameAddresses(D, D2, Thread), AddressesStay
<1>8. AllPlaced(w, nx, lo, hd, bh2, D2, U, G, F, A, N2, L2, C \ {bh})
  BY ONLY <1>2, <1>5, <1>6, <1>7 DEF AllPlaced
<1>9. bh \in Bucket
  BY ONLY <1>2, <1>3 DEF EmptiesPlaced
<1> QED
  BY ONLY <1>8, <1>9 DEF Pool

-----------------------------------------------------------------------------
(* What an operation does to the data of its thread: e is d afterwards.    *)
Data ==
  [aas_count : Nat, aas : Word,
   abuckets_count : Nat, abuckets : Link, last_abucket : Link,
   free_abuckets_count : Nat, free_abuckets : Link]

Within(d) ==
  /\ d.aas_count <= nr_local_aas
  /\ d.abuckets_count <= nr_local_abuckets - 1
  /\ d.free_abuckets_count <= nr_local_free_abuckets

SameList1(d, e) == e.aas = d.aas /\ e.aas_count = d.aas_count
SameFull1(d, e) ==
  e.abuckets = d.abuckets /\ e.abuckets_count = d.abuckets_count /\ e.last_abucket = d.last_abucket
SameEmpty1(d, e) ==
  e.free_abuckets = d.free_abuckets /\ e.free_abuckets_count = d.free_abuckets_count

Took(d, e, x) == e = [d EXCEPT !.aas = x, !.aas_count = @ - 1]
Gave(d, e, x) == e = [d EXCEPT !.aas = x, !.aas_count = @ + 1]
Installed(d, e, x) == e = [d EXCEPT !.aas = x, !.aas_count = nr_local_aas]
Unkept(d, e, x) == e = [d EXCEPT !.abuckets = x, !.abuckets_count = @ - 1]
BucketKept(d, e, b) == e = [d EXCEPT !.free_abuckets = b, !.free_abuckets_count = @ + 1]
GivenBack(d, e) == e = [d EXCEPT !.free_abuckets = Null, !.free_abuckets_count = 0]
Filled(d, e, x) ==
  /\ e.free_abuckets = x /\ e.free_abuckets_count = d.free_abuckets_count - 1
  /\ e.aas = d.aas /\ e.aas_count = 0
  /\ e.abuckets = d.free_abuckets /\ e.abuckets_count = d.abuckets_count + 1
  /\ e.last_abucket = IF d.abuckets_count = 0 THEN d.free_abuckets ELSE d.last_abucket
Returned(d, e) == e = [d EXCEPT !.abuckets = Null, !.last_abucket = Null, !.abuckets_count = 0]
Fetched(d, e, b) == e = [d EXCEPT !.free_abuckets = b, !.free_abuckets_count = nr_local_free_abuckets]

LEMMA ThreadDataWithin ==
  ASSUME NEW d
  PROVE  d \in ThreadData <=> d \in Data /\ Within(d)
<1>1. /\ nr_local_aas \in Nat /\ nr_local_abuckets - 1 \in Nat /\ nr_local_free_abuckets \in Nat
  BY LimitsAssumption
<1> QED
  BY <1>1 DEF ThreadData, Data, Within

Fields(c, x, n, h, l, m, f) ==
  [aas_count |-> c, aas |-> x, abuckets_count |-> n, abuckets |-> h, last_abucket |-> l,
   free_abuckets_count |-> m, free_abuckets |-> f]

LEMMA FieldsTyped ==
  ASSUME NEW d \in Data
  PROVE  /\ d.aas_count \in Nat /\ d.aas \in Word
         /\ d.abuckets_count \in Nat /\ d.abuckets \in Link /\ d.last_abucket \in Link
         /\ d.free_abuckets_count \in Nat /\ d.free_abuckets \in Link
BY DEF Data

LEMMA DataTook ==
  ASSUME NEW d \in Data, NEW x \in Word, NEW e, Took(d, e, x), d.aas_count > 0
  PROVE  /\ e \in Data /\ e.aas = x /\ e.aas_count = d.aas_count - 1
         /\ SameFull1(d, e) /\ SameEmpty1(d, e)
<1>1. e = Fields(d.aas_count - 1, x, d.abuckets_count, d.abuckets, d.last_abucket, d.free_abuckets_count, d.free_abuckets)
  BY DEF Data, Took, Fields
<1>2. /\ d.aas_count \in Nat /\ d.aas \in Word
      /\ d.abuckets_count \in Nat /\ d.abuckets \in Link /\ d.last_abucket \in Link
      /\ d.free_abuckets_count \in Nat /\ d.free_abuckets \in Link
  BY FieldsTyped
<1>3. d.aas_count - 1 \in Nat
  BY <1>2
<1> QED
  BY ONLY <1>1, <1>2, <1>3, x \in Word DEF Data, Fields, SameFull1, SameEmpty1

LEMMA DataGave ==
  ASSUME NEW d \in Data, NEW x \in Word, NEW e, Gave(d, e, x)
  PROVE  /\ e \in Data /\ e.aas = x /\ e.aas_count = d.aas_count + 1
         /\ SameFull1(d, e) /\ SameEmpty1(d, e)
<1>1. e = Fields(d.aas_count + 1, x, d.abuckets_count, d.abuckets, d.last_abucket, d.free_abuckets_count, d.free_abuckets)
  BY DEF Data, Gave, Fields
<1>2. /\ d.aas_count \in Nat /\ d.aas \in Word
      /\ d.abuckets_count \in Nat /\ d.abuckets \in Link /\ d.last_abucket \in Link
      /\ d.free_abuckets_count \in Nat /\ d.free_abuckets \in Link
  BY FieldsTyped
<1>3. d.aas_count + 1 \in Nat
  BY <1>2
<1> QED
  BY ONLY <1>1, <1>2, <1>3, x \in Word DEF Data, Fields, SameFull1, SameEmpty1

LEMMA DataInstalled ==
  ASSUME NEW d \in Data, NEW x \in Word, NEW e, Installed(d, e, x)
  PROVE  /\ e \in Data /\ e.aas = x /\ e.aas_count = nr_local_aas
         /\ SameFull1(d, e) /\ SameEmpty1(d, e)
<1>1. nr_local_aas \in Nat
  BY LimitsAssumption
<1> QED
  BY <1>1 DEF Data, Installed, SameFull1, SameEmpty1

LEMMA DataUnkept ==
  ASSUME NEW d \in Data, NEW x \in Link, NEW e, Unkept(d, e, x), d.abuckets_count > 0
  PROVE  /\ e \in Data /\ e.abuckets = x /\ e.abuckets_count = d.abuckets_count - 1
         /\ e.last_abucket = d.last_abucket
         /\ SameList1(d, e) /\ SameEmpty1(d, e)
<1>1. e = Fields(d.aas_count, d.aas, d.abuckets_count - 1, x, d.last_abucket, d.free_abuckets_count, d.free_abuckets)
  BY DEF Data, Unkept, Fields
<1>2. /\ d.aas_count \in Nat /\ d.aas \in Word
      /\ d.abuckets_count \in Nat /\ d.abuckets \in Link /\ d.last_abucket \in Link
      /\ d.free_abuckets_count \in Nat /\ d.free_abuckets \in Link
  BY FieldsTyped
<1>3. d.abuckets_count - 1 \in Nat
  BY <1>2
<1> QED
  BY ONLY <1>1, <1>2, <1>3, x \in Link DEF Data, Fields, SameList1, SameEmpty1

LEMMA DataBucketKept ==
  ASSUME NEW d \in Data, NEW b \in Bucket, NEW e, BucketKept(d, e, b)
  PROVE  /\ e \in Data /\ e.free_abuckets = b /\ e.free_abuckets_count = d.free_abuckets_count + 1
         /\ SameList1(d, e) /\ SameFull1(d, e)
<1>1. e = Fields(d.aas_count, d.aas, d.abuckets_count, d.abuckets, d.last_abucket, d.free_abuckets_count + 1, b)
  BY DEF Data, BucketKept, Fields
<1>2. /\ d.aas_count \in Nat /\ d.aas \in Word
      /\ d.abuckets_count \in Nat /\ d.abuckets \in Link /\ d.last_abucket \in Link
      /\ d.free_abuckets_count \in Nat /\ d.free_abuckets \in Link
  BY FieldsTyped
<1>3. d.free_abuckets_count + 1 \in Nat /\ b \in Link
  BY <1>2 DEF Link
<1> QED
  BY ONLY <1>1, <1>2, <1>3 DEF Data, Fields, SameList1, SameFull1

LEMMA DataGivenBack ==
  ASSUME NEW d \in Data, NEW e, GivenBack(d, e)
  PROVE  /\ e \in Data /\ e.free_abuckets = Null /\ e.free_abuckets_count = 0
         /\ SameList1(d, e) /\ SameFull1(d, e)
BY DEF Data, GivenBack, SameList1, SameFull1, Link

LEMMA DataFilled ==
  ASSUME NEW d \in Data, NEW e, e = bucket_filled(d)
  PROVE  /\ Filled(d, e, local[d.free_abuckets])
         /\ local[d.free_abuckets] \in Link /\ d.free_abuckets_count > 0 => e \in Data
<1> DEFINE l == IF d.abuckets_count = 0 THEN d.free_abuckets ELSE d.last_abucket
           x == local[d.free_abuckets]
<1>1. e = Fields(0, d.aas, d.abuckets_count + 1, d.free_abuckets, l, d.free_abuckets_count - 1, x)
  BY DEF Data, bucket_filled, bucket_moved, Fields
<1>2. /\ d.aas_count \in Nat /\ d.aas \in Word
      /\ d.abuckets_count \in Nat /\ d.abuckets \in Link /\ d.last_abucket \in Link
      /\ d.free_abuckets_count \in Nat /\ d.free_abuckets \in Link
  BY FieldsTyped
<1>3. 0 \in Nat /\ d.abuckets_count + 1 \in Nat /\ l \in Link /\ (d.free_abuckets_count > 0 => d.free_abuckets_count - 1 \in Nat)
  BY <1>2
<1>4. Filled(d, e, x)
  BY ONLY <1>1 DEF Filled, Fields
<1> HIDE DEF x, l
<1>5. x \in Link /\ d.free_abuckets_count > 0 => e \in Data
  BY ONLY <1>1, <1>2, <1>3 DEF Data, Fields
<1> QED
  BY ONLY <1>4, <1>5 DEF x

LEMMA DataReturned ==
  ASSUME NEW d \in Data, NEW e, Returned(d, e)
  PROVE  /\ e \in Data /\ e.abuckets_count = 0
         /\ SameList1(d, e) /\ SameEmpty1(d, e)
BY DEF Data, Returned, SameList1, SameEmpty1, Link

LEMMA DataFetched ==
  ASSUME NEW d \in Data, NEW b \in Bucket, NEW e, Fetched(d, e, b)
  PROVE  /\ e \in Data /\ e.free_abuckets = b /\ e.free_abuckets_count = nr_local_free_abuckets
         /\ SameList1(d, e) /\ SameFull1(d, e)
<1>1. nr_local_free_abuckets \in Nat
  BY LimitsAssumption
<1> QED
  BY <1>1 DEF Data, Fetched, SameList1, SameFull1, Link

(* The others have what they had. *)
OthersSame(D, D2, t) == \A u \in Thread \ {t} : D2[u] = D[u]

LEMMA AllSame ==
  ASSUME NEW D, NEW D2, NEW t, OthersSame(D, D2, t)
  PROVE  /\ SameAddresses(D, D2, Thread \ {t})
         /\ SameKept(D, D2, Thread \ {t})
         /\ SameEmpties(D, D2, Thread \ {t})
         /\ SameList1(D[t], D2[t]) => SameAddresses(D, D2, Thread)
         /\ SameFull1(D[t], D2[t]) => SameKept(D, D2, Thread)
         /\ SameEmpty1(D[t], D2[t]) => SameEmpties(D, D2, Thread)
BY DEF OthersSame, SameAddresses, SameKept, SameEmpties, SameList1, SameFull1, SameEmpty1

(* D is data but for the thread t, which has d. *)
With(D, t, d) == DOMAIN D = Thread /\ t \in Thread /\ D = [data EXCEPT ![t] = d]

LEMMA WithData ==
  ASSUME DOMAIN data = Thread, NEW t \in Thread, NEW d
  PROVE  LET D == [data EXCEPT ![t] = d] IN DOMAIN D = Thread /\ D[t] = d /\ OthersSame(data, D, t)
BY DEF OthersSame

LEMMA OthersSameTwice ==
  ASSUME NEW D, NEW D1, NEW D2, NEW t, OthersSame(D, D1, t), OthersSame(D, D2, t)
  PROVE  OthersSame(D1, D2, t)
BY DEF OthersSame

-----------------------------------------------------------------------------
(* The steps of the operations, one by one. *)
Pools(w, nx, lo, hd, bh, D, U, G, F, t) ==
  Pool(w, nx, lo, hd, bh, D, U, G, F) /\ t \in Thread /\ D[t] \in Data

(* T takes a, the first of its list. *)
Taking(w, w2, D, D2, t, a) ==
  /\ w \in [Address -> Word] /\ D[t].aas_count > 0
  /\ a = D[t].aas /\ w2 = [w EXCEPT ![a] = Block]
  /\ OthersSame(D, D2, t) /\ Took(D[t], D2[t], w[a])

LEMMA StepTake ==
  ASSUME NEW w, NEW nx, NEW lo, NEW hd, NEW bh, NEW D, NEW U, NEW G, NEW F, NEW t,
         Pools(w, nx, lo, hd, bh, D, U, G, F, t),
         NEW w2, NEW D2, NEW a, Taking(w, w2, D, D2, t, a)
  PROVE  /\ a \in Address \ U /\ w2 \in [Address -> Word]
         /\ D2[t] \in Data /\ D2[t].aas_count = D[t].aas_count - 1
         /\ SameFull1(D[t], D2[t]) /\ SameEmpty1(D[t], D2[t])
         /\ Pool(w2, nx, lo, hd, bh, D2, U \cup {a}, G, F)
<1>0. /\ w \in [Address -> Word] /\ D[t].aas_count > 0
      /\ a = D[t].aas /\ w2 = [w EXCEPT ![a] = Block]
      /\ OthersSame(D, D2, t) /\ Took(D[t], D2[t], w[a])
  BY DEF Taking
<1> USE <1>0
<1>1. Pool(w, nx, lo, hd, bh, D, U, G, F) /\ t \in Thread /\ D[t] \in Data
  BY DEF Pools
<1>2. a \in Address
  <2>1. PICK A, N, L, C : AllPlaced(w, nx, lo, hd, bh, D, U, G, F, A, N, L, C)
    BY <1>1 DEF Pool
  <2>2. Lists(Address, w, AddressLists, A) /\ Open(t) \in AddressLists /\ A.len[Open(t)] > 0 /\ A.first[Open(t)] = a
    BY <1>1, <2>1, AddressNames DEF AllPlaced, AddressesPlaced
  <2> QED BY ONLY <2>2, ListsHave
<1>3. w[a] \in Word /\ w2 \in [Address -> Word] /\ \A e \in Address \ {a} : w2[e] = w[e]
  BY <1>2 DEF Word
<1>4. /\ D2[t] \in Data /\ D2[t].aas = w[a] /\ D2[t].aas_count = D[t].aas_count - 1
      /\ SameFull1(D[t], D2[t]) /\ SameEmpty1(D[t], D2[t])
  BY ONLY <1>1, <1>3, Took(D[t], D2[t], w[a]), D[t].aas_count > 0, DataTook
<1>5. SameAddresses(D, D2, Thread \ {t}) /\ SameKept(D, D2, Thread) /\ SameEmpties(D, D2, Thread)
  BY ONLY <1>4, OthersSame(D, D2, t), AllSame
<1>6. AddressTaken(w, w2, D, D2, t, a)
  BY ONLY <1>1, <1>3, <1>4, <1>5, D[t].aas_count > 0, a = D[t].aas DEF AddressTaken
<1>7. a \in Address \ U /\ Pool(w2, nx, lo, hd, bh, D2, U \cup {a}, G, F)
  BY ONLY <1>1, <1>5, <1>6, PoolTake
<1> QED
  BY ONLY <1>3, <1>4, <1>7

(* T puts a, which is in no list, before its list. *)
PuttingIn(w, w2, D, D2, t, a, U) ==
  /\ w \in [Address -> Word] /\ a \in U /\ a \in Address
  /\ w2 = IF D[t].aas_count > 0 THEN [w EXCEPT ![a] = D[t].aas] ELSE w
  /\ OthersSame(D, D2, t) /\ Gave(D[t], D2[t], a)

LEMMA StepPut ==
  ASSUME NEW w, NEW nx, NEW lo, NEW hd, NEW bh, NEW D, NEW U, NEW G, NEW F, NEW t,
         Pools(w, nx, lo, hd, bh, D, U, G, F, t),
         NEW w2, NEW D2, NEW a, PuttingIn(w, w2, D, D2, t, a, U)
  PROVE  /\ w2 \in [Address -> Word]
         /\ D2[t] \in Data /\ D2[t].aas_count = D[t].aas_count + 1
         /\ SameFull1(D[t], D2[t]) /\ SameEmpty1(D[t], D2[t])
         /\ Pool(w2, nx, lo, hd, bh, D2, U \ {a}, G, F)
<1>0. /\ w \in [Address -> Word] /\ a \in U /\ a \in Address
      /\ w2 = IF D[t].aas_count > 0 THEN [w EXCEPT ![a] = D[t].aas] ELSE w
      /\ OthersSame(D, D2, t) /\ Gave(D[t], D2[t], a)
  BY DEF PuttingIn
<1> USE <1>0
<1>1. Pool(w, nx, lo, hd, bh, D, U, G, F) /\ t \in Thread /\ D[t] \in Data
  BY DEF Pools
<1>2. /\ w2 \in [Address -> Word] /\ \A e \in Address \ {a} : w2[e] = w[e]
      /\ D[t].aas_count > 0 => w2[a] = D[t].aas
  <2>1. D[t].aas \in Word
    BY <1>1 DEF Data
  <2> QED BY <2>1
<1>3. a \in Word
  BY DEF Word
<1>4. /\ D2[t] \in Data /\ D2[t].aas = a /\ D2[t].aas_count = D[t].aas_count + 1
      /\ SameFull1(D[t], D2[t]) /\ SameEmpty1(D[t], D2[t])
  BY ONLY <1>1, <1>3, Gave(D[t], D2[t], a), DataGave
<1>5. SameAddresses(D, D2, Thread \ {t}) /\ SameKept(D, D2, Thread) /\ SameEmpties(D, D2, Thread)
  BY ONLY <1>4, OthersSame(D, D2, t), AllSame
<1>6. AddressPut(w, w2, D, D2, t, a)
  BY ONLY <1>1, <1>2, <1>4, <1>5, a \in Address DEF AddressPut
<1>7. Pool(w2, nx, lo, hd, bh, D2, U \ {a}, G, F)
  BY ONLY <1>1, <1>5, <1>6, a \in U, PoolPut
<1> QED
  BY ONLY <1>2, <1>4, <1>7

(* T keeps the empty bucket b. *)
Keeping(lo, lo2, D, D2, t, b, G, F) ==
  /\ lo \in [Bucket -> Address \cup Link] /\ b \in G \ F /\ b \in Bucket
  /\ lo2 = [lo EXCEPT ![b] = D[t].free_abuckets]
  /\ OthersSame(D, D2, t) /\ BucketKept(D[t], D2[t], b)

LEMMA StepKeep ==
  ASSUME NEW w, NEW nx, NEW lo, NEW hd, NEW bh, NEW D, NEW U, NEW G, NEW F, NEW t,
         Pools(w, nx, lo, hd, bh, D, U, G, F, t),
         NEW lo2, NEW D2, NEW b, Keeping(lo, lo2, D, D2, t, b, G, F)
  PROVE  /\ lo2 \in [Bucket -> Address \cup Link]
         /\ D2[t] \in Data /\ D2[t].free_abuckets_count = D[t].free_abuckets_count + 1
         /\ SameList1(D[t], D2[t]) /\ SameFull1(D[t], D2[t])
         /\ Pool(w, nx, lo2, hd, bh, D2, U, G \ {b}, F)
<1>0. /\ lo \in [Bucket -> Address \cup Link] /\ b \in G \ F /\ b \in Bucket
      /\ lo2 = [lo EXCEPT ![b] = D[t].free_abuckets]
      /\ OthersSame(D, D2, t) /\ BucketKept(D[t], D2[t], b)
  BY DEF Keeping
<1> USE <1>0
<1>1. Pool(w, nx, lo, hd, bh, D, U, G, F) /\ t \in Thread /\ D[t] \in Data
  BY DEF Pools
<1>2. D[t].free_abuckets \in Link
  BY <1>1 DEF Data
<1>3. /\ lo2 \in [Bucket -> Address \cup Link]
      /\ lo2[b] = D[t].free_abuckets /\ lo2[b] \in Link /\ \A c \in Bucket \ {b} : lo2[c] = lo[c]
  BY <1>2
<1>4. /\ D2[t] \in Data /\ D2[t].free_abuckets = b /\ D2[t].free_abuckets_count = D[t].free_abuckets_count + 1
      /\ SameList1(D[t], D2[t]) /\ SameFull1(D[t], D2[t])
  BY ONLY <1>1, BucketKept(D[t], D2[t], b), b \in Bucket, DataBucketKept
<1>5. SameEmpties(D, D2, Thread \ {t}) /\ SameAddresses(D, D2, Thread) /\ SameKept(D, D2, Thread)
  BY ONLY <1>4, OthersSame(D, D2, t), AllSame
<1>6. EmptyKept(lo, lo2, D, D2, t, b)
  BY ONLY <1>1, <1>3, <1>4, <1>5 DEF EmptyKept
<1>7. Pool(w, nx, lo2, hd, bh, D2, U, G \ {b}, F)
  BY ONLY <1>1, <1>5, <1>6, b \in G \ F, PoolKeepEmpty
<1> QED
  BY ONLY <1>3, <1>4, <1>7

(* T gives its empty buckets back, the chain of b. *)
Giving(nx, nx2, bh, D, D2, t, b) ==
  /\ nx \in [Bucket -> Link] /\ bh \in Link
  /\ D[t].free_abuckets_count = nr_local_free_abuckets /\ b = D[t].free_abuckets
  /\ nx2 = [nx EXCEPT ![b] = bh]
  /\ OthersSame(D, D2, t) /\ GivenBack(D[t], D2[t])

LEMMA StepGive ==
  ASSUME NEW w, NEW nx, NEW lo, NEW hd, NEW bh, NEW D, NEW U, NEW G, NEW F, NEW t,
         Pools(w, nx, lo, hd, bh, D, U, G, F, t),
         NEW nx2, NEW D2, NEW b, Giving(nx, nx2, bh, D, D2, t, b)
  PROVE  /\ b \in Bucket /\ nx2 \in [Bucket -> Link]
         /\ D2[t] \in Data /\ D2[t].free_abuckets = Null /\ D2[t].free_abuckets_count = 0
         /\ SameList1(D[t], D2[t]) /\ SameFull1(D[t], D2[t])
         /\ Pool(w, nx2, lo, hd, b, D2, U, G, F)
<1>0. /\ nx \in [Bucket -> Link] /\ bh \in Link
      /\ D[t].free_abuckets_count = nr_local_free_abuckets /\ b = D[t].free_abuckets
      /\ nx2 = [nx EXCEPT ![b] = bh]
      /\ OthersSame(D, D2, t) /\ GivenBack(D[t], D2[t])
  BY DEF Giving
<1> USE <1>0
<1>1. Pool(w, nx, lo, hd, bh, D, U, G, F) /\ t \in Thread /\ D[t] \in Data
  BY DEF Pools
<1>2. nx2 \in [Bucket -> Link] /\ (b \in Bucket => ChainPut(nx, nx2, bh, b))
  BY DEF ChainPut
<1>3. /\ D2[t] \in Data /\ D2[t].free_abuckets = Null /\ D2[t].free_abuckets_count = 0
      /\ SameList1(D[t], D2[t]) /\ SameFull1(D[t], D2[t])
  BY ONLY <1>1, GivenBack(D[t], D2[t]), DataGivenBack
<1>4. SameEmpties(D, D2, Thread \ {t}) /\ SameAddresses(D, D2, Thread) /\ SameKept(D, D2, Thread)
  BY ONLY <1>3, OthersSame(D, D2, t), AllSame
<1>5. ChainMade(D, D2, t, b)
  BY ONLY <1>1, <1>3, <1>4, D[t].free_abuckets_count = nr_local_free_abuckets, b = D[t].free_abuckets DEF ChainMade
<1>6. b \in Bucket /\ Pool(w, nx2, lo, hd, b, D2, U, G, F)
  BY ONLY <1>1, <1>2, <1>4, <1>5, PoolGiveChain
<1> QED
  BY ONLY <1>2, <1>3, <1>6

(* T fills b, the first of its empty buckets, with its list. *)
Filling(nx, nx2, lo, lo2, D, D2, t, b) ==
  /\ nx \in [Bucket -> Link] /\ lo \in [Bucket -> Address \cup Link]
  /\ D[t].aas_count = nr_local_aas /\ D[t].free_abuckets_count > 0 /\ b = D[t].free_abuckets
  /\ nx2 = [nx EXCEPT ![b] = D[t].abuckets] /\ lo2 = [lo EXCEPT ![b] = D[t].aas]
  /\ OthersSame(D, D2, t) /\ Filled(D[t], D2[t], lo[b])

LEMMA StepFill ==
  ASSUME NEW w, NEW nx, NEW lo, NEW hd, NEW bh, NEW D, NEW U, NEW G, NEW F, NEW t,
         Pools(w, nx, lo, hd, bh, D, U, G, F, t),
         NEW nx2, NEW lo2, NEW D2, NEW b, Filling(nx, nx2, lo, lo2, D, D2, t, b)
  PROVE  /\ b \in Bucket \ G /\ lo[b] \in Link
         /\ nx2 \in [Bucket -> Link] /\ lo2 \in [Bucket -> Address \cup Link]
         /\ Pool(w, nx2, lo2, hd, bh, D2, U, G \cup {b}, F \cup {b})
<1>0. /\ nx \in [Bucket -> Link] /\ lo \in [Bucket -> Address \cup Link]
      /\ D[t].aas_count = nr_local_aas /\ D[t].free_abuckets_count > 0 /\ b = D[t].free_abuckets
      /\ nx2 = [nx EXCEPT ![b] = D[t].abuckets] /\ lo2 = [lo EXCEPT ![b] = D[t].aas]
      /\ OthersSame(D, D2, t) /\ Filled(D[t], D2[t], lo[b])
  BY DEF Filling
<1> USE <1>0
<1>1. Pool(w, nx, lo, hd, bh, D, U, G, F) /\ t \in Thread /\ D[t] \in Data
  BY DEF Pools
<1>2. \A c \in Bucket \ {b} : nx2[c] = nx[c] /\ lo2[c] = lo[c]
  OBVIOUS
<1>3. D[t].abuckets \in Link /\ nx2 \in [Bucket -> Link]
  <2>1. D[t].abuckets \in Link
    BY <1>1 DEF Data
  <2> QED BY <2>1
<1>4. b \in Bucket => nx2[b] = D[t].abuckets /\ lo2[b] = D[t].aas
  OBVIOUS
<1>5. /\ SameAddresses(D, D2, Thread \ {t}) /\ SameKept(D, D2, Thread \ {t})
      /\ SameEmpties(D, D2, Thread \ {t})
  BY ONLY OthersSame(D, D2, t), AllSame
<1>6. EmptyUsed(lo, lo2, D, D2, t, b)
  BY ONLY <1>1, <1>2, <1>5, Filled(D[t], D2[t], lo[b]), D[t].free_abuckets_count > 0, b = D[t].free_abuckets
     DEF EmptyUsed, Filled
<1>7. F \subseteq G /\ G \subseteq Bucket
  BY ONLY <1>1 DEF Pool, AllPlaced, Apart
<1>8. ASSUME b \in Bucket \ G
      PROVE  /\ BucketFilled(lo, lo2, D, D2, F, F \cup {b}, t, b)
             /\ FullKept(nx, nx2, D, D2, F, F \cup {b}, t, b)
  <2>1. nx2[b] = D[t].abuckets /\ lo2[b] = D[t].aas /\ \A c \in F : lo2[c] = lo[c]
    BY ONLY <1>2, <1>4, <1>7, <1>8
  <2>2. BucketFilled(lo, lo2, D, D2, F, F \cup {b}, t, b)
    BY ONLY <1>1, <1>5, <2>1, Filled(D[t], D2[t], lo[b]), D[t].aas_count = nr_local_aas DEF BucketFilled, Filled
  <2>3. FullKept(nx, nx2, D, D2, F, F \cup {b}, t, b)
    BY ONLY <1>1, <1>2, <1>5, <2>1, Filled(D[t], D2[t], lo[b]), b = D[t].free_abuckets DEF FullKept, Filled
  <2> QED BY ONLY <2>2, <2>3
<1>9. /\ b \in Bucket \ G /\ lo[b] \in Link
      /\ Pool(w, nx2, lo2, hd, bh, D2, U, G \cup {b}, F \cup {b})
  <2> DEFINE F2 == F \cup {b}
  <2>1. Pool(w, nx, lo, hd, bh, D, U, G, F)
    BY <1>1
  <2>2. BucketUsed(lo, lo2, nx, nx2, D, D2, F, F2, G, t, b)
    BY ONLY <1>8 DEF BucketUsed
  <2> HIDE DEF F2
  <2>3. /\ b \in Bucket \ G /\ lo[b] \in Link
        /\ Pool(w, nx2, lo2, hd, bh, D2, U, G \cup {b}, F2)
    BY ONLY <1>6, <2>1, <2>2, PoolFill
  <2> QED BY ONLY <2>3 DEF F2
<1>10. lo2 \in [Bucket -> Address \cup Link]
  <2>1. PICK A, N, L, C : AllPlaced(w, nx, lo, hd, bh, D, U, G, F, A, N, L, C)
    BY ONLY <1>1 DEF Pool
  <2>2. nr_local_aas \in Nat /\ nr_local_aas > 0
    BY LimitsAssumption
  <2>3. /\ Lists(Address, w, AddressLists, A) /\ Open(t) \in AddressLists
        /\ A.len[Open(t)] > 0 /\ A.first[Open(t)] = D[t].aas
    BY <1>1, <2>1, <2>2, AddressNames DEF AllPlaced, AddressesPlaced
  <2>4. D[t].aas \in Address
    BY ONLY <2>3, ListsHave
  <2> QED BY <2>4
<1> QED
  BY ONLY <1>3, <1>9, <1>10

(* T puts its full buckets on the stack. *)
Returning(nx, nx2, hd, hd2, D, D2, t) ==
  /\ nx \in [Bucket -> Link] /\ hd \in Link /\ D[t].abuckets_count > 0
  /\ nx2 = [nx EXCEPT ![D[t].last_abucket] = hd] /\ hd2 = D[t].abuckets
  /\ OthersSame(D, D2, t) /\ Returned(D[t], D2[t])

LEMMA StepReturn ==
  ASSUME NEW w, NEW nx, NEW lo, NEW hd, NEW bh, NEW D, NEW U, NEW G, NEW F, NEW t,
         Pools(w, nx, lo, hd, bh, D, U, G, F, t),
         NEW nx2, NEW hd2, NEW D2, Returning(nx, nx2, hd, hd2, D, D2, t)
  PROVE  /\ nx2 \in [Bucket -> Link] /\ hd2 \in Link
         /\ D2[t] \in Data /\ D2[t].abuckets_count = 0
         /\ SameList1(D[t], D2[t]) /\ SameEmpty1(D[t], D2[t])
         /\ Pool(w, nx2, lo, hd2, bh, D2, U, G, F)
<1>0. /\ nx \in [Bucket -> Link] /\ hd \in Link /\ D[t].abuckets_count > 0
      /\ nx2 = [nx EXCEPT ![D[t].last_abucket] = hd] /\ hd2 = D[t].abuckets
      /\ OthersSame(D, D2, t) /\ Returned(D[t], D2[t])
  BY DEF Returning
<1> USE <1>0
<1>1. Pool(w, nx, lo, hd, bh, D, U, G, F) /\ t \in Thread /\ D[t] \in Data
  BY DEF Pools
<1>2. /\ nx2 \in [Bucket -> Link] /\ \A c \in Bucket \ {D[t].last_abucket} : nx2[c] = nx[c]
      /\ D[t].last_abucket \in Bucket => nx2[D[t].last_abucket] = hd
  OBVIOUS
<1>3. /\ D2[t] \in Data /\ D2[t].abuckets_count = 0
      /\ SameList1(D[t], D2[t]) /\ SameEmpty1(D[t], D2[t])
  BY ONLY <1>1, Returned(D[t], D2[t]), DataReturned
<1>4. SameKept(D, D2, Thread \ {t}) /\ SameAddresses(D, D2, Thread) /\ SameEmpties(D, D2, Thread)
  BY ONLY <1>3, OthersSame(D, D2, t), AllSame
<1>5. D[t].last_abucket \in Bucket => FullReturned(nx, nx2, hd, hd2, D, D2, t)
  BY ONLY <1>1, <1>2, <1>3, <1>4, hd2 = D[t].abuckets, D[t].abuckets_count > 0 DEF FullReturned
<1>6. Pool(w, nx2, lo, hd2, bh, D2, U, G, F)
  BY ONLY <1>1, <1>4, <1>5, D[t].abuckets_count > 0, PoolReturn
<1>7. hd2 \in Link
  BY <1>1 DEF Data
<1> QED
  BY ONLY <1>2, <1>3, <1>6, <1>7

(* The first full bucket of t, b, becomes its list. *)
OpeningKept(nx, lo, D, D2, d, t, b) ==
  /\ nx \in [Bucket -> Link] /\ D[t].aas_count = 0 /\ D[t].abuckets_count > 0
  /\ b = D[t].abuckets
  /\ OthersSame(D, D2, t) /\ Unkept(D[t], d, nx[b]) /\ Installed(d, D2[t], lo[b])

LEMMA StepOpenKept ==
  ASSUME NEW w, NEW nx, NEW lo, NEW hd, NEW bh, NEW D, NEW U, NEW G, NEW F, NEW t,
         Pools(w, nx, lo, hd, bh, D, U, G, F, t),
         NEW D2, NEW d, NEW b, OpeningKept(nx, lo, D, D2, d, t, b)
  PROVE  /\ b \in F /\ b \in Bucket
         /\ D2[t] \in Data /\ D2[t].aas_count = nr_local_aas
         /\ D2[t].abuckets_count = D[t].abuckets_count - 1 /\ SameEmpty1(D[t], D2[t])
         /\ Pool(w, nx, lo, hd, bh, D2, U, G, F \ {b})
<1>0. /\ nx \in [Bucket -> Link] /\ D[t].aas_count = 0 /\ D[t].abuckets_count > 0
      /\ b = D[t].abuckets
      /\ OthersSame(D, D2, t) /\ Unkept(D[t], d, nx[b]) /\ Installed(d, D2[t], lo[b])
  BY DEF OpeningKept
<1> USE <1>0
<1>1. Pool(w, nx, lo, hd, bh, D, U, G, F) /\ t \in Thread /\ D[t] \in Data
  BY DEF Pools
<1>2. PICK A, N, L, C : AllPlaced(w, nx, lo, hd, bh, D, U, G, F, A, N, L, C)
  BY ONLY <1>1 DEF Pool
<1>3. b \in Bucket
  <2>1. /\ Lists(Bucket, nx, FullLists, N) /\ Kept(t) \in FullLists
        /\ N.len[Kept(t)] > 0 /\ N.first[Kept(t)] = b
    BY <1>1, <1>2, FullNames DEF AllPlaced, BucketsPlaced
  <2> QED BY ONLY <2>1, ListsHave
<1>4. b \in F
  <2>1. /\ Lists(Bucket, nx, FullLists, N) /\ Kept(t) \in FullLists
        /\ N.len[Kept(t)] > 0 /\ N.first[Kept(t)] = b
    BY <1>1, <1>2, FullNames DEF AllPlaced, BucketsPlaced
  <2>2. N.in[b] = Kept(t)
    BY ONLY <2>1, ListsHave
  <2> QED BY <1>1, <1>2, <1>3, <2>2 DEF AllPlaced, BucketsPlaced
<1>5. lo[b] \in Address
  <2>1. nr_local_aas \in Nat /\ nr_local_aas > 0
    BY LimitsAssumption
  <2>2. /\ Lists(Address, w, AddressLists, A) /\ Full(b) \in AddressLists
        /\ A.len[Full(b)] > 0 /\ A.first[Full(b)] = lo[b]
    BY <1>2, <1>3, <1>4, <2>1, AddressNames DEF AllPlaced, AddressesPlaced
  <2> QED BY ONLY <2>2, ListsHave
<1>6. nx[b] \in Link /\ lo[b] \in Word
  BY <1>3, <1>5 DEF Word
<1>7. /\ d \in Data /\ d.abuckets = nx[b] /\ d.abuckets_count = D[t].abuckets_count - 1
      /\ d.last_abucket = D[t].last_abucket /\ SameList1(D[t], d) /\ SameEmpty1(D[t], d)
  BY ONLY <1>1, <1>6, Unkept(D[t], d, nx[b]), D[t].abuckets_count > 0, DataUnkept
<1>8. /\ D2[t] \in Data /\ D2[t].aas = lo[b] /\ D2[t].aas_count = nr_local_aas
      /\ SameFull1(d, D2[t]) /\ SameEmpty1(d, D2[t])
  BY ONLY <1>6, <1>7, Installed(d, D2[t], lo[b]), DataInstalled
<1>9. /\ D2[t].abuckets = nx[b] /\ D2[t].abuckets_count = D[t].abuckets_count - 1
      /\ D2[t].last_abucket = D[t].last_abucket /\ SameEmpty1(D[t], D2[t])
  BY ONLY <1>7, <1>8 DEF SameFull1, SameEmpty1
<1>10. /\ SameAddresses(D, D2, Thread \ {t}) /\ SameKept(D, D2, Thread \ {t})
       /\ SameEmpties(D, D2, Thread)
  BY ONLY <1>9, OthersSame(D, D2, t), AllSame
<1>11. KeptTaken(nx, D, D2, F, F \ {b}, t, b)
  BY ONLY <1>1, <1>9, <1>10, D[t].abuckets_count > 0, b = D[t].abuckets DEF KeptTaken
<1>12. b \in F => BucketOpened(lo, lo, D, D2, F, F \ {b}, t, b)
  BY ONLY <1>1, <1>4, <1>8, <1>10, D[t].aas_count = 0 DEF BucketOpened
<1>13. Pool(w, nx, lo, hd, bh, D2, U, G, F \ {b})
  BY ONLY <1>1, <1>10, <1>11, <1>12, PoolOpenKept
<1> QED
  BY ONLY <1>3, <1>4, <1>8, <1>9, <1>13

(* The full bucket on top of the stack becomes the list of t. *)
OpeningTop(nx, lo, hd, hd2, D, D2, t) ==
  /\ nx \in [Bucket -> Link] /\ D[t].aas_count = 0 /\ hd # Null /\ hd2 = nx[hd]
  /\ OthersSame(D, D2, t) /\ Installed(D[t], D2[t], lo[hd])

LEMMA StepOpenTop ==
  ASSUME NEW w, NEW nx, NEW lo, NEW hd, NEW bh, NEW D, NEW U, NEW G, NEW F, NEW t,
         Pools(w, nx, lo, hd, bh, D, U, G, F, t),
         NEW hd2, NEW D2, OpeningTop(nx, lo, hd, hd2, D, D2, t)
  PROVE  /\ hd \in F /\ hd \in Bucket /\ hd2 \in Link
         /\ D2[t] \in Data /\ D2[t].aas_count = nr_local_aas
         /\ SameFull1(D[t], D2[t]) /\ SameEmpty1(D[t], D2[t])
         /\ Pool(w, nx, lo, hd2, bh, D2, U, G, F \ {hd})
<1>0. /\ nx \in [Bucket -> Link] /\ D[t].aas_count = 0 /\ hd # Null /\ hd2 = nx[hd]
      /\ OthersSame(D, D2, t) /\ Installed(D[t], D2[t], lo[hd])
  BY DEF OpeningTop
<1> USE <1>0
<1>1. Pool(w, nx, lo, hd, bh, D, U, G, F) /\ t \in Thread /\ D[t] \in Data
  BY DEF Pools
<1>2. PICK A, N, L, C : AllPlaced(w, nx, lo, hd, bh, D, U, G, F, A, N, L, C)
  BY ONLY <1>1 DEF Pool
<1>3. hd \in F
  <2>1. BucketsPlaced(N, nx, hd, bh, D, F, C)
    BY ONLY <1>2 DEF AllPlaced
  <2> QED BY ONLY <2>1, hd # Null, TakeTop
<1>4. hd \in Bucket
  BY ONLY <1>2, <1>3 DEF AllPlaced, AddressesPlaced
<1>5. lo[hd] \in Address
  <2>1. nr_local_aas \in Nat /\ nr_local_aas > 0
    BY LimitsAssumption
  <2>2. /\ Lists(Address, w, AddressLists, A) /\ Full(hd) \in AddressLists
        /\ A.len[Full(hd)] > 0 /\ A.first[Full(hd)] = lo[hd]
    BY <1>2, <1>3, <1>4, <2>1, AddressNames DEF AllPlaced, AddressesPlaced
  <2> QED BY ONLY <2>2, ListsHave
<1>6. hd2 \in Link /\ lo[hd] \in Word
  BY <1>4, <1>5 DEF Word
<1>7. /\ D2[t] \in Data /\ D2[t].aas = lo[hd] /\ D2[t].aas_count = nr_local_aas
      /\ SameFull1(D[t], D2[t]) /\ SameEmpty1(D[t], D2[t])
  BY ONLY <1>1, <1>6, Installed(D[t], D2[t], lo[hd]), DataInstalled
<1>8. /\ SameAddresses(D, D2, Thread \ {t}) /\ SameKept(D, D2, Thread)
      /\ SameEmpties(D, D2, Thread)
  BY ONLY <1>7, OthersSame(D, D2, t), AllSame
<1> DEFINE F2 == F \ {hd}
<1>9. hd \in F => BucketOpened(lo, lo, D, D2, F, F2, t, hd)
  BY ONLY <1>1, <1>3, <1>7, <1>8, D[t].aas_count = 0 DEF BucketOpened
<1>10. F2 = F \ {hd}
  OBVIOUS
<1> HIDE DEF F2
<1>11. Pool(w, nx, lo, hd2, bh, D2, U, G, F2)
  BY ONLY <1>1, <1>8, <1>9, <1>10, hd # Null, hd2 = nx[hd], PoolOpenTop
<1> QED
  BY ONLY <1>3, <1>4, <1>6, <1>7, <1>10, <1>11

(* T takes the chain on top of the stack. *)
Fetching(nx, bh, bh2, D, D2, t) ==
  /\ nx \in [Bucket -> Link] /\ bh \in Link /\ D[t].free_abuckets_count = 0
  /\ bh # Null /\ bh2 = nx[bh]
  /\ OthersSame(D, D2, t) /\ Fetched(D[t], D2[t], bh)

LEMMA StepFetch ==
  ASSUME NEW w, NEW nx, NEW lo, NEW hd, NEW bh, NEW D, NEW U, NEW G, NEW F, NEW t,
         Pools(w, nx, lo, hd, bh, D, U, G, F, t),
         NEW bh2, NEW D2, Fetching(nx, bh, bh2, D, D2, t)
  PROVE  /\ bh \in Bucket /\ bh2 \in Link
         /\ D2[t] \in Data /\ D2[t].free_abuckets_count = nr_local_free_abuckets
         /\ SameList1(D[t], D2[t]) /\ SameFull1(D[t], D2[t])
         /\ Pool(w, nx, lo, hd, bh2, D2, U, G, F)
<1>0. /\ nx \in [Bucket -> Link] /\ bh \in Link /\ D[t].free_abuckets_count = 0
      /\ bh # Null /\ bh2 = nx[bh]
      /\ OthersSame(D, D2, t) /\ Fetched(D[t], D2[t], bh)
  BY DEF Fetching
<1> USE <1>0
<1>1. Pool(w, nx, lo, hd, bh, D, U, G, F) /\ t \in Thread /\ D[t] \in Data
  BY DEF Pools
<1>2. bh \in Bucket /\ bh2 \in Link
  BY DEF Link
<1>3. /\ D2[t] \in Data /\ D2[t].free_abuckets = bh /\ D2[t].free_abuckets_count = nr_local_free_abuckets
      /\ SameList1(D[t], D2[t]) /\ SameFull1(D[t], D2[t])
  BY ONLY <1>1, <1>2, Fetched(D[t], D2[t], bh), DataFetched
<1>4. SameEmpties(D, D2, Thread \ {t}) /\ SameAddresses(D, D2, Thread) /\ SameKept(D, D2, Thread)
  BY ONLY <1>3, OthersSame(D, D2, t), AllSame
<1>5. ChainFetched(D, D2, t, bh)
  BY ONLY <1>1, <1>3, <1>4, D[t].free_abuckets_count = 0 DEF ChainFetched
<1>6. Pool(w, nx, lo, hd, bh2, D2, U, G, F)
  BY ONLY <1>1, <1>4, <1>5, bh # Null, bh2 = nx[bh], PoolFetchChain
<1> QED
  BY ONLY <1>2, <1>3, <1>6

LEMMA PoolSame ==
  ASSUME NEW w, NEW nx, NEW lo, NEW hd, NEW bh, NEW D, NEW U, NEW G, NEW F,
         Pool(w, nx, lo, hd, bh, D, U, G, F),
         NEW D2, SameAddresses(D, D2, Thread), SameKept(D, D2, Thread), SameEmpties(D, D2, Thread)
  PROVE  Pool(w, nx, lo, hd, bh, D2, U, G, F)
<1>1. PICK A, N, L, C : AllPlaced(w, nx, lo, hd, bh, D, U, G, F, A, N, L, C)
  BY DEF Pool
<1>2. /\ AddressesPlaced(A, w, lo, D, F) /\ U = Apart(Address, A)
      /\ BucketsPlaced(N, nx, hd, bh, D, F, C)
      /\ EmptiesPlaced(L, lo, D, C) /\ G = Apart(Bucket, L)
      /\ F \subseteq G
  BY <1>1 DEF AllPlaced
<1>3. \A b \in F : lo[b] = lo[b]
  OBVIOUS
<1>4. AddressesPlaced(A, w, lo, D2, F)
  BY ONLY <1>2, <1>3, SameAddresses(D, D2, Thread), AddressesStay
<1>5. BucketsPlaced(N, nx, hd, bh, D2, F, C)
  BY ONLY <1>2, SameKept(D, D2, Thread), BucketsStay
<1>6. EmptiesPlaced(L, lo, D2, C)
  BY ONLY <1>2, SameEmpties(D, D2, Thread), EmptiesStay
<1>7. AllPlaced(w, nx, lo, hd, bh, D2, U, G, F, A, N, L, C)
  BY ONLY <1>2, <1>4, <1>5, <1>6 DEF AllPlaced
<1> QED
  BY ONLY <1>7 DEF Pool

-----------------------------------------------------------------------------
(* What the threads have between two calls of nb_stack: the address that   *)
(* waits for a bucket, the bucket that waits until the others are away.    *)
Putting(a) == [kind |-> "put", id |-> a]
Getting(b) == [kind |-> "get", maa |-> b]
PutBy(p) == {a \in Address : \E t \in Thread : p[t] = Putting(a)}
GetBy(p) == {b \in Bucket : \E t \in Thread : p[t] = Getting(b)}

PendingApart(p) ==
  /\ p \in [Thread -> Pending]
  /\ \A t, u \in Thread : p[t] = p[u] /\ p[t] # idle => t = u

LEMMA PendingKinds ==
  /\ \A a, c : Putting(a) = Putting(c) => a = c
  /\ \A b, c : Getting(b) = Getting(c) => b = c
  /\ \A a, b : Putting(a) # Getting(b)
  /\ \A a : Putting(a) # idle /\ Getting(a) # idle
  /\ \A a : Putting(a).kind = "put" /\ Getting(a).kind = "get" /\ Putting(a).id = a /\ Getting(a).maa = a
  /\ idle.kind = "idle" /\ idle \in Pending
  /\ \A a \in Address : Putting(a) \in Pending
  /\ \A b \in Bucket : Getting(b) \in Pending
  /\ \A x \in Pending : \/ x = idle
                        \/ x.id \in Address /\ x = Putting(x.id)
                        \/ x.maa \in Bucket /\ x = Getting(x.maa)
BY DEF Putting, Getting, idle, Pending

(* t is done, or begins with a second call: p2 is what is pending then.    *)
Set(p, p2, t, x) == PendingApart(p) /\ t \in Thread /\ p2 = [p EXCEPT ![t] = x]

LEMMA ToIdle ==
  ASSUME NEW p, NEW t, NEW p2, Set(p, p2, t, idle)
  PROVE  /\ PendingApart(p2) /\ p2[t] = idle /\ \A u \in Thread \ {t} : p2[u] = p[u]
         /\ p[t] = idle => PutBy(p2) = PutBy(p) /\ GetBy(p2) = GetBy(p)
         /\ p[t].kind = "put" => /\ p[t].id \in PutBy(p) /\ PutBy(p2) = PutBy(p) \ {p[t].id}
                                 /\ GetBy(p2) = GetBy(p)
         /\ p[t].kind = "get" => /\ p[t].maa \in GetBy(p) /\ GetBy(p2) = GetBy(p) \ {p[t].maa}
                                 /\ PutBy(p2) = PutBy(p)
<1>0. PendingApart(p) /\ t \in Thread /\ p2 = [p EXCEPT ![t] = idle]
  BY DEF Set
<1> USE <1>0
<1>1. /\ p \in [Thread -> Pending] /\ p[t] \in Pending
      /\ \A u, v \in Thread : p[u] = p[v] /\ p[u] # idle => u = v
  BY DEF PendingApart
<1>2. p2[t] = idle /\ \A u \in Thread \ {t} : p2[u] = p[u]
  BY <1>1
<1>3. PendingApart(p2)
  <2>1. p2 \in [Thread -> Pending]
    BY <1>1, PendingKinds
  <2>2. \A u, v \in Thread : p2[u] = p2[v] /\ p2[u] # idle => u = v
    BY ONLY <1>1, <1>2
  <2> QED BY ONLY <2>1, <2>2 DEF PendingApart
<1>4. ASSUME p[t] = idle
      PROVE  PutBy(p2) = PutBy(p) /\ GetBy(p2) = GetBy(p)
  BY ONLY <1>2, <1>4, PendingKinds DEF PutBy, GetBy
<1>5. ASSUME p[t].kind = "put"
      PROVE  /\ p[t].id \in PutBy(p) /\ PutBy(p2) = PutBy(p) \ {p[t].id}
             /\ GetBy(p2) = GetBy(p)
  <2>1. p[t].id \in Address /\ p[t] = Putting(p[t].id)
    BY ONLY <1>1, <1>5, PendingKinds
  <2> DEFINE a == p[t].id
  <2> HIDE DEF a
  <2>2. a \in Address /\ p[t] = Putting(a)
    BY <2>1 DEF a
  <2>3. PutBy(p2) = PutBy(p) \ {a} /\ GetBy(p2) = GetBy(p) /\ a \in PutBy(p)
    BY ONLY <1>1, <1>2, <2>2, t \in Thread, PendingKinds DEF PutBy, GetBy
  <2> QED BY ONLY <2>3 DEF a
<1>6. ASSUME p[t].kind = "get"
      PROVE  /\ p[t].maa \in GetBy(p) /\ GetBy(p2) = GetBy(p) \ {p[t].maa}
             /\ PutBy(p2) = PutBy(p)
  <2>1. p[t].maa \in Bucket /\ p[t] = Getting(p[t].maa)
    BY ONLY <1>1, <1>6, PendingKinds
  <2> DEFINE b == p[t].maa
  <2> HIDE DEF b
  <2>2. b \in Bucket /\ p[t] = Getting(b)
    BY <2>1 DEF b
  <2>3. GetBy(p2) = GetBy(p) \ {b} /\ PutBy(p2) = PutBy(p) /\ b \in GetBy(p)
    BY ONLY <1>1, <1>2, <2>2, t \in Thread, PendingKinds DEF PutBy, GetBy
  <2> QED BY ONLY <2>3 DEF b
<1> QED
  BY ONLY <1>2, <1>3, <1>4, <1>5, <1>6

LEMMA FromIdle ==
  ASSUME NEW p, NEW t, NEW p2, NEW x, Set(p, p2, t, x), p[t] = idle
  PROVE  /\ p2[t] = x /\ \A u \in Thread \ {t} : p2[u] = p[u]
         /\ \A a \in Address \ PutBy(p) : x = Putting(a) =>
              PendingApart(p2) /\ PutBy(p2) = PutBy(p) \cup {a} /\ GetBy(p2) = GetBy(p)
         /\ \A b \in Bucket \ GetBy(p) : x = Getting(b) =>
              PendingApart(p2) /\ GetBy(p2) = GetBy(p) \cup {b} /\ PutBy(p2) = PutBy(p)
<1>0. PendingApart(p) /\ t \in Thread /\ p2 = [p EXCEPT ![t] = x]
  BY DEF Set
<1> USE <1>0
<1>1. /\ p \in [Thread -> Pending]
      /\ \A u, v \in Thread : p[u] = p[v] /\ p[u] # idle => u = v
  BY DEF PendingApart
<1>2. p2[t] = x /\ \A u \in Thread \ {t} : p2[u] = p[u]
  BY <1>1
<1>3. ASSUME NEW a \in Address \ PutBy(p), x = Putting(a)
      PROVE  PendingApart(p2) /\ PutBy(p2) = PutBy(p) \cup {a} /\ GetBy(p2) = GetBy(p)
  <2>1. p2 \in [Thread -> Pending]
    BY <1>1, <1>3, PendingKinds
  <2>2. \A u \in Thread : p[u] # Putting(a)
    BY <1>3 DEF PutBy
  <2>3. \A u, v \in Thread : p2[u] = p2[v] /\ p2[u] # idle => u = v
    BY ONLY <1>1, <1>2, <1>3, <2>2
  <2>4. PutBy(p2) = PutBy(p) \cup {a} /\ GetBy(p2) = GetBy(p)
    BY ONLY <1>2, <1>3, t \in Thread, p[t] = idle, PendingKinds DEF PutBy, GetBy
  <2> QED BY ONLY <2>1, <2>3, <2>4 DEF PendingApart
<1>4. ASSUME NEW b \in Bucket \ GetBy(p), x = Getting(b)
      PROVE  PendingApart(p2) /\ GetBy(p2) = GetBy(p) \cup {b} /\ PutBy(p2) = PutBy(p)
  <2>1. p2 \in [Thread -> Pending]
    BY <1>1, <1>4, PendingKinds
  <2>2. \A u \in Thread : p[u] # Getting(b)
    BY <1>4 DEF GetBy
  <2>3. \A u, v \in Thread : p2[u] = p2[v] /\ p2[u] # idle => u = v
    BY ONLY <1>1, <1>2, <1>4, <2>2
  <2>4. GetBy(p2) = GetBy(p) \cup {b} /\ PutBy(p2) = PutBy(p)
    BY ONLY <1>2, <1>4, t \in Thread, p[t] = idle, PendingKinds DEF PutBy, GetBy
  <2> QED BY ONLY <2>1, <2>3, <2>4 DEF PendingApart
<1> QED
  BY ONLY <1>2, <1>3, <1>4

(* Who is between two calls has a full list, and empty buckets unless the  *)
(* assertion failed; then he has none, and there is none.                  *)
Fits(D, p, bh, fail) ==
  /\ \A t \in Thread : p[t].kind = "put" =>
       D[t].aas_count = nr_local_aas /\ (D[t].free_abuckets_count > 0 \/ fail)
  /\ \A t \in Thread : p[t].kind = "get" =>
       D[t].aas_count = nr_local_aas /\ D[t].free_abuckets_count = nr_local_free_abuckets
  /\ fail => bh = Null /\ \E t \in Thread : p[t].kind = "put" /\ D[t].free_abuckets_count = 0

PoolAt(F) ==
  /\ Pool(aa_space, next, local, free_aa_head, free_aa_buckets_head, data,
          live \cup PutBy(pending), F \cup GetBy(pending), F)
  /\ F \cap GetBy(pending) = {}

Inv ==
  /\ TypeOK
  /\ PendingApart(pending)
  /\ live \cap PutBy(pending) = {}
  /\ Fits(data, pending, free_aa_buckets_head, failed)
  /\ \E F : PoolAt(F)

-----------------------------------------------------------------------------
(* The ends that operations share.  D is the data of the threads as the    *)
(* operation of t left it until there, and d that of t.                    *)
Links == next' \in [Bucket -> Link] /\ local' \in [Bucket -> Address \cup Link]
           /\ free_aa_head' \in Link /\ free_aa_buckets_head' \in Link

LEMMA TypeParts ==
  ASSUME Inv
  PROVE  /\ DOMAIN data = Thread
         /\ aa_space \in [Address -> Word]
         /\ next \in [Bucket -> Link] /\ local \in [Bucket -> Address \cup Link]
         /\ free_aa_head \in Link /\ free_aa_buckets_head \in Link
         /\ live \subseteq Address /\ pending \in [Thread -> Pending]
         /\ \A t \in Thread : data[t] \in ThreadData /\ data[t] \in Data /\ Within(data[t])
<1>1. TypeOK
  BY DEF Inv
<1>2. data \in [Thread -> ThreadData]
  BY <1>1 DEF TypeOK
<1>3. \A t \in Thread : data[t] \in ThreadData
  BY <1>2
<1> QED
  BY <1>1, <1>2, <1>3, ThreadDataWithin DEF TypeOK

LEMMA FitsStay ==
  ASSUME NEW D, NEW p, NEW bh, Fits(D, p, bh, FALSE), NEW t,
         NEW D2, OthersSame(D, D2, t), NEW p2, \A u \in Thread \ {t} : p2[u] = p[u],
         p2[t].kind = "idle" \/
           (D2[t].aas_count = nr_local_aas /\
              IF p2[t].kind = "put" THEN D2[t].free_abuckets_count > 0
                                    ELSE D2[t].free_abuckets_count = nr_local_free_abuckets),
         NEW bh2
  PROVE  Fits(D2, p2, bh2, FALSE)
BY DEF Fits, OthersSame

(* D, at the end of an operation of t, is data but for what t has. *)
LEMMA DataAt ==
  ASSUME DOMAIN data = Thread, NEW t \in Thread, NEW d, NEW D, D = [data EXCEPT ![t] = d]
  PROVE  DOMAIN D = Thread /\ D[t] = d /\ OthersSame(data, D, t)
BY DEF OthersSame

LEMMA DataTyped ==
  ASSUME Inv, NEW t \in Thread, NEW D, DOMAIN D = Thread, OthersSame(data, D, t),
         D[t] \in Data, Within(D[t]), NEW d, D = [data EXCEPT ![t] = d]
  PROVE  D \in [Thread -> ThreadData]
<1>1. \A u \in Thread : data[u] \in ThreadData
  BY TypeParts
<1>2. D[t] \in ThreadData
  BY ThreadDataWithin
<1>3. \A u \in Thread : D[u] \in ThreadData
  BY <1>1, <1>2 DEF OthersSame
<1>4. D = [u \in Thread |-> D[u]]
  <2>1. data \in [Thread -> ThreadData]
    BY DEF Inv, TypeOK
  <2> QED BY <2>1
<1> QED
  BY <1>3, <1>4

TakesAt(t, d, D, F, G, a) ==
  /\ t \in Thread /\ pending[t].kind \in {"idle", "get"} /\ failed = FALSE
  /\ d \in Data /\ d.aas_count > 0 /\ Within(d) /\ D = [data EXCEPT ![t] = d] /\ a = d.aas
  /\ G = F \cup GetBy(pending') /\ F \cap GetBy(pending') = {}
  /\ Pool(aa_space, next', local', free_aa_head', free_aa_buckets_head', D, live \cup PutBy(pending), G, F)
  /\ Links /\ take_address(t, d)

LEMMA TakeEnds ==
  ASSUME Inv, NEW t, NEW d, NEW D, NEW F, NEW G, NEW a, TakesAt(t, d, D, F, G, a)
  PROVE  Inv'
<1>0. /\ t \in Thread /\ pending[t].kind \in {"idle", "get"} /\ failed = FALSE
      /\ d \in Data /\ d.aas_count > 0 /\ Within(d) /\ D = [data EXCEPT ![t] = d] /\ a = d.aas
      /\ G = F \cup GetBy(pending') /\ F \cap GetBy(pending') = {}
      /\ Pool(aa_space, next', local', free_aa_head', free_aa_buckets_head', D, live \cup PutBy(pending), G, F)
      /\ Links /\ take_address(t, d)
  BY DEF TakesAt
<1> USE <1>0
<1>1. /\ DOMAIN data = Thread /\ aa_space \in [Address -> Word] /\ live \subseteq Address
      /\ PendingApart(pending) /\ live \cap PutBy(pending) = {}
      /\ Fits(data, pending, free_aa_buckets_head, FALSE) /\ pending[t] \in Pending
  BY TypeParts DEF Inv
<1> DEFINE e == [d EXCEPT !.aas = aa_space[d.aas], !.aas_count = @ - 1]
<1>2. /\ data' = [data EXCEPT ![t] = e] /\ aa_space' = [aa_space EXCEPT ![a] = Block]
      /\ live' = live \cup {a} /\ pending' = [pending EXCEPT ![t] = idle] /\ failed' = FALSE
      /\ Took(d, e, aa_space[a])
  BY DEF take_address, Took
<1> HIDE DEF e
<1>3. D[t] = d /\ OthersSame(data, D, t)
  BY ONLY <1>1, t \in Thread, D = [data EXCEPT ![t] = d], DataAt
<1>4. DOMAIN data' = Thread /\ data'[t] = e /\ OthersSame(data, data', t)
  BY ONLY <1>1, <1>2, t \in Thread, DataAt
<1>5. /\ a \in Address \ (live \cup PutBy(pending)) /\ aa_space' \in [Address -> Word]
      /\ e \in Data /\ e.aas_count = d.aas_count - 1 /\ SameFull1(d, e) /\ SameEmpty1(d, e)
      /\ Pool(aa_space', next', local', free_aa_head', free_aa_buckets_head', data',
              (live \cup PutBy(pending)) \cup {a}, G, F)
  <2> DEFINE U == live \cup PutBy(pending)
             w == aa_space
             aa2 == aa_space'
             nx2 == next'
             lo2 == local'
             hd2 == free_aa_head'
             bh2 == free_aa_buckets_head'
             D2 == data'
  <2>1. Pools(w, nx2, lo2, hd2, bh2, D, U, G, F, t)
    BY <1>3 DEF Pools
  <2>2. OthersSame(D, D2, t)
    BY ONLY <1>3, <1>4, OthersSameTwice
  <2>3. Taking(w, aa2, D, D2, t, a)
    BY <1>1, <1>2, <1>3, <1>4, <2>2 DEF Taking
  <2> HIDE DEF U, w, aa2, nx2, lo2, hd2, bh2, D2
  <2>4. /\ a \in Address \ U /\ aa2 \in [Address -> Word]
        /\ D2[t] \in Data /\ D2[t].aas_count = D[t].aas_count - 1
        /\ SameFull1(D[t], D2[t]) /\ SameEmpty1(D[t], D2[t])
        /\ Pool(aa2, nx2, lo2, hd2, bh2, D2, U \cup {a}, G, F)
    <3>1. Pool(aa2, nx2, lo2, hd2, bh2, D2, U \cup {a}, G, F)
      BY ONLY <2>1, <2>3, StepTake
    <3>2. /\ a \in Address \ U /\ aa2 \in [Address -> Word]
          /\ D2[t] \in Data /\ D2[t].aas_count = D[t].aas_count - 1
          /\ SameFull1(D[t], D2[t]) /\ SameEmpty1(D[t], D2[t])
      BY ONLY <2>1, <2>3, <3>1, StepTake
    <3> QED BY ONLY <3>1, <3>2
  <2> QED BY <1>3, <1>4, <2>4 DEF U, w, aa2, nx2, lo2, hd2, bh2, D2
<1>6. /\ PendingApart(pending') /\ pending'[t] = idle /\ \A u \in Thread \ {t} : pending'[u] = pending[u]
      /\ PutBy(pending') = PutBy(pending)
  <2>1. pending[t] = idle \/ pending[t].kind = "get"
    BY <1>1, PendingKinds
  <2> DEFINE p == pending
             p2 == pending'
  <2>2. Set(p, p2, t, idle)
    BY ONLY <1>1, <1>2, t \in Thread DEF Set
  <2> HIDE DEF p, p2
  <2>3. /\ PendingApart(p2) /\ p2[t] = idle /\ \A u \in Thread \ {t} : p2[u] = p[u]
        /\ p[t] = idle => PutBy(p2) = PutBy(p)
        /\ p[t].kind = "get" => PutBy(p2) = PutBy(p)
    BY ONLY <2>2, ToIdle
  <2> QED BY ONLY <2>1, <2>3 DEF p, p2
<1>7. (live \cup PutBy(pending)) \cup {a} = live' \cup PutBy(pending') /\ live' \cap PutBy(pending') = {}
  BY ONLY <1>1, <1>2, <1>5, <1>6
<1>8. Within(e)
  <2>1. nr_local_aas \in Nat
    BY LimitsAssumption
  <2>2. d.aas_count \in Nat
    BY ONLY d \in Data, FieldsTyped
  <2> QED BY ONLY <1>5, <2>1, <2>2, Within(d) DEF Within, SameFull1, SameEmpty1
<1>9. data' \in [Thread -> ThreadData]
  BY ONLY Inv, <1>2, <1>4, <1>5, <1>8, t \in Thread, DataTyped
<1>10. TypeOK'
  <2>1. live' \subseteq Address /\ pending' \in [Thread -> Pending] /\ failed' \in BOOLEAN
    BY <1>1, <1>2, <1>5, <1>6 DEF PendingApart
  <2> QED BY ONLY <1>5, <1>9, <2>1, Links DEF TypeOK, Links
<1>11. Fits(data', pending', free_aa_buckets_head', FALSE)
  <2>1. pending'[t].kind = "idle"
    BY <1>6, PendingKinds
  <2> QED BY ONLY <1>1, <1>4, <1>6, <2>1, FitsStay
<1>12. PoolAt(F)'
  BY ONLY <1>5, <1>7, G = F \cup GetBy(pending'), F \cap GetBy(pending') = {} DEF PoolAt
<1> QED
  BY ONLY <1>2, <1>6, <1>7, <1>10, <1>11, <1>12 DEF Inv

(* Where the address that t puts comes from. *)
Comes(t, id) ==
  \/ pending[t] = idle /\ id \in live /\ live' = live \ {id}
  \/ pending[t].kind = "put" /\ id = pending[t].id /\ live' = live

PutsAt(t, d, D, F, G, id) ==
  /\ t \in Thread /\ Comes(t, id) /\ failed = FALSE /\ failed' = FALSE
  /\ d \in Data /\ d.aas_count < nr_local_aas /\ Within(d) /\ D = [data EXCEPT ![t] = d]
  /\ G = F \cup GetBy(pending) /\ F \cap GetBy(pending) = {}
  /\ Pool(aa_space, next', local', free_aa_head', free_aa_buckets_head', D, live \cup PutBy(pending), G, F)
  /\ Links /\ put_address(t, d, id)

LEMMA PutEnds ==
  ASSUME Inv, NEW t, NEW d, NEW D, NEW F, NEW G, NEW id, PutsAt(t, d, D, F, G, id)
  PROVE  Inv'
<1>0. /\ t \in Thread /\ Comes(t, id) /\ failed = FALSE /\ failed' = FALSE
      /\ d \in Data /\ d.aas_count < nr_local_aas /\ Within(d) /\ D = [data EXCEPT ![t] = d]
      /\ G = F \cup GetBy(pending) /\ F \cap GetBy(pending) = {}
      /\ Pool(aa_space, next', local', free_aa_head', free_aa_buckets_head', D, live \cup PutBy(pending), G, F)
      /\ Links /\ put_address(t, d, id)
  BY DEF PutsAt
<1> USE <1>0
<1>1. /\ DOMAIN data = Thread /\ aa_space \in [Address -> Word] /\ live \subseteq Address
      /\ PendingApart(pending) /\ live \cap PutBy(pending) = {}
      /\ Fits(data, pending, free_aa_buckets_head, FALSE)
  BY TypeParts DEF Inv
<1> DEFINE e == [d EXCEPT !.aas = id, !.aas_count = @ + 1]
<1>2. /\ data' = [data EXCEPT ![t] = e]
      /\ aa_space' = IF d.aas_count > 0 THEN [aa_space EXCEPT ![id] = d.aas] ELSE aa_space
      /\ pending' = [pending EXCEPT ![t] = idle]
      /\ Gave(d, e, id)
  BY DEF put_address, is_linked, Gave
<1> HIDE DEF e
<1>3. D[t] = d /\ OthersSame(data, D, t)
  BY ONLY <1>1, t \in Thread, D = [data EXCEPT ![t] = d], DataAt
<1>4. DOMAIN data' = Thread /\ data'[t] = e /\ OthersSame(data, data', t)
  BY ONLY <1>1, <1>2, t \in Thread, DataAt
<1>5. /\ PendingApart(pending') /\ pending'[t] = idle /\ \A u \in Thread \ {t} : pending'[u] = pending[u]
      /\ pending[t] = idle => PutBy(pending') = PutBy(pending) /\ GetBy(pending') = GetBy(pending)
      /\ pending[t].kind = "put" => /\ pending[t].id \in PutBy(pending)
                                    /\ PutBy(pending') = PutBy(pending) \ {pending[t].id}
                                    /\ GetBy(pending') = GetBy(pending)
  <2> DEFINE p == pending
             p2 == pending'
  <2>1. Set(p, p2, t, idle)
    BY ONLY <1>1, <1>2, t \in Thread DEF Set
  <2> HIDE DEF p, p2
  <2>2. /\ PendingApart(p2) /\ p2[t] = idle /\ \A u \in Thread \ {t} : p2[u] = p[u]
        /\ p[t] = idle => PutBy(p2) = PutBy(p) /\ GetBy(p2) = GetBy(p)
        /\ p[t].kind = "put" => /\ p[t].id \in PutBy(p) /\ PutBy(p2) = PutBy(p) \ {p[t].id}
                                /\ GetBy(p2) = GetBy(p)
    BY ONLY <2>1, ToIdle
  <2> QED BY ONLY <2>2 DEF p, p2
<1>6. /\ id \in live \cup PutBy(pending) /\ id \in Address /\ GetBy(pending') = GetBy(pending)
      /\ (live \cup PutBy(pending)) \ {id} = live' \cup PutBy(pending')
      /\ live' \cap PutBy(pending') = {} /\ live' \subseteq Address
  <2>1. PutBy(pending) \subseteq Address
    BY DEF PutBy
  <2>2. CASE pending[t] = idle /\ id \in live /\ live' = live \ {id}
    BY ONLY <1>1, <1>5, <2>1, <2>2
  <2>3. CASE pending[t].kind = "put" /\ id = pending[t].id /\ live' = live
    BY ONLY <1>1, <1>5, <2>1, <2>3
  <2> QED BY <2>2, <2>3 DEF Comes
<1>7. /\ aa_space' \in [Address -> Word]
      /\ e \in Data /\ e.aas_count = d.aas_count + 1 /\ SameFull1(d, e) /\ SameEmpty1(d, e)
      /\ Pool(aa_space', next', local', free_aa_head', free_aa_buckets_head', data',
              (live \cup PutBy(pending)) \ {id}, G, F)
  <2> DEFINE U == live \cup PutBy(pending)
             w == aa_space
             aa2 == aa_space'
             nx2 == next'
             lo2 == local'
             hd2 == free_aa_head'
             bh2 == free_aa_buckets_head'
             D2 == data'
  <2>1. Pools(w, nx2, lo2, hd2, bh2, D, U, G, F, t)
    BY <1>3 DEF Pools
  <2>2. OthersSame(D, D2, t)
    BY ONLY <1>3, <1>4, OthersSameTwice
  <2>3. PuttingIn(w, aa2, D, D2, t, id, U)
    BY <1>1, <1>2, <1>3, <1>4, <1>6, <2>2 DEF PuttingIn
  <2> HIDE DEF U, w, aa2, nx2, lo2, hd2, bh2, D2
  <2>4. /\ aa2 \in [Address -> Word]
        /\ D2[t] \in Data /\ D2[t].aas_count = D[t].aas_count + 1
        /\ SameFull1(D[t], D2[t]) /\ SameEmpty1(D[t], D2[t])
        /\ Pool(aa2, nx2, lo2, hd2, bh2, D2, U \ {id}, G, F)
    BY ONLY <2>1, <2>3, StepPut
  <2> QED BY <1>3, <1>4, <2>4 DEF U, w, aa2, nx2, lo2, hd2, bh2, D2
<1>8. Within(e)
  <2>1. nr_local_aas \in Nat
    BY LimitsAssumption
  <2> QED
    BY ONLY <1>7, <2>1, Within(d), d \in Data, d.aas_count < nr_local_aas DEF Within, SameFull1, SameEmpty1, Data
<1>9. data' \in [Thread -> ThreadData]
  BY ONLY Inv, <1>2, <1>4, <1>7, <1>8, t \in Thread, DataTyped
<1>10. TypeOK'
  <2>1. pending' \in [Thread -> Pending] /\ failed' \in BOOLEAN
    BY <1>5 DEF PendingApart
  <2> QED BY ONLY <1>6, <1>7, <1>9, <2>1, Links DEF TypeOK, Links
<1>11. Fits(data', pending', free_aa_buckets_head', FALSE)
  <2>1. pending'[t].kind = "idle"
    BY <1>5, PendingKinds
  <2> QED BY ONLY <1>1, <1>4, <1>5, <2>1, FitsStay
<1>12. PoolAt(F)'
  BY ONLY <1>6, <1>7, G = F \cup GetBy(pending), F \cap GetBy(pending) = {} DEF PoolAt
<1> QED
  BY ONLY <1>5, <1>6, <1>10, <1>11, <1>12, failed' = FALSE DEF Inv

(* t fills the first of its empty buckets and then puts id. *)
FillsAt(t, id) ==
  /\ t \in Thread /\ Comes(t, id) /\ failed = FALSE /\ failed' = FALSE
  /\ data[t].aas_count = nr_local_aas /\ data[t].free_abuckets_count > 0
  /\ free_aa_buckets_head' = free_aa_buckets_head
  /\ fill_bucket(t, data[t], id)

LEMMA FillEnds ==
  ASSUME Inv, NEW t, NEW id, FillsAt(t, id)
  PROVE  Inv'
<1>0. /\ t \in Thread /\ Comes(t, id) /\ failed = FALSE /\ failed' = FALSE
      /\ data[t].aas_count = nr_local_aas /\ data[t].free_abuckets_count > 0
      /\ free_aa_buckets_head' = free_aa_buckets_head
      /\ fill_bucket(t, data[t], id)
  BY DEF FillsAt
<1>1. /\ DOMAIN data = Thread
      /\ next \in [Bucket -> Link] /\ local \in [Bucket -> Address \cup Link]
      /\ free_aa_head \in Link /\ free_aa_buckets_head \in Link
      /\ data[t] \in Data /\ Within(data[t])
  BY ONLY <1>0, Inv, TypeParts
<1>2. PICK F : PoolAt(F)
  BY DEF Inv
<1> DEFINE d == data[t]
           b == d.free_abuckets
           e == bucket_filled(d)
           D == data
           D1 == [data EXCEPT ![t] = e]
           w == aa_space
           nx == next
           nx1 == [next EXCEPT ![b] = d.abuckets]
           nx2 == next'
           lo == local
           lo2 == local'
           hd == free_aa_head
           hd2 == free_aa_head'
           bh == free_aa_buckets_head
           U == live \cup PutBy(pending)
           G == F \cup GetBy(pending)
           F2 == F \cup {b}
           G2 == G \cup {b}
<1>3. /\ lo2 = [lo EXCEPT ![b] = d.aas]
      /\ IF too_many_buckets(e)
         THEN /\ nx2 = [nx1 EXCEPT ![e.last_abucket] = hd] /\ hd2 = e.abuckets
              /\ put_address(t, buckets_returned(e), id)
         ELSE nx2 = nx1 /\ hd2 = hd /\ put_address(t, e, id)
  BY <1>0 DEF fill_bucket, aa_put
<1>4. Filled(d, e, lo[b]) /\ (lo[b] \in Link /\ d.free_abuckets_count > 0 => e \in Data)
  BY ONLY <1>1, DataFilled
<1>5. D1[t] = e /\ OthersSame(D, D1, t) /\ D1 = [data EXCEPT ![t] = e]
  BY ONLY <1>0, <1>1, DataAt
<1>6. Pools(w, nx, lo, hd, bh, D, U, G, F, t) /\ F \cap GetBy(pending) = {}
  BY ONLY <1>0, <1>1, <1>2 DEF Pools, PoolAt
<1>7. Filling(nx, nx1, lo, lo2, D, D1, t, b)
  BY ONLY <1>0, <1>1, <1>3, <1>4, <1>5 DEF Filling
<1>8. /\ nr_local_aas \in Nat /\ nr_local_aas > 0 /\ nr_local_abuckets \in Nat
      /\ nr_local_free_abuckets \in Nat
  BY LimitsAssumption
<1>9. bh \in Link /\ hd \in Link /\ free_aa_buckets_head' = bh /\ d = D[t] /\ Within(d) /\ d \in Data
      /\ d.free_abuckets_count > 0
  BY ONLY <1>0, <1>1
<1>10. F2 = F \cup {b} /\ G2 = G \cup {b} /\ G = F \cup GetBy(pending)
  OBVIOUS
<1>11. next' = nx2 /\ local' = lo2 /\ free_aa_head' = hd2 /\ aa_space = w /\ live \cup PutBy(pending) = U
  OBVIOUS
<1> HIDE DEF d, b, e, D, D1, w, nx, nx1, nx2, lo, lo2, hd, hd2, bh, U, G, F2, G2
<1>12. /\ b \in Bucket \ G /\ lo[b] \in Link
       /\ nx1 \in [Bucket -> Link] /\ lo2 \in [Bucket -> Address \cup Link]
       /\ Pool(w, nx1, lo2, hd, bh, D1, U, G2, F2)
  <2>1. Pool(w, nx1, lo2, hd, bh, D1, U, G \cup {b}, F \cup {b})
    BY ONLY <1>6, <1>7, StepFill
  <2>2. /\ b \in Bucket \ G /\ lo[b] \in Link
        /\ nx1 \in [Bucket -> Link] /\ lo2 \in [Bucket -> Address \cup Link]
    BY ONLY <1>6, <1>7, <2>1, StepFill
  <2> QED BY ONLY <1>10, <2>1, <2>2
<1>13. e \in Data
  BY ONLY <1>4, <1>9, <1>12
<1>14. G2 = F2 \cup GetBy(pending) /\ F2 \cap GetBy(pending) = {}
  BY ONLY <1>6, <1>10, <1>12
<1>15. CASE too_many_buckets(e)
  <2> DEFINE r == buckets_returned(e)
             D2 == [data EXCEPT ![t] = r]
  <2>1. Returned(e, r)
    BY DEF Returned, buckets_returned
  <2>2. D2[t] = r /\ OthersSame(data, D2, t) /\ D2 = [data EXCEPT ![t] = r]
    BY ONLY <1>0, <1>1, DataAt
  <2>3. put_address(t, r, id) /\ nx2 = [nx1 EXCEPT ![e.last_abucket] = hd] /\ hd2 = e.abuckets
    BY ONLY <1>3, <1>15
  <2> HIDE DEF r, D2
  <2>4. OthersSame(D1, D2, t)
    BY ONLY <1>5, <2>2, OthersSameTwice DEF D
  <2>5. Pools(w, nx1, lo2, hd, bh, D1, U, G2, F2, t)
    BY ONLY <1>0, <1>5, <1>12, <1>13 DEF Pools
  <2>6. D1[t].abuckets_count > 0
    <3>1. d.abuckets_count \in Nat /\ e.abuckets_count = d.abuckets_count + 1
      BY ONLY <1>4, <1>9, FieldsTyped DEF Filled
    <3> QED BY ONLY <1>5, <3>1
  <2>7. Returning(nx1, nx2, hd, hd2, D1, D2, t)
    BY ONLY <1>5, <1>9, <1>12, <2>1, <2>2, <2>3, <2>4, <2>6 DEF Returning
  <2>8. Pool(w, nx2, lo2, hd2, bh, D2, U, G2, F2)
    BY ONLY <2>5, <2>7, StepReturn
  <2>9. /\ nx2 \in [Bucket -> Link] /\ hd2 \in Link
        /\ D2[t] \in Data /\ D2[t].abuckets_count = 0
        /\ SameList1(D1[t], D2[t]) /\ SameEmpty1(D1[t], D2[t])
    BY ONLY <2>5, <2>7, <2>8, StepReturn
  <2>10. r \in Data /\ r.aas_count < nr_local_aas /\ Within(r)
    <3>1. r.aas_count = 0 /\ r.abuckets_count = 0 /\ r.free_abuckets_count = d.free_abuckets_count - 1
      BY ONLY <1>4, <1>5, <2>2, <2>9 DEF SameList1, SameEmpty1, Filled
    <3>2. d.free_abuckets_count \in Nat /\ d.abuckets_count \in Nat
      BY ONLY <1>9, FieldsTyped
    <3> QED BY ONLY <1>8, <1>9, <2>2, <2>9, <3>1, <3>2 DEF Within
  <2>11. Links
    BY ONLY <1>9, <1>11, <1>12, <2>9 DEF Links
  <2>12. PutsAt(t, r, D2, F2, G2, id)
    BY ONLY <1>0, <1>9, <1>11, <1>14, <2>2, <2>3, <2>8, <2>10, <2>11 DEF PutsAt
  <2> QED BY ONLY Inv, <2>12, PutEnds
<1>16. CASE ~too_many_buckets(e)
  <2>1. put_address(t, e, id) /\ nx2 = nx1 /\ hd2 = hd
    BY ONLY <1>3, <1>16
  <2>2. e.aas_count < nr_local_aas /\ Within(e)
    <3>1. /\ e.aas_count = 0 /\ e.abuckets_count = d.abuckets_count + 1
          /\ e.free_abuckets_count = d.free_abuckets_count - 1
      BY ONLY <1>4 DEF Filled
    <3>2. d.free_abuckets_count \in Nat /\ d.abuckets_count \in Nat
      BY ONLY <1>9, FieldsTyped
    <3>3. ~(e.abuckets_count >= nr_local_abuckets)
      BY ONLY <1>16 DEF too_many_buckets
    <3> QED BY ONLY <1>8, <1>9, <3>1, <3>2, <3>3 DEF Within
  <2>3. Links
    BY ONLY <1>9, <1>11, <1>12, <2>1 DEF Links
  <2>4. PutsAt(t, e, D1, F2, G2, id)
    BY ONLY <1>0, <1>5, <1>9, <1>11, <1>12, <1>13, <1>14, <2>1, <2>2, <2>3 DEF PutsAt
  <2> QED BY ONLY Inv, <2>4, PutEnds
<1> QED
  BY ONLY <1>15, <1>16

(* t has the list of the full bucket b, d2 but for b, and b is empty. *)
UsesAt(t, d, d2, D2, F, G, b) ==
  /\ t \in Thread /\ pending[t] = idle /\ failed = FALSE
  /\ d2 = install_bucket(d, b) /\ d2 \in Data /\ Within(d2) /\ d2.aas_count = nr_local_aas
  /\ SameEmpty1(d, d2) /\ D2 = [data EXCEPT ![t] = d2]
  /\ b \in Bucket \ (F \cup GetBy(pending)) /\ F \cap GetBy(pending) = {}
  /\ G = F \cup {b} \cup GetBy(pending)
  /\ Pool(aa_space, next, local, free_aa_head', free_aa_buckets_head, D2, live \cup PutBy(pending), G, F)
  /\ next' = next /\ free_aa_buckets_head' = free_aa_buckets_head /\ free_aa_head' \in Link
  /\ use_bucket(t, d, b)

LEMMA UseEnds ==
  ASSUME Inv, NEW t, NEW d, NEW d2, NEW D2, NEW F, NEW G, NEW b, UsesAt(t, d, d2, D2, F, G, b)
  PROVE  Inv'
<1>0. /\ t \in Thread /\ pending[t] = idle /\ failed = FALSE
      /\ d2 = install_bucket(d, b) /\ d2 \in Data /\ Within(d2) /\ d2.aas_count = nr_local_aas
      /\ SameEmpty1(d, d2) /\ D2 = [data EXCEPT ![t] = d2]
      /\ b \in Bucket \ (F \cup GetBy(pending)) /\ F \cap GetBy(pending) = {}
      /\ G = F \cup {b} \cup GetBy(pending)
      /\ Pool(aa_space, next, local, free_aa_head', free_aa_buckets_head, D2, live \cup PutBy(pending), G, F)
      /\ next' = next /\ free_aa_buckets_head' = free_aa_buckets_head /\ free_aa_head' \in Link
      /\ use_bucket(t, d, b)
  BY DEF UsesAt
<1>1. /\ DOMAIN data = Thread /\ aa_space \in [Address -> Word] /\ live \subseteq Address
      /\ next \in [Bucket -> Link] /\ local \in [Bucket -> Address \cup Link]
      /\ free_aa_buckets_head \in Link
      /\ PendingApart(pending) /\ live \cap PutBy(pending) = {}
      /\ Fits(data, pending, free_aa_buckets_head, FALSE)
  BY <1>0, TypeParts DEF Inv
<1>2. D2[t] = d2 /\ OthersSame(data, D2, t) /\ DOMAIN D2 = Thread
  BY ONLY <1>0, <1>1, DataAt
<1>3. /\ nr_local_aas \in Nat /\ nr_local_aas > 0 /\ nr_local_free_abuckets \in Nat
      /\ d2.free_abuckets_count \in Nat /\ d2.free_abuckets_count <= nr_local_free_abuckets
      /\ d2.free_abuckets_count = d.free_abuckets_count /\ d2.free_abuckets = d.free_abuckets
  BY <1>0, LimitsAssumption, FieldsTyped DEF Within, SameEmpty1
<1>4. CASE too_many_free_buckets(d)
  <2>1. /\ data' = D2 /\ pending' = [pending EXCEPT ![t] = Getting(b)]
        /\ aa_space' = aa_space /\ local' = local /\ live' = live /\ failed' = FALSE
    BY ONLY <1>0, <1>4 DEF use_bucket, Getting
  <2>2. d2.free_abuckets_count = nr_local_free_abuckets
    BY ONLY <1>3, <1>4 DEF too_many_free_buckets
  <2> DEFINE p == pending
             p2 == pending'
             x == Getting(b)
  <2>3. Set(p, p2, t, x) /\ p[t] = idle /\ b \in Bucket \ GetBy(p) /\ x = Getting(b)
    BY ONLY <1>0, <1>1, <2>1 DEF Set
  <2> HIDE DEF p, p2, x
  <2>4. /\ p2[t] = x /\ \A u \in Thread \ {t} : p2[u] = p[u]
        /\ PendingApart(p2) /\ GetBy(p2) = GetBy(p) \cup {b} /\ PutBy(p2) = PutBy(p)
    BY ONLY <2>3, FromIdle
  <2>5. /\ pending'[t] = Getting(b) /\ \A u \in Thread \ {t} : pending'[u] = pending[u]
        /\ PendingApart(pending') /\ GetBy(pending') = GetBy(pending) \cup {b} /\ PutBy(pending') = PutBy(pending)
    BY ONLY <2>3, <2>4 DEF p, p2
  <2>6. data' \in [Thread -> ThreadData]
    BY ONLY Inv, <1>0, <1>2, <2>1, DataTyped
  <2>7. TypeOK'
    BY ONLY <1>0, <1>1, <2>1, <2>5, <2>6 DEF TypeOK, PendingApart
  <2>8. Fits(data', pending', free_aa_buckets_head', FALSE)
    <3>1. pending'[t].kind = "get"
      BY ONLY <2>5, PendingKinds
    <3>2. D2[t].aas_count = nr_local_aas /\ D2[t].free_abuckets_count = nr_local_free_abuckets
      BY ONLY <1>0, <1>2, <2>2
    <3>3. data'[t].aas_count = nr_local_aas /\ data'[t].free_abuckets_count = nr_local_free_abuckets
      BY ONLY <2>1, <3>2
    <3>4. \A u \in Thread \ {t} : data'[u] = data[u] /\ pending'[u] = pending[u]
      BY ONLY <1>2, <2>1, <2>5 DEF OthersSame
    <3>5. Fits(data, pending, free_aa_buckets_head, FALSE)
      BY ONLY <1>1
    <3> QED BY ONLY <3>1, <3>3, <3>4, <3>5 DEF Fits
  <2>9. PoolAt(F)'
    <3>1. G = F \cup GetBy(pending') /\ F \cap GetBy(pending') = {}
      BY ONLY <1>0, <2>5
    <3> QED BY ONLY <1>0, <2>1, <2>5, <3>1 DEF PoolAt
  <2> QED BY ONLY <1>1, <2>1, <2>5, <2>7, <2>8, <2>9 DEF Inv
<1>5. CASE ~too_many_free_buckets(d)
  <2> DEFINE k == keep_bucket(d2, b)
             D3 == [data EXCEPT ![t] = k]
             w == aa_space
             nx == next
             lo == local
             lo2 == local'
             hd == free_aa_head'
             bh == free_aa_buckets_head
             U == live \cup PutBy(pending)
             G2 == G \ {b}
  <2>1. take_address(t, k) /\ lo2 = [lo EXCEPT ![b] = D2[t].free_abuckets]
    BY ONLY <1>0, <1>2, <1>3, <1>5 DEF use_bucket
  <2>2. BucketKept(d2, k, b)
    BY DEF BucketKept, keep_bucket
  <2>3. D3[t] = k /\ OthersSame(data, D3, t) /\ D3 = [data EXCEPT ![t] = k]
    BY ONLY <1>0, <1>1, DataAt
  <2>4. Pools(w, nx, lo, hd, bh, D2, U, G, F, t)
    BY ONLY <1>0, <1>2 DEF Pools
  <2> HIDE DEF k, D3
  <2>5. Keeping(lo, lo2, D2, D3, t, b, G, F)
    <3>1. OthersSame(D2, D3, t)
      BY ONLY <1>2, <2>3, OthersSameTwice
    <3> QED BY ONLY <1>0, <1>1, <1>2, <2>1, <2>2, <2>3, <3>1 DEF Keeping
  <2>6. k \in Data /\ k.free_abuckets_count = d2.free_abuckets_count + 1 /\ SameList1(d2, k) /\ SameFull1(d2, k)
    BY ONLY <1>0, <2>2, DataBucketKept
  <2>7. Within(k) /\ k.aas_count > 0
    <3>1. ~(d.free_abuckets_count >= nr_local_free_abuckets)
      BY ONLY <1>5 DEF too_many_free_buckets
    <3> QED BY ONLY <1>0, <1>3, <2>6, <3>1 DEF Within, SameList1, SameFull1
  <2>8. GetBy(pending') = GetBy(pending)
    <3> DEFINE p == pending
               p2 == pending'
    <3>1. Set(p, p2, t, idle) /\ p[t] = idle
      BY ONLY <1>0, <1>1, <2>1 DEF Set, take_address
    <3> HIDE DEF p, p2
    <3>2. GetBy(p2) = GetBy(p)
      BY ONLY <3>1, ToIdle
    <3> QED BY ONLY <3>2 DEF p, p2
  <2>9. G2 = F \cup GetBy(pending') /\ F \cap GetBy(pending') = {} /\ G2 = G \ {b}
    BY ONLY <1>0, <2>8
  <2>10. next' = nx /\ local' = lo2 /\ free_aa_head' = hd /\ free_aa_buckets_head' = bh
         /\ aa_space = w /\ live \cup PutBy(pending) = U
    BY ONLY <1>0
  <2> HIDE DEF w, nx, lo, lo2, hd, bh, U, G2
  <2>11. lo2 \in [Bucket -> Address \cup Link] /\ Pool(w, nx, lo2, hd, bh, D3, U, G2, F)
    <3>1. Pool(w, nx, lo2, hd, bh, D3, U, G \ {b}, F)
      BY ONLY <2>4, <2>5, StepKeep
    <3>2. lo2 \in [Bucket -> Address \cup Link]
      BY ONLY <2>4, <2>5, <3>1, StepKeep
    <3> QED BY ONLY <2>9, <3>1, <3>2
  <2>12. Links
    BY ONLY <1>0, <1>1, <2>10, <2>11 DEF Links
  <2>13. TakesAt(t, k, D3, F, G2, k.aas)
    <3>1. pending[t].kind \in {"idle", "get"}
      BY ONLY <1>0, PendingKinds
    <3> QED BY ONLY <1>0, <2>1, <2>3, <2>6, <2>7, <2>9, <2>10, <2>11, <2>12, <3>1 DEF TakesAt
  <2> QED BY ONLY Inv, <2>13, TakeEnds
<1> QED
  BY ONLY <1>4, <1>5

-----------------------------------------------------------------------------
(* Every operation keeps the invariant. *)
LEMMA SameData ==
  ASSUME Inv, NEW t \in Thread, NEW d, d = data[t]
  PROVE  data = [data EXCEPT ![t] = d]
<1>1. data \in [Thread -> ThreadData]
  BY DEF Inv, TypeOK
<1> QED BY <1>1

LEMMA DoneIsIdle ==
  ASSUME Inv, NEW t \in Thread, pending' = [pending EXCEPT ![t] = idle]
  PROVE  /\ pending[t] = idle => GetBy(pending') = GetBy(pending)
         /\ pending[t].kind = "get" => /\ pending[t].maa \in GetBy(pending)
                                       /\ GetBy(pending') = GetBy(pending) \ {pending[t].maa}
<1> DEFINE p == pending
           p2 == pending'
<1>1. Set(p, p2, t, idle)
  BY DEF Inv, Set
<1> HIDE DEF p, p2
<1>2. /\ p[t] = idle => GetBy(p2) = GetBy(p)
      /\ p[t].kind = "get" => p[t].maa \in GetBy(p) /\ GetBy(p2) = GetBy(p) \ {p[t].maa}
  BY ONLY <1>1, ToIdle
<1> QED BY ONLY <1>2 DEF p, p2

LEMMA TakeFromList ==
  ASSUME Inv, NEW t \in Thread, failed = FALSE, pending[t] = idle, data[t].aas_count > 0,
         take_address(t, data[t]),
         UNCHANGED <<next, free_aa_buckets_head, local, free_aa_head>>
  PROVE  Inv'
<1>1. PICK F : PoolAt(F)
  BY DEF Inv
<1> DEFINE d == data[t]
           D == [data EXCEPT ![t] = d]
           G == F \cup GetBy(pending)
<1>2. D = data
  BY ONLY Inv, t \in Thread, SameData
<1>3. /\ next \in [Bucket -> Link] /\ local \in [Bucket -> Address \cup Link]
      /\ free_aa_head \in Link /\ free_aa_buckets_head \in Link /\ d \in Data /\ Within(d)
  BY ONLY Inv, t \in Thread, TypeParts
<1>4. Links
  BY <1>3 DEF Links
<1>5. GetBy(pending') = GetBy(pending)
  BY ONLY Inv, t \in Thread, pending[t] = idle, take_address(t, data[t]), DoneIsIdle DEF take_address
<1>6. /\ G = F \cup GetBy(pending') /\ F \cap GetBy(pending') = {}
      /\ Pool(aa_space, next', local', free_aa_head', free_aa_buckets_head', D, live \cup PutBy(pending), G, F)
  BY ONLY <1>1, <1>2, <1>5, UNCHANGED <<next, free_aa_buckets_head, local, free_aa_head>> DEF PoolAt
<1>7. pending[t].kind \in {"idle", "get"} /\ D = [data EXCEPT ![t] = d] /\ d.aas_count > 0 /\ take_address(t, d)
  BY PendingKinds
<1> HIDE DEF d, D, G
<1>8. TakesAt(t, d, D, F, G, d.aas)
  BY ONLY <1>3, <1>4, <1>6, <1>7, t \in Thread, failed = FALSE DEF TakesAt
<1> QED
  BY ONLY Inv, <1>8, TakeEnds

LEMMA TakeFromKept ==
  ASSUME Inv, NEW t \in Thread, failed = FALSE, pending[t] = idle,
         data[t].aas_count = 0, data[t].abuckets_count > 0,
         use_bucket(t, [data[t] EXCEPT !.abuckets = next[data[t].abuckets], !.abuckets_count = @ - 1],
                    data[t].abuckets),
         UNCHANGED <<next, free_aa_buckets_head, free_aa_head>>
  PROVE  Inv'
<1>1. PICK F : PoolAt(F)
  BY DEF Inv
<1> DEFINE D == data
           d == data[t]
           b == d.abuckets
           w == aa_space
           nx == next
           lo == local
           hd == free_aa_head
           bh == free_aa_buckets_head
           U == live \cup PutBy(pending)
           G == F \cup GetBy(pending)
           d1 == [d EXCEPT !.abuckets = nx[b], !.abuckets_count = @ - 1]
           d2 == install_bucket(d1, b)
           D2 == [data EXCEPT ![t] = d2]
           F2 == F \ {b}
<1>2. /\ DOMAIN data = Thread /\ nx \in [Bucket -> Link] /\ hd \in Link /\ d \in Data /\ Within(d)
  BY ONLY Inv, t \in Thread, TypeParts
<1>3. D2[t] = d2 /\ OthersSame(D, D2, t) /\ D2 = [data EXCEPT ![t] = d2]
  BY ONLY <1>2, t \in Thread, DataAt
<1>4. Pools(w, nx, lo, hd, bh, D, U, G, F, t) /\ F \cap GetBy(pending) = {}
  BY ONLY <1>1, <1>2, t \in Thread DEF Pools, PoolAt
<1>5. Unkept(d, d1, nx[b]) /\ Installed(d1, d2, lo[b])
  BY DEF Unkept, Installed, install_bucket
<1>6. /\ use_bucket(t, d1, b) /\ d = D[t] /\ d.aas_count = 0 /\ d.abuckets_count > 0 /\ b = d.abuckets
      /\ d2 = install_bucket(d1, b)
  OBVIOUS
<1>7. /\ next = nx /\ next' = next /\ free_aa_head' = hd /\ free_aa_buckets_head = bh
      /\ free_aa_buckets_head' = free_aa_buckets_head /\ local = lo /\ aa_space = w
      /\ live \cup PutBy(pending) = U /\ G = F \cup GetBy(pending) /\ F2 = F \ {b}
  OBVIOUS
<1> HIDE DEF D, d, b, w, nx, lo, hd, bh, U, G, d1, d2, D2, F2
<1>8. OpeningKept(nx, lo, D, D2, d1, t, b)
  BY ONLY <1>2, <1>3, <1>5, <1>6 DEF OpeningKept
<1>9. Pool(w, nx, lo, hd, bh, D2, U, G, F \ {b})
  BY ONLY <1>4, <1>8, StepOpenKept
<1>10. /\ b \in F /\ b \in Bucket
       /\ D2[t] \in Data /\ D2[t].aas_count = nr_local_aas
       /\ D2[t].abuckets_count = D[t].abuckets_count - 1 /\ SameEmpty1(D[t], D2[t])
  BY ONLY <1>4, <1>8, <1>9, StepOpenKept
<1>11. SameEmpty1(d, d1)
  <2>1. nx[b] \in Link
    BY ONLY <1>2, <1>10
  <2> QED BY ONLY <1>2, <1>5, <1>6, <2>1, DataUnkept
<1>12. SameEmpty1(d1, d2)
  BY ONLY <1>3, <1>6, <1>10, <1>11 DEF SameEmpty1
<1>13. Within(d2)
  <2>1. nr_local_aas \in Nat /\ d.abuckets_count \in Nat /\ nr_local_abuckets \in Nat
    BY <1>2, LimitsAssumption, FieldsTyped
  <2> QED BY ONLY <1>2, <1>3, <1>6, <1>10, <2>1 DEF Within, SameEmpty1
<1>14. /\ b \in Bucket \ (F2 \cup GetBy(pending)) /\ F2 \cap GetBy(pending) = {}
       /\ G = F2 \cup {b} \cup GetBy(pending)
  BY ONLY <1>4, <1>7, <1>10
<1>15. Pool(w, nx, lo, hd, bh, D2, U, G, F2)
  BY ONLY <1>7, <1>9
<1>16. UsesAt(t, d1, d2, D2, F2, G, b)
  BY ONLY t \in Thread, pending[t] = idle, failed = FALSE,
          <1>2, <1>3, <1>6, <1>7, <1>10, <1>12, <1>13, <1>14, <1>15 DEF UsesAt
<1> QED
  BY ONLY Inv, <1>16, UseEnds

LEMMA TakeFromStack ==
  ASSUME Inv, NEW t \in Thread, failed = FALSE, pending[t] = idle, data[t].aas_count = 0,
         aa_get(free_aa_head), use_bucket(t, data[t], free_aa_head),
         UNCHANGED <<next, free_aa_buckets_head>>
  PROVE  Inv'
<1>1. PICK F : PoolAt(F)
  BY DEF Inv
<1> DEFINE D == data
           d == data[t]
           w == aa_space
           nx == next
           lo == local
           hd == free_aa_head
           hd2 == free_aa_head'
           bh == free_aa_buckets_head
           U == live \cup PutBy(pending)
           G == F \cup GetBy(pending)
           d2 == install_bucket(d, hd)
           D2 == [data EXCEPT ![t] = d2]
           F2 == F \ {hd}
<1>2. /\ DOMAIN data = Thread /\ nx \in [Bucket -> Link] /\ hd \in Link /\ d \in Data /\ Within(d)
  BY ONLY Inv, t \in Thread, TypeParts
<1>3. D2[t] = d2 /\ OthersSame(D, D2, t) /\ D2 = [data EXCEPT ![t] = d2]
  BY ONLY <1>2, t \in Thread, DataAt
<1>4. Pools(w, nx, lo, hd, bh, D, U, G, F, t) /\ F \cap GetBy(pending) = {}
  BY ONLY <1>1, <1>2, t \in Thread DEF Pools, PoolAt
<1>5. Installed(d, d2, lo[hd])
  BY DEF Installed, install_bucket
<1>6. /\ use_bucket(t, d, hd) /\ d = D[t] /\ d.aas_count = 0 /\ hd # Null /\ hd2 = nx[hd]
      /\ d2 = install_bucket(d, hd)
  BY DEF aa_get
<1>7. /\ next = nx /\ next' = next /\ free_aa_head' = hd2 /\ free_aa_buckets_head = bh
      /\ free_aa_buckets_head' = free_aa_buckets_head /\ local = lo /\ aa_space = w
      /\ live \cup PutBy(pending) = U /\ G = F \cup GetBy(pending) /\ F2 = F \ {hd}
  OBVIOUS
<1> HIDE DEF D, d, w, nx, lo, hd, hd2, bh, U, G, d2, D2, F2
<1>8. OpeningTop(nx, lo, hd, hd2, D, D2, t)
  BY ONLY <1>2, <1>3, <1>5, <1>6 DEF OpeningTop
<1>9. Pool(w, nx, lo, hd2, bh, D2, U, G, F \ {hd})
  BY ONLY <1>4, <1>8, StepOpenTop
<1>10. /\ hd \in F /\ hd \in Bucket /\ hd2 \in Link
       /\ D2[t] \in Data /\ D2[t].aas_count = nr_local_aas
       /\ SameFull1(D[t], D2[t]) /\ SameEmpty1(D[t], D2[t])
  BY ONLY <1>4, <1>8, <1>9, StepOpenTop
<1>11. SameEmpty1(d, d2) /\ SameFull1(d, d2) /\ d2.aas_count = nr_local_aas /\ d2 \in Data
  BY ONLY <1>3, <1>6, <1>10
<1>12. Within(d2)
  <2>1. nr_local_aas \in Nat
    BY LimitsAssumption
  <2> QED BY ONLY <1>2, <1>11, <2>1 DEF Within, SameEmpty1, SameFull1
<1>13. /\ hd \in Bucket \ (F2 \cup GetBy(pending)) /\ F2 \cap GetBy(pending) = {}
       /\ G = F2 \cup {hd} \cup GetBy(pending)
  BY ONLY <1>4, <1>7, <1>10
<1>14. Pool(w, nx, lo, hd2, bh, D2, U, G, F2)
  BY ONLY <1>7, <1>9
<1>15. UsesAt(t, d, d2, D2, F2, G, hd)
  BY ONLY t \in Thread, pending[t] = idle, failed = FALSE,
          <1>2, <1>3, <1>6, <1>7, <1>10, <1>11, <1>12, <1>13, <1>14 DEF UsesAt
<1> QED
  BY ONLY Inv, <1>15, UseEnds

LEMMA InvGet ==
  ASSUME Inv, NEW t \in Thread, failed = FALSE, get_abstract_address(t)
  PROVE  Inv'
<1>1. pending[t] = idle /\ UNCHANGED <<next, free_aa_buckets_head>>
  BY DEF get_abstract_address
<1>2. CASE data[t].aas_count > 0 /\ take_address(t, data[t]) /\ UNCHANGED <<local, free_aa_head>>
  BY ONLY Inv, t \in Thread, failed = FALSE, <1>1, <1>2, TakeFromList
<1>3. CASE /\ data[t].aas_count = 0 /\ data[t].abuckets_count > 0
           /\ use_bucket(t, [data[t] EXCEPT !.abuckets = next[data[t].abuckets], !.abuckets_count = @ - 1],
                         data[t].abuckets)
           /\ UNCHANGED free_aa_head
  BY ONLY Inv, t \in Thread, failed = FALSE, <1>1, <1>3, TakeFromKept
<1>4. CASE data[t].aas_count = 0 /\ aa_get(free_aa_head) /\ use_bucket(t, data[t], free_aa_head)
  BY ONLY Inv, t \in Thread, failed = FALSE, <1>1, <1>4, TakeFromStack
<1> QED
  BY ONLY get_abstract_address(t), <1>2, <1>3, <1>4 DEF get_abstract_address

LEMMA InvReturn ==
  ASSUME Inv, NEW t \in Thread, failed = FALSE, return_free_buckets(t)
  PROVE  Inv'
<1>1. PICK F : PoolAt(F)
  BY DEF Inv
<1> DEFINE D == data
           d == data[t]
           c == d.free_abuckets
           b == pending[t].maa
           w == aa_space
           nx == next
           nx2 == next'
           lo == local
           lo2 == local'
           hd == free_aa_head
           bh == free_aa_buckets_head
           U == live \cup PutBy(pending)
           G == F \cup GetBy(pending)
           G2 == G \ {b}
           d1 == give_back(d)
           D1 == [data EXCEPT ![t] = d1]
           k == keep_bucket(d1, b)
           D2 == [data EXCEPT ![t] = k]
<1>2. /\ DOMAIN data = Thread /\ nx \in [Bucket -> Link] /\ lo \in [Bucket -> Address \cup Link]
      /\ hd \in Link /\ bh \in Link /\ d \in Data /\ Within(d)
  BY ONLY Inv, t \in Thread, TypeParts
<1>3. /\ pending[t].kind = "get" /\ nx2 = [nx EXCEPT ![c] = bh] /\ free_aa_buckets_head' = c
      /\ take_address(t, k) /\ lo2 = [lo EXCEPT ![b] = Null] /\ free_aa_head' = hd
  BY DEF return_free_buckets, aa_bucket_put
<1>4. d.aas_count = nr_local_aas /\ d.free_abuckets_count = nr_local_free_abuckets
  BY <1>3 DEF Inv, Fits
<1>5. b \in GetBy(pending) /\ GetBy(pending') = GetBy(pending) \ {b}
  BY ONLY Inv, t \in Thread, <1>3, DoneIsIdle DEF take_address
<1>6. D1[t] = d1 /\ OthersSame(D, D1, t)
  BY ONLY <1>2, t \in Thread, DataAt
<1>7. D2[t] = k /\ OthersSame(D, D2, t) /\ D2 = [data EXCEPT ![t] = k]
  BY ONLY <1>2, t \in Thread, DataAt
<1>8. GivenBack(d, d1) /\ BucketKept(d1, k, b)
  BY DEF GivenBack, give_back, BucketKept, keep_bucket
<1>9. Pools(w, nx, lo, hd, bh, D, U, G, F, t) /\ F \cap GetBy(pending) = {}
  BY ONLY <1>1, <1>2, t \in Thread DEF Pools, PoolAt
<1>10. /\ next' = nx2 /\ local' = lo2 /\ aa_space = w /\ live \cup PutBy(pending) = U
       /\ G = F \cup GetBy(pending) /\ G2 = G \ {b} /\ d = D[t] /\ c = d.free_abuckets
  OBVIOUS
<1>11. GetBy(pending) \subseteq Bucket
  BY DEF GetBy
<1>12. /\ nr_local_aas \in Nat /\ nr_local_aas > 0 /\ nr_local_abuckets \in Nat
       /\ nr_local_free_abuckets \in Nat /\ nr_local_free_abuckets > 0
  BY LimitsAssumption
<1> HIDE DEF D, d, c, b, w, nx, nx2, lo, lo2, hd, bh, U, G, G2, d1, D1, k, D2
<1>13. Giving(nx, nx2, bh, D, D1, t, c)
  BY ONLY <1>2, <1>3, <1>4, <1>6, <1>8, <1>10 DEF Giving
<1>14. Pool(w, nx2, lo, hd, c, D1, U, G, F)
  BY ONLY <1>9, <1>13, StepGive
<1>15. /\ c \in Bucket /\ nx2 \in [Bucket -> Link]
       /\ D1[t] \in Data /\ D1[t].free_abuckets = Null /\ D1[t].free_abuckets_count = 0
       /\ SameList1(D[t], D1[t]) /\ SameFull1(D[t], D1[t])
  BY ONLY <1>9, <1>13, <1>14, StepGive
<1>16. Keeping(lo, lo2, D1, D2, t, b, G, F)
  <2>1. OthersSame(D1, D2, t)
    BY ONLY <1>6, <1>7, OthersSameTwice
  <2>2. b \in G \ F /\ b \in Bucket
    BY ONLY <1>5, <1>9, <1>10, <1>11
  <2>3. lo2 = [lo EXCEPT ![b] = D1[t].free_abuckets]
    BY ONLY <1>3, <1>15
  <2> QED BY ONLY <1>2, <1>6, <1>7, <1>8, <2>1, <2>2, <2>3 DEF Keeping
<1>17. Pools(w, nx2, lo, hd, c, D1, U, G, F, t)
  BY ONLY t \in Thread, <1>14, <1>15 DEF Pools
<1>18. Pool(w, nx2, lo2, hd, c, D2, U, G \ {b}, F)
  BY ONLY <1>16, <1>17, StepKeep
<1>19. /\ lo2 \in [Bucket -> Address \cup Link]
       /\ D2[t] \in Data /\ D2[t].free_abuckets_count = D1[t].free_abuckets_count + 1
       /\ SameList1(D1[t], D2[t]) /\ SameFull1(D1[t], D2[t])
  BY ONLY <1>16, <1>17, <1>18, StepKeep
<1>20. k \in Data /\ k.aas_count > 0 /\ Within(k)
  BY ONLY <1>2, <1>4, <1>7, <1>10, <1>12, <1>15, <1>19 DEF Within, SameList1, SameFull1
<1>21. Links
  <2>1. c \in Link
    BY ONLY <1>15 DEF Link
  <2> QED BY ONLY <1>2, <1>3, <1>10, <1>15, <1>19, <2>1 DEF Links
<1>22. G2 = F \cup GetBy(pending') /\ F \cap GetBy(pending') = {} /\ pending[t].kind \in {"idle", "get"}
  BY ONLY <1>3, <1>5, <1>9, <1>10
<1>23. Pool(aa_space, next', local', free_aa_head', free_aa_buckets_head', D2, live \cup PutBy(pending), G2, F)
  BY ONLY <1>3, <1>10, <1>18
<1>24. TakesAt(t, k, D2, F, G2, k.aas)
  BY ONLY t \in Thread, failed = FALSE, <1>3, <1>7, <1>20, <1>21, <1>22, <1>23 DEF TakesAt
<1> QED
  BY ONLY Inv, <1>24, TakeEnds

LEMMA PutToList ==
  ASSUME Inv, NEW t \in Thread, failed = FALSE, NEW id, Comes(t, id), data[t].aas_count < nr_local_aas,
         put_address(t, data[t], id),
         UNCHANGED <<next, local, free_aa_head, free_aa_buckets_head, failed>>
  PROVE  Inv'
<1>1. PICK F : PoolAt(F)
  BY DEF Inv
<1> DEFINE d == data[t]
           D == [data EXCEPT ![t] = d]
           G == F \cup GetBy(pending)
<1>2. D = data
  BY ONLY Inv, t \in Thread, SameData
<1>3. /\ next \in [Bucket -> Link] /\ local \in [Bucket -> Address \cup Link]
      /\ free_aa_head \in Link /\ free_aa_buckets_head \in Link /\ d \in Data /\ Within(d)
  BY ONLY Inv, t \in Thread, TypeParts
<1>4. Links
  BY <1>3 DEF Links
<1>5. /\ G = F \cup GetBy(pending) /\ F \cap GetBy(pending) = {}
      /\ Pool(aa_space, next', local', free_aa_head', free_aa_buckets_head', D, live \cup PutBy(pending), G, F)
  BY ONLY <1>1, <1>2, UNCHANGED <<next, local, free_aa_head, free_aa_buckets_head, failed>> DEF PoolAt
<1>6. D = [data EXCEPT ![t] = d] /\ d.aas_count < nr_local_aas /\ put_address(t, d, id) /\ failed' = FALSE
  OBVIOUS
<1> HIDE DEF d, D, G
<1>7. PutsAt(t, d, D, F, G, id)
  BY ONLY <1>3, <1>4, <1>5, <1>6, t \in Thread, failed = FALSE, Comes(t, id) DEF PutsAt
<1> QED
  BY ONLY Inv, <1>7, PutEnds

(* t has a full list and no empty bucket, and looks for some on the stack. *)
WaitsAt(t, id) ==
  /\ t \in Thread /\ pending[t] = idle /\ failed = FALSE /\ id \in live /\ live' = live \ {id}
  /\ data[t].aas_count = nr_local_aas /\ data[t].free_abuckets_count = 0
  /\ pending' = [pending EXCEPT ![t] = Putting(id)]
  /\ data' = [data EXCEPT ![t].free_abuckets = free_aa_buckets_head,
                ![t].free_abuckets_count =
                  IF free_aa_buckets_head = Null THEN 0 ELSE nr_local_free_abuckets]
  /\ aa_bucket_get(free_aa_buckets_head)
  /\ failed' = (free_aa_buckets_head = Null)
  /\ UNCHANGED <<aa_space, next, local, free_aa_head>>

LEMMA WaitForBucket ==
  ASSUME Inv, NEW t, NEW id, WaitsAt(t, id)
  PROVE  Inv'
<1>0. /\ t \in Thread /\ pending[t] = idle /\ failed = FALSE /\ id \in live /\ live' = live \ {id}
      /\ data[t].aas_count = nr_local_aas /\ data[t].free_abuckets_count = 0
      /\ pending' = [pending EXCEPT ![t] = Putting(id)]
      /\ aa_bucket_get(free_aa_buckets_head)
      /\ failed' = (free_aa_buckets_head = Null)
      /\ UNCHANGED <<aa_space, next, local, free_aa_head>>
  BY DEF WaitsAt
<1>1. PICK F : PoolAt(F)
  BY DEF Inv
<1>2. /\ DOMAIN data = Thread /\ aa_space \in [Address -> Word] /\ live \subseteq Address
      /\ next \in [Bucket -> Link] /\ local \in [Bucket -> Address \cup Link]
      /\ free_aa_head \in Link /\ free_aa_buckets_head \in Link
      /\ data[t] \in Data /\ Within(data[t])
      /\ PendingApart(pending) /\ live \cap PutBy(pending) = {}
      /\ Fits(data, pending, free_aa_buckets_head, FALSE)
  BY <1>0, TypeParts DEF Inv
<1> DEFINE D == data
           d == data[t]
           d2 == [d EXCEPT !.free_abuckets = free_aa_buckets_head,
                           !.free_abuckets_count =
                              IF free_aa_buckets_head = Null THEN 0 ELSE nr_local_free_abuckets]
           D2 == [data EXCEPT ![t] = d2]
           w == aa_space
           nx == next
           lo == local
           hd == free_aa_head
           bh == free_aa_buckets_head
           bh2 == free_aa_buckets_head'
           U == live \cup PutBy(pending)
           G == F \cup GetBy(pending)
<1>3. data' = D2
  BY <1>0, <1>2 DEF WaitsAt
<1>4. D2[t] = d2 /\ OthersSame(D, D2, t) /\ D2 = [data EXCEPT ![t] = d2] /\ DOMAIN D2 = Thread
  BY ONLY <1>0, <1>2, DataAt
<1>5. Pools(w, nx, lo, hd, bh, D, U, G, F, t) /\ F \cap GetBy(pending) = {}
  BY ONLY <1>0, <1>1, <1>2 DEF Pools, PoolAt
<1>6. /\ bh = Null => GivenBack(d, d2) /\ bh2 = Null
      /\ bh # Null => Fetched(d, d2, bh) /\ bh2 = nx[bh]
  BY ONLY <1>0 DEF aa_bucket_get, GivenBack, Fetched
<1>7. /\ next' = nx /\ local' = lo /\ aa_space' = w /\ free_aa_head' = hd /\ free_aa_buckets_head' = bh2
      /\ nx \in [Bucket -> Link] /\ bh \in Link /\ d = D[t] /\ d \in Data /\ Within(d) /\ d.free_abuckets_count = 0
      /\ U = live \cup PutBy(pending) /\ G = F \cup GetBy(pending) /\ d.aas_count = nr_local_aas
      /\ failed' = (bh = Null) /\ w \in [Address -> Word]
      /\ lo \in [Bucket -> Address \cup Link] /\ hd \in Link
      /\ Fits(data, pending, bh, FALSE)
  BY ONLY <1>0, <1>2
<1>8. /\ PendingApart(pending') /\ pending'[t] = Putting(id)
      /\ \A u \in Thread \ {t} : pending'[u] = pending[u]
      /\ PutBy(pending') = PutBy(pending) \cup {id} /\ GetBy(pending') = GetBy(pending)
  <2> DEFINE p == pending
             p2 == pending'
             x == Putting(id)
  <2>1. Set(p, p2, t, x) /\ p[t] = idle /\ id \in Address \ PutBy(p) /\ x = Putting(id)
    BY ONLY <1>0, <1>2 DEF Set
  <2> HIDE DEF p, p2, x
  <2>2. /\ p2[t] = x /\ \A u \in Thread \ {t} : p2[u] = p[u]
        /\ PendingApart(p2) /\ PutBy(p2) = PutBy(p) \cup {id} /\ GetBy(p2) = GetBy(p)
    BY ONLY <2>1, FromIdle
  <2> QED BY ONLY <2>1, <2>2 DEF p, p2
<1> HIDE DEF D, d, d2, D2, w, nx, lo, hd, bh, bh2, U, G
<1>9. /\ D2[t] \in Data /\ SameList1(D[t], D2[t]) /\ SameFull1(D[t], D2[t]) /\ bh2 \in Link
      /\ D2[t].free_abuckets_count = IF bh = Null THEN 0 ELSE nr_local_free_abuckets
      /\ Pool(w, nx, lo, hd, bh2, D2, U, G, F)
  <2>1. CASE bh = Null
    <3>1. /\ D2[t] \in Data /\ D2[t].free_abuckets_count = 0
          /\ SameList1(D[t], D2[t]) /\ SameFull1(D[t], D2[t])
      BY ONLY <1>4, <1>6, <1>7, <2>1, DataGivenBack
    <3>2. SameAddresses(D, D2, Thread) /\ SameKept(D, D2, Thread) /\ SameEmpties(D, D2, Thread \ {t})
      BY ONLY <1>4, <3>1, AllSame
    <3>3. SameEmpties(D, D2, Thread)
      <4>1. D2[t].free_abuckets_count = D[t].free_abuckets_count /\ ~(D[t].free_abuckets_count > 0)
        BY ONLY <1>7, <3>1
      <4> QED BY ONLY <3>2, <4>1 DEF SameEmpties
    <3>4. Pool(w, nx, lo, hd, bh, D, U, G, F)
      BY ONLY <1>5 DEF Pools
    <3>5. Pool(w, nx, lo, hd, bh, D2, U, G, F)
      BY ONLY <3>2, <3>3, <3>4, PoolSame
    <3> QED BY ONLY <1>6, <1>7, <2>1, <3>1, <3>5
  <2>2. CASE bh # Null
    <3>1. Fetching(nx, bh, bh2, D, D2, t)
      BY ONLY <1>4, <1>6, <1>7, <2>2 DEF Fetching
    <3>2. Pool(w, nx, lo, hd, bh2, D2, U, G, F)
      BY ONLY <1>5, <3>1, StepFetch
    <3>3. /\ bh2 \in Link /\ D2[t] \in Data /\ D2[t].free_abuckets_count = nr_local_free_abuckets
          /\ SameList1(D[t], D2[t]) /\ SameFull1(D[t], D2[t])
      BY ONLY <1>5, <3>1, <3>2, StepFetch
    <3> QED BY ONLY <2>2, <3>2, <3>3
  <2> QED BY ONLY <2>1, <2>2
<1>10. /\ nr_local_free_abuckets \in Nat /\ nr_local_free_abuckets > 0
  BY LimitsAssumption
<1>11. Within(D2[t])
  BY ONLY <1>7, <1>9, <1>10 DEF Within, SameList1, SameFull1
<1>12. data' \in [Thread -> ThreadData]
  <2>1. OthersSame(data, D2, t)
    BY ONLY <1>4 DEF D
  <2> QED BY ONLY Inv, <1>0, <1>3, <1>4, <1>9, <1>11, <2>1, DataTyped
<1>13. /\ live' \cap PutBy(pending') = {} /\ live' \subseteq Address
       /\ live' \cup PutBy(pending') = U
  BY ONLY <1>0, <1>2, <1>7, <1>8
<1>14. TypeOK'
  BY ONLY <1>7, <1>8, <1>9, <1>12, <1>13 DEF TypeOK, PendingApart
<1>15. Fits(data', pending', free_aa_buckets_head', failed')
  <2>1. pending'[t].kind = "put"
    BY ONLY <1>8, PendingKinds
  <2>2. data'[t].aas_count = nr_local_aas
    BY ONLY <1>3, <1>7, <1>9 DEF SameList1
  <2>3. data'[t].free_abuckets_count = IF bh = Null THEN 0 ELSE nr_local_free_abuckets
    BY ONLY <1>3, <1>9
  <2>4. \A u \in Thread \ {t} : data'[u] = data[u] /\ pending'[u] = pending[u]
    BY ONLY <1>3, <1>4, <1>8 DEF OthersSame, D
  <2>5. failed' = (bh = Null) /\ (bh = Null => free_aa_buckets_head' = Null)
    BY ONLY <1>6, <1>7
  <2>6. Fits(data, pending, bh, FALSE)
    BY ONLY <1>7
  <2> QED BY ONLY <1>0, <1>10, <2>1, <2>2, <2>3, <2>4, <2>5, <2>6 DEF Fits
<1>16. PoolAt(F)'
  <2>1. G = F \cup GetBy(pending') /\ F \cap GetBy(pending') = {}
    BY ONLY <1>5, <1>7, <1>8
  <2> QED BY ONLY <1>3, <1>7, <1>9, <1>13, <2>1 DEF PoolAt
<1> QED
  BY ONLY <1>8, <1>13, <1>14, <1>15, <1>16 DEF Inv

LEMMA InvClear ==
  ASSUME Inv, NEW t \in Thread, failed = FALSE, clear_abstract_address(t)
  PROVE  Inv'
<1>1. pending[t] = idle
  BY DEF clear_abstract_address
<1>2. PICK id \in live :
        /\ live' = live \ {id}
        /\ \/ /\ data[t].aas_count < nr_local_aas
              /\ put_address(t, data[t], id)
              /\ UNCHANGED <<next, local, free_aa_head, free_aa_buckets_head, failed>>
           \/ /\ data[t].aas_count = nr_local_aas /\ data[t].free_abuckets_count > 0
              /\ fill_bucket(t, data[t], id)
              /\ UNCHANGED <<free_aa_buckets_head, failed>>
           \/ WaitsAt(t, id)
  BY <1>1 DEF clear_abstract_address, WaitsAt, Putting
<1>3. Comes(t, id)
  BY ONLY <1>1, <1>2 DEF Comes
<1>4. CASE /\ data[t].aas_count < nr_local_aas /\ put_address(t, data[t], id)
           /\ UNCHANGED <<next, local, free_aa_head, free_aa_buckets_head, failed>>
  BY ONLY Inv, t \in Thread, failed = FALSE, <1>3, <1>4, PutToList
<1>5. CASE /\ data[t].aas_count = nr_local_aas /\ data[t].free_abuckets_count > 0
           /\ fill_bucket(t, data[t], id) /\ UNCHANGED <<free_aa_buckets_head, failed>>
  <2>1. FillsAt(t, id)
    BY ONLY t \in Thread, failed = FALSE, <1>3, <1>5 DEF FillsAt
  <2> QED BY ONLY Inv, <2>1, FillEnds
<1>6. CASE WaitsAt(t, id)
  BY ONLY Inv, <1>6, WaitForBucket
<1> QED
  BY ONLY <1>2, <1>4, <1>5, <1>6

LEMMA InvFinish ==
  ASSUME Inv, NEW t \in Thread, failed = FALSE, finish_put(t)
  PROVE  Inv'
<1> DEFINE id == pending[t].id
<1>1. /\ pending[t].kind = "put" /\ fill_bucket(t, data[t], id)
      /\ UNCHANGED <<free_aa_buckets_head, live, failed>>
  BY DEF finish_put
<1>2. data[t].aas_count = nr_local_aas /\ data[t].free_abuckets_count > 0
  BY <1>1 DEF Inv, Fits
<1>3. Comes(t, id)
  BY ONLY <1>1 DEF Comes
<1> HIDE DEF id
<1>4. FillsAt(t, id)
  BY ONLY t \in Thread, failed = FALSE, <1>1, <1>2, <1>3 DEF FillsAt
<1> QED
  BY ONLY Inv, <1>4, FillEnds

LEMMA InvNext ==
  ASSUME Inv, [Next]_vars
  PROVE  Inv'
<1>1. CASE UNCHANGED vars
  BY <1>1 DEF vars, Inv, TypeOK, PoolAt
<1>2. ASSUME NEW t \in Thread, ~failed,
             \/ get_abstract_address(t) \/ return_free_buckets(t)
             \/ clear_abstract_address(t) \/ finish_put(t)
      PROVE  Inv'
  <2>1. failed = FALSE
    BY <1>2 DEF Inv, TypeOK
  <2> QED BY ONLY Inv, <1>2, <2>1, InvGet, InvReturn, InvClear, InvFinish
<1> QED
  BY <1>1, <1>2 DEF Next

-----------------------------------------------------------------------------
(* The pool as cf_init makes it: full buckets only, all on the stack.  The *)
(* r-th address from the end of the bucket b, and its bucket and place.    *)
Cell(b, r) == nr_local_aas * b + r
BucketOf(a) == a \div nr_local_aas
PlaceIn(a) == a % nr_local_aas

LEMMA Cells ==
  /\ nr_local_aas \in Nat \ {0} /\ nr_aa_buckets \in Nat \ {0}
  /\ \A b \in Bucket : \A r \in 0 .. nr_local_aas - 1 :
       Cell(b, r) \in Address /\ BucketOf(Cell(b, r)) = b /\ PlaceIn(Cell(b, r)) = r
  /\ \A a \in Address : /\ BucketOf(a) \in Bucket /\ PlaceIn(a) \in 0 .. nr_local_aas - 1
                        /\ a = Cell(BucketOf(a), PlaceIn(a))
<1> DEFINE n == nr_local_aas
           m == nr_aa_buckets
<1>1. n \in Nat \ {0} /\ m \in Nat \ {0}
  BY LimitsAssumption
<1>2. \A a : a \in Address <=> a \in Int /\ 0 <= a /\ a < n * m
  <2>1. nr_aas = n * m /\ n * m \in Nat
    BY <1>1 DEF nr_aas
  <2> QED BY ONLY <2>1 DEF Address
<1>3. \A b : b \in Bucket <=> b \in Int /\ 0 <= b /\ b < m
  BY ONLY <1>1 DEF Bucket
<1>4. ASSUME NEW b \in Bucket, NEW r \in 0 .. n - 1
      PROVE  Cell(b, r) \in Address /\ BucketOf(Cell(b, r)) = b /\ PlaceIn(Cell(b, r)) = r
  <2>1. b \in Int /\ 0 <= b /\ b < m /\ r \in Int /\ 0 <= r /\ r < n
    BY ONLY <1>1, <1>3, <1>4
  <2>2. n * b + n <= n * m
    BY ONLY <1>1, <2>1, NextRow
  <2>3. n * b \in Nat
    BY ONLY <1>1, <2>1
  <2>4. n * m \in Nat
    BY ONLY <1>1
  <2>5. n * b + r \in Int /\ 0 <= n * b + r /\ n * b + r < n * m
    BY ONLY <1>1, <2>1, <2>2, <2>3, <2>4
  <2>6. Cell(b, r) \in Address
    BY ONLY <1>2, <2>5 DEF Cell
  <2>7. Cell(b, r) = n * b + r
    BY DEF Cell
  <2>8. Cell(b, r) \div n = b /\ Cell(b, r) % n = r
    BY ONLY <1>1, <1>4, <2>1, <2>7, Division
  <2> QED BY ONLY <2>6, <2>8 DEF BucketOf, PlaceIn
<1>5. ASSUME NEW a \in Address
      PROVE  /\ BucketOf(a) \in Bucket /\ PlaceIn(a) \in 0 .. n - 1
             /\ a = Cell(BucketOf(a), PlaceIn(a))
  <2> DEFINE k == a \div n
             r == a % n
  <2>1. a \in Int /\ 0 <= a /\ a < n * m
    BY ONLY <1>2, <1>5
  <2>2. a = n * k + r /\ r \in 0 .. n - 1 /\ k \in Int
    BY ONLY <1>1, <2>1, DivMod
  <2>3. BucketOf(a) = k /\ PlaceIn(a) = r
    BY DEF BucketOf, PlaceIn
  <2> HIDE DEF k, r
  <2>4. n * k \in Int /\ n * m \in Int /\ r \in Int /\ 0 <= r /\ r < n /\ n * 0 = 0
    BY ONLY <1>1, <2>2
  <2>5. 0 <= k
    <3>1. ASSUME k < 0
          PROVE  FALSE
      <4>1. n * k + n <= n * 0
        BY ONLY <1>1, <2>2, <3>1, NextRow
      <4> QED BY ONLY <1>1, <2>1, <2>2, <2>4, <4>1
    <3> QED BY ONLY <2>2, <3>1
  <2>6. k < m
    <3>1. ASSUME m = k
          PROVE  FALSE
      BY ONLY <2>1, <2>2, <2>4, <3>1
    <3>2. ASSUME m < k
          PROVE  FALSE
      <4>1. n * m + n <= n * k
        BY ONLY <1>1, <2>2, <3>2, NextRow
      <4> QED BY ONLY <1>1, <2>1, <2>2, <2>4, <4>1
    <3> QED BY ONLY <1>1, <2>2, <3>1, <3>2
  <2>7. k \in Bucket
    BY ONLY <1>3, <2>2, <2>5, <2>6
  <2>8. Cell(k, r) = n * k + r
    BY DEF Cell
  <2> QED BY ONLY <2>2, <2>3, <2>7, <2>8
<1> QED
  BY ONLY <1>1, <1>4, <1>5

(* What init_free_aa_list puts into aa_space and the full buckets.         *)
LEMMA InitCells ==
  ASSUME init_free_aa_list
  PROVE  /\ \A b \in Bucket : local[b] = Cell(b, nr_local_aas - 1)
         /\ \A a \in Address : PlaceIn(a) > 0 => aa_space[a] = Cell(BucketOf(a), PlaceIn(a) - 1)
         /\ aa_space \in [Address -> Word] /\ local \in [Bucket -> Address]
<1>1. /\ aa_space = [a \in Address |-> IF a % nr_local_aas = 0 THEN 0 ELSE a - 1]
      /\ local = [b \in Bucket |-> (b + 1) * nr_local_aas - 1]
  BY DEF init_free_aa_list
<1>2. nr_local_aas \in Nat \ {0} /\ nr_aa_buckets \in Nat \ {0}
  BY LimitsAssumption
<1>3. ASSUME NEW b \in Bucket
      PROVE  local[b] = Cell(b, nr_local_aas - 1) /\ local[b] \in Address
  <2>1. b \in Int
    BY ONLY <1>2, <1>3 DEF Bucket
  <2>2. (b + 1) * nr_local_aas - 1 = nr_local_aas * b + (nr_local_aas - 1)
    BY ONLY <1>2, <2>1
  <2>3. nr_local_aas - 1 \in 0 .. nr_local_aas - 1
    BY ONLY <1>2
  <2>4. local[b] = Cell(b, nr_local_aas - 1)
    BY ONLY <1>1, <1>3, <2>2 DEF Cell
  <2> QED BY ONLY <1>3, <2>3, <2>4, Cells
<1>4. ASSUME NEW a \in Address
      PROVE  /\ PlaceIn(a) > 0 => aa_space[a] = Cell(BucketOf(a), PlaceIn(a) - 1)
             /\ aa_space[a] \in Address
  <2>1. /\ BucketOf(a) \in Bucket /\ PlaceIn(a) \in 0 .. nr_local_aas - 1
        /\ a = Cell(BucketOf(a), PlaceIn(a))
    BY ONLY <1>4, Cells
  <2>2. aa_space[a] = IF PlaceIn(a) = 0 THEN 0 ELSE a - 1
    BY ONLY <1>1, <1>4 DEF PlaceIn
  <2> DEFINE b == BucketOf(a)
             r == PlaceIn(a)
  <2>3. b \in Int /\ r \in Int /\ nr_local_aas * b \in Int
    BY ONLY <1>2, <2>1 DEF Bucket
  <2>4. a - 1 = Cell(b, r - 1)
    BY ONLY <1>2, <2>1, <2>3 DEF Cell
  <2>5. CASE r = 0
    <3>1. 0 \in Address
      <4>1. 0 \in Bucket /\ 0 \in 0 .. nr_local_aas - 1 /\ nr_local_aas * 0 + 0 = 0
        BY ONLY <1>2 DEF Bucket
      <4> QED BY ONLY <4>1, Cells DEF Cell
    <3> QED BY ONLY <2>2, <2>5, <3>1
  <2>6. CASE r # 0
    <3>1. r - 1 \in 0 .. nr_local_aas - 1
      BY ONLY <1>2, <2>1, <2>6
    <3> QED BY ONLY <2>1, <2>2, <2>4, <2>6, <3>1, Cells
  <2> QED BY ONLY <2>5, <2>6
<1>5. aa_space \in [Address -> Word] /\ local \in [Bucket -> Address]
  BY ONLY <1>1, <1>3, <1>4 DEF Word
<1> QED
  BY ONLY <1>3, <1>4, <1>5

LEMMA InitAddresses ==
  ASSUME init_free_aa_list, \A t \in Thread : data[t].aas_count = 0
  PROVE  \E A : AddressesPlaced(A, aa_space, local, data, Bucket) /\ Apart(Address, A) = {}
<1> DEFINE n == nr_local_aas
           in == [a \in Address |-> Full(BucketOf(a))]
           at == [a \in Address |-> PlaceIn(a) + 1]
           first == [x \in AddressLists |-> Cell(x[2], n - 1)]
           last == [x \in AddressLists |-> Cell(x[2], 0)]
           len == [x \in AddressLists |-> IF x[1] = "full" THEN n ELSE 0]
           A == [in |-> in, at |-> at, first |-> first, last |-> last, len |-> len]
<1>1. /\ A.in = in /\ A.at = at /\ A.first = first /\ A.last = last /\ A.len = len
  OBVIOUS
<1>2. n \in Nat \ {0} /\ n - 1 \in 0 .. n - 1 /\ 0 \in 0 .. n - 1
  BY ONLY Cells
<1>3. \A a \in Address : in[a] = Full(BucketOf(a)) /\ at[a] = PlaceIn(a) + 1
  OBVIOUS
<1>4. \A b \in Bucket : first[Full(b)] = Cell(b, n - 1) /\ last[Full(b)] = Cell(b, 0) /\ len[Full(b)] = n
  BY AddressNames DEF Full
<1>5. \A t \in Thread : len[Open(t)] = 0
  BY AddressNames DEF Open
<1>6. \A b \in Bucket : first[Full(b)] = local[b]
  BY ONLY <1>4, init_free_aa_list, InitCells
<1> HIDE DEF in, at, first, last, len, A, n
<1>7. ASSUME NEW b \in Bucket
      PROVE  IsList(Address, aa_space, in, at, Full(b), first[Full(b)], n)
  <2>1. /\ first[Full(b)] \in Address /\ in[first[Full(b)]] = Full(b) /\ at[first[Full(b)]] = n
    <3>1. Cell(b, n - 1) \in Address /\ BucketOf(Cell(b, n - 1)) = b /\ PlaceIn(Cell(b, n - 1)) = n - 1
      BY ONLY <1>2, <1>7, Cells DEF n
    <3> QED BY ONLY <1>2, <1>3, <1>4, <1>7, <3>1
  <2>2. ASSUME NEW e \in Address, in[e] = Full(b)
        PROVE  /\ BucketOf(e) = b /\ PlaceIn(e) \in 0 .. n - 1 /\ e = Cell(b, PlaceIn(e))
               /\ at[e] = PlaceIn(e) + 1
    <3>1. BucketOf(e) = b
      BY ONLY <1>3, <2>2, AddressNames
    <3>2. PlaceIn(e) \in 0 .. n - 1 /\ e = Cell(BucketOf(e), PlaceIn(e))
      BY ONLY <2>2, Cells DEF n
    <3> QED BY ONLY <1>3, <2>2, <3>1, <3>2
  <2>3. ASSUME NEW e \in Address, in[e] = Full(b)
        PROVE  /\ at[e] \in 1 .. n
               /\ at[e] > 1 => /\ aa_space[e] \in Address /\ in[aa_space[e]] = Full(b)
                               /\ at[aa_space[e]] = at[e] - 1
    <3> DEFINE r == PlaceIn(e)
    <3>1. BucketOf(e) = b /\ r \in 0 .. n - 1 /\ at[e] = r + 1
      BY ONLY <2>2, <2>3
    <3>2. r > 0 => aa_space[e] = Cell(BucketOf(e), r - 1)
      BY ONLY <2>3, init_free_aa_list, InitCells
    <3> HIDE DEF r
    <3>3. ASSUME r > 0
          PROVE  /\ aa_space[e] \in Address /\ in[aa_space[e]] = Full(b) /\ at[aa_space[e]] = r
      <4>1. r - 1 \in 0 .. n - 1
        BY ONLY <1>2, <3>1, <3>3
      <4>2. Cell(b, r - 1) \in Address /\ BucketOf(Cell(b, r - 1)) = b /\ PlaceIn(Cell(b, r - 1)) = r - 1
        BY ONLY <1>7, <4>1, Cells DEF n
      <4>3. (r - 1) + 1 = r
        BY ONLY <1>2, <3>1
      <4> QED BY ONLY <1>3, <3>1, <3>2, <3>3, <4>2, <4>3
    <3> QED BY ONLY <1>2, <3>1, <3>3
  <2>4. ASSUME NEW e \in Address, NEW g \in Address, in[e] = Full(b), in[g] = Full(b), at[e] = at[g]
        PROVE  e = g
    <3> DEFINE r == PlaceIn(e)
               q == PlaceIn(g)
    <3>1. r \in 0 .. n - 1 /\ at[e] = r + 1 /\ q \in 0 .. n - 1 /\ at[g] = q + 1
      BY ONLY <2>2, <2>4
    <3>2. e = Cell(b, r) /\ g = Cell(b, q)
      BY ONLY <2>2, <2>4
    <3> HIDE DEF r, q
    <3>3. r = q
      <4>1. r \in Int /\ q \in Int
        BY ONLY <1>2, <3>1
      <4>2. at[e] = at[g]
        BY ONLY <2>4
      <4>3. r + 1 = q + 1
        BY ONLY <3>1, <4>2
      <4> QED BY ONLY <4>1, <4>3
    <3> QED BY ONLY <3>2, <3>3
  <2> QED BY ONLY <1>2, <2>1, <2>3, <2>4 DEF IsList
<1>8. ASSUME NEW t \in Thread
      PROVE  IsList(Address, aa_space, in, at, Open(t), first[Open(t)], 0)
  <2>1. \A e \in Address : in[e] # Open(t)
    BY ONLY <1>3, AddressNames
  <2> QED BY ONLY <2>1, EmptyList
<1>9. ASSUME NEW b \in Bucket
      PROVE  last[Full(b)] \in Address /\ in[last[Full(b)]] = Full(b) /\ at[last[Full(b)]] = 1
  <2>1. Cell(b, 0) \in Address /\ BucketOf(Cell(b, 0)) = b /\ PlaceIn(Cell(b, 0)) = 0
    BY ONLY <1>2, <1>9, Cells DEF n
  <2> QED BY ONLY <1>3, <1>4, <1>9, <2>1
<1>10. Lists(Address, aa_space, AddressLists, A)
  <2>1. NoList \notin AddressLists
    BY AddressNames
  <2>2. ASSUME NEW x \in AddressLists
        PROVE  /\ IsList(Address, aa_space, A.in, A.at, x, A.first[x], A.len[x])
               /\ A.len[x] > 0 => A.last[x] \in Address /\ A.in[A.last[x]] = x /\ A.at[A.last[x]] = 1
    <3>1. CASE \E t \in Thread : x = Open(t)
      <4>1. PICK t \in Thread : x = Open(t)
        BY <3>1
      <4>2. IsList(Address, aa_space, in, at, x, first[x], 0) /\ len[x] = 0
        BY ONLY <1>5, <1>8, <4>1
      <4> QED BY ONLY <1>1, <4>2
    <3>2. CASE \E b \in Bucket : x = Full(b)
      <4>1. PICK b \in Bucket : x = Full(b)
        BY <3>2
      <4>2. IsList(Address, aa_space, in, at, x, first[x], n) /\ len[x] = n
        BY ONLY <1>4, <1>7, <4>1
      <4>3. last[x] \in Address /\ in[last[x]] = x /\ at[last[x]] = 1
        BY ONLY <1>9, <4>1
      <4> QED BY ONLY <1>1, <4>2, <4>3
    <3> QED BY <3>1, <3>2, AddressNames
  <2>3. \A e \in Address : A.in[e] \in AddressLists
    BY ONLY <1>1, <1>3, Cells, AddressNames
  <2> QED BY ONLY <2>1, <2>2, <2>3 DEF Lists
<1>11. Apart(Address, A) = {}
  BY ONLY <1>1, <1>3, AddressNames DEF Apart
<1>12. AddressesPlaced(A, aa_space, local, data, Bucket)
  <2>1. \A t \in Thread : A.len[Open(t)] = data[t].aas_count /\ ~(data[t].aas_count > 0)
    BY <1>1, <1>5
  <2>2. \A b \in Bucket : A.len[Full(b)] = nr_local_aas /\ A.first[Full(b)] = local[b]
    BY ONLY <1>1, <1>4, <1>6 DEF n
  <2> QED BY ONLY <1>10, <2>1, <2>2 DEF AddressesPlaced
<1> QED
  BY ONLY <1>11, <1>12

LEMMA InitBuckets ==
  ASSUME init_free_aa_list, \A t \in Thread : data[t].abuckets_count = 0
  PROVE  \E N : BucketsPlaced(N, next, free_aa_head, free_aa_buckets_head, data, Bucket, {})
<1> DEFINE m == nr_aa_buckets
           in == [b \in Bucket |-> Stack]
           at == [b \in Bucket |-> b + 1]
           first == [x \in FullLists |-> IF x = Stack THEN m - 1 ELSE Null]
           last == [x \in FullLists |-> 0]
           len == [x \in FullLists |-> IF x = Stack THEN m ELSE 0]
           N == [in |-> in, at |-> at, first |-> first, last |-> last, len |-> len]
<1>1. N.in = in /\ N.at = at /\ N.first = first /\ N.last = last /\ N.len = len
  OBVIOUS
<1>2. m \in Nat \ {0} /\ \A b : b \in Bucket <=> b \in Int /\ 0 <= b /\ b < m
  BY ONLY Cells DEF Bucket
<1>3. \A b \in Bucket : in[b] = Stack /\ at[b] = b + 1
  OBVIOUS
<1>4. /\ first[Stack] = m - 1 /\ last[Stack] = 0 /\ len[Stack] = m
      /\ \A x \in FullLists \ {Stack} : first[x] = Null /\ len[x] = 0
  BY FullNames
<1>5. /\ \A b \in Bucket : next[b] = IF b = 0 THEN Null ELSE b - 1
      /\ free_aa_head = m - 1 /\ free_aa_buckets_head = Null
  BY DEF init_free_aa_list
<1> HIDE DEF m, in, at, first, last, len, N
<1>6. 0 \in Bucket /\ m - 1 \in Bucket
  BY ONLY <1>2
<1>7. IsList(Bucket, next, in, at, Stack, first[Stack], m)
  <2>1. first[Stack] \in Bucket /\ in[first[Stack]] = Stack /\ at[first[Stack]] = m
    BY ONLY <1>2, <1>3, <1>4, <1>6
  <2>2. ASSUME NEW e \in Bucket
        PROVE  /\ at[e] \in 1 .. m
               /\ at[e] > 1 => next[e] \in Bucket /\ in[next[e]] = Stack /\ at[next[e]] = at[e] - 1
    <3>1. e \in Int /\ 0 <= e /\ e < m /\ at[e] = e + 1
      BY ONLY <1>2, <1>3, <2>2
    <3>2. ASSUME e > 0
          PROVE  next[e] = e - 1 /\ e - 1 \in Bucket
      BY ONLY <1>2, <1>5, <2>2, <3>1, <3>2
    <3> QED BY ONLY <1>2, <1>3, <3>1, <3>2
  <2>3. \A e, g \in Bucket : at[e] = at[g] => e = g
    BY ONLY <1>2, <1>3
  <2> QED BY ONLY <1>2, <2>1, <2>2, <2>3 DEF IsList
<1>8. ASSUME NEW x \in FullLists \ {Stack}
      PROVE  IsList(Bucket, next, in, at, x, first[x], 0)
  <2>1. \A e \in Bucket : in[e] # x
    BY ONLY <1>3, <1>8
  <2> QED BY ONLY <2>1, EmptyList
<1>9. Lists(Bucket, next, FullLists, N)
  <2>1. NoList \notin FullLists
    BY FullNames
  <2>2. ASSUME NEW x \in FullLists
        PROVE  /\ IsList(Bucket, next, N.in, N.at, x, N.first[x], N.len[x])
               /\ N.len[x] > 0 => N.last[x] \in Bucket /\ N.in[N.last[x]] = x /\ N.at[N.last[x]] = 1
    <3>1. CASE x = Stack
      <4>1. last[x] \in Bucket /\ in[last[x]] = x /\ at[last[x]] = 1
        BY ONLY <1>3, <1>4, <1>6, <3>1
      <4> QED BY ONLY <1>1, <1>4, <1>7, <3>1, <4>1
    <3>2. CASE x # Stack
      <4>1. IsList(Bucket, next, in, at, x, first[x], 0) /\ len[x] = 0
        BY ONLY <1>4, <1>8, <2>2, <3>2
      <4> QED BY ONLY <1>1, <4>1
    <3> QED BY ONLY <3>1, <3>2
  <2>3. \A e \in Bucket : N.in[e] \in FullLists
    BY ONLY <1>1, <1>3, FullNames
  <2> QED BY ONLY <2>1, <2>2, <2>3 DEF Lists
<1>10. Ends(N, next, Stack, free_aa_head)
  BY ONLY <1>1, <1>2, <1>4, <1>5, <1>6 DEF Ends
<1>11. Ends(N, next, Chains, free_aa_buckets_head)
  <2>1. Chains \in FullLists \ {Stack}
    BY FullNames
  <2> QED BY ONLY <1>1, <1>4, <1>5, <2>1 DEF Ends
<1>12. BucketsPlaced(N, next, free_aa_head, free_aa_buckets_head, data, Bucket, {})
  <2>1. \A t \in Thread : N.len[Kept(t)] = data[t].abuckets_count /\ ~(data[t].abuckets_count > 0)
    BY <1>1, <1>4, FullNames
  <2>2. \A b \in Bucket : N.in[b] = Stack /\ N.in[b] # Chains
    BY <1>1, <1>3, FullNames
  <2> QED BY ONLY <1>9, <1>10, <1>11, <2>1, <2>2 DEF BucketsPlaced
<1> QED
  BY ONLY <1>12

LEMMA InitEmpties ==
  ASSUME \A t \in Thread : data[t].free_abuckets_count = 0
  PROVE  \E L : EmptiesPlaced(L, local, data, {}) /\ Apart(Bucket, L) = Bucket
<1> DEFINE in == [b \in Bucket |-> NoList]
           len == [x \in EmptyLists |-> 0]
           L == [in |-> in, at |-> 0, first |-> 0, last |-> 0, len |-> len]
<1>1. L.in = in /\ L.len = len /\ \A b \in Bucket : in[b] = NoList
  OBVIOUS
<1>2. \A x \in EmptyLists : len[x] = 0
  OBVIOUS
<1>3. NoList \notin EmptyLists
  BY EmptyNames
<1> HIDE DEF in, len, L
<1>4. ASSUME NEW x \in EmptyLists
      PROVE  IsList(Bucket, local, L.in, L.at, x, L.first[x], L.len[x])
  <2>1. \A e \in Bucket : L.in[e] # x
    BY ONLY <1>1, <1>3, <1>4
  <2>2. IsList(Bucket, local, L.in, L.at, x, L.first[x], 0)
    BY ONLY <2>1, EmptyList
  <2>3. L.len[x] = 0
    BY ONLY <1>1, <1>2, <1>4
  <2> QED BY ONLY <2>2, <2>3
<1>5. Lists(Bucket, local, EmptyLists, L)
  BY ONLY <1>1, <1>2, <1>3, <1>4 DEF Lists
<1>6. Apart(Bucket, L) = Bucket
  BY ONLY <1>1 DEF Apart
<1>7. EmptiesPlaced(L, local, data, {})
  <2>1. \A t \in Thread : L.len[Empty(t)] = data[t].free_abuckets_count /\ ~(data[t].free_abuckets_count > 0)
    BY <1>1, <1>2, EmptyNames
  <2>2. \A b \in Bucket : L.len[Chain(b)] = 0
    BY <1>1, <1>2, EmptyNames
  <2> QED BY ONLY <1>5, <1>6, <2>1, <2>2 DEF EmptiesPlaced
<1> QED
  BY ONLY <1>6, <1>7

LEMMA InitInv == Init => Inv
<1> SUFFICES ASSUME Init PROVE Inv
  OBVIOUS
<1>1. /\ init_free_aa_list /\ data = [t \in Thread |-> init_thread]
      /\ pending = [t \in Thread |-> idle] /\ live = {} /\ failed = FALSE
  BY DEF Init, get_thread_data
<1>2. \A t \in Thread : /\ data[t].aas_count = 0 /\ data[t].abuckets_count = 0
                        /\ data[t].free_abuckets_count = 0
  BY ONLY <1>1 DEF init_thread
<1>3. PICK A : AddressesPlaced(A, aa_space, local, data, Bucket) /\ Apart(Address, A) = {}
  BY ONLY <1>1, <1>2, InitAddresses
<1>4. PICK N : BucketsPlaced(N, next, free_aa_head, free_aa_buckets_head, data, Bucket, {})
  BY ONLY <1>1, <1>2, InitBuckets
<1>5. PICK L : EmptiesPlaced(L, local, data, {}) /\ Apart(Bucket, L) = Bucket
  BY ONLY <1>2, InitEmpties
<1>6. \A t \in Thread : pending[t] = idle
  BY ONLY <1>1
<1>7. PutBy(pending) = {} /\ GetBy(pending) = {} /\ PendingApart(pending)
  <2>1. pending \in [Thread -> Pending]
    BY ONLY <1>1, PendingKinds
  <2> QED BY ONLY <1>6, <2>1, PendingKinds DEF PutBy, GetBy, PendingApart
<1>8. Pool(aa_space, next, local, free_aa_head, free_aa_buckets_head, data, {}, Bucket, Bucket)
  BY ONLY <1>3, <1>4, <1>5 DEF Pool, AllPlaced
<1>9. PoolAt(Bucket)
  <2>1. live \cup PutBy(pending) = {} /\ Bucket \cup GetBy(pending) = Bucket /\ Bucket \cap GetBy(pending) = {}
    BY ONLY <1>1, <1>7
  <2> QED BY ONLY <1>8, <2>1 DEF PoolAt
<1>10. Fits(data, pending, free_aa_buckets_head, failed)
  <2>1. \A t \in Thread : pending[t].kind = "idle"
    BY ONLY <1>6, PendingKinds
  <2> QED BY ONLY <1>1, <2>1 DEF Fits
<1>11. TypeOK
  <2>1. aa_space \in [Address -> Word] /\ local \in [Bucket -> Address \cup Link]
    <3>1. aa_space \in [Address -> Word] /\ local \in [Bucket -> Address]
      BY ONLY <1>1, InitCells
    <3> QED BY ONLY <3>1
  <2>2. nr_aa_buckets \in Nat \ {0} /\ nr_local_aas \in Nat \ {0} /\ nr_local_abuckets \in Nat \ {0}
        /\ nr_local_free_abuckets \in Nat \ {0}
    BY LimitsAssumption
  <2>3. next \in [Bucket -> Link] /\ free_aa_head \in Link /\ free_aa_buckets_head \in Link
    BY ONLY <1>1, <2>2 DEF init_free_aa_list, Link, Bucket
  <2>4. init_thread \in ThreadData
    <3>1. 0 \in 0 .. nr_local_aas /\ 0 \in 0 .. nr_local_abuckets - 1 /\ 0 \in 0 .. nr_local_free_abuckets
      BY ONLY <2>2
    <3>2. 0 \in Word
      <4>1. 0 \in Bucket /\ 0 \in 0 .. nr_local_aas - 1 /\ nr_local_aas * 0 + 0 = 0
        BY ONLY <2>2 DEF Bucket
      <4>2. Cell(0, 0) \in Address
        BY ONLY <4>1, Cells
      <4> QED BY ONLY <4>1, <4>2 DEF Cell, Word
    <3>3. Null \in Link
      BY DEF Link
    <3> QED BY ONLY <3>1, <3>2, <3>3 DEF init_thread, ThreadData
  <2>5. data \in [Thread -> ThreadData]
    BY ONLY <1>1, <2>4
  <2> QED BY ONLY <1>1, <1>7, <2>1, <2>3, <2>5 DEF TypeOK, PendingApart
<1> QED
  BY ONLY <1>1, <1>7, <1>9, <1>10, <1>11 DEF Inv

(* The free addresses and the buckets are always so linked and counted,    *)
(* whatever the operations and however the threads make them.              *)
LEMMA InvAlways == Spec => []Inv
<1>1. Init => Inv
  BY InitInv
<1>2. Inv /\ [Next]_vars => Inv'
  BY InvNext
<1> QED
  BY <1>1, <1>2, PTL DEF Spec

(* What struct thread_data, the buckets and the two stacks hold is of its  *)
(* type: put_free_aa never overfills a list or keeps a bucket too many.    *)
THEOREM TypeCorrect == Spec => []TypeOK
<1>1. Inv => TypeOK
  BY DEF Inv
<1> QED
  BY <1>1, InvAlways, PTL

-----------------------------------------------------------------------------
(* chain follows a walk; the elements of a list are what it returns.       *)
Along(E, f, x, n, a) ==
  /\ IsWalk(E, f, x, n, Null, a)
  /\ DOMAIN chain(E, f, x, n) = 1 .. n
  /\ \A i \in 1 .. n : chain(E, f, x, n)[i] = a[i - 1]

LEMMA ChainWalk ==
  ASSUME NEW E, NEW f, NEW x, NEW n \in Nat
  PROVE  \E a : Along(E, f, x, n, a)
<1> DEFINE a == CHOOSE b : IsWalk(E, f, x, n, Null, b)
<1>1. chain(E, f, x, n) = [i \in 1 .. n |-> a[i - 1]]
  BY DEF chain, link, IsWalk
<1>2. IsWalk(E, f, x, n, Null, a)
  BY WalkExists
<1> HIDE DEF a
<1>3. DOMAIN chain(E, f, x, n) = 1 .. n /\ \A i \in 1 .. n : chain(E, f, x, n)[i] = a[i - 1]
  BY ONLY <1>1
<1>4. Along(E, f, x, n, a)
  BY ONLY <1>2, <1>3 DEF Along
<1> QED
  BY ONLY <1>4

LEMMA ChainSpelled ==
  ASSUME NEW E, NEW f, NEW K, NEW s, Lists(E, f, K, s),
         NEW x \in K, NEW n, n = s.len[x], NEW first, n > 0 => first = s.first[x]
  PROVE  Spelled(E, chain(E, f, first, n), s.in, s.at, x, n)
<1>1. IsList(E, f, s.in, s.at, x, s.first[x], n)
  BY DEF Lists
<1>2. n \in Nat
  BY ONLY <1>1 DEF IsList
<1>3. IsList(E, f, s.in, s.at, x, first, n)
  <2>1. CASE n > 0
    BY ONLY <1>1, <2>1, n > 0 => first = s.first[x]
  <2>2. CASE n = 0
    <3>1. IsList(E, f, s.in, s.at, x, s.first[x], 0)
      BY ONLY <1>1, <2>2
    <3>2. \A e \in E : s.in[e] # x
      BY ONLY <3>1, EmptyList
    <3>3. IsList(E, f, s.in, s.at, x, first, 0)
      BY ONLY <3>2, EmptyList
    <3> QED BY ONLY <2>2, <3>3
  <2> QED BY <1>2, <2>1, <2>2
<1>4. PICK a : Along(E, f, first, n, a)
  BY ONLY <1>2, ChainWalk
<1> DEFINE w == chain(E, f, first, n)
<1>5. IsWalk(E, f, first, n, Null, a) /\ DOMAIN w = 1 .. n /\ \A i \in 1 .. n : w[i] = a[i - 1]
  BY ONLY <1>4 DEF Along
<1> HIDE DEF w
<1>6. Spelled(E, w, s.in, s.at, x, n)
  BY ONLY <1>3, <1>5, WalkSpells
<1> QED
  BY ONLY <1>6 DEF w

(* lists[y] has the list of s of the name nm[y]. *)
Family(E, f, K, s, lists, nm, first, n) ==
  /\ Lists(E, f, K, s)
  /\ \A y \in DOMAIN lists : /\ nm[y] \in K /\ n[y] = s.len[nm[y]]
                             /\ n[y] > 0 => first[y] = s.first[nm[y]]
                             /\ lists[y] = chain(E, f, first[y], n[y])
  /\ \A y, z \in DOMAIN lists : nm[y] = nm[z] => y = z

LEMMA FamilyOnce ==
  ASSUME NEW E, NEW f, NEW K, NEW s, NEW lists, NEW nm, NEW first, NEW n,
         Family(E, f, K, s, lists, nm, first, n)
  PROVE  /\ NoneTwice(lists)
         /\ members(lists) = {e \in E : \E y \in DOMAIN lists : s.in[e] = nm[y]}
<1>1. Lists(E, f, K, s) /\ \A y, z \in DOMAIN lists : nm[y] = nm[z] => y = z
  BY DEF Family
<1>2. ASSUME NEW y \in DOMAIN lists
      PROVE  Spelled(E, lists[y], s.in, s.at, nm[y], n[y])
  <2>1. /\ nm[y] \in K /\ n[y] = s.len[nm[y]]
        /\ n[y] > 0 => first[y] = s.first[nm[y]]
        /\ lists[y] = chain(E, f, first[y], n[y])
    BY DEF Family
  <2>2. Spelled(E, chain(E, f, first[y], n[y]), s.in, s.at, nm[y], n[y])
    BY ONLY <1>1, <2>1, ChainSpelled
  <2> QED BY ONLY <2>1, <2>2
<1> DEFINE in == s.in
           at == s.at
<1>3. AllSpelled(E, lists, in, at, nm, n)
  BY ONLY <1>1, <1>2 DEF AllSpelled
<1> HIDE DEF in, at
<1>4. /\ \A x, y \in DOMAIN lists : \A i \in DOMAIN lists[x], j \in DOMAIN lists[y] :
           lists[x][i] = lists[y][j] => x = y /\ i = j
      /\ UNION {{lists[x][i] : i \in DOMAIN lists[x]} : x \in DOMAIN lists}
           = {e \in E : \E x \in DOMAIN lists : in[e] = nm[x]}
  BY ONLY <1>3, SpelledApart
<1>5. NoneTwice(lists)
  BY ONLY <1>4 DEF NoneTwice
<1>6. members(lists) = {e \in E : \E x \in DOMAIN lists : in[e] = nm[x]}
  BY ONLY <1>4 DEF members, Range
<1> QED
  BY ONLY <1>5, <1>6 DEF in

(* stack_of comes to the end of a stack. *)
LEMMA StackOnce ==
  ASSUME NEW N, Lists(Bucket, next, FullLists, N), NEW x \in FullLists, NEW hd, Ends(N, next, x, hd)
  PROVE  IsInjective(stack_of(hd)) /\ Range(stack_of(hd)) = {b \in Bucket : N.in[b] = x}
<1> DEFINE n == N.len[x]
           k == nr_aa_buckets
           in == N.in
           at == N.at
<1>1. k \in Nat /\ Null \notin Bucket
  BY LimitsAssumption, NullAssumption
<1>2. /\ IsList(Bucket, next, in, at, x, hd, n)
      /\ n > 0 => N.last[x] \in Bucket /\ in[N.last[x]] = x /\ at[N.last[x]] = 1
  BY DEF Lists, Ends
<1>3. n \in Nat
  BY ONLY <1>2 DEF IsList
<1>4. n = 0 => hd = Null
  BY DEF Ends
<1>5. n > 0 => next[N.last[x]] = Null
  BY DEF Ends
<1> HIDE DEF n, k, in, at
<1>6. \A e \in Bucket : in[e] = x /\ at[e] = 1 => next[e] = Null
  <2> TAKE e \in Bucket
  <2> HAVE in[e] = x /\ at[e] = 1
  <2>1. n > 0
    BY ONLY <1>2, <1>3, in[e] = x /\ at[e] = 1, e \in Bucket DEF IsList
  <2>2. e = N.last[x]
    BY ONLY <1>2, <2>1, in[e] = x /\ at[e] = 1, e \in Bucket DEF IsList
  <2> QED BY ONLY <1>5, <2>1, <2>2
<1>7. n <= k
  <2>1. Bucket = 0 .. k - 1
    BY DEF Bucket, k
  <2>2. IsFiniteSet(0 .. k - 1) /\ Cardinality(0 .. k - 1) = IF 0 > k - 1 THEN 0 ELSE (k - 1) - 0 + 1
    BY ONLY <1>1, FS_Interval, k - 1 \in Int
  <2>3. IsFiniteSet(Bucket) /\ Cardinality(Bucket) = k
    BY ONLY <1>1, <2>1, <2>2
  <2>4. n <= Cardinality(Bucket)
    BY ONLY <1>2, <2>3, ListLength
  <2> QED BY ONLY <2>3, <2>4
<1>8. PICK a : Along(Bucket, next, hd, k, a)
  BY ONLY <1>1, ChainWalk
<1> DEFINE s == chain(Bucket, next, hd, k)
           w == [i \in {j \in 1 .. k : s[j] # Null} |-> s[i]]
<1>9. IsWalk(Bucket, next, hd, k, Null, a) /\ DOMAIN s = 1 .. k /\ \A i \in 1 .. k : s[i] = a[i - 1]
  BY ONLY <1>8 DEF Along
<1>10. stack_of(hd) = w
  BY DEF stack_of, k
<1> HIDE DEF s
<1>11. Spelled(Bucket, w, in, at, x, n)
  BY ONLY <1>1, <1>2, <1>4, <1>6, <1>7, <1>9, WalkSpellsAll
<1> HIDE DEF w
<1>12. /\ \A i, j \in DOMAIN w : w[i] = w[j] => i = j
       /\ {w[i] : i \in DOMAIN w} = {e \in Bucket : in[e] = x}
  BY ONLY <1>11, SpelledOnce
<1> QED
  BY ONLY <1>10, <1>12 DEF IsInjective, Range, in

-----------------------------------------------------------------------------
(* What is in the lists of the threads, the buckets and the stacks.        *)
LEMMA ListedOnce ==
  ASSUME NEW A, NEW F, AddressesPlaced(A, aa_space, local, data, F)
  PROVE  /\ NoneTwice(listed)
         /\ members(listed) = {a \in Address : \E t \in Thread : A.in[a] = Open(t)}
<1> DEFINE nm == [t \in Thread |-> Open(t)]
           first == [t \in Thread |-> data[t].aas]
           n == [t \in Thread |-> data[t].aas_count]
<1>1. DOMAIN listed = Thread
  BY DEF listed
<1>2. \A t \in Thread : /\ nm[t] = Open(t) /\ n[t] = A.len[nm[t]] /\ nm[t] \in AddressLists
                        /\ n[t] > 0 => first[t] = A.first[nm[t]]
                        /\ listed[t] = chain(Address, aa_space, first[t], n[t])
  BY AddressNames DEF AddressesPlaced, listed
<1> HIDE DEF nm, first, n
<1>3. Family(Address, aa_space, AddressLists, A, listed, nm, first, n)
  BY ONLY <1>1, <1>2, AddressNames, AddressesPlaced(A, aa_space, local, data, F) DEF Family, AddressesPlaced
<1>4. NoneTwice(listed) /\ members(listed) = {a \in Address : \E t \in DOMAIN listed : A.in[a] = nm[t]}
  BY ONLY <1>3, FamilyOnce
<1> QED
  BY ONLY <1>1, <1>2, <1>4

LEMMA FilledOnce ==
  ASSUME NEW A, NEW F, AddressesPlaced(A, aa_space, local, data, F), full_buckets = F
  PROVE  /\ NoneTwice(filled)
         /\ members(filled) = {a \in Address : \E b \in F : A.in[a] = Full(b)}
<1> DEFINE nm == [b \in F |-> Full(b)]
           first == [b \in F |-> local[b]]
           n == [b \in F |-> nr_local_aas]
<1>1. DOMAIN filled = F
  BY DEF filled
<1>2. \A b \in F : /\ nm[b] = Full(b) /\ n[b] = A.len[nm[b]] /\ nm[b] \in AddressLists
                   /\ n[b] > 0 => first[b] = A.first[nm[b]]
                   /\ filled[b] = chain(Address, aa_space, first[b], n[b])
  BY AddressNames DEF AddressesPlaced, filled
<1> HIDE DEF nm, first, n
<1>3. Family(Address, aa_space, AddressLists, A, filled, nm, first, n)
  BY ONLY <1>1, <1>2, AddressNames, AddressesPlaced(A, aa_space, local, data, F) DEF Family, AddressesPlaced
<1>4. NoneTwice(filled) /\ members(filled) = {a \in Address : \E b \in DOMAIN filled : A.in[a] = nm[b]}
  BY ONLY <1>3, FamilyOnce
<1> QED
  BY ONLY <1>1, <1>2, <1>4

LEMMA FullWithOnce ==
  ASSUME NEW N, NEW F, NEW C, BucketsPlaced(N, next, free_aa_head, free_aa_buckets_head, data, F, C)
  PROVE  /\ NoneTwice(full_with)
         /\ members(full_with) = {b \in Bucket : \E t \in Thread : N.in[b] = Kept(t)}
<1> DEFINE nm == [t \in Thread |-> Kept(t)]
           first == [t \in Thread |-> data[t].abuckets]
           n == [t \in Thread |-> data[t].abuckets_count]
<1>1. DOMAIN full_with = Thread
  BY DEF full_with
<1>2. \A t \in Thread : /\ nm[t] = Kept(t) /\ n[t] = N.len[nm[t]] /\ nm[t] \in FullLists
                        /\ n[t] > 0 => first[t] = N.first[nm[t]]
                        /\ full_with[t] = chain(Bucket, next, first[t], n[t])
  BY FullNames DEF BucketsPlaced, full_with
<1>3. Lists(Bucket, next, FullLists, N)
  BY DEF BucketsPlaced
<1> HIDE DEF nm, first, n
<1>4. Family(Bucket, next, FullLists, N, full_with, nm, first, n)
  BY ONLY <1>1, <1>2, <1>3, FullNames DEF Family
<1>5. NoneTwice(full_with) /\ members(full_with) = {b \in Bucket : \E t \in DOMAIN full_with : N.in[b] = nm[t]}
  BY ONLY <1>4, FamilyOnce
<1> QED
  BY ONLY <1>1, <1>2, <1>5

LEMMA StacksOnce ==
  ASSUME NEW N, NEW F, NEW C, BucketsPlaced(N, next, free_aa_head, free_aa_buckets_head, data, F, C)
  PROVE  /\ IsInjective(full_on_stack) /\ Range(full_on_stack) = {b \in Bucket : N.in[b] = Stack}
         /\ IsInjective(chains_on_stack) /\ Range(chains_on_stack) = C
<1>1. /\ Lists(Bucket, next, FullLists, N)
      /\ Ends(N, next, Stack, free_aa_head) /\ Ends(N, next, Chains, free_aa_buckets_head)
      /\ C = {b \in Bucket : N.in[b] = Chains}
  BY DEF BucketsPlaced
<1>2. Stack \in FullLists /\ Chains \in FullLists
  BY FullNames
<1>3. IsInjective(stack_of(free_aa_head)) /\ Range(stack_of(free_aa_head)) = {b \in Bucket : N.in[b] = Stack}
  BY ONLY <1>1, <1>2, StackOnce
<1>4. /\ IsInjective(stack_of(free_aa_buckets_head))
      /\ Range(stack_of(free_aa_buckets_head)) = {b \in Bucket : N.in[b] = Chains}
  BY ONLY <1>1, <1>2, StackOnce
<1> QED
  BY ONLY <1>1, <1>3, <1>4 DEF full_on_stack, chains_on_stack

LEMMA EmptyWithOnce ==
  ASSUME NEW L, NEW C, EmptiesPlaced(L, local, data, C)
  PROVE  /\ NoneTwice(empty_with)
         /\ members(empty_with) = {b \in Bucket : \E t \in Thread : L.in[b] = Empty(t)}
<1> DEFINE nm == [t \in Thread |-> Empty(t)]
           first == [t \in Thread |-> data[t].free_abuckets]
           n == [t \in Thread |-> data[t].free_abuckets_count]
<1>1. DOMAIN empty_with = Thread
  BY DEF empty_with
<1>2. \A t \in Thread : /\ nm[t] = Empty(t) /\ n[t] = L.len[nm[t]] /\ nm[t] \in EmptyLists
                        /\ n[t] > 0 => first[t] = L.first[nm[t]]
                        /\ empty_with[t] = chain(Bucket, local, first[t], n[t])
  BY EmptyNames DEF EmptiesPlaced, empty_with
<1>3. Lists(Bucket, local, EmptyLists, L)
  BY DEF EmptiesPlaced
<1> HIDE DEF nm, first, n
<1>4. Family(Bucket, local, EmptyLists, L, empty_with, nm, first, n)
  BY ONLY <1>1, <1>2, <1>3, EmptyNames DEF Family
<1>5. NoneTwice(empty_with) /\ members(empty_with) = {b \in Bucket : \E t \in DOMAIN empty_with : L.in[b] = nm[t]}
  BY ONLY <1>4, FamilyOnce
<1> QED
  BY ONLY <1>1, <1>2, <1>5

LEMMA EmptyOnStackOnce ==
  ASSUME NEW L, NEW C, EmptiesPlaced(L, local, data, C), Range(chains_on_stack) = C
  PROVE  /\ NoneTwice(empty_on_stack)
         /\ members(empty_on_stack) = {b \in Bucket : \E c \in C : L.in[b] = Chain(c)}
<1> DEFINE nm == [b \in C |-> Chain(b)]
           first == [b \in C |-> b]
           n == [b \in C |-> nr_local_free_abuckets]
<1>1. DOMAIN empty_on_stack = C
  BY DEF empty_on_stack
<1>2. \A b \in C : /\ nm[b] = Chain(b) /\ n[b] = L.len[nm[b]] /\ nm[b] \in EmptyLists
                   /\ n[b] > 0 => first[b] = L.first[nm[b]]
                   /\ empty_on_stack[b] = chain(Bucket, local, first[b], n[b])
  BY EmptyNames DEF EmptiesPlaced, empty_on_stack
<1>3. Lists(Bucket, local, EmptyLists, L)
  BY DEF EmptiesPlaced
<1> HIDE DEF nm, first, n
<1>4. Family(Bucket, local, EmptyLists, L, empty_on_stack, nm, first, n)
  BY ONLY <1>1, <1>2, <1>3, EmptyNames DEF Family
<1>5. /\ NoneTwice(empty_on_stack)
      /\ members(empty_on_stack) = {b \in Bucket : \E c \in DOMAIN empty_on_stack : L.in[b] = nm[c]}
  BY ONLY <1>4, FamilyOnce
<1> QED
  BY ONLY <1>1, <1>2, <1>5

(* What the threads have between two calls. *)
LEMMA PuttingOnce ==
  ASSUME PendingApart(pending)
  PROVE  IsInjective(putting) /\ Range(putting) = PutBy(pending)
<1>1. ASSUME NEW t \in waiting("put")
      PROVE  t \in Thread /\ putting[t] \in Address /\ pending[t] = Putting(putting[t]) /\ pending[t] # idle
  <2>1. t \in Thread /\ pending[t].kind = "put" /\ pending[t] \in Pending /\ putting[t] = pending[t].id
    BY DEF waiting, PendingApart, putting
  <2>2. pending[t] = idle \/ (pending[t].id \in Address /\ pending[t] = Putting(pending[t].id))
          \/ pending[t] = Getting(pending[t].maa)
    BY ONLY <2>1, PendingKinds
  <2>3. pending[t].id \in Address /\ pending[t] = Putting(pending[t].id) /\ pending[t] # idle
    BY ONLY <2>1, <2>2, PendingKinds
  <2> QED BY ONLY <2>1, <2>3
<1>2. DOMAIN putting = waiting("put")
  BY DEF putting
<1>3. \A t, u \in Thread : pending[t] = pending[u] /\ pending[t] # idle => t = u
  BY DEF PendingApart
<1>4. IsInjective(putting)
  BY ONLY <1>1, <1>2, <1>3 DEF IsInjective
<1>5. ASSUME NEW a, a \in PutBy(pending)
      PROVE  a \in Range(putting)
  <2>1. PICK t \in Thread : pending[t] = Putting(a)
    BY <1>5 DEF PutBy
  <2>2. t \in waiting("put") /\ putting[t] = a
    BY <2>1, PendingKinds DEF waiting, putting
  <2> QED BY ONLY <1>2, <2>2 DEF Range
<1>6. ASSUME NEW a, a \in Range(putting)
      PROVE  a \in PutBy(pending)
  BY ONLY <1>1, <1>2, <1>6 DEF Range, PutBy
<1> QED
  BY ONLY <1>4, <1>5, <1>6

LEMMA KeepingOnce ==
  ASSUME PendingApart(pending)
  PROVE  IsInjective(keeping) /\ Range(keeping) = GetBy(pending)
<1>1. ASSUME NEW t \in waiting("get")
      PROVE  t \in Thread /\ keeping[t] \in Bucket /\ pending[t] = Getting(keeping[t]) /\ pending[t] # idle
  <2>1. t \in Thread /\ pending[t].kind = "get" /\ pending[t] \in Pending /\ keeping[t] = pending[t].maa
    BY DEF waiting, PendingApart, keeping
  <2>2. pending[t] = idle \/ (pending[t].maa \in Bucket /\ pending[t] = Getting(pending[t].maa))
          \/ pending[t] = Putting(pending[t].id)
    BY ONLY <2>1, PendingKinds
  <2>3. pending[t].maa \in Bucket /\ pending[t] = Getting(pending[t].maa) /\ pending[t] # idle
    BY ONLY <2>1, <2>2, PendingKinds
  <2> QED BY ONLY <2>1, <2>3
<1>2. DOMAIN keeping = waiting("get")
  BY DEF keeping
<1>3. \A t, u \in Thread : pending[t] = pending[u] /\ pending[t] # idle => t = u
  BY DEF PendingApart
<1>4. IsInjective(keeping)
  BY ONLY <1>1, <1>2, <1>3 DEF IsInjective
<1>5. ASSUME NEW b, b \in GetBy(pending)
      PROVE  b \in Range(keeping)
  <2>1. PICK t \in Thread : pending[t] = Getting(b)
    BY <1>5 DEF GetBy
  <2>2. t \in waiting("get") /\ keeping[t] = b
    BY <2>1, PendingKinds DEF waiting, keeping
  <2> QED BY ONLY <1>2, <2>2 DEF Range
<1>6. ASSUME NEW b, b \in Range(keeping)
      PROVE  b \in GetBy(pending)
  BY ONLY <1>1, <1>2, <1>6 DEF Range, GetBy
<1> QED
  BY ONLY <1>4, <1>5, <1>6

-----------------------------------------------------------------------------
(* The whole pool, at a state where the invariant holds. *)
LEMMA InvPlaces ==
  ASSUME Inv
  PROVE  \E A, N, L, C, F :
           /\ AddressesPlaced(A, aa_space, local, data, F)
           /\ live \cup PutBy(pending) = Apart(Address, A) /\ live \cap PutBy(pending) = {}
           /\ BucketsPlaced(N, next, free_aa_head, free_aa_buckets_head, data, F, C)
           /\ EmptiesPlaced(L, local, data, C)
           /\ F \cup GetBy(pending) = Apart(Bucket, L) /\ F \cap GetBy(pending) = {}
<1>1. PICK F : PoolAt(F)
  BY DEF Inv
<1>2. PICK A, N, L, C :
        AllPlaced(aa_space, next, local, free_aa_head, free_aa_buckets_head, data,
                  live \cup PutBy(pending), F \cup GetBy(pending), F, A, N, L, C)
  BY ONLY <1>1 DEF PoolAt, Pool
<1>3. F \cap GetBy(pending) = {}
  BY ONLY <1>1 DEF PoolAt
<1>4. live \cap PutBy(pending) = {}
  BY DEF Inv
<1> QED
  BY ONLY <1>2, <1>3, <1>4 DEF AllPlaced

LEMMA FullBuckets ==
  ASSUME NEW N, NEW F, NEW C, BucketsPlaced(N, next, free_aa_head, free_aa_buckets_head, data, F, C)
  PROVE  full_buckets = F
<1>1. Range(full_on_stack) = {b \in Bucket : N.in[b] = Stack}
  BY StacksOnce
<1>2. members(full_with) = {b \in Bucket : \E t \in Thread : N.in[b] = Kept(t)}
  BY FullWithOnce
<1>3. F = {b \in Bucket : N.in[b] = Stack \/ \E t \in Thread : N.in[b] = Kept(t)}
  BY DEF BucketsPlaced
<1> QED
  BY ONLY <1>1, <1>2, <1>3 DEF full_buckets

LEMMA InvAddressOnce ==
  ASSUME Inv
  PROVE  EveryAddressOnce
<1>1. PICK A, N, L, C, F :
        /\ AddressesPlaced(A, aa_space, local, data, F)
        /\ live \cup PutBy(pending) = Apart(Address, A) /\ live \cap PutBy(pending) = {}
        /\ BucketsPlaced(N, next, free_aa_head, free_aa_buckets_head, data, F, C)
  BY InvPlaces
<1>2. full_buckets = F
  BY ONLY <1>1, FullBuckets
<1>3. NoneTwice(listed) /\ members(listed) = {a \in Address : \E t \in Thread : A.in[a] = Open(t)}
  BY ONLY <1>1, ListedOnce
<1>4. NoneTwice(filled) /\ members(filled) = {a \in Address : \E b \in F : A.in[a] = Full(b)}
  BY ONLY <1>1, <1>2, FilledOnce
<1>5. PendingApart(pending)
  BY DEF Inv
<1>6. IsInjective(putting) /\ Range(putting) = PutBy(pending)
  BY ONLY <1>5, PuttingOnce
<1>7. \A a \in Address : A.in[a] = NoList \/ (\E t \in Thread : A.in[a] = Open(t)) \/ \E b \in F : A.in[a] = Full(b)
  <2> TAKE a \in Address
  <2>1. Lists(Address, aa_space, AddressLists, A)
    BY ONLY <1>1 DEF AddressesPlaced
  <2>2. A.in[a] \in AddressLists \/ A.in[a] = NoList
    BY ONLY <2>1, a \in Address DEF Lists
  <2>3. ASSUME NEW b \in Bucket, A.in[a] = Full(b)
        PROVE  b \in F
    <3>1. A.len[Full(b)] # 0
      BY ONLY <2>1, <2>3, a \in Address, b \in Bucket, AddressNames, ListsHave
    <3> QED BY ONLY <1>1, <3>1, b \in Bucket DEF AddressesPlaced
  <2> QED BY ONLY <2>2, <2>3, AddressNames
<1>8. Apart(Address, A) = Address \ (members(listed) \cup members(filled))
  BY ONLY <1>3, <1>4, <1>7, AddressNames DEF Apart
<1>9. members(listed) \cap members(filled) = {}
  BY ONLY <1>3, <1>4, AddressNames
<1>10. Range(putting) \cap (members(listed) \cup members(filled)) = {}
  BY ONLY <1>1, <1>6, <1>8
<1>11. live = Address \ (members(listed) \cup members(filled) \cup Range(putting))
  BY ONLY <1>1, <1>6, <1>8
<1> QED
  BY ONLY <1>3, <1>4, <1>6, <1>9, <1>10, <1>11 DEF EveryAddressOnce

LEMMA InvBucketOnce ==
  ASSUME Inv
  PROVE  EveryBucketOnce
<1>1. PICK A, N, L, C, F :
        /\ BucketsPlaced(N, next, free_aa_head, free_aa_buckets_head, data, F, C)
        /\ EmptiesPlaced(L, local, data, C)
        /\ F \cup GetBy(pending) = Apart(Bucket, L) /\ F \cap GetBy(pending) = {}
  BY InvPlaces
<1>2. full_buckets = F
  BY ONLY <1>1, FullBuckets
<1>3. NoneTwice(full_with) /\ members(full_with) = {b \in Bucket : \E t \in Thread : N.in[b] = Kept(t)}
  BY ONLY <1>1, FullWithOnce
<1>4. /\ IsInjective(full_on_stack) /\ Range(full_on_stack) = {b \in Bucket : N.in[b] = Stack}
      /\ IsInjective(chains_on_stack) /\ Range(chains_on_stack) = C
  BY ONLY <1>1, StacksOnce
<1>5. NoneTwice(empty_with) /\ members(empty_with) = {b \in Bucket : \E t \in Thread : L.in[b] = Empty(t)}
  BY ONLY <1>1, EmptyWithOnce
<1>6. NoneTwice(empty_on_stack) /\ members(empty_on_stack) = {b \in Bucket : \E c \in C : L.in[b] = Chain(c)}
  BY ONLY <1>1, <1>4, EmptyOnStackOnce
<1>7. PendingApart(pending)
  BY DEF Inv
<1>8. IsInjective(keeping) /\ Range(keeping) = GetBy(pending)
  BY ONLY <1>7, KeepingOnce
<1>9. \A b \in Bucket : L.in[b] = NoList \/ (\E t \in Thread : L.in[b] = Empty(t)) \/ \E c \in C : L.in[b] = Chain(c)
  <2> TAKE b \in Bucket
  <2>1. Lists(Bucket, local, EmptyLists, L)
    BY ONLY <1>1 DEF EmptiesPlaced
  <2>2. L.in[b] \in EmptyLists \/ L.in[b] = NoList
    BY ONLY <2>1, b \in Bucket DEF Lists
  <2>3. ASSUME NEW c \in Bucket, L.in[b] = Chain(c)
        PROVE  c \in C
    <3>1. L.len[Chain(c)] # 0
      BY ONLY <2>1, <2>3, b \in Bucket, c \in Bucket, EmptyNames, ListsHave
    <3> QED BY ONLY <1>1, <3>1, c \in Bucket DEF EmptiesPlaced
  <2> QED BY ONLY <2>2, <2>3, EmptyNames
<1>10. Apart(Bucket, L) = Bucket \ (members(empty_with) \cup members(empty_on_stack))
  BY ONLY <1>5, <1>6, <1>9, EmptyNames DEF Apart
<1>11. members(empty_with) \cap members(empty_on_stack) = {}
  BY ONLY <1>5, <1>6, EmptyNames
<1>12. Range(full_on_stack) \cap members(full_with) = {}
  BY ONLY <1>3, <1>4, FullNames
<1> DEFINE Q == Range(full_on_stack) \cup members(full_with)
<1>13. Q = F
  BY ONLY <1>2 DEF full_buckets
<1> HIDE DEF Q
<1>14. Q \cap (members(empty_with) \cup members(empty_on_stack)) = {}
  BY ONLY <1>1, <1>10, <1>13
<1>15. Range(keeping) = Bucket \ (Q \cup members(empty_with) \cup members(empty_on_stack))
  BY ONLY <1>1, <1>8, <1>10, <1>13
<1> QED
  BY ONLY <1>3, <1>4, <1>5, <1>6, <1>8, <1>11, <1>12, <1>14, <1>15 DEF EveryBucketOnce, Q

(* EveryAddressOnce: no operation of the pool, whatever the others do in   *)
(* between, loses an abstract address or gives one to two objects.         *)
THEOREM AddressesApart == Spec => []EveryAddressOnce
<1>1. Inv => EveryAddressOnce
  BY InvAddressOnce
<1> QED
  BY <1>1, InvAlways, PTL

(* EveryBucketOnce: a bucket is full or empty, with one thread or on one   *)
(* stack, and never in two lists.                                          *)
THEOREM BucketsApart == Spec => []EveryBucketOnce
<1>1. Inv => EveryBucketOnce
  BY InvBucketOnce
<1> QED
  BY <1>1, InvAlways, PTL

-----------------------------------------------------------------------------
(* The free address a is in the list of u, or in a full bucket of u: its   *)
(* slot c among those that there are.                                      *)
HasSlot(a, u, c, A, N) ==
  \/ A.in[a] = Open(u) /\ c = <<u, <<A.at[a], nr_local_abuckets>>>>
  \/ \E b \in Bucket : A.in[a] = Full(b) /\ N.in[b] = Kept(u) /\ c = <<u, <<A.at[a], N.at[b]>>>>

Slots(t) == (Thread \ {t}) \X ((1 .. nr_local_aas) \X (1 .. nr_local_abuckets))

(* t has no free address, and finds none on the stack. *)
FindsNone(t, A, N, F, C) ==
  /\ Inv
  /\ AddressesPlaced(A, aa_space, local, data, F)
  /\ BucketsPlaced(N, next, free_aa_head, free_aa_buckets_head, data, F, C)
  /\ t \in Thread /\ data[t].aas_count = 0 /\ data[t].abuckets_count = 0 /\ free_aa_head = Null

LEMMA PlacesOfSlots ==
  ASSUME NEW A, NEW N, NEW F, NEW C, NEW t, FindsNone(t, A, N, F, C)
  PROVE  /\ \A u \in Thread, a \in Address : A.in[a] = Open(u) => u # t /\ A.at[a] \in 1 .. nr_local_aas
         /\ \A b \in F, a \in Address : A.in[a] = Full(b) => A.at[a] \in 1 .. nr_local_aas
         /\ \A u \in Thread, b \in Bucket : N.in[b] = Kept(u) => u # t /\ N.at[b] \in 1 .. nr_local_abuckets - 1
         /\ \A b \in F : \E u \in Thread : N.in[b] = Kept(u)
<1>1. nr_local_aas \in Nat /\ nr_local_abuckets - 1 \in Nat
  BY LimitsAssumption
<1>2. \A u \in Thread : /\ data[u].aas_count \in 0 .. nr_local_aas
                        /\ data[u].abuckets_count \in 0 .. nr_local_abuckets - 1
  <2>1. \A u \in Thread : data[u] \in ThreadData
    BY TypeParts DEF FindsNone
  <2> QED BY ONLY <2>1 DEF ThreadData
<1>3. /\ Lists(Address, aa_space, AddressLists, A)
      /\ \A u \in Thread : A.len[Open(u)] = data[u].aas_count
      /\ \A b \in F : A.len[Full(b)] = nr_local_aas
      /\ F \subseteq Bucket
  BY DEF FindsNone, AddressesPlaced
<1>4. /\ Lists(Bucket, next, FullLists, N)
      /\ \A u \in Thread : N.len[Kept(u)] = data[u].abuckets_count
      /\ N.first[Stack] = free_aa_head
      /\ F = {b \in Bucket : N.in[b] = Stack \/ \E u \in Thread : N.in[b] = Kept(u)}
  BY DEF FindsNone, BucketsPlaced, Ends
<1>5. data[t].aas_count = 0 /\ data[t].abuckets_count = 0 /\ free_aa_head = Null
  BY DEF FindsNone
<1>6. ASSUME NEW u \in Thread, NEW a \in Address, A.in[a] = Open(u)
      PROVE  u # t /\ A.at[a] \in 1 .. nr_local_aas
  <2>1. A.at[a] \in 1 .. A.len[Open(u)]
    BY ONLY <1>3, <1>6, u \in Thread, a \in Address, AddressNames, ListsHave
  <2>2. A.at[a] \in 1 .. data[u].aas_count
    BY ONLY <1>3, <2>1, u \in Thread
  <2>3. u # t
    BY ONLY <1>5, <2>2
  <2> QED BY ONLY <1>1, <1>2, <2>2, <2>3, u \in Thread
<1>7. ASSUME NEW b \in F, NEW a \in Address, A.in[a] = Full(b)
      PROVE  A.at[a] \in 1 .. nr_local_aas
  <2>1. A.at[a] \in 1 .. A.len[Full(b)]
    BY ONLY <1>3, <1>7, b \in F, a \in Address, AddressNames, ListsHave
  <2> QED BY ONLY <1>3, <2>1, b \in F
<1>8. ASSUME NEW u \in Thread, NEW b \in Bucket, N.in[b] = Kept(u)
      PROVE  u # t /\ N.at[b] \in 1 .. nr_local_abuckets - 1
  <2>1. N.at[b] \in 1 .. N.len[Kept(u)]
    BY ONLY <1>4, <1>8, u \in Thread, b \in Bucket, FullNames, ListsHave
  <2>2. N.at[b] \in 1 .. data[u].abuckets_count
    BY ONLY <1>4, <2>1, u \in Thread
  <2>3. u # t
    BY ONLY <1>5, <2>2
  <2> QED BY ONLY <1>1, <1>2, <2>2, <2>3, u \in Thread
<1>9. \A b \in Bucket : N.in[b] # Stack
  <2>1. Stack \in FullLists
    BY FullNames
  <2>2. /\ N.len[Stack] \in Nat
        /\ N.len[Stack] > 0 => N.first[Stack] \in Bucket
        /\ N.len[Stack] = 0 <=> \A b \in Bucket : N.in[b] # Stack
    BY ONLY <1>4, <2>1, ListsHave
  <2>3. ~(N.len[Stack] > 0)
    BY ONLY <1>4, <1>5, <2>2, NullAssumption
  <2> QED BY ONLY <2>2, <2>3
<1>10. \A b \in F : \E u \in Thread : N.in[b] = Kept(u)
  BY ONLY <1>4, <1>9
<1> QED
  BY ONLY <1>6, <1>7, <1>8, <1>10

LEMMA SlotExists ==
  ASSUME NEW A, NEW N, NEW F, NEW C, NEW t, FindsNone(t, A, N, F, C),
         NEW a \in Address \ Apart(Address, A)
  PROVE  \E c \in Slots(t) : \E u \in Thread : HasSlot(a, u, c, A, N)
<1>1. nr_local_abuckets \in 1 .. nr_local_abuckets /\ \A j \in 1 .. nr_local_abuckets - 1 : j \in 1 .. nr_local_abuckets
  BY LimitsAssumption
<1>2. /\ \A u \in Thread, e \in Address : A.in[e] = Open(u) => u # t /\ A.at[e] \in 1 .. nr_local_aas
      /\ \A b \in F, e \in Address : A.in[e] = Full(b) => A.at[e] \in 1 .. nr_local_aas
      /\ \A u \in Thread, b \in Bucket : N.in[b] = Kept(u) => u # t /\ N.at[b] \in 1 .. nr_local_abuckets - 1
      /\ \A b \in F : \E u \in Thread : N.in[b] = Kept(u)
  BY ONLY FindsNone(t, A, N, F, C), PlacesOfSlots
<1>3. a \in Address /\ A.in[a] # NoList
  BY DEF Apart
<1>4. /\ Lists(Address, aa_space, AddressLists, A) /\ F \subseteq Bucket
      /\ \A b \in Bucket \ F : A.len[Full(b)] = 0
  BY DEF FindsNone, AddressesPlaced
<1>5. CASE \E u \in Thread : A.in[a] = Open(u)
  <2>1. PICK u \in Thread : A.in[a] = Open(u)
    BY <1>5
  <2> DEFINE c == <<u, <<A.at[a], nr_local_abuckets>>>>
  <2>2. c \in Slots(t)
    BY ONLY <1>1, <1>2, <1>3, <2>1, u \in Thread DEF Slots
  <2>3. HasSlot(a, u, c, A, N)
    BY ONLY <2>1 DEF HasSlot
  <2> QED BY ONLY <2>2, <2>3, u \in Thread
<1>6. CASE \E b \in Bucket : A.in[a] = Full(b)
  <2>1. PICK b \in Bucket : A.in[a] = Full(b)
    BY <1>6
  <2>2. A.len[Full(b)] # 0
    BY ONLY <1>3, <1>4, <2>1, b \in Bucket, AddressNames, ListsHave
  <2>3. b \in F
    BY ONLY <1>4, <2>2, b \in Bucket
  <2>4. PICK u \in Thread : N.in[b] = Kept(u)
    BY ONLY <1>2, <2>3
  <2> DEFINE c == <<u, <<A.at[a], N.at[b]>>>>
  <2>5. c \in Slots(t)
    BY ONLY <1>1, <1>2, <1>3, <2>1, <2>3, <2>4, b \in Bucket, u \in Thread DEF Slots
  <2>6. HasSlot(a, u, c, A, N)
    BY ONLY <2>1, <2>4, b \in Bucket DEF HasSlot
  <2> QED BY ONLY <2>5, <2>6, u \in Thread
<1>7. A.in[a] \in AddressLists
  BY ONLY <1>3, <1>4 DEF Lists
<1> QED
  BY ONLY <1>5, <1>6, <1>7, AddressNames

LEMMA SlotOnce ==
  ASSUME NEW A, NEW N, NEW F, NEW C, NEW t, FindsNone(t, A, N, F, C),
         NEW a \in Address, NEW e \in Address, NEW u \in Thread, NEW v \in Thread, NEW c,
         HasSlot(a, u, c, A, N), HasSlot(e, v, c, A, N)
  PROVE  a = e
<1>1. \A w \in Thread, b \in Bucket : N.in[b] = Kept(w) => N.at[b] # nr_local_abuckets
  <2>1. \A w \in Thread, b \in Bucket : N.in[b] = Kept(w) => N.at[b] \in 1 .. nr_local_abuckets - 1
    BY ONLY FindsNone(t, A, N, F, C), PlacesOfSlots
  <2>2. nr_local_abuckets \in Nat
    BY LimitsAssumption
  <2> QED BY ONLY <2>1, <2>2
<1>2. /\ \A w \in Thread : IsList(Address, aa_space, A.in, A.at, Open(w), A.first[Open(w)], A.len[Open(w)])
      /\ \A b \in Bucket : IsList(Address, aa_space, A.in, A.at, Full(b), A.first[Full(b)], A.len[Full(b)])
      /\ \A w \in Thread : IsList(Bucket, next, N.in, N.at, Kept(w), N.first[Kept(w)], N.len[Kept(w)])
  BY AddressNames, FullNames DEF FindsNone, AddressesPlaced, BucketsPlaced, Lists
<1>3. /\ \A w \in Thread : A.in[a] = Open(w) /\ A.in[e] = Open(w) /\ A.at[a] = A.at[e] => a = e
      /\ \A b \in Bucket : A.in[a] = Full(b) /\ A.in[e] = Full(b) /\ A.at[a] = A.at[e] => a = e
      /\ \A w \in Thread : \A b, d \in Bucket : N.in[b] = Kept(w) /\ N.in[d] = Kept(w) /\ N.at[b] = N.at[d] => b = d
  BY ONLY <1>2, a \in Address, e \in Address DEF IsList
<1>4. \/ A.in[a] = Open(u) /\ c = <<u, <<A.at[a], nr_local_abuckets>>>>
      \/ \E b \in Bucket : A.in[a] = Full(b) /\ N.in[b] = Kept(u) /\ c = <<u, <<A.at[a], N.at[b]>>>>
  BY DEF HasSlot
<1>5. \/ A.in[e] = Open(v) /\ c = <<v, <<A.at[e], nr_local_abuckets>>>>
      \/ \E b \in Bucket : A.in[e] = Full(b) /\ N.in[b] = Kept(v) /\ c = <<v, <<A.at[e], N.at[b]>>>>
  BY DEF HasSlot
<1> QED
  BY ONLY <1>1, <1>3, <1>4, <1>5, u \in Thread, v \in Thread

LEMMA NumberOfSlots ==
  ASSUME NEW t \in Thread
  PROVE  /\ IsFiniteSet(Slots(t))
         /\ Cardinality(Slots(t)) = (Cardinality(Thread) - 1) * nr_local_aas * nr_local_abuckets
<1> DEFINE I == 1 .. nr_local_aas
           J == 1 .. nr_local_abuckets
           U == Thread \ {t}
<1>1. nr_local_aas \in Nat /\ nr_local_abuckets \in Nat
  BY LimitsAssumption
<1>2. IsFiniteSet(I) /\ Cardinality(I) = nr_local_aas
  BY ONLY <1>1, NumberUpTo
<1>3. IsFiniteSet(J) /\ Cardinality(J) = nr_local_abuckets
  BY ONLY <1>1, NumberUpTo
<1>4. IsFiniteSet(U) /\ Cardinality(U) = Cardinality(Thread) - 1
  BY ThreadAssumption, FS_RemoveElement
<1>5. Slots(t) = U \X (I \X J)
  BY DEF Slots
<1> HIDE DEF I, J, U
<1>6. IsFiniteSet(I \X J) /\ Cardinality(I \X J) = nr_local_aas * nr_local_abuckets
  BY ONLY <1>2, <1>3, FS_Product
<1>7. /\ IsFiniteSet(U \X (I \X J))
      /\ Cardinality(U \X (I \X J)) = Cardinality(U) * Cardinality(I \X J)
  BY ONLY <1>4, <1>6, FS_Product
<1>8. Cardinality(Thread) \in Nat
  BY ThreadAssumption, FS_CardinalityType
<1>9. \A x \in Int, y \in Int, z \in Int : x * (y * z) = x * y * z
  OBVIOUS
<1>10. Cardinality(Thread) - 1 \in Int /\ nr_local_aas \in Int /\ nr_local_abuckets \in Int
  BY ONLY <1>1, <1>8
<1>11. Cardinality(U \X (I \X J)) = (Cardinality(Thread) - 1) * (nr_local_aas * nr_local_abuckets)
  BY ONLY <1>4, <1>6, <1>7
<1> QED
  BY ONLY <1>5, <1>7, <1>9, <1>10, <1>11

(* Each address a thread has between two calls is that of a thread.        *)
LEMMA NumberPutting ==
  /\ IsFiniteSet(PutBy(pending)) /\ IsFiniteSet(waiting("put"))
  /\ Cardinality(PutBy(pending)) <= Cardinality(waiting("put"))
<1> DEFINE S == PutBy(pending)
           T == waiting("put")
           g == [a \in S |-> CHOOSE t \in T : pending[t] = Putting(a)]
<1>1. IsFiniteSet(T)
  <2>1. T \in SUBSET Thread
    BY DEF waiting
  <2> QED BY <2>1, ThreadAssumption, FS_Subset
<1>2. ASSUME NEW a \in S
      PROVE  g[a] \in T /\ pending[g[a]] = Putting(a)
  <2>1. \E t \in T : pending[t] = Putting(a)
    <3>1. PICK t \in Thread : pending[t] = Putting(a)
      BY DEF PutBy
    <3>2. t \in T
      BY <3>1, PendingKinds DEF waiting
    <3> QED BY <3>1, <3>2
  <2>2. g[a] = CHOOSE t \in T : pending[t] = Putting(a)
    OBVIOUS
  <2> HIDE DEF S, T, g
  <2> QED BY <2>1, <2>2
<1> HIDE DEF S, T, g
<1>3. \A a \in S : g[a] \in T
  BY <1>2
<1>4. \A a, e \in S : g[a] = g[e] => a = e
  BY <1>2, PendingKinds
<1>5. IsFiniteSet(S) /\ Cardinality(S) <= Cardinality(T)
  BY ONLY <1>1, <1>3, <1>4, NoMoreThan
<1> QED
  BY ONLY <1>1, <1>5 DEF S, T

LEMMA NumberOfAddresses == IsFiniteSet(Address) /\ Cardinality(Address) = nr_aas /\ nr_aas \in Nat
<1>1. nr_aas \in Nat
  <2>1. nr_aa_buckets \in Nat /\ nr_local_aas \in Nat
    BY LimitsAssumption
  <2>2. \A x \in Nat, y \in Nat : x * y \in Nat
    OBVIOUS
  <2> QED BY ONLY <2>1, <2>2 DEF nr_aas
<1> DEFINE n == nr_aas
<1>2. Address = 0 .. n - 1
  BY DEF Address
<1>3. n \in Nat /\ n = nr_aas
  BY <1>1
<1> HIDE DEF n
<1>4. IsFiniteSet(0 .. n - 1) /\ Cardinality(0 .. n - 1) = IF 0 > n - 1 THEN 0 ELSE (n - 1) - 0 + 1
  <2>1. n - 1 \in Int
    BY <1>3
  <2> QED BY ONLY <2>1, FS_Interval, 0 \in Int
<1> QED
  BY ONLY <1>1, <1>2, <1>3, <1>4

LEMMA FewInLists ==
  ASSUME NEW A, NEW N, NEW F, NEW C, NEW t, FindsNone(t, A, N, F, C),
         NEW S, S = Address \ Apart(Address, A)
  PROVE  /\ IsFiniteSet(S)
         /\ Cardinality(S) <= (Cardinality(Thread) - 1) * nr_local_aas * nr_local_abuckets
<1> DEFINE T == Slots(t)
           Slot(a, c) == \E u \in Thread : HasSlot(a, u, c, A, N)
           g == [a \in S |-> CHOOSE c \in T : Slot(a, c)]
<1>0. t \in Thread
  BY DEF FindsNone
<1>1. IsFiniteSet(T) /\ Cardinality(T) = (Cardinality(Thread) - 1) * nr_local_aas * nr_local_abuckets
  BY ONLY <1>0, NumberOfSlots
<1>2. ASSUME NEW a \in S
      PROVE  g[a] \in T /\ Slot(a, g[a])
  <2>1. a \in Address \ Apart(Address, A)
    OBVIOUS
  <2>2. \E c \in T : Slot(a, c)
    BY ONLY FindsNone(t, A, N, F, C), <2>1, SlotExists
  <2>3. g[a] = CHOOSE c \in T : Slot(a, c)
    OBVIOUS
  <2> HIDE DEF T, Slot, g
  <2> QED BY ONLY <2>2, <2>3
<1>3. ASSUME NEW a \in S, NEW e \in S, g[a] = g[e]
      PROVE  a = e
  <2>1. PICK u \in Thread : HasSlot(a, u, g[a], A, N)
    BY <1>2
  <2>2. PICK v \in Thread : HasSlot(e, v, g[e], A, N)
    BY <1>2
  <2> HIDE DEF g
  <2>3. HasSlot(e, v, g[a], A, N)
    BY ONLY <1>3, <2>2
  <2>4. a \in Address /\ e \in Address
    OBVIOUS
  <2> QED BY ONLY FindsNone(t, A, N, F, C), <2>1, <2>3, <2>4, u \in Thread, v \in Thread, SlotOnce
<1> HIDE DEF T, g
<1>4. IsFiniteSet(S) /\ Cardinality(S) <= Cardinality(T)
  <2>1. (\A a \in S : g[a] \in T) /\ \A a, e \in S : g[a] = g[e] => a = e
    BY ONLY <1>2, <1>3
  <2> QED BY ONLY <1>1, <2>1, NoMoreThan
<1> QED
  BY ONLY <1>1, <1>4

LEMMA InvHoarding ==
  ASSUME Inv
  PROVE  HoardingBound
<1> SUFFICES ASSUME NEW t \in Thread,
                    data[t].aas_count = 0, data[t].abuckets_count = 0, free_aa_head = Null
             PROVE  nr_aas - Cardinality(live) <=
                      (Cardinality(Thread) - 1) * nr_local_aas * nr_local_abuckets + Cardinality(waiting("put"))
  BY DEF HoardingBound
<1>1. PICK A, N, L, C, F :
        /\ AddressesPlaced(A, aa_space, local, data, F)
        /\ live \cup PutBy(pending) = Apart(Address, A) /\ live \cap PutBy(pending) = {}
        /\ BucketsPlaced(N, next, free_aa_head, free_aa_buckets_head, data, F, C)
  BY InvPlaces
<1> DEFINE S == Address \ Apart(Address, A)
           P == PutBy(pending)
           B == (Cardinality(Thread) - 1) * nr_local_aas * nr_local_abuckets
<1>2. FindsNone(t, A, N, F, C)
  BY <1>1 DEF FindsNone
<1>3. IsFiniteSet(S) /\ Cardinality(S) <= B
  BY ONLY <1>2, FewInLists
<1>4. IsFiniteSet(P) /\ IsFiniteSet(waiting("put")) /\ Cardinality(P) <= Cardinality(waiting("put"))
  BY ONLY NumberPutting
<1>5. live \subseteq Address
  BY DEF Inv, TypeOK
<1>6. Address \ live = S \cup P
  <2>1. P \subseteq Address
    BY DEF PutBy
  <2>2. P \cap live = {}
    BY <1>1
  <2> QED BY ONLY <1>1, <1>5, <2>1, <2>2 DEF Apart
<1>7. B \in Int
  <2>1. Cardinality(Thread) \in Nat /\ nr_local_aas \in Nat /\ nr_local_abuckets \in Nat
    BY ThreadAssumption, FS_CardinalityType, LimitsAssumption
  <2>2. \A x \in Int, y \in Int : x * y \in Int
    OBVIOUS
  <2> QED BY ONLY <2>1, <2>2
<1> HIDE DEF S, P, B
<1>8. /\ Cardinality(S \cup P) = Cardinality(S) + Cardinality(P) - Cardinality(S \cap P)
      /\ IsFiniteSet(S \cap P)
  BY ONLY <1>3, <1>4, FS_Union, FS_Intersection
<1>9. Cardinality(Address \ live) = nr_aas - Cardinality(live)
  <2>1. Address \cap live = live
    BY ONLY <1>5
  <2> QED BY ONLY <2>1, NumberOfAddresses, FS_Difference
<1>10. /\ Cardinality(S) \in Nat /\ Cardinality(P) \in Nat /\ Cardinality(S \cap P) \in Nat
       /\ Cardinality(waiting("put")) \in Nat
  BY ONLY <1>3, <1>4, <1>8, FS_CardinalityType
<1>11. Cardinality(S \cup P) <= B + Cardinality(waiting("put"))
  BY ONLY <1>3, <1>4, <1>7, <1>8, <1>10
<1> QED
  BY ONLY <1>6, <1>9, <1>11 DEF B

(* HoardingBound: a thread that finds no address misses at most those that *)
(* the others keep, a list and nr_local_abuckets - 1 full buckets each.    *)
THEOREM FewAddressesHoarded == Spec => []HoardingBound
<1>1. Inv => HoardingBound
  BY InvHoarding
<1> QED
  BY <1>1, InvAlways, PTL

-----------------------------------------------------------------------------
(* t finds no empty bucket: there is no chain of them, and it keeps none.  *)
FindsNoBucket(t, A, L, F) ==
  /\ Inv /\ t \in Thread
  /\ pending[t].kind = "put" /\ data[t].aas_count = nr_local_aas /\ data[t].free_abuckets_count = 0
  /\ AddressesPlaced(A, aa_space, local, data, F)
  /\ live \cup PutBy(pending) = Apart(Address, A) /\ live \cap PutBy(pending) = {}
  /\ EmptiesPlaced(L, local, data, {})
  /\ F \cup GetBy(pending) = Apart(Bucket, L)

LEMMA NoBucketLeft ==
  ASSUME Inv, failed
  PROVE  \E t, A, L, F : FindsNoBucket(t, A, L, F)
<1>1. Fits(data, pending, free_aa_buckets_head, failed)
  BY DEF Inv
<1>2. free_aa_buckets_head = Null
  BY ONLY <1>1, failed DEF Fits
<1>3. PICK t \in Thread : /\ pending[t].kind = "put" /\ data[t].free_abuckets_count = 0
                          /\ data[t].aas_count = nr_local_aas
  BY ONLY <1>1, failed DEF Fits
<1>4. PICK A, N, L, C, F :
           /\ AddressesPlaced(A, aa_space, local, data, F)
           /\ live \cup PutBy(pending) = Apart(Address, A) /\ live \cap PutBy(pending) = {}
           /\ BucketsPlaced(N, next, free_aa_head, free_aa_buckets_head, data, F, C)
           /\ EmptiesPlaced(L, local, data, C)
           /\ F \cup GetBy(pending) = Apart(Bucket, L) /\ F \cap GetBy(pending) = {}
  BY InvPlaces
<1>5. C = {}
  <2>1. /\ Lists(Bucket, next, FullLists, N) /\ N.first[Chains] = Null
        /\ C = {b \in Bucket : N.in[b] = Chains}
    BY ONLY <1>2, <1>4 DEF BucketsPlaced, Ends
  <2>2. /\ N.len[Chains] \in Nat
        /\ N.len[Chains] > 0 => N.first[Chains] \in Bucket
        /\ N.len[Chains] = 0 <=> \A b \in Bucket : N.in[b] # Chains
    BY ONLY <2>1, FullNames, ListsHave
  <2>3. ~(N.len[Chains] > 0)
    BY ONLY <2>1, <2>2, NullAssumption
  <2> QED BY ONLY <2>1, <2>2, <2>3
<1>6. FindsNoBucket(t, A, L, F)
  BY ONLY <1>3, <1>4, <1>5, Inv DEF FindsNoBucket
<1> QED
  BY ONLY <1>6

(* Every empty bucket is then with another thread. *)
LEMMA FewEmptyBuckets ==
  ASSUME NEW t, NEW A, NEW L, NEW F, FindsNoBucket(t, A, L, F),
         NEW S, S = Bucket \ Apart(Bucket, L)
  PROVE  IsFiniteSet(S) /\ Cardinality(S) <= (Cardinality(Thread) - 1) * nr_local_free_abuckets
<1> DEFINE U == Thread \ {t}
           J == 1 .. nr_local_free_abuckets
           T == U \X J
           g == [b \in S |-> <<L.in[b][2], L.at[b]>>]
<1>1. nr_local_free_abuckets \in Nat
  BY LimitsAssumption
<1>2. /\ Lists(Bucket, local, EmptyLists, L)
      /\ \A u \in Thread : L.len[Empty(u)] = data[u].free_abuckets_count
      /\ \A b \in Bucket : L.len[Chain(b)] = 0
      /\ data[t].free_abuckets_count = 0 /\ t \in Thread
  BY DEF FindsNoBucket, EmptiesPlaced
<1>3. \A u \in Thread : data[u].free_abuckets_count \in 0 .. nr_local_free_abuckets
  <2>1. \A u \in Thread : data[u] \in ThreadData
    BY TypeParts DEF FindsNoBucket
  <2> QED BY ONLY <2>1 DEF ThreadData
<1>4. ASSUME NEW b \in S
      PROVE  \E u \in Thread \ {t} : L.in[b] = Empty(u) /\ L.at[b] \in 1 .. nr_local_free_abuckets
  <2>1. b \in Bucket /\ L.in[b] # NoList
    BY DEF Apart
  <2>2. L.in[b] \in EmptyLists
    BY ONLY <1>2, <2>1 DEF Lists
  <2>3. ASSUME NEW c \in Bucket, L.in[b] = Chain(c)
        PROVE  FALSE
    <3>1. L.len[Chain(c)] # 0
      BY ONLY <1>2, <2>1, <2>3, c \in Bucket, EmptyNames, ListsHave
    <3> QED BY ONLY <1>2, <3>1, c \in Bucket
  <2>4. PICK u \in Thread : L.in[b] = Empty(u)
    BY ONLY <2>2, <2>3, EmptyNames
  <2>5. L.at[b] \in 1 .. L.len[Empty(u)]
    BY ONLY <1>2, <2>1, <2>4, u \in Thread, EmptyNames, ListsHave
  <2>6. L.at[b] \in 1 .. data[u].free_abuckets_count
    BY ONLY <1>2, <2>5, u \in Thread
  <2>7. u # t
    BY ONLY <1>2, <2>6
  <2> QED BY ONLY <1>1, <1>3, <2>4, <2>6, <2>7, u \in Thread
<1>5. \A b \in S : g[b] = <<L.in[b][2], L.at[b]>>
  OBVIOUS
<1>6. \A u : Empty(u)[2] = u
  BY DEF Empty
<1>7. \A b \in S : g[b] \in T
  <2> HIDE DEF g
  <2> QED BY ONLY <1>4, <1>5, <1>6
<1> HIDE DEF g
<1>8. \A b, c \in S : g[b] = g[c] => b = c
  <2> TAKE b, c \in S
  <2> HAVE g[b] = g[c]
  <2>1. PICK u \in Thread \ {t} : L.in[b] = Empty(u)
    BY ONLY <1>4, b \in S
  <2>2. PICK v \in Thread \ {t} : L.in[c] = Empty(v)
    BY ONLY <1>4, c \in S
  <2>3. L.in[b][2] = u /\ L.in[c][2] = v
    BY ONLY <1>6, <2>1, <2>2
  <2>4. u = v /\ L.at[b] = L.at[c]
    BY ONLY <1>5, <2>3, g[b] = g[c], b \in S, c \in S
  <2>5. b \in Bucket /\ c \in Bucket
    OBVIOUS
  <2>6. IsList(Bucket, local, L.in, L.at, Empty(u), L.first[Empty(u)], L.len[Empty(u)])
    BY ONLY <1>2, EmptyNames, u \in Thread \ {t} DEF Lists
  <2> QED BY ONLY <2>1, <2>2, <2>4, <2>5, <2>6 DEF IsList
<1>9. IsFiniteSet(J) /\ Cardinality(J) = nr_local_free_abuckets
  BY ONLY <1>1, NumberUpTo
<1>10. IsFiniteSet(U) /\ Cardinality(U) = Cardinality(Thread) - 1
  BY ONLY <1>2, ThreadAssumption, FS_RemoveElement
<1> HIDE DEF U, J
<1>11. IsFiniteSet(T) /\ Cardinality(T) = Cardinality(U) * Cardinality(J)
  BY ONLY <1>9, <1>10, FS_Product
<1> HIDE DEF T
<1>12. IsFiniteSet(S) /\ Cardinality(S) <= Cardinality(T)
  BY ONLY <1>7, <1>8, <1>11, NoMoreThan
<1> QED
  BY ONLY <1>9, <1>10, <1>11, <1>12

(* The list of addresses for every bucket that is not empty, and one more: *)
(* that of t for Null, for a bucket waiting to be kept that of its thread. *)
ListOf(t, F, x) ==
  IF x = Null THEN Open(t)
  ELSE IF x \in F THEN Full(x)
  ELSE Open(CHOOSE u \in Thread : pending[u] = Getting(x))

LEMMA ManyLists ==
  ASSUME NEW t, NEW A, NEW L, NEW F, FindsNoBucket(t, A, L, F),
         NEW S, S = Apart(Bucket, L) \cup {Null}
  PROVE  \E X \in SUBSET AddressLists :
           /\ IsFiniteSet(S) /\ IsFiniteSet(X) /\ Cardinality(S) <= Cardinality(X)
           /\ \A x \in X : A.len[x] = nr_local_aas
<1> DEFINE g == [x \in S |-> ListOf(t, F, x)]
           X == {g[x] : x \in S}
<1>1. /\ t \in Thread /\ pending[t].kind = "put" /\ data[t].aas_count = nr_local_aas
      /\ F \cup GetBy(pending) = Apart(Bucket, L) /\ F \subseteq Bucket
      /\ \A u \in Thread : A.len[Open(u)] = data[u].aas_count
      /\ \A b \in F : A.len[Full(b)] = nr_local_aas
  BY DEF FindsNoBucket, AddressesPlaced
<1>2. Fits(data, pending, free_aa_buckets_head, failed)
  BY DEF FindsNoBucket, Inv
<1>3. IsFiniteSet(S)
  <2>1. IsFiniteSet(Bucket)
    <3>1. IsFiniteSet(0 .. nr_aa_buckets - 1)
      BY LimitsAssumption, FS_Interval
    <3> QED BY <3>1 DEF Bucket
  <2>2. Apart(Bucket, L) \in SUBSET Bucket
    BY DEF Apart
  <2>3. IsFiniteSet(Apart(Bucket, L))
    BY ONLY <2>1, <2>2, FS_Subset
  <2> QED BY ONLY <2>3, S = Apart(Bucket, L) \cup {Null}, FS_AddElement
<1>4. ASSUME NEW x \in S, x # Null, x \notin F
      PROVE  \E u \in Thread : pending[u] = Getting(x) /\ ListOf(t, F, x) = Open(u)
  <2>1. x \in GetBy(pending)
    BY ONLY <1>1, <1>4, x \in S, S = Apart(Bucket, L) \cup {Null}
  <2>2. \E u \in Thread : pending[u] = Getting(x)
    BY ONLY <2>1 DEF GetBy
  <2> DEFINE u == CHOOSE u \in Thread : pending[u] = Getting(x)
  <2>3. ListOf(t, F, x) = Open(u)
    BY ONLY <1>4 DEF ListOf
  <2>4. u \in Thread /\ pending[u] = Getting(x)
    BY ONLY <2>2
  <2> HIDE DEF u
  <2> QED BY ONLY <2>3, <2>4
<1>5. \A x \in S : \/ x = Null /\ ListOf(t, F, x) = Open(t)
                   \/ x \in F /\ ListOf(t, F, x) = Full(x)
                   \/ \E u \in Thread : pending[u] = Getting(x) /\ ListOf(t, F, x) = Open(u)
  BY ONLY <1>1, <1>4, NullAssumption DEF ListOf
<1>6. \A x \in S : ListOf(t, F, x) \in AddressLists /\ A.len[ListOf(t, F, x)] = nr_local_aas
  <2>1. \A u \in Thread : \A x : pending[u] = Getting(x) => data[u].aas_count = nr_local_aas
    BY ONLY <1>2, PendingKinds DEF Fits
  <2> QED BY ONLY <1>1, <1>5, <2>1, AddressNames
<1>7. \A x, y \in S : ListOf(t, F, x) = ListOf(t, F, y) => x = y
  <2>1. \A x : pending[t] # Getting(x)
    BY ONLY <1>1, PendingKinds
  <2> QED BY ONLY <1>5, <2>1, AddressNames, PendingKinds
<1>8. \A x \in S : g[x] = ListOf(t, F, x)
  OBVIOUS
<1> HIDE DEF g
<1>9. X \in SUBSET AddressLists /\ \A x \in X : A.len[x] = nr_local_aas
  BY ONLY <1>6, <1>8
<1>10. IsFiniteSet(X)
  <2>1. (\A x \in S : g[x] \in X) /\ \A c \in X : \E x \in S : g[x] = c
    OBVIOUS
  <2> HIDE DEF X
  <2> QED BY ONLY <1>3, <2>1, NoFewerThan
<1>11. Cardinality(S) <= Cardinality(X)
  <2>1. (\A x \in S : g[x] \in X) /\ \A x, y \in S : g[x] = g[y] => x = y
    BY ONLY <1>7, <1>8
  <2> HIDE DEF X
  <2> QED BY ONLY <1>10, <2>1, NoMoreThan
<1> HIDE DEF X
<1> QED
  BY ONLY <1>3, <1>9, <1>10, <1>11

(* m addresses and one more do not fill p + 1 lists of nb of them.         *)
LEMMA Counted ==
  ASSUME NEW nb \in Nat, NEW n \in Nat, NEW p \in Nat, NEW q \in Int, NEW x \in Nat, NEW y \in Nat, NEW m \in Nat,
         nb <= p + q, p + 1 <= x, x * n <= y, y + m + 1 <= nb * n
  PROVE  m < (q - 1) * n
<1>1. \A a \in Int, b \in Int, c \in Nat : a <= b => a * c <= b * c
  OBVIOUS
<1>2. (p + 1) * n <= x * n
  BY ONLY <1>1, p + 1 <= x, p + 1 \in Int, x \in Int, n \in Nat, x \in Nat, p \in Nat
<1>3. nb * n <= (p + q) * n
  BY ONLY <1>1, nb <= p + q, p + q \in Int, nb \in Int, n \in Nat, p \in Nat, q \in Int, nb \in Nat
<1>4. (p + q) * n = (p + 1) * n + (q - 1) * n
  <2>1. \A a \in Int, b \in Int, c \in Int : (a + b) * c = a * c + b * c
    OBVIOUS
  <2>2. p + q = (p + 1) + (q - 1)
    BY ONLY p \in Nat, q \in Int
  <2> QED BY ONLY <2>1, <2>2, p + 1 \in Int, q - 1 \in Int, n \in Int, p \in Nat, q \in Int, n \in Nat
<1> DEFINE P == (p + 1) * n
           Q == (q - 1) * n
           X == x * n
           N == nb * n
           R == (p + q) * n
<1>5. P \in Int /\ Q \in Int /\ X \in Int /\ N \in Int /\ R \in Int
  OBVIOUS
<1>6. P <= X /\ N <= R /\ R = P + Q /\ X <= y /\ y + m + 1 <= N
  BY <1>2, <1>3, <1>4
<1> HIDE DEF P, Q, X, N, R
<1>7. m < Q
  BY ONLY <1>5, <1>6, y \in Nat, m \in Nat
<1> QED
  BY ONLY <1>7 DEF Q

LEMMA InvSpare ==
  ASSUME Inv
  PROVE  SpareBucketFound
<1> DEFINE n == nr_local_aas
           nb == nr_aa_buckets
           q == (Cardinality(Thread) - 1) * nr_local_free_abuckets
           m == Cardinality(live)
<1>1. n \in Nat /\ nb \in Nat /\ q \in Int /\ nr_aas = nb * n
  <2>1. n \in Nat /\ nb \in Nat /\ nr_local_free_abuckets \in Nat /\ Cardinality(Thread) \in Nat
    BY LimitsAssumption, ThreadAssumption, FS_CardinalityType
  <2>2. \A x \in Int, y \in Int : x * y \in Int
    OBVIOUS
  <2>3. q \in Int
    <3>1. Cardinality(Thread) - 1 \in Int /\ nr_local_free_abuckets \in Int
      BY ONLY <2>1
    <3> QED BY ONLY <2>2, <3>1
  <2> QED BY ONLY <2>1, <2>3 DEF nr_aas
<1>2. ASSUME failed
      PROVE  m < (q - 1) * n
  <2>1. PICK t, A, L, F : FindsNoBucket(t, A, L, F)
    BY <1>2, NoBucketLeft
  <2> DEFINE G == Apart(Bucket, L)
             p == Cardinality(G)
             S == G \cup {Null}
  <2>2. IsFiniteSet(Bucket) /\ Cardinality(Bucket) = nb
    <3>1. Bucket = 0 .. nb - 1
      BY DEF Bucket
    <3>2. IsFiniteSet(0 .. nb - 1) /\ Cardinality(0 .. nb - 1) = IF 0 > nb - 1 THEN 0 ELSE (nb - 1) - 0 + 1
      <4>1. nb - 1 \in Int
        BY ONLY <1>1
      <4> QED BY ONLY <4>1, FS_Interval, 0 \in Int
    <3> QED BY ONLY <1>1, <3>1, <3>2
  <2>3. G \subseteq Bucket /\ IsFiniteSet(G) /\ p \in Nat
    <3>1. G \in SUBSET Bucket
      BY DEF Apart
    <3> HIDE DEF G
    <3>2. IsFiniteSet(G)
      BY ONLY <2>2, <3>1, FS_Subset
    <3> QED BY ONLY <3>1, <3>2, FS_CardinalityType
  <2>4. Cardinality(Bucket \ G) <= q
    BY ONLY <2>1, FewEmptyBuckets
  <2>5. nb <= p + q
    <3> HIDE DEF G
    <3>1. Bucket \cap G = G
      BY ONLY <2>3
    <3>2. Cardinality(Bucket \ G) = nb - p
      BY ONLY <2>2, <3>1, FS_Difference
    <3> HIDE DEF q, nb, p
    <3> QED BY ONLY <1>1, <2>3, <2>4, <3>2
  <2>6. PICK X \in SUBSET AddressLists :
           /\ IsFiniteSet(S) /\ IsFiniteSet(X) /\ Cardinality(S) <= Cardinality(X)
           /\ \A x \in X : A.len[x] = n
    BY ONLY <2>1, ManyLists
  <2>7. Cardinality(S) = p + 1
    <3>1. Null \notin G
      BY ONLY <2>3, NullAssumption
    <3> HIDE DEF G
    <3> QED BY ONLY <2>3, <3>1, FS_AddElement
  <2> DEFINE Y == {a \in Address : A.in[a] \in X}
             x == Cardinality(X)
             y == Cardinality(Y)
             id == pending[t].id
             Z == live \cup {id}
  <2>8. IsFiniteSet(Address) /\ Cardinality(Address) = nb * n
    BY ONLY <1>1, NumberOfAddresses
  <2>9. /\ Lists(Address, aa_space, AddressLists, A)
        /\ live \cup PutBy(pending) = Apart(Address, A) /\ live \cap PutBy(pending) = {}
    BY ONLY <2>1 DEF FindsNoBucket, AddressesPlaced
  <2>10. IsFiniteSet(Y) /\ x * n <= y
    <3> HIDE DEF Y, x, y
    <3>1. Y = {a \in Address : A.in[a] \in X}
      BY DEF Y
    <3>2. Cardinality(X) * n <= Cardinality(Y) /\ IsFiniteSet(Y)
      BY ONLY <1>1, <2>6, <2>8, <2>9, <3>1, NumberInLists
    <3> QED BY ONLY <3>2 DEF x, y
  <2>11. id \in PutBy(pending)
    <3>1. t \in Thread /\ pending[t].kind = "put" /\ pending[t] \in Pending
      BY ONLY <2>1 DEF FindsNoBucket, Inv, PendingApart
    <3>2. id \in Address /\ pending[t] = Putting(id)
      BY ONLY <3>1, PendingKinds
    <3> QED BY ONLY <3>1, <3>2 DEF PutBy
  <2>12. Z \subseteq Apart(Address, A) /\ id \notin live
    BY ONLY <2>9, <2>11
  <2>13. Y \cap Z = {} /\ Y \subseteq Address /\ Z \subseteq Address
    <3>1. NoList \notin X
      BY ONLY X \in SUBSET AddressLists, AddressNames
    <3>2. \A a \in Apart(Address, A) : a \in Address /\ A.in[a] = NoList
      BY DEF Apart
    <3> QED BY ONLY <2>12, <3>1, <3>2
  <2> HIDE DEF Y, id
  <2>14. IsFiniteSet(live) /\ m \in Nat /\ IsFiniteSet(Z) /\ Cardinality(Z) = m + 1
    <3>1. live \in SUBSET Address
      BY ONLY <2>13
    <3>2. IsFiniteSet(live)
      BY ONLY <2>8, <3>1, FS_Subset
    <3> QED BY ONLY <2>12, <3>2, FS_AddElement, FS_CardinalityType
  <2>15. y + m + 1 <= nb * n
    <3> HIDE DEF Z
    <3>1. /\ IsFiniteSet(Y \cup Z)
          /\ Cardinality(Y \cup Z) = Cardinality(Y) + Cardinality(Z) - Cardinality(Y \cap Z)
      BY ONLY <2>10, <2>14, FS_Union
    <3>2. Cardinality(Y \cap Z) = 0
      BY ONLY <2>13, FS_EmptySet
    <3>3. Y \cup Z \in SUBSET Address
      BY ONLY <2>13
    <3>4. Cardinality(Y \cup Z) <= Cardinality(Address)
      BY ONLY <2>8, <3>3, FS_Subset
    <3>5. Cardinality(Y) \in Nat
      BY ONLY <2>10, FS_CardinalityType
    <3> DEFINE a == nb * n
               c == Cardinality(Y \cup Z)
    <3>6. c = y + (m + 1) - 0
      BY ONLY <2>14, <3>1, <3>2
    <3>7. c <= a
      BY ONLY <2>8, <3>4
    <3>8. y \in Nat /\ m \in Nat
      BY ONLY <2>14, <3>5
    <3>9. a \in Int
      BY <1>1
    <3> HIDE DEF a, c, y, m
    <3>10. y + m + 1 <= a
      BY ONLY <3>6, <3>7, <3>8, <3>9
    <3> QED BY ONLY <3>10 DEF a
  <2>16. x \in Nat /\ y \in Nat
    BY ONLY <2>6, <2>10, FS_CardinalityType
  <2>17. p + 1 <= x
    BY ONLY <2>6, <2>7
  <2> HIDE DEF n, nb, q, m, p, x, y
  <2> QED BY ONLY <1>1, <2>3, <2>5, <2>10, <2>14, <2>15, <2>16, <2>17, Counted
<1>3. m \in Nat
  <2>1. live \in SUBSET Address
    BY DEF Inv, TypeOK
  <2>2. IsFiniteSet(live)
    BY ONLY <2>1, NumberOfAddresses, FS_Subset
  <2> QED BY ONLY <2>2, FS_CardinalityType
<1>4. (q - 1) * n \in Int
  <2>1. \A x \in Int, y \in Int : x * y \in Int
    OBVIOUS
  <2>2. q - 1 \in Int /\ n \in Int
    BY ONLY <1>1
  <2> QED BY ONLY <2>1, <2>2
<1> DEFINE R == (q - 1) * n
<1>5. R \in Int /\ (failed => m < R)
  BY ONLY <1>2, <1>4
<1>6. failed => ~(m >= R)
  <2> HIDE DEF m, R
  <2> QED BY ONLY <1>3, <1>5
<1> QED
  BY ONLY <1>6 DEF SpareBucketFound, FreeBucketFound

(* SpareBucketFound: the assertion of put_free_aa holds while the program  *)
(* has that many addresses, with any number of threads and of buckets.     *)
THEOREM BucketForEveryAddress == Spec => []SpareBucketFound
<1>1. Inv => SpareBucketFound
  BY InvSpare
<1> QED
  BY <1>1, InvAlways, PTL
=============================================================================
