-------------------------------- MODULE AaPool --------------------------------
(***************************************************************************)
(* The pool of free abstract addresses of cf.c.  A free address is in the  *)
(* list of a thread or in a full bucket; the words of aa_space link the    *)
(* addresses of a list or bucket, except for its last one, which keeps     *)
(* what it had ("skip first entry").  Full buckets are with a thread or on *)
(* the stack free_aa_head, empty ones with a thread or, in chains of       *)
(* nr_local_free_abuckets, on the stack free_aa_buckets_head.              *)
(*                                                                         *)
(* The two stacks are the only shared state.  A call of nb_stack is one    *)
(* step here (NbStack implements that), and an operation that makes two is *)
(* two actions: other threads run in between.                              *)
(***************************************************************************)
EXTENDS Integers, Sequences, FiniteSets, SequencesExt, FiniteSetsExt

CONSTANTS
  Thread,
  nr_aa_buckets,
  nr_local_aas,            \* addresses in a full bucket
  nr_local_abuckets,       \* full buckets a thread keeps: one less
  nr_local_free_abuckets,  \* empty buckets a thread keeps
  Block,                   \* the word of an address in use
  Null

(* The assertions of cf_init. *)
ASSUME LimitsAssumption ==
  {nr_aa_buckets, nr_local_aas, nr_local_abuckets, nr_local_free_abuckets} \subseteq Nat \ {0}

nr_aas == nr_aa_buckets * nr_local_aas
Address == 0 .. nr_aas - 1
Bucket == 0 .. nr_aa_buckets - 1

ASSUME ThreadAssumption == IsFiniteSet(Thread)
ASSUME NullAssumption == Null \notin Bucket

VARIABLES
  aa_space,         \* the word of every abstract address
  next,             \* struct mem_aa and struct mem_aa_bucket: the next field
  local,            \* their other field, local_aas or local_aa_bucket
  free_aa_head,     \* top of the stack of full buckets
  free_aa_buckets_head,  \* top of the stack of chains of empty buckets
  data,             \* struct thread_data of every thread
  pending,          \* what a thread does between its two calls of nb_stack
  live,             \* addresses the program has
  failed            \* has the assertion of put_free_aa failed?

vars == <<aa_space, next, local, free_aa_head, free_aa_buckets_head, data, pending, live, failed>>

Word == Address \cup {Block}
Link == Bucket \cup {Null}
ThreadData ==
  [aas_count : 0 .. nr_local_aas, aas : Word,
   abuckets_count : 0 .. nr_local_abuckets - 1, abuckets : Link, last_abucket : Link,
   free_abuckets_count : 0 .. nr_local_free_abuckets, free_abuckets : Link]

(* put: id waits for an empty bucket; get: the bucket aa is to be kept.    *)
Pending == [kind : {"idle"}] \cup [kind : {"put"}, id : Address] \cup [kind : {"get"}, maa : Bucket]
idle == [kind |-> "idle"]

-----------------------------------------------------------------------------
(* aa_stack.c and aa_bucket_stack.c, on the links the caller has set: the  *)
(* chain of buckets from maa to last goes on top, or the top comes off.    *)
aa_put(maa, last, links) ==
  /\ next' = [links EXCEPT ![last] = free_aa_head]
  /\ free_aa_head' = maa

aa_get(maa) ==
  /\ free_aa_head = maa /\ maa # Null
  /\ free_aa_head' = next[maa]

aa_bucket_put(maa) ==
  /\ next' = [next EXCEPT ![maa] = free_aa_buckets_head]
  /\ free_aa_buckets_head' = maa

aa_bucket_get(maa) ==
  /\ free_aa_buckets_head = maa
  /\ free_aa_buckets_head' = IF maa = Null THEN Null ELSE next[maa]

-----------------------------------------------------------------------------
(* init_free_aa_list; aa_space comes zeroed from mmap.                     *)
init_free_aa_list ==
  /\ aa_space = [a \in Address |-> IF a % nr_local_aas = 0 THEN 0 ELSE a - 1]
  /\ local = [b \in Bucket |-> (b + 1) * nr_local_aas - 1]
  /\ next = [b \in Bucket |-> IF b = 0 THEN Null ELSE b - 1]
  /\ free_aa_head = nr_aa_buckets - 1
  /\ free_aa_buckets_head = Null

init_thread ==
  [aas_count |-> 0, aas |-> 0, abuckets_count |-> 0, abuckets |-> Null, last_abucket |-> Null,
   free_abuckets_count |-> 0, free_abuckets |-> Null]

(* A thread gets its data with its first call. *)
get_thread_data == [t \in Thread |-> init_thread]

Init ==
  /\ init_free_aa_list
  /\ data = get_thread_data
  /\ pending = [t \in Thread |-> idle]
  /\ live = {}
  /\ failed = FALSE

-----------------------------------------------------------------------------
(* The end of get_free_aa, and get_abstract_address: the first address of  *)
(* the list of d leaves it and gets the address of the page-block.         *)
take_address(t, d) ==
  /\ data' = [data EXCEPT ![t] = [d EXCEPT !.aas = aa_space[d.aas], !.aas_count = @ - 1]]
  /\ aa_space' = [aa_space EXCEPT ![d.aas] = Block]
  /\ live' = live \cup {d.aas}
  /\ pending' = [pending EXCEPT ![t] = idle]
  /\ UNCHANGED failed

(* The bucket just emptied goes to the empty ones of the thread.           *)
keep_bucket(d, maa) ==
  [d EXCEPT !.free_abuckets = maa, !.free_abuckets_count = @ + 1]

(* Install the addresses of a full bucket. *)
install_bucket(d, maa) == [d EXCEPT !.aas = local[maa], !.aas_count = nr_local_aas]

(* Fault: the thread gives none of its empty buckets back.                 *)
too_many_free_buckets_never(d) == FALSE
too_many_free_buckets(d) == d.free_abuckets_count >= nr_local_free_abuckets

(* get_free_aa with the list empty: the bucket maa is taken, and d is the  *)
(* thread's data without it.                                               *)
use_bucket(t, d, maa) ==
  IF too_many_free_buckets(d)
  THEN /\ data' = [data EXCEPT ![t] = install_bucket(d, maa)]
       /\ pending' = [pending EXCEPT ![t] = [kind |-> "get", maa |-> maa]]
       /\ UNCHANGED <<aa_space, local, live, failed>>
  ELSE /\ take_address(t, keep_bucket(install_bucket(d, maa), maa))
       /\ local' = [local EXCEPT ![maa] = d.free_abuckets]

get_abstract_address(t) ==
  LET d == data[t]
  IN  /\ pending[t] = idle
      /\ UNCHANGED <<next, free_aa_buckets_head>>
      /\ \/ /\ d.aas_count > 0
            /\ take_address(t, d)
            /\ UNCHANGED <<local, free_aa_head>>
         \/ /\ d.aas_count = 0 /\ d.abuckets_count > 0
            /\ use_bucket(t, [d EXCEPT !.abuckets = next[d.abuckets], !.abuckets_count = @ - 1], d.abuckets)
            /\ UNCHANGED free_aa_head
         \/ /\ d.aas_count = 0 /\ d.abuckets_count = 0
            /\ aa_get(free_aa_head)
            /\ use_bucket(t, d, free_aa_head)

(* The chain of empty buckets is given back. *)
give_back(d) == [d EXCEPT !.free_abuckets = Null, !.free_abuckets_count = 0]

return_free_buckets(t) ==
  LET d == data[t]
  IN  /\ pending[t].kind = "get"
      /\ aa_bucket_put(d.free_abuckets)
      /\ take_address(t, keep_bucket(give_back(d), pending[t].maa))
      /\ local' = [local EXCEPT ![pending[t].maa] = Null]
      /\ UNCHANGED free_aa_head

-----------------------------------------------------------------------------
(* The end of put_free_aa: the first entry of a list is not linked; the    *)
(* fault does not link the second either.                                  *)
is_linked_late(d) == d.aas_count > 1
is_linked(d) == d.aas_count > 0

put_address(t, d, id) ==
  /\ aa_space' = IF is_linked(d) THEN [aa_space EXCEPT ![id] = d.aas] ELSE aa_space
  /\ data' = [data EXCEPT ![t] = [d EXCEPT !.aas = id, !.aas_count = @ + 1]]
  /\ pending' = [pending EXCEPT ![t] = idle]

(* put_free_aa fills the first empty bucket of d with the list of d.       *)
(* Without the last assignment it would lose the end of the chain.         *)
bucket_moved(d) ==
  [d EXCEPT !.free_abuckets = local[@], !.free_abuckets_count = @ - 1, !.aas_count = 0,
            !.abuckets = d.free_abuckets, !.abuckets_count = @ + 1]
bucket_filled(d) ==
  [bucket_moved(d) EXCEPT
     !.last_abucket = IF d.abuckets_count = 0 THEN d.free_abuckets ELSE @]

(* The fault keeps one full bucket more than it may.                       *)
too_many_buckets_late(d) == d.abuckets_count > nr_local_abuckets
too_many_buckets(d) == d.abuckets_count >= nr_local_abuckets

buckets_returned(d) == [d EXCEPT !.abuckets = Null, !.last_abucket = Null, !.abuckets_count = 0]

fill_bucket(t, d, id) ==
  LET maa    == d.free_abuckets
      d2     == bucket_filled(d)
      linked == [next EXCEPT ![maa] = d.abuckets]
  IN  /\ local' = [local EXCEPT ![maa] = d.aas]
      /\ IF too_many_buckets(d2)
         THEN /\ aa_put(d2.abuckets, d2.last_abucket, linked)
              /\ put_address(t, buckets_returned(d2), id)
         ELSE /\ next' = linked
              /\ UNCHANGED free_aa_head
              /\ put_address(t, d2, id)

clear_abstract_address(t) ==
  LET d == data[t]
  IN  /\ pending[t] = idle
      /\ \E id \in live :
         /\ live' = live \ {id}
         /\ \/ /\ d.aas_count < nr_local_aas
               /\ put_address(t, d, id)
               /\ UNCHANGED <<next, local, free_aa_head, free_aa_buckets_head, failed>>
            \/ /\ d.aas_count = nr_local_aas /\ d.free_abuckets_count > 0
               /\ fill_bucket(t, d, id)
               /\ UNCHANGED <<free_aa_buckets_head, failed>>
            \/ /\ d.aas_count = nr_local_aas /\ d.free_abuckets_count = 0
               /\ pending' = [pending EXCEPT ![t] = [kind |-> "put", id |-> id]]
               /\ data' = [data EXCEPT ![t].free_abuckets = free_aa_buckets_head,
                             ![t].free_abuckets_count =
                               IF free_aa_buckets_head = Null THEN 0 ELSE nr_local_free_abuckets]
               /\ aa_bucket_get(free_aa_buckets_head)
               /\ failed' = (free_aa_buckets_head = Null)
               /\ UNCHANGED <<aa_space, next, local, free_aa_head>>

finish_put(t) ==
  /\ pending[t].kind = "put"
  /\ fill_bucket(t, data[t], pending[t].id)
  /\ UNCHANGED <<free_aa_buckets_head, live, failed>>

Next ==
  \E t \in Thread :
    /\ ~failed
    /\ \/ get_abstract_address(t)
       \/ return_free_buckets(t)
       \/ clear_abstract_address(t)
       \/ finish_put(t)

Spec == Init /\ [][Next]_vars
-----------------------------------------------------------------------------
(* The types of struct thread_data, of the buckets and of the two stacks.  *)
TypeOK ==
  /\ aa_space \in [Address -> Word]
  /\ next \in [Bucket -> Link]
  /\ local \in [Bucket -> Address \cup Link]
  /\ free_aa_head \in Link /\ free_aa_buckets_head \in Link
  /\ data \in [Thread -> ThreadData]
  /\ pending \in [Thread -> Pending]
  /\ live \subseteq Address
  /\ failed \in BOOLEAN

(* The n elements of E from x on, following the links of f. *)
link(E, f, e) == IF e \in E THEN f[e] ELSE Null

chain(E, f, x, n) ==
  LET at[i \in 0 .. n] == IF i = 0 THEN x ELSE link(E, f, at[i - 1])
  IN  [i \in 1 .. n |-> at[i - 1]]

(* A stack down to its end, which is there within nr_aa_buckets links. *)
stack_of(x) ==
  LET s == chain(Bucket, next, x, nr_aa_buckets)
  IN  [i \in {j \in 1 .. nr_aa_buckets : s[j] # Null} |-> s[i]]

members(lists) == UNION {Range(lists[x]) : x \in DOMAIN lists}

listed == [t \in Thread |-> chain(Address, aa_space, data[t].aas, data[t].aas_count)]
full_with == [t \in Thread |-> chain(Bucket, next, data[t].abuckets, data[t].abuckets_count)]
empty_with == [t \in Thread |-> chain(Bucket, local, data[t].free_abuckets, data[t].free_abuckets_count)]

full_on_stack == stack_of(free_aa_head)
full_buckets == Range(full_on_stack) \cup members(full_with)
filled == [b \in full_buckets |-> chain(Address, aa_space, local[b], nr_local_aas)]

chains_on_stack == stack_of(free_aa_buckets_head)
empty_on_stack ==
  [b \in Range(chains_on_stack) |-> chain(Bucket, local, b, nr_local_free_abuckets)]

waiting(kind) == {t \in Thread : pending[t].kind = kind}
putting == [t \in waiting("put") |-> pending[t].id]
keeping == [t \in waiting("get") |-> pending[t].maa]

NoneTwice(lists) ==
  \A x, y \in DOMAIN lists :
    LET a == lists[x]
        b == lists[y]
    IN  \A i \in DOMAIN a, j \in DOMAIN b : a[i] = b[j] => x = y /\ i = j

(* An abstract address is in exactly one place, a list, a full bucket, or  *)
(* with the program or a thread that waits for an empty bucket.            *)
(* put_free_aa and get_free_aa neither lose an address nor give one to two *)
(* objects, whoever frees it.                                              *)
EveryAddressOnce ==
  LET with_threads == members(listed)
      in_buckets   == members(filled)
  IN  /\ NoneTwice(listed) /\ NoneTwice(filled) /\ IsInjective(putting)
      /\ with_threads \cap in_buckets = {}
      /\ Range(putting) \cap (with_threads \cup in_buckets) = {}
      /\ live = Address \ (with_threads \cup in_buckets \cup Range(putting))

(* A bucket is in exactly one place, too: full or empty, with a thread or  *)
(* on a stack, and an entry of free_aa_buckets_head is a chain of          *)
(* nr_local_free_abuckets of them, as put_free_aa counts on.               *)
EveryBucketOnce ==
  LET full_kept  == members(full_with)
      full_stack == Range(full_on_stack)
      empty      == members(empty_with)
      chained    == members(empty_on_stack)
  IN  /\ IsInjective(full_on_stack) /\ IsInjective(chains_on_stack)
      /\ NoneTwice(full_with) /\ NoneTwice(empty_with) /\ NoneTwice(empty_on_stack)
      /\ IsInjective(keeping)
      /\ full_stack \cap full_kept = {}
      /\ empty \cap chained = {}
      /\ (full_stack \cup full_kept) \cap (empty \cup chained) = {}
      /\ Range(keeping) = Bucket \ (full_stack \cup full_kept \cup empty \cup chained)

(* get_free_aa returns -1 although addresses are free, for other threads   *)
(* keep some: never more than a list and nr_local_abuckets - 1 full        *)
(* buckets each, and the one each may be putting.                          *)
HoardingBound ==
  \A t \in Thread :
    pending[t] = idle /\ data[t].aas_count = 0 /\ data[t].abuckets_count = 0 /\ free_aa_head = Null =>
      nr_aas - Cardinality(live) <=
        (Cardinality(Thread) - 1) * nr_local_aas * nr_local_abuckets + Cardinality(waiting("put"))

(* assert(data->free_abuckets != NULL) in put_free_aa: who has a full list *)
(* and no empty bucket finds one on the stack.                             *)
FreeBucketFound == ~failed

(* It does as long as the program has as many addresses as fill the empty  *)
(* buckets that all other threads together may keep, less one.             *)
SpareBucketFound ==
  Cardinality(live) >= ((Cardinality(Thread) - 1) * nr_local_free_abuckets - 1) * nr_local_aas =>
    FreeBucketFound
=============================================================================
