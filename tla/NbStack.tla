------------------------------- MODULE NbStack -------------------------------
(***************************************************************************)
(* The lock-free stack of nb_stack.c, which page_stack.c, aa_stack.c and   *)
(* aa_bucket_stack.c wrap: a 64-bit word with the address of the top       *)
(* element in its low bits and a version number above them, replaced by    *)
(* compare-and-swap.  An action is one access to shared memory.            *)
(*                                                                         *)
(* The word is wider than a machine word of the 32-bit build, and old =    *)
(* *stack is a plain load of it: with TornReads it is two loads, low half  *)
(* first.  The low half holds the address and the version modulo           *)
(* LowVersions, 2^(32 - bits): 2^14 in page_stack.c, 4 in aa_stack.c.      *)
(*                                                                         *)
(* An element that is not in the stack is a page, or a bucket, in use: its *)
(* owner writes over the next field, and a slow nb_stack_get still reads   *)
(* it.  The version is taken to be unbounded, where the code has 64 - bits *)
(* bits: 34 or more.                                                       *)
(***************************************************************************)
EXTENDS Integers, Sequences, FiniteSets, SequencesExt

CONSTANTS
  Elem,
  Thread,
  TornReads,    \* is old = *stack two 32-bit loads?
  LowVersions,  \* versions the low half of the word tells apart
  MaxVersion,   \* bound: no call begins after this many successful calls
  Null

ASSUME TornReadsAssumption == TornReads \in BOOLEAN
ASSUME LowVersionsAssumption == LowVersions \in Nat \ {0}
ASSUME ElemAssumption == Null \notin Elem /\ IsFiniteSet(Elem)

VARIABLES
  stack,  \* the word: [elem, version]
  next,   \* the next field of every element
  held,   \* the elements each thread has and is not putting
  call    \* the locals of the nb_stack_put or nb_stack_get a thread is in

vars == <<stack, next, held, call>>

StackWord == [elem : Elem \cup {Null}, version : Nat]
Link == Elem \cup {Null}

(* chain is what nb_stack_put puts, p first and last last; <<>> is a get.  *)
(* link is the next that nb_stack_get has read.                            *)
Call == [chain : Seq(Elem), pc : {"load", "high", "link", "cas"},
         old : StackWord, link : Link]

ASSUME NoneAssumption == Null \notin Call

nowhere == [elem |-> Null, version |-> 0]
is_put(k) == k.chain # <<>>

(* The elements from e on, as the next fields have it. *)
linked_from(e) ==
  LET from[n \in 0 .. Cardinality(Elem)] ==
        [x \in Link |-> IF n = 0 \/ x = Null THEN <<>> ELSE <<x>> \o from[n - 1][next[x]]]
  IN  from[Cardinality(Elem)][e]

contents == linked_from(stack.elem)

(* Fault: the version stays. *)
pack_same_version(e, old) == [elem |-> e, version |-> old.version]
pack(e, old) == [elem |-> e, version |-> old.version + 1]

-----------------------------------------------------------------------------
(* init_free_pages_list and init_free_aa_list have put everything in.      *)
Init ==
  \E s \in {q \in BoundedSeq(Elem, Cardinality(Elem)) : ToSet(q) = Elem /\ IsInjective(q)} :
    /\ stack = [elem |-> Append(s, Null)[1], version |-> Len(s)]
    /\ next  = [e \in Elem |-> LET i == CHOOSE i \in 1 .. Len(s) : s[i] = e
                               IN  Append(s, Null)[i + 1]]
    /\ held  = [t \in Thread |-> {}]
    /\ call  = [t \in Thread |-> Null]

(* An element, or two that its owner has linked to a chain. *)
chains(t) == {c \in BoundedSeq(held[t], 2) : c # <<>> /\ IsInjective(c)}

begin(t, c) ==
  /\ call[t] = Null
  /\ stack.version < MaxVersion
  /\ call' = [call EXCEPT ![t] = [chain |-> c, pc |-> "load", old |-> nowhere, link |-> Null]]
  /\ UNCHANGED stack

nb_stack_put(t) ==
  \E c \in chains(t) :
    /\ begin(t, c)
    /\ held' = [held EXCEPT ![t] = @ \ ToSet(c)]
    /\ next' = IF Len(c) = 2 THEN [next EXCEPT ![c[1]] = c[2]] ELSE next

nb_stack_get(t) ==
  /\ begin(t, <<>>)
  /\ UNCHANGED <<held, next>>

(* The owner of an element writes over its next field: add_free_page when  *)
(* it keeps the list that begins with a page, the program when it uses one.*)
use(t) ==
  \E e \in held[t], x \in Link :
    /\ next' = [next EXCEPT ![e] = x]
    /\ UNCHANGED <<stack, held, call>>

(* Another thread becomes the owner: who frees the last block of a page    *)
(* has the page.                                                           *)
hand_over(t) ==
  \E e \in held[t], u \in Thread \ {t} :
    /\ held' = [held EXCEPT ![t] = @ \ {e}, ![u] = @ \cup {e}]
    /\ UNCHANGED <<stack, next, call>>

-----------------------------------------------------------------------------
(* old = *stack, and nb_stack_get is done when there is no element.        *)
loaded(t, old) ==
  /\ call' = [call EXCEPT ![t] = IF old.elem = Null /\ ~is_put(@) THEN Null
                                 ELSE [@ EXCEPT !.old = old, !.pc = "link"]]
  /\ UNCHANGED <<stack, next, held>>

load(t) ==
  /\ call[t].pc = "load"
  /\ IF TornReads
     THEN /\ call' = [call EXCEPT ![t].old = stack, ![t].pc = "high"]
          /\ UNCHANGED <<stack, next, held>>
     ELSE loaded(t, stack)

load_high(t) ==
  /\ call[t].pc = "high"
  /\ LET high == (stack.version \div LowVersions) * LowVersions
         low  == call[t].old.version % LowVersions
     IN  loaded(t, [elem |-> call[t].old.elem, version |-> high + low])

(* The end of the chain is linked to the top; the fault takes its start.   *)
link_start(c) == c[1]
link_end(c) == c[Len(c)]

(* last->next = first, or next = p->next *)
link(t) ==
  /\ call[t].pc = "link"
  /\ IF is_put(call[t])
     THEN /\ next' = [next EXCEPT ![link_end(call[t].chain)] = call[t].old.elem]
          /\ call' = [call EXCEPT ![t].pc = "cas"]
     ELSE /\ call' = [call EXCEPT ![t].link = next[call[t].old.elem], ![t].pc = "cas"]
          /\ UNCHANGED next
  /\ UNCHANGED <<stack, held>>

(* What nb_stack_get returns; the fault returns the new top.               *)
returned_next(k) == k.link
returned(k) == k.old.elem

(* Where a failed compare-and-swap goes on; the fault keeps old.           *)
retry_at_link(k) == [k EXCEPT !.pc = "link"]
retry(k) == [k EXCEPT !.pc = "load", !.old = nowhere, !.link = Null]

(* The processor's: new takes the place of old, and of nothing else.       *)
cmpxchg64(old, new) == stack' = IF stack = old THEN new ELSE stack

cas(t) ==
  LET k == call[t]
  IN  /\ k.pc = "cas"
      /\ cmpxchg64(k.old, pack(IF is_put(k) THEN k.chain[1] ELSE k.link, k.old))
      /\ IF stack = k.old
         THEN /\ held' = IF is_put(k) THEN held
                         ELSE [held EXCEPT ![t] = @ \cup {returned(k)}]
              /\ call' = [call EXCEPT ![t] = Null]
         ELSE /\ call' = [call EXCEPT ![t] = retry(k)]
              /\ UNCHANGED held
      /\ UNCHANGED next

step(t) ==
  /\ call[t] # Null
  /\ load(t) \/ load_high(t) \/ link(t) \/ cas(t)

Next == \E t \in Thread : nb_stack_put(t) \/ nb_stack_get(t) \/ use(t) \/ hand_over(t) \/ step(t)

Spec == Init /\ [][Next]_vars
-----------------------------------------------------------------------------
(* The types of nb_stack.h and of the locals of nb_stack_put and _get.     *)
TypeOK ==
  /\ stack \in StackWord
  /\ next \in [Elem -> Link]
  /\ held \in [Thread -> SUBSET Elem]
  /\ call \in [Thread -> Call \cup {Null}]

(* What a thread has, an unfinished nb_stack_put included. *)
belongs(t) == held[t] \cup IF call[t] = Null THEN {} ELSE ToSet(call[t].chain)

(* A page or a bucket is in the stack, once, or with one thread: none is   *)
(* handed out twice and none is lost, whatever slow calls have read before *)
(* the element was taken, used and put back (get_free_page relies on it).  *)
HandedOutOnce ==
  /\ IsInjective(contents)
  /\ \A t \in Thread : belongs(t) \cap ToSet(contents) = {}
  /\ \A t, u \in Thread : t # u => belongs(t) \cap belongs(u) = {}
  /\ Elem = ToSet(contents) \cup UNION {belongs(t) : t \in Thread}

(* The same under the name of the assertion of get_free_page: the page it  *)
(* is given is a free one, not one that is in use.                         *)
GetsFreeElement ==
  \A t \in Thread : call[t] # Null /\ ~is_put(call[t]) /\ call[t].pc = "cas" /\ stack = call[t].old =>
    \A u \in Thread : returned(call[t]) \notin belongs(u)

(* The steps to the end of a call if the others rest: a call whose word is *)
(* no longer the stack's has one more round to go.                         *)
steps_left(k, word) ==
  LET round == [load |-> 4, high |-> 3, link |-> 2, cas |-> 1]
  IN  round[k.pc] + IF k.pc \in {"link", "cas"} /\ k.old # word THEN round.load ELSE 0

(* Every step of a call brings it closer to its end, and only a success of *)
(* another call can put it back: whatever threads are stopped, the others' *)
(* calls of nb_stack_put and nb_stack_get come to their ends.              *)
LockFree ==
  [][\A t \in Thread : call[t] # Null =>
       \/ call'[t] = Null
       \/ stack' # stack
       \/ call'[t] = call[t]
       \/ steps_left(call'[t], stack') < steps_left(call[t], stack)]_vars

(* The stack is a stack: a successful compare-and-swap puts the chain on   *)
(* top of what is there, or takes the top off, and nothing else does.      *)
Stack == INSTANCE LifoStack WITH owned <- [t \in Thread |-> belongs(t)]
ImplementsStack == Stack!Spec
=============================================================================
