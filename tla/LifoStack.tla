------------------------------ MODULE LifoStack ------------------------------
(***************************************************************************)
(* What nb_stack.c promises its callers: a stack of elements from which a  *)
(* thread takes the top one, and on which it puts a chain of elements it   *)
(* has, each in one indivisible step.  An element is in the stack or with  *)
(* exactly one thread.  On processors without cmpxchg64 nb_stack.c is just *)
(* this, under a mutex.                                                    *)
(***************************************************************************)
EXTENDS FiniteSets, Sequences, SequencesExt

CONSTANTS
  Elem,    \* pages, or buckets of pages or abstract addresses
  Thread

VARIABLES
  contents,   \* the stack, top first
  owned       \* the elements each thread has

vars == <<contents, owned>>

Init ==
  /\ contents \in {s \in BoundedSeq(Elem, Cardinality(Elem)) : IsInjective(s) /\ ToSet(s) = Elem}
  /\ owned = [t \in Thread |-> {}]

Chains == {c \in BoundedSeq(Elem, 2) : c # <<>> /\ IsInjective(c)}

Put(t, c) ==
  /\ ToSet(c) \subseteq owned[t]
  /\ contents' = c \o contents
  /\ owned' = [owned EXCEPT ![t] = @ \ ToSet(c)]

Get(t) ==
  /\ contents # <<>>
  /\ contents' = Tail(contents)
  /\ owned' = [owned EXCEPT ![t] = @ \cup {Head(contents)}]

(* Threads pass elements on without the stack. *)
HandOver(t, u, e) ==
  /\ e \in owned[t]
  /\ owned' = [owned EXCEPT ![t] = @ \ {e}, ![u] = @ \cup {e}]
  /\ UNCHANGED contents

Next ==
  \E t \in Thread :
    \/ Get(t)
    \/ \E c \in Chains : Put(t, c)
    \/ \E u \in Thread, e \in Elem : HandOver(t, u, e)

Spec == Init /\ [][Next]_vars
=============================================================================
