------------------------------ MODULE TlsfProgram ------------------------------
(***************************************************************************)
(* A program that calls all of tlsf.c, as the examples of TLSF 2.4.4 do:   *)
(* it allocates, resizes and frees, and gives the pool more areas.         *)
(***************************************************************************)
EXTENDS Tlsf

CONSTANTS
  Sizes,      \* bound: the sizes the program asks for
  Pool,       \* [at, size]: the first area
  NewAreas,   \* bound: the areas it may add
  MaxLive     \* bound: the blocks it has at a time

VARIABLES
  heap,
  live,   \* the blocks the program has, and the bytes it asked for
  added   \* the areas it has added

vars == <<heap, live, added>>

(* The program gives tlsf.c its pool before it asks for a block; otherwise *)
(* the first tlsf_malloc would make one, of memory above the break.        *)
Init ==
  /\ heap = init_memory_pool(Pool.at, Pool.size)
  /\ live = <<>>
  /\ added = {}

(* m is what a call that asked for size has returned. *)
got(m, size) ==
  /\ Cardinality(DOMAIN live) < MaxLive
  /\ heap' = m.heap
  /\ live' = IF m.ptr = NULL THEN live ELSE (m.ptr :> size) @@ live
  /\ UNCHANGED added

tlsf_malloc(size) == got(malloc_ex(heap, capped(size)), size)
tlsf_calloc(nelem, elem_size) == got(calloc_ex(heap, nelem, elem_size), nelem * elem_size)

tlsf_free(b) ==
  /\ heap' = free_ex(heap, b)
  /\ live' = Restrict(live, DOMAIN live \ {b})
  /\ UNCHANGED added

(* Not where there is no block for the copy, where realloc_ex crashes.     *)
got_instead(b, m, size) ==
  /\ m # crash
  /\ heap' = m.heap
  /\ live' = LET others == Restrict(live, DOMAIN live \ {b})
             IN  IF size = 0 THEN others ELSE (m.ptr :> size) @@ others
  /\ UNCHANGED added

tlsf_realloc(b, size) == got_instead(b, realloc_ex(heap, b, size), size)

add_area(a) ==
  /\ a \notin added
  /\ heap' = add_new_area(heap, a.at, a.size)
  /\ added' = added \cup {a}
  /\ UNCHANGED live

Next ==
  \/ \E size \in Sizes : tlsf_malloc(size)
  \/ \E n \in 0 .. 2, size \in Sizes : tlsf_calloc(n, size)
  \/ \E b \in DOMAIN live : tlsf_free(b)
  \/ \E b \in DOMAIN live, size \in Sizes \cup {0} : tlsf_realloc(b, size)
  \/ \E a \in NewAreas : add_area(a)

Spec == Init /\ [][Next]_vars
=============================================================================
