------------------------------- MODULE SizeMap -------------------------------
(***************************************************************************)
(* The tables of cf.c that take a size to its size-class and a size-class  *)
(* to the size of its blocks, as init_size_classes_mapping builds them.    *)
(* The sizes of the blocks grow by SIZECLASSESFACTOR = 9/8, rounded down   *)
(* to a byte and then up to a multiple of 4.                               *)
(***************************************************************************)
EXTENDS Integers, FiniteSets, FiniteSetsExt

CONSTANTS
  MINPAGEBLOCKSIZE, LARGESTSC, PAGEDATASIZE, SIZECLASSES  \* cf.h, cf.c

ASSUME SizeAssumption ==
  /\ MINPAGEBLOCKSIZE \in Nat /\ MINPAGEBLOCKSIZE % 4 = 0 /\ MINPAGEBLOCKSIZE >= 8
  /\ LARGESTSC \in Nat /\ LARGESTSC % 4 = 0
  /\ 9 * MINPAGEBLOCKSIZE < 8 * LARGESTSC /\ LARGESTSC < PAGEDATASIZE
  /\ PAGEDATASIZE \in Nat /\ PAGEDATASIZE % 4 = 0
  /\ SIZECLASSES \in Nat \ {0}

grow(b) == LET g == (9 * b) \div 8 IN IF g % 4 = 0 THEN g ELSE g + 4 - (g % 4)

last_step(b) == 9 * b >= 8 * LARGESTSC

next_base(b) == IF last_step(b) THEN b ELSE grow(b)

(* base after n rounds of the loop. *)
base[n \in 0 .. SIZECLASSES] ==
  IF n = 0 THEN MINPAGEBLOCKSIZE ELSE next_base(base[n - 1])

rounds == Min({n \in 0 .. SIZECLASSES : last_step(base[n])})

(* class at the end of the loop; assert(class < SIZECLASSES - 1) *)
last_class == rounds + 1
tables_fit == last_class < SIZECLASSES - 1

(* What the theorems ask of the constants of cf.h: after as many rounds as *)
(* there are classes for them, and not before, base is close to LARGESTSC. *)
LastRound == SIZECLASSES - 3
ClassesFit ==
  /\ LastRound \in Nat
  /\ \A n \in 0 .. LastRound : last_step(base[n]) <=> n = LastRound

size_class_2_size_map ==
  [c \in 0 .. SIZECLASSES - 1 |-> IF c <= rounds THEN base[c]
                                  ELSE IF c = last_class THEN LARGESTSC
                                  ELSE IF c = last_class + 1 THEN PAGEDATASIZE
                                  ELSE 0]

(* The entries for the sizes from one block size up to the next, that one  *)
(* not included, name the class of the next.  Fault: it is included.       *)
size_2_size_class_map_late ==
  [i \in 0 .. (LARGESTSC \div 4) - 1 |-> Cardinality({n \in 0 .. rounds : base[n] < 4 * i})]
size_2_size_class_map ==
  [i \in 0 .. (LARGESTSC \div 4) - 1 |-> Cardinality({n \in 0 .. rounds : base[n] <= 4 * i})]

(* The table ends one entry short of LARGESTSC: for that size the result   *)
(* is whatever number lies behind it.                                      *)
get_size_class_index(size) ==
  IF size > LARGESTSC THEN {SIZECLASSES - 1}
  ELSE IF size \div 4 \in DOMAIN size_2_size_class_map THEN {size_2_size_class_map[size \div 4]}
  ELSE 0 .. SIZECLASSES - 1
=============================================================================
