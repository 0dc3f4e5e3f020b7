---------------------------- MODULE AbstractHeap ----------------------------
(***************************************************************************)
(* The heap as a program sees it, without pages, blocks or compaction.     *)
(*                                                                         *)
(* Spec is what cf.h promises: cf_malloc returns an abstract address that  *)
(* nobody holds, cf_dereference finds the object at it as its owner left   *)
(* it until the owner frees it, and a freed address may come back from     *)
(* cf_malloc only after cf_free let go of it.                              *)
(*                                                                         *)
(* MovingSpec is less: a cf_free that has not returned may be moving an    *)
(* object of the program, and what cf_dereference finds is then something  *)
(* else, until that cf_free lets go of its address.                        *)
(***************************************************************************)
CONSTANTS
  AA,         \* abstract addresses
  Fresh(_),   \* what the owner of an address puts into a new object
  Moving      \* what it finds in an object that is being moved

VARIABLES
  objects,    \* the objects the program holds: address -> what it finds there
  returning   \* freed addresses some cf_free has not let go of yet

vars == <<objects, returning>>

Init == objects = [a \in {} |-> Fresh(a)] /\ returning = {}

Alloc(a) ==
  /\ a \notin DOMAIN objects \cup returning
  /\ objects' = [b \in DOMAIN objects \cup {a} |-> IF b = a THEN Fresh(a) ELSE objects[b]]
  /\ UNCHANGED returning

Free(a) ==
  /\ a \in DOMAIN objects
  /\ objects' = [b \in DOMAIN objects \ {a} |-> objects[b]]
  /\ returning' \in {returning, returning \cup {a}}

Return(a) ==
  /\ a \in returning
  /\ returning' = returning \ {a}
  /\ UNCHANGED objects

Next == \E a \in AA : Alloc(a) \/ Free(a) \/ Return(a)

Spec == Init /\ [][Next]_vars
-----------------------------------------------------------------------------
(* The cf_free that frees a begins to move b, or takes over its move.      *)
FreeAndMove(a, b) ==
  /\ a \in DOMAIN objects
  /\ b \in DOMAIN objects \ {a}
  /\ objects' = [c \in DOMAIN objects \ {a} |-> IF c = b THEN Moving ELSE objects[c]]
  /\ returning' = returning \cup {a}

(* The cf_free that freed a has moved b. *)
ReturnMoved(a, b) ==
  /\ a \in returning
  /\ b \in DOMAIN objects
  /\ objects[b] = Moving
  /\ objects' = [objects EXCEPT ![b] = Fresh(b)]
  /\ returning' = returning \ {a}

(* A cf_free moves one object at a time: each object that is being moved   *)
(* has a mover of its own.                                                 *)
moving == {b \in DOMAIN objects : objects[b] = Moving}

MovesAccounted ==
  \E mover \in [moving -> returning] :
    \A b, c \in moving : mover[b] = mover[c] => b = c

MovingNext ==
  /\ \/ Next
     \/ \E a, b \in AA : FreeAndMove(a, b) \/ ReturnMoved(a, b)
  /\ MovesAccounted'

MovingSpec == Init /\ [][MovingNext]_vars
=============================================================================
