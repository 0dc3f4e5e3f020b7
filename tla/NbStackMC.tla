------------------------------ MODULE NbStackMC ------------------------------
(***************************************************************************)
(* Symmetry for the runs of NbStack, and a view without the version: of a  *)
(* snapshot only whether it is the current word matters, since a version   *)
(* never comes back and, without torn reads, is never ahead of the word.   *)
(* With the view the runs cover every number of calls: MaxVersion is out   *)
(* of their reach.                                                         *)
(***************************************************************************)
EXTENDS NbStack

Symmetry == Permutations(Thread) \cup Permutations(Elem)

View ==
  << stack.elem, next, held,
     [t \in Thread |->
        IF call[t] = Null THEN Null
        ELSE [call[t] EXCEPT !.old = <<@.elem, @ = stack>>]] >>
=============================================================================
