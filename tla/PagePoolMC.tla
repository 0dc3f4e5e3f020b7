------------------------------ MODULE PagePoolMC ------------------------------
(* Symmetry of the threads for the run of PagePool. *)
EXTENDS PagePool

Symmetry == Permutations(Thread)
=============================================================================
