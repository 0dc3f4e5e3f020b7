---------------------------- MODULE PageLayoutMC ----------------------------
(* Every size up to a page, and one above; the constants are those of cf.h. *)
EXTENDS PageLayout
ASSUME RealConstants == ClassesFit
AllRequests == 0 .. PAGEDATASIZE + 1
=============================================================================
