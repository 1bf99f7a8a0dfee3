--------------------------- MODULE MCOrganization ---------------------------
(***************************************************************************)
(* Instances of Organization for TLC.                                      *)
(***************************************************************************)
EXTENDS Organization

CONSTANTS t1, t2, r1

\* The threads run the same code.
Symmetry == Permutations(Threads)
=============================================================================
