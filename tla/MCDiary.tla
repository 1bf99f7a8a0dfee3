------------------------------- MODULE MCDiary -------------------------------
(***************************************************************************)
(* Instances of Diary for TLC: two of the four fields of an item.          *)
(***************************************************************************)
EXTENDS Diary

CONSTANTS u1, u2

TwoFields == << "title", "description" >>

\* Users differ only by what their browsers show.
Symmetry == Permutations(Users)
=============================================================================
