---------------------------- MODULE MCWebClient -----------------------------
(***************************************************************************)
(* Instances of WebClient for TLC.                                         *)
(***************************************************************************)
EXTENDS WebClient

MCSizes == {1, 2}
MCRowCounts == {0, 4}
MCInstances == {1, 2}
=============================================================================
