------------------------- MODULE MCDapperEventStore -------------------------
(***************************************************************************)
(* Instances of DapperEventStore for TLC.                                  *)
(***************************************************************************)
EXTENDS DapperEventStore, TLC

CONSTANTS t1, t2, a1, a2

\* Two threads that handle commands for the same aggregate.
SharedWriters == [a \in Aggregates |-> Threads]

\* a1 is handled by both threads, a2 by t2 only.
MixedWriters == (a1 :> {t1, t2}) @@ (a2 :> {t2})

MinusOne == -1

(***************************************************************************)
(* The behaviours in which an aggregate is created once, and every later   *)
(* save expects a version, so that its expectedVersion is checked.         *)
(***************************************************************************)
CreateOnce(t, a) == saves = 0 /\ Create(t, a) /\ tx'[t].todo > 0
LoadChecked(t, a) == Load(t, a) /\ tx'[t].expected # NoCheck

CheckedNext ==
  \/ \E t \in Threads, a \in Aggregates : CreateOnce(t, a) \/ LoadChecked(t, a)
  \/ \E t \in Threads : SaveEvents(t)
  \/ AllHandled

CheckedSpec == Init /\ [][CheckedNext]_vars
=============================================================================
