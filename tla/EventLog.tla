------------------------------ MODULE EventLog ------------------------------
(***************************************************************************)
(* What an event store promises to the aggregates kept in it, whatever its *)
(* storage: one append-only log per aggregate, whose versions follow each  *)
(* other without a gap or a repetition, and to which the events of a save  *)
(* are added in one step.                                                  *)
(*                                                                         *)
(* SaveEvents of the stores states it in its comments: "iterate through    *)
(* current aggregate events increasing version with each processed event". *)
(***************************************************************************)
EXTENDS Integers, Sequences

CONSTANTS
  Aggregates,   \* identities of aggregates
  NewVersion,   \* the version before the first event of an aggregate
  MaxBatch      \* bound: events in one save

VARIABLE log    \* log[a]: versions of the events of a, oldest first

Init == log = [a \in Aggregates |-> << >>]

Current(a) == NewVersion + Len(log[a])

Save(a, n) ==
  log' = [log EXCEPT ![a] = @ \o [k \in 1..n |-> Current(a) + k]]

Next == \E a \in Aggregates, n \in 0..MaxBatch : Save(a, n)

Spec == Init /\ [][Next]_log
=============================================================================
