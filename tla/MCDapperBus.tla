---------------------------- MODULE MCDapperBus -----------------------------
(***************************************************************************)
(* Instances of DapperBus for TLC.                                         *)
(***************************************************************************)
EXTENDS DapperBus, TLC

CONSTANTS s1, s2, w1, w2

\* One server whose timer elapses while its last tick may still run.
OneServer == (w1 :> s1) @@ (w2 :> s1)

\* Two servers that poll the same table.
TwoServers == (w1 :> s1) @@ (w2 :> s2)

\* The command handlers listen to one queue, the event handlers to the other.
QueueOfHandler ==
  [h \in Subscribers |-> IF h = "command handler" THEN "commands" ELSE "events"]
=============================================================================
