-------------------------- MODULE DapperEventStore --------------------------
(***************************************************************************)
(* The SQL Server event store (ECQRS.SqlServer.EventStore) and the command *)
(* handlers that use it through AggregateRepository: any number of threads *)
(* (the timer thread of every server process, the web request threads of   *)
(* SendSync) that load an aggregate, decide on some events and save them   *)
(* in a transaction which publishes every event before it commits.         *)
(*                                                                         *)
(* Covered: the read-then-insert window of SaveEvents, the expectedVersion *)
(* check, publication inside the transaction, failed inserts, failed       *)
(* publications, failed commits and crashes of a thread (all of them roll  *)
(* the transaction back), and both read modes of READ COMMITTED.           *)
(* Not covered: the payload of an event, its serialisation, the time       *)
(* stamps, and the overflow of the 32-bit version.                         *)
(***************************************************************************)
EXTENDS Integers, Sequences, FiniteSets

CONSTANTS
  Threads,        \* threads that run command handlers
  Aggregates,     \* identities of aggregates
  Writers,        \* Writers[a]: the threads that handle commands for a
  NewVersion,     \* expectedVersion of the save that creates an aggregate:
                  \* -1 in UserManager and SimpleCQRS, 1 in Diary
  RowVersioning,  \* TRUE: readers see committed rows and never wait
                  \* FALSE: a reader waits for the rows another transaction
                  \* has inserted and not committed (SQL Server's default)
  MaxSaves,       \* bound: commands handled in a behaviour
  MaxBatch,       \* bound: events produced by one command
  MaxRollbacks    \* bound: transactions that fail

ASSUME EventStoreAssumption ==
  /\ Writers \in [Aggregates -> SUBSET Threads]
  /\ NewVersion \in Int /\ NewVersion >= -1
  /\ RowVersioning \in BOOLEAN
  /\ MaxSaves \in Nat /\ MaxBatch \in Nat /\ MaxRollbacks \in Nat

VARIABLES
  stored,      \* stored[a]: committed rows of a, in the order of the commits
  tx,          \* tx[t]: what thread t is doing
  published,   \* events given to the bus, with the version they carried
  saves,       \* number of commands begun, the identity of the next one
  rolledBack   \* history: the commands whose transaction was rolled back

vars == << stored, tx, published, saves, rolledBack >>

NoCheck == -1   \* expectedVersion that disables the check

(***************************************************************************)
(* An event is identified by the command that produced it and its place    *)
(* among the events of that command.                                       *)
(***************************************************************************)
EventId == Nat \X Nat
Row     == [event : EventId, version : Int]

Idle == [phase |-> "idle"]

(***************************************************************************)
(* opening    - events decided, before the SELECT of SaveEvents            *)
(* saving     - at the head of the loop over the events                    *)
(* publishing - a row inserted, its event not yet given to the bus         *)
(***************************************************************************)
Transaction ==
  [phase    : {"opening", "saving", "publishing"},
   save     : Nat,
   agg      : Aggregates,
   expected : Int,
   version  : Int,          \* variable i of SaveEvents
   todo     : Nat,          \* events still to be inserted
   pending  : Seq(Row)]     \* rows inserted and not committed

Active(t) == tx[t] # Idle
Pending(t) == IF Active(t) THEN tx[t].pending ELSE << >>

Rows(s) == {s[k] : k \in DOMAIN s}
Versions(s) == {s[k].version : k \in DOMAIN s}

(***************************************************************************)
(* Definitions that end in "Mutant" are slips the code could contain and   *)
(* does not.  No specification uses them: each one put in the place of the *)
(* definition it varies must break a property.                             *)
(***************************************************************************)
\* The SELECT sorts by Version without DESC.
LastVersionMutant(a) ==
  CHOOSE v \in Versions(stored[a]) : \A w \in Versions(stored[a]) : v <= w

\* SELECT ... ORDER BY Version DESC, first row.
LastVersion(a) ==
  CHOOSE v \in Versions(stored[a]) : \A w \in Versions(stored[a]) : w <= v

(***************************************************************************)
(* A reader meets the rows another transaction has inserted.  The table    *)
(* has no index on AggregateId, so the rows of every aggregate are met.    *)
(***************************************************************************)
Blocked(t) ==
  /\ ~RowVersioning
  /\ \E s \in Threads \ {t} : Pending(s) # << >>

\* Versions a client may have read: those the published events carried.
Shown(a) == {p.version : p \in {q \in published : q.agg = a}}

Begin(t, a, expected, n) ==
  /\ tx' = [tx EXCEPT ![t] =
              [phase |-> "opening", save |-> saves, agg |-> a,
               expected |-> expected, version |-> expected, todo |-> n,
               pending |-> << >>]]
  /\ saves' = saves + 1
  /\ UNCHANGED << stored, published, rolledBack >>

CanBegin(t, a) == ~Active(t) /\ t \in Writers[a] /\ saves < MaxSaves

\* A handler that builds a new aggregate and saves it.
Create(t, a) ==
  /\ CanBegin(t, a)
  /\ \E n \in 0..MaxBatch : Begin(t, a, NewVersion, n)

(***************************************************************************)
(* A handler that loads the aggregate (AggregateNotFoundException when it  *)
(* has no row) and calls a method of it.  It expects no particular         *)
(* version, the version the client sent, or the loaded aggregate's         *)
(* Version, which is 1 plus the number of events.                          *)
(***************************************************************************)
Load(t, a) ==
  /\ CanBegin(t, a)
  /\ ~Blocked(t)
  /\ stored[a] # << >>
  /\ \E expected \in {NoCheck, Len(stored[a]) + 1} \cup Shown(a),
        n \in 0..MaxBatch : Begin(t, a, expected, n)

\* Only versions the store has not reached are refused.
ConflictsMutant(a, expected) ==
  stored[a] # << >> /\ expected > LastVersion(a)

Conflicts(a, expected) ==
  /\ stored[a] # << >>
  /\ LastVersion(a) # expected
  /\ expected # NoCheck

\* The versions go on from the expected one, checked or not.
BaseVersionMutant(a, expected) == expected

BaseVersion(a, expected) ==
  IF stored[a] = << >> THEN expected ELSE LastVersion(a)

\* The check is made when the events have been published.
LateCheckMutant(t) ==
  /\ tx[t].phase = "saving"
  /\ Conflicts(tx[t].agg, tx[t].expected)
  /\ tx' = [tx EXCEPT ![t] = Idle]
  /\ UNCHANGED << stored, published, saves, rolledBack >>

\* A refused save is tried again with the version that was refused.
RetryMutant(t) ==
  /\ tx[t].phase = "opening"
  /\ ~Blocked(t)
  /\ Conflicts(tx[t].agg, tx[t].expected)
  /\ UNCHANGED vars

\* The SELECT finds a version other than the expected one.
ThrowConcurrencyException(t) ==
  /\ tx[t].phase = "opening"
  /\ ~Blocked(t)
  /\ Conflicts(tx[t].agg, tx[t].expected)
  /\ tx' = [tx EXCEPT ![t] = Idle]
  /\ UNCHANGED << stored, published, saves, rolledBack >>

ReadLastVersion(t) ==
  /\ tx[t].phase = "opening"
  /\ ~Blocked(t)
  /\ ~Conflicts(tx[t].agg, tx[t].expected)
  /\ tx' = [tx EXCEPT ![t].phase = "saving",
                      ![t].version = BaseVersion(tx[t].agg, tx[t].expected)]
  /\ UNCHANGED << stored, published, saves, rolledBack >>

\* The row gets the version before the increment.
NewRowMutant(t) ==
  [event |-> << tx[t].save, Len(tx[t].pending) + 1 >>,
   version |-> tx[t].version]

NewRow(t) ==
  [event |-> << tx[t].save, Len(tx[t].pending) + 1 >>,
   version |-> tx[t].version + 1]

\* The loop does not stop at the last event.
InsertEventMutant(t) ==
  /\ tx[t].phase = "saving"
  /\ Len(tx[t].pending) <= MaxBatch
  /\ tx' = [tx EXCEPT ![t].phase = "publishing",
                      ![t].version = @ + 1,
                      ![t].todo = @ - 1,
                      ![t].pending = Append(@, NewRow(t))]
  /\ UNCHANGED << stored, published, saves, rolledBack >>

InsertEvent(t) ==
  /\ tx[t].phase = "saving"
  /\ tx[t].todo > 0
  /\ tx' = [tx EXCEPT ![t].phase = "publishing",
                      ![t].version = @ + 1,
                      ![t].todo = @ - 1,
                      ![t].pending = Append(@, NewRow(t))]
  /\ UNCHANGED << stored, published, saves, rolledBack >>

Announcement(a, r) == [agg |-> a, event |-> r.event, version |-> r.version]

LastPending(t) == tx[t].pending[Len(tx[t].pending)]

\* The exception of the bus is caught and the loop goes on.
PublishEventMutant(t) ==
  /\ tx[t].phase = "publishing"
  /\ published' \in {published,
                     published \cup {Announcement(tx[t].agg, LastPending(t))}}
  /\ tx' = [tx EXCEPT ![t].phase = "saving"]
  /\ UNCHANGED << stored, saves, rolledBack >>

\* The bus works on a connection of its own: this is not undone by a rollback.
PublishEvent(t) ==
  /\ tx[t].phase = "publishing"
  /\ published' = published \cup {Announcement(tx[t].agg, LastPending(t))}
  /\ tx' = [tx EXCEPT ![t].phase = "saving"]
  /\ UNCHANGED << stored, saves, rolledBack >>

Commit(t) ==
  /\ tx[t].phase = "saving"
  /\ tx[t].todo = 0
  /\ stored' = [stored EXCEPT ![tx[t].agg] = @ \o tx[t].pending]
  /\ tx' = [tx EXCEPT ![t] = Idle]
  /\ UNCHANGED << published, saves, rolledBack >>

\* An exception of the SELECT, an insert, the bus or the commit, or the end
\* of the thread: the transaction is disposed and the database drops its rows.
Rollback(t) ==
  /\ Active(t)
  /\ Cardinality(rolledBack) < MaxRollbacks
  /\ rolledBack' = rolledBack \cup {tx[t].save}
  /\ tx' = [tx EXCEPT ![t] = Idle]
  /\ UNCHANGED << stored, published, saves >>

(***************************************************************************)
(* The bound on commands is reached and every thread is back: nothing is   *)
(* left to do in this instance, which is no deadlock of the program.       *)
(***************************************************************************)
AllHandled ==
  /\ saves = MaxSaves
  /\ \A t \in Threads : ~Active(t)
  /\ UNCHANGED vars

Init ==
  /\ stored = [a \in Aggregates |-> << >>]
  /\ tx = [t \in Threads |-> Idle]
  /\ published = {}
  /\ saves = 0
  /\ rolledBack = {}

SaveEvents(t) ==
  \/ ThrowConcurrencyException(t)
  \/ ReadLastVersion(t)
  \/ InsertEvent(t)
  \/ PublishEvent(t)
  \/ Commit(t)

Next ==
  \/ \E t \in Threads, a \in Aggregates : Create(t, a) \/ Load(t, a)
  \/ \E t \in Threads : SaveEvents(t)
  \/ \E t \in Threads : Rollback(t)
  \/ AllHandled

Spec == Init /\ [][Next]_vars

\* A thread inside SaveEvents goes on unless a reader has to wait.
FairSpec == Spec /\ \A t \in Threads : WF_vars(SaveEvents(t))

-----------------------------------------------------------------------------
TypeOK ==
  /\ stored \in [Aggregates -> Seq(Row)]
  /\ tx \in [Threads -> {Idle} \cup Transaction]
  /\ published \subseteq [agg : Aggregates, event : EventId, version : Int]
  /\ saves \in 0..MaxSaves
  /\ rolledBack \subseteq Nat

(***************************************************************************)
(* The versions of an aggregate have no gap: every committed row either    *)
(* has the first version or comes after a row with the version before it.  *)
(* Threads may race and commands may expect a version that was shown to a  *)
(* client and rolled back; line 76 of SaveEvents numbers from the last row *)
(* all the same.                                                           *)
(***************************************************************************)
NoGapIn(s) ==
  \A k \in DOMAIN s :
    \/ s[k].version = NewVersion + 1
    \/ \E j \in 1..(k - 1) : s[j].version = s[k].version - 1

NoVersionGap == \A a \in Aggregates : NoGapIn(stored[a])

(***************************************************************************)
(* No committed event is missing on the bus, in the version it was stored  *)
(* with: publication comes before the commit, and a failed publication     *)
(* takes the whole save down with it.                                      *)
(***************************************************************************)
CommittedWasPublished ==
  \A a \in Aggregates : \A r \in Rows(stored[a]) :
    Announcement(a, r) \in published

(***************************************************************************)
(* An event on the bus is stored, about to be stored, or comes from a      *)
(* command whose transaction failed.  In particular a command refused with *)
(* ConcurrencyException has published nothing.                             *)
(***************************************************************************)
PublishedIsAccountedFor ==
  \A p \in published :
    \/ \E r \in Rows(stored[p.agg]) : p = Announcement(p.agg, r)
    \/ \E t \in Threads : /\ Active(t)
                          /\ tx[t].agg = p.agg
                          /\ \E r \in Rows(tx[t].pending) : p = Announcement(p.agg, r)
    \/ p.event[1] \in rolledBack

(***************************************************************************)
(* An aggregate whose commands are all handled by one thread never has two *)
(* rows of the same version, whatever the other threads do to the other    *)
(* aggregates.                                                             *)
(***************************************************************************)
SingleWriter(a) == \A s, t \in Writers[a] : s = t

UniqueVersions ==
  \A a \in Aggregates : SingleWriter(a) =>
    \A j, k \in DOMAIN stored[a] :
      stored[a][j].version = stored[a][k].version => j = k

(***************************************************************************)
(* "Check whether latest event version matches current aggregate version,  *)
(* otherwise -> throw exception" (SaveEvents): when the rows of a command  *)
(* that expects version v are committed, v is the latest version.          *)
(***************************************************************************)
Appends(t) == Active(t) /\ tx'[t] = Idle /\ stored' # stored

ExpectedIsCurrent(t) ==
  LET a == tx[t].agg
  IN  stored[a] # << >> /\ tx[t].expected # NoCheck
        => tx[t].expected = LastVersion(a)

ExpectedVersionHonoured ==
  [][\A t \in Threads : Appends(t) => ExpectedIsCurrent(t)]_vars

(***************************************************************************)
(* The same for the aggregates with a single writer, where it holds.       *)
(***************************************************************************)
ExpectedVersionHonouredForSingleWriter ==
  [][\A t \in Threads : Appends(t) /\ SingleWriter(tx[t].agg)
                          => ExpectedIsCurrent(t)]_vars

(***************************************************************************)
(* For the aggregates with a single writer the store implements the        *)
(* abstract event log: a save appears in one step, numbered from the last. *)
(***************************************************************************)
Log == INSTANCE EventLog WITH
         Aggregates <- {a \in Aggregates : SingleWriter(a)},
         log <- [a \in {b \in Aggregates : SingleWriter(b)} |->
                   [k \in DOMAIN stored[a] |-> stored[a][k].version]]

ImplementsEventLog == Log!Spec

(***************************************************************************)
(* Every save ends, stored or refused: threads that wait for each other's  *)
(* rows never wait in a circle, because a transaction reads only before    *)
(* its first insert.                                                       *)
(***************************************************************************)
EverySaveEnds == \A t \in Threads : Active(t) ~> ~Active(t)
=============================================================================
