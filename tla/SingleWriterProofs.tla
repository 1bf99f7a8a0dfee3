------------------------- MODULE SingleWriterProofs -------------------------
(***************************************************************************)
(* Proofs about the aggregates of DapperEventStore that have one writer:   *)
(* there the check of the expected version cannot be overtaken, and the    *)
(* store implements EventLog.                                              *)
(***************************************************************************)
EXTENDS DapperEventStoreProofs, SequenceTheorems

USE EventStoreAssumption

\* The k-th row has the k-th version.
Sequential(s) == \A k \in 1..Len(s) : s[k].version = NewVersion + k

LogsSequential == \A a \in Aggregates : SingleWriter(a) => Sequential(stored[a])

\* Only the writers of an aggregate work on it, with at most MaxBatch events.
OwnerOK(t) ==
  Active(t) => /\ t \in Writers[tx[t].agg]
               /\ Len(tx[t].pending) + tx[t].todo <= MaxBatch

\* What the transaction of a sole writer read is still so.
ReadIsCurrent(x) ==
  Saving(x) /\ SingleWriter(x.agg) =>
    /\ NumberedFrom(x, NewVersion + Len(stored[x.agg]))
    /\ stored[x.agg] # << >> /\ x.expected # NoCheck
         => x.expected = NewVersion + Len(stored[x.agg])

SoleInv ==
  /\ Inv
  /\ LogsSequential
  /\ \A t \in Threads : OwnerOK(t)
  /\ \A t \in Threads : ReadIsCurrent(tx[t])

-----------------------------------------------------------------------------
LEMMA InitSoleInv == Init => SoleInv
<1> SUFFICES ASSUME Init PROVE SoleInv
  OBVIOUS
<1>1. \A a \in Aggregates : Len(stored[a]) = 0
  BY DEF Init
<1>2. LogsSequential
  BY <1>1 DEF LogsSequential, Sequential
<1>3. \A t \in Threads : tx[t].phase = "idle" /\ ~Active(t)
  BY IdleIsIdle DEF Init, Active
<1>4. QED
  BY <1>2, <1>3, InitInv DEF SoleInv, OwnerOK, ReadIsCurrent, Saving

(***************************************************************************)
(* In a sequential log the SELECT returns the version of the last row.     *)
(***************************************************************************)
LEMMA LastOfSequential ==
  ASSUME TypeOK, HasLastVersion, NEW a \in Aggregates, stored[a] # << >>,
         Sequential(stored[a])
  PROVE  LastVersion(a) = NewVersion + Len(stored[a])
<1> DEFINE n == Len(stored[a])
<1>1. stored[a] \in Seq(Row)
  BY DEF TypeOK
<1>2. DOMAIN stored[a] = 1..n /\ n \in Nat /\ n # 0
  BY <1>1
<1>3. Versions(stored[a]) = {NewVersion + k : k \in 1..n}
  BY <1>2 DEF Versions, Sequential
<1>4. LastVersion(a) \in {NewVersion + k : k \in 1..n}
  BY <1>3, LastVersionIsGreatest
<1>5. NewVersion + n <= LastVersion(a)
  BY <1>2, <1>3, LastVersionIsGreatest
<1>6. QED
  BY <1>2, <1>4, <1>5

LEMMA SequentialConcat ==
  ASSUME NEW x \in Seq(Row), NEW y \in Seq(Row), Sequential(x),
         \A m \in 1..Len(y) : y[m].version = NewVersion + Len(x) + m
  PROVE  Sequential(x \o y)
<1>1. ASSUME NEW k \in 1..Len(x \o y)
      PROVE  (x \o y)[k].version = NewVersion + k
  <2>1. CASE k \in 1..Len(x)
    BY <2>1, ConcatRows DEF Sequential
  <2>2. CASE \E m \in 1..Len(y) : k = Len(x) + m
    <3>1. PICK m \in 1..Len(y) : k = Len(x) + m
      BY <2>2
    <3>2. (x \o y)[k].version = NewVersion + Len(x) + m
      BY <3>1, ConcatRows
    <3>3. Len(x) \in Nat
      OBVIOUS
    <3>4. QED
      BY <3>1, <3>2, <3>3
  <2>3. QED
    BY <2>1, <2>2, ConcatRows
<1>2. QED
  BY <1>1 DEF Sequential

(***************************************************************************)
(* What a step of one thread that commits nothing preserves.               *)
(***************************************************************************)
LEMMA SoleThreadStep ==
  ASSUME SoleInv, Inv', NEW t \in Threads, stored' = stored,
         \A s \in Threads \ {t} : tx'[s] = tx[s],
         OwnerOK(t)', ReadIsCurrent(tx[t])'
  PROVE  SoleInv'
<1>1. LogsSequential'
  BY DEF SoleInv, LogsSequential, Sequential, SingleWriter
<1>2. ASSUME NEW s \in Threads PROVE OwnerOK(s)' /\ ReadIsCurrent(tx[s])'
  <2>1. CASE s = t
    BY <2>1
  <2>2. CASE s # t
    <3>1. OwnerOK(s) /\ ReadIsCurrent(tx[s]) /\ tx'[s] = tx[s]
      BY <2>2 DEF SoleInv
    <3>2. QED
      BY <3>1 DEF OwnerOK, Active, ReadIsCurrent, Saving, NumberedFrom, SingleWriter
  <2>3. QED
    BY <2>1, <2>2
<1>3. QED
  BY <1>1, <1>2 DEF SoleInv

LEMMA SoleBegin ==
  ASSUME SoleInv, Inv', NEW t \in Threads, NEW a \in Aggregates, NEW e,
         NEW n \in 0..MaxBatch, CanBegin(t, a), Begin(t, a, e, n)
  PROVE  SoleInv'
<1> DEFINE new == [phase |-> "opening", save |-> saves, agg |-> a,
                   expected |-> e, version |-> e, todo |-> n, pending |-> << >>]
<1>1. tx' = [tx EXCEPT ![t] = new] /\ stored' = stored
  BY DEF Begin
<1>2. tx'[t] = new /\ \A s \in Threads \ {t} : tx'[s] = tx[s]
  BY <1>1 DEF SoleInv, Inv, TypeOK
<1>3. OwnerOK(t)'
  BY <1>2 DEF OwnerOK, CanBegin
<1>4. ReadIsCurrent(tx[t])'
  BY <1>2 DEF ReadIsCurrent, Saving
<1>5. QED
  BY <1>1, <1>2, <1>3, <1>4, SoleThreadStep

LEMMA SoleEnd ==
  ASSUME SoleInv, Inv', NEW t \in Threads, tx' = [tx EXCEPT ![t] = Idle],
         stored' = stored
  PROVE  SoleInv'
<1>1. tx'[t] = Idle /\ \A s \in Threads \ {t} : tx'[s] = tx[s]
  BY DEF SoleInv, Inv, TypeOK
<1>2. OwnerOK(t)'
  BY <1>1 DEF OwnerOK, Active
<1>3. ReadIsCurrent(tx[t])'
  BY <1>1, IdleIsIdle DEF ReadIsCurrent, Saving
<1>4. QED
  BY <1>1, <1>2, <1>3, SoleThreadStep

(***************************************************************************)
(* The SELECT and the check: from here on a sole writer knows the length   *)
(* of the log.                                                             *)
(***************************************************************************)
LEMMA SoleRead ==
  ASSUME SoleInv, Inv', NEW t \in Threads, ReadLastVersion(t)
  PROVE  SoleInv'
<1> DEFINE a == tx[t].agg
           e == tx[t].expected
           n == Len(stored[a])
<1>1. /\ tx[t] \in Transaction /\ a \in Aggregates /\ Active(t)
      /\ stored[a] \in Seq(Row) /\ tx[t].todo \in Nat
  BY ActiveTransaction DEF SoleInv, Inv, TypeOK, ReadLastVersion, Transaction
<1>2. tx[t].pending = << >>
  BY DEF SoleInv, Inv, TransactionOK, OpeningOK, ReadLastVersion
<1>3. tx'[t] = [tx[t] EXCEPT !.phase = "saving", !.version = BaseVersion(a, e)]
  BY DEF ReadLastVersion, SoleInv, Inv, TypeOK
<1>4. /\ tx'[t].agg = a /\ tx'[t].expected = e /\ tx'[t].todo = tx[t].todo
      /\ tx'[t].pending = << >> /\ tx'[t].version = BaseVersion(a, e)
  BY <1>1, <1>2, <1>3 DEF Transaction
<1>5. stored' = stored /\ \A s \in Threads \ {t} : tx'[s] = tx[s]
  BY DEF ReadLastVersion, SoleInv, Inv, TypeOK
<1>6. OwnerOK(t)'
  BY <1>1, <1>2, <1>4 DEF SoleInv, OwnerOK
<1>7. ASSUME SingleWriter(a)
      PROVE  /\ BaseVersion(a, e) = NewVersion + n
             /\ stored[a] # << >> /\ e # NoCheck => e = NewVersion + n
  <2>1. CASE stored[a] = << >>
    <3>1. e = NewVersion /\ n = 0
      BY <2>1 DEF SoleInv, Inv, TransactionOK, OpeningOK, ReadLastVersion
    <3>2. QED
      BY <2>1, <3>1 DEF BaseVersion
  <2>2. CASE stored[a] # << >>
    <3>1. LastVersion(a) = NewVersion + n
      BY <1>1, <1>7, <2>2, LastOfSequential DEF SoleInv, Inv, LogsSequential
    <3>2. e # NoCheck => LastVersion(a) = e
      BY <2>2 DEF ReadLastVersion, Conflicts
    <3>3. QED
      BY <2>2, <3>1, <3>2 DEF BaseVersion
  <2>3. QED
    BY <2>1, <2>2
<1>8. n \in Nat /\ Len(tx'[t].pending) = 0
  BY <1>1, <1>4
<1>9. ReadIsCurrent(tx[t])'
  <2>1. ASSUME SingleWriter(a)
        PROVE  NumberedFrom(tx'[t], NewVersion + n)
    BY <1>4, <1>7, <1>8, <2>1 DEF NumberedFrom
  <2>2. QED
    BY <1>4, <1>5, <1>7, <2>1 DEF ReadIsCurrent, SingleWriter, NumberedFrom
<1>10. QED
  BY <1>5, <1>6, <1>9, SoleThreadStep

LEMMA SoleInsert ==
  ASSUME SoleInv, Inv', NEW t \in Threads, InsertEvent(t)
  PROVE  SoleInv'
<1> DEFINE a == tx[t].agg
           n == Len(stored[a])
<1>1. /\ TypeOK /\ tx[t] \in Transaction /\ a \in Aggregates /\ Active(t)
      /\ stored[a] \in Seq(Row) /\ tx[t].todo \in Nat /\ tx[t].pending \in Seq(Row)
  BY ActiveTransaction DEF SoleInv, Inv, TypeOK, InsertEvent, Transaction
<1>2. /\ tx'[t].agg = a /\ tx'[t].expected = tx[t].expected
      /\ tx'[t].todo = tx[t].todo - 1
      /\ tx'[t].pending = Append(tx[t].pending, NewRow(t)) /\ NewRow(t) \in Row
  <2>1. tx'[t] = [phase |-> "publishing", save |-> tx[t].save, agg |-> tx[t].agg,
                        expected |-> tx[t].expected, version |-> tx[t].version + 1,
                        todo |-> tx[t].todo - 1,
                        pending |-> Append(tx[t].pending, NewRow(t))]
    BY <1>1, InsertedRow, Zenon
  <2>2. NewRow(t) \in Row
    BY <1>1, InsertedRow, Zenon
  <2>3. QED
    BY <2>1, <2>2
<1>3. Len(tx'[t].pending) = Len(tx[t].pending) + 1
  BY <1>1, <1>2
<1>4. stored' = stored /\ \A s \in Threads \ {t} : tx'[s] = tx[s]
  BY DEF InsertEvent, SoleInv, Inv, TypeOK
<1>5. OwnerOK(t)'
  <2>1. t \in Writers[a] /\ Len(tx[t].pending) + tx[t].todo <= MaxBatch
    BY <1>1 DEF SoleInv, OwnerOK
  <2>2. Len(tx'[t].pending) + tx'[t].todo = Len(tx[t].pending) + tx[t].todo
    BY <1>1, <1>2, <1>3
  <2>3. QED
    BY <1>2, <2>1, <2>2 DEF OwnerOK
<1>6. NewVersion + n \in Int
  BY <1>1
<1>7. ReadIsCurrent(tx[t])'
  <2>1. ASSUME SingleWriter(a)
        PROVE  /\ NumberedFrom(tx'[t], NewVersion + n)
               /\ stored[a] # << >> /\ tx[t].expected # NoCheck
                    => tx[t].expected = NewVersion + n
    BY <1>1, <1>6, <2>1, InsertedRow DEF SoleInv, ReadIsCurrent, Saving, InsertEvent
  <2>2. QED
    BY <1>2, <1>4, <2>1 DEF ReadIsCurrent, SingleWriter, NumberedFrom
<1>8. QED
  BY <1>4, <1>5, <1>7, SoleThreadStep

LEMMA SolePublish ==
  ASSUME SoleInv, Inv', NEW t \in Threads, PublishEvent(t)
  PROVE  SoleInv'
<1>1. tx[t] \in Transaction /\ Active(t)
  BY ActiveTransaction DEF SoleInv, Inv, PublishEvent
<1>2. tx'[t] = [tx[t] EXCEPT !.phase = "saving"]
  BY DEF PublishEvent, SoleInv, Inv, TypeOK
<1>3. /\ tx'[t].agg = tx[t].agg /\ tx'[t].expected = tx[t].expected
      /\ tx'[t].todo = tx[t].todo /\ tx'[t].pending = tx[t].pending
      /\ tx'[t].version = tx[t].version
  BY <1>1, <1>2 DEF Transaction
<1>4. stored' = stored /\ \A s \in Threads \ {t} : tx'[s] = tx[s]
  BY DEF PublishEvent, SoleInv, Inv, TypeOK
<1>5. OwnerOK(t)'
  BY <1>1, <1>3 DEF SoleInv, OwnerOK
<1>6. ReadIsCurrent(tx[t])'
  <2>1. ReadIsCurrent(tx[t]) /\ Saving(tx[t])
    BY DEF SoleInv, Saving, PublishEvent
  <2>2. QED
    BY <1>3, <1>4, <2>1 DEF ReadIsCurrent, SingleWriter, NumberedFrom
<1>7. QED
  BY <1>4, <1>5, <1>6, SoleThreadStep

(***************************************************************************)
(* A commit adds to the log what its sole writer numbered from its end; no *)
(* other thread can have read the log it makes longer.                     *)
(***************************************************************************)
LEMMA SoleCommit ==
  ASSUME SoleInv, Inv', NEW t \in Threads, Commit(t)
  PROVE  SoleInv'
<1> DEFINE a == tx[t].agg
<1>1. /\ tx[t] \in Transaction /\ a \in Aggregates /\ Active(t)
      /\ tx[t].pending \in Seq(Row) /\ stored[a] \in Seq(Row)
  BY ActiveTransaction DEF SoleInv, Inv, TypeOK, Commit, Transaction
<1>2. /\ stored'[a] = stored[a] \o tx[t].pending
      /\ \A c \in Aggregates \ {a} : stored'[c] = stored[c]
      /\ tx'[t] = Idle /\ \A s \in Threads \ {t} : tx'[s] = tx[s]
  BY <1>1 DEF Commit, SoleInv, Inv, TypeOK
<1>3. ASSUME SingleWriter(a)
      PROVE  Sequential(stored'[a])
  <2>1. \A m \in 1..Len(tx[t].pending) :
          tx[t].pending[m].version = NewVersion + Len(stored[a]) + m
    BY <1>3 DEF SoleInv, ReadIsCurrent, Saving, NumberedFrom, Commit
  <2>2. Sequential(stored[a])
    BY <1>1, <1>3 DEF SoleInv, LogsSequential
  <2>3. QED
    BY <1>1, <1>2, <2>1, <2>2, SequentialConcat
<1>4. LogsSequential'
  <2>1. ASSUME NEW c \in Aggregates, SingleWriter(c)
        PROVE  Sequential(stored'[c])
    <3>1. CASE c = a
      BY <1>3, <2>1, <3>1
    <3>2. CASE c # a
      BY <1>2, <2>1, <3>2 DEF SoleInv, LogsSequential
    <3>3. QED
      BY <3>1, <3>2
  <2>2. QED
    BY <2>1 DEF LogsSequential, Sequential, SingleWriter
<1>5. ASSUME NEW s \in Threads PROVE OwnerOK(s)' /\ ReadIsCurrent(tx[s])'
  <2>1. CASE s = t
    BY <1>2, <2>1, IdleIsIdle DEF OwnerOK, Active, ReadIsCurrent, Saving
  <2>2. CASE s # t
    <3>1. OwnerOK(s) /\ ReadIsCurrent(tx[s]) /\ tx'[s] = tx[s]
      BY <1>2, <2>2 DEF SoleInv
    <3>2. OwnerOK(s)'
      BY <3>1 DEF OwnerOK, Active
    <3>3. ASSUME Saving(tx[s]), SingleWriter(tx[s].agg)
          PROVE  stored'[tx[s].agg] = stored[tx[s].agg]
      <4>1. tx[s].agg \in Aggregates /\ Active(s)
        BY <3>3, ActiveTransaction DEF SoleInv, Inv, Saving, Transaction
      <4>2. s \in Writers[tx[s].agg] /\ t \in Writers[a]
        BY <1>1, <4>1 DEF SoleInv, OwnerOK
      <4>3. tx[s].agg # a
        BY <2>2, <3>3, <4>2 DEF SingleWriter
      <4>4. QED
        BY <1>2, <4>1, <4>3
    <3>4. ReadIsCurrent(tx[s])'
      BY <3>1, <3>3 DEF ReadIsCurrent, Saving, SingleWriter, NumberedFrom
    <3>5. QED
      BY <3>2, <3>4
  <2>3. QED
    BY <2>1, <2>2
<1>6. QED
  BY <1>4, <1>5 DEF SoleInv

LEMMA SoleNextInv == SoleInv /\ [Next]_vars => SoleInv'
<1> SUFFICES ASSUME SoleInv, [Next]_vars PROVE SoleInv'
  OBVIOUS
<1>1. Inv'
  BY NextInv DEF SoleInv
<1>2. ASSUME NEW t \in Threads, NEW a \in Aggregates, Create(t, a) \/ Load(t, a)
      PROVE  SoleInv'
  BY <1>1, <1>2, SoleBegin DEF Create, Load
<1>3. ASSUME NEW t \in Threads, SaveEvents(t)
      PROVE  SoleInv'
  <2>1. CASE ThrowConcurrencyException(t)
    BY <1>1, <2>1, SoleEnd DEF ThrowConcurrencyException
  <2>2. CASE ReadLastVersion(t)
    BY <1>1, <2>2, SoleRead
  <2>3. CASE InsertEvent(t)
    BY <1>1, <2>3, SoleInsert
  <2>4. CASE PublishEvent(t)
    BY <1>1, <2>4, SolePublish
  <2>5. CASE Commit(t)
    BY <1>1, <2>5, SoleCommit
  <2>6. QED
    BY <1>3, <2>1, <2>2, <2>3, <2>4, <2>5 DEF SaveEvents
<1>4. ASSUME NEW t \in Threads, Rollback(t)
      PROVE  SoleInv'
  BY <1>1, <1>4, SoleEnd DEF Rollback
<1>5. CASE UNCHANGED vars
  <2>1. LogsSequential'
    BY <1>5 DEF vars, SoleInv, LogsSequential, Sequential, SingleWriter
  <2>2. ASSUME NEW t \in Threads PROVE OwnerOK(t)' /\ ReadIsCurrent(tx[t])'
    BY <1>5 DEF vars, SoleInv, OwnerOK, Active, ReadIsCurrent, Saving,
                SingleWriter, NumberedFrom
  <2>3. QED
    BY <1>1, <2>1, <2>2 DEF SoleInv
<1>6. QED
  BY <1>2, <1>3, <1>4, <1>5 DEF Next, AllHandled

(***************************************************************************)
(* With one writer, what SaveEvents read before its first insert is still  *)
(* so when it commits.                                                     *)
(***************************************************************************)
THEOREM SoleInvariance == Spec => []SoleInv
  BY InitSoleInv, SoleNextInv, PTL DEF Spec

(***************************************************************************)
(* An aggregate with one writer never has two rows of the same version.    *)
(***************************************************************************)
THEOREM NoVersionTwice == Spec => []UniqueVersions
<1>1. SoleInv => UniqueVersions
  <2>1. SUFFICES ASSUME SoleInv, NEW a \in Aggregates, SingleWriter(a),
                        NEW j \in DOMAIN stored[a], NEW k \in DOMAIN stored[a],
                        stored[a][j].version = stored[a][k].version
                 PROVE  j = k
    BY DEF UniqueVersions
  <2>2. stored[a] \in Seq(Row) /\ Sequential(stored[a])
    BY <2>1 DEF SoleInv, Inv, TypeOK, LogsSequential
  <2>3. j \in 1..Len(stored[a]) /\ k \in 1..Len(stored[a])
    BY <2>2
  <2>4. NewVersion + j = NewVersion + k
    BY <2>1, <2>2, <2>3 DEF Sequential
  <2>5. QED
    BY <2>3, <2>4
<1>2. QED
  BY <1>1, SoleInvariance, PTL

(***************************************************************************)
(* With one writer the check of the expected version means what its        *)
(* comment says: the rows are committed after that version.                *)
(***************************************************************************)
LEMMA AppendIsCommit ==
  ASSUME SoleInv, [Next]_vars, NEW t \in Threads, Appends(t)
  PROVE  Commit(t)
<1>1. tx'[t] # tx[t] /\ stored' # stored
  BY DEF Appends, Active
<1>2. PICK s \in Threads : Commit(s)
  BY <1>1 DEF Next, AllHandled, vars, Create, Load, Begin, SaveEvents, Rollback,
              ThrowConcurrencyException, ReadLastVersion, InsertEvent, PublishEvent
<1>3. s # t => tx'[t] = tx[t]
  BY <1>2 DEF Commit, SoleInv, Inv, TypeOK
<1>4. QED
  BY <1>1, <1>2, <1>3

THEOREM CheckIsHonoured == Spec => ExpectedVersionHonouredForSingleWriter
<1>1. ASSUME SoleInv, [Next]_vars, NEW t \in Threads, Appends(t),
             SingleWriter(tx[t].agg)
      PROVE  ExpectedIsCurrent(t)
  <2> DEFINE a == tx[t].agg
  <2>1. Commit(t)
    BY <1>1, AppendIsCommit
  <2>2. a \in Aggregates
    BY <1>1, <2>1, ActiveTransaction DEF SoleInv, Inv, Commit, Transaction
  <2>3. ASSUME stored[a] # << >>, tx[t].expected # NoCheck
        PROVE  tx[t].expected = LastVersion(a)
    <3>1. tx[t].expected = NewVersion + Len(stored[a])
      BY <1>1, <2>1, <2>3 DEF SoleInv, ReadIsCurrent, Saving, Commit
    <3>2. LastVersion(a) = NewVersion + Len(stored[a])
      BY <1>1, <2>2, <2>3, LastOfSequential DEF SoleInv, Inv, LogsSequential
    <3>3. QED
      BY <3>1, <3>2
  <2>4. QED
    BY <2>3 DEF ExpectedIsCurrent
<1>2. SoleInv /\ [Next]_vars
        => [\A t \in Threads : Appends(t) /\ SingleWriter(tx[t].agg)
                                => ExpectedIsCurrent(t)]_vars
  BY <1>1
<1>3. QED
  BY <1>2, SoleInvariance, PTL DEF Spec, ExpectedVersionHonouredForSingleWriter

(***************************************************************************)
(* The versions of the rows of a sole writer, as the log of EventLog.      *)
(***************************************************************************)
VersionLog(s) == [k \in DOMAIN s |-> s[k].version]

LEMMA VersionLogOfConcat ==
  ASSUME NEW x \in Seq(Row), NEW y \in Seq(Row), NEW b \in Int,
         \A m \in 1..Len(y) : y[m].version = b + m
  PROVE  /\ Len(VersionLog(x)) = Len(x)
         /\ VersionLog(x \o y) = VersionLog(x) \o [m \in 1..Len(y) |-> b + m]
<1> DEFINE z == x \o y
           new == [m \in 1..Len(y) |-> b + m]
<1>1. /\ DOMAIN x = 1..Len(x) /\ DOMAIN z = 1..Len(z)
      /\ Len(x) \in Nat /\ Len(y) \in Nat /\ z \in Seq(Row)
  BY ConcatRows
<1>2. ASSUME NEW s \in Seq(Row)
      PROVE  VersionLog(s) \in Seq(Int) /\ Len(VersionLog(s)) = Len(s)
  <2>1. DOMAIN s = 1..Len(s) /\ Len(s) \in Nat /\ \A k \in 1..Len(s) : s[k] \in Row
    OBVIOUS
  <2>2. \A k \in 1..Len(s) : s[k].version \in Int
    BY <2>1 DEF Row
  <2>3. VersionLog(s) \in [1..Len(s) -> Int]
    BY <2>1, <2>2 DEF VersionLog
  <2>4. QED
    BY <2>1, <2>3
<1>3. new \in Seq(Int) /\ Len(new) = Len(y)
  BY <1>1
<1>4. /\ VersionLog(x) \o new \in Seq(Int)
      /\ Len(VersionLog(x) \o new) = Len(x) + Len(y)
      /\ \A k \in 1..Len(x) : (VersionLog(x) \o new)[k] = VersionLog(x)[k]
      /\ \A m \in 1..Len(y) : (VersionLog(x) \o new)[Len(x) + m] = new[m]
  <2>1. ASSUME NEW u \in Seq(Int), NEW v \in Seq(Int)
        PROVE  /\ u \o v \in Seq(Int) /\ Len(u \o v) = Len(u) + Len(v)
               /\ \A k \in 1..Len(u) : (u \o v)[k] = u[k]
               /\ \A m \in 1..Len(v) : (u \o v)[Len(u) + m] = v[m]
    OBVIOUS
  <2>2. VersionLog(x) \in Seq(Int) /\ Len(VersionLog(x)) = Len(x)
    BY <1>2
  <2> DEFINE old == VersionLog(x)
  <2>3. old \in Seq(Int) /\ new \in Seq(Int) /\ Len(old) = Len(x) /\ Len(new) = Len(y)
    BY <1>3, <2>2
  <2> HIDE DEF new, old
  <2>4. /\ old \o new \in Seq(Int) /\ Len(old \o new) = Len(old) + Len(new)
        /\ \A k \in 1..Len(old) : (old \o new)[k] = old[k]
        /\ \A m \in 1..Len(new) : (old \o new)[Len(old) + m] = new[m]
    BY <2>1, <2>3, Zenon
  <2>5. /\ old \o new \in Seq(Int) /\ Len(old \o new) = Len(x) + Len(y)
        /\ \A k \in 1..Len(x) : (old \o new)[k] = old[k]
        /\ \A m \in 1..Len(y) : (old \o new)[Len(x) + m] = new[m]
    BY <2>3, <2>4
  <2>6. QED
    BY <2>5 DEF old
<1>5. VersionLog(z) \in Seq(Int) /\ Len(VersionLog(z)) = Len(x) + Len(y)
  BY <1>1, <1>2, ConcatRows
<1>6. ASSUME NEW k \in 1..(Len(x) + Len(y))
      PROVE  VersionLog(z)[k] = (VersionLog(x) \o new)[k]
  <2>1. k \in 1..Len(z) /\ VersionLog(z)[k] = z[k].version
    BY <1>1, ConcatRows DEF VersionLog
  <2>2. CASE k \in 1..Len(x)
    <3>1. z[k].version = VersionLog(x)[k]
      BY <1>1, <2>2, ConcatRows DEF VersionLog
    <3>2. (VersionLog(x) \o new)[k] = VersionLog(x)[k]
      BY <1>4, <2>2
    <3>3. QED
      BY <2>1, <3>1, <3>2
  <2>3. CASE \E m \in 1..Len(y) : k = Len(x) + m
    <3>1. PICK m \in 1..Len(y) : k = Len(x) + m
      BY <2>3
    <3>2. z[k].version = b + m
      BY <3>1, ConcatRows
    <3>3. (VersionLog(x) \o new)[k] = new[m]
      BY <1>4, <3>1
    <3>4. QED
      BY <2>1, <3>2, <3>3
  <2>4. QED
    BY <2>1, <2>2, <2>3, ConcatRows
<1>7. VersionLog(z) = VersionLog(x) \o new
  BY <1>4, <1>5, <1>6, SeqEqual
<1>8. QED
  BY <1>2, <1>7

Sole == {a \in Aggregates : SingleWriter(a)}

SoleLog == [a \in Sole |-> VersionLog(stored[a])]

LEMMA InitLog == Init => SoleLog = [a \in Sole |-> << >>]
<1> SUFFICES ASSUME Init PROVE \A a \in Sole : VersionLog(stored[a]) = << >>
  BY DEF SoleLog
<1>1. ASSUME NEW a \in Sole PROVE VersionLog(stored[a]) = << >>
  <2>1. stored[a] = << >>
    BY DEF Init, Sole
  <2>2. VersionLog(<< >>) = << >>
    BY DEF VersionLog
  <2>3. QED
    BY <2>1, <2>2
<1>2. QED
  BY <1>1

(***************************************************************************)
(* A commit for a sole writer is a save of EventLog.                       *)
(***************************************************************************)
LEMMA CommitLog ==
  ASSUME SoleInv, NEW t \in Threads, Commit(t), tx[t].agg \in Sole
  PROVE  LET a == tx[t].agg
             n == Len(tx[t].pending)
         IN  /\ n \in 0..MaxBatch
             /\ SoleLog' = [SoleLog EXCEPT ![a] =
                   @ \o [k \in 1..n |-> (NewVersion + Len(SoleLog[a])) + k]]
<1> DEFINE a == tx[t].agg
           n == Len(tx[t].pending)
           b == NewVersion + Len(stored[a])
<1>1. /\ tx[t] \in Transaction /\ a \in Aggregates /\ Active(t)
      /\ tx[t].pending \in Seq(Row) /\ stored[a] \in Seq(Row) /\ tx[t].todo \in Nat
  BY ActiveTransaction DEF SoleInv, Inv, TypeOK, Commit, Transaction
<1>2. /\ stored'[a] = stored[a] \o tx[t].pending
      /\ \A c \in Aggregates \ {a} : stored'[c] = stored[c]
  BY <1>1 DEF Commit, SoleInv, Inv, TypeOK
<1>3. n + tx[t].todo <= MaxBatch /\ n \in Nat
  BY <1>1 DEF SoleInv, OwnerOK
<1>4. n \in 0..MaxBatch
  BY <1>1, <1>3
<1>5. b \in Int /\ \A m \in 1..n : tx[t].pending[m].version = b + m
  <2>1. Saving(tx[t]) /\ SingleWriter(a)
    BY DEF Saving, Commit, Sole
  <2>2. NumberedFrom(tx[t], b)
    BY <2>1 DEF SoleInv, ReadIsCurrent
  <2>3. Len(stored[a]) \in Nat
    BY <1>1
  <2>4. QED
    BY <2>2, <2>3 DEF NumberedFrom
<1>6. /\ Len(VersionLog(stored[a])) = Len(stored[a])
      /\ VersionLog(stored'[a]) = VersionLog(stored[a]) \o [m \in 1..n |-> b + m]
  <2> DEFINE new == tx[t].pending
             old == stored[a]
  <2>1. old \in Seq(Row) /\ new \in Seq(Row) /\ \A m \in 1..Len(new) : new[m].version = b + m
    BY <1>1, <1>5
  <2> HIDE DEF new, old, b
  <2>2. /\ Len(VersionLog(old)) = Len(old)
        /\ VersionLog(old \o new) = VersionLog(old) \o [m \in 1..Len(new) |-> b + m]
    BY <1>5, <2>1, VersionLogOfConcat
  <2>3. QED
    BY <1>2, <2>2 DEF new, old
<1>7. Len(SoleLog[a]) = Len(stored[a]) /\ SoleLog[a] = VersionLog(stored[a])
  BY <1>6 DEF SoleLog
<1>8. SoleLog' = [c \in Sole |-> VersionLog(stored'[c])]
  BY DEF SoleLog, Sole, SingleWriter, VersionLog
<1>9. \A c \in Sole : c # a => VersionLog(stored'[c]) = SoleLog[c]
  BY <1>2 DEF SoleLog, Sole
<1>10. VersionLog(stored'[a])
         = SoleLog[a] \o [k \in 1..n |-> (NewVersion + Len(SoleLog[a])) + k]
  BY <1>6, <1>7
<1>11. DOMAIN SoleLog = Sole
  BY DEF SoleLog
<1>12. QED
  <2> DEFINE new == SoleLog[a] \o [k \in 1..n |-> (NewVersion + Len(SoleLog[a])) + k]
  <2>1. VersionLog(stored'[a]) = new
    BY <1>10
  <2> HIDE DEF new, n, a
  <2>2. SoleLog' = [SoleLog EXCEPT ![a] = new]
    BY <1>8, <1>9, <2>1, <1>11 DEF SoleLog
  <2>3. QED
    BY <1>4, <2>2 DEF new, n, a

(***************************************************************************)
(* For the aggregates with one writer SaveEvents implements EventLog:      *)
(* every save appears in one step, at the commit, numbered from the last.  *)
(***************************************************************************)
THEOREM Implementation == Spec => ImplementsEventLog
<1>1. Init => Log!Init
  BY InitLog DEF Log!Init, SoleLog, Sole, VersionLog
<1>2. ASSUME SoleInv, [Next]_vars
      PROVE  Log!Next \/ UNCHANGED SoleLog
  <2>1. CASE stored' = stored
    BY <2>1 DEF SoleLog, Sole, SingleWriter, VersionLog
  <2>2. CASE stored' # stored
    <3>1. PICK t \in Threads : Commit(t)
      BY <1>2, <2>2 DEF Next, AllHandled, vars, Create, Load, Begin, SaveEvents, Rollback,
         ThrowConcurrencyException, ReadLastVersion, InsertEvent, PublishEvent
    <3>2. CASE tx[t].agg \in Sole
      <4>1. PICK c \in Sole, n \in 0..MaxBatch :
              c = tx[t].agg /\ n = Len(tx[t].pending)
        BY <1>2, <3>1, <3>2, CommitLog
      <4>2. SoleLog' = [SoleLog EXCEPT ![c] =
              @ \o [k \in 1..n |-> (NewVersion + Len(SoleLog[c])) + k]]
        BY <1>2, <3>1, <3>2, <4>1, CommitLog
      <4>3. Log!Save(c, n)
        BY <4>2 DEF Log!Save, Log!Current, SoleLog, Sole, VersionLog
      <4>4. QED
        BY <4>3 DEF Log!Next, Sole
    <3>3. CASE tx[t].agg \notin Sole
      <4>1. \A c \in Sole : stored'[c] = stored[c]
        BY <1>2, <3>1, <3>3 DEF Commit, SoleInv, Inv, TypeOK, Sole
      <4>2. QED
        BY <4>1 DEF SoleLog, Sole, SingleWriter, VersionLog
    <3>4. QED
      BY <3>2, <3>3
  <2>3. QED
    BY <2>1, <2>2
<1>3. SoleInv /\ [Next]_vars
        => [Log!Next]_([a \in {b \in Aggregates : SingleWriter(b)} |->
                         [k \in DOMAIN stored[a] |-> stored[a][k].version]])
  BY <1>2 DEF SoleLog, Sole, VersionLog
<1>4. QED
  BY <1>1, <1>3, SoleInvariance, PTL DEF Spec, ImplementsEventLog, Log!Spec
=============================================================================
