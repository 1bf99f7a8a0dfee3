----------------------- MODULE DapperEventStoreProofs -----------------------
(***************************************************************************)
(* Proofs about DapperEventStore, for every set of threads, aggregates and *)
(* writers, both read modes and every bound.                               *)
(***************************************************************************)
EXTENDS DapperEventStore, TLAPS

USE EventStoreAssumption

(***************************************************************************)
(* The rows of transaction x are numbered one after the other from b.      *)
(***************************************************************************)
NumberedFrom(x, b) ==
  /\ x.version = b + Len(x.pending)
  /\ \A k \in 1..Len(x.pending) : x.pending[k].version = b + k

Saving(x) == x.phase \in {"saving", "publishing"}

\* An aggregate with rows has a row of the greatest version.
HasGreatest(s) ==
  s # << >> => \E v \in Versions(s) : \A w \in Versions(s) : w <= v

HasLastVersion == \A a \in Aggregates : HasGreatest(stored[a])

\* Before the SELECT nothing is inserted; only a creation finds no row.
OpeningOK(x) ==
  x.phase = "opening" =>
    /\ x.pending = << >>
    /\ stored[x.agg] = << >> => x.expected = NewVersion

\* A transaction numbers its rows from a version that is stored, and stays
\* stored, or from the start: a race cannot open a gap.
NumberingOK(x) ==
  Saving(x) => \E b \in Versions(stored[x.agg]) \cup {NewVersion} : NumberedFrom(x, b)

\* Every inserted row but the last has been published.
PublishingOK(x) ==
  Saving(x) =>
    /\ x.phase = "publishing" => x.pending # << >>
    /\ \A k \in 1..Len(x.pending) :
         \/ Announcement(x.agg, x.pending[k]) \in published
         \/ x.phase = "publishing" /\ k = Len(x.pending)

TransactionOK(x) == OpeningOK(x) /\ NumberingOK(x) /\ PublishingOK(x)

Inv ==
  /\ TypeOK
  /\ HasLastVersion
  /\ \A t \in Threads : TransactionOK(tx[t])
  /\ NoVersionGap
  /\ CommittedWasPublished

-----------------------------------------------------------------------------
(***************************************************************************)
(* The rows of a thread that is not idle.                                  *)
(***************************************************************************)
LEMMA ActiveTransaction ==
  ASSUME TypeOK, NEW t \in Threads, tx[t].phase # "idle" \/ Active(t)
  PROVE  tx[t] \in Transaction /\ Active(t)
  BY DEF TypeOK, Active, Idle, Transaction

LEMMA IdleIsIdle ==
  /\ Idle.phase = "idle"
  /\ \A x \in Transaction : x.phase # "idle" /\ x # Idle
  BY DEF Idle, Transaction

LEMMA InitInv == Init => Inv
<1> SUFFICES ASSUME Init PROVE Inv
  OBVIOUS
<1>1. TypeOK
  BY DEF Init, TypeOK, Row, EventId
<1>2. \A t \in Threads : tx[t].phase = "idle"
  BY IdleIsIdle DEF Init
<1>3. \A t \in Threads : TransactionOK(tx[t])
  BY <1>2 DEF TransactionOK, OpeningOK, NumberingOK, PublishingOK, Saving
<1>4. HasLastVersion /\ NoVersionGap /\ CommittedWasPublished
  BY DEF Init, HasLastVersion, HasGreatest, NoVersionGap, NoGapIn,
         CommittedWasPublished, Rows
<1>5. QED
  BY <1>1, <1>3, <1>4 DEF Inv

(***************************************************************************)
(* The SELECT returns the greatest version there is.                       *)
(***************************************************************************)
LEMMA LastVersionIsGreatest ==
  ASSUME HasLastVersion, NEW a \in Aggregates, stored[a] # << >>
  PROVE  /\ LastVersion(a) \in Versions(stored[a])
         /\ \A w \in Versions(stored[a]) : w <= LastVersion(a)
  BY DEF HasLastVersion, HasGreatest, LastVersion

LEMMA VersionsAreIntegers ==
  ASSUME TypeOK, NEW a \in Aggregates
  PROVE  Versions(stored[a]) \subseteq Int
<1>1. stored[a] \in Seq(Row)
  BY DEF TypeOK
<1>2. \A k \in DOMAIN stored[a] : stored[a][k] \in Row
  BY <1>1
<1>3. QED
  BY <1>2 DEF Versions, Row

(***************************************************************************)
(* What a step that leaves the rows, the bus and the other threads alone   *)
(* preserves.                                                              *)
(***************************************************************************)
LEMMA ThreadStep ==
  ASSUME Inv, NEW t \in Threads, stored' = stored, published \subseteq published',
         \A s \in Threads \ {t} : tx'[s] = tx[s],
         TypeOK', TransactionOK(tx[t])'
  PROVE  Inv'
<1>1. HasLastVersion' /\ NoVersionGap'
  BY DEF Inv, HasLastVersion, HasGreatest, NoVersionGap, NoGapIn, Versions
<1>2. CommittedWasPublished'
  BY DEF Inv, CommittedWasPublished, Announcement, Rows
<1>3. ASSUME NEW s \in Threads PROVE TransactionOK(tx[s])'
  <2>1. CASE s = t
    BY <2>1
  <2>2. CASE s # t
    <3>1. TransactionOK(tx[s]) /\ tx'[s] = tx[s]
      BY <2>2 DEF Inv
    <3>2. OpeningOK(tx[s])'
      BY <3>1 DEF TransactionOK, OpeningOK
    <3>3. NumberingOK(tx[s])'
      BY <3>1 DEF TransactionOK, NumberingOK, Saving, NumberedFrom, Versions
    <3>4. PublishingOK(tx[s])'
      BY <3>1 DEF TransactionOK, PublishingOK, Saving, Announcement
    <3>5. QED
      BY <3>2, <3>3, <3>4 DEF TransactionOK
  <2>3. QED
    BY <2>1, <2>2
<1>4. QED
  BY <1>1, <1>2, <1>3 DEF Inv

LEMMA BeginInv ==
  ASSUME Inv, NEW t \in Threads, NEW a \in Aggregates, NEW e \in Int,
         NEW n \in 0..MaxBatch, CanBegin(t, a), Begin(t, a, e, n),
         stored[a] = << >> => e = NewVersion
  PROVE  Inv'
<1> DEFINE new == [phase |-> "opening", save |-> saves, agg |-> a,
                   expected |-> e, version |-> e, todo |-> n, pending |-> << >>]
<1>1. new \in Transaction
  BY DEF Transaction, Inv, TypeOK
<1>2. /\ tx' = [tx EXCEPT ![t] = new] /\ saves' = saves + 1
      /\ UNCHANGED << stored, published, rolledBack >>
  BY DEF Begin
<1>3. TypeOK'
  BY <1>1, <1>2 DEF Inv, TypeOK, CanBegin
<1>4. tx'[t] = new /\ \A s \in Threads \ {t} : tx'[s] = tx[s]
  BY <1>2 DEF Inv, TypeOK
<1>5. TransactionOK(tx[t])'
  BY <1>2, <1>4 DEF TransactionOK, OpeningOK, NumberingOK, PublishingOK, Saving
<1>6. QED
  BY <1>2, <1>3, <1>4, <1>5, ThreadStep

LEMMA CreateInv ==
  ASSUME Inv, NEW t \in Threads, NEW a \in Aggregates, Create(t, a)
  PROVE  Inv'
  BY BeginInv DEF Create

LEMMA LoadInv ==
  ASSUME Inv, NEW t \in Threads, NEW a \in Aggregates, Load(t, a)
  PROVE  Inv'
<1>1. {NoCheck, Len(stored[a]) + 1} \cup Shown(a) \subseteq Int
  BY DEF NoCheck, Shown, Inv, TypeOK
<1>2. QED
  BY <1>1, BeginInv DEF Load

(***************************************************************************)
(* A thread becomes idle and leaves everything else alone.                 *)
(***************************************************************************)
LEMMA EndInv ==
  ASSUME Inv, NEW t \in Threads, tx' = [tx EXCEPT ![t] = Idle],
         UNCHANGED << stored, published, saves >>, rolledBack' \subseteq Nat
  PROVE  Inv'
<1>1. TypeOK'
  BY DEF Inv, TypeOK
<1>2. tx'[t].phase = "idle" /\ \A s \in Threads \ {t} : tx'[s] = tx[s]
  BY IdleIsIdle DEF Inv, TypeOK
<1>3. TransactionOK(tx[t])'
  BY <1>2 DEF TransactionOK, OpeningOK, NumberingOK, PublishingOK, Saving
<1>4. QED
  BY <1>1, <1>2, <1>3, ThreadStep

LEMMA ReadLastVersionInv ==
  ASSUME Inv, NEW t \in Threads, ReadLastVersion(t)
  PROVE  Inv'
<1> DEFINE a == tx[t].agg
           b == BaseVersion(a, tx[t].expected)
<1>1. tx[t] \in Transaction /\ a \in Aggregates
  BY ActiveTransaction DEF Inv, ReadLastVersion, Transaction
<1>2. b \in Versions(stored[a]) \cup {NewVersion}
  BY <1>1, LastVersionIsGreatest
     DEF Inv, BaseVersion, TransactionOK, OpeningOK, ReadLastVersion
<1>3. b \in Int
  BY <1>1, <1>2, VersionsAreIntegers DEF Inv
<1>4. tx'[t] = [tx[t] EXCEPT !.phase = "saving", !.version = b]
  BY DEF ReadLastVersion, Inv, TypeOK
<1>5. tx'[t] \in Transaction
  BY <1>1, <1>3, <1>4 DEF Transaction
<1>6. TypeOK'
  BY <1>4, <1>5 DEF Inv, TypeOK, ReadLastVersion
<1>7. tx[t].pending = << >>
  BY DEF Inv, TransactionOK, OpeningOK, ReadLastVersion
<1>8. /\ tx'[t].phase = "saving" /\ tx'[t].agg = a /\ tx'[t].version = b
      /\ tx'[t].pending = << >>
  BY <1>1, <1>4, <1>7 DEF Transaction
<1>9. Len(tx'[t].pending) = 0 /\ NumberedFrom(tx'[t], b)
  BY <1>3, <1>8 DEF NumberedFrom
<1>10. \A s \in Threads \ {t} : tx'[s] = tx[s]
  BY DEF ReadLastVersion, Inv, TypeOK
<1>11. stored' = stored /\ published' = published
  BY DEF ReadLastVersion
<1>12. TransactionOK(tx[t])'
  BY <1>2, <1>8, <1>9, <1>11
     DEF TransactionOK, OpeningOK, NumberingOK, PublishingOK, Versions, NumberedFrom
<1>13. QED
  BY <1>6, <1>10, <1>11, <1>12, ThreadStep

(***************************************************************************)
(* The transaction after an insert, whatever its rows are numbered from.   *)
(***************************************************************************)
LEMMA InsertedRow ==
  ASSUME TypeOK, NEW t \in Threads, InsertEvent(t)
  PROVE  /\ NewRow(t) \in Row
         /\ tx'[t] = [phase |-> "publishing", save |-> tx[t].save, agg |-> tx[t].agg,
                      expected |-> tx[t].expected, version |-> tx[t].version + 1,
                      todo |-> tx[t].todo - 1,
                      pending |-> Append(tx[t].pending, NewRow(t))]
         /\ tx'[t] \in Transaction
         /\ \A b \in Int : NumberedFrom(tx[t], b) => NumberedFrom(tx'[t], b)
<1> DEFINE old == tx[t].pending
           row == NewRow(t)
<1>1. /\ tx[t] \in Transaction /\ tx[t].agg \in Aggregates /\ old \in Seq(Row)
      /\ tx[t].version \in Int /\ tx[t].todo \in Nat /\ tx[t].todo > 0
      /\ tx[t].save \in Nat /\ tx[t].expected \in Int /\ Len(old) \in Nat
  BY ActiveTransaction DEF InsertEvent, Transaction
<1>2. row \in Row /\ row.version = tx[t].version + 1
  <2>1. << tx[t].save, Len(old) + 1 >> \in EventId /\ tx[t].version + 1 \in Int
    BY <1>1 DEF EventId
  <2>2. QED
    BY <2>1 DEF NewRow, Row
<1>3. tx'[t] = [tx[t] EXCEPT !.phase = "publishing", !.version = @ + 1,
                             !.todo = @ - 1, !.pending = Append(@, row)]
  BY DEF InsertEvent, TypeOK
<1>4. tx'[t] = [phase |-> "publishing", save |-> tx[t].save, agg |-> tx[t].agg,
                expected |-> tx[t].expected, version |-> tx[t].version + 1,
                todo |-> tx[t].todo - 1, pending |-> Append(old, row)]
  BY <1>1, <1>3 DEF Transaction
<1>5. tx'[t] \in Transaction
  <2>1. Append(old, row) \in Seq(Row)
    BY <1>1, <1>2
  <2>2. QED
    BY <1>1, <1>4, <2>1 DEF Transaction
<1>6. /\ Len(Append(old, row)) = Len(old) + 1
      /\ \A k \in 1..Len(old) : Append(old, row)[k] = old[k]
      /\ Append(old, row)[Len(old) + 1] = row
  BY <1>1, <1>2
<1>7. ASSUME NEW b \in Int, NumberedFrom(tx[t], b)
      PROVE  NumberedFrom(tx'[t], b)
  <2>1. tx'[t].version = b + Len(tx'[t].pending)
    <3>1. tx[t].version + 1 = b + (Len(old) + 1)
      BY <1>1, <1>7 DEF NumberedFrom
    <3>2. QED
      BY <1>4, <1>6, <3>1
  <2>2. ASSUME NEW k \in 1..Len(tx'[t].pending)
        PROVE  tx'[t].pending[k].version = b + k
    <3>1. CASE k \in 1..Len(old)
      BY <1>4, <1>6, <1>7, <3>1 DEF NumberedFrom
    <3>2. CASE k = Len(old) + 1
      BY <1>1, <1>2, <1>4, <1>6, <1>7, <3>2 DEF NumberedFrom
    <3>3. QED
      BY <1>1, <1>4, <1>6, <3>1, <3>2
  <2>3. QED
    BY <2>1, <2>2 DEF NumberedFrom
<1>8. QED
  BY <1>2, <1>4, <1>5, <1>7

LEMMA InsertEventInv ==
  ASSUME Inv, NEW t \in Threads, InsertEvent(t)
  PROVE  Inv'
<1> DEFINE old == tx[t].pending
           row == NewRow(t)
<1>1. TypeOK /\ tx[t] \in Transaction /\ old \in Seq(Row) /\ tx[t].agg \in Aggregates
  BY ActiveTransaction DEF Inv, InsertEvent, Transaction
<1>2. /\ tx'[t].phase = "publishing" /\ tx'[t].agg = tx[t].agg
      /\ tx'[t].pending = Append(old, row) /\ row \in Row /\ tx'[t] \in Transaction
  <2>1. tx'[t] = [phase |-> "publishing", save |-> tx[t].save, agg |-> tx[t].agg,
                        expected |-> tx[t].expected, version |-> tx[t].version + 1,
                        todo |-> tx[t].todo - 1,
                        pending |-> Append(tx[t].pending, NewRow(t))]
    BY <1>1, InsertedRow, Zenon
  <2>2. row \in Row /\ tx'[t] \in Transaction
    BY <1>1, InsertedRow, Zenon
  <2>3. QED
    BY <2>1, <2>2
<1>3. TypeOK'
  BY <1>2 DEF Inv, TypeOK, InsertEvent
<1>4. /\ Len(Append(old, row)) = Len(old) + 1 /\ Len(old) \in Nat
      /\ \A k \in 1..Len(old) : Append(old, row)[k] = old[k]
  BY <1>1, <1>2
<1>5. PICK b \in Versions(stored[tx[t].agg]) \cup {NewVersion} : NumberedFrom(tx[t], b)
  BY DEF Inv, TransactionOK, NumberingOK, Saving, InsertEvent
<1>6. b \in Int
  BY <1>1, VersionsAreIntegers
<1>7. NumberedFrom(tx'[t], b)
  BY <1>1, <1>5, <1>6, InsertedRow
<1>8. \A k \in 1..Len(old) : Announcement(tx[t].agg, old[k]) \in published
  BY DEF Inv, TransactionOK, PublishingOK, Saving, InsertEvent
<1>9. /\ tx'[t].pending # << >>
      /\ \A k \in 1..Len(tx'[t].pending) :
           \/ Announcement(tx'[t].agg, tx'[t].pending[k]) \in published
           \/ k = Len(tx'[t].pending)
  BY <1>2, <1>4, <1>8
<1>10. \A s \in Threads \ {t} : tx'[s] = tx[s]
  BY DEF InsertEvent, Inv, TypeOK
<1>11. stored' = stored /\ published' = published
  BY DEF InsertEvent
<1>12. TransactionOK(tx[t])'
  <2>1. OpeningOK(tx[t])'
    BY <1>2 DEF OpeningOK
  <2>2. NumberingOK(tx[t])'
    BY <1>2, <1>5, <1>7, <1>11 DEF NumberingOK, Versions, NumberedFrom
  <2>3. PublishingOK(tx[t])'
    BY <1>2, <1>9, <1>11 DEF PublishingOK, Announcement
  <2>4. QED
    BY <2>1, <2>2, <2>3 DEF TransactionOK
<1>13. QED
  BY <1>3, <1>10, <1>11, <1>12, ThreadStep

LEMMA PublishEventInv ==
  ASSUME Inv, NEW t \in Threads, PublishEvent(t)
  PROVE  Inv'
<1> DEFINE p == tx[t].pending
<1>1. /\ tx[t] \in Transaction /\ tx[t].agg \in Aggregates /\ p \in Seq(Row)
  BY ActiveTransaction DEF Inv, PublishEvent, Transaction
<1>2. p # << >> /\ Len(p) \in 1..Len(p)
  BY <1>1 DEF Inv, TransactionOK, PublishingOK, PublishEvent, Saving
<1>3. LastPending(t) = p[Len(p)] /\ LastPending(t) \in Row
  BY <1>1, <1>2 DEF LastPending
<1>4. tx'[t] = [tx[t] EXCEPT !.phase = "saving"]
  BY DEF PublishEvent, Inv, TypeOK
<1>5. /\ tx'[t] \in Transaction /\ tx'[t].phase = "saving" /\ tx'[t].agg = tx[t].agg
      /\ tx'[t].version = tx[t].version /\ tx'[t].pending = p
  BY <1>1, <1>4 DEF Transaction
<1>6. Announcement(tx[t].agg, LastPending(t))
        \in [agg : Aggregates, event : EventId, version : Int]
  BY <1>1, <1>3 DEF Announcement, Row
<1>7. TypeOK'
  BY <1>5, <1>6 DEF Inv, TypeOK, PublishEvent
<1>8. \A s \in Threads \ {t} : tx'[s] = tx[s]
  BY DEF PublishEvent, Inv, TypeOK
<1>9. \A k \in 1..Len(p) : Announcement(tx[t].agg, p[k]) \in published'
  BY <1>3 DEF PublishEvent, Inv, TransactionOK, PublishingOK, Saving
<1>10. \E b \in Versions(stored[tx[t].agg]) \cup {NewVersion} : NumberedFrom(tx'[t], b)
  BY <1>5 DEF Inv, TransactionOK, NumberingOK, Saving, NumberedFrom, PublishEvent
<1>11. stored' = stored /\ published \subseteq published'
  BY DEF PublishEvent
<1>12. TransactionOK(tx[t])'
  <2>1. OpeningOK(tx[t])'
    BY <1>5 DEF OpeningOK
  <2>2. NumberingOK(tx[t])'
    BY <1>5, <1>10, <1>11 DEF NumberingOK, Versions, NumberedFrom
  <2>3. PublishingOK(tx[t])'
    BY <1>5, <1>9 DEF PublishingOK, Announcement
  <2>4. QED
    BY <2>1, <2>2, <2>3 DEF TransactionOK
<1>13. QED
  BY <1>7, <1>8, <1>11, <1>12, ThreadStep

LEMMA ConcatRows ==
  ASSUME NEW x \in Seq(Row), NEW y \in Seq(Row)
  PROVE  /\ x \o y \in Seq(Row)
         /\ Len(x) \in Nat /\ Len(y) \in Nat
         /\ Len(x \o y) = Len(x) + Len(y)
         /\ \A k \in 1..Len(x) : (x \o y)[k] = x[k]
         /\ \A k \in 1..Len(y) : (x \o y)[Len(x) + k] = y[k]
         /\ \A k \in 1..Len(x \o y) :
              \/ k \in 1..Len(x)
              \/ \E m \in 1..Len(y) : k = Len(x) + m
<1>1. /\ Len(x) \in Nat /\ Len(y) \in Nat /\ x \o y \in Seq(Row)
      /\ Len(x \o y) = Len(x) + Len(y)
  OBVIOUS
<1>2. \A k \in 1..Len(x) : (x \o y)[k] = x[k]
  OBVIOUS
<1>3. \A k \in 1..Len(y) : (x \o y)[Len(x) + k] = y[k]
  OBVIOUS
<1>4. ASSUME NEW k \in 1..Len(x \o y), k \notin 1..Len(x)
      PROVE  k - Len(x) \in 1..Len(y) /\ k = Len(x) + (k - Len(x))
  BY <1>1, <1>4
<1>5. QED
  BY <1>1, <1>2, <1>3, <1>4

LEMMA VersionsOfConcat ==
  ASSUME NEW x \in Seq(Row), NEW y \in Seq(Row)
  PROVE  Versions(x \o y) = Versions(x) \cup Versions(y)
<1>1. /\ DOMAIN x = 1..Len(x) /\ DOMAIN y = 1..Len(y)
      /\ DOMAIN (x \o y) = 1..Len(x \o y)
  BY ConcatRows
<1>2. /\ \A k \in 1..Len(x) : k \in 1..Len(x \o y)
      /\ \A m \in 1..Len(y) : Len(x) + m \in 1..Len(x \o y)
  BY ConcatRows
<1>3. Versions(x) \cup Versions(y) \subseteq Versions(x \o y)
  <2>1. \A k \in 1..Len(x) : x[k].version \in Versions(x \o y)
    <3>1. \A k \in 1..Len(x) : x[k].version = (x \o y)[k].version
      BY ConcatRows
    <3>2. QED
      BY <1>1, <1>2, <3>1 DEF Versions
  <2>2. \A m \in 1..Len(y) : y[m].version \in Versions(x \o y)
    <3>1. \A m \in 1..Len(y) : y[m].version = (x \o y)[Len(x) + m].version
      BY ConcatRows
    <3>2. QED
      BY <1>1, <1>2, <3>1 DEF Versions
  <2>3. QED
    BY <1>1, <2>1, <2>2 DEF Versions
<1>4. Versions(x \o y) \subseteq Versions(x) \cup Versions(y)
  BY <1>1, <1>2, ConcatRows DEF Versions
<1>5. QED
  BY <1>3, <1>4

(***************************************************************************)
(* Rows y numbered from a version b that rows x have, or from the start,   *)
(* leave no gap after x, and x followed by y has a greatest version.       *)
(***************************************************************************)
LEMMA NumberedVersions ==
  ASSUME NEW y \in Seq(Row), NEW b \in Int,
         \A m \in 1..Len(y) : y[m].version = b + m
  PROVE  Versions(y) = {b + m : m \in 1..Len(y)}
<1>1. DOMAIN y = 1..Len(y)
  OBVIOUS
<1>2. QED
  BY <1>1 DEF Versions

LEMMA GreatestOfConcat ==
  ASSUME NEW x \in Seq(Row), NEW y \in Seq(Row), NEW b \in Int,
         Versions(x) \subseteq Int, HasGreatest(x),
         \A m \in 1..Len(y) : y[m].version = b + m
  PROVE  HasGreatest(x \o y)
<1>1. Versions(x \o y) = Versions(x) \cup {b + m : m \in 1..Len(y)}
  <2>1. Versions(y) = {b + m : m \in 1..Len(y)}
    BY NumberedVersions
  <2>2. QED
    BY <2>1, VersionsOfConcat
<1>2. Len(y) \in Nat
  OBVIOUS
<1>3. CASE Len(y) = 0
  <2>1. x \o y = x
    <3>1. y = << >>
      BY <1>3
    <3>2. QED
      BY <3>1
  <2>2. QED
    BY <2>1
<1>4. CASE Len(y) # 0
  <2>1. Len(y) \in 1..Len(y)
    BY <1>2, <1>4
  <2>2. b + Len(y) \in Versions(x \o y)
    BY <1>1, <2>1
  <2>3. \A m \in 1..Len(y) : b + m <= b + Len(y)
    BY <1>2
  <2>4. CASE x = << >>
    <3>1. Versions(x) = {}
      BY <2>4 DEF Versions
    <3>2. QED
      BY <1>1, <2>2, <2>3, <3>1 DEF HasGreatest
  <2>5. CASE x # << >>
    <3>1. PICK v \in Versions(x) : \A w \in Versions(x) : w <= v
      BY <2>5 DEF HasGreatest
    <3>2. v \in Int /\ v \in Versions(x \o y)
      BY <1>1, <3>1
    <3>3. CASE b + Len(y) <= v
      <4>1. \A m \in 1..Len(y) : b + m <= v
        BY <1>2, <3>2, <3>3
      <4>2. QED
        BY <1>1, <3>1, <3>2, <4>1 DEF HasGreatest
    <3>4. CASE v <= b + Len(y)
      <4>1. \A w \in Versions(x) : w <= b + Len(y)
        BY <1>2, <3>1, <3>2, <3>4
      <4>2. QED
        BY <1>1, <2>2, <2>3, <4>1 DEF HasGreatest
    <3>5. QED
      BY <1>2, <3>2, <3>3, <3>4
  <2>6. QED
    BY <2>4, <2>5
<1>5. QED
  BY <1>3, <1>4

LEMMA NoGapInConcat ==
  ASSUME NEW x \in Seq(Row), NEW y \in Seq(Row), NoGapIn(x),
         NEW b \in Int, b \in Versions(x) \cup {NewVersion},
         \A m \in 1..Len(y) : y[m].version = b + m
  PROVE  NoGapIn(x \o y)
<1> DEFINE z == x \o y
           NoGapAt(k) == \/ z[k].version = NewVersion + 1
                         \/ \E j \in 1..(k - 1) : z[j].version = z[k].version - 1
<1>1. /\ DOMAIN x = 1..Len(x) /\ DOMAIN z = 1..Len(z)
      /\ Len(x) \in Nat /\ Len(y) \in Nat /\ Len(z) = Len(x) + Len(y)
  BY ConcatRows
<1>2. ASSUME NEW k \in 1..Len(x)
      PROVE  NoGapAt(k)
  <2>1. \A j \in 1..(k - 1) : z[j] = x[j]
    BY <1>1, ConcatRows
  <2>2. z[k] = x[k]
    BY ConcatRows
  <2>3. x[k].version = NewVersion + 1 \/ \E j \in 1..(k - 1) : x[j].version = x[k].version - 1
    BY <1>1 DEF NoGapIn
  <2>4. QED
    BY <2>1, <2>2, <2>3
<1>3. ASSUME NEW m \in 1..Len(y)
      PROVE  NoGapAt(Len(x) + m)
  <2>1. z[Len(x) + m].version = b + m
    BY ConcatRows
  <2>2. CASE m = 1 /\ b = NewVersion
    BY <2>1, <2>2
  <2>3. CASE m = 1 /\ b \in Versions(x)
    <3>1. PICK j \in 1..Len(x) : x[j].version = b
      BY <1>1, <2>3 DEF Versions
    <3>2. z[j].version = b /\ j \in 1..(Len(x) + m - 1)
      BY <1>1, <2>3, <3>1, ConcatRows
    <3>3. z[Len(x) + m].version - 1 = b
      BY <2>1, <2>3
    <3>4. QED
      BY <3>2, <3>3
  <2>4. CASE m # 1
    <3>1. m - 1 \in 1..Len(y) /\ Len(x) + (m - 1) \in 1..(Len(x) + m - 1)
      BY <1>1, <2>4
    <3>2. z[Len(x) + (m - 1)].version = b + (m - 1)
      BY <3>1, ConcatRows
    <3>3. z[Len(x) + m].version - 1 = b + (m - 1)
      BY <2>1
    <3>4. z[Len(x) + (m - 1)].version = z[Len(x) + m].version - 1
      BY <3>2, <3>3
    <3>5. \E j \in 1..(Len(x) + m - 1) : z[j].version = z[Len(x) + m].version - 1
      BY <3>1, <3>4, Zenon
    <3>6. QED
      BY <3>5
  <2>5. QED
    BY <2>2, <2>3, <2>4
<1>4. ASSUME NEW k \in 1..Len(z)
      PROVE  NoGapAt(k)
  <2>1. CASE k \in 1..Len(x)
    BY <1>2, <2>1
  <2>2. CASE \E m \in 1..Len(y) : k = Len(x) + m
    BY <1>3, <2>2
  <2>3. QED
    BY <2>1, <2>2, ConcatRows
<1>5. QED
  BY <1>1, <1>4 DEF NoGapIn

(***************************************************************************)
(* The rows of a transaction are appended to those of its aggregate.       *)
(***************************************************************************)
LEMMA CommitInv ==
  ASSUME Inv, NEW t \in Threads, Commit(t)
  PROVE  Inv'
<1> DEFINE a   == tx[t].agg
           old == stored[a]
           new == tx[t].pending
<1>1. /\ tx[t] \in Transaction /\ a \in Aggregates
      /\ new \in Seq(Row) /\ old \in Seq(Row)
  BY ActiveTransaction DEF Inv, TypeOK, Commit, Transaction
<1>2. /\ stored' = [stored EXCEPT ![a] = old \o new]
      /\ tx' = [tx EXCEPT ![t] = Idle]
      /\ UNCHANGED << published, saves, rolledBack >>
  BY DEF Commit
<1>3. /\ stored'[a] = old \o new
      /\ \A c \in Aggregates \ {a} : stored'[c] = stored[c]
  BY <1>1, <1>2 DEF Inv, TypeOK
<1>4. old \o new \in Seq(Row)
  BY <1>1
<1>5. TypeOK'
  BY <1>1, <1>2, <1>4 DEF Inv, TypeOK
<1>6. PICK b \in Versions(old) \cup {NewVersion} : NumberedFrom(tx[t], b)
  BY DEF Inv, TransactionOK, NumberingOK, Saving, Commit
<1>7. b \in Int /\ Versions(old) \subseteq Int
  BY <1>1, <1>6, VersionsAreIntegers DEF Inv
<1>8. \A m \in 1..Len(new) : new[m].version = b + m
  BY <1>6 DEF NumberedFrom
<1>9. \A c \in Aggregates : Versions(stored[c]) \subseteq Versions(stored'[c])
  BY <1>1, <1>3, VersionsOfConcat
<1>10. HasLastVersion'
  <2>1. HasGreatest(old \o new)
    BY <1>1, <1>7, <1>8, GreatestOfConcat DEF Inv, HasLastVersion
  <2>2. \A c \in Aggregates : HasGreatest(stored'[c])
    BY <1>3, <2>1 DEF Inv, HasLastVersion
  <2>3. QED
    BY <2>2 DEF HasLastVersion, HasGreatest, Versions
<1>11. NoVersionGap'
  <2>1. NoGapIn(old \o new)
    BY <1>1, <1>6, <1>7, <1>8, NoGapInConcat DEF Inv, NoVersionGap
  <2>2. \A c \in Aggregates : NoGapIn(stored'[c])
    BY <1>3, <2>1 DEF Inv, NoVersionGap
  <2>3. QED
    BY <2>2 DEF NoVersionGap, NoGapIn
<1>12. CommittedWasPublished'
  <2>1. \A m \in 1..Len(new) : Announcement(a, new[m]) \in published
    BY DEF Inv, TransactionOK, PublishingOK, Saving, Commit
  <2>2. /\ \A k \in 1..Len(old) : Announcement(a, old[k]) \in published
        /\ DOMAIN (old \o new) = 1..Len(old \o new)
    BY <1>1, <1>4 DEF Inv, CommittedWasPublished, Rows
  <2>3. ASSUME NEW k \in DOMAIN (old \o new)
        PROVE  Announcement(a, (old \o new)[k]) \in published
    <3>1. CASE k \in 1..Len(old)
      BY <1>1, <2>2, <3>1, ConcatRows
    <3>2. CASE \E m \in 1..Len(new) : k = Len(old) + m
      <4>1. PICK m \in 1..Len(new) : k = Len(old) + m
        BY <3>2
      <4>2. (old \o new)[k] = new[m]
        BY <1>1, <4>1, ConcatRows
      <4>3. QED
        BY <2>1, <4>2
    <3>3. k \in 1..Len(old \o new)
      BY <2>2
    <3>4. k \in 1..Len(old) \/ \E m \in 1..Len(new) : k = Len(old) + m
      BY <1>1, <3>3, ConcatRows
    <3>5. QED
      BY <3>1, <3>2, <3>4
  <2>4. ASSUME NEW c \in Aggregates, NEW k \in DOMAIN stored'[c]
        PROVE  Announcement(c, stored'[c][k]) \in published
    <3>1. CASE c # a
      BY <1>3, <3>1 DEF Inv, CommittedWasPublished, Rows
    <3>2. CASE c = a
      BY <1>3, <2>3, <3>2
    <3>3. QED
      BY <3>1, <3>2
  <2>5. QED
    BY <1>2, <2>4 DEF CommittedWasPublished, Rows, Announcement
<1>13. ASSUME NEW s \in Threads PROVE TransactionOK(tx[s])'
  <2>1. CASE s = t
    <3>1. tx'[s].phase = "idle"
      BY <1>2, <2>1, IdleIsIdle DEF Inv, TypeOK
    <3>2. QED
      BY <3>1 DEF TransactionOK, OpeningOK, NumberingOK, PublishingOK, Saving
  <2>2. CASE s # t
    <3>1. TransactionOK(tx[s]) /\ tx'[s] = tx[s]
      BY <1>2, <2>2 DEF Inv, TypeOK
    <3>2. OpeningOK(tx[s])'
      <4>1. SUFFICES ASSUME tx[s].phase = "opening"
                     PROVE  /\ tx[s].pending = << >>
                            /\ stored'[tx[s].agg] = << >> => tx[s].expected = NewVersion
        BY <3>1 DEF OpeningOK
      <4>2. tx[s].agg \in Aggregates
        BY <4>1, ActiveTransaction DEF Inv, Transaction
      <4>3. old \o new = << >> => old = << >>
        BY <1>1, ConcatRows
      <4>4. stored'[tx[s].agg] = << >> => stored[tx[s].agg] = << >>
        BY <1>1, <1>3, <4>2, <4>3
      <4>5. QED
        BY <3>1, <4>1, <4>4 DEF TransactionOK, OpeningOK
    <3>3. NumberingOK(tx[s])'
      <4>1. SUFFICES ASSUME Saving(tx[s])
                     PROVE  \E d \in Versions(stored'[tx[s].agg]) \cup {NewVersion} :
                              NumberedFrom(tx[s], d)
        BY <3>1 DEF NumberingOK, Saving, NumberedFrom, Versions
      <4>2. tx[s].agg \in Aggregates
        BY <4>1, ActiveTransaction DEF Inv, Transaction, Saving
      <4>3. QED
        BY <1>9, <3>1, <4>1, <4>2 DEF TransactionOK, NumberingOK
    <3>4. PublishingOK(tx[s])'
      BY <1>2, <3>1 DEF TransactionOK, PublishingOK, Saving, Announcement
    <3>5. QED
      BY <3>2, <3>3, <3>4 DEF TransactionOK
  <2>3. QED
    BY <2>1, <2>2
<1>14. QED
  BY <1>5, <1>10, <1>11, <1>12, <1>13 DEF Inv

LEMMA NextInv == Inv /\ [Next]_vars => Inv'
<1> SUFFICES ASSUME Inv, [Next]_vars PROVE Inv'
  OBVIOUS
<1>1. ASSUME NEW t \in Threads, NEW a \in Aggregates, Create(t, a) \/ Load(t, a)
      PROVE  Inv'
  BY <1>1, CreateInv, LoadInv
<1>2. ASSUME NEW t \in Threads, SaveEvents(t)
      PROVE  Inv'
  <2>1. CASE ThrowConcurrencyException(t)
    BY <2>1, EndInv DEF ThrowConcurrencyException, Inv, TypeOK
  <2>2. CASE ReadLastVersion(t)
    BY <2>2, ReadLastVersionInv
  <2>3. CASE InsertEvent(t)
    BY <2>3, InsertEventInv
  <2>4. CASE PublishEvent(t)
    BY <2>4, PublishEventInv
  <2>5. CASE Commit(t)
    BY <2>5, CommitInv
  <2>6. QED
    BY <1>2, <2>1, <2>2, <2>3, <2>4, <2>5 DEF SaveEvents
<1>3. ASSUME NEW t \in Threads, Rollback(t)
      PROVE  Inv'
  <2>1. tx[t].save \in Nat
    BY <1>3, ActiveTransaction DEF Inv, Rollback, Transaction
  <2>2. QED
    BY <1>3, <2>1, EndInv DEF Rollback, Inv, TypeOK
<1>4. CASE UNCHANGED vars
  <2>1. TypeOK' /\ HasLastVersion' /\ NoVersionGap' /\ CommittedWasPublished'
    BY <1>4 DEF vars, Inv, TypeOK, HasLastVersion, HasGreatest,
                NoVersionGap, NoGapIn, CommittedWasPublished, Versions, Rows, Announcement
  <2>2. ASSUME NEW t \in Threads PROVE TransactionOK(tx[t])'
    BY <1>4 DEF vars, Inv, TransactionOK, OpeningOK, NumberingOK, PublishingOK,
                Saving, NumberedFrom, Versions, Announcement
  <2>3. QED
    BY <2>1, <2>2 DEF Inv
<1>5. QED
  BY <1>1, <1>2, <1>3, <1>4 DEF Next, AllHandled

(***************************************************************************)
(* The inductive invariant holds of every behaviour of SaveEvents.         *)
(***************************************************************************)
THEOREM Invariance == Spec => []Inv
  BY InitInv, NextInv, PTL DEF Spec

(***************************************************************************)
(* Type correctness of the store and of the transactions.                  *)
(***************************************************************************)
THEOREM TypeCorrectness == Spec => []TypeOK
<1>1. Inv => TypeOK
  BY DEF Inv
<1>2. QED
  BY <1>1, Invariance, PTL

(***************************************************************************)
(* Whatever the threads race on, the committed versions have no gap.       *)
(***************************************************************************)
THEOREM NoGap == Spec => []NoVersionGap
<1>1. Inv => NoVersionGap
  BY DEF Inv
<1>2. QED
  BY <1>1, Invariance, PTL

(***************************************************************************)
(* Whatever fails, a committed event has been given to the bus.            *)
(***************************************************************************)
THEOREM NothingUnpublished == Spec => []CommittedWasPublished
<1>1. Inv => CommittedWasPublished
  BY DEF Inv
<1>2. QED
  BY <1>1, Invariance, PTL

-----------------------------------------------------------------------------
(***************************************************************************)
(* Where a published event can be: in a committed row, in a row of a       *)
(* transaction, or in what a rollback dropped.                             *)
(***************************************************************************)
InStore(p)       == \E r \in Rows(stored[p.agg]) : p = Announcement(p.agg, r)
InTransaction(p) == \E t \in Threads :
                      /\ Active(t)
                      /\ tx[t].agg = p.agg
                      /\ \E r \in Rows(tx[t].pending) : p = Announcement(p.agg, r)
Accounted(p)     == InStore(p) \/ InTransaction(p) \/ p.event[1] \in rolledBack

\* The rows of a transaction carry the identity of its command.
RowsOfCommand(x) ==
  x.phase # "idle" => \A k \in DOMAIN x.pending : x.pending[k].event[1] = x.save

AccountInv ==
  /\ Inv
  /\ \A t \in Threads : RowsOfCommand(tx[t])
  /\ \A p \in published : Accounted(p)

LEMMA InitAccountInv == Init => AccountInv
<1> SUFFICES ASSUME Init PROVE AccountInv
  OBVIOUS
<1>1. \A t \in Threads : tx[t].phase = "idle"
  BY IdleIsIdle DEF Init
<1>2. QED
  BY <1>1, InitInv DEF Init, AccountInv, RowsOfCommand

(***************************************************************************)
(* A thread may take up a command or add rows: nothing is lost by it.      *)
(***************************************************************************)
LEMMA AccountThreadStep ==
  ASSUME AccountInv, Inv', NEW t \in Threads,
         UNCHANGED << stored, published, rolledBack >>,
         \A s \in Threads \ {t} : tx'[s] = tx[s],
         tx'[t] # Idle, RowsOfCommand(tx'[t]),
         Active(t) => tx'[t].agg = tx[t].agg /\ Rows(tx[t].pending) \subseteq Rows(tx'[t].pending)
  PROVE  AccountInv'
<1>1. ASSUME NEW s \in Threads PROVE RowsOfCommand(tx'[s])
  BY <1>1 DEF AccountInv
<1>2. ASSUME NEW p \in published PROVE Accounted(p)'
  <2>1. InStore(p) => InStore(p)'
    BY DEF InStore, Rows, Announcement
  <2>2. ASSUME InTransaction(p) PROVE InTransaction(p)'
    <3>1. PICK s \in Threads : /\ Active(s) /\ tx[s].agg = p.agg
                               /\ \E r \in Rows(tx[s].pending) : p = Announcement(p.agg, r)
      BY <2>2 DEF InTransaction
    <3>2. tx'[s] # Idle /\ tx'[s].agg = p.agg
      BY <3>1 DEF Active
    <3>3. \E r \in Rows(tx'[s].pending) : p = Announcement(p.agg, r)
      BY <3>1
    <3>4. QED
      BY <3>2, <3>3 DEF InTransaction, Active, Rows, Announcement
  <2>3. QED
    BY <2>1, <2>2 DEF AccountInv, Accounted
<1>3. QED
  BY <1>1, <1>2 DEF AccountInv, RowsOfCommand

LEMMA AccountBegin ==
  ASSUME AccountInv, Inv', NEW t \in Threads, NEW a \in Aggregates, NEW e,
         NEW n \in 0..MaxBatch, CanBegin(t, a), Begin(t, a, e, n)
  PROVE  AccountInv'
<1> DEFINE new == [phase |-> "opening", save |-> saves, agg |-> a,
                   expected |-> e, version |-> e, todo |-> n, pending |-> << >>]
<1>1. /\ tx' = [tx EXCEPT ![t] = new]
      /\ UNCHANGED << stored, published, rolledBack >> /\ ~Active(t)
  BY DEF Begin, CanBegin
<1>2. tx'[t] = new /\ \A s \in Threads \ {t} : tx'[s] = tx[s]
  BY <1>1 DEF AccountInv, Inv, TypeOK
<1>3. tx'[t] # Idle
  BY <1>2, IdleIsIdle
<1>4. RowsOfCommand(tx'[t])
  BY <1>2 DEF RowsOfCommand
<1>5. QED
  BY <1>1, <1>2, <1>3, <1>4, AccountThreadStep

LEMMA AccountRead ==
  ASSUME AccountInv, Inv', NEW t \in Threads, ReadLastVersion(t)
  PROVE  AccountInv'
<1>1. tx[t] \in Transaction /\ Active(t)
  BY ActiveTransaction DEF AccountInv, Inv, ReadLastVersion
<1>2. tx'[t] = [tx[t] EXCEPT !.phase = "saving",
                             !.version = BaseVersion(tx[t].agg, tx[t].expected)]
  BY DEF ReadLastVersion, AccountInv, Inv, TypeOK
<1>3. /\ tx'[t].phase = "saving" /\ tx'[t].pending = tx[t].pending
      /\ tx'[t].save = tx[t].save /\ tx'[t].agg = tx[t].agg
  BY <1>1, <1>2 DEF Transaction
<1>4. RowsOfCommand(tx'[t])
  BY <1>1, <1>3, IdleIsIdle DEF RowsOfCommand, AccountInv
<1>5. QED
  BY <1>3, <1>4, IdleIsIdle, AccountThreadStep DEF ReadLastVersion, AccountInv, Inv, TypeOK

LEMMA AccountInsert ==
  ASSUME AccountInv, Inv', NEW t \in Threads, InsertEvent(t)
  PROVE  AccountInv'
<1> DEFINE old == tx[t].pending
           row == NewRow(t)
<1>1. TypeOK /\ tx[t] \in Transaction /\ old \in Seq(Row) /\ Active(t)
  BY ActiveTransaction DEF AccountInv, Inv, InsertEvent, Transaction
<1>2. tx'[t] = [phase |-> "publishing", save |-> tx[t].save, agg |-> tx[t].agg,
                expected |-> tx[t].expected, version |-> tx[t].version + 1,
                todo |-> tx[t].todo - 1, pending |-> Append(old, row)]
  BY <1>1, InsertedRow, Zenon
<1>3. row \in Row /\ row.event[1] = tx[t].save
  BY <1>1, InsertedRow, Zenon DEF NewRow
<1>4. /\ tx'[t].phase = "publishing" /\ tx'[t].pending = Append(old, row)
      /\ tx'[t].save = tx[t].save /\ tx'[t].agg = tx[t].agg
  BY <1>2
<1>5. /\ DOMAIN Append(old, row) = 1..(Len(old) + 1) /\ DOMAIN old = 1..Len(old)
      /\ Len(old) \in Nat /\ Append(old, row)[Len(old) + 1] = row
      /\ \A k \in 1..Len(old) : Append(old, row)[k] = old[k]
  BY <1>1, <1>3
<1>6. RowsOfCommand(tx'[t])
  <2>1. \A k \in DOMAIN old : old[k].event[1] = tx[t].save
    BY <1>1, IdleIsIdle DEF RowsOfCommand, AccountInv
  <2>2. QED
    BY <1>3, <1>4, <1>5, <2>1 DEF RowsOfCommand
<1>7. Rows(old) \subseteq Rows(tx'[t].pending)
  BY <1>4, <1>5 DEF Rows
<1>8. QED
  BY <1>4, <1>6, <1>7, IdleIsIdle, AccountThreadStep DEF InsertEvent, AccountInv, Inv, TypeOK

LEMMA AccountPublish ==
  ASSUME AccountInv, Inv', NEW t \in Threads, PublishEvent(t)
  PROVE  AccountInv'
<1> DEFINE p0 == Announcement(tx[t].agg, LastPending(t))
<1>1. /\ tx[t] \in Transaction /\ Active(t) /\ tx[t].pending \in Seq(Row)
      /\ tx[t].pending # << >>
  BY ActiveTransaction
     DEF AccountInv, Inv, PublishEvent, Transaction, TransactionOK, PublishingOK, Saving
<1>2. tx'[t] = [tx[t] EXCEPT !.phase = "saving"]
  BY DEF PublishEvent, AccountInv, Inv, TypeOK
<1>3. /\ tx'[t].phase = "saving" /\ tx'[t].pending = tx[t].pending
      /\ tx'[t].save = tx[t].save /\ tx'[t].agg = tx[t].agg
  BY <1>1, <1>2 DEF Transaction
<1>4. tx'[t] # Idle
  BY <1>3, IdleIsIdle
<1>5. /\ \A s \in Threads \ {t} : tx'[s] = tx[s]
      /\ UNCHANGED << stored, rolledBack >> /\ published' = published \cup {p0}
  BY DEF PublishEvent, AccountInv, Inv, TypeOK
<1>6. ASSUME NEW s \in Threads PROVE RowsOfCommand(tx[s])'
  BY <1>1, <1>3, <1>5, IdleIsIdle DEF RowsOfCommand, AccountInv
<1>7. ASSUME NEW p \in published PROVE Accounted(p)'
  <2>1. InStore(p) => InStore(p)'
    BY <1>5 DEF InStore, Rows, Announcement
  <2>2. ASSUME NEW s \in Threads, Active(s)
        PROVE  Active(s)' /\ tx'[s].agg = tx[s].agg /\ tx'[s].pending = tx[s].pending
    BY <1>3, <1>4, <1>5, <2>2 DEF Active
  <2>3. InTransaction(p) => InTransaction(p)'
    BY <2>2 DEF InTransaction, Rows, Announcement
  <2>4. QED
    BY <1>5, <2>1, <2>3 DEF AccountInv, Accounted
<1>8. ASSUME NEW p, p = p0 PROVE Accounted(p)'
  <2>1. LastPending(t) \in Rows(tx[t].pending)
    BY <1>1 DEF LastPending, Rows
  <2>2. p.agg = tx[t].agg
    BY <1>8 DEF Announcement
  <2>3. \E r \in Rows(tx'[t].pending) : p = Announcement(p.agg, r)
    BY <1>3, <1>8, <2>1, <2>2
  <2>4. InTransaction(p)'
    BY <1>3, <1>4, <2>2, <2>3 DEF InTransaction, Active, Rows, Announcement
  <2>5. QED
    BY <2>4 DEF Accounted
<1>9. QED
  BY <1>5, <1>6, <1>7, <1>8 DEF AccountInv

(***************************************************************************)
(* A thread becomes idle: its rows are stored, dropped, or there are none. *)
(***************************************************************************)
LEMMA AccountEnd ==
  ASSUME AccountInv, Inv', NEW t \in Threads, Active(t),
         tx' = [tx EXCEPT ![t] = Idle], published' = published,
         rolledBack \subseteq rolledBack',
         \A c \in Aggregates : Rows(stored[c]) \subseteq Rows(stored'[c]),
         \/ Rows(tx[t].pending) \subseteq Rows(stored'[tx[t].agg])
         \/ tx[t].save \in rolledBack'
  PROVE  AccountInv'
<1>1. /\ tx'[t] = Idle /\ \A s \in Threads \ {t} : tx'[s] = tx[s]
      /\ tx[t] \in Transaction /\ tx[t].phase # "idle"
  BY ActiveTransaction, IdleIsIdle DEF AccountInv, Inv, TypeOK
<1>2. ASSUME NEW s \in Threads PROVE RowsOfCommand(tx[s])'
  BY <1>1, IdleIsIdle DEF RowsOfCommand, AccountInv
<1>3. ASSUME NEW p \in published PROVE Accounted(p)'
  <2>1. p.agg \in Aggregates
    BY DEF AccountInv, Inv, TypeOK
  <2>2. CASE InStore(p)
    BY <2>1, <2>2 DEF InStore, Rows, Announcement, Accounted
  <2>3. CASE p.event[1] \in rolledBack
    BY <2>3 DEF Accounted
  <2>4. CASE InTransaction(p)
    <3>1. PICK s \in Threads : /\ Active(s) /\ tx[s].agg = p.agg
                               /\ \E r \in Rows(tx[s].pending) : p = Announcement(p.agg, r)
      BY <2>4 DEF InTransaction
    <3>2. CASE s # t
      <4>1. tx'[s] = tx[s]
        BY <1>1, <3>2
      <4>2. InTransaction(p)'
        BY <3>1, <4>1 DEF InTransaction, Active, Rows, Announcement
      <4>3. QED
        BY <4>2 DEF Accounted
    <3>3. CASE s = t
      <4>1. PICK r \in Rows(tx[t].pending) : p = Announcement(p.agg, r)
        BY <3>1, <3>3
      <4>2. CASE Rows(tx[t].pending) \subseteq Rows(stored'[tx[t].agg])
        <5>1. r \in Rows(stored'[p.agg])
          BY <3>1, <3>3, <4>1, <4>2
        <5>2. InStore(p)'
          BY <4>1, <5>1 DEF InStore, Rows, Announcement
        <5>3. QED
          BY <5>2 DEF Accounted
      <4>3. CASE tx[t].save \in rolledBack'
        <5>1. r.event[1] = tx[t].save
          BY <1>1, <4>1 DEF Rows, AccountInv, RowsOfCommand
        <5>2. p.event = r.event
          BY <4>1 DEF Announcement
        <5>3. QED
          BY <4>3, <5>1, <5>2 DEF Accounted
      <4>4. QED
        BY <4>2, <4>3
    <3>4. QED
      BY <3>2, <3>3
  <2>5. QED
    BY <2>2, <2>3, <2>4 DEF AccountInv, Accounted
<1>4. QED
  BY <1>2, <1>3 DEF AccountInv

LEMMA RowsOfConcat ==
  ASSUME NEW x \in Seq(Row), NEW y \in Seq(Row)
  PROVE  Rows(x) \subseteq Rows(x \o y) /\ Rows(y) \subseteq Rows(x \o y)
<1>1. /\ DOMAIN x = 1..Len(x) /\ DOMAIN y = 1..Len(y)
      /\ DOMAIN (x \o y) = 1..Len(x \o y)
      /\ \A k \in 1..Len(x) : k \in 1..Len(x \o y)
      /\ \A m \in 1..Len(y) : Len(x) + m \in 1..Len(x \o y)
  BY ConcatRows
<1>2. ASSUME NEW k \in DOMAIN x PROVE x[k] \in Rows(x \o y)
  <2>1. (x \o y)[k] = x[k]
    BY <1>1, ConcatRows
  <2>2. QED
    BY <1>1, <2>1 DEF Rows
<1>3. ASSUME NEW m \in DOMAIN y PROVE y[m] \in Rows(x \o y)
  <2>1. (x \o y)[Len(x) + m] = y[m]
    BY <1>1, ConcatRows
  <2>2. QED
    BY <1>1, <2>1 DEF Rows
<1>4. QED
  BY <1>2, <1>3 DEF Rows

LEMMA AccountCommit ==
  ASSUME AccountInv, Inv', NEW t \in Threads, Commit(t)
  PROVE  AccountInv'
<1> DEFINE a   == tx[t].agg
           old == stored[a]
           new == tx[t].pending
<1>1. /\ tx[t] \in Transaction /\ Active(t) /\ a \in Aggregates
      /\ old \in Seq(Row) /\ new \in Seq(Row)
  BY ActiveTransaction DEF AccountInv, Inv, TypeOK, Commit, Transaction
<1>2. /\ stored'[a] = old \o new
      /\ \A c \in Aggregates \ {a} : stored'[c] = stored[c]
  BY <1>1 DEF Commit, AccountInv, Inv, TypeOK
<1>3. Rows(old) \subseteq Rows(old \o new) /\ Rows(new) \subseteq Rows(old \o new)
  BY <1>1, RowsOfConcat
<1>4. \A c \in Aggregates : Rows(stored[c]) \subseteq Rows(stored'[c])
  BY <1>2, <1>3
<1>5. Rows(new) \subseteq Rows(stored'[a])
  BY <1>2, <1>3
<1>6. QED
  BY <1>1, <1>4, <1>5, AccountEnd DEF Commit

LEMMA AccountNext == AccountInv /\ [Next]_vars => AccountInv'
<1> SUFFICES ASSUME AccountInv, [Next]_vars PROVE AccountInv'
  OBVIOUS
<1>1. Inv'
  BY NextInv DEF AccountInv
<1>2. ASSUME NEW t \in Threads, NEW a \in Aggregates, Create(t, a) \/ Load(t, a)
      PROVE  AccountInv'
  BY <1>1, <1>2, AccountBegin DEF Create, Load
<1>3. ASSUME NEW t \in Threads, SaveEvents(t)
      PROVE  AccountInv'
  <2>1. CASE ThrowConcurrencyException(t)
    <3>1. tx[t].pending = << >> /\ Active(t)
      BY <2>1, ActiveTransaction
         DEF ThrowConcurrencyException, AccountInv, Inv, TransactionOK, OpeningOK
    <3>2. Rows(tx[t].pending) = {}
      BY <3>1 DEF Rows
    <3>3. QED
      BY <1>1, <2>1, <3>1, <3>2, AccountEnd DEF ThrowConcurrencyException
  <2>2. CASE ReadLastVersion(t)
    BY <1>1, <2>2, AccountRead
  <2>3. CASE InsertEvent(t)
    BY <1>1, <2>3, AccountInsert
  <2>4. CASE PublishEvent(t)
    BY <1>1, <2>4, AccountPublish
  <2>5. CASE Commit(t)
    BY <1>1, <2>5, AccountCommit
  <2>6. QED
    BY <1>3, <2>1, <2>2, <2>3, <2>4, <2>5 DEF SaveEvents
<1>4. ASSUME NEW t \in Threads, Rollback(t)
      PROVE  AccountInv'
  BY <1>1, <1>4, AccountEnd DEF Rollback
<1>5. CASE UNCHANGED vars
  BY <1>1, <1>5 DEF vars, AccountInv, RowsOfCommand, Accounted, InStore, InTransaction,
                    Active, Rows, Announcement
<1>6. QED
  BY <1>2, <1>3, <1>4, <1>5 DEF Next, AllHandled

(***************************************************************************)
(* An event on the bus is stored, about to be stored, or comes from a      *)
(* transaction that failed: a refused command has published nothing.       *)
(***************************************************************************)
THEOREM NothingInvented == Spec => []PublishedIsAccountedFor
<1>1. AccountInv => PublishedIsAccountedFor
  BY DEF AccountInv, Accounted, InStore, InTransaction, PublishedIsAccountedFor
<1>2. QED
  BY <1>1, InitAccountInv, AccountNext, PTL DEF Spec
=============================================================================
