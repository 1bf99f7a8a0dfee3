---------------------------- MODULE DiaryProofs ----------------------------
(***************************************************************************)
(* Proofs about Diary, for every set of users, fields and values, both     *)
(* stacks and every bound.                                                 *)
(***************************************************************************)
EXTENDS Diary, InductionLemmas

USE DiaryAssumption

-----------------------------------------------------------------------------
(***************************************************************************)
(* What the first n events of s say: content c has, of every field, the    *)
(* value that the last of them about the field gave it.                    *)
(***************************************************************************)
IsLastAbout(f, s, n, k) ==
  /\ k \in 1..n
  /\ f \in DOMAIN s[k].sets
  /\ \A j \in (k + 1)..n : f \notin DOMAIN s[j].sets

Says(s, n, c) ==
  /\ c \in Content
  /\ \A f \in Fields : \E k \in 1..n : IsLastAbout(f, s, n, k) /\ c[f] = s[k].sets[f]

LEMMA Partiality ==
  ASSUME NEW a \in Partial
  PROVE  /\ DOMAIN a \subseteq Fields
         /\ a = [f \in DOMAIN a |-> a[f]]
         /\ \A f \in DOMAIN a : a[f] \in Values
  BY DEF Partial

LEMMA OverwrittenType ==
  ASSUME NEW a \in Partial, NEW b \in Partial
  PROVE  /\ Overwritten(a, b) \in Partial
         /\ a \in Content => Overwritten(a, b) \in Content
         /\ b \in Content => Overwritten(a, b) = b
         /\ DOMAIN Overwritten(a, b) = DOMAIN a \cup DOMAIN b
<1> DEFINE D == DOMAIN a \cup DOMAIN b
<1>1. D \subseteq Fields /\ Overwritten(a, b) \in [D -> Values]
  BY Partiality DEF Overwritten
<1>2. Overwritten(a, b) \in Partial /\ DOMAIN Overwritten(a, b) = D
  BY <1>1 DEF Partial
<1>3. a \in Content => Overwritten(a, b) \in Content
  BY <1>1 DEF Content
<1>4. ASSUME b \in Content
      PROVE  Overwritten(a, b) = b
  BY <1>4, Partiality DEF Overwritten, Content
<1> QED
  BY <1>2, <1>3, <1>4

LEMMA OnlyType ==
  ASSUME NEW f \in Fields, NEW v \in Values
  PROVE  Only(f, v) \in Partial /\ DOMAIN Only(f, v) = {f} /\ Only(f, v)[f] = v
<1>1. Only(f, v) \in [{f} -> Values]
  BY DEF Only
<1>2. {f} \in SUBSET Fields
  OBVIOUS
<1>3. Only(f, v) \in Partial
  BY <1>1, <1>2 DEF Partial
<1> QED
  BY <1>3 DEF Only

LEMMA ContentIsPartial == Content \subseteq Partial
  BY DEF Content, Partial

LEMMA EmptyIsPartial == << >> \in Partial /\ DOMAIN << >> = {}
<1>1. << >> \in [{} -> Values] /\ DOMAIN << >> = {}
  OBVIOUS
<1> QED
  BY <1>1 DEF Partial

\* A history says no two things.
LEMMA SaysOne ==
  ASSUME NEW s, NEW n \in Nat, NEW c, Says(s, n, c), NEW d, Says(s, n, d)
  PROVE  c = d
<1>1. ASSUME NEW f \in Fields
      PROVE  c[f] = d[f]
  <2>1. PICK k \in 1..n : IsLastAbout(f, s, n, k) /\ c[f] = s[k].sets[f]
    BY DEF Says
  <2>2. PICK j \in 1..n : IsLastAbout(f, s, n, j) /\ d[f] = s[j].sets[f]
    BY DEF Says
  <2>3. ~(k < j) /\ ~(j < k)
    BY <2>1, <2>2 DEF IsLastAbout
  <2>4. k = j
    BY <2>3
  <2> QED
    BY <2>1, <2>2, <2>4
<1> QED
  BY <1>1 DEF Says, Content

LEMMA SaysSame ==
  ASSUME NEW s, NEW t, NEW n \in Nat, \A k \in 1..n : s[k].sets = t[k].sets,
         NEW c, Says(s, n, c)
  PROVE  Says(t, n, c)
<1>1. ASSUME NEW f \in Fields
      PROVE  \E k \in 1..n : IsLastAbout(f, t, n, k) /\ c[f] = t[k].sets[f]
  <2>1. PICK k \in 1..n : IsLastAbout(f, s, n, k) /\ c[f] = s[k].sets[f]
    BY DEF Says
  <2>2. IsLastAbout(f, t, n, k)
    BY <2>1 DEF IsLastAbout
  <2> QED
    BY <2>1, <2>2
<1> QED
  BY <1>1 DEF Says

LEMMA SaysFirst ==
  ASSUME NEW s, s[1].sets \in Content
  PROVE  Says(s, 1, s[1].sets)
  BY DEF Says, IsLastAbout, Content

LEMMA SaysNext ==
  ASSUME NEW s, NEW n \in Nat, NEW c, Says(s, n, c), s[n + 1].sets \in Partial
  PROVE  Says(s, n + 1, Overwritten(c, s[n + 1].sets))
<1> DEFINE b == s[n + 1].sets
<1>1. c \in Content /\ c \in Partial
  BY ContentIsPartial DEF Says
<1>2. Overwritten(c, b) \in Content
  BY <1>1, OverwrittenType
<1>3. ASSUME NEW f \in Fields
      PROVE  \E k \in 1..(n + 1) :
               IsLastAbout(f, s, n + 1, k) /\ Overwritten(c, b)[f] = s[k].sets[f]
  <2>1. CASE f \in DOMAIN b
    <3>1. IsLastAbout(f, s, n + 1, n + 1)
      BY <2>1 DEF IsLastAbout
    <3>2. Overwritten(c, b)[f] = s[n + 1].sets[f]
      BY <2>1 DEF Overwritten
    <3>3. n + 1 \in 1..(n + 1)
      OBVIOUS
    <3> QED
      BY <3>1, <3>2, <3>3
  <2>2. CASE f \notin DOMAIN b
    <3>1. PICK k \in 1..n : IsLastAbout(f, s, n, k) /\ c[f] = s[k].sets[f]
      BY DEF Says
    <3>2. IsLastAbout(f, s, n + 1, k)
      BY <2>2, <3>1 DEF IsLastAbout
    <3>3. Overwritten(c, b)[f] = c[f]
      BY <1>1, <2>2 DEF Overwritten, Content
    <3>4. k \in 1..(n + 1)
      OBVIOUS
    <3> QED
      BY <3>1, <3>2, <3>3, <3>4
  <2> QED
    BY <2>1, <2>2
<1> QED
  BY <1>2, <1>3 DEF Says

-----------------------------------------------------------------------------
(***************************************************************************)
(* Replay: r[k] is the aggregate after k of the events s.                  *)
(***************************************************************************)
IsReplay(s, r) ==
  /\ r = [k \in 0..Len(s) |-> IF k = 0 THEN << >> ELSE Applied(r[k - 1], s[k])]
  /\ Replayed(s) = r[Len(s)]

LEMMA ReplayExists ==
  ASSUME NEW s \in Seq(Events)
  PROVE  \E r : IsReplay(s, r)
<1> DEFINE n == Len(s)
           step == [p \in (1..n) \X Partial |-> Applied(p[2], s[p[1]])]
           IsIt(r) == r = [k \in 0..n |-> IF k = 0 THEN << >> ELSE Applied(r[k - 1], s[k])]
<1>1. n \in Nat /\ << >> \in Partial
  BY EmptyIsPartial
<1>2. step \in [(1..n) \X Partial -> Partial]
  <2>1. ASSUME NEW p \in (1..n) \X Partial
        PROVE  Applied(p[2], s[p[1]]) \in Partial
    <3>1. p[1] \in 1..n /\ p[2] \in Partial
      OBVIOUS
    <3>2. s[p[1]] \in Events
      BY <3>1
    <3>3. s[p[1]].sets \in Partial
      BY <3>2 DEF Events
    <3> QED
      BY <3>1, <3>3, OverwrittenType DEF Applied
  <2> QED
    BY <2>1
<1>3. \A k \in 1..n : \A a \in Partial : step[<< k, a >>] = Applied(a, s[k])
  OBVIOUS
<1>4. PICK f : IsRun(f, n, Partial, << >>, step)
  <2> HIDE DEF step, n
  <2> QED
    BY <1>1, <1>2, Recursion
<1>5. ASSUME NEW k \in 0..n
      PROVE  f[k] = IF k = 0 THEN << >> ELSE Applied(f[k - 1], s[k])
  <2>1. CASE k = 0
    BY <1>4, <2>1 DEF IsRun
  <2>2. CASE k # 0
    <3>1. k \in 1..n /\ k - 1 \in 0..n
      BY <1>1, <2>2
    <3>2. f[k - 1] \in Partial
      BY <1>4, <3>1 DEF IsRun
    <3>3. f[k] = step[<< k, f[k - 1] >>]
      BY <1>4, <3>1 DEF IsRun
    <3>4. step[<< k, f[k - 1] >>] = Applied(f[k - 1], s[k])
      BY <1>3, <3>1, <3>2
    <3> QED
      BY <2>2, <3>3, <3>4
  <2> QED
    BY <2>1, <2>2
<1>6. IsIt(f)
  BY <1>4, <1>5 DEF IsRun
<1>7. IsIt(CHOOSE r : IsIt(r))
  <2> HIDE DEF IsIt
  <2> QED
    BY <1>6
<1>8. Replayed(s) = (CHOOSE r : IsIt(r))[n]
  BY DEF Replayed
<1> QED
  BY <1>7, <1>8 DEF IsReplay

\* An aggregate that was created first is what its events say.
LEMMA ReplaySays ==
  ASSUME NEW s \in Seq(Events), s # << >>, s[1].sets \in Content
  PROVE  Says(s, Len(s), Replayed(s))
<1>1. PICK r : IsReplay(s, r)
  BY ReplayExists
<1>2. Len(s) \in Nat /\ Len(s) >= 1
  OBVIOUS
<1>3. /\ r[0] = << >>
      /\ \A k \in 1..Len(s) : r[k] = Overwritten(r[k - 1], s[k].sets)
  BY <1>1, <1>2 DEF IsReplay, Applied
<1> DEFINE T == {k \in 0..Len(s) : k > 0 => Says(s, k, r[k])}
<1>4. 0 \in T
  BY <1>2
<1>5. ASSUME NEW k \in 0..Len(s), k < Len(s), k \in T
      PROVE  k + 1 \in T
  <2>1. k + 1 \in 1..Len(s)
    BY <1>2, <1>5
  <2>2. s[k + 1] \in Events
    BY <2>1
  <2>3. s[k + 1].sets \in Partial
    BY <2>2 DEF Events
  <2>4. r[k + 1] = Overwritten(r[k], s[k + 1].sets)
    BY <1>3, <2>1
  <2>5. CASE k = 0
    <3>1. Overwritten(<< >>, s[1].sets) = s[1].sets
      <4>1. s[1].sets \in Partial
        BY <2>3, <2>5
      <4> QED
        BY <4>1, EmptyIsPartial, OverwrittenType
    <3>2. r[1] = Overwritten(r[0], s[1].sets)
      BY <2>4, <2>5
    <3>3. r[1] = s[1].sets
      BY <1>3, <3>1, <3>2
    <3>4. Says(s, 1, r[1])
      BY <3>3, SaysFirst
    <3> QED
      BY <2>1, <2>5, <3>4
  <2>6. CASE k # 0
    <3>1. Says(s, k, r[k]) /\ k \in Nat
      BY <1>5, <2>6
    <3>2. Says(s, k + 1, r[k + 1])
      BY <2>3, <2>4, <3>1, SaysNext
    <3> QED
      BY <2>1, <3>2
  <2> QED
    BY <2>5, <2>6
<1> HIDE DEF T
<1>6. \A k \in 0..Len(s) : k \in T
  BY <1>2, <1>4, <1>5, Induction
<1>7. Says(s, Len(s), r[Len(s)])
  BY <1>2, <1>6 DEF T
<1> QED
  BY <1>1, <1>7 DEF IsReplay

\* Meaning is what all events of a history say.
LEMMA MeaningIsSaid ==
  ASSUME NEW s, Len(s) \in Nat, DOMAIN s = 1..Len(s), NEW c, Says(s, Len(s), c)
  PROVE  Meaning(s) = c
<1>1. ASSUME NEW f \in Fields
      PROVE  s[LastAbout(f, s)].sets[f] = c[f]
  <2>1. PICK k \in 1..Len(s) : IsLastAbout(f, s, Len(s), k) /\ c[f] = s[k].sets[f]
    BY DEF Says
  <2>2. \A j \in DOMAIN s :
          f \in DOMAIN s[j].sets /\ (\A i \in (j + 1)..Len(s) : f \notin DOMAIN s[i].sets)
            <=> j = k
    BY <2>1 DEF IsLastAbout
  <2>3. LastAbout(f, s) = k
    BY <2>2 DEF LastAbout
  <2> QED
    BY <2>1, <2>3
<1> QED
  BY <1>1 DEF Meaning, Says, Content

LEMMA ReplayIsMeaning ==
  ASSUME NEW s \in Seq(Events), s # << >>, s[1].sets \in Content
  PROVE  Says(s, Len(s), Meaning(s)) /\ Replayed(s) = Meaning(s)
<1>1. Len(s) \in Nat /\ DOMAIN s = 1..Len(s)
  OBVIOUS
<1> QED
  BY <1>1, ReplaySays, MeaningIsSaid

-----------------------------------------------------------------------------
(***************************************************************************)
(* The events of a change: those of the fields that differ, with the       *)
(* values of the form.                                                     *)
(***************************************************************************)
ChangeOf(f, fields) == Event("changed", Only(f, fields[f]))
ChangesOf(fields)   == {ChangeOf(f, fields) : f \in Fields}

IsUpto(r, fields) ==
  r = [k \in 0..Len(FieldOrder) |->
         IF k = 0 THEN << >>
         ELSE IF Loaded[FieldOrder[k]] = fields[FieldOrder[k]] THEN r[k - 1]
         ELSE Append(r[k - 1], ChangeOf(FieldOrder[k], fields))]

LEMMA ChangesExist ==
  ASSUME NEW fields
  PROVE  \E r : IsUpto(r, fields) /\ Changes(fields) = r[Len(FieldOrder)]
<1> DEFINE n == Len(FieldOrder)
           S == Seq(ChangesOf(fields))
           step == [p \in (1..n) \X S |->
                      IF Loaded[FieldOrder[p[1]]] = fields[FieldOrder[p[1]]] THEN p[2]
                      ELSE Append(p[2], ChangeOf(FieldOrder[p[1]], fields))]
<1>1. n \in Nat /\ << >> \in S
  BY DEF DiaryAssumption
<1>2. step \in [(1..n) \X S -> S]
  <2>1. ASSUME NEW p \in (1..n) \X S
        PROVE  step[p] \in S
    <3>1. p[1] \in 1..n /\ p[2] \in S
      OBVIOUS
    <3>2. FieldOrder[p[1]] \in Fields
      BY <3>1 DEF DiaryAssumption
    <3>3. ChangeOf(FieldOrder[p[1]], fields) \in ChangesOf(fields)
      BY <3>2 DEF ChangesOf
    <3>4. Append(p[2], ChangeOf(FieldOrder[p[1]], fields)) \in S
      BY <3>1, <3>3
    <3> QED
      BY <3>1, <3>4
  <2> QED
    BY <2>1
<1>3. \A k \in 1..n : \A a \in S :
        step[<< k, a >>] = IF Loaded[FieldOrder[k]] = fields[FieldOrder[k]] THEN a
                           ELSE Append(a, ChangeOf(FieldOrder[k], fields))
  OBVIOUS
<1>4. PICK f : IsRun(f, n, S, << >>, step)
  <2> HIDE DEF step, n, S
  <2> QED
    BY <1>1, <1>2, Recursion
<1>5. ASSUME NEW k \in 0..n
      PROVE  f[k] = IF k = 0 THEN << >>
                    ELSE IF Loaded[FieldOrder[k]] = fields[FieldOrder[k]] THEN f[k - 1]
                    ELSE Append(f[k - 1], ChangeOf(FieldOrder[k], fields))
  <2>1. CASE k = 0
    BY <1>4, <2>1 DEF IsRun
  <2>2. CASE k # 0
    <3> HIDE DEF S, step
    <3>1. k \in 1..n /\ k - 1 \in 0..n
      BY <1>1, <2>2
    <3>2. f[k - 1] \in S
      BY <1>4, <3>1 DEF IsRun
    <3>3. f[k] = step[<< k, f[k - 1] >>]
      BY <1>4, <3>1 DEF IsRun
    <3> QED
      BY <1>3, <2>2, <3>1, <3>2, <3>3
  <2> QED
    BY <2>1, <2>2
<1>6. IsUpto(f, fields)
  <2> HIDE DEF S, step
  <2> QED
    BY <1>4, <1>5 DEF IsRun, IsUpto
<1>7. IsUpto(CHOOSE r : IsUpto(r, fields), fields)
  BY <1>6
<1>8. Changes(fields) = (CHOOSE r : IsUpto(r, fields))[n]
  BY DEF Changes, IsUpto, ChangeOf
<1> QED
  BY <1>7, <1>8

LEMMA ChangesAreDifferences ==
  ASSUME NEW fields
  PROVE  /\ Changes(fields) \in Seq(ChangesOf(fields))
         /\ \A f \in Fields : Loaded[f] # fields[f] =>
              \E k \in DOMAIN Changes(fields) : Changes(fields)[k] = ChangeOf(f, fields)
<1> DEFINE n == Len(FieldOrder)
<1>1. PICK r : IsUpto(r, fields) /\ Changes(fields) = r[n]
  BY ChangesExist
<1>2. n \in Nat
  BY DEF DiaryAssumption
<1>3. /\ r[0] = << >>
      /\ \A k \in 1..n :
           r[k] = IF Loaded[FieldOrder[k]] = fields[FieldOrder[k]] THEN r[k - 1]
                  ELSE Append(r[k - 1], ChangeOf(FieldOrder[k], fields))
  <2>1. \A k \in 0..n :
          r[k] = IF k = 0 THEN << >>
                 ELSE IF Loaded[FieldOrder[k]] = fields[FieldOrder[k]] THEN r[k - 1]
                 ELSE Append(r[k - 1], ChangeOf(FieldOrder[k], fields))
    BY <1>1, Zenon DEF IsUpto
  <2>2. 0 \in 0..n /\ \A k \in 1..n : k \in 0..n /\ k # 0
    BY <1>2
  <2> QED
    BY <2>1, <2>2, Zenon
<1> DEFINE Has(s, f) == \E j \in DOMAIN s : s[j] = ChangeOf(f, fields)
           T == {k \in 0..n : /\ r[k] \in Seq(ChangesOf(fields))
                              /\ \A i \in 1..k : Loaded[FieldOrder[i]] # fields[FieldOrder[i]]
                                                   => Has(r[k], FieldOrder[i])}
<1>4. 0 \in T
  <2>1. r[0] \in Seq(ChangesOf(fields))
    BY <1>3
  <2>2. 0 \in 0..n /\ 1..0 = {}
    BY <1>2
  <2> QED
    BY <2>1, <2>2
<1>5. ASSUME NEW k \in 0..n, k < n, k \in T
      PROVE  k + 1 \in T
  <2> DEFINE g == FieldOrder[k + 1]
             e == ChangeOf(g, fields)
  <2>1. k + 1 \in 1..n /\ g \in Fields
    BY <1>2, <1>5 DEF DiaryAssumption
  <2>2. r[k] \in Seq(ChangesOf(fields))
    BY <1>5
  <2>3. r[k + 1] = IF Loaded[g] = fields[g] THEN r[k] ELSE Append(r[k], e)
    BY <1>3, <2>1
  <2>4. CASE Loaded[g] = fields[g]
    <3>1. r[k + 1] = r[k]
      BY <2>3, <2>4
    <3>2. ASSUME NEW i \in 1..(k + 1), Loaded[FieldOrder[i]] # fields[FieldOrder[i]]
          PROVE  Has(r[k + 1], FieldOrder[i])
      <4>1. i \in 1..k
        BY <2>4, <3>2
      <4> QED
        BY <1>5, <3>1, <3>2, <4>1
    <3> QED
      BY <2>1, <2>2, <3>1, <3>2
  <2>5. CASE Loaded[g] # fields[g]
    <3> HIDE DEF g, e
    <3>1. r[k + 1] = Append(r[k], e)
      BY <2>3, <2>5
    <3>2. e \in ChangesOf(fields)
      BY <2>1 DEF ChangesOf, e
    <3>3. /\ r[k + 1] \in Seq(ChangesOf(fields))
          /\ Len(r[k]) + 1 \in DOMAIN r[k + 1] /\ r[k + 1][Len(r[k]) + 1] = e
          /\ \A j \in DOMAIN r[k] : j \in DOMAIN r[k + 1] /\ r[k + 1][j] = r[k][j]
      BY <2>2, <3>1, <3>2
    <3>4. ASSUME NEW i \in 1..(k + 1), Loaded[FieldOrder[i]] # fields[FieldOrder[i]]
          PROVE  Has(r[k + 1], FieldOrder[i])
      <4>1. CASE i = k + 1
        BY <3>3, <4>1 DEF e, g
      <4>2. CASE i \in 1..k
        BY <1>5, <3>3, <3>4, <4>2
      <4> QED
        BY <4>1, <4>2
    <3> QED
      BY <2>1, <3>3, <3>4
  <2> QED
    BY <2>4, <2>5
<1> HIDE DEF T, n
<1>6. \A k \in 0..n : k \in T
  BY <1>2, <1>4, <1>5, Induction
<1>7. n \in T
  BY <1>2, <1>6
<1>8. ASSUME NEW f \in Fields, Loaded[f] # fields[f]
      PROVE  \E k \in DOMAIN r[n] : r[n][k] = ChangeOf(f, fields)
  <2>1. PICK i \in 1..n : FieldOrder[i] = f
    BY DEF Fields, DiaryAssumption, n
  <2> QED
    BY <1>7, <1>8, <2>1 DEF T
<1> QED
  BY <1>1, <1>7, <1>8 DEF T

-----------------------------------------------------------------------------
(***************************************************************************)
(* The invariant.  h is a history, n the number of its events that the     *)
(* view has handled.                                                       *)
(***************************************************************************)
\* Versions count from 2; an item is created once, as the first thing, and
\* nothing but deletions follows a deletion.
HistoryOK(h) ==
  /\ \A k \in DOMAIN h : h[k].version = k + 1
  /\ \A k \in DOMAIN h : h[k].type = "created" <=> k = 1
  /\ h # << >> => h[1].sets \in Content
  /\ \A j, k \in DOMAIN h : j < k /\ h[j].type = "deleted" => h[k].type = "deleted"

\* What waits in the queue is the end of the history.
QueueOK(h, queue) ==
  /\ Len(queue) <= Len(h)
  /\ \A k \in DOMAIN queue : queue[k] = h[(Len(h) - Len(queue)) + k]

\* Version v is that of one of the first n events, which is no deletion.
Versioned(h, n, v) == v - 1 \in 1..n /\ h[v - 1].type # "deleted"

\* Row r is what the first n events say, but for the version that is still
\* to be set when a is not empty.
ViewOK(h, n, r, a) ==
  /\ n = 0 => ~r.listed
  /\ n > 0 => r.fields \in Content /\ Versioned(h, n, r.version)
  /\ n > 0 => (r.listed <=> \A k \in 1..n : h[k].type # "deleted")
  /\ r.listed => Says(h, n, r.fields)
  /\ r.listed /\ a = << >> => r.version = n + 1
  /\ a # << >> => SharedRows /\ r.listed /\ n > 1 /\ a[1] = h[n]

\* What a page shows is under a version of the item, and it is what the
\* history said then, unless the page has read a row in the making.
Seen(h, v, shown) ==
  /\ Versioned(h, Len(h), v)
  /\ ~SharedRows => Says(h, v - 1, shown)

FormOK(h, n, x) ==
  /\ x.phase = "reading" => SharedRows /\ n > 0
  /\ x.phase = "open" => Seen(h, x.version, x.shown) /\ x.shown \in Content

CommandOK(h, c) ==
  /\ c.type # "create" => h # << >>
  /\ c.type = "change" => Seen(h, c.version, c.shown)

Handled == Len(history) - Len(events)

Inv ==
  /\ TypeOK
  /\ HistoryOK(history)
  /\ QueueOK(history, events)
  /\ ViewOK(history, Handled, row, assigned)
  /\ \A u \in Users : FormOK(history, Handled, forms[u])
  /\ \A k \in DOMAIN commands : CommandOK(history, commands[k])

-----------------------------------------------------------------------------
\* Sequences.
LEMMA Shortened ==
  ASSUME NEW S, NEW s \in Seq(S), s # << >>
  PROVE  /\ Len(s) \in Nat /\ Len(s) > 0 /\ 1 \in DOMAIN s
         /\ Head(s) = s[1] /\ Head(s) \in S
         /\ Tail(s) \in Seq(S) /\ Len(Tail(s)) = Len(s) - 1
         /\ \A k \in DOMAIN Tail(s) : k + 1 \in DOMAIN s /\ Tail(s)[k] = s[k + 1]
  OBVIOUS

LEMMA EmptySequence ==
  ASSUME NEW S
  PROVE  << >> \in Seq(S)
  OBVIOUS

LEMMA Lengthened ==
  ASSUME NEW S, NEW s \in Seq(S), NEW e \in S
  PROVE  /\ Append(s, e) \in Seq(S)
         /\ \A k \in DOMAIN Append(s, e) :
              (k \in DOMAIN s /\ Append(s, e)[k] = s[k]) \/ Append(s, e)[k] = e
  OBVIOUS

LEMMA Joined ==
  ASSUME NEW S, NEW s \in Seq(S), NEW t \in Seq(S)
  PROVE  /\ s \o t \in Seq(S)
         /\ Len(s) \in Nat /\ Len(t) \in Nat /\ Len(s \o t) = Len(s) + Len(t)
         /\ DOMAIN s = 1..Len(s) /\ DOMAIN t = 1..Len(t)
         /\ DOMAIN (s \o t) = 1..(Len(s) + Len(t))
         /\ \A k \in 1..Len(s) : (s \o t)[k] = s[k]
         /\ \A k \in 1..Len(t) : (s \o t)[Len(s) + k] = t[k]
         /\ \A k \in 1..(Len(s) + Len(t)) : k \in 1..Len(s) \/ k - Len(s) \in 1..Len(t)
         /\ s # << >> => s \o t # << >>
  OBVIOUS

-----------------------------------------------------------------------------
(***************************************************************************)
(* What was true of a history stays true when it grows.                    *)
(***************************************************************************)
Extends(g, h) ==
  /\ h \in Seq(Events) /\ g \in Seq(Events)
  /\ Len(h) <= Len(g)
  /\ \A k \in 1..Len(h) : g[k] = h[k]

LEMMA SaysLater ==
  ASSUME NEW h, NEW g, Extends(g, h), NEW n \in 0..Len(h), NEW c, Says(h, n, c)
  PROVE  Says(g, n, c)
<1>1. n \in Nat /\ \A k \in 1..n : h[k].sets = g[k].sets
  BY DEF Extends
<1> QED
  BY <1>1, SaysSame

LEMMA SeenLater ==
  ASSUME NEW h, NEW g, Extends(g, h), NEW v, NEW c, Seen(h, v, c)
  PROVE  Seen(g, v, c)
<1>1. Len(h) \in Nat /\ Len(g) \in Nat /\ Len(h) <= Len(g)
  BY DEF Extends
<1>2. v - 1 \in 1..Len(h) /\ h[v - 1].type # "deleted"
  BY DEF Seen, Versioned
<1>3. Versioned(g, Len(g), v)
  BY <1>1, <1>2 DEF Versioned, Extends
<1>4. ASSUME ~SharedRows
      PROVE  Says(g, v - 1, c)
  <2>1. Says(h, v - 1, c) /\ v - 1 \in 0..Len(h)
    BY <1>1, <1>2, <1>4 DEF Seen
  <2> QED
    BY <2>1, SaysLater
<1> QED
  BY <1>3, <1>4 DEF Seen

LEMMA PagesLater ==
  ASSUME NEW h, NEW g, Extends(g, h)
  PROVE  /\ \A n, x : FormOK(h, n, x) => FormOK(g, n, x)
         /\ \A c : CommandOK(h, c) => CommandOK(g, c)
<1>1. h # << >> => g # << >>
  BY DEF Extends
<1> QED
  BY <1>1, SeenLater DEF FormOK, CommandOK

LEMMA ViewLater ==
  ASSUME NEW h, NEW g, Extends(g, h), NEW n \in 0..Len(h), NEW r, NEW a, ViewOK(h, n, r, a)
  PROVE  ViewOK(g, n, r, a)
<1>1. \A k \in 1..n : g[k] = h[k]
  BY DEF Extends
<1>2. r.listed => Says(g, n, r.fields)
  BY SaysLater DEF ViewOK
<1>3. n > 0 => Versioned(g, n, r.version)
  BY <1>1 DEF ViewOK, Versioned
<1>4. n > 0 => (r.listed <=> \A k \in 1..n : g[k].type # "deleted")
  BY <1>1 DEF ViewOK
<1>5. a # << >> => SharedRows /\ r.listed /\ n > 1 /\ a[1] = g[n]
  BY <1>1 DEF ViewOK
<1> QED
  BY <1>2, <1>3, <1>4, <1>5 DEF ViewOK

-----------------------------------------------------------------------------
(***************************************************************************)
(* Steps.  A page changes a form or posts a command; the thread takes a    *)
(* command and stores events, or takes an event and changes the row.       *)
(***************************************************************************)
RowType  == [listed : BOOLEAN, fields : {<< >>} \cup Content, version : Nat]
FormType == [phase : {"closed", "reading", "open"}, shown : Partial, version : Nat]

CommandTypeOK(c) ==
  /\ c \in Posted
  /\ c.type # "delete" => c.fields \in Content
  /\ c.type = "change" => c.shown \in Content

LEMMA TypeParts ==
  TypeOK <=>
    /\ history \in Seq(Events) /\ events \in Seq(Events)
    /\ commands \in Seq(Posted) /\ \A k \in DOMAIN commands : CommandTypeOK(commands[k])
    /\ row \in RowType
    /\ assigned \in Seq(Events) /\ Len(assigned) <= 1
    /\ forms \in [Users -> FormType]
    /\ posted \in 0..MaxCommands
<1>1. commands \in Seq(Posted) => \A k \in DOMAIN commands : commands[k] \in Posted
  OBVIOUS
<1> QED
  BY <1>1 DEF TypeOK, RowType, FormType, CommandTypeOK

LEMMA InitInv == Init => Inv
<1> SUFFICES ASSUME Init PROVE Inv
  OBVIOUS
<1>1. /\ Closed \in FormType /\ Closed.phase = "closed"
      /\ NoRow \in RowType /\ NoRow.listed = FALSE
  BY EmptyIsPartial DEF Closed, FormType, NoRow, RowType
<1>2. TypeOK
  <2>1. << >> \in Seq(Events) /\ << >> \in Seq(Posted) /\ Len(<< >>) = 0 /\ DOMAIN << >> = {}
    OBVIOUS
  <2>2. 0 \in 0..MaxCommands
    BY DEF DiaryAssumption
  <2> QED
    BY <1>1, <2>1, <2>2, TypeParts DEF Init
<1>3. HistoryOK(history) /\ QueueOK(history, events) /\ Handled = 0
  BY DEF Init, HistoryOK, QueueOK, Handled
<1>4. ViewOK(history, Handled, row, assigned)
  BY <1>1, <1>3 DEF Init, ViewOK
<1>5. \A u \in Users : FormOK(history, Handled, forms[u])
  BY <1>1 DEF Init, FormOK
<1> QED
  BY <1>2, <1>3, <1>4, <1>5 DEF Init, Inv

LEMMA PageStep ==
  ASSUME Inv, NEW u \in Users, NEW x \in FormType, FormOK(history, Handled, x),
         forms' = [forms EXCEPT ![u] = x],
         UNCHANGED << history, commands, events, row, assigned, posted >>
  PROVE  Inv'
<1>1. forms \in [Users -> FormType]
  BY TypeParts DEF Inv
<1>2. forms' \in [Users -> FormType] /\ \A w \in Users : FormOK(history, Handled, forms'[w])
  BY <1>1 DEF Inv
<1>3. TypeOK'
  BY <1>2 DEF Inv, TypeOK, FormType
<1> QED
  BY <1>2, <1>3 DEF Inv, Handled

LEMMA PostStep ==
  ASSUME Inv, NEW c, CommandTypeOK(c), CommandOK(history, c), Post(c),
         UNCHANGED << history, events, row, assigned, forms >>
  PROVE  Inv'
<1>1. commands \in Seq(Posted) /\ c \in Posted /\ commands' = Append(commands, c)
  BY TypeParts DEF Inv, CommandTypeOK, Post
<1>2. /\ commands' \in Seq(Posted)
      /\ \A k \in DOMAIN commands' :
           (k \in DOMAIN commands /\ commands'[k] = commands[k]) \/ commands'[k] = c
  BY <1>1, Lengthened
<1>3. \A k \in DOMAIN commands' : CommandTypeOK(commands'[k]) /\ CommandOK(history, commands'[k])
  BY <1>2, TypeParts DEF Inv
<1>4. posted' \in 0..MaxCommands
  BY DEF Inv, TypeOK, Post, DiaryAssumption
<1>5. TypeOK'
  BY <1>2, <1>3, <1>4 DEF Inv, TypeOK, CommandTypeOK
<1> QED
  BY <1>3, <1>5 DEF Inv, Handled

\* Events that the invariant allows to be stored after h.
MayFollow(h, new) ==
  /\ \A k \in DOMAIN new :
       /\ new[k].version = Len(h) + k + 1
       /\ new[k].type = "created" <=> Len(h) + k = 1
       /\ new[k].type # "deleted" => \A j \in DOMAIN h : h[j].type # "deleted"
  /\ h = << >> /\ new # << >> => new[1].sets \in Content
  /\ \A j, k \in DOMAIN new : j < k /\ new[j].type = "deleted" => new[k].type = "deleted"

LEMMA HistoryLater ==
  ASSUME NEW h \in Seq(Events), NEW new \in Seq(Events), HistoryOK(h), MayFollow(h, new)
  PROVE  HistoryOK(h \o new)
<1> DEFINE g == h \o new
           n == Len(h)
<1>1. /\ n \in Nat /\ Len(new) \in Nat /\ DOMAIN h = 1..n /\ DOMAIN new = 1..Len(new)
      /\ DOMAIN g = 1..(n + Len(new))
      /\ \A k \in 1..n : g[k] = h[k]
      /\ \A k \in 1..Len(new) : g[n + k] = new[k]
      /\ \A k \in 1..(n + Len(new)) : k \in 1..n \/ k - n \in 1..Len(new)
  BY Joined
<1> HIDE DEF g, n
<1>2. ASSUME NEW k \in 1..(n + Len(new)), k \notin 1..n
      PROVE  k - n \in 1..Len(new) /\ k > n /\ g[k] = new[k - n] /\ n + (k - n) = k
  <2>1. k - n \in 1..Len(new) /\ n + (k - n) = k /\ k > n
    BY <1>1, <1>2
  <2> QED
    BY <1>1, <2>1
<1>3. ASSUME NEW k \in DOMAIN g
      PROVE  g[k].version = k + 1 /\ (g[k].type = "created" <=> k = 1)
  <2>1. CASE k \in 1..n
    BY <1>1, <2>1 DEF HistoryOK
  <2>2. CASE k \notin 1..n
    <3>1. k - n \in 1..Len(new) /\ g[k] = new[k - n] /\ n + (k - n) = k
      BY <1>1, <1>2, <2>2
    <3>2. /\ new[k - n].version = n + (k - n) + 1
          /\ new[k - n].type = "created" <=> n + (k - n) = 1
      BY <1>1, <3>1 DEF MayFollow, n
    <3> QED
      BY <3>1, <3>2
  <2> QED
    BY <2>1, <2>2
<1>4. g # << >> => g[1].sets \in Content
  <2>1. CASE h # << >>
    <3>1. 1 \in 1..n
      BY <1>1, <2>1 DEF n
    <3> QED
      BY <1>1, <2>1, <3>1 DEF HistoryOK
  <2>2. CASE h = << >>
    <3>1. g = new
      BY <2>2 DEF g
    <3> QED
      BY <2>2, <3>1 DEF MayFollow
  <2> QED
    BY <2>1, <2>2
<1>5. ASSUME NEW j \in DOMAIN g, NEW k \in DOMAIN g, j < k, g[j].type = "deleted"
      PROVE  g[k].type = "deleted"
  <2>1. CASE j \in 1..n /\ k \in 1..n
    BY <1>1, <1>5, <2>1 DEF HistoryOK
  <2>2. CASE j \in 1..n /\ k \notin 1..n
    <3>1. k - n \in 1..Len(new) /\ g[k] = new[k - n]
      BY <1>1, <1>2, <2>2
    <3>2. h[j].type = "deleted" /\ j \in DOMAIN h
      BY <1>1, <1>5, <2>2
    <3> QED
      BY <1>1, <3>1, <3>2 DEF MayFollow
  <2>3. CASE j \notin 1..n
    <3>1. k \notin 1..n
      BY <1>1, <1>5, <2>3
    <3>2. /\ k - n \in 1..Len(new) /\ g[k] = new[k - n]
          /\ j - n \in 1..Len(new) /\ g[j] = new[j - n]
      BY <1>1, <1>2, <2>3, <3>1
    <3>3. j - n < k - n
      BY <1>1, <1>5
    <3>4. PICK i, l : i = j - n /\ l = k - n
      OBVIOUS
    <3>5. /\ i \in 1..Len(new) /\ l \in 1..Len(new) /\ i < l
          /\ new[i].type = "deleted" /\ g[k] = new[l]
      BY <1>5, <3>2, <3>3, <3>4
    <3>6. i \in DOMAIN new /\ l \in DOMAIN new
      BY <3>5
    <3>7. new[l].type = "deleted"
      BY <3>5, <3>6 DEF MayFollow
    <3> QED
      BY <3>5, <3>7
  <2> QED
    BY <2>1, <2>2, <2>3
<1> QED
  BY <1>3, <1>4, <1>5 DEF HistoryOK, g

LEMMA QueueLater ==
  ASSUME NEW h \in Seq(Events), NEW q \in Seq(Events), NEW new \in Seq(Events), QueueOK(h, q)
  PROVE  /\ QueueOK(h \o new, q \o new)
         /\ Len(h \o new) - Len(q \o new) = Len(h) - Len(q)
         /\ Len(h) - Len(q) \in 0..Len(h)
<1> DEFINE g == h \o new
           p == q \o new
           n == Len(h)
           m == Len(q)
<1>1. /\ n \in Nat /\ m \in Nat /\ Len(new) \in Nat
      /\ Len(g) = n + Len(new) /\ Len(p) = m + Len(new)
      /\ DOMAIN q = 1..m /\ DOMAIN p = 1..(m + Len(new))
      /\ \A k \in 1..n : g[k] = h[k]
      /\ \A k \in 1..Len(new) : g[n + k] = new[k]
      /\ \A k \in 1..m : p[k] = q[k]
      /\ \A k \in 1..Len(new) : p[m + k] = new[k]
  BY Joined
<1>2. m <= n /\ \A k \in 1..m : q[k] = h[(n - m) + k]
  BY <1>1 DEF QueueOK
<1> HIDE DEF g, p, n, m
<1>3. ASSUME NEW k \in 1..(m + Len(new))
      PROVE  p[k] = g[(n - m) + k]
  <2>1. CASE k \in 1..m
    <3>1. (n - m) + k \in 1..n
      BY <1>1, <1>2, <2>1
    <3> QED
      BY <1>1, <1>2, <2>1, <3>1
  <2>2. CASE k \notin 1..m
    <3>1. PICK i \in 1..Len(new) : k = m + i /\ (n - m) + k = n + i
      <4>1. k - m \in 1..Len(new) /\ k = m + (k - m) /\ (n - m) + k = n + (k - m)
        BY <1>1, <2>2
      <4> QED
        BY <4>1
    <3> QED
      BY <1>1, <3>1
  <2> QED
    BY <2>1, <2>2
<1>4. Len(g) - Len(p) = n - m /\ Len(p) <= Len(g) /\ n - m \in 0..n
  BY <1>1, <1>2
<1>5. QueueOK(g, p)
  BY <1>1, <1>3, <1>4 DEF QueueOK
<1> QED
  BY <1>4, <1>5 DEF g, p, n, m

LEMMA CommandTaken ==
  ASSUME Inv, NEW type, NextCommand(type)
  PROVE  /\ Head(commands).type = type
         /\ CommandTypeOK(Head(commands)) /\ CommandOK(history, Head(commands))
         /\ commands' \in Seq(Posted)
         /\ \A k \in DOMAIN commands' :
              CommandTypeOK(commands'[k]) /\ CommandOK(history, commands'[k])
         /\ UNCHANGED << row, assigned, forms, posted >>
<1>1. commands \in Seq(Posted) /\ commands # << >> /\ commands' = Tail(commands)
  BY TypeParts DEF Inv, NextCommand
<1>2. /\ 1 \in DOMAIN commands /\ Head(commands) = commands[1]
      /\ commands' \in Seq(Posted)
      /\ \A k \in DOMAIN commands' : k + 1 \in DOMAIN commands /\ commands'[k] = commands[k + 1]
  BY <1>1, Shortened
<1> QED
  BY <1>2, TypeParts DEF Inv, NextCommand

LEMMA StoredStep ==
  ASSUME Inv, NEW type, NextCommand(type), NEW new \in Seq(Events), MayFollow(history, new),
         history' = history \o new, events' = events \o new
  PROVE  Inv'
<1>1. history \in Seq(Events) /\ events \in Seq(Events)
  BY TypeParts DEF Inv
<1>2. history' \in Seq(Events) /\ events' \in Seq(Events) /\ Extends(history', history)
  BY <1>1, Joined DEF Extends
<1>3. HistoryOK(history')
  BY <1>1, HistoryLater DEF Inv
<1>4. QueueOK(history', events') /\ Handled' = Handled /\ Handled \in 0..Len(history)
  BY <1>1, QueueLater DEF Inv, Handled
<1>5. ViewOK(history', Handled', row', assigned')
  BY <1>2, <1>4, CommandTaken, ViewLater DEF Inv
<1>6. /\ commands' \in Seq(Posted)
      /\ \A k \in DOMAIN commands' :
           CommandTypeOK(commands'[k]) /\ CommandOK(history', commands'[k])
  BY <1>2, CommandTaken, PagesLater
<1>7. \A u \in Users : FormOK(history', Handled', forms'[u])
  BY <1>2, <1>4, CommandTaken, PagesLater DEF Inv
<1>8. TypeOK'
  BY <1>2, <1>6, CommandTaken DEF Inv, TypeOK, CommandTypeOK
<1> QED
  BY <1>3, <1>4, <1>5, <1>6, <1>7, <1>8 DEF Inv

\* A command that throws, or stores nothing.
LEMMA RefusedStep ==
  ASSUME Inv, NEW type, NextCommand(type), UNCHANGED << history, events >>
  PROVE  Inv'
<1>1. TypeOK'
  BY CommandTaken DEF Inv, TypeOK, CommandTypeOK
<1> QED
  BY <1>1, CommandTaken DEF Inv, Handled

-----------------------------------------------------------------------------
(***************************************************************************)
(* The command handlers.                                                   *)
(***************************************************************************)
Unnumbered == [type : {"created", "changed", "deleted"}, sets : Partial, version : {-1}]

Saved(changes, expected) ==
  [k \in DOMAIN changes |-> [changes[k] EXCEPT !.version = expected + k]]

LEMMA Numbering ==
  ASSUME NEW changes \in Seq(Unnumbered), NEW e \in Nat
  PROVE  /\ Saved(changes, e) \in Seq(Events)
         /\ Len(Saved(changes, e)) = Len(changes)
         /\ DOMAIN Saved(changes, e) = DOMAIN changes
         /\ \A k \in DOMAIN changes : /\ k \in Nat
                                      /\ Saved(changes, e)[k].type = changes[k].type
                                      /\ Saved(changes, e)[k].sets = changes[k].sets
                                      /\ Saved(changes, e)[k].version = e + k
<1>1. Len(changes) \in Nat /\ DOMAIN changes = 1..Len(changes)
  OBVIOUS
<1>2. ASSUME NEW k \in 1..Len(changes)
      PROVE  /\ [changes[k] EXCEPT !.version = e + k] \in Events
             /\ [changes[k] EXCEPT !.version = e + k].type = changes[k].type
             /\ [changes[k] EXCEPT !.version = e + k].sets = changes[k].sets
             /\ [changes[k] EXCEPT !.version = e + k].version = e + k
  <2>1. changes[k] \in Unnumbered
    OBVIOUS
  <2>2. e + k \in Nat
    OBVIOUS
  <2> QED
    BY <2>1, <2>2 DEF Unnumbered, Events
<1>3. PICK s : s = Saved(changes, e)
  OBVIOUS
<1>4. s = [k \in 1..Len(changes) |-> [changes[k] EXCEPT !.version = e + k]]
  BY <1>1, <1>3 DEF Saved
<1>5. s \in Seq(Events) /\ Len(s) = Len(changes) /\ DOMAIN s = DOMAIN changes
  BY <1>1, <1>2, <1>4
<1>6. \A k \in 1..Len(changes) : s[k] = [changes[k] EXCEPT !.version = e + k]
  BY <1>4
<1>7. ASSUME NEW k \in 1..Len(changes)
      PROVE  s[k].type = changes[k].type /\ s[k].sets = changes[k].sets /\ s[k].version = e + k
  BY <1>2, <1>6
<1> QED
  BY <1>1, <1>3, <1>5, <1>7

LEMMA LastVersion ==
  ASSUME Inv, history # << >>
  PROVE  /\ Len(history) \in 1..Len(history) /\ DOMAIN history = 1..Len(history)
         /\ Last(history) = history[Len(history)]
         /\ Last(history).version = Len(history) + 1
<1>1. history \in Seq(Events)
  BY TypeParts DEF Inv
<1>2. Len(history) \in 1..Len(history) /\ DOMAIN history = 1..Len(history)
  BY <1>1
<1> QED
  BY <1>2 DEF Inv, HistoryOK, Last

LEMMA SaveStep ==
  ASSUME Inv, NEW type, NextCommand(type), NEW changes \in Seq(Unnumbered), NEW e \in Nat,
         Save(changes, e), Accepts(e) => MayFollow(history, Saved(changes, e))
  PROVE  Inv'
<1>1. CASE Accepts(e)
  <2>1. history' = history \o Saved(changes, e) /\ events' = events \o Saved(changes, e)
    BY <1>1 DEF Save, Saved
  <2>2. Saved(changes, e) \in Seq(Events)
    BY Numbering
  <2> QED
    BY <1>1, <2>1, <2>2, StoredStep
<1>2. CASE ~Accepts(e)
  BY <1>2, RefusedStep DEF Save
<1> QED
  BY <1>1, <1>2

LEMMA CreateStep == Inv /\ CreateItem => Inv'
<1> SUFFICES ASSUME Inv, CreateItem PROVE Inv'
  OBVIOUS
<1> DEFINE c == Head(commands)
           changes == << Event("created", c.fields) >>
<1>1. NextCommand("create") /\ Save(changes, 1)
  BY DEF CreateItem
<1>2. c.fields \in Content
  BY <1>1, CommandTaken DEF CommandTypeOK
<1>3. Event("created", c.fields) \in Unnumbered
  BY <1>2, ContentIsPartial DEF Event, Unnumbered
<1>4. changes \in Seq(Unnumbered) /\ Len(changes) = 1 /\ DOMAIN changes = {1}
      /\ changes[1].type = "created" /\ changes[1].sets = c.fields
  BY <1>3 DEF Event
<1> HIDE DEF changes, c
<1>5. ASSUME Accepts(1)
      PROVE  MayFollow(history, Saved(changes, 1))
  <2>1. history = << >>
    <3>1. SUFFICES ASSUME history # << >> PROVE FALSE
      OBVIOUS
    <3>2. Len(history) \in Nat /\ Len(history) >= 1 /\ Last(history).version = Len(history) + 1
      BY <3>1, LastVersion
    <3>3. Last(history).version = 1
      BY <1>5, <3>1 DEF Accepts
    <3> QED
      BY <3>2, <3>3
  <2>2. Len(history) = 0 /\ DOMAIN history = {}
    BY <2>1
  <2>3. /\ DOMAIN Saved(changes, 1) = {1}
        /\ Saved(changes, 1)[1].type = "created" /\ Saved(changes, 1)[1].sets = c.fields
        /\ Saved(changes, 1)[1].version = 1 + 1
    BY <1>4, Numbering
  <2> QED
    BY <1>2, <2>2, <2>3 DEF MayFollow
<1> QED
  BY <1>1, <1>4, <1>5, SaveStep

\* A change is accepted when its version is the latest; the item is not deleted.
LEMMA AcceptedChange ==
  ASSUME Inv, ChangeItem, Accepts(Head(commands).version)
  PROVE  /\ history # << >>
         /\ Head(commands).version = Len(history) + 1
         /\ Seen(history, Len(history) + 1, Head(commands).shown)
         /\ \A j \in DOMAIN history : history[j].type # "deleted"
<1> DEFINE c == Head(commands)
           n == Len(history)
<1>1. NextCommand("change")
  BY DEF ChangeItem
<1>2. history # << >> /\ Seen(history, c.version, c.shown)
  BY <1>1, CommandTaken DEF CommandOK
<1>3. /\ n \in 1..n /\ DOMAIN history = 1..n
      /\ c.version = n + 1
  BY <1>2, LastVersion DEF Accepts
<1>4. history[n].type # "deleted"
  <2>1. Versioned(history, n, n + 1)
    BY <1>2, <1>3 DEF Seen
  <2>2. (n + 1) - 1 = n
    BY <1>3
  <2> QED
    BY <2>1, <2>2 DEF Versioned
<1>5. \A j \in DOMAIN history : history[j].type # "deleted"
  BY <1>3, <1>4 DEF Inv, HistoryOK
<1> QED
  BY <1>2, <1>3, <1>5

LEMMA ChangesType ==
  ASSUME NEW fields \in Content
  PROVE  /\ Changes(fields) \in Seq(Unnumbered)
         /\ \A k \in DOMAIN Changes(fields) :
              /\ Changes(fields)[k].type = "changed"
              /\ \E f \in Fields : Changes(fields)[k].sets = Only(f, fields[f])
<1>1. ASSUME NEW f \in Fields
      PROVE  /\ ChangeOf(f, fields) \in Unnumbered
             /\ ChangeOf(f, fields).type = "changed"
             /\ ChangeOf(f, fields).sets = Only(f, fields[f])
  <2>1. Only(f, fields[f]) \in Partial
    BY OnlyType DEF Content
  <2> QED
    BY <2>1 DEF ChangeOf, Event, Unnumbered
<1>2. ASSUME NEW e \in ChangesOf(fields)
      PROVE  /\ e \in Unnumbered
             /\ e.type = "changed"
             /\ \E f \in Fields : e.sets = Only(f, fields[f])
  BY <1>1 DEF ChangesOf
<1>3. PICK s : s = Changes(fields)
  OBVIOUS
<1>4. s \in Seq(ChangesOf(fields))
  BY <1>3, ChangesAreDifferences
<1>5. s \in Seq(Unnumbered) /\ \A k \in DOMAIN s : s[k] \in ChangesOf(fields)
  BY <1>2, <1>4
<1> QED
  BY <1>2, <1>3, <1>5

LEMMA ChangeStep == Inv /\ ChangeItem => Inv'
<1> SUFFICES ASSUME Inv, ChangeItem PROVE Inv'
  OBVIOUS
<1> DEFINE c == Head(commands)
<1>1. PICK changes : changes = Changes(c.fields)
  OBVIOUS
<1>2. NextCommand("change") /\ Save(changes, c.version)
  BY <1>1 DEF ChangeItem
<1>3. c.fields \in Content /\ c.version \in Nat
  BY <1>2, CommandTaken DEF CommandTypeOK, Posted
<1>4. changes \in Seq(Unnumbered) /\ \A k \in DOMAIN changes : changes[k].type = "changed"
  BY <1>1, <1>3, ChangesType
<1>5. ASSUME Accepts(c.version)
      PROVE  MayFollow(history, Saved(changes, c.version))
  <2>1. /\ history # << >> /\ c.version = Len(history) + 1
        /\ \A j \in DOMAIN history : history[j].type # "deleted"
    BY <1>5, AcceptedChange
  <2>2. Len(history) \in Nat /\ Len(history) >= 1
    BY <2>1, LastVersion
  <2>3. PICK new, e : new = Saved(changes, e) /\ e = c.version
    OBVIOUS
  <2>4. /\ DOMAIN new = DOMAIN changes
        /\ \A k \in DOMAIN changes : /\ k \in Nat
                                     /\ new[k].type = changes[k].type
                                     /\ new[k].version = e + k
    BY <1>3, <1>4, <2>3, Numbering
  <2>5. Len(changes) \in Nat /\ DOMAIN changes = 1..Len(changes)
    BY <1>4
  <2>6. ASSUME NEW k \in DOMAIN new
        PROVE  /\ new[k].version = Len(history) + k + 1
               /\ new[k].type = "changed"
               /\ Len(history) + k # 1
    <3>1. k \in Nat /\ k >= 1
      BY <2>4, <2>5, <2>6
    <3>2. new[k].version = e + k /\ new[k].type = "changed"
      BY <1>4, <2>4, <2>6
    <3>3. PICK n : n = Len(history)
      OBVIOUS
    <3>4. n \in Nat /\ n >= 1 /\ e = n + 1
      BY <2>1, <2>2, <2>3, <3>3
    <3>5. e + k = n + k + 1 /\ n + k # 1
      BY <3>1, <3>4
    <3> QED
      BY <3>2, <3>3, <3>5
  <2>7. MayFollow(history, new)
    BY <2>1, <2>6 DEF MayFollow
  <2> QED
    BY <2>3, <2>7
<1> QED
  BY <1>2, <1>3, <1>4, <1>5, SaveStep

LEMMA ReturnedLength ==
  ASSUME Inv
  PROVE  LoadedVersion(Returned) = 1 + Len(history)
<1>1. history \in Seq(Events) /\ Len(history) \in Nat
  BY TypeParts DEF Inv
<1>2. Len(Reverse(history)) = Len(history)
  BY <1>1 DEF Reverse
<1> QED
  BY <1>2 DEF LoadedVersion, Returned

LEMMA DeleteStep == Inv /\ DeleteItem => Inv'
<1> SUFFICES ASSUME Inv, DeleteItem PROVE Inv'
  OBVIOUS
<1> DEFINE e == 1 + Len(history)
           changes == << Event("deleted", << >>) >>
<1>1. NextCommand("delete") /\ Save(changes, e)
  BY ReturnedLength DEF DeleteItem
<1>2. history # << >> /\ Len(history) \in Nat /\ Len(history) >= 1
  <2>1. history # << >>
    BY <1>1, CommandTaken DEF CommandOK
  <2> QED
    BY <2>1, LastVersion
<1>3. Event("deleted", << >>) \in Unnumbered
  BY EmptyIsPartial DEF Event, Unnumbered
<1>4. changes \in Seq(Unnumbered) /\ DOMAIN changes = {1} /\ changes[1].type = "deleted"
  BY <1>3 DEF Event
<1> HIDE DEF changes
<1>5. MayFollow(history, Saved(changes, e))
  <2>1. /\ DOMAIN Saved(changes, e) = {1}
        /\ Saved(changes, e)[1].type = "deleted"
        /\ Saved(changes, e)[1].version = e + 1
    BY <1>2, <1>4, Numbering
  <2> QED
    BY <1>2, <2>1 DEF MayFollow
<1> QED
  BY <1>1, <1>2, <1>4, <1>5, SaveStep

-----------------------------------------------------------------------------
(***************************************************************************)
(* The event handlers.                                                     *)
(***************************************************************************)
LEMMA EventTaken ==
  ASSUME Inv, NEW type, NextEvent(type)
  PROVE  /\ Handled \in Nat /\ Handled + 1 \in 1..Len(history)
         /\ Handled' = Handled + 1
         /\ Head(events) = history[Handled + 1] /\ Head(events) \in Events
         /\ Head(events).type = type
         /\ events' \in Seq(Events) /\ QueueOK(history, events')
         /\ assigned = << >>
         /\ UNCHANGED << history, commands, forms, posted >>
<1>1. /\ history \in Seq(Events) /\ events \in Seq(Events) /\ events # << >>
      /\ events' = Tail(events) /\ history' = history
  BY TypeParts DEF Inv, NextEvent
<1>2. /\ Len(events) \in Nat /\ Len(events) > 0 /\ 1 \in DOMAIN events
      /\ Head(events) = events[1] /\ Head(events) \in Events
      /\ events' \in Seq(Events) /\ Len(events') = Len(events) - 1
      /\ \A k \in DOMAIN events' : k + 1 \in DOMAIN events /\ events'[k] = events[k + 1]
  BY <1>1, Shortened
<1>3. /\ Len(events) <= Len(history) /\ Len(history) \in Nat
      /\ \A k \in DOMAIN events : events[k] = history[(Len(history) - Len(events)) + k]
  BY <1>1 DEF Inv, QueueOK
<1>4. /\ Handled \in Nat /\ Handled + 1 \in 1..Len(history) /\ Handled' = Handled + 1
      /\ Head(events) = history[Handled + 1]
  <2>1. PICK n \in Nat : n = Len(history)
    BY <1>3
  <2>2. PICK m \in Nat : m = Len(events)
    BY <1>2
  <2>3. m > 0 /\ m <= n /\ events[1] = history[(n - m) + 1] /\ Handled = n - m
    BY <1>2, <1>3, <2>1, <2>2 DEF Handled
  <2>4. Len(history') = n /\ Len(events') = m - 1
    BY <1>1, <1>2, <2>1, <2>2
  <2>5. Handled' = n - (m - 1)
    BY <2>4 DEF Handled
  <2> QED
    BY <1>2, <2>1, <2>3, <2>5
<1>5. QueueOK(history, events')
  <2>1. ASSUME NEW k \in DOMAIN events'
        PROVE  events'[k] = history[(Len(history) - Len(events')) + k]
    <3>1. k \in Nat /\ k + 1 \in DOMAIN events /\ events'[k] = events[k + 1]
      BY <1>2
    <3>2. (Len(history) - Len(events)) + (k + 1) = (Len(history) - Len(events')) + k
      BY <1>2, <1>3, <3>1
    <3> QED
      BY <1>3, <3>1, <3>2
  <2> QED
    BY <1>2, <1>3, <2>1 DEF QueueOK
<1> QED
  BY <1>2, <1>4, <1>5 DEF NextEvent

LEMMA HandledStep ==
  ASSUME Inv, NEW type, NextEvent(type), row' \in RowType,
         assigned' \in Seq(Events), Len(assigned') <= 1,
         ViewOK(history, Handled + 1, row', assigned')
  PROVE  Inv'
<1>1. TypeOK'
  BY EventTaken DEF Inv, TypeOK, RowType
<1>2. \A u \in Users : FormOK(history, Handled + 1, forms[u])
  BY EventTaken DEF Inv, FormOK
<1> QED
  BY <1>1, <1>2, EventTaken DEF Inv

LEMMA RowParts ==
  ASSUME Inv
  PROVE  /\ row \in RowType /\ ViewOK(history, Handled, row, assigned)
         /\ << >> \in Seq(Events) /\ Len(<< >>) = 0
  BY TypeParts DEF Inv

LEMMA ItemCreatedStep == Inv /\ ItemCreated => Inv'
<1> SUFFICES ASSUME Inv, ItemCreated PROVE Inv'
  OBVIOUS
<1> DEFINE e == Head(events)
<1>1. NextEvent("created") /\ assigned' = assigned
      /\ row' = [listed |-> TRUE, fields |-> e.sets, version |-> e.version]
  BY DEF ItemCreated
<1>2. /\ Handled \in Nat /\ Handled + 1 \in 1..Len(history)
      /\ e = history[Handled + 1] /\ e.type = "created" /\ assigned = << >> /\ e \in Events
      /\ history \in Seq(Events) /\ DOMAIN history = 1..Len(history) /\ history # << >>
  BY <1>1, EventTaken, TypeParts DEF Inv
<1>3. Handled = 0 /\ e = history[1] /\ e.version = 2 /\ e.sets \in Content
  <2>1. Handled + 1 = 1
    BY <1>2 DEF Inv, HistoryOK
  <2>2. Handled = 0
    BY <1>2, <2>1
  <2> QED
    BY <1>2, <2>1, <2>2 DEF Inv, HistoryOK
<1>4. row' \in RowType /\ row'.listed = TRUE /\ row'.fields = e.sets /\ row'.version = 2
  BY <1>1, <1>3 DEF RowType
<1>5. Says(history, 1, e.sets) /\ Versioned(history, 1, 2)
  BY <1>2, <1>3, SaysFirst DEF Versioned
<1>6. \A k \in 1..1 : history[k].type # "deleted"
  BY <1>2, <1>3
<1>7. ViewOK(history, 1, row', << >>)
  BY <1>3, <1>4, <1>5, <1>6 DEF ViewOK
<1>8. ViewOK(history, Handled + 1, row', assigned')
  <2>1. Handled + 1 = 1 /\ assigned' = << >>
    BY <1>1, <1>2, <1>3
  <2> QED
    BY <1>7, <2>1
<1>9. assigned' \in Seq(Events) /\ Len(assigned') <= 1
  BY <1>1, <1>2, RowParts
<1> QED
  BY <1>1, <1>4, <1>8, <1>9, HandledStep

LEMMA ItemDeletedStep == Inv /\ ItemDeleted => Inv'
<1> SUFFICES ASSUME Inv, ItemDeleted PROVE Inv'
  OBVIOUS
<1> DEFINE n == Handled
<1>1. NextEvent("deleted") /\ assigned' = assigned
      /\ row' = [row EXCEPT !.listed = FALSE]
  BY DEF ItemDeleted
<1>2. /\ n \in Nat /\ n + 1 \in 1..Len(history)
      /\ history[n + 1].type = "deleted" /\ assigned = << >>
      /\ history \in Seq(Events) /\ DOMAIN history = 1..Len(history)
  BY <1>1, EventTaken, TypeParts DEF Inv
<1>3. row \in RowType /\ ViewOK(history, n, row, << >>)
  BY <1>2, RowParts
<1>4. /\ row' \in RowType /\ row'.listed = FALSE
      /\ row'.fields = row.fields /\ row'.version = row.version
  BY <1>1, <1>3 DEF RowType
<1> HIDE DEF n
<1>5. n # 0
  <2>1. n + 1 # 1
    BY <1>2 DEF Inv, HistoryOK
  <2> QED
    BY <2>1
<1>6. row.fields \in Content /\ Versioned(history, n + 1, row.version)
  BY <1>2, <1>3, <1>5 DEF ViewOK, Versioned
<1>7. n + 1 \in 1..(n + 1) /\ n + 1 > 0
  BY <1>2
<1>8. ViewOK(history, n + 1, row', << >>)
  BY <1>2, <1>4, <1>6, <1>7 DEF ViewOK
<1>9. ViewOK(history, Handled + 1, row', assigned')
  BY <1>1, <1>2, <1>8 DEF n
<1>10. assigned' \in Seq(Events) /\ Len(assigned') <= 1
  BY <1>1, <1>2, RowParts
<1> QED
  BY <1>1, <1>4, <1>9, <1>10, HandledStep

LEMMA ItemChangedStep == Inv /\ ItemChanged => Inv'
<1> SUFFICES ASSUME Inv, ItemChanged PROVE Inv'
  OBVIOUS
<1> DEFINE n == Handled
           e == Head(events)
<1>1. NextEvent("changed")
  BY DEF ItemChanged
<1>2. /\ n \in Nat /\ n + 1 \in 1..Len(history)
      /\ e = history[n + 1] /\ e.type = "changed" /\ e \in Events /\ assigned = << >>
      /\ history \in Seq(Events) /\ DOMAIN history = 1..Len(history)
  BY <1>1, EventTaken, TypeParts DEF Inv
<1>3. row \in RowType /\ ViewOK(history, n, row, << >>)
  BY <1>2, RowParts
<1>4. e.version = n + 2 /\ e.sets \in Partial /\ history[n + 1].sets \in Partial
  <2>1. e.sets \in Partial
    BY <1>2 DEF Events
  <2>2. history[n + 1].version = (n + 1) + 1
    BY <1>2 DEF Inv, HistoryOK
  <2> QED
    BY <1>2, <2>1, <2>2
<1>5. n # 0
  <2>1. n + 1 # 1
    BY <1>2 DEF Inv, HistoryOK
  <2> QED
    BY <2>1
<1>6. \A k \in 1..(n + 1) : k \in 1..n \/ k = n + 1
  BY <1>2
<1>7. row.fields \in Content /\ Versioned(history, n + 1, row.version)
  BY <1>2, <1>3, <1>5 DEF ViewOK, Versioned
<1>8. row.listed <=> \A k \in 1..(n + 1) : history[k].type # "deleted"
  <2>1. row.listed <=> \A k \in 1..n : history[k].type # "deleted"
    BY <1>2, <1>3, <1>5 DEF ViewOK
  <2>2. \A k \in 1..n : k \in 1..(n + 1)
    BY <1>2
  <2> QED
    BY <1>2, <1>6, <2>1, <2>2
<1>9. ASSUME row.listed
      PROVE  Says(history, n + 1, Overwritten(row.fields, e.sets))
  <2>1. Says(history, n, row.fields)
    BY <1>3, <1>9 DEF ViewOK
  <2> QED
    BY <1>2, <1>4, <2>1, SaysNext
<1>10. Overwritten(row.fields, e.sets) \in Content
  BY <1>4, <1>7, ContentIsPartial, OverwrittenType
<1> HIDE DEF n, e
<1>11. CASE ~row.listed
  <2>1. row' = row /\ assigned' = << >>
    BY <1>2, <1>11 DEF ItemChanged
  <2>2. ViewOK(history, n + 1, row', << >>)
    BY <1>2, <1>7, <1>8, <1>11, <2>1 DEF ViewOK
  <2> QED
    BY <1>1, <1>3, <2>1, <2>2, RowParts, HandledStep DEF n
<1>12. CASE row.listed /\ SharedRows
  <2>1. row' = [row EXCEPT !.fields = Overwritten(@, e.sets)] /\ assigned' = << e >>
    BY <1>12 DEF ItemChanged, e
  <2>2. /\ row' \in RowType /\ row'.listed = TRUE
        /\ row'.fields = Overwritten(row.fields, e.sets) /\ row'.version = row.version
    BY <1>3, <1>10, <1>12, <2>1 DEF RowType
  <2>3. assigned' \in Seq(Events) /\ Len(assigned') <= 1 /\ assigned' # << >> /\ assigned'[1] = e
    BY <1>2, <2>1
  <2>4. ViewOK(history, n + 1, row', assigned')
    BY <1>2, <1>5, <1>7, <1>8, <1>9, <1>10, <1>12, <2>2, <2>3 DEF ViewOK
  <2> QED
    BY <1>1, <2>2, <2>3, <2>4, HandledStep DEF n
<1>13. CASE row.listed /\ ~SharedRows
  <2>1. /\ row' = [row EXCEPT !.fields = Overwritten(@, e.sets), !.version = e.version]
        /\ assigned' = << >>
    BY <1>2, <1>13 DEF ItemChanged, e
  <2>2. /\ row' \in RowType /\ row'.listed = TRUE
        /\ row'.fields = Overwritten(row.fields, e.sets) /\ row'.version = n + 2
    <3>1. n + 2 \in Nat /\ e.version = n + 2
      BY <1>2, <1>4
    <3> QED
      BY <1>3, <1>10, <1>13, <2>1, <3>1 DEF RowType
  <2>3. Versioned(history, n + 1, n + 2)
    BY <1>2 DEF Versioned
  <2>4. ViewOK(history, n + 1, row', << >>)
    BY <1>2, <1>8, <1>9, <1>10, <1>13, <2>2, <2>3 DEF ViewOK
  <2> QED
    BY <1>1, <2>1, <2>2, <2>4, RowParts, HandledStep DEF n
<1> QED
  BY <1>11, <1>12, <1>13

LEMMA SetVersionStep == Inv /\ SetVersion => Inv'
<1> SUFFICES ASSUME Inv, SetVersion PROVE Inv'
  OBVIOUS
<1> DEFINE n == Handled
           e == Head(assigned)
<1>1. /\ assigned # << >> /\ assigned' = << >>
      /\ row' = [row EXCEPT !.version = e.version]
      /\ UNCHANGED << history, commands, events, forms, posted >>
  BY DEF SetVersion
<1>2. /\ history \in Seq(Events) /\ DOMAIN history = 1..Len(history) /\ Len(history) \in Nat
      /\ assigned \in Seq(Events)
  BY TypeParts DEF Inv
<1>3. e = assigned[1]
  BY <1>1, <1>2, Shortened
<1>4. row \in RowType /\ ViewOK(history, n, row, assigned)
  BY RowParts
<1>5. /\ row.listed /\ n > 1 /\ e = history[n]
  BY <1>1, <1>3, <1>4 DEF ViewOK
<1>6. n \in 1..Len(history)
  <2>1. n \in 0..Len(history)
    <3>1. events \in Seq(Events) /\ QueueOK(history, events)
      BY TypeParts DEF Inv
    <3> QED
      BY <1>2, <3>1, EmptySequence, QueueLater DEF Handled
  <2> QED
    BY <1>2, <1>5, <2>1
<1>7. e.version = n + 1
  BY <1>2, <1>5, <1>6 DEF Inv, HistoryOK
<1>8. /\ row' \in RowType /\ row'.listed = TRUE
      /\ row'.fields = row.fields /\ row'.version = n + 1
  BY <1>1, <1>4, <1>5, <1>6, <1>7 DEF RowType
<1> HIDE DEF n, e
<1>9. /\ row.fields \in Content /\ Says(history, n, row.fields)
      /\ \A k \in 1..n : history[k].type # "deleted"
  BY <1>4, <1>5, <1>6 DEF ViewOK
<1>10. Versioned(history, n, n + 1)
  BY <1>6, <1>9 DEF Versioned
<1>11. ViewOK(history, n, row', << >>)
  BY <1>6, <1>8, <1>9, <1>10 DEF ViewOK
<1>12. TypeOK'
  BY <1>1, <1>8, RowParts DEF Inv, TypeOK, RowType
<1>13. Handled' = n
  BY <1>1 DEF Handled, n
<1> QED
  BY <1>1, <1>11, <1>12, <1>13 DEF Inv, n

-----------------------------------------------------------------------------
(***************************************************************************)
(* The pages.                                                              *)
(***************************************************************************)
LEMMA ListedRow ==
  ASSUME Inv, row.listed \/ Handled > 0
  PROVE  /\ Handled \in 1..Len(history) /\ Len(history) \in Nat /\ history # << >>
         /\ row \in RowType /\ row.fields \in Content /\ row.version \in Nat
         /\ Versioned(history, Len(history), row.version)
         /\ row.listed /\ ~SharedRows => Says(history, row.version - 1, row.fields)
<1>1. /\ history \in Seq(Events) /\ events \in Seq(Events) /\ QueueOK(history, events)
      /\ Len(history) \in Nat
  BY TypeParts DEF Inv
<1>2. Handled \in 0..Len(history)
  BY <1>1, EmptySequence, QueueLater DEF Handled
<1>3. row \in RowType /\ ViewOK(history, Handled, row, assigned)
  BY RowParts
<1>4. PICK n : n = Handled
  OBVIOUS
<1>5. n \in 1..Len(history)
  BY <1>1, <1>2, <1>3, <1>4 DEF ViewOK
<1>6. row.fields \in Content /\ Versioned(history, n, row.version)
  BY <1>3, <1>4, <1>5 DEF ViewOK
<1>7. Versioned(history, Len(history), row.version)
  BY <1>1, <1>5, <1>6 DEF Versioned
<1>8. ASSUME row.listed, ~SharedRows
      PROVE  Says(history, row.version - 1, row.fields)
  <2>1. Says(history, n, row.fields) /\ row.version = n + 1
    BY <1>3, <1>4, <1>8 DEF ViewOK
  <2>2. row.version - 1 = n
    BY <1>5, <2>1
  <2> QED
    BY <2>1, <2>2
<1>9. history # << >>
  BY <1>1, <1>5
<1> QED
  BY <1>1, <1>3, <1>4, <1>5, <1>6, <1>7, <1>8, <1>9 DEF RowType

LEMMA OpenEditStep ==
  ASSUME Inv, NEW u \in Users, OpenEdit(u)
  PROVE  Inv'
<1> DEFINE reading == [Closed EXCEPT !.phase = "reading"]
           open == [phase |-> "open", shown |-> row.fields, version |-> row.version]
<1>1. row.listed
  BY DEF OpenEdit
<1>2. CASE SharedRows
  <2>1. forms' = [forms EXCEPT ![u] = reading]
    BY <1>2 DEF OpenEdit
  <2>2. reading \in FormType /\ reading.phase = "reading"
    BY EmptyIsPartial DEF Closed, FormType
  <2>3. FormOK(history, Handled, reading)
    BY <1>1, <1>2, <2>2, ListedRow DEF FormOK
  <2> HIDE DEF reading
  <2> QED
    BY <2>1, <2>2, <2>3, PageStep DEF OpenEdit
<1>3. CASE ~SharedRows
  <2>1. forms' = [forms EXCEPT ![u] = open]
    BY <1>3 DEF OpenEdit
  <2>2. open \in FormType
    BY <1>1, ListedRow, ContentIsPartial DEF FormType
  <2>3. FormOK(history, Handled, open)
    BY <1>1, <1>3, ListedRow DEF FormOK, Seen
  <2> HIDE DEF open
  <2> QED
    BY <2>1, <2>2, <2>3, PageStep DEF OpenEdit
<1> QED
  BY <1>2, <1>3

LEMMA ReadFieldStep ==
  ASSUME Inv, NEW u \in Users, NEW f \in Fields, ReadField(u, f)
  PROVE  Inv'
<1> DEFINE x == [forms[u] EXCEPT !.shown = Overwritten(@, Only(f, row.fields[f]))]
<1>1. forms[u] \in FormType /\ forms[u].phase = "reading" /\ FormOK(history, Handled, forms[u])
  BY TypeParts DEF Inv, ReadField
<1>2. Handled > 0 /\ SharedRows
  BY <1>1 DEF FormOK
<1>3. Only(f, row.fields[f]) \in Partial
  BY <1>2, ListedRow, OnlyType DEF Content
<1>4. forms[u].shown \in Partial
  BY <1>1 DEF FormType
<1>5. Overwritten(forms[u].shown, Only(f, row.fields[f])) \in Partial
  BY <1>3, <1>4, OverwrittenType
<1>6. x \in FormType /\ x.phase = "reading"
  BY <1>1, <1>5 DEF FormType
<1>7. forms' = [forms EXCEPT ![u] = x]
  BY TypeParts DEF ReadField, Inv
<1>8. FormOK(history, Handled, x)
  BY <1>2, <1>6 DEF FormOK
<1> HIDE DEF x
<1> QED
  BY <1>6, <1>7, <1>8, PageStep DEF ReadField

LEMMA ReadVersionStep ==
  ASSUME Inv, NEW u \in Users, ReadVersion(u)
  PROVE  Inv'
<1> DEFINE x == [forms[u] EXCEPT !.phase = "open", !.version = row.version]
<1>1. /\ forms[u] \in FormType /\ forms[u].phase = "reading"
      /\ DOMAIN forms[u].shown = Fields /\ FormOK(history, Handled, forms[u])
  BY TypeParts DEF Inv, ReadVersion
<1>2. Handled > 0 /\ SharedRows
  BY <1>1 DEF FormOK
<1>3. row.version \in Nat /\ Versioned(history, Len(history), row.version)
  BY <1>2, ListedRow
<1>4. forms[u].shown \in Content
  <2>1. forms[u].shown \in Partial
    BY <1>1 DEF FormType
  <2> QED
    BY <1>1, <2>1, Partiality DEF Content
<1>5. /\ x \in FormType /\ x.phase = "open" /\ x.version = row.version
      /\ x.shown = forms[u].shown
  BY <1>1, <1>3 DEF FormType
<1>6. forms' = [forms EXCEPT ![u] = x]
  BY TypeParts DEF ReadVersion, Inv
<1>7. FormOK(history, Handled, x)
  BY <1>2, <1>3, <1>4, <1>5 DEF FormOK, Seen
<1> HIDE DEF x
<1> QED
  BY <1>5, <1>6, <1>7, PageStep DEF ReadVersion

LEMMA AddStep ==
  ASSUME Inv, NEW fields \in Content, Add(fields)
  PROVE  Inv'
<1> DEFINE c == Command("create", fields, Closed)
<1>1. c.type = "create" /\ CommandTypeOK(c)
  BY ContentIsPartial, EmptyIsPartial DEF Command, Closed, CommandTypeOK, Posted
<1>2. CommandOK(history, c)
  BY <1>1 DEF CommandOK
<1> HIDE DEF c
<1> QED
  BY <1>1, <1>2, PostStep DEF Add, c

LEMMA PostEditStep ==
  ASSUME Inv, NEW u \in Users, NEW fields \in Content, PostEdit(u, fields)
  PROVE  Inv'
<1> DEFINE c == Command("change", fields, forms[u])
<1>1. forms[u] \in FormType /\ forms[u].phase = "open" /\ FormOK(history, Handled, forms[u])
  BY TypeParts DEF Inv, PostEdit
<1>2. Seen(history, forms[u].version, forms[u].shown) /\ forms[u].shown \in Content
  BY <1>1 DEF FormOK
<1>3. /\ c.type = "change" /\ c.version = forms[u].version /\ c.shown = forms[u].shown
      /\ CommandTypeOK(c)
  BY <1>1, <1>2, ContentIsPartial DEF Command, CommandTypeOK, Posted, FormType
<1>4. history # << >>
  <2>1. history \in Seq(Events) /\ Versioned(history, Len(history), forms[u].version)
    BY <1>2, TypeParts DEF Inv, Seen
  <2> QED
    BY <2>1 DEF Versioned
<1>5. CommandOK(history, c)
  BY <1>2, <1>3, <1>4 DEF CommandOK
<1> HIDE DEF c
<1> QED
  BY <1>3, <1>5, PostStep DEF PostEdit, c

LEMMA ClickDeleteStep == Inv /\ ClickDelete => Inv'
<1> SUFFICES ASSUME Inv, ClickDelete PROVE Inv'
  OBVIOUS
<1> DEFINE c == Command("delete", << >>, Closed)
<1>1. c.type = "delete" /\ CommandTypeOK(c)
  BY EmptyIsPartial DEF Command, Closed, CommandTypeOK, Posted
<1>2. CommandOK(history, c)
  BY <1>1, ListedRow DEF CommandOK, ClickDelete
<1> HIDE DEF c
<1> QED
  BY <1>1, <1>2, PostStep DEF ClickDelete, c

LEMMA UnchangedStep == Inv /\ UNCHANGED vars => Inv'
<1> SUFFICES ASSUME Inv, UNCHANGED vars PROVE Inv'
  OBVIOUS
<1>1. TypeOK'
  BY DEF Inv, TypeOK, vars
<1> QED
  BY <1>1 DEF Inv, vars, Handled

LEMMA NextInv == Inv /\ [Next]_vars => Inv'
<1> SUFFICES ASSUME Inv, [Next]_vars PROVE Inv'
  OBVIOUS
<1>1. CASE Pages
  BY <1>1, AddStep, OpenEditStep, ReadFieldStep, ReadVersionStep, PostEditStep, ClickDeleteStep
     DEF Pages
<1>2. CASE Runner
  BY <1>2, CreateStep, ChangeStep, DeleteStep, ItemCreatedStep, ItemChangedStep,
     SetVersionStep, ItemDeletedStep
     DEF Runner
<1>3. CASE UNCHANGED vars
  BY <1>3, UnchangedStep
<1> QED
  BY <1>1, <1>2, <1>3 DEF Next

LEMMA Invariance == Spec => []Inv
  BY InitInv, NextInv, PTL DEF Spec

-----------------------------------------------------------------------------
(***************************************************************************)
(* The theorems.                                                           *)
(***************************************************************************)

(***************************************************************************)
(* Variables have their types; a posted change carries a whole form.       *)
(***************************************************************************)
THEOREM TypeCorrectness == Spec => []TypeOK
<1>1. Inv => TypeOK
  BY DEF Inv
<1> QED
  BY <1>1, Invariance, PTL

(***************************************************************************)
(* Nothing but another deletion is stored after a deletion, on either      *)
(* stack: no page ever shows the version that a deletion was stored with.  *)
(***************************************************************************)
THEOREM DeletionIsLast == Spec => []DeletedStaysDeleted
<1>1. Inv => DeletedStaysDeleted
  BY DEF Inv, HistoryOK, DeletedStaysDeleted
<1> QED
  BY <1>1, Invariance, PTL

LEMMA HistoryMeans ==
  ASSUME Inv, history # << >>
  PROVE  /\ history \in Seq(Events) /\ Len(history) \in Nat /\ DOMAIN history = 1..Len(history)
         /\ history[1].sets \in Content
         /\ Says(history, Len(history), Meaning(history))
<1>1. history \in Seq(Events) /\ history[1].sets \in Content
  BY TypeParts DEF Inv, HistoryOK
<1> QED
  BY <1>1, ReplayIsMeaning

(***************************************************************************)
(* When no event is left to handle, the view shows what the history says,  *)
(* on either stack and whatever pages were posted in which order.          *)
(***************************************************************************)
THEOREM ViewIsUpToDate == Spec => []ViewFollowsHistory
<1>1. ASSUME Inv, history # << >>, events = << >>, assigned = << >>
      PROVE  /\ row.listed = ~Deleted
             /\ ~Deleted => /\ row.fields = Meaning(history)
                            /\ row.version = Last(history).version
  <2> DEFINE n == Len(history)
  <2>1. /\ n \in 1..n /\ n > 0 /\ n \in Nat /\ DOMAIN history = 1..n
        /\ Last(history).version = n + 1
    BY <1>1, LastVersion
  <2>2. Handled = n
    BY <1>1, <2>1 DEF Handled
  <2>3. row \in RowType /\ ViewOK(history, n, row, << >>)
    BY <1>1, <2>2, RowParts
  <2>4. row.listed <=> ~Deleted
    BY <2>1, <2>3 DEF ViewOK, Deleted
  <2>5. row.listed \in BOOLEAN
    BY <2>3 DEF RowType
  <2>6. ASSUME row.listed
        PROVE  row.fields = Meaning(history) /\ row.version = n + 1
    <3>1. Says(history, n, row.fields) /\ row.version = n + 1
      BY <2>3, <2>6 DEF ViewOK
    <3>2. Says(history, n, Meaning(history))
      BY <1>1, HistoryMeans
    <3> QED
      BY <2>1, <3>1, <3>2, SaysOne
  <2>7. row.listed = ~Deleted
    BY <2>4, <2>5, Zenon DEF Deleted
  <2> QED
    BY <2>1, <2>4, <2>6, <2>7
<1>2. Inv => ViewFollowsHistory
  BY <1>1 DEF ViewFollowsHistory
<1> QED
  BY <1>2, Invariance, PTL

(***************************************************************************)
(* With the events in the order of the saves (InProcessEventStore), the    *)
(* aggregate a handler works on is the one the history describes.          *)
(***************************************************************************)
THEOREM ReplayIsFaithful ==
  ASSUME ~NewestFirst
  PROVE  Spec => []ReplayRebuildsState
<1>1. ASSUME Inv, history # << >>
      PROVE  Loaded = Meaning(history)
  <2>1. Loaded = Replayed(history)
    BY DEF Loaded, Returned
  <2> QED
    BY <1>1, <2>1, HistoryMeans, ReplayIsMeaning
<1>2. Inv => ReplayRebuildsState
  BY <1>1 DEF ReplayRebuildsState
<1> QED
  BY <1>2, Invariance, PTL

(***************************************************************************)
(* A deletion is never refused: DeleteItem counts the events it has loaded, *)
(* in whichever order, and arrives at the version of the last one.         *)
(***************************************************************************)
THEOREM DeletionIsAccepted == Spec => DeleteIsNeverRefused
<1>1. ASSUME Inv, DeleteItem
      PROVE  Last(history').type = "deleted" /\ Len(history') > Len(history)
  <2> DEFINE n == Len(history)
             e == 1 + n
             changes == << Event("deleted", << >>) >>
  <2>1. NextCommand("delete") /\ Save(changes, e)
    BY <1>1, ReturnedLength DEF DeleteItem
  <2>2. history # << >>
    BY <1>1, <2>1, CommandTaken DEF CommandOK
  <2>3. n \in Nat /\ history \in Seq(Events) /\ Accepts(e)
    BY <1>1, <2>2, LastVersion, HistoryMeans DEF Accepts
  <2>4. history' = history \o Saved(changes, e)
    BY <2>1, <2>3 DEF Save, Saved
  <2>5. changes \in Seq(Unnumbered) /\ Len(changes) = 1 /\ DOMAIN changes = {1}
        /\ changes[1].type = "deleted"
    BY EmptyIsPartial DEF Event, Unnumbered
  <2> HIDE DEF changes, n
  <2>6. PICK s \in Seq(Events) : s = Saved(changes, e) /\ Len(s) = 1 /\ s[1].type = "deleted"
    BY <2>3, <2>5, Numbering DEF n
  <2>7. Len(history') = n + 1 /\ history'[n + 1] = s[1]
    <3>1. PICK h \in Seq(Events) : h = history
      BY <2>3
    <3>2. 1 \in 1..Len(s) /\ Len(h) = n
      BY <2>6, <3>1 DEF n
    <3>3. /\ Len(h \o s) = Len(h) + Len(s)
          /\ \A k \in 1..Len(s) : (h \o s)[Len(h) + k] = s[k]
      BY Joined
    <3>4. Len(h \o s) = n + 1
      BY <2>6, <3>2, <3>3
    <3>5. (h \o s)[n + 1] = s[1]
      BY <3>2, <3>3
    <3> QED
      BY <2>4, <2>6, <3>1, <3>4, <3>5
  <2> QED
    BY <2>3, <2>6, <2>7 DEF Last, n
<1>2. Inv /\ [Next]_vars =>
        [DeleteItem => Last(history').type = "deleted" /\ Len(history') > Len(history)]_vars
  BY <1>1
<1> QED
  BY <1>2, Invariance, PTL DEF Spec, DeleteIsNeverRefused

(***************************************************************************)
(* A change that is stored comes from a page that showed the item as it    *)
(* is now, when pages read a copy of the row (DapperRepository).           *)
(***************************************************************************)
THEOREM NothingUnseenIsOverwritten ==
  ASSUME ~SharedRows
  PROVE  Spec => AcceptedEditSawLatest
<1>1. ASSUME Inv, ChangeItem, history' # history
      PROVE  Head(commands).shown = Meaning(history)
  <2> DEFINE c == Head(commands)
             n == Len(history)
  <2>1. Accepts(c.version)
    BY <1>1 DEF ChangeItem, Save
  <2>2. history # << >> /\ Seen(history, n + 1, c.shown)
    BY <1>1, <2>1, AcceptedChange
  <2>3. n \in Nat /\ Says(history, n, Meaning(history))
    BY <1>1, <2>2, HistoryMeans
  <2>4. Says(history, (n + 1) - 1, c.shown) /\ (n + 1) - 1 = n
    BY <2>2, <2>3 DEF Seen
  <2> QED
    BY <2>3, <2>4, SaysOne
<1>2. Inv /\ [Next]_vars =>
        [ChangeItem /\ history' # history => Head(commands).shown = Meaning(history)]_vars
  BY <1>1
<1> QED
  BY <1>2, Invariance, PTL DEF Spec, AcceptedEditSawLatest

\* The events of a change, stored after history h, make it say the form.
LEMMA ChangesSayTheForm ==
  ASSUME NEW h \in Seq(Events), h # << >>, h[1].sets \in Content, Says(h, Len(h), Loaded),
         NEW fields \in Content, NEW e \in Nat
  PROVE  Meaning(h \o Saved(Changes(fields), e)) = fields
<1>1. PICK changes : changes = Changes(fields)
  OBVIOUS
<1>2. changes \in Seq(Unnumbered)
  BY <1>1, ChangesType
<1>3. PICK s \in Seq(Events) : s = Saved(changes, e)
  BY <1>2, Numbering
<1>4. /\ DOMAIN s = 1..Len(s) /\ Len(s) \in Nat /\ DOMAIN s = DOMAIN changes
      /\ \A k \in DOMAIN s : s[k].sets = changes[k].sets
  BY <1>2, <1>3, Numbering
<1>5. \A k \in DOMAIN s : \E f \in Fields : s[k].sets = Only(f, fields[f])
  BY <1>1, <1>4, ChangesType
<1>6. \A f \in Fields : Loaded[f] # fields[f] =>
        \E k \in DOMAIN s : s[k].sets = Only(f, fields[f])
  <2>1. \A f \in Fields : Loaded[f] # fields[f] =>
          \E k \in DOMAIN changes : changes[k] = ChangeOf(f, fields)
    BY <1>1, ChangesAreDifferences
  <2>2. \A f \in Fields : ChangeOf(f, fields).sets = Only(f, fields[f])
    BY DEF ChangeOf, Event
  <2> QED
    BY <1>4, <2>1, <2>2
<1>7. PICK n \in Nat : n = Len(h) /\ n > 0
  OBVIOUS
<1>8. PICK g : g = h \o s
  OBVIOUS
<1>9. /\ g \in Seq(Events) /\ g # << >> /\ Len(g) = n + Len(s)
      /\ \A k \in 1..n : g[k] = h[k]
      /\ \A k \in 1..Len(s) : g[n + k] = s[k]
      /\ \A k \in 1..(n + Len(s)) : k \in 1..n \/ k - n \in 1..Len(s)
  BY <1>7, <1>8, Joined
<1>10. g[1].sets \in Content
  BY <1>7, <1>9
<1>11. Says(g, Len(g), Meaning(g))
  BY <1>9, <1>10, ReplayIsMeaning
<1>12. ASSUME NEW f \in Fields
       PROVE  Meaning(g)[f] = fields[f]
  <2>1. PICK k \in 1..Len(g) : /\ IsLastAbout(f, g, Len(g), k)
                               /\ Meaning(g)[f] = g[k].sets[f]
    BY <1>11 DEF Says
  <2>2. CASE k \in 1..n
    <3>1. ASSUME NEW i \in DOMAIN s
          PROVE  f \notin DOMAIN s[i].sets
      <4>1. i \in 1..Len(s) /\ n + i \in (k + 1)..Len(g)
        BY <1>4, <1>9, <2>2
      <4>2. f \notin DOMAIN g[n + i].sets
        BY <2>1, <4>1 DEF IsLastAbout
      <4> QED
        BY <1>9, <4>1, <4>2
    <3>2. Loaded[f] = fields[f]
      <4>1. f \in DOMAIN Only(f, fields[f])
        BY DEF Only
      <4> QED
        BY <1>6, <3>1, <4>1
    <3>3. PICK j \in 1..n : IsLastAbout(f, h, n, j) /\ Loaded[f] = h[j].sets[f]
      BY <1>7 DEF Says
    <3>4. j \in 1..Len(g) /\ f \in DOMAIN g[j].sets /\ g[j] = h[j] /\ g[k] = h[k]
      BY <1>4, <1>9, <2>2, <3>3 DEF IsLastAbout
    <3>5. ~(k < j)
      BY <1>9, <2>1, <3>4 DEF IsLastAbout
    <3>6. ~(j < k)
      <4>1. f \in DOMAIN h[k].sets
        BY <2>1, <3>4 DEF IsLastAbout
      <4>2. j < k => k \in (j + 1)..n
        BY <1>7, <2>2
      <4> QED
        BY <3>3, <4>1, <4>2 DEF IsLastAbout
    <3>7. j = k
      BY <3>5, <3>6
    <3> QED
      BY <2>1, <3>2, <3>3, <3>4, <3>7
  <2>3. CASE k \notin 1..n
    <3>1. PICK i \in 1..Len(s) : k = n + i
      <4>1. k - n \in 1..Len(s) /\ k = n + (k - n)
        BY <1>9, <2>3
      <4> QED
        BY <4>1
    <3>2. PICK x \in Fields : s[i].sets = Only(x, fields[x])
      BY <1>4, <1>5
    <3>3. g[k].sets = Only(x, fields[x])
      BY <1>9, <3>1, <3>2
    <3>4. f = x
      BY <2>1, <3>3 DEF IsLastAbout, Only
    <3> QED
      BY <2>1, <3>3, <3>4 DEF Only
  <2> QED
    BY <2>2, <2>3
<1>13. Meaning(g) = fields
  BY <1>11, <1>12 DEF Says, Content
<1> QED
  BY <1>1, <1>3, <1>8, <1>13

(***************************************************************************)
(* A change that expects the latest version leaves the item as posted,     *)
(* with the events in the order of the saves (InProcessEventStore).        *)
(***************************************************************************)
THEOREM EditIsStored ==
  ASSUME ~NewestFirst
  PROVE  Spec => EditTakesEffect
<1>1. ASSUME Inv, ChangeItem, Last(history).version = Head(commands).version
      PROVE  Meaning(history') = Head(commands).fields
  <2> DEFINE c == Head(commands)
  <2>1. Accepts(c.version)
    BY <1>1 DEF Accepts
  <2>2. history # << >>
    BY <1>1, <2>1, AcceptedChange
  <2>3. NextCommand("change") /\ c.fields \in Content /\ c.version \in Nat
    BY <1>1, CommandTaken DEF ChangeItem, CommandTypeOK, Posted
  <2>4. /\ history \in Seq(Events) /\ history[1].sets \in Content
        /\ Says(history, Len(history), Meaning(history))
    BY <1>1, <2>2, HistoryMeans
  <2>5. Loaded = Meaning(history)
    BY <2>2, <2>4, ReplayIsMeaning DEF Loaded, Returned
  <2>6. Says(history, Len(history), Loaded)
    BY <2>4, <2>5
  <2>7. history' = history \o Saved(Changes(c.fields), c.version)
    BY <1>1, <2>1 DEF ChangeItem, Save, Saved
  <2>8. Meaning(history \o Saved(Changes(c.fields), c.version)) = c.fields
    BY <2>2, <2>3, <2>4, <2>6, ChangesSayTheForm
  <2> QED
    BY <2>7, <2>8
<1>2. Inv /\ [Next]_vars =>
        [ChangeItem /\ Last(history).version = Head(commands).version
           => Meaning(history') = Head(commands).fields]_vars
  BY <1>1
<1> QED
  BY <1>2, Invariance, PTL DEF Spec, EditTakesEffect
=============================================================================
