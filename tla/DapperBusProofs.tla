-------------------------- MODULE DapperBusProofs ---------------------------
(***************************************************************************)
(* Proofs about DapperBus, for every set of servers, workers and queues    *)
(* and every bound.                                                        *)
(***************************************************************************)
EXTENDS DapperBus, FiniteSetTheorems, FunctionTheorems, TLAPS

USE BusAssumption

(***************************************************************************)
(* What the field _running achieves: one tick of a server at a time.       *)
(***************************************************************************)
OneTick ==
  \A w \in Workers : worker[w] # Idle =>
    /\ running[Home[w]]
    /\ \A v \in Workers : v # w /\ Home[v] = Home[w] => worker[v] = Idle

Deliveries == [msg : Ids, by : Handlers, to : SUBSET Subscribers]

WasDelivered(m) ==
  \E k \in DOMAIN delivered :
    /\ delivered[k].msg = m
    /\ m \notin exposed => delivered[k].to = SubscribersOf(messages[m].queue)

\* While a message waits that no start has met, every server is ready.
ExposedOK ==
  \A m \in Ids :
    m \in exposed \/ messages[m].elaborated \/ \A s \in Servers : Ready(s)

\* A message is marked and given back after it was delivered.
BatchOK ==
  \A w \in Workers :
    /\ worker[w].phase \in {"scanning", "fetching"} => worker[w].batch = << >>
    /\ worker[w].phase \in {"marking", "releasing"} => worker[w].batch # << >>
    /\ worker[w].phase = "marking" => WasDelivered(Head(worker[w].batch))

Inv == TypeOK /\ OneTick /\ BatchOK /\ ElaboratedWasDelivered /\ ExposedOK

-----------------------------------------------------------------------------
(***************************************************************************)
(* Sequences and records.                                                  *)
(***************************************************************************)
LEMMA SameDomain ==
  ASSUME NEW S, NEW s \in Seq(S), NEW f \in [DOMAIN s -> S]
  PROVE  f \in Seq(S) /\ DOMAIN f = DOMAIN s /\ Len(f) = Len(s)
  <1>1. DOMAIN s = 1..Len(s) /\ Len(s) \in Nat
    OBVIOUS
  <1> QED
    BY <1>1

LEMMA WiderSeq ==
  ASSUME NEW S, NEW T, S \subseteq T, NEW s \in Seq(S)
  PROVE  s \in Seq(T)
  OBVIOUS

LEMMA ElementsOf ==
  ASSUME NEW S, NEW s \in Seq(S)
  PROVE  \A k \in DOMAIN s : s[k] \in S
  OBVIOUS

LEMMA Appended ==
  ASSUME NEW S, NEW s \in Seq(S), NEW t \in Seq(S), NEW n \in Nat, Len(t) = n
  PROVE  /\ s \o t \in Seq(S)
         /\ DOMAIN (s \o t) = 1..(Len(s) + n)
         /\ \A m \in 1..Len(s) : (s \o t)[m] = s[m]
         /\ \A m \in (Len(s) + 1)..(Len(s) + n) :
              (s \o t)[m] = t[m - Len(s)] /\ m - Len(s) \in 1..n
  OBVIOUS

LEMMA ActiveTick ==
  ASSUME TypeOK, NEW w \in Workers,
         \/ worker[w] # Idle
         \/ worker[w].phase \in {"scanning", "fetching", "delivering", "marking", "releasing"}
  PROVE  worker[w] \in Tick /\ worker[w] # Idle /\ worker[w].phase # "idle"
  BY DEF TypeOK, Idle, Tick

\* The SELECT returns the rows, each once.
LEMMA SortedRows ==
  ASSUME TypeOK, NEW rows, rows \subseteq Ids, NEW s \in Sorted(rows)
  PROVE  /\ s \in Seq(Ids)
         /\ DOMAIN s = 1..Len(s)
         /\ \A k \in DOMAIN s : s[k] \in rows
         /\ \A j, k \in DOMAIN s : j < k => s[j] # s[k]
         /\ \A m \in rows : \E k \in DOMAIN s : s[k] = m
  <1> DEFINE n == Cardinality(rows)
  <1>1. IsFiniteSet(Ids)
    <2>1. Ids = 1..Len(messages) /\ Len(messages) \in Nat
      BY DEF TypeOK, Ids
    <2> QED
      BY <2>1, FS_Interval
  <1>2. IsFiniteSet(rows) /\ n \in Nat
    BY <1>1, FS_Subset, FS_CardinalityType
  <1>3. s \in [1..n -> rows] /\ \A j, k \in DOMAIN s : j < k => s[j] # s[k]
    BY DEF Sorted
  <1>4. s \in Seq(Ids) /\ DOMAIN s = 1..Len(s)
    <2>1. s \in [1..n -> Ids]
      BY <1>3
    <2> QED
      BY <2>1, <1>2
  <1>5. s \in Injection(1..n, rows)
    <2>1. \A j, k \in 1..n : s[j] = s[k] => j = k
      BY <1>2, <1>3
    <2> QED
      BY <1>3, <2>1, Fun_IsInj
  <1>6. Cardinality(1..n) = n
    BY <1>2, FS_Interval
  <1>7. s \in Surjection(1..n, rows)
    BY <1>2, <1>5, <1>6, FS_Injection
  <1>8. \A m \in rows : \E k \in 1..n : s[k] = m
    BY <1>7 DEF Surjection
  <1> QED
    BY <1>3, <1>4, <1>8

\* Rows are only ever added: what refers to a row goes on doing so.
LEMMA MoreRows ==
  ASSUME TypeOK, Ids \subseteq Ids'
  PROVE  /\ worker \in [Workers -> ({Idle} \cup Tick)']
         /\ delivered \in Seq(Deliveries')
         /\ exposed \subseteq Ids'
  <1>1. Seq(Ids) \subseteq Seq(Ids')
    BY WiderSeq
  <1>2. Tick \subseteq Tick'
    BY <1>1 DEF Tick
  <1>3. Deliveries \subseteq Deliveries'
    BY DEF Deliveries, Handlers
  <1>4. worker \in [Workers -> {Idle} \cup Tick]
    BY DEF TypeOK
  <1>5. ({Idle} \cup Tick) \subseteq ({Idle} \cup Tick)'
    BY <1>2 DEF Idle
  <1>6. delivered \in Seq(Deliveries) /\ exposed \subseteq Ids
    BY DEF TypeOK, Deliveries
  <1> QED
    BY <1>3, <1>4, <1>5, <1>6, WiderSeq

LEMMA HandlersAreTyped ==
  ASSUME TypeOK, NEW s \in Servers
  PROVE  Handler(s) \in Handlers /\ starts[s] \in Nat
  BY DEF TypeOK, Handler, Handlers

\* A step of worker w that leaves the number of rows alone.
LEMMA WorkerStep ==
  ASSUME TypeOK, NEW w \in Workers, NEW x,
         messages' \in Seq(Message), DOMAIN messages' = DOMAIN messages,
         x \in {Idle} \cup Tick, worker' = [worker EXCEPT ![w] = x],
         running' \in [Servers -> BOOLEAN], starts' = starts,
         delivered' \in Seq(Deliveries), failures' \in 0..MaxFailures,
         UNCHANGED << queues, subscribed, exposed >>
  PROVE  TypeOK'
  <1>1. Ids' = Ids
    BY DEF Ids
  <1>2. Tick' = Tick
    BY <1>1 DEF Tick
  <1>3. worker' \in [Workers -> {Idle} \cup Tick]
    BY DEF TypeOK
  <1>4. starts' \in [Servers -> Nat]
    BY DEF TypeOK
  <1>5. exposed' \subseteq Ids'
    BY <1>1 DEF TypeOK
  <1>6. delivered' \in Seq(Deliveries')
    BY <1>1 DEF Deliveries, Handlers
  <1> QED
    BY <1>1, <1>2, <1>3, <1>4, <1>5, <1>6 DEF TypeOK, Idle, Deliveries

LEMMA SendType ==
  ASSUME TypeOK, NEW q \in Queues, NEW n \in 1..MaxBatch, Send(q, n)
  PROVE  /\ TypeOK' /\ Ids \subseteq Ids'
         /\ \A m \in Ids : messages'[m] = messages[m]
         /\ \A m \in Ids' \ Ids : messages'[m].reserved = Free /\ ~messages'[m].elaborated
         /\ exposed \subseteq exposed'
         /\ (\A s \in Servers : Ready(s)) \/ Ids' \ Ids \subseteq exposed'
  <1>1. PICK stamp \in [1..n -> 0..MaxStamp] :
          messages' = messages \o [k \in 1..n |-> NewMessage(q, stamp[k])]
    BY DEF Send
  <1> DEFINE new == [k \in 1..n |-> NewMessage(q, stamp[k])]
  <1>2. \A k \in 1..n : NewMessage(q, stamp[k]) \in Message
    BY DEF NewMessage, Message
  <1>3. new \in Seq(Message) /\ Len(new) = n
    <2>1. new \in [1..n -> Message] /\ n \in Nat
      BY <1>2
    <2> QED
      BY <2>1
  <1>4. messages \in Seq(Message)
    BY DEF TypeOK
  <1>5. \A k \in 1..n : new[k].reserved = Free /\ ~new[k].elaborated
    BY DEF NewMessage
  <1> HIDE DEF new
  <1>6. /\ messages' \in Seq(Message)
        /\ DOMAIN messages' = 1..(Len(messages) + n)
        /\ \A m \in 1..Len(messages) : messages'[m] = messages[m]
        /\ \A m \in (Len(messages) + 1)..(Len(messages) + n) :
              messages'[m] = new[m - Len(messages)] /\ m - Len(messages) \in 1..n
    <2>1. messages' = messages \o new
      BY <1>1 DEF new
    <2>2. n \in Nat
      OBVIOUS
    <2> QED
      BY <1>3, <1>4, <2>1, <2>2, Appended
  <1>7. Ids = 1..Len(messages) /\ Ids' = 1..(Len(messages) + n) /\ Len(messages) \in Nat
    BY <1>4, <1>6 DEF Ids
  <1>8. Ids \subseteq Ids' /\ \A m \in Ids : messages'[m] = messages[m]
    BY <1>6, <1>7
  <1>9. \A m \in Ids' \ Ids : m \in (Len(messages) + 1)..(Len(messages) + n)
    BY <1>7
  <1>10. TypeOK'
    <2>1. UNCHANGED << running, starts, queues, subscribed, worker, delivered, failures >>
      BY DEF Send, startup
    <2>2. exposed' \subseteq exposed \cup ((Len(messages) + 1)..(Len(messages) + n))
      BY DEF Send
    <2>3. exposed' \subseteq Ids'
      BY <1>7, <2>2 DEF TypeOK
    <2> QED
      BY <1>6, <1>8, <2>1, <2>3, MoreRows DEF TypeOK, Deliveries
  <1>11. ASSUME NEW m \in Ids' \ Ids
         PROVE  messages'[m].reserved = Free /\ ~messages'[m].elaborated
    <2>1. PICK k \in 1..n : messages'[m] = new[k]
      BY <1>6, <1>9
    <2> QED
      BY <1>5, <2>1
  <1>12. /\ exposed \subseteq exposed'
         /\ (\A s \in Servers : Ready(s)) \/ Ids' \ Ids \subseteq exposed'
    BY <1>9 DEF Send
  <1> QED
    BY <1>8, <1>10, <1>11, <1>12

-----------------------------------------------------------------------------
(***************************************************************************)
(* Types, and what each step of OnTimer does to its worker.                *)
(***************************************************************************)
Others(w) == \A v \in Workers \ {w} : worker'[v] = worker[v]

LEMMA NewPhase ==
  ASSUME NEW x \in Tick,
         NEW p \in {"scanning", "fetching", "delivering", "marking", "releasing"}
  PROVE  /\ [x EXCEPT !.phase = p] \in Tick
         /\ [x EXCEPT !.phase = p].phase = p
         /\ [x EXCEPT !.phase = p].batch = x.batch
         /\ [x EXCEPT !.phase = p].queue = x.queue
  BY DEF Tick

LEMMA OnTimerStep ==
  ASSUME TypeOK, NEW w \in Workers, OnTimer(w)
  PROVE  TypeOK' /\ Others(w) /\ worker'[w].phase = "scanning" /\ worker'[w].batch = << >>
  <1> DEFINE x == [phase |-> "scanning", left |-> queues[Home[w]], queue |-> "none", batch |-> << >>]
  <1>1. x \in Tick
    BY DEF Tick, TypeOK
  <1>2. x.phase = "scanning" /\ x.batch = << >>
    OBVIOUS
  <1>3. worker' = [worker EXCEPT ![w] = x]
    BY DEF OnTimer
  <1> HIDE DEF x
  <1>4. running' \in [Servers -> BOOLEAN]
    BY DEF TypeOK, OnTimer
  <1>5. TypeOK'
    BY <1>1, <1>3, <1>4, WorkerStep DEF OnTimer, TypeOK, startup, history, Deliveries
  <1> QED
    BY <1>2, <1>3, <1>5 DEF Others, TypeOK

LEMMA ReserveStep ==
  ASSUME TypeOK, NEW w \in Workers, NEW q \in Queues, Reserve(w, q)
  PROVE  /\ TypeOK' /\ Others(w) /\ Ids' = Ids
         /\ worker'[w].phase \in {"scanning", "fetching"}
         /\ worker'[w].batch = worker[w].batch
         /\ worker'[w].queue = q
         /\ \A m \in Ids :
              /\ messages'[m].elaborated = messages[m].elaborated
              /\ messages'[m].queue = messages[m].queue
              /\ messages'[m].stamp = messages[m].stamp
              /\ IF messages[m].queue = q /\ IsFree(m)
                 THEN /\ messages'[m].reserved = Handler(Home[w])
                      /\ worker'[w].phase = "fetching"
                 ELSE messages'[m].reserved = messages[m].reserved
  <1> DEFINE rows == {m \in Ids : messages[m].queue = q /\ IsFree(m)}
             ph == IF rows = {} THEN "scanning" ELSE "fetching"
             x == [worker[w] EXCEPT !.phase = ph, !.left = @ \ {q}, !.queue = q]
             f == [m \in Ids |-> IF m \in rows
                                 THEN [messages[m] EXCEPT !.reserved = Handler(Home[w])]
                                 ELSE messages[m]]
  <1>1. worker[w] \in Tick
    BY ActiveTick DEF Reserve
  <1>2. ph \in {"scanning", "fetching"}
    OBVIOUS
  <1>3. x \in Tick /\ x.phase = ph /\ x.batch = worker[w].batch /\ x.queue = q
    <2> HIDE DEF ph
    <2> QED
      BY <1>1, <1>2 DEF Tick
  <1>4. Home[w] \in Servers /\ Handler(Home[w]) \in Handlers
    BY HandlersAreTyped
  <1>5. messages \in Seq(Message) /\ \A m \in Ids : messages[m] \in Message
    BY DEF TypeOK, Ids
  <1>6. messages' = f
    BY DEF Reserve
  <1>7. \A m \in Ids :
          /\ f[m] \in Message
          /\ f[m].elaborated = messages[m].elaborated
          /\ f[m].queue = messages[m].queue
          /\ f[m].stamp = messages[m].stamp
          /\ m \notin rows => f[m].reserved = messages[m].reserved
          /\ m \in rows => f[m].reserved = Handler(Home[w])
    <2> TAKE m \in Ids
    <2> HIDE DEF rows
    <2>1. CASE m \in rows
      <3>1. f[m] = [messages[m] EXCEPT !.reserved = Handler(Home[w])]
        BY <2>1
      <3> QED
        BY <1>4, <1>5, <2>1, <3>1 DEF Message
    <2>2. CASE m \notin rows
      BY <1>5, <2>2
    <2> QED
      BY <2>1, <2>2
  <1>8. f \in Seq(Message) /\ DOMAIN f = Ids
    <2>1. f \in [DOMAIN messages -> Message]
      BY <1>7 DEF Ids
    <2> HIDE DEF f
    <2> QED
      BY <1>5, <2>1, SameDomain DEF Ids
  <1>9. worker' = [worker EXCEPT ![w] = x]
    BY DEF Reserve, TypeOK
  <1>10. \A m \in Ids : /\ m \in rows <=> messages[m].queue = q /\ IsFree(m)
                        /\ m \in rows => ph = "fetching"
    OBVIOUS
  <1> HIDE DEF f, x, rows, ph
  <1>14. UNCHANGED << running, starts, queues, subscribed, delivered, exposed, failures >>
    BY DEF Reserve, startup, history
  <1>15. /\ running \in [Servers -> BOOLEAN] /\ delivered \in Seq(Deliveries)
         /\ failures \in 0..MaxFailures
    BY DEF TypeOK, Deliveries
  <1>11. TypeOK'
    BY <1>3, <1>6, <1>8, <1>9, <1>14, <1>15, WorkerStep DEF Ids
  <1>12. worker'[w] = x /\ Others(w)
    BY <1>9 DEF TypeOK, Others
  <1>13. Ids' = Ids
    BY <1>6, <1>8 DEF Ids
  <1> QED
    BY <1>2, <1>3, <1>6, <1>7, <1>10, <1>11, <1>12, <1>13

LEMMA FetchStep ==
  ASSUME TypeOK, NEW w \in Workers, Fetch(w)
  PROVE  /\ TypeOK' /\ Others(w) /\ worker[w].phase = "fetching"
         /\ worker'[w].phase = "delivering"
         /\ worker'[w].queue = worker[w].queue
         /\ worker'[w].batch \in Sorted(Reserved(Home[w], worker[w].queue))
  <1>1. PICK s \in Sorted(Reserved(Home[w], worker[w].queue)) :
          worker' = [worker EXCEPT ![w].phase = "delivering", ![w].batch = s]
    BY DEF Fetch
  <1>2. worker[w] \in Tick /\ worker[w].phase = "fetching"
    BY ActiveTick DEF Fetch
  <1>3. s \in Seq(Ids)
    <2>1. Reserved(Home[w], worker[w].queue) \subseteq Ids
      BY DEF Reserved
    <2> QED
      BY <2>1, SortedRows
  <1> DEFINE x == [worker[w] EXCEPT !.phase = "delivering", !.batch = s]
  <1>4. x \in Tick /\ x.phase = "delivering" /\ x.batch = s /\ x.queue = worker[w].queue
    BY <1>2, <1>3 DEF Tick
  <1>5. worker' = [worker EXCEPT ![w] = x]
    BY <1>1 DEF TypeOK
  <1> HIDE DEF x
  <1>6. TypeOK'
    BY <1>4, <1>5, WorkerStep DEF Fetch, TypeOK, startup, history, Deliveries
  <1>7. worker'[w] = x /\ Others(w)
    BY <1>5 DEF TypeOK, Others
  <1> QED
    BY <1>2, <1>4, <1>6, <1>7

LEMMA DeliverStep ==
  ASSUME TypeOK, NEW w \in Workers, Deliver(w)
  PROVE  /\ TypeOK' /\ Others(w) /\ worker[w].phase = "delivering"
         /\ worker'[w].phase = "marking"
         /\ worker'[w].queue = worker[w].queue
         /\ worker'[w].batch = worker[w].batch
         /\ worker[w].batch \in Seq(Ids) /\ worker[w].batch # << >>
         /\ Head(worker[w].batch) \in Ids
  <1> DEFINE x == [worker[w] EXCEPT !.phase = "marking"]
  <1>1. worker[w] \in Tick /\ worker[w].phase = "delivering"
    BY ActiveTick DEF Deliver, Step
  <1>2. /\ x \in Tick /\ x.phase = "marking" /\ x.batch = worker[w].batch
        /\ x.queue = worker[w].queue
    BY <1>1, NewPhase
  <1>3. worker' = [worker EXCEPT ![w] = x]
    BY DEF Deliver, Step
  <1>4. worker[w].batch \in Seq(Ids) /\ worker[w].batch # << >>
    BY <1>1 DEF Deliver, Tick
  <1>5. Head(worker[w].batch) \in Ids
    BY <1>4
  <1>6. Delivery(w) \in Deliveries
    BY <1>5, HandlersAreTyped DEF Delivery, Deliveries, SubscribersOf
  <1>7. delivered' \in Seq(Deliveries)
    BY <1>6 DEF Deliver, TypeOK, Deliveries
  <1> HIDE DEF x
  <1>8. TypeOK'
    BY <1>2, <1>3, <1>7, WorkerStep DEF Deliver, TypeOK, startup, history, Deliveries
  <1>9. worker'[w] = x /\ Others(w)
    BY <1>3 DEF TypeOK, Others
  <1> QED
    BY <1>1, <1>2, <1>4, <1>5, <1>8, <1>9

LEMMA MarkStep ==
  ASSUME TypeOK, NEW w \in Workers, Mark(w), worker[w].batch # << >>
  PROVE  /\ TypeOK' /\ Others(w) /\ worker[w].phase = "marking" /\ Ids' = Ids
         /\ worker'[w].phase = "releasing"
         /\ worker'[w].queue = worker[w].queue
         /\ worker'[w].batch = worker[w].batch
         /\ Head(worker[w].batch) \in Ids
         /\ messages'[Head(worker[w].batch)].elaborated
         /\ messages'[Head(worker[w].batch)].reserved = Handler(Home[w])
         /\ \A m \in Ids \ {Head(worker[w].batch)} : messages'[m] = messages[m]
         /\ \A m \in Ids : /\ messages'[m].queue = messages[m].queue
                           /\ messages'[m].stamp = messages[m].stamp
  <1> DEFINE x == [worker[w] EXCEPT !.phase = "releasing"]
             h == Head(worker[w].batch)
             r == [messages[h] EXCEPT !.elaborated = TRUE, !.reserved = Handler(Home[w])]
  <1>1. worker[w] \in Tick /\ worker[w].phase = "marking"
    BY ActiveTick DEF Mark, Step
  <1>2. /\ x \in Tick /\ x.phase = "releasing" /\ x.batch = worker[w].batch
        /\ x.queue = worker[w].queue
    BY <1>1, NewPhase
  <1>3. worker' = [worker EXCEPT ![w] = x]
    BY DEF Mark, Step
  <1>4. h \in Ids
    <2>1. worker[w].batch \in Seq(Ids)
      BY <1>1 DEF Tick
    <2> QED
      BY <2>1
  <1>5. messages \in Seq(Message) /\ messages[h] \in Message
    BY <1>4 DEF TypeOK, Ids
  <1>6. Handler(Home[w]) \in Handlers
    BY HandlersAreTyped
  <1>7. /\ r \in Message /\ r.elaborated /\ r.reserved = Handler(Home[w])
        /\ r.queue = messages[h].queue /\ r.stamp = messages[h].stamp
    BY <1>5, <1>6 DEF Message
  <1>8. messages' = [messages EXCEPT ![h] = r]
    BY <1>5 DEF Mark
  <1> HIDE DEF h, r, x
  <1>9. /\ messages' \in Seq(Message) /\ DOMAIN messages' = DOMAIN messages
        /\ messages'[h] = r /\ \A m \in Ids \ {h} : messages'[m] = messages[m]
    BY <1>4, <1>5, <1>7, <1>8 DEF Ids
  <1>10. TypeOK'
    BY <1>2, <1>3, <1>9, WorkerStep DEF Mark, TypeOK, startup, history, Deliveries
  <1>11. worker'[w] = x /\ Others(w)
    BY <1>3 DEF TypeOK, Others
  <1> QED
    BY <1>1, <1>2, <1>4, <1>7, <1>9, <1>10, <1>11 DEF Ids, h

\* The effect of Release on the rows.
LEMMA ReleaseStep ==
  ASSUME TypeOK, NEW w \in Workers, Release(w), worker[w].batch # << >>
  PROVE  /\ TypeOK' /\ Others(w) /\ worker[w].phase = "releasing" /\ Ids' = Ids
         /\ worker'[w].phase = "delivering"
         /\ worker'[w].queue = worker[w].queue
         /\ worker[w].batch \in Seq(Ids)
         /\ worker'[w].batch = Tail(worker[w].batch)
         /\ \A m \in Ids :
              /\ messages'[m].elaborated = messages[m].elaborated
              /\ messages'[m].queue = messages[m].queue
              /\ messages'[m].stamp = messages[m].stamp
              /\ IF m \in Reserved(Home[w], worker[w].queue)
                 THEN messages'[m].reserved = Free
                 ELSE messages'[m].reserved = messages[m].reserved
  <1> DEFINE rows == Reserved(Home[w], worker[w].queue)
             x == [worker[w] EXCEPT !.phase = "delivering", !.batch = Tail(@)]
             f == [m \in Ids |-> IF m \in rows
                                 THEN [messages[m] EXCEPT !.reserved = Free]
                                 ELSE messages[m]]
  <1>1. worker[w] \in Tick /\ worker[w].phase = "releasing"
    BY ActiveTick DEF Release
  <1>2. worker[w].batch \in Seq(Ids) /\ Tail(worker[w].batch) \in Seq(Ids)
    BY <1>1 DEF Tick
  <1>3. /\ x \in Tick /\ x.phase = "delivering" /\ x.batch = Tail(worker[w].batch)
        /\ x.queue = worker[w].queue
    BY <1>1, <1>2 DEF Tick
  <1>4. messages \in Seq(Message) /\ \A m \in Ids : messages[m] \in Message
    BY DEF TypeOK, Ids
  <1>5. messages' = f
    BY DEF Release
  <1>6. \A m \in Ids :
          /\ f[m] \in Message
          /\ f[m].elaborated = messages[m].elaborated
          /\ f[m].queue = messages[m].queue
          /\ f[m].stamp = messages[m].stamp
          /\ f[m].reserved = IF m \in rows THEN Free ELSE messages[m].reserved
    <2> TAKE m \in Ids
    <2> HIDE DEF rows
    <2>1. CASE m \in rows
      <3>1. f[m] = [messages[m] EXCEPT !.reserved = Free]
        BY <2>1
      <3> QED
        BY <1>4, <2>1, <3>1 DEF Message
    <2>2. CASE m \notin rows
      BY <1>4, <2>2
    <2> QED
      BY <2>1, <2>2
  <1>7. f \in Seq(Message) /\ DOMAIN f = Ids
    <2>1. f \in [DOMAIN messages -> Message]
      BY <1>6 DEF Ids
    <2> HIDE DEF f
    <2> QED
      BY <1>4, <2>1, SameDomain DEF Ids
  <1>8. worker' = [worker EXCEPT ![w] = x]
    BY DEF Release, TypeOK
  <1> HIDE DEF f, x
  <1>9. TypeOK'
    BY <1>3, <1>5, <1>7, <1>8, WorkerStep DEF Release, TypeOK, Ids, startup, history, Deliveries
  <1>10. worker'[w] = x /\ Others(w)
    BY <1>8 DEF TypeOK, Others
  <1>11. Ids' = Ids
    BY <1>5, <1>7 DEF Ids
  <1> HIDE DEF rows
  <1>12. \A m \in Ids :
           /\ messages'[m].elaborated = messages[m].elaborated
           /\ messages'[m].queue = messages[m].queue
           /\ messages'[m].stamp = messages[m].stamp
           /\ IF m \in rows THEN messages'[m].reserved = Free
              ELSE messages'[m].reserved = messages[m].reserved
    BY <1>5, <1>6
  <1> QED
    BY <1>1, <1>2, <1>3, <1>9, <1>10, <1>11, <1>12 DEF rows

LEMMA EndOfBatchStep ==
  ASSUME TypeOK, NEW w \in Workers, EndOfBatch(w)
  PROVE  /\ TypeOK' /\ Others(w) /\ worker[w].phase = "delivering"
         /\ worker[w].batch = << >>
         /\ worker'[w].phase = "scanning" /\ worker'[w].batch = << >>
  <1> DEFINE x == [worker[w] EXCEPT !.phase = "scanning"]
  <1>1. worker[w] \in Tick /\ worker[w].phase = "delivering" /\ worker[w].batch = << >>
    BY ActiveTick DEF EndOfBatch
  <1>2. x \in Tick /\ x.phase = "scanning" /\ x.batch = worker[w].batch
    BY <1>1, NewPhase
  <1>3. worker' = [worker EXCEPT ![w] = x]
    BY DEF EndOfBatch
  <1> HIDE DEF x
  <1>4. TypeOK'
    BY <1>2, <1>3, WorkerStep DEF EndOfBatch, TypeOK, startup, history, Deliveries
  <1>5. worker'[w] = x /\ Others(w)
    BY <1>3 DEF TypeOK, Others
  <1> QED
    BY <1>1, <1>2, <1>4, <1>5

\* A tick ends, by itself or because a statement fails.
LEMMA LeaveStep ==
  ASSUME TypeOK, NEW w \in Workers, EndOfTick(w) \/ StatementFails(w)
  PROVE  /\ TypeOK' /\ Others(w) /\ worker[w] # Idle /\ worker'[w] = Idle
         /\ running' = [running EXCEPT ![Home[w]] = FALSE]
  <1>1. /\ Leave(w) /\ messages' = messages
        /\ UNCHANGED << starts, queues, subscribed, delivered, exposed >>
    BY DEF EndOfTick, StatementFails, startup, history
  <1>2. running' = [running EXCEPT ![Home[w]] = FALSE] /\ worker' = [worker EXCEPT ![w] = Idle]
    BY <1>1 DEF Leave
  <1>3. failures' \in 0..MaxFailures
    BY DEF EndOfTick, StatementFails, TypeOK
  <1>4. running' \in [Servers -> BOOLEAN]
    BY <1>2 DEF TypeOK
  <1>5. TypeOK'
    BY <1>1, <1>2, <1>3, <1>4, WorkerStep DEF TypeOK, startup, history, Deliveries
  <1>6. worker[w] # Idle
    BY ActiveTick DEF EndOfTick, StatementFails
  <1> QED
    BY <1>2, <1>5, <1>6 DEF Others, TypeOK

LEMMA CrashStep ==
  ASSUME TypeOK, NEW s \in Servers, Crash(s)
  PROVE  /\ TypeOK' /\ Ids' = Ids /\ UNCHANGED << messages, delivered >>
         /\ \A w \in Workers : worker'[w] = IF Home[w] = s THEN Idle ELSE worker[w]
         /\ exposed \subseteq exposed'
         /\ \A m \in Ids : m \in exposed' \/ messages[m].elaborated
  <1>1. Ids' = Ids
    BY DEF Crash, Ids
  <1>2. Tick' = Tick
    BY <1>1 DEF Tick
  <1>3. \A w \in Workers : worker'[w] = IF Home[w] = s THEN Idle ELSE worker[w]
    BY DEF Crash
  <1>4. worker' \in [Workers -> {Idle} \cup Tick]
    BY DEF Crash, TypeOK
  <1>5. running' \in [Servers -> BOOLEAN] /\ starts' \in [Servers -> Nat]
    BY DEF Crash, TypeOK
  <1>6. messages' = messages /\ delivered' = delivered /\ failures' = failures
    BY DEF Crash
  <1>7. exposed' = exposed \cup {m \in Ids : ~messages[m].elaborated}
    BY DEF Crash
  <1>8. exposed' \subseteq Ids'
    BY <1>1, <1>7 DEF TypeOK
  <1>9. /\ queues' \in [Servers -> SUBSET Queues]
        /\ subscribed' \in [Servers -> SUBSET Subscribers]
    BY DEF Crash, TypeOK
  <1>10. TypeOK'
    BY <1>1, <1>2, <1>4, <1>5, <1>6, <1>8, <1>9 DEF TypeOK, Idle, Handlers
  <1> QED
    BY <1>1, <1>3, <1>6, <1>7, <1>10

\* The start of a server changes nothing but what the server has ready.
LEMMA StartUpStep ==
  ASSUME TypeOK, NEW s \in Servers, StartUp(s)
  PROVE  /\ TypeOK' /\ Ids' = Ids
         /\ UNCHANGED << messages, running, starts, worker, delivered, exposed, failures >>
         /\ ~\A r \in Servers : Ready(r)
  <1>1. UNCHANGED << messages, running, starts, worker, delivered, exposed, failures >>
    BY DEF StartUp, CreateQueue, Subscribe, history
  <1>2. Ids' = Ids
    BY <1>1 DEF Ids
  <1>3. /\ queues' \in [Servers -> SUBSET Queues]
        /\ subscribed' \in [Servers -> SUBSET Subscribers]
    <2>1. CASE \E q \in Queues : CreateQueue(s, q)
      BY <2>1 DEF CreateQueue, TypeOK
    <2>2. CASE \E h \in Subscribers : Subscribe(s, h)
      BY <2>2 DEF Subscribe, TypeOK
    <2> QED
      BY <2>1, <2>2 DEF StartUp
  <1>4. TypeOK'
    BY <1>1, <1>2, <1>3 DEF TypeOK, Tick, Idle, Handlers
  <1>5. ~Ready(s)
    BY DEF StartUp, CreateQueue, Subscribe, Ready
  <1> QED
    BY <1>1, <1>2, <1>4, <1>5

-----------------------------------------------------------------------------
(***************************************************************************)
(* Nothing is put aside that no tick handled, and nothing skips a handler  *)
(* but while some server is starting.                                      *)
(***************************************************************************)
WorkerBatchOK(w) ==
  /\ worker[w].phase \in {"scanning", "fetching"} => worker[w].batch = << >>
  /\ worker[w].phase \in {"marking", "releasing"} => worker[w].batch # << >>
  /\ worker[w].phase = "marking" => WasDelivered(Head(worker[w].batch))

\* No row is taken away or moved, and no message is less exposed than before.
RowsStay ==
  /\ exposed \subseteq exposed' /\ Ids \subseteq Ids'
  /\ \A m \in Ids : messages'[m].queue = messages[m].queue

LEMMA DeliveredStays ==
  ASSUME TypeOK, delivered' = delivered \/ \E w \in Workers : Deliver(w), RowsStay
  PROVE  \A m \in Ids : WasDelivered(m) => WasDelivered(m)'
  <1> SUFFICES ASSUME NEW m \in Ids, WasDelivered(m) PROVE WasDelivered(m)'
    OBVIOUS
  <1>1. PICK k \in DOMAIN delivered :
          /\ delivered[k].msg = m
          /\ m \notin exposed => delivered[k].to = SubscribersOf(messages[m].queue)
    BY DEF WasDelivered
  <1>2. k \in DOMAIN delivered' /\ delivered'[k] = delivered[k]
    <2>1. CASE delivered' = delivered
      BY <2>1
    <2>2. CASE \E w \in Workers : Deliver(w)
      <3>1. PICK w \in Workers : Deliver(w)
        BY <2>2
      <3>2. delivered' = Append(delivered, Delivery(w))
        BY <3>1 DEF Deliver
      <3>3. delivered \in Seq(Deliveries)
        BY DEF TypeOK, Deliveries
      <3> QED
        BY <3>2, <3>3
    <2> QED
      BY <2>1, <2>2
  <1>3. /\ messages'[m].queue = messages[m].queue
        /\ m \notin exposed' => m \notin exposed
    BY DEF RowsStay
  <1>4. /\ delivered'[k].msg = m
        /\ m \notin exposed' => delivered'[k].to = SubscribersOf(messages'[m].queue)
    BY <1>1, <1>2, <1>3
  <1> QED
    BY <1>2, <1>4 DEF WasDelivered, SubscribersOf

\* The row a worker is about to mark.
LEMMA HeadIsRow ==
  ASSUME TypeOK, NEW w \in Workers, worker[w].phase = "marking", worker[w].batch # << >>
  PROVE  Head(worker[w].batch) \in Ids
  <1>1. worker[w].batch \in Seq(Ids)
    BY ActiveTick DEF Tick
  <1> QED
    BY <1>1

\* What a step of a tick leaves as it is.
Kept ==
  /\ UNCHANGED << queues, subscribed, exposed >> /\ Ids' = Ids
  /\ \A m \in Ids : /\ messages'[m].queue = messages[m].queue
                    /\ messages[m].elaborated => messages'[m].elaborated

LEMMA StepKeeps ==
  ASSUME Inv, NEW w \in Workers, Work(w) \/ StatementFails(w)
  PROVE  Kept /\ RowsStay
  <1>1. UNCHANGED << queues, subscribed, exposed >>
    BY DEF Work, OnTimer, Reserve, Fetch, Deliver, Mark, Release, EndOfBatch, EndOfTick,
           StatementFails, startup, history
  <1>2. /\ worker[w].phase = "marking" => worker[w].batch # << >>
        /\ worker[w].phase = "releasing" => worker[w].batch # << >>
    BY DEF Inv, BatchOK
  <1>3. /\ Ids' = Ids
        /\ \A m \in Ids : /\ messages'[m].queue = messages[m].queue
                          /\ messages[m].elaborated => messages'[m].elaborated
    <2>1. CASE \E q \in Queues : Reserve(w, q)
      BY <2>1, ReserveStep DEF Inv
    <2>2. CASE Mark(w)
      <3>1. worker[w].batch # << >>
        BY <1>2, <2>2 DEF Mark, Step
      <3>2. /\ Ids' = Ids /\ messages'[Head(worker[w].batch)].elaborated
            /\ \A m \in Ids \ {Head(worker[w].batch)} : messages'[m] = messages[m]
            /\ \A m \in Ids : messages'[m].queue = messages[m].queue
        BY <2>2, <3>1, MarkStep DEF Inv
      <3> QED
        BY <3>2
    <2>3. CASE Release(w)
      <3>1. worker[w].batch # << >>
        BY <1>2, <2>3 DEF Release
      <3> QED
        BY <2>3, <3>1, ReleaseStep DEF Inv
    <2>4. CASE OnTimer(w) \/ Fetch(w) \/ Deliver(w) \/ EndOfBatch(w) \/ EndOfTick(w)
               \/ StatementFails(w)
      BY <2>4 DEF OnTimer, Fetch, Deliver, EndOfBatch, EndOfTick, StatementFails, Ids
    <2> QED
      BY <2>1, <2>2, <2>3, <2>4 DEF Work
  <1>4. RowsStay
    BY <1>1, <1>3 DEF RowsStay
  <1> QED
    BY <1>1, <1>3, <1>4, Zenon DEF Kept

LEMMA ExposedStays ==
  ASSUME ExposedOK, Kept
  PROVE  ExposedOK'
  <1>1. \A s \in Servers : Ready(s)' <=> Ready(s)
    BY DEF Kept, Ready
  <1>2. SUFFICES ASSUME NEW m \in Ids, m \notin exposed, ~(messages[m].elaborated)'
                 PROVE  \A s \in Servers : Ready(s)
    BY <1>1, Zenon DEF ExposedOK, Kept
  <1>3. ~messages[m].elaborated
    BY <1>2, Zenon DEF Kept
  <1> QED
    BY <1>2, <1>3 DEF ExposedOK

\* What is left to show of a step of a tick that goes on or ends.
LEMMA TickInv ==
  ASSUME Inv, NEW w \in Workers, TypeOK', Others(w), worker[w] # Idle,
         delivered' = delivered \/ \E v \in Workers : Deliver(v),
         \/ running' = running
         \/ worker'[w] = Idle /\ running' = [running EXCEPT ![Home[w]] = FALSE],
         WorkerBatchOK(w)', ElaboratedWasDelivered', Kept
  PROVE  Inv'
  <1>1. OneTick'
    <2> SUFFICES ASSUME NEW v \in Workers, worker'[v] # Idle
                 PROVE  /\ running'[Home[v]]
                        /\ \A u \in Workers : u # v /\ Home[u] = Home[v] => worker'[u] = Idle
      BY DEF OneTick, Idle
    <2>1. worker[v] # Idle
      BY DEF Others
    <2>2. /\ running[Home[v]]
          /\ \A u \in Workers : u # v /\ Home[u] = Home[v] => worker[u] = Idle
      BY <2>1 DEF Inv, OneTick
    <2>3. \A u \in Workers : u # v /\ Home[u] = Home[v] => worker'[u] = Idle
      BY <2>2 DEF Others
    <2>4. running'[Home[v]]
      <3>1. CASE running' = running
        BY <2>2, <3>1
      <3>2. CASE worker'[w] = Idle /\ running' = [running EXCEPT ![Home[w]] = FALSE]
        <4>1. v # w
          BY <3>2
        <4>2. Home[v] # Home[w]
          BY <2>2, <4>1
        <4> QED
          BY <2>2, <3>2, <4>2 DEF Inv, TypeOK
      <3> QED
        BY <3>1, <3>2
    <2> QED
      BY <2>3, <2>4
  <1>2. ASSUME NEW v \in Workers PROVE WorkerBatchOK(v)'
    <2>1. CASE v = w
      BY <2>1
    <2>2. CASE v # w
      <3>1. worker'[v] = worker[v] /\ WorkerBatchOK(v)
        BY <2>2 DEF Others, Inv, BatchOK, WorkerBatchOK
      <3>2. ASSUME worker[v].phase = "marking" PROVE WasDelivered(Head(worker[v].batch))'
        <4>6. RowsStay
          BY DEF Kept, RowsStay
        <4>1. \A m \in Ids : WasDelivered(m) => WasDelivered(m)'
          BY <4>6, DeliveredStays DEF Inv
        <4>2. Head(worker[v].batch) \in Ids /\ WasDelivered(Head(worker[v].batch))
          BY <3>1, <3>2, HeadIsRow DEF Inv, WorkerBatchOK
        <4>3. PICK m \in Ids : m = Head(worker[v].batch)
          BY <4>2
        <4>4. WasDelivered(m)'
          BY <4>1, <4>2, <4>3
        <4>5. Head(worker'[v].batch) = m
          BY <3>1, <4>3
        <4> QED
          BY <4>4, <4>5 DEF WasDelivered
      <3> QED
        BY <3>1, <3>2 DEF WorkerBatchOK
    <2> QED
      BY <2>1, <2>2
  <1>3. BatchOK'
    BY <1>2 DEF BatchOK, WorkerBatchOK
  <1>4. ExposedOK'
    BY ExposedStays DEF Inv
  <1> QED
    BY <1>1, <1>3, <1>4 DEF Inv

\* A step after which the same rows are elaborated as before it.
LEMMA SameElaborated ==
  ASSUME Inv, Ids' = Ids, \A m \in Ids : messages'[m].elaborated = messages[m].elaborated,
         delivered' = delivered \/ \E w \in Workers : Deliver(w), RowsStay
  PROVE  ElaboratedWasDelivered'
  <1>1. \A m \in Ids : WasDelivered(m) => WasDelivered(m)'
    BY DeliveredStays DEF Inv
  <1> QED
    BY <1>1 DEF Inv, ElaboratedWasDelivered, WasDelivered

\* A step after which workers are where they were, or idle.
LEMMA WorkersKeep ==
  ASSUME TypeOK, BatchOK, \A m \in Ids : WasDelivered(m) => WasDelivered(m)',
         \A w \in Workers : worker'[w] \in {worker[w], Idle}
  PROVE  BatchOK'
  <1> SUFFICES ASSUME NEW w \in Workers PROVE WorkerBatchOK(w)'
    BY DEF BatchOK, WorkerBatchOK
  <1>1. CASE worker'[w] = Idle
    BY <1>1 DEF WorkerBatchOK, Idle
  <1>2. CASE worker'[w] = worker[w]
    <2>1. WorkerBatchOK(w)
      BY DEF BatchOK, WorkerBatchOK
    <2>2. ASSUME worker[w].phase = "marking" PROVE WasDelivered(Head(worker[w].batch))'
      <3>1. Head(worker[w].batch) \in Ids /\ WasDelivered(Head(worker[w].batch))
        BY <2>1, <2>2, HeadIsRow DEF WorkerBatchOK
      <3>2. PICK m \in Ids : m = Head(worker[w].batch)
        BY <3>1
      <3>3. WasDelivered(m)'
        BY <3>1, <3>2
      <3>4. Head(worker'[w].batch) = m
        BY <1>2, <3>2
      <3> QED
        BY <3>3, <3>4 DEF WasDelivered, SubscribersOf
    <2> QED
      BY <1>2, <2>1, <2>2 DEF WorkerBatchOK
  <1> QED
    BY <1>1, <1>2

LEMMA InitInv == Init => Inv
  <1> SUFFICES ASSUME Init PROVE Inv
    OBVIOUS
  <1>1. \A w \in Workers : worker[w] = Idle /\ worker[w].phase = "idle"
    BY DEF Init, Idle
  <1>2. TypeOK
    BY DEF Init, TypeOK
  <1>3. OneTick /\ BatchOK
    BY <1>1 DEF OneTick, BatchOK
  <1>4. ElaboratedWasDelivered /\ ExposedOK
    BY DEF Init, ElaboratedWasDelivered, ExposedOK, Ids
  <1> QED
    BY <1>2, <1>3, <1>4 DEF Inv

LEMMA SendInv ==
  ASSUME Inv, NEW q \in Queues, NEW n \in 1..MaxBatch, Send(q, n)
  PROVE  Inv'
  <1>1. /\ TypeOK' /\ Ids \subseteq Ids' /\ \A m \in Ids : messages'[m] = messages[m]
        /\ \A m \in Ids' \ Ids : ~messages'[m].elaborated
        /\ exposed \subseteq exposed'
        /\ (\A s \in Servers : Ready(s)) \/ Ids' \ Ids \subseteq exposed'
    BY SendType DEF Inv
  <1>2. UNCHANGED << running, starts, queues, subscribed, worker, delivered, failures >>
    BY DEF Send, startup
  <1>3. OneTick'
    BY <1>2 DEF Inv, OneTick
  <1>4. \A m \in Ids : WasDelivered(m) => WasDelivered(m)'
    BY <1>1, <1>2, DeliveredStays DEF Inv, RowsStay
  <1>5. BatchOK'
    BY <1>2, <1>4, WorkersKeep DEF Inv
  <1>6. ElaboratedWasDelivered'
    <2> SUFFICES ASSUME NEW m \in Ids', messages'[m].elaborated PROVE WasDelivered(m)'
      BY DEF ElaboratedWasDelivered, WasDelivered
    <2>1. m \in Ids /\ messages[m].elaborated
      BY <1>1
    <2> QED
      BY <1>4, <2>1 DEF Inv, ElaboratedWasDelivered, WasDelivered
  <1>7. ExposedOK'
    <2> SUFFICES ASSUME NEW m \in Ids'
                 PROVE  m \in exposed' \/ messages'[m].elaborated \/ (\A s \in Servers : Ready(s))'
      BY DEF ExposedOK
    <2>1. \A s \in Servers : Ready(s)' <=> Ready(s)
      BY <1>2 DEF Ready
    <2>2. CASE m \in Ids
      BY <1>1, <2>1, <2>2 DEF Inv, ExposedOK
    <2>3. CASE m \notin Ids
      BY <1>1, <2>1, <2>3
    <2> QED
      BY <2>2, <2>3
  <1> QED
    BY <1>1, <1>3, <1>5, <1>6, <1>7 DEF Inv

LEMMA OnTimerInv ==
  ASSUME Inv, NEW w \in Workers, OnTimer(w)
  PROVE  Inv'
  <1>0. Kept /\ RowsStay
    BY StepKeeps DEF Work
  <1>1. TypeOK' /\ Others(w) /\ worker'[w].phase = "scanning" /\ worker'[w].batch = << >>
    BY OnTimerStep DEF Inv
  <1>2. /\ messages' = messages /\ delivered' = delivered /\ ~running[Home[w]]
        /\ running' = [running EXCEPT ![Home[w]] = TRUE]
    BY DEF OnTimer, history
  <1>3. \A v \in Workers \ {w} : Home[v] = Home[w] => worker[v] = Idle
    BY <1>2 DEF Inv, OneTick
  <1>4. OneTick'
    <2> SUFFICES ASSUME NEW v \in Workers, worker'[v] # Idle
                 PROVE  /\ running'[Home[v]]
                        /\ \A u \in Workers : u # v /\ Home[u] = Home[v] => worker'[u] = Idle
      BY DEF OneTick, Idle
    <2>1. CASE v = w
      BY <1>1, <1>2, <1>3, <2>1 DEF Others, Inv, TypeOK
    <2>2. CASE v # w
      <3>1. worker[v] # Idle
        BY <1>1, <2>2 DEF Others
      <3>2. Home[v] # Home[w]
        BY <1>3, <2>2, <3>1
      <3> QED
        BY <1>1, <1>2, <3>1, <3>2 DEF Others, Inv, OneTick, TypeOK
    <2> QED
      BY <2>1, <2>2
  <1>5. BatchOK'
    <2> SUFFICES ASSUME NEW v \in Workers PROVE WorkerBatchOK(v)'
      BY DEF BatchOK, WorkerBatchOK
    <2>1. CASE v = w
      BY <1>1, <2>1 DEF WorkerBatchOK
    <2>2. CASE v # w
      BY <1>0, <1>1, <1>2, <2>2
         DEF Others, Inv, BatchOK, WorkerBatchOK, WasDelivered, Kept
    <2> QED
      BY <2>1, <2>2
  <1>6. ElaboratedWasDelivered'
    BY <1>0, <1>2 DEF Inv, ElaboratedWasDelivered, Ids, Kept
  <1>7. ExposedOK'
    BY <1>0, ExposedStays DEF Inv
  <1> QED
    BY <1>1, <1>4, <1>5, <1>6, <1>7 DEF Inv

LEMMA ReserveInv ==
  ASSUME Inv, NEW w \in Workers, NEW q \in Queues, Reserve(w, q)
  PROVE  Inv'
  <1>0. Kept /\ RowsStay
    BY StepKeeps DEF Work
  <1>1. worker[w].phase = "scanning" /\ worker[w] # Idle
    BY ActiveTick DEF Reserve, Inv
  <1>2. worker[w].batch = << >>
    BY <1>1 DEF Inv, BatchOK
  <1>3. UNCHANGED << running, delivered >>
    BY DEF Reserve, history
  <1>4. /\ TypeOK' /\ Others(w) /\ Ids' = Ids
        /\ worker'[w].phase \in {"scanning", "fetching"} /\ worker'[w].batch = << >>
        /\ \A m \in Ids : messages'[m].elaborated = messages[m].elaborated
    BY <1>2, ReserveStep DEF Inv
  <1>5. WorkerBatchOK(w)'
    BY <1>4 DEF WorkerBatchOK
  <1> QED
    BY <1>1, <1>3, <1>4, <1>5, <1>0, SameElaborated, <1>0, TickInv

LEMMA FetchInv ==
  ASSUME Inv, NEW w \in Workers, Fetch(w)
  PROVE  Inv'
  <1>0. Kept /\ RowsStay
    BY StepKeeps DEF Work
  <1>1. /\ TypeOK' /\ Others(w) /\ worker[w].phase = "fetching"
        /\ worker'[w].phase = "delivering"
    BY FetchStep DEF Inv
  <1>2. worker[w] # Idle
    BY <1>1, ActiveTick DEF Inv
  <1>3. UNCHANGED << messages, running, delivered >>
    BY DEF Fetch, history
  <1>4. ElaboratedWasDelivered'
    BY <1>3, <1>0, SameElaborated DEF Ids
  <1> QED
    BY <1>1, <1>2, <1>3, <1>4, <1>0, TickInv DEF WorkerBatchOK

LEMMA DeliverInv ==
  ASSUME Inv, NEW w \in Workers, Deliver(w)
  PROVE  Inv'
  <1>0. Kept /\ RowsStay
    BY StepKeeps DEF Work
  <1>1. /\ TypeOK' /\ Others(w) /\ worker[w].phase = "delivering"
        /\ worker'[w].phase = "marking" /\ worker'[w].batch = worker[w].batch
        /\ worker[w].batch # << >>
    BY DeliverStep DEF Inv
  <1>2. worker[w] # Idle
    BY <1>1, ActiveTick DEF Inv
  <1>3. /\ UNCHANGED << messages, running >>
        /\ delivered' = Append(delivered, Delivery(w))
    BY DEF Deliver
  <1>4. ElaboratedWasDelivered'
    BY <1>3, <1>0, SameElaborated DEF Ids
  <1>5. PICK m : m = Head(worker[w].batch)
    OBVIOUS
  <1>6. WasDelivered(m)'
    <2>1. delivered \in Seq(Deliveries)
      BY DEF Inv, TypeOK, Deliveries
    <2>2. /\ Len(delivered) + 1 \in DOMAIN delivered'
          /\ delivered'[Len(delivered) + 1] = Delivery(w)
      BY <1>3, <2>1
    <2>3. /\ Delivery(w).msg = m
          /\ Delivery(w).to = subscribed[Home[w]] \cap SubscribersOf(messages[m].queue)
      BY <1>5 DEF Delivery
    <2>4. m \in Ids /\ Home[w] \in Servers
      BY <1>5, DeliverStep DEF Inv
    <2>5. CASE messages[m].elaborated
      <3>1. WasDelivered(m)
        BY <2>4, <2>5 DEF Inv, ElaboratedWasDelivered, WasDelivered
      <3>2. WasDelivered(m) => WasDelivered(m)'
        <4>1. \A x \in Ids : WasDelivered(x) => WasDelivered(x)'
          BY <1>0, DeliveredStays DEF Inv
        <4> QED
          BY <2>4, <4>1
      <3> QED
        BY <3>1, <3>2
    <2>6. CASE ~messages[m].elaborated
      <3>1. m \in exposed \/ Ready(Home[w])
        BY <2>4, <2>6 DEF Inv, ExposedOK
      <3>2. m \in exposed \/ Delivery(w).to = SubscribersOf(messages[m].queue)
        BY <2>3, <3>1 DEF Ready, SubscribersOf
      <3>3. exposed' = exposed /\ messages' = messages
        BY <1>0, <1>3 DEF Kept
      <3> QED
        BY <2>2, <2>3, <3>2, <3>3 DEF WasDelivered, SubscribersOf
    <2> QED
      BY <2>5, <2>6
  <1>7. WorkerBatchOK(w)'
    <2>1. Head(worker'[w].batch) = m
      BY <1>1, <1>5
    <2> QED
      BY <1>1, <1>6, <2>1 DEF WorkerBatchOK, WasDelivered, SubscribersOf
  <1> QED
    BY <1>1, <1>2, <1>3, <1>4, <1>7, <1>0, TickInv

LEMMA MarkInv ==
  ASSUME Inv, NEW w \in Workers, Mark(w)
  PROVE  Inv'
  <1>0. Kept /\ RowsStay
    BY StepKeeps DEF Work
  <1>1. worker[w].phase = "marking" /\ worker[w] # Idle
    BY ActiveTick DEF Mark, Step, Inv
  <1>2. worker[w].batch # << >> /\ WasDelivered(Head(worker[w].batch))
    BY <1>1 DEF Inv, BatchOK
  <1>3. /\ TypeOK' /\ Others(w) /\ Ids' = Ids
        /\ worker'[w].phase = "releasing" /\ worker'[w].batch = worker[w].batch
        /\ \A m \in Ids \ {Head(worker[w].batch)} : messages'[m] = messages[m]
    BY <1>2, MarkStep DEF Inv
  <1>4. UNCHANGED << running, delivered >>
    BY DEF Mark, history
  <1>5. ElaboratedWasDelivered'
    <2>1. \A m \in Ids : WasDelivered(m) => WasDelivered(m)'
      BY <1>0, <1>4, DeliveredStays DEF Inv
    <2>2. ASSUME NEW m \in Ids, messages'[m].elaborated PROVE WasDelivered(m)
      BY <1>2, <1>3, <2>2 DEF Inv, ElaboratedWasDelivered, WasDelivered
    <2> QED
      BY <1>3, <2>1, <2>2 DEF ElaboratedWasDelivered, WasDelivered
  <1>6. WorkerBatchOK(w)'
    BY <1>2, <1>3 DEF WorkerBatchOK
  <1> QED
    BY <1>1, <1>3, <1>4, <1>5, <1>6, <1>0, TickInv

LEMMA ReleaseInv ==
  ASSUME Inv, NEW w \in Workers, Release(w)
  PROVE  Inv'
  <1>0. Kept /\ RowsStay
    BY StepKeeps DEF Work
  <1>1. worker[w].phase = "releasing" /\ worker[w] # Idle
    BY ActiveTick DEF Release, Inv
  <1>2. worker[w].batch # << >>
    BY <1>1 DEF Inv, BatchOK
  <1>3. /\ TypeOK' /\ Others(w) /\ Ids' = Ids
        /\ worker'[w].phase = "delivering"
        /\ \A m \in Ids : messages'[m].elaborated = messages[m].elaborated
    BY <1>2, ReleaseStep DEF Inv
  <1>4. UNCHANGED << running, delivered >>
    BY DEF Release, history
  <1>5. ElaboratedWasDelivered'
    BY <1>3, <1>4, <1>0, SameElaborated
  <1>6. WorkerBatchOK(w)'
    BY <1>3 DEF WorkerBatchOK
  <1> QED
    BY <1>1, <1>3, <1>4, <1>5, <1>6, <1>0, TickInv

LEMMA EndOfBatchInv ==
  ASSUME Inv, NEW w \in Workers, EndOfBatch(w)
  PROVE  Inv'
  <1>0. Kept /\ RowsStay
    BY StepKeeps DEF Work
  <1>1. /\ TypeOK' /\ Others(w) /\ worker[w].phase = "delivering"
        /\ worker'[w].phase = "scanning" /\ worker'[w].batch = << >>
    BY EndOfBatchStep DEF Inv
  <1>2. worker[w] # Idle
    BY <1>1, ActiveTick DEF Inv
  <1>3. UNCHANGED << messages, running, delivered >>
    BY DEF EndOfBatch, history
  <1>4. ElaboratedWasDelivered'
    BY <1>3, <1>0, SameElaborated DEF Ids
  <1> QED
    BY <1>1, <1>2, <1>3, <1>4, <1>0, TickInv DEF WorkerBatchOK

LEMMA LeaveInv ==
  ASSUME Inv, NEW w \in Workers, EndOfTick(w) \/ StatementFails(w)
  PROVE  Inv'
  <1>0. Kept /\ RowsStay
    BY StepKeeps DEF Work
  <1>1. /\ TypeOK' /\ Others(w) /\ worker[w] # Idle /\ worker'[w] = Idle
        /\ running' = [running EXCEPT ![Home[w]] = FALSE]
    BY LeaveStep DEF Inv
  <1>2. UNCHANGED << messages, delivered >>
    BY DEF EndOfTick, StatementFails, history
  <1>3. ElaboratedWasDelivered'
    BY <1>2, <1>0, SameElaborated DEF Ids
  <1>4. WorkerBatchOK(w)'
    BY <1>1 DEF WorkerBatchOK, Idle
  <1> QED
    BY <1>1, <1>2, <1>3, <1>4, <1>0, TickInv

LEMMA CrashInv ==
  ASSUME Inv, NEW s \in Servers, Crash(s)
  PROVE  Inv'
  <1>1. /\ TypeOK' /\ Ids' = Ids
        /\ \A w \in Workers : worker'[w] = IF Home[w] = s THEN Idle ELSE worker[w]
        /\ exposed \subseteq exposed'
        /\ \A m \in Ids : m \in exposed' \/ messages[m].elaborated
    BY CrashStep DEF Inv
  <1>2. /\ UNCHANGED << messages, delivered >>
        /\ running' = [running EXCEPT ![s] = FALSE]
    BY DEF Crash
  <1>0. RowsStay
    BY <1>1, <1>2 DEF RowsStay
  <1>3. OneTick'
    <2> SUFFICES ASSUME NEW v \in Workers, worker'[v] # Idle
                 PROVE  /\ running'[Home[v]]
                        /\ \A u \in Workers : u # v /\ Home[u] = Home[v] => worker'[u] = Idle
      BY DEF OneTick, Idle
    <2>1. Home[v] # s /\ worker[v] # Idle
      BY <1>1
    <2> QED
      BY <1>1, <1>2, <2>1 DEF Inv, OneTick, TypeOK
  <1>4. BatchOK'
    BY <1>0, <1>1, <1>2, DeliveredStays, WorkersKeep DEF Inv
  <1>5. ElaboratedWasDelivered'
    BY <1>0, <1>2, SameElaborated DEF Ids
  <1>6. ExposedOK'
    BY <1>1, <1>2 DEF ExposedOK
  <1> QED
    BY <1>1, <1>3, <1>4, <1>5, <1>6 DEF Inv

LEMMA StartUpInv ==
  ASSUME Inv, NEW s \in Servers, StartUp(s)
  PROVE  Inv'
  <1>1. /\ TypeOK' /\ Ids' = Ids
        /\ UNCHANGED << messages, running, starts, worker, delivered, exposed, failures >>
        /\ ~\A r \in Servers : Ready(r)
    BY StartUpStep DEF Inv
  <1>2. OneTick' /\ BatchOK' /\ ElaboratedWasDelivered'
    BY <1>1 DEF Inv, OneTick, BatchOK, WasDelivered, ElaboratedWasDelivered
  <1>3. ExposedOK'
    BY <1>1 DEF Inv, ExposedOK
  <1> QED
    BY <1>1, <1>2, <1>3 DEF Inv

LEMMA NextInv == Inv /\ [Next]_vars => Inv'
  <1> SUFFICES ASSUME Inv, [Next]_vars PROVE Inv'
    OBVIOUS
  <1>1. CASE \E q \in Queues, n \in 1..MaxBatch : Send(q, n)
    BY <1>1, SendInv
  <1>2. ASSUME NEW w \in Workers, Work(w) PROVE Inv'
    <2>1. CASE OnTimer(w)
      BY <2>1, OnTimerInv
    <2>2. CASE \E q \in Queues : Reserve(w, q)
      BY <2>2, ReserveInv
    <2>3. CASE Fetch(w)
      BY <2>3, FetchInv
    <2>4. CASE Deliver(w)
      BY <2>4, DeliverInv
    <2>5. CASE Mark(w)
      BY <2>5, MarkInv
    <2>6. CASE Release(w)
      BY <2>6, ReleaseInv
    <2>7. CASE EndOfBatch(w)
      BY <2>7, EndOfBatchInv
    <2>8. CASE EndOfTick(w)
      BY <2>8, LeaveInv
    <2> QED
      BY <1>2, <2>1, <2>2, <2>3, <2>4, <2>5, <2>6, <2>7, <2>8 DEF Work
  <1>3. CASE \E w \in Workers : StatementFails(w)
    BY <1>3, LeaveInv
  <1>4. CASE \E s \in Servers : Crash(s)
    BY <1>4, CrashInv
  <1>5. CASE UNCHANGED vars
    BY <1>5 DEF vars, Inv, TypeOK, Tick, Ids, OneTick, BatchOK, WasDelivered,
                ElaboratedWasDelivered, ExposedOK, Ready, Idle, Handlers
  <1>6. CASE \E s \in Servers : StartUp(s)
    BY <1>6, StartUpInv
  <1> QED
    BY <1>1, <1>2, <1>3, <1>4, <1>5, <1>6 DEF Next

LEMMA Invariance == Spec => []Inv
  BY InitInv, NextInv, PTL DEF Spec

(***************************************************************************)
(* The table, the flags and the workers keep their types: in particular a  *)
(* tick never reaches the UPDATE of a row without a row to update.         *)
(***************************************************************************)
THEOREM TypeCorrectness == Spec => []TypeOK
  <1>1. Inv => TypeOK
    BY DEF Inv
  <1> QED
    BY <1>1, Invariance, PTL

(***************************************************************************)
(* Whatever the servers, ticks, failures and crashes, a row marked as      *)
(* elaborated was handled by some tick, and every handler subscribed to    *)
(* its type was given it, unless a server was starting while it waited.    *)
(***************************************************************************)
THEOREM ElaboratedMeansDelivered == Spec => []ElaboratedWasDelivered
  <1>1. Inv => ElaboratedWasDelivered
    BY DEF Inv
  <1> QED
    BY <1>1, Invariance, PTL

(***************************************************************************)
(* The field _running keeps the ticks of one server apart.                 *)
(***************************************************************************)
THEOREM TicksDoNotOverlap == Spec => []OneTick
  <1>1. Inv => OneTick
    BY DEF Inv
  <1> QED
    BY <1>1, Invariance, PTL

-----------------------------------------------------------------------------
(***************************************************************************)
(* The copies of a message.  The bound is not inductive: what keeps a      *)
(* server from a second copy is that a message it may still deliver is     *)
(* settled, one below the bound, from its SELECT to its delivery; that the *)
(* SELECT returns no row twice; and that between the delivery and the      *)
(* UPDATE of the row no other tick of the server can fetch it.             *)
(***************************************************************************)
Settled(m, s) == Cardinality(Copies(m, s)) <= failures + starts[s]

Underway(m, s) ==
  \E w \in Workers :
    Home[w] = s /\ worker[w].phase = "marking" /\ Head(worker[w].batch) = m

NotElaboratedSettled ==
  \A m \in Ids, s \in Servers :
    ~messages[m].elaborated => Settled(m, s) \/ Underway(m, s)

BatchSettled(w) ==
  worker[w].phase \in {"delivering", "marking", "releasing"} =>
    /\ \A j, k \in DOMAIN worker[w].batch : j < k => worker[w].batch[j] # worker[w].batch[k]
    /\ \A k \in DOMAIN worker[w].batch :
         k > 1 \/ worker[w].phase = "delivering" => Settled(worker[w].batch[k], Home[w])

CopiesInv ==
  /\ CopiesAreAccountedFor
  /\ NotElaboratedSettled
  /\ \A w \in Workers : BatchSettled(w)

LEMMA CopiesAreFinite ==
  ASSUME TypeOK, NEW m, NEW s
  PROVE  /\ IsFiniteSet(Copies(m, s)) /\ Cardinality(Copies(m, s)) \in Nat
         /\ m \notin Ids => Cardinality(Copies(m, s)) = 0
  <1>1. DOMAIN delivered = 1..Len(delivered) /\ Len(delivered) \in Nat
    BY DEF TypeOK
  <1>2. IsFiniteSet(DOMAIN delivered)
    BY <1>1, FS_Interval
  <1>3. Copies(m, s) \subseteq DOMAIN delivered
    BY DEF Copies
  <1>4. IsFiniteSet(Copies(m, s)) /\ Cardinality(Copies(m, s)) \in Nat
    BY <1>2, <1>3, FS_Subset, FS_CardinalityType
  <1>5. ASSUME m \notin Ids PROVE Cardinality(Copies(m, s)) = 0
    <2>1. \A k \in DOMAIN delivered : delivered[k].msg \in Ids
      <3>1. delivered \in Seq(Deliveries)
        BY DEF TypeOK, Deliveries
      <3>2. \A k \in DOMAIN delivered : delivered[k] \in Deliveries
        BY <3>1, ElementsOf
      <3> QED
        BY <3>2 DEF Deliveries
    <2>2. Copies(m, s) = {}
      BY <1>5, <2>1 DEF Copies
    <2> QED
      BY <2>2, FS_EmptySet
  <1> QED
    BY <1>4, <1>5

LEMMA Counts ==
  ASSUME TypeOK, NEW s \in Servers
  PROVE  failures \in Nat /\ starts[s] \in Nat
  BY DEF TypeOK

\* A step that delivers nothing and in which nothing fails.
LEMMA QuietCopies ==
  ASSUME Inv, CopiesInv, NEW w \in Workers, Others(w), Ids' = Ids,
         UNCHANGED << delivered, failures, starts >>,
         \A m \in Ids : messages[m].elaborated => messages'[m].elaborated,
         worker[w].phase = "marking" => messages'[Head(worker[w].batch)].elaborated,
         BatchSettled(w)'
  PROVE  CopiesInv'
  <1>1. \A m, s : Settled(m, s) => Settled(m, s)'
    BY DEF Settled, Copies
  <1>2. CopiesAreAccountedFor'
    BY DEF CopiesInv, CopiesAreAccountedFor, Copies
  <1>3. NotElaboratedSettled'
    <2> SUFFICES ASSUME NEW m \in Ids, NEW s \in Servers, ~messages'[m].elaborated
                 PROVE  Settled(m, s)' \/ Underway(m, s)'
      BY DEF NotElaboratedSettled
    <2>1. Settled(m, s) \/ Underway(m, s)
      BY DEF CopiesInv, NotElaboratedSettled
    <2>2. CASE Settled(m, s)
      BY <1>1, <2>2
    <2>3. CASE Underway(m, s)
      <3>1. PICK v \in Workers :
              Home[v] = s /\ worker[v].phase = "marking" /\ Head(worker[v].batch) = m
        BY <2>3 DEF Underway
      <3>2. v # w
        BY <3>1
      <3>3. worker'[v] = worker[v]
        BY <3>2 DEF Others
      <3> QED
        BY <3>1, <3>3 DEF Underway
    <2> QED
      BY <2>1, <2>2, <2>3
  <1>4. ASSUME NEW v \in Workers PROVE BatchSettled(v)'
    <2>1. CASE v = w
      BY <2>1
    <2>2. CASE v # w
      <3>1. worker'[v] = worker[v] /\ BatchSettled(v)
        BY <2>2 DEF Others, CopiesInv
      <3>2. \A m, s : Settled(m, s)' <=> Settled(m, s)
        BY DEF Settled, Copies
      <3> QED
        BY <3>1, <3>2 DEF BatchSettled
    <2> QED
      BY <2>1, <2>2
  <1> QED
    BY <1>2, <1>3, <1>4 DEF CopiesInv

LEMMA InitCopies == Init => CopiesInv
  BY DEF Init, CopiesInv, CopiesAreAccountedFor, NotElaboratedSettled, BatchSettled, Ids, Idle

LEMMA SendCopies ==
  ASSUME Inv, CopiesInv, NEW q \in Queues, NEW n \in 1..MaxBatch, Send(q, n)
  PROVE  CopiesInv'
  <1>1. /\ Ids \subseteq Ids' /\ \A m \in Ids : messages'[m] = messages[m]
    BY SendType DEF Inv
  <1>2. UNCHANGED << running, starts, worker, delivered, failures >>
    BY DEF Send
  <1>3. \A m, s : Copies(m, s)' = Copies(m, s)
    BY <1>2 DEF Copies
  <1>4. \A m, s : Settled(m, s)' = Settled(m, s)
    BY <1>2, <1>3 DEF Settled
  <1>5. ASSUME NEW m \in Ids' \ Ids, NEW s \in Servers
        PROVE  Settled(m, s)
    <2>1. Cardinality(Copies(m, s)) = 0
      BY CopiesAreFinite DEF Inv
    <2>2. failures \in Nat /\ starts[s] \in Nat
      BY Counts DEF Inv
    <2> QED
      BY <2>1, <2>2 DEF Settled
  <1>6. CopiesAreAccountedFor'
    <2> SUFFICES ASSUME NEW m \in Ids', NEW s \in Servers
                 PROVE  Cardinality(Copies(m, s)) <= 1 + failures + starts[s]
      BY <1>2, <1>3 DEF CopiesAreAccountedFor
    <2>1. CASE m \in Ids
      BY <2>1 DEF CopiesInv, CopiesAreAccountedFor
    <2>2. CASE m \notin Ids
      <3>1. Settled(m, s)
        BY <1>5, <2>2
      <3>2. failures \in Nat /\ starts[s] \in Nat /\ Cardinality(Copies(m, s)) \in Nat
        BY Counts, CopiesAreFinite DEF Inv
      <3> QED
        BY <3>1, <3>2 DEF Settled
    <2> QED
      BY <2>1, <2>2
  <1>7. NotElaboratedSettled'
    <2> SUFFICES ASSUME NEW m \in Ids', NEW s \in Servers, ~messages'[m].elaborated
                 PROVE  Settled(m, s)' \/ Underway(m, s)'
      BY DEF NotElaboratedSettled
    <2>1. CASE m \in Ids
      <3>1. Settled(m, s) \/ Underway(m, s)
        BY <1>1, <2>1 DEF CopiesInv, NotElaboratedSettled
      <3>2. Underway(m, s) => Underway(m, s)'
        BY <1>2 DEF Underway
      <3> QED
        BY <1>4, <3>1, <3>2
    <2>2. CASE m \notin Ids
      BY <1>4, <1>5, <2>2
    <2> QED
      BY <2>1, <2>2
  <1>8. \A w \in Workers : BatchSettled(w)'
    BY <1>2 DEF CopiesInv, BatchSettled, Settled, Copies
  <1> QED
    BY <1>6, <1>7, <1>8 DEF CopiesInv

LEMMA OnTimerCopies ==
  ASSUME Inv, CopiesInv, NEW w \in Workers, OnTimer(w)
  PROVE  CopiesInv'
  <1>1. Others(w) /\ worker'[w].phase = "scanning"
    BY OnTimerStep DEF Inv
  <1>2. UNCHANGED << messages, starts, delivered, failures >> /\ worker[w].phase # "marking"
    BY DEF OnTimer, Idle, history
  <1>3. BatchSettled(w)'
    BY <1>1 DEF BatchSettled
  <1>4. Ids' = Ids
    BY <1>2 DEF Ids
  <1> QED
    BY <1>1, <1>2, <1>3, <1>4, QuietCopies

LEMMA ReserveCopies ==
  ASSUME Inv, CopiesInv, NEW w \in Workers, NEW q \in Queues, Reserve(w, q)
  PROVE  CopiesInv'
  <1>1. /\ Others(w) /\ Ids' = Ids /\ worker'[w].phase \in {"scanning", "fetching"}
        /\ \A m \in Ids : messages'[m].elaborated = messages[m].elaborated
    BY ReserveStep DEF Inv
  <1>2. UNCHANGED << starts, delivered, failures >> /\ worker[w].phase # "marking"
    BY DEF Reserve, history
  <1>3. BatchSettled(w)'
    BY <1>1 DEF BatchSettled
  <1> QED
    BY <1>1, <1>2, <1>3, QuietCopies

\* A row that the SELECT returns is settled: no other tick has it in hand.
LEMMA FetchCopies ==
  ASSUME Inv, CopiesInv, NEW w \in Workers, Fetch(w)
  PROVE  CopiesInv'
  <1>1. /\ Others(w) /\ worker[w].phase = "fetching" /\ worker'[w].phase = "delivering"
        /\ worker'[w].batch \in Sorted(Reserved(Home[w], worker[w].queue))
    BY FetchStep DEF Inv
  <1>2. UNCHANGED << messages, starts, delivered, failures >> /\ Ids' = Ids
    BY DEF Fetch, Ids, history
  <1>3. PICK s : s = worker'[w].batch /\ s \in Sorted(Reserved(Home[w], worker[w].queue))
    BY <1>1
  <1>4. worker[w] # Idle
    BY <1>1, ActiveTick DEF Inv
  <1>5. \A m : ~Underway(m, Home[w])
    <2> SUFFICES ASSUME NEW v \in Workers, Home[v] = Home[w], worker[v].phase = "marking"
                 PROVE  FALSE
      BY DEF Underway
    <2>1. v # w
      BY <1>1
    <2> QED
      BY <1>4, <2>1 DEF Inv, OneTick, Idle
  <1>6. ASSUME NEW m \in Reserved(Home[w], worker[w].queue) PROVE Settled(m, Home[w])
    <2>1. m \in Ids /\ ~messages[m].elaborated
      BY DEF Reserved
    <2> QED
      BY <1>5, <2>1 DEF CopiesInv, NotElaboratedSettled
  <1>7. /\ \A k \in DOMAIN s : s[k] \in Reserved(Home[w], worker[w].queue)
        /\ \A j, k \in DOMAIN s : j < k => s[j] # s[k]
    <2>1. Reserved(Home[w], worker[w].queue) \subseteq Ids
      BY DEF Reserved
    <2> QED
      BY <1>3, <2>1, SortedRows DEF Inv
  <1>8. \A k \in DOMAIN s : Settled(s[k], Home[w])
    BY <1>6, <1>7
  <1>9. BatchSettled(w)'
    BY <1>2, <1>3, <1>7, <1>8 DEF BatchSettled, Settled, Copies
  <1> QED
    BY <1>1, <1>2, <1>9, QuietCopies

LEMMA DeliverCopies ==
  ASSUME Inv, CopiesInv, NEW w \in Workers, Deliver(w)
  PROVE  CopiesInv'
  <1>1. /\ Others(w) /\ worker[w].phase = "delivering" /\ worker'[w].phase = "marking"
        /\ worker'[w].batch = worker[w].batch
        /\ worker[w].batch \in Seq(Ids) /\ worker[w].batch # << >>
    BY DeliverStep DEF Inv
  <1>2. /\ UNCHANGED << messages, running, starts, failures >>
        /\ delivered' = Append(delivered, Delivery(w))
    BY DEF Deliver
  <1>3. worker[w] # Idle
    BY <1>1, ActiveTick DEF Inv
  <1>4. PICK b \in Seq(Ids) : b = worker[w].batch /\ b # << >>
    BY <1>1
  <1> DEFINE h == Head(b)
             d == Delivery(w)
  <1>5. /\ h \in Ids /\ h = b[1] /\ 1 \in DOMAIN b
        /\ DOMAIN b = 1..Len(b) /\ Len(b) \in Nat
    BY <1>4
  <1>6. d = Delivery(w) /\ d.msg = h /\ d.by[1] = Home[w]
    BY <1>4, Zenon DEF Delivery, Handler
  <1> HIDE DEF d, h
  <1>7. /\ Len(delivered) \in Nat /\ DOMAIN delivered = 1..Len(delivered)
        /\ DOMAIN delivered' = DOMAIN delivered \cup {Len(delivered) + 1}
        /\ delivered'[Len(delivered) + 1] = d
        /\ \A k \in DOMAIN delivered : delivered'[k] = delivered[k]
    <2>1. delivered \in Seq(Deliveries)
      BY DEF Inv, TypeOK, Deliveries
    <2>2. delivered' = Append(delivered, d)
      BY <1>2, <1>6
    <2> QED
      BY <2>1, <2>2
  <1>8. ASSUME NEW m \in Ids, NEW s \in Servers, m # h \/ s # Home[w]
        PROVE  Copies(m, s)' = Copies(m, s)
    BY <1>6, <1>7, <1>8 DEF Copies
  <1>9. Copies(h, Home[w])' \subseteq Copies(h, Home[w]) \cup {Len(delivered) + 1}
    BY <1>7 DEF Copies
  <1>10. /\ Settled(h, Home[w])
         /\ \A j, k \in DOMAIN b : j < k => b[j] # b[k]
         /\ \A k \in DOMAIN b : Settled(b[k], Home[w])
    BY <1>1, <1>4, <1>5 DEF CopiesInv, BatchSettled
  <1>11. failures \in Nat /\ \A s \in Servers : starts[s] \in Nat
    BY Counts DEF Inv
  <1>12. Cardinality(Copies(h, Home[w])') <= 1 + failures + starts[Home[w]]
    <2> DEFINE old == Copies(h, Home[w])
               new == Copies(h, Home[w])'
    <2>1. IsFiniteSet(old) /\ Cardinality(old) \in Nat
      BY CopiesAreFinite DEF Inv
    <2>2. /\ IsFiniteSet(old \cup {Len(delivered) + 1})
          /\ Cardinality(old \cup {Len(delivered) + 1}) <= Cardinality(old) + 1
      <3> HIDE DEF old
      <3>1. PICK x : x = Len(delivered) + 1
        OBVIOUS
      <3>2. /\ IsFiniteSet(old \cup {x})
            /\ Cardinality(old \cup {x}) = IF x \in old THEN Cardinality(old)
                                           ELSE Cardinality(old) + 1
        BY <2>1, FS_AddElement
      <3>3. Cardinality(old \cup {x}) <= Cardinality(old) + 1
        BY <2>1, <3>2
      <3> QED
        BY <3>1, <3>2, <3>3
    <2>3. new \in SUBSET (old \cup {Len(delivered) + 1})
      BY <1>9
    <2>4. /\ Cardinality(new) <= Cardinality(old \cup {Len(delivered) + 1})
          /\ IsFiniteSet(new) /\ Cardinality(new) \in Nat
          /\ Cardinality(old \cup {Len(delivered) + 1}) \in Nat
      <3> HIDE DEF old, new
      <3> QED
        BY <2>2, <2>3, FS_Subset, FS_CardinalityType
    <2>5. Cardinality(old) <= failures + starts[Home[w]]
      BY <1>10 DEF Settled
    <2> HIDE DEF old, new
    <2>6. Cardinality(new) <= 1 + failures + starts[Home[w]]
      BY <1>11, <2>1, <2>2, <2>4, <2>5
    <2> QED
      BY <2>6 DEF new
  <1>13. ASSUME NEW m \in Ids, NEW s \in Servers, m # h \/ s # Home[w], Settled(m, s)
         PROVE  Settled(m, s)'
    BY <1>2, <1>8, <1>13 DEF Settled
  <1>14. Ids' = Ids
    BY <1>2 DEF Ids
  <1>15. CopiesAreAccountedFor'
    <2> SUFFICES ASSUME NEW m \in Ids, NEW s \in Servers
                 PROVE  Cardinality(Copies(m, s)') <= 1 + failures + starts[s]
      BY <1>2, <1>14 DEF CopiesAreAccountedFor
    <2>1. CASE m = h /\ s = Home[w]
      BY <1>12, <2>1
    <2>2. CASE m # h \/ s # Home[w]
      BY <1>8, <2>2 DEF CopiesInv, CopiesAreAccountedFor
    <2> QED
      BY <2>1, <2>2
  <1>16. NotElaboratedSettled'
    <2> SUFFICES ASSUME NEW m \in Ids, NEW s \in Servers, ~messages[m].elaborated
                 PROVE  Settled(m, s)' \/ Underway(m, s)'
      BY <1>2, <1>14 DEF NotElaboratedSettled
    <2>1. CASE m = h /\ s = Home[w]
      BY <1>1, <1>4, <2>1 DEF Underway, h
    <2>2. CASE m # h \/ s # Home[w]
      <3>1. Settled(m, s) \/ Underway(m, s)
        BY DEF CopiesInv, NotElaboratedSettled
      <3>2. CASE Settled(m, s)
        BY <1>13, <2>2, <3>2
      <3>3. CASE Underway(m, s)
        <4>1. PICK v \in Workers :
                Home[v] = s /\ worker[v].phase = "marking" /\ Head(worker[v].batch) = m
          BY <3>3 DEF Underway
        <4>2. v # w
          BY <1>1, <4>1
        <4> QED
          BY <1>1, <4>1, <4>2 DEF Underway, Others
      <3> QED
        BY <3>1, <3>2, <3>3
    <2> QED
      BY <2>1, <2>2
  <1>17. ASSUME NEW v \in Workers PROVE BatchSettled(v)'
    <2>1. CASE v = w
      <3>1. \A k \in DOMAIN b : k > 1 => b[k] \in Ids /\ b[k] # h
        BY <1>4, <1>5, <1>10
      <3>2. \A k \in DOMAIN b : k > 1 => Settled(b[k], Home[w])'
        BY <1>10, <1>13, <3>1
      <3>3. worker'[w].batch = b
        BY <1>1, <1>4
      <3> QED
        BY <1>1, <1>10, <2>1, <3>2, <3>3 DEF BatchSettled, Settled, Copies
    <2>2. CASE v # w
      <3>1. worker'[v] = worker[v]
        BY <1>1, <2>2 DEF Others
      <3> SUFFICES ASSUME worker[v].phase \in {"delivering", "marking", "releasing"}
                   PROVE  BatchSettled(v)'
        BY <3>1 DEF BatchSettled
      <3>2. worker[v] \in Tick /\ worker[v] # Idle
        BY ActiveTick DEF Inv
      <3>3. Home[v] # Home[w]
        BY <1>3, <2>2, <3>2 DEF Inv, OneTick
      <3>4. PICK c \in Seq(Ids) : c = worker[v].batch
        BY <3>2 DEF Tick
      <3>5. \A k \in DOMAIN c : c[k] \in Ids
        BY <3>4
      <3>6. \A k \in DOMAIN c : Settled(c[k], Home[v]) => Settled(c[k], Home[v])'
        BY <1>13, <3>3, <3>5
      <3>7. BatchSettled(v)
        BY DEF CopiesInv
      <3>8. /\ \A j, k \in DOMAIN c : j < k => c[j] # c[k]
            /\ \A k \in DOMAIN c :
                 k > 1 \/ worker[v].phase = "delivering" => Settled(c[k], Home[v])
        BY <3>4, <3>7 DEF BatchSettled
      <3>9. \A k \in DOMAIN c :
              k > 1 \/ worker[v].phase = "delivering" => Settled(c[k], Home[v])'
        BY <3>6, <3>8
      <3>10. worker'[v].batch = c /\ worker'[v].phase = worker[v].phase
        BY <3>1, <3>4
      <3> QED
        BY <3>8, <3>9, <3>10 DEF BatchSettled, Settled, Copies
    <2> QED
      BY <2>1, <2>2
  <1> QED
    BY <1>15, <1>16, <1>17 DEF CopiesInv

LEMMA MarkCopies ==
  ASSUME Inv, CopiesInv, NEW w \in Workers, Mark(w)
  PROVE  CopiesInv'
  <1>1. worker[w].phase = "marking"
    BY DEF Mark, Step
  <1>2. worker[w].batch # << >>
    BY <1>1 DEF Inv, BatchOK
  <1>3. /\ Others(w) /\ Ids' = Ids /\ Head(worker[w].batch) \in Ids
        /\ worker'[w].phase = "releasing" /\ worker'[w].batch = worker[w].batch
        /\ messages'[Head(worker[w].batch)].elaborated
        /\ \A m \in Ids \ {Head(worker[w].batch)} : messages'[m] = messages[m]
    BY <1>2, MarkStep DEF Inv
  <1>4. UNCHANGED << starts, delivered, failures >>
    BY DEF Mark, history
  <1>5. \A m \in Ids : messages[m].elaborated => messages'[m].elaborated
    BY <1>3
  <1>6. BatchSettled(w)'
    BY <1>1, <1>3, <1>4 DEF CopiesInv, BatchSettled, Settled, Copies
  <1> QED
    BY <1>3, <1>4, <1>5, <1>6, QuietCopies

LEMMA TailOf ==
  ASSUME NEW S, NEW s \in Seq(S), s # << >>
  PROVE  \A k \in DOMAIN Tail(s) :
           k \in Nat /\ k + 1 \in DOMAIN s /\ k + 1 > 1 /\ Tail(s)[k] = s[k + 1]
  OBVIOUS

LEMMA ReleaseCopies ==
  ASSUME Inv, CopiesInv, NEW w \in Workers, Release(w)
  PROVE  CopiesInv'
  <1>1. worker[w].phase = "releasing"
    BY DEF Release, history
  <1>2. worker[w].batch # << >>
    BY <1>1 DEF Inv, BatchOK
  <1>3. /\ Others(w) /\ Ids' = Ids /\ worker'[w].phase = "delivering"
        /\ worker[w].batch \in Seq(Ids) /\ worker'[w].batch = Tail(worker[w].batch)
        /\ \A m \in Ids : messages'[m].elaborated = messages[m].elaborated
    BY <1>2, ReleaseStep DEF Inv
  <1>4. UNCHANGED << starts, delivered, failures >>
    BY DEF Release, history
  <1>5. PICK b \in Seq(Ids) : b = worker[w].batch /\ b # << >>
    BY <1>2, <1>3
  <1>6. /\ \A j, k \in DOMAIN b : j < k => b[j] # b[k]
        /\ \A k \in DOMAIN b : k > 1 => Settled(b[k], Home[w])
    BY <1>1, <1>5 DEF CopiesInv, BatchSettled
  <1>7. \A k \in DOMAIN Tail(b) :
          k \in Nat /\ k + 1 \in DOMAIN b /\ k + 1 > 1 /\ Tail(b)[k] = b[k + 1]
    BY <1>5, TailOf
  <1>8. /\ \A k \in DOMAIN Tail(b) : Settled(Tail(b)[k], Home[w])
        /\ \A j, k \in DOMAIN Tail(b) : j < k => Tail(b)[j] # Tail(b)[k]
    <2>1. \A k \in DOMAIN Tail(b) : Settled(Tail(b)[k], Home[w])
      BY <1>6, <1>7
    <2>2. ASSUME NEW j \in DOMAIN Tail(b), NEW k \in DOMAIN Tail(b), j < k
          PROVE  Tail(b)[j] # Tail(b)[k]
      <3>1. j + 1 < k + 1 /\ j + 1 \in DOMAIN b /\ k + 1 \in DOMAIN b
        BY <1>7, <2>2
      <3> QED
        BY <1>6, <1>7, <3>1
    <2> QED
      BY <2>1, <2>2
  <1>9. worker'[w].batch = Tail(b)
    BY <1>3, <1>5
  <1>10. PICK t : t = Tail(b)
    OBVIOUS
  <1>11. BatchSettled(w)'
    BY <1>4, <1>8, <1>9, <1>10 DEF BatchSettled, Settled, Copies
  <1> QED
    BY <1>1, <1>3, <1>4, <1>11, QuietCopies

LEMMA EndOfBatchCopies ==
  ASSUME Inv, CopiesInv, NEW w \in Workers, EndOfBatch(w)
  PROVE  CopiesInv'
  <1>1. Others(w) /\ worker[w].phase = "delivering" /\ worker'[w].phase = "scanning"
    BY EndOfBatchStep DEF Inv
  <1>2. UNCHANGED << messages, starts, delivered, failures >> /\ Ids' = Ids
    BY DEF EndOfBatch, Ids, history
  <1>3. BatchSettled(w)'
    BY <1>1 DEF BatchSettled
  <1> QED
    BY <1>1, <1>2, <1>3, QuietCopies

LEMMA EndOfTickCopies ==
  ASSUME Inv, CopiesInv, NEW w \in Workers, EndOfTick(w)
  PROVE  CopiesInv'
  <1>1. Others(w) /\ worker'[w] = Idle
    BY LeaveStep DEF Inv
  <1>2. /\ UNCHANGED << messages, starts, delivered, failures >> /\ Ids' = Ids
        /\ worker[w].phase = "scanning"
    BY DEF EndOfTick, Ids, history
  <1>3. BatchSettled(w)'
    BY <1>1 DEF BatchSettled, Idle
  <1> QED
    BY <1>1, <1>2, <1>3, QuietCopies

\* A failure settles every message.
LEMMA StatementFailsCopies ==
  ASSUME Inv, CopiesInv, NEW w \in Workers, StatementFails(w)
  PROVE  CopiesInv'
  <1>1. Others(w) /\ worker'[w] = Idle
    BY LeaveStep DEF Inv
  <1>2. /\ UNCHANGED << messages, starts, delivered >> /\ failures' = failures + 1
        /\ Ids' = Ids
    BY DEF StatementFails, Ids, history
  <1>3. \A m, s : Copies(m, s)' = Copies(m, s)
    BY <1>2 DEF Copies
  <1>4. ASSUME NEW m \in Ids, NEW s \in Servers
        PROVE  Settled(m, s)' /\ Cardinality(Copies(m, s)') <= 1 + failures' + starts'[s]
    <2>1. failures \in Nat /\ starts[s] \in Nat /\ Cardinality(Copies(m, s)) \in Nat
      BY Counts, CopiesAreFinite DEF Inv
    <2>2. Cardinality(Copies(m, s)) <= 1 + failures + starts[s]
      BY DEF CopiesInv, CopiesAreAccountedFor
    <2>3. Copies(m, s)' = Copies(m, s)
      BY <1>3
    <2> QED
      BY <1>2, <2>1, <2>2, <2>3 DEF Settled
  <1>5. CopiesAreAccountedFor' /\ NotElaboratedSettled'
    BY <1>2, <1>4 DEF CopiesAreAccountedFor, NotElaboratedSettled
  <1>6. ASSUME NEW v \in Workers PROVE BatchSettled(v)'
    <2>1. CASE v = w
      BY <1>1, <2>1 DEF BatchSettled, Idle
    <2>2. CASE v # w /\ worker[v].phase \in {"delivering", "marking", "releasing"}
      <3>1. worker'[v] = worker[v]
        BY <1>1, <2>2 DEF Others
      <3>2. worker[v] \in Tick
        BY <2>2, ActiveTick DEF Inv
      <3>3. PICK c \in Seq(Ids) : c = worker[v].batch
        BY <3>2 DEF Tick
      <3>4. \A k \in DOMAIN c : Settled(c[k], Home[v])'
        BY <1>4, ElementsOf
      <3>5. \A j, k \in DOMAIN c : j < k => c[j] # c[k]
        BY <2>2, <3>3 DEF CopiesInv, BatchSettled
      <3>6. worker'[v].batch = c
        BY <3>1, <3>3
      <3> QED
        BY <3>4, <3>5, <3>6 DEF BatchSettled, Settled, Copies
    <2>3. CASE v # w /\ worker[v].phase \notin {"delivering", "marking", "releasing"}
      BY <1>1, <2>3 DEF BatchSettled, Others
    <2> QED
      BY <2>1, <2>2, <2>3
  <1> QED
    BY <1>5, <1>6 DEF CopiesInv

\* So does a restart, for the server that is started again.
LEMMA CrashCopies ==
  ASSUME Inv, CopiesInv, NEW r \in Servers, Crash(r)
  PROVE  CopiesInv'
  <1>1. \A w \in Workers : worker'[w] = IF Home[w] = r THEN Idle ELSE worker[w]
    BY CrashStep DEF Inv
  <1>2. /\ UNCHANGED << messages, delivered, failures >> /\ Ids' = Ids
        /\ starts' = [starts EXCEPT ![r] = @ + 1]
    BY DEF Crash, Ids
  <1>3. \A m, s : Copies(m, s)' = Copies(m, s)
    BY <1>2 DEF Copies
  <1>4. starts'[r] = starts[r] + 1 /\ \A s \in Servers \ {r} : starts'[s] = starts[s]
    BY <1>2 DEF Inv, TypeOK
  <1>5. ASSUME NEW m \in Ids, NEW s \in Servers
        PROVE  /\ s = r \/ Settled(m, s) => Settled(m, s)'
               /\ Cardinality(Copies(m, s)') <= 1 + failures' + starts'[s]
    <2>1. failures \in Nat /\ starts[s] \in Nat /\ Cardinality(Copies(m, s)) \in Nat
      BY Counts, CopiesAreFinite DEF Inv
    <2>2. Cardinality(Copies(m, s)) <= 1 + failures + starts[s]
      BY DEF CopiesInv, CopiesAreAccountedFor
    <2>3. Copies(m, s)' = Copies(m, s)
      BY <1>3
    <2>4. CASE s = r
      BY <1>2, <1>4, <2>1, <2>2, <2>3, <2>4 DEF Settled
    <2>5. CASE s # r
      BY <1>2, <1>4, <2>1, <2>2, <2>3, <2>5 DEF Settled
    <2> QED
      BY <2>4, <2>5
  <1>6. CopiesAreAccountedFor'
    BY <1>2, <1>5 DEF CopiesAreAccountedFor
  <1>7. NotElaboratedSettled'
    <2> SUFFICES ASSUME NEW m \in Ids, NEW s \in Servers, ~messages[m].elaborated, s # r
                 PROVE  Settled(m, s)' \/ Underway(m, s)'
      BY <1>2, <1>5 DEF NotElaboratedSettled
    <2>1. Settled(m, s) \/ Underway(m, s)
      BY DEF CopiesInv, NotElaboratedSettled
    <2>2. Underway(m, s) => Underway(m, s)'
      BY <1>1 DEF Underway
    <2> QED
      BY <1>5, <2>1, <2>2
  <1>8. ASSUME NEW v \in Workers PROVE BatchSettled(v)'
    <2>1. CASE Home[v] = r
      BY <1>1, <2>1 DEF BatchSettled, Idle
    <2>2. CASE Home[v] # r /\ worker[v].phase \in {"delivering", "marking", "releasing"}
      <3>1. worker'[v] = worker[v]
        BY <1>1, <2>2
      <3>2. worker[v] \in Tick
        BY <2>2, ActiveTick DEF Inv
      <3>3. PICK c \in Seq(Ids) : c = worker[v].batch
        BY <3>2 DEF Tick
      <3>4. \A k \in DOMAIN c : Settled(c[k], Home[v]) => Settled(c[k], Home[v])'
        BY <1>5, ElementsOf
      <3>5. /\ \A j, k \in DOMAIN c : j < k => c[j] # c[k]
            /\ \A k \in DOMAIN c :
                 k > 1 \/ worker[v].phase = "delivering" => Settled(c[k], Home[v])
        BY <2>2, <3>3 DEF CopiesInv, BatchSettled
      <3>6. \A k \in DOMAIN c :
              k > 1 \/ worker[v].phase = "delivering" => Settled(c[k], Home[v])'
        BY <3>4, <3>5
      <3>7. worker'[v].batch = c /\ worker'[v].phase = worker[v].phase
        BY <3>1, <3>3
      <3> QED
        BY <3>5, <3>6, <3>7 DEF BatchSettled, Settled, Copies
    <2>3. CASE Home[v] # r /\ worker[v].phase \notin {"delivering", "marking", "releasing"}
      BY <1>1, <2>3 DEF BatchSettled
    <2> QED
      BY <2>1, <2>2, <2>3
  <1> QED
    BY <1>6, <1>7, <1>8 DEF CopiesInv

LEMMA NextCopies == Inv /\ CopiesInv /\ [Next]_vars => CopiesInv'
  <1> SUFFICES ASSUME Inv, CopiesInv, [Next]_vars PROVE CopiesInv'
    OBVIOUS
  <1>1. CASE \E q \in Queues, n \in 1..MaxBatch : Send(q, n)
    BY <1>1, SendCopies
  <1>2. ASSUME NEW w \in Workers, Work(w) PROVE CopiesInv'
    <2>1. CASE OnTimer(w)
      BY <2>1, OnTimerCopies
    <2>2. CASE \E q \in Queues : Reserve(w, q)
      BY <2>2, ReserveCopies
    <2>3. CASE Fetch(w)
      BY <2>3, FetchCopies
    <2>4. CASE Deliver(w)
      BY <2>4, DeliverCopies
    <2>5. CASE Mark(w)
      BY <2>5, MarkCopies
    <2>6. CASE Release(w)
      BY <2>6, ReleaseCopies
    <2>7. CASE EndOfBatch(w)
      BY <2>7, EndOfBatchCopies
    <2>8. CASE EndOfTick(w)
      BY <2>8, EndOfTickCopies
    <2> QED
      BY <1>2, <2>1, <2>2, <2>3, <2>4, <2>5, <2>6, <2>7, <2>8 DEF Work
  <1>3. CASE \E w \in Workers : StatementFails(w)
    BY <1>3, StatementFailsCopies
  <1>4. CASE \E s \in Servers : Crash(s)
    BY <1>4, CrashCopies
  <1>5. CASE UNCHANGED vars
    BY <1>5 DEF vars, CopiesInv, CopiesAreAccountedFor, NotElaboratedSettled, BatchSettled,
                Settled, Underway, Copies, Ids
  <1>6. CASE \E s \in Servers : StartUp(s)
    <2>1. UNCHANGED << messages, starts, worker, delivered, failures >> /\ Ids' = Ids
      BY <1>6, StartUpStep DEF Inv
    <2> QED
      BY <2>1 DEF CopiesInv, CopiesAreAccountedFor, NotElaboratedSettled, BatchSettled,
                  Settled, Underway, Copies
  <1> QED
    BY <1>1, <1>2, <1>3, <1>4, <1>5, <1>6 DEF Next

(***************************************************************************)
(* A server delivers a message to its handlers once, and once more for     *)
(* each statement that failed anywhere and each restart of that server.    *)
(***************************************************************************)
THEOREM CopiesAreBounded == Spec => []CopiesAreAccountedFor
  <1>1. Inv /\ CopiesInv /\ [Next]_vars => (Inv /\ CopiesInv)'
    BY NextInv, NextCopies
  <1>2. Init => Inv /\ CopiesInv
    BY InitInv, InitCopies
  <1>3. Inv /\ CopiesInv => CopiesAreAccountedFor
    BY DEF CopiesInv
  <1> QED
    BY <1>1, <1>2, <1>3, PTL DEF Spec

-----------------------------------------------------------------------------
(***************************************************************************)
(* Without failures no reservation is lost: a tick gives up the rows it    *)
(* has reserved only by marking them or by giving them back, because its   *)
(* SELECT returned all of them.                                            *)
(***************************************************************************)
Owns(w, m) == Handler(Home[w]) = messages[m].reserved /\ Holds(w, m)

InHand(m) == messages[m].reserved # Free /\ ~messages[m].elaborated

\* What is left to show of a step of w: the other workers keep what they own.
LEMMA OwnerStep ==
  ASSUME Inv, ReservationHasOwner, NEW w \in Workers, Others(w), Ids' = Ids,
         UNCHANGED starts,
         \A m \in Ids :
           /\ messages'[m].queue = messages[m].queue
           /\ InHand(m)' => \/ Owns(w, m)'
                            \/ /\ InHand(m) /\ messages'[m].reserved = messages[m].reserved
                               /\ ~Owns(w, m)
  PROVE  ReservationHasOwner'
  <1> SUFFICES ASSUME NEW m \in Ids, InHand(m)'
               PROVE  \E v \in Workers : Owns(v, m)'
    BY DEF ReservationHasOwner, InHand, Owns
  <1>1. CASE Owns(w, m)'
    BY <1>1
  <1>2. CASE /\ InHand(m) /\ messages'[m].reserved = messages[m].reserved
             /\ ~Owns(w, m)
    <2>1. PICK v \in Workers : Owns(v, m)
      BY <1>2 DEF ReservationHasOwner, InHand, Owns
    <2>2. worker'[v] = worker[v]
      BY <1>2, <2>1 DEF Others
    <2>3. Owns(v, m)'
      BY <1>2, <2>1, <2>2 DEF Owns, Holds, Handler, Idle
    <2> QED
      BY <2>3
  <1> QED
    BY <1>1, <1>2

\* A worker without rows in its batch owns nothing, unless it is to fetch.
LEMMA NothingOwned ==
  ASSUME NEW w \in Workers, NEW m,
         worker[w] = Idle \/ (worker[w].phase # "fetching" /\ worker[w].batch = << >>)
  PROVE  ~Owns(w, m)
  BY DEF Owns, Holds

LEMMA OwnerNext ==
  ASSUME MaxFailures = 0, MaxCrashes = 0, Inv, ReservationHasOwner, [Next]_vars
  PROVE  ReservationHasOwner'
  <1>1. ASSUME NEW q \in Queues, NEW n \in 1..MaxBatch, Send(q, n)
        PROVE  ReservationHasOwner'
    <2>1. /\ \A m \in Ids : messages'[m] = messages[m]
          /\ \A m \in Ids' \ Ids : messages'[m].reserved = Free
      BY <1>1, SendType DEF Inv
    <2>2. UNCHANGED << starts, worker >>
      BY <1>1 DEF Send
    <2> SUFFICES ASSUME NEW m \in Ids', InHand(m)'
                 PROVE  \E v \in Workers : Owns(v, m)'
      BY DEF ReservationHasOwner, InHand, Owns
    <2>3. m \in Ids /\ messages'[m] = messages[m] /\ InHand(m)
      BY <2>1 DEF InHand
    <2>4. PICK v \in Workers : Owns(v, m)
      BY <2>3 DEF ReservationHasOwner, InHand, Owns
    <2>5. Owns(v, m)'
      BY <2>2, <2>3, <2>4 DEF Owns, Holds, Handler, Idle
    <2> QED
      BY <2>5
  <1>2. ASSUME NEW w \in Workers, OnTimer(w) PROVE ReservationHasOwner'
    <2>1. Others(w)
      BY <1>2, OnTimerStep DEF Inv
    <2>2. UNCHANGED << messages, starts >> /\ Ids' = Ids /\ worker[w] = Idle
      BY <1>2 DEF OnTimer, Ids
    <2>3. \A m : ~Owns(w, m)
      BY <2>2 DEF Owns, Holds
    <2>4. \A m \in Ids :
            /\ messages'[m].queue = messages[m].queue
            /\ InHand(m)' => /\ InHand(m) /\ messages'[m].reserved = messages[m].reserved
                             /\ ~Owns(w, m)
      BY <2>2, <2>3 DEF InHand
    <2> QED
      BY <2>1, <2>2, <2>4, OwnerStep
  <1>3. ASSUME NEW w \in Workers, NEW q \in Queues, Reserve(w, q)
        PROVE  ReservationHasOwner'
    <2>1. worker[w].phase = "scanning" /\ starts' = starts
      BY <1>3 DEF Reserve
    <2>2. worker[w].batch = << >>
      BY <2>1 DEF Inv, BatchOK
    <2>3. \A m : ~Owns(w, m)
      BY <2>1, <2>2, NothingOwned
    <2>4. /\ TypeOK' /\ Others(w) /\ Ids' = Ids
          /\ worker'[w].queue = q
          /\ \A m \in Ids :
               /\ messages'[m].elaborated = messages[m].elaborated
               /\ messages'[m].queue = messages[m].queue
               /\ IF messages[m].queue = q /\ IsFree(m)
                  THEN /\ messages'[m].reserved = Handler(Home[w])
                       /\ worker'[w].phase = "fetching"
                  ELSE messages'[m].reserved = messages[m].reserved
      BY <1>3, ReserveStep DEF Inv
    <2>5. worker'[w].phase = "fetching" => worker'[w] # Idle
      BY DEF Idle
    <2>6. \A m \in Ids : messages'[m].reserved = messages[m].reserved \/ Owns(w, m)'
      BY <2>1, <2>4, <2>5 DEF Owns, Holds, Handler
    <2> QED
      BY <2>1, <2>3, <2>4, <2>6, OwnerStep DEF InHand
  <1>4. ASSUME NEW w \in Workers, Fetch(w) PROVE ReservationHasOwner'
    <2> DEFINE rows == Reserved(Home[w], worker[w].queue)
    <2>1. /\ Others(w) /\ worker[w].phase = "fetching" /\ worker'[w].phase = "delivering"
          /\ worker'[w].queue = worker[w].queue
          /\ worker'[w].batch \in Sorted(rows)
      BY <1>4, FetchStep DEF Inv
    <2>2. UNCHANGED << messages, starts >> /\ Ids' = Ids
      BY <1>4 DEF Fetch, Ids
    <2>3. PICK s \in Sorted(rows) : worker'[w].batch = s
      BY <2>1
    <2>4. \A m \in rows : \E k \in DOMAIN s : s[k] = m
      <3>1. rows \subseteq Ids
        BY DEF Reserved
      <3> QED
        BY <3>1, SortedRows DEF Inv
    <2>5. ASSUME NEW m \in Ids, InHand(m), Owns(w, m)
          PROVE  Owns(w, m)'
      <3>1. m \in rows
        BY <2>5 DEF Owns, Holds, Reserved, InHand
      <3>2. worker'[w] # Idle
        BY <2>1 DEF Idle
      <3> QED
        BY <2>1, <2>2, <2>3, <2>4, <2>5, <3>1, <3>2 DEF Owns, Holds, Handler
    <2> QED
      BY <2>1, <2>2, <2>5, OwnerStep DEF InHand
  <1>5. ASSUME NEW w \in Workers, Deliver(w) PROVE ReservationHasOwner'
    <2>1. /\ Others(w) /\ worker[w].phase = "delivering" /\ worker'[w].phase = "marking"
          /\ worker'[w].queue = worker[w].queue /\ worker'[w].batch = worker[w].batch
      BY <1>5, DeliverStep DEF Inv
    <2>2. UNCHANGED << messages, starts >> /\ Ids' = Ids /\ worker'[w] # Idle
      BY <1>5, <2>1 DEF Deliver, Ids, Idle
    <2>3. \A m : Owns(w, m) => Owns(w, m)'
      BY <2>1, <2>2 DEF Owns, Holds, Handler
    <2> QED
      BY <2>1, <2>2, <2>3, OwnerStep DEF InHand
  <1>6. ASSUME NEW w \in Workers, Mark(w) PROVE ReservationHasOwner'
    <2>1. worker[w].phase = "marking"
      BY <1>6 DEF Mark, Step
    <2>2. worker[w].batch # << >>
      BY <2>1 DEF Inv, BatchOK
    <2>3. /\ TypeOK' /\ Others(w) /\ Ids' = Ids /\ worker'[w].phase = "releasing"
          /\ worker'[w].queue = worker[w].queue /\ worker'[w].batch = worker[w].batch
          /\ Head(worker[w].batch) \in Ids
          /\ messages'[Head(worker[w].batch)].elaborated
          /\ \A m \in Ids \ {Head(worker[w].batch)} : messages'[m] = messages[m]
      BY <1>6, <2>2, MarkStep DEF Inv
    <2>4. starts' = starts /\ worker'[w] # Idle
      <3>1. starts' = starts
        BY <1>6 DEF Mark
      <3>2. worker'[w] # Idle
        <4>1. worker'[w].phase = "releasing"
          BY <2>3
        <4> QED
          BY <4>1 DEF Idle
      <3> QED
        BY <3>1, <3>2
    <2>5. \A m \in Ids : messages'[m].queue = messages[m].queue
      BY <1>6, <2>2, MarkStep DEF Inv
    <2>6. \A m \in Ids : InHand(m)' => messages'[m] = messages[m]
      BY <2>3 DEF InHand
    <2>7. \A m \in Ids : InHand(m)' /\ Owns(w, m) => Owns(w, m)'
      BY <2>1, <2>3, <2>4, <2>6 DEF Owns, Holds, Handler
    <2> QED
      BY <2>3, <2>4, <2>5, <2>6, <2>7, OwnerStep DEF InHand
  <1>7. ASSUME NEW w \in Workers, Release(w) PROVE ReservationHasOwner'
    <2>1. worker[w].phase = "releasing" /\ starts' = starts
      BY <1>7 DEF Release
    <2>2. worker[w].batch # << >>
      BY <2>1 DEF Inv, BatchOK
    <2>3. /\ Others(w) /\ Ids' = Ids
          /\ \A m \in Ids :
               /\ messages'[m].elaborated = messages[m].elaborated
               /\ messages'[m].queue = messages[m].queue
               /\ IF m \in Reserved(Home[w], worker[w].queue)
                  THEN messages'[m].reserved = Free
                  ELSE messages'[m].reserved = messages[m].reserved
      BY <1>7, <2>2, ReleaseStep DEF Inv
    <2>4. \A m \in Ids : InHand(m)' => m \notin Reserved(Home[w], worker[w].queue)
      BY <2>3 DEF InHand
    <2>5. \A m \in Ids : InHand(m)' => ~Owns(w, m)
      BY <2>3, <2>4 DEF InHand, Owns, Holds, Reserved
    <2> QED
      BY <2>1, <2>3, <2>4, <2>5, OwnerStep DEF InHand
  <1>8. ASSUME NEW w \in Workers, EndOfBatch(w) \/ EndOfTick(w)
        PROVE  ReservationHasOwner'
    <2>1. Others(w)
      BY <1>8, EndOfBatchStep, LeaveStep DEF Inv
    <2>2. UNCHANGED << messages, starts >> /\ Ids' = Ids
      BY <1>8 DEF EndOfBatch, EndOfTick, Ids
    <2>3. worker[w].phase # "fetching" /\ worker[w].batch = << >>
      BY <1>8 DEF EndOfBatch, EndOfTick, Inv, BatchOK
    <2>4. \A m : ~Owns(w, m)
      BY <2>3, NothingOwned
    <2> QED
      BY <2>1, <2>2, <2>4, OwnerStep DEF InHand
  <1>9. ~\E w \in Workers : StatementFails(w)
    BY DEF StatementFails, Inv, TypeOK
  <1>10. ~\E s \in Servers : Crash(s)
    BY DEF Crash, Inv, TypeOK
  <1>11. CASE UNCHANGED vars
    BY <1>11 DEF vars, ReservationHasOwner, Ids, Handler, Holds, Idle
  <1>12. CASE \E s \in Servers : StartUp(s)
    <2>1. UNCHANGED << messages, starts, worker >> /\ Ids' = Ids
      BY <1>12, StartUpStep DEF Inv
    <2> QED
      BY <2>1 DEF ReservationHasOwner, Handler, Holds, Idle
  <1> QED
    BY <1>1, <1>2, <1>3, <1>4, <1>5, <1>6, <1>7, <1>8, <1>9, <1>10, <1>11, <1>12
       DEF Next, Work

(***************************************************************************)
(* While nothing fails, a row that is reserved and not handled is in the   *)
(* hands of a tick of the server that reserved it, whatever the number of  *)
(* servers and queues and whatever is sent meanwhile.                      *)
(***************************************************************************)
THEOREM NoReservationIsLost ==
  ASSUME MaxFailures = 0, MaxCrashes = 0
  PROVE  Spec => []ReservationHasOwner
  <1>1. Init => ReservationHasOwner
    BY DEF Init, ReservationHasOwner, Ids
  <1>2. Inv /\ ReservationHasOwner /\ [Next]_vars => (Inv /\ ReservationHasOwner)'
    BY NextInv, OwnerNext
  <1> QED
    BY <1>1, <1>2, InitInv, PTL DEF Spec
=============================================================================
