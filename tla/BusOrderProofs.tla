--------------------------- MODULE BusOrderProofs ---------------------------
(***************************************************************************)
(* Proof that one server delivers the messages of a queue in the order of  *)
(* their time stamps, for any number of workers and queues and whatever    *)
(* fails.                                                                  *)
(***************************************************************************)
EXTENDS DapperBusProofs

USE BusAssumption

SingleServer == \A r, s \in Servers : r = s

\* Row n should be delivered before row m.
Before(n, m) ==
  /\ messages[n].queue = messages[m].queue /\ n < m
  /\ messages[n].stamp < messages[m].stamp

\* A row that some tick may still deliver: not one that a crash left reserved.
Live(m) ==
  /\ ~messages[m].elaborated
  /\ messages[m].reserved = Free \/ \E s \in Servers : messages[m].reserved = Handler(s)

\* The handler ids of the queues after a restart are new.
HandlersOfThePast ==
  \A m \in Ids : messages[m].reserved = Free \/
    \E s \in Servers, k \in Nat : k <= starts[s] /\ messages[m].reserved = << s, k >>

\* What a delivered message has passed will not be delivered any more.
PassedIsDead ==
  \A k \in DOMAIN delivered, n \in Ids : Before(n, delivered[k].msg) => ~Live(n)

\* What became free after the UPDATE of a tick was inserted after its rows.
FetchingOK(w) ==
  worker[w].phase = "fetching" =>
    \A m, n \in Ids :
      /\ messages[n].queue = worker[w].queue /\ IsFree(n)
      /\ m \in Reserved(Home[w], worker[w].queue)
      => m < n

\* A batch is in order, and holds every row that should come before one of it.
OrderedBatch(w) ==
  /\ worker[w].phase \in {"delivering", "marking", "releasing"} =>
       \A k \in DOMAIN worker[w].batch :
         /\ k > 1 \/ worker[w].phase = "delivering" => Live(worker[w].batch[k])
         /\ \A n \in Ids : Live(n) /\ Before(n, worker[w].batch[k]) =>
              \E j \in DOMAIN worker[w].batch : j < k /\ worker[w].batch[j] = n
  /\ worker[w].phase = "releasing" => ~Live(Head(worker[w].batch))

OrderInv ==
  /\ HandlersOfThePast /\ PassedIsDead /\ DeliveredInOrder
  /\ \A w \in Workers : FetchingOK(w) /\ OrderedBatch(w)

-----------------------------------------------------------------------------
\* No step moves a row to another queue or changes its stamp, or revives it.
RowsAge ==
  /\ Ids \subseteq Ids'
  /\ \A m \in Ids : /\ messages'[m].queue = messages[m].queue
                    /\ messages'[m].stamp = messages[m].stamp
                    /\ Live(m)' => Live(m)
  /\ \A n \in Ids' \ Ids, m \in Ids : m < n

LEMMA IdsAreNumbers ==
  ASSUME TypeOK
  PROVE  /\ Ids \subseteq Nat
         /\ \A m \in Ids : messages[m] \in Message /\ messages[m].stamp \in Nat
         /\ \A k \in DOMAIN delivered : delivered[k].msg \in Ids
  <1>1. messages \in Seq(Message)
    BY DEF TypeOK
  <1>2. Ids = 1..Len(messages) /\ Len(messages) \in Nat
    BY <1>1 DEF Ids
  <1>3. \A m \in Ids : messages[m] \in Message
    BY <1>1, ElementsOf DEF Ids
  <1>4. \A k \in DOMAIN delivered : delivered[k] \in Deliveries
    <2>1. delivered \in Seq(Deliveries)
      BY DEF TypeOK, Deliveries
    <2> QED
      BY <2>1, ElementsOf
  <1> QED
    BY <1>2, <1>3, <1>4 DEF Message, Deliveries

LEMMA BeforeStays ==
  ASSUME RowsAge, NEW m \in Ids, NEW n \in Ids
  PROVE  Before(n, m)' <=> Before(n, m)
  BY DEF RowsAge, Before

\* Rows that are added are passed by nothing.
LEMMA BeforeIsOld ==
  ASSUME TypeOK, TypeOK', RowsAge, NEW m \in Ids, NEW n \in Ids', Before(n, m)'
  PROVE  n \in Ids /\ Before(n, m)
  <1>1. n < m /\ m \in Nat /\ n \in Nat
    <2>1. Ids \subseteq Nat
      BY IdsAreNumbers
    <2>2. Ids' \subseteq Nat
      BY DEF TypeOK, Ids
    <2> QED
      BY <2>1, <2>2 DEF Before
  <1>2. n \in Ids
    BY <1>1 DEF RowsAge
  <1> QED
    BY <1>2, BeforeStays

\* What has been delivered stays in order while nothing is delivered.
LEMMA SameDeliveries ==
  ASSUME TypeOK, TypeOK', RowsAge, PassedIsDead, DeliveredInOrder, UNCHANGED delivered
  PROVE  PassedIsDead' /\ DeliveredInOrder'
  <1>1. \A k \in DOMAIN delivered : delivered[k].msg \in Ids
    BY IdsAreNumbers
  <1>2. PassedIsDead'
    <2> SUFFICES ASSUME NEW k \in DOMAIN delivered, NEW n \in Ids',
                        Before(n, delivered[k].msg)', Live(n)'
                 PROVE  FALSE
      BY DEF PassedIsDead
    <2>1. PICK m \in Ids : m = delivered[k].msg /\ delivered'[k].msg = m
      BY <1>1
    <2>2. Before(n, m)'
      BY <2>1 DEF Before
    <2>3. n \in Ids /\ Before(n, m)
      BY <2>2, BeforeIsOld
    <2> QED
      BY <2>1, <2>3 DEF PassedIsDead, RowsAge
  <1>3. DeliveredInOrder'
    BY <1>1 DEF DeliveredInOrder, RowsAge
  <1> QED
    BY <1>2, <1>3

\* With one server a worker that runs a tick runs the only one.
LEMMA OnlyTick ==
  ASSUME SingleServer, Inv, NEW w \in Workers, worker[w] # Idle
  PROVE  \A v \in Workers \ {w} : worker[v] = Idle
  BY DEF SingleServer, Inv, OneTick

\* What is left to show of a step of the worker that runs the only tick.
LEMMA OnlyTickStep ==
  ASSUME Inv, TypeOK', OrderInv, RowsAge, UNCHANGED delivered,
         NEW w \in Workers, Others(w), \A v \in Workers \ {w} : worker[v] = Idle,
         HandlersOfThePast', FetchingOK(w)', OrderedBatch(w)'
  PROVE  OrderInv'
  <1>1. PassedIsDead' /\ DeliveredInOrder'
    BY SameDeliveries DEF Inv, OrderInv
  <1>2. ASSUME NEW v \in Workers PROVE FetchingOK(v)' /\ OrderedBatch(v)'
    <2>1. CASE v = w
      BY <2>1
    <2>2. CASE v # w
      <3>1. worker'[v] = Idle
        BY <2>2 DEF Others
      <3> QED
        BY <3>1 DEF FetchingOK, OrderedBatch, Idle
    <2> QED
      BY <2>1, <2>2
  <1> QED
    BY <1>1, <1>2 DEF OrderInv

\* A step that writes no row.
LEMMA NoRowWritten ==
  ASSUME TypeOK, HandlersOfThePast, UNCHANGED << messages, starts >>
  PROVE  RowsAge /\ HandlersOfThePast' /\ Ids' = Ids /\ \A m : Live(m)' <=> Live(m)
  <1>1. Ids' = Ids
    BY DEF Ids
  <1>2. \A m : Live(m)' <=> Live(m)
    BY DEF Live, Handler
  <1>3. HandlersOfThePast'
    BY <1>1 DEF HandlersOfThePast
  <1> QED
    BY <1>1, <1>2, <1>3 DEF RowsAge

LEMMA InitOrder == Init => OrderInv
  <1> SUFFICES ASSUME Init PROVE OrderInv
    OBVIOUS
  <1>1. Ids = {} /\ DOMAIN delivered = {}
    BY DEF Init, Ids
  <1>2. HandlersOfThePast /\ PassedIsDead /\ DeliveredInOrder
    BY <1>1 DEF HandlersOfThePast, PassedIsDead, DeliveredInOrder
  <1>3. \A w \in Workers : worker[w].phase = "idle"
    BY DEF Init, Idle
  <1>4. \A w \in Workers : FetchingOK(w) /\ OrderedBatch(w)
    BY <1>3 DEF FetchingOK, OrderedBatch
  <1> QED
    BY <1>2, <1>4 DEF OrderInv

-----------------------------------------------------------------------------
(***************************************************************************)
(* One lemma for each step.                                                *)
(***************************************************************************)
LEMMA SendOrder ==
  ASSUME Inv, OrderInv, NEW q \in Queues, NEW c \in 1..MaxBatch, Send(q, c)
  PROVE  OrderInv'
  <1>1. /\ TypeOK' /\ Ids \subseteq Ids' /\ \A m \in Ids : messages'[m] = messages[m]
    BY SendType DEF Inv
  <1>2. \A m \in Ids' \ Ids : messages'[m].reserved = Free /\ ~messages'[m].elaborated
    BY SendType DEF Inv
  <1>3. UNCHANGED << running, starts, worker, delivered, failures >>
    BY DEF Send
  <1>4. \A n \in Ids' \ Ids, m \in Ids : m < n
    <2>1. /\ Ids = 1..Len(messages) /\ Len(messages) \in Nat
          /\ Ids' = 1..Len(messages') /\ Len(messages') \in Nat
      BY <1>1 DEF Inv, TypeOK, Ids
    <2> QED
      BY <2>1
  <1>5. \A m \in Ids : Live(m)' <=> Live(m)
    BY <1>1, <1>3 DEF Live, Handler
  <1>6. RowsAge
    BY <1>1, <1>4, <1>5 DEF RowsAge
  <1>7. PassedIsDead' /\ DeliveredInOrder'
    BY <1>1, <1>3, <1>6, SameDeliveries DEF Inv, OrderInv
  <1>8. HandlersOfThePast'
    BY <1>1, <1>2, <1>3 DEF OrderInv, HandlersOfThePast
  <1>9. ASSUME NEW w \in Workers PROVE FetchingOK(w)'
    <2> SUFFICES ASSUME worker[w].phase = "fetching", NEW m \in Ids', NEW n \in Ids',
                        messages'[n].queue = worker[w].queue, IsFree(n)',
                        messages'[m].queue = worker[w].queue,
                        messages'[m].reserved = Handler(Home[w]), ~messages'[m].elaborated
                 PROVE  m < n
      BY <1>3 DEF FetchingOK, Reserved, Handler
    <2>1. m \in Ids
      <3>1. Handler(Home[w]) # Free
        BY DEF Handler, Free
      <3> QED
        BY <1>2, <3>1
    <2>2. m \in Reserved(Home[w], worker[w].queue)
      BY <1>1, <2>1 DEF Reserved
    <2>3. CASE n \in Ids
      BY <1>1, <2>1, <2>2, <2>3 DEF OrderInv, FetchingOK, IsFree
    <2>4. CASE n \notin Ids
      BY <1>4, <2>1, <2>4
    <2> QED
      BY <2>3, <2>4
  <1>10. ASSUME NEW w \in Workers PROVE OrderedBatch(w)'
    <2> SUFFICES ASSUME worker[w].phase \in {"delivering", "marking", "releasing"}
                 PROVE  OrderedBatch(w)'
      BY <1>3 DEF OrderedBatch
    <2>1. worker[w] \in Tick
      BY ActiveTick DEF Inv
    <2>2. PICK b \in Seq(Ids) : b = worker[w].batch
      BY <2>1 DEF Tick
    <2>3. \A k \in DOMAIN b : b[k] \in Ids
      BY <2>2, ElementsOf
    <2>4. OrderedBatch(w)
      BY DEF OrderInv
    <2>5. /\ \A k \in DOMAIN b : k > 1 \/ worker[w].phase = "delivering" => Live(b[k])'
          /\ \A k \in DOMAIN b : \A n \in Ids : Live(n) /\ Before(n, b[k]) =>
               \E j \in DOMAIN b : j < k /\ b[j] = n
      BY <1>5, <2>2, <2>3, <2>4 DEF OrderedBatch
    <2>6. ASSUME NEW k \in DOMAIN b, NEW n \in Ids', Live(n)', Before(n, b[k])'
          PROVE  \E j \in DOMAIN b : j < k /\ b[j] = n
      <3>1. PICK m \in Ids : m = b[k]
        BY <2>3
      <3>2. n \in Ids /\ Before(n, m)
        BY <1>1, <1>6, <2>6, <3>1, BeforeIsOld DEF Inv
      <3> QED
        BY <1>5, <2>5, <2>6, <3>1, <3>2
    <2>7. worker[w].phase = "releasing" => ~Live(Head(b))'
      <3> SUFFICES ASSUME worker[w].phase = "releasing" PROVE ~Live(Head(b))'
        OBVIOUS
      <3>1. b # << >>
        BY <2>2 DEF Inv, BatchOK
      <3>2. Head(b) \in Ids
        BY <2>2, <3>1
      <3>3. ~Live(Head(b))
        BY <2>2, <2>4 DEF OrderedBatch
      <3> QED
        BY <1>5, <3>2, <3>3
    <2>8. worker'[w] = worker[w] /\ worker'[w].batch = b
      BY <1>3, <2>2
    <2> QED
      BY <2>5, <2>6, <2>7, <2>8 DEF OrderedBatch, Before, Live, Handler
  <1> QED
    BY <1>7, <1>8, <1>9, <1>10 DEF OrderInv

LEMMA OnTimerOrder ==
  ASSUME SingleServer, Inv, OrderInv, NEW w \in Workers, OnTimer(w)
  PROVE  OrderInv'
  <1>1. TypeOK' /\ Others(w) /\ worker'[w].phase = "scanning"
    BY OnTimerStep DEF Inv
  <1>2. UNCHANGED << messages, starts, delivered >> /\ ~running[Home[w]]
    BY DEF OnTimer, history
  <1>3. \A v \in Workers : worker[v] = Idle
    BY <1>2 DEF SingleServer, Inv, OneTick
  <1>4. RowsAge /\ HandlersOfThePast'
    BY <1>2, NoRowWritten DEF Inv, OrderInv
  <1>5. FetchingOK(w)' /\ OrderedBatch(w)'
    BY <1>1 DEF FetchingOK, OrderedBatch
  <1> QED
    BY <1>1, <1>2, <1>3, <1>4, <1>5, OnlyTickStep

\* After the UPDATE no row of the queue is free.
LEMMA ReserveOrder ==
  ASSUME SingleServer, Inv, OrderInv, NEW w \in Workers, NEW q \in Queues, Reserve(w, q)
  PROVE  OrderInv'
  <1>1. /\ TypeOK' /\ Others(w) /\ Ids' = Ids
        /\ worker'[w].phase \in {"scanning", "fetching"}
        /\ worker'[w].queue = q
        /\ \A m \in Ids :
             /\ messages'[m].elaborated = messages[m].elaborated
             /\ messages'[m].queue = messages[m].queue
             /\ messages'[m].stamp = messages[m].stamp
             /\ IF messages[m].queue = q /\ IsFree(m)
                THEN messages'[m].reserved = Handler(Home[w])
                ELSE messages'[m].reserved = messages[m].reserved
    BY ReserveStep DEF Inv
  <1>2. UNCHANGED << starts, delivered >> /\ worker[w] # Idle
    BY ActiveTick DEF Reserve, Inv, history
  <1>3. \A m \in Ids : Live(m)' => Live(m)
    BY <1>1, <1>2 DEF Live, IsFree, Handler
  <1>4. RowsAge
    BY <1>1, <1>3 DEF RowsAge
  <1>5. starts[Home[w]] \in Nat /\ Home[w] \in Servers
    BY Counts DEF Inv
  <1>6. HandlersOfThePast'
    BY <1>1, <1>2, <1>5 DEF OrderInv, HandlersOfThePast, Handler
  <1>7. \A n \in Ids : messages'[n].queue = q => ~IsFree(n)'
    BY <1>1 DEF IsFree, Handler, Free
  <1>8. FetchingOK(w)' /\ OrderedBatch(w)'
    BY <1>1, <1>7 DEF FetchingOK, OrderedBatch
  <1>9. \A v \in Workers \ {w} : worker[v] = Idle
    BY <1>2, OnlyTick
  <1> QED
    BY <1>1, <1>2, <1>4, <1>6, <1>8, <1>9, OnlyTickStep

\* The SELECT returns, in order, all that must come before one of its rows.
LEMMA FetchOrder ==
  ASSUME SingleServer, Inv, OrderInv, NEW w \in Workers, Fetch(w)
  PROVE  OrderInv'
  <1> DEFINE rows == Reserved(Home[w], worker[w].queue)
  <1>1. /\ TypeOK' /\ Others(w) /\ worker[w].phase = "fetching"
        /\ worker'[w].phase = "delivering" /\ worker'[w].batch \in Sorted(rows)
    BY FetchStep DEF Inv
  <1>2. UNCHANGED << messages, starts, delivered >>
    BY DEF Fetch, history
  <1>3. worker[w] # Idle
    BY <1>1, ActiveTick DEF Inv
  <1>4. \A v \in Workers \ {w} : worker[v] = Idle
    BY <1>3, OnlyTick
  <1>5. RowsAge /\ HandlersOfThePast' /\ Ids' = Ids /\ \A m : Live(m)' <=> Live(m)
    BY <1>2, NoRowWritten DEF Inv, OrderInv
  <1>6. PICK s \in Sorted(rows) : s = worker'[w].batch
    BY <1>1
  <1>7. rows \subseteq Ids
    BY DEF Reserved
  <1>8. /\ DOMAIN s = 1..Len(s)
        /\ \A k \in DOMAIN s : s[k] \in rows
        /\ \A m \in rows : \E k \in DOMAIN s : s[k] = m
    BY <1>7, SortedRows DEF Inv
  <1>9. \A j, k \in DOMAIN s : j < k => messages[s[j]].stamp <= messages[s[k]].stamp
    BY DEF Sorted
  <1> HIDE DEF rows
  <1>10. \A m \in rows : Live(m)
    BY DEF Live, rows, Reserved
  <1>11. ASSUME NEW k \in DOMAIN s, NEW n \in Ids, Live(n), Before(n, s[k])
         PROVE  \E j \in DOMAIN s : j < k /\ s[j] = n
    <2>1. s[k] \in rows /\ s[k] \in Ids
      BY <1>7, <1>8
    <2>2. messages[n].queue = worker[w].queue
      BY <1>11, <2>1 DEF Before, rows, Reserved
    <2>3. n < s[k] /\ messages[n].stamp < messages[s[k]].stamp
      BY <1>11 DEF Before
    <2>4. n \in Nat /\ s[k] \in Nat /\ messages[n].stamp \in Nat /\ messages[s[k]].stamp \in Nat
      BY <2>1, IdsAreNumbers DEF Inv
    <2>5. ~IsFree(n)
      <3>1. IsFree(n) => s[k] < n
        BY <1>1, <2>1, <2>2 DEF OrderInv, FetchingOK, rows
      <3> QED
        BY <2>3, <2>4, <3>1
    <2>6. n \in rows
      BY <1>11, <2>2, <2>5 DEF Live, IsFree, rows, Reserved, SingleServer
    <2>7. PICK j \in DOMAIN s : s[j] = n
      BY <1>8, <2>6
    <2>8. ~(k < j)
      BY <1>9, <2>3, <2>4, <2>7
    <2>9. j # k
      BY <2>3, <2>4, <2>7
    <2>10. j < k
      BY <1>8, <2>8, <2>9
    <2> QED
      BY <2>7, <2>10
  <1>12. OrderedBatch(w)'
    <2>1. \A k \in DOMAIN s : Live(s[k])'
      BY <1>5, <1>8, <1>10
    <2>2. \A k \in DOMAIN s : \A n \in Ids : Live(n)' /\ Before(n, s[k])' =>
            \E j \in DOMAIN s : j < k /\ s[j] = n
      <3>1. \A m, n : Before(n, m)' => Before(n, m)
        BY <1>2 DEF Before
      <3>2. \A n \in Ids : Live(n)' => Live(n)
        BY <1>5
      <3> QED
        BY <1>11, <3>1, <3>2
    <2> QED
      BY <1>1, <1>5, <1>6, <2>1, <2>2 DEF OrderedBatch, Before, Live, Handler
  <1>13. FetchingOK(w)'
    BY <1>1 DEF FetchingOK
  <1> QED
    BY <1>1, <1>2, <1>4, <1>5, <1>12, <1>13, OnlyTickStep

LEMMA DeliverOrder ==
  ASSUME SingleServer, Inv, OrderInv, NEW w \in Workers, Deliver(w)
  PROVE  OrderInv'
  <1>1. /\ TypeOK' /\ Others(w) /\ worker[w].phase = "delivering"
        /\ worker'[w].phase = "marking" /\ worker'[w].batch = worker[w].batch
        /\ worker[w].batch \in Seq(Ids) /\ worker[w].batch # << >>
    BY DeliverStep DEF Inv
  <1>2. /\ UNCHANGED << messages, starts >>
        /\ delivered' = Append(delivered, Delivery(w))
    BY DEF Deliver
  <1>3. worker[w] # Idle
    BY <1>1, ActiveTick DEF Inv
  <1>4. \A v \in Workers \ {w} : worker[v] = Idle
    BY <1>3, OnlyTick
  <1>5. RowsAge /\ HandlersOfThePast' /\ Ids' = Ids /\ \A m : Live(m)' <=> Live(m)
    BY <1>2, NoRowWritten DEF Inv, OrderInv
  <1>6. PICK b \in Seq(Ids) : b = worker[w].batch /\ b # << >>
    BY <1>1
  <1>7. PICK h \in Ids : h = Head(b) /\ h = b[1] /\ 1 \in DOMAIN b /\ DOMAIN b \subseteq Nat \ {0}
    BY <1>6
  <1>8. /\ Live(h)
        /\ \A n \in Ids : ~(Live(n) /\ Before(n, h))
        /\ \A k \in DOMAIN b : Live(b[k])
        /\ \A k \in DOMAIN b : \A n \in Ids : Live(n) /\ Before(n, b[k]) =>
             \E j \in DOMAIN b : j < k /\ b[j] = n
    <2>1. OrderedBatch(w)
      BY DEF OrderInv
    <2>2. /\ \A k \in DOMAIN b : Live(b[k])
          /\ \A k \in DOMAIN b : \A n \in Ids : Live(n) /\ Before(n, b[k]) =>
             \E j \in DOMAIN b : j < k /\ b[j] = n
      BY <1>1, <1>6, <2>1 DEF OrderedBatch
    <2>3. \A j \in DOMAIN b : ~(j < 1)
      BY <1>7
    <2> QED
      BY <1>7, <2>2, <2>3
  <1>9. /\ Len(delivered) \in Nat /\ DOMAIN delivered = 1..Len(delivered)
        /\ DOMAIN delivered' = 1..(Len(delivered) + 1)
        /\ delivered'[Len(delivered) + 1].msg = h
        /\ \A k \in DOMAIN delivered : delivered'[k] = delivered[k] /\ delivered[k].msg \in Ids
    <2>1. delivered \in Seq(Deliveries)
      BY DEF Inv, TypeOK, Deliveries
    <2>2. Delivery(w).msg = h
      BY <1>6, <1>7 DEF Delivery
    <2>3. /\ Len(delivered) \in Nat /\ DOMAIN delivered = 1..Len(delivered)
          /\ DOMAIN delivered' = 1..(Len(delivered) + 1)
          /\ delivered'[Len(delivered) + 1] = Delivery(w)
          /\ \A k \in DOMAIN delivered : delivered'[k] = delivered[k]
      BY <1>2, <2>1
    <2> QED
      BY <2>2, <2>3, IdsAreNumbers DEF Inv
  <1>10. PassedIsDead'
    <2> SUFFICES ASSUME NEW k \in 1..(Len(delivered) + 1), NEW n \in Ids,
                        Before(n, delivered[k].msg)', Live(n)
                 PROVE  FALSE
      BY <1>5, <1>9 DEF PassedIsDead
    <2>1. PICK m : m = delivered'[k].msg
      OBVIOUS
    <2>2. Before(n, m)
      BY <1>2, <2>1 DEF Before
    <2>3. CASE k = Len(delivered) + 1
      BY <1>8, <1>9, <2>1, <2>2, <2>3
    <2>4. CASE k # Len(delivered) + 1
      <3>1. k \in DOMAIN delivered
        BY <1>9, <2>4
      <3>2. m = delivered[k].msg
        BY <1>9, <2>1, <3>1
      <3> QED
        BY <2>2, <3>1, <3>2 DEF OrderInv, PassedIsDead
    <2> QED
      BY <2>3, <2>4
  <1>11. DeliveredInOrder'
    <2> SUFFICES ASSUME NEW j \in 1..(Len(delivered) + 1), NEW k \in 1..(Len(delivered) + 1),
                        NEW m, NEW n, m = delivered'[j].msg, n = delivered'[k].msg,
                        j < k, messages[m].queue = messages[n].queue, n < m
                 PROVE  messages[m].stamp <= messages[n].stamp
      BY <1>2, <1>9 DEF DeliveredInOrder
    <2>1. j \in DOMAIN delivered /\ m = delivered[j].msg /\ m \in Ids
      BY <1>9
    <2>2. CASE k = Len(delivered) + 1
      <3>1. n = h
        BY <1>9, <2>2
      <3>2. ~Before(h, m)
        BY <1>8, <2>1 DEF OrderInv, PassedIsDead
      <3>3. messages[m].stamp \in Nat /\ messages[h].stamp \in Nat
        BY <2>1, IdsAreNumbers DEF Inv
      <3> QED
        BY <3>1, <3>2, <3>3 DEF Before
    <2>3. CASE k # Len(delivered) + 1
      <3>1. k \in DOMAIN delivered
        <4>1. Len(delivered) \in Nat /\ DOMAIN delivered = 1..Len(delivered)
          BY <1>9
        <4>2. PICK l \in Nat : l = Len(delivered)
          BY <4>1
        <4>3. k \in 1..(l + 1) /\ k # l + 1
          BY <2>3, <4>2
        <4>4. k \in 1..l
          BY <4>3
        <4> QED
          BY <4>1, <4>2, <4>4
      <3>2. n = delivered[k].msg
        <4>1. delivered'[k] = delivered[k]
          BY <1>9, <3>1
        <4> QED
          BY <4>1
      <3> QED
        BY <2>1, <3>1, <3>2 DEF OrderInv, DeliveredInOrder
    <2> QED
      BY <2>2, <2>3
  <1>12. ASSUME NEW v \in Workers PROVE FetchingOK(v)' /\ OrderedBatch(v)'
    <2>1. CASE v = w
      <3>1. worker'[w].batch = b /\ worker'[w].phase = "marking"
        BY <1>1, <1>6
      <3>2. FetchingOK(w)'
        BY <3>1 DEF FetchingOK
      <3>3. OrderedBatch(w)'
        BY <1>2, <1>5, <1>8, <3>1 DEF OrderedBatch, Before, Live, Handler
      <3> QED
        BY <2>1, <3>2, <3>3
    <2>2. CASE v # w
      <3>1. worker'[v] = Idle
        BY <1>1, <1>4, <2>2 DEF Others
      <3> QED
        BY <3>1 DEF FetchingOK, OrderedBatch, Idle
    <2> QED
      BY <2>1, <2>2
  <1> QED
    BY <1>5, <1>10, <1>11, <1>12 DEF OrderInv

\* The row that is marked leaves the rows that may still be delivered.
LEMMA MarkOrder ==
  ASSUME SingleServer, Inv, CopiesInv, OrderInv, NEW w \in Workers, Mark(w)
  PROVE  OrderInv'
  <1>1. worker[w].phase = "marking" /\ worker[w] # Idle
    BY ActiveTick DEF Mark, Step, Inv
  <1>2. worker[w].batch # << >>
    BY <1>1 DEF Inv, BatchOK
  <1>3. worker[w].batch \in Seq(Ids)
    <2>1. worker[w] \in Tick
      BY <1>1, ActiveTick DEF Inv
    <2> QED
      BY <2>1 DEF Tick
  <1>4. PICK b \in Seq(Ids) : b = worker[w].batch /\ b # << >>
    BY <1>2, <1>3
  <1>5. PICK h \in Ids : h = Head(b) /\ h = b[1] /\ 1 \in DOMAIN b /\ DOMAIN b \subseteq Nat \ {0}
    BY <1>4
  <1>6. /\ TypeOK' /\ Others(w) /\ Ids' = Ids
        /\ worker'[w].phase = "releasing" /\ worker'[w].batch = b
        /\ messages'[h].elaborated /\ messages'[h].reserved = Handler(Home[w])
        /\ \A m \in Ids \ {h} : messages'[m] = messages[m]
        /\ \A m \in Ids : /\ messages'[m].queue = messages[m].queue
                          /\ messages'[m].stamp = messages[m].stamp
    BY <1>2, <1>4, <1>5, MarkStep DEF Inv
  <1>7. UNCHANGED << starts, delivered >>
    BY DEF Mark, history
  <1>8. ~Live(h)' /\ \A m \in Ids \ {h} : Live(m)' <=> Live(m)
    BY <1>6, <1>7 DEF Live, Handler
  <1>9. RowsAge
    BY <1>6, <1>8 DEF RowsAge
  <1>10. starts[Home[w]] \in Nat /\ Home[w] \in Servers
    BY Counts DEF Inv
  <1>11. HandlersOfThePast'
    BY <1>6, <1>7, <1>10 DEF OrderInv, HandlersOfThePast, Handler
  <1>12. /\ \A k \in DOMAIN b : k > 1 => Live(b[k]) /\ b[k] # h
         /\ \A k \in DOMAIN b : \A n \in Ids : Live(n) /\ Before(n, b[k]) =>
              \E j \in DOMAIN b : j < k /\ b[j] = n
    <2>1. OrderedBatch(w) /\ BatchSettled(w)
      BY DEF OrderInv, CopiesInv
    <2>2. \A j, k \in DOMAIN b : j < k => b[j] # b[k]
      BY <1>1, <1>4, <2>1 DEF BatchSettled
    <2>3. \A k \in DOMAIN b : k > 1 => b[k] # h
      BY <1>5, <2>2
    <2> QED
      BY <1>1, <1>4, <2>1, <2>3 DEF OrderedBatch
  <1>13. \A k \in DOMAIN b : b[k] \in Ids
    BY <1>4, ElementsOf
  <1>14. \A k \in DOMAIN b : k > 1 => Live(b[k])'
    BY <1>8, <1>12, <1>13
  <1>15. \A k \in DOMAIN b : \A n \in Ids : Live(n)' /\ Before(n, b[k])' =>
              \E j \in DOMAIN b : j < k /\ b[j] = n
    BY <1>8, <1>9, <1>12, <1>13, BeforeStays
  <1>16. FetchingOK(w)' /\ OrderedBatch(w)'
    <2>1. FetchingOK(w)'
      BY <1>6 DEF FetchingOK
    <2>2. worker'[w].phase = "releasing" /\ worker'[w].batch = b /\ Head(b) = h
      BY <1>5, <1>6
    <2>3. ~Live(Head(worker[w].batch))'
      BY <1>8, <2>2 DEF Live, Handler
    <2> QED
      BY <1>6, <1>14, <1>15, <2>1, <2>2, <2>3 DEF OrderedBatch, Before, Live, Handler
  <1>17. \A v \in Workers \ {w} : worker[v] = Idle
    BY <1>1, OnlyTick
  <1> QED
    BY <1>6, <1>7, <1>9, <1>11, <1>16, <1>17, OnlyTickStep

\* The rows that are given back can be reserved again, and stay in order.
LEMMA ReleaseOrder ==
  ASSUME SingleServer, Inv, OrderInv, NEW w \in Workers, Release(w)
  PROVE  OrderInv'
  <1>1. worker[w].phase = "releasing" /\ worker[w] # Idle
    BY ActiveTick DEF Release, Inv
  <1>2. worker[w].batch # << >>
    BY <1>1 DEF Inv, BatchOK
  <1>3. /\ TypeOK' /\ Others(w) /\ Ids' = Ids /\ worker'[w].phase = "delivering"
        /\ worker[w].batch \in Seq(Ids) /\ worker'[w].batch = Tail(worker[w].batch)
        /\ \A m \in Ids :
             /\ messages'[m].elaborated = messages[m].elaborated
             /\ messages'[m].queue = messages[m].queue
             /\ messages'[m].stamp = messages[m].stamp
             /\ IF m \in Reserved(Home[w], worker[w].queue)
                THEN messages'[m].reserved = Free
                ELSE messages'[m].reserved = messages[m].reserved
    BY <1>2, ReleaseStep DEF Inv
  <1>4. UNCHANGED << starts, delivered >>
    BY DEF Release, history
  <1>5. \A m \in Ids : Live(m)' <=> Live(m)
    BY <1>3, <1>4 DEF Live, Handler, Reserved
  <1>6. RowsAge
    BY <1>3, <1>5 DEF RowsAge
  <1>7. HandlersOfThePast'
    BY <1>3, <1>4 DEF OrderInv, HandlersOfThePast
  <1>8. PICK b \in Seq(Ids) : b = worker[w].batch /\ b # << >>
    BY <1>2, <1>3
  <1>9. PICK h \in Ids : h = Head(b) /\ h = b[1] /\ DOMAIN b \subseteq Nat \ {0}
    BY <1>8
  <1>10. PICK t : t = Tail(b) /\ worker'[w].batch = t
    BY <1>3, <1>8
  <1>11. /\ \A k \in DOMAIN t :
              k \in Nat /\ k + 1 \in DOMAIN b /\ k + 1 > 1 /\ t[k] = b[k + 1]
         /\ \A k \in DOMAIN b : k # 1 => k - 1 \in DOMAIN t /\ t[k - 1] = b[k]
    <2>1. \A k \in DOMAIN b : k # 1 => k - 1 \in DOMAIN Tail(b) /\ Tail(b)[k - 1] = b[k]
      <3>1. b \in Seq(Ids) /\ b # << >>
        BY <1>8
      <3>2. /\ Len(b) \in Nat /\ DOMAIN b = 1..Len(b) /\ DOMAIN Tail(b) = 1..(Len(b) - 1)
            /\ \A j \in 1..(Len(b) - 1) : Tail(b)[j] = b[j + 1]
        BY <3>1
      <3> SUFFICES ASSUME NEW k \in DOMAIN b, k # 1
                   PROVE  k - 1 \in DOMAIN Tail(b) /\ Tail(b)[k - 1] = b[k]
        OBVIOUS
      <3>3. PICK j \in 1..(Len(b) - 1) : j = k - 1 /\ j + 1 = k
        BY <3>2
      <3> QED
        BY <3>2, <3>3
    <2> QED
      BY <1>8, <1>10, <2>1, TailOf
  <1>12. /\ ~Live(h)
         /\ \A k \in DOMAIN b : k > 1 => Live(b[k])
         /\ \A k \in DOMAIN b : \A n \in Ids : Live(n) /\ Before(n, b[k]) =>
              \E j \in DOMAIN b : j < k /\ b[j] = n
    <2>1. OrderedBatch(w)
      BY DEF OrderInv
    <2> QED
      BY <1>1, <1>8, <1>9, <2>1 DEF OrderedBatch
  <1>13. \A k \in DOMAIN b : b[k] \in Ids
    BY <1>8, ElementsOf
  <1>14. \A k \in DOMAIN t : t[k] \in Ids /\ Live(t[k])'
    BY <1>5, <1>11, <1>12, <1>13
  <1>15. ASSUME NEW k \in DOMAIN t, NEW n \in Ids, Live(n)', Before(n, t[k])'
         PROVE  \E j \in DOMAIN t : j < k /\ t[j] = n
    <2>1. PICK m \in Ids : m = t[k] /\ m = b[k + 1] /\ k + 1 \in DOMAIN b /\ k \in Nat
      BY <1>11, <1>14
    <2>2. Live(n) /\ Before(n, m)
      BY <1>5, <1>6, <1>15, <2>1, BeforeStays
    <2>3. PICK i \in DOMAIN b : i < k + 1 /\ b[i] = n
      BY <1>12, <2>1, <2>2
    <2>4. i # 1
      BY <1>9, <1>12, <2>2, <2>3
    <2>5. i - 1 \in DOMAIN t /\ t[i - 1] = n
      BY <1>11, <2>3, <2>4
    <2>6. i - 1 < k
      BY <1>9, <2>1, <2>3
    <2> QED
      BY <2>5, <2>6
  <1>16. FetchingOK(w)' /\ OrderedBatch(w)'
    <2>1. FetchingOK(w)'
      BY <1>3 DEF FetchingOK
    <2>2. \A k \in DOMAIN t : \A n \in Ids : Live(n)' /\ Before(n, t[k])' =>
            \E j \in DOMAIN t : j < k /\ t[j] = n
      BY <1>15
    <2>3. worker'[w].batch = t /\ worker'[w].phase = "delivering" /\ Ids' = Ids
      BY <1>3, <1>10
    <2>4. \A k \in DOMAIN t : Live(t[k])'
      BY <1>14
    <2> QED
      BY <2>1, <2>2, <2>3, <2>4 DEF OrderedBatch, Before, Live, Handler
  <1>17. \A v \in Workers \ {w} : worker[v] = Idle
    BY <1>1, OnlyTick
  <1> QED
    BY <1>3, <1>4, <1>6, <1>7, <1>16, <1>17, OnlyTickStep

LEMMA EndOrder ==
  ASSUME SingleServer, Inv, OrderInv, NEW w \in Workers,
         EndOfBatch(w) \/ EndOfTick(w) \/ StatementFails(w)
  PROVE  OrderInv'
  <1>1. /\ TypeOK' /\ Others(w) /\ worker[w] # Idle
        /\ worker'[w].phase \in {"scanning", "idle"}
    <2>1. CASE EndOfBatch(w)
      BY <2>1, EndOfBatchStep, ActiveTick DEF Inv
    <2>2. CASE EndOfTick(w) \/ StatementFails(w)
      BY <2>2, LeaveStep DEF Inv, Idle
    <2> QED
      BY <2>1, <2>2
  <1>2. UNCHANGED << messages, starts, delivered >>
    BY DEF EndOfBatch, EndOfTick, StatementFails, history
  <1>3. RowsAge /\ HandlersOfThePast'
    BY <1>2, NoRowWritten DEF Inv, OrderInv
  <1>4. FetchingOK(w)' /\ OrderedBatch(w)'
    BY <1>1 DEF FetchingOK, OrderedBatch
  <1>5. \A v \in Workers \ {w} : worker[v] = Idle
    BY <1>1, OnlyTick
  <1> QED
    BY <1>1, <1>2, <1>3, <1>4, <1>5, OnlyTickStep

\* A server that starts writes no row.
LEMMA StartUpOrder ==
  ASSUME SingleServer, Inv, OrderInv, NEW s \in Servers, StartUp(s)
  PROVE  OrderInv'
  <1>1. TypeOK' /\ Ids' = Ids /\ UNCHANGED << messages, starts, worker, delivered >>
    BY StartUpStep DEF Inv
  <1>2. RowsAge /\ HandlersOfThePast' /\ \A m : Live(m)' <=> Live(m)
    BY <1>1, NoRowWritten DEF Inv, OrderInv
  <1>3. PassedIsDead' /\ DeliveredInOrder'
    BY <1>1, <1>2, SameDeliveries DEF Inv, OrderInv
  <1>4. /\ \A m, n : Before(n, m)' = Before(n, m)
        /\ \A m : IsFree(m)' = IsFree(m) /\ Live(m)' = Live(m)
        /\ \A r, q : Reserved(r, q)' = Reserved(r, q)
    BY <1>1 DEF Before, IsFree, Live, Handler, Reserved
  <1>5. ASSUME NEW w \in Workers PROVE FetchingOK(w)'
    BY <1>1, <1>4 DEF OrderInv, FetchingOK
  <1>6. ASSUME NEW w \in Workers PROVE OrderedBatch(w)'
    BY <1>1, <1>4 DEF OrderInv, OrderedBatch
  <1> QED
    BY <1>2, <1>3, <1>5, <1>6 DEF OrderInv

\* What a crash leaves reserved keeps a handler id that no queue has again.
LEMMA CrashOrder ==
  ASSUME SingleServer, Inv, OrderInv, NEW s \in Servers, Crash(s)
  PROVE  OrderInv'
  <1>1. TypeOK' /\ \A w \in Workers : worker'[w] = IF Home[w] = s THEN Idle ELSE worker[w]
    BY CrashStep DEF Inv
  <1>2. UNCHANGED << messages, delivered >> /\ starts'[s] = starts[s] + 1 /\ Ids' = Ids
    BY DEF Crash, Inv, TypeOK, Ids
  <1>3. starts[s] \in Nat
    BY Counts DEF Inv
  <1>4. \A m \in Ids : Live(m)' => messages[m].reserved = Free /\ ~messages[m].elaborated
    <2> SUFFICES ASSUME NEW m \in Ids, messages[m].reserved # Free,
                        messages[m].reserved = << s, starts[s] + 1 >>
                 PROVE  FALSE
      BY <1>2 DEF Live, Handler, SingleServer
    <2>1. PICK k \in Nat : k <= starts[s] /\ messages[m].reserved = << s, k >>
      BY DEF OrderInv, HandlersOfThePast, SingleServer
    <2>2. k = starts[s] + 1
      BY <2>1
    <2> QED
      BY <1>3, <2>1, <2>2
  <1>5. RowsAge
    BY <1>2, <1>4 DEF RowsAge, Live
  <1>6. PassedIsDead' /\ DeliveredInOrder'
    BY <1>1, <1>2, <1>5, SameDeliveries DEF Inv, OrderInv
  <1>7. HandlersOfThePast'
    <2> SUFFICES ASSUME NEW m \in Ids, messages[m].reserved # Free
                 PROVE  \E k \in Nat : k <= starts'[s] /\ messages[m].reserved = << s, k >>
      BY <1>2 DEF HandlersOfThePast
    <2>1. PICK k \in Nat : k <= starts[s] /\ messages[m].reserved = << s, k >>
      BY DEF OrderInv, HandlersOfThePast, SingleServer
    <2>2. k <= starts'[s]
      BY <1>2, <1>3, <2>1
    <2> QED
      BY <2>1, <2>2
  <1>8. \A w \in Workers : worker'[w] = Idle
    BY <1>1 DEF SingleServer
  <1>9. \A w \in Workers : FetchingOK(w)' /\ OrderedBatch(w)'
    BY <1>8 DEF FetchingOK, OrderedBatch, Idle
  <1> QED
    BY <1>6, <1>7, <1>9 DEF OrderInv

LEMMA NextOrder ==
  ASSUME SingleServer, Inv, CopiesInv, OrderInv, [Next]_vars
  PROVE  OrderInv'
  <1>1. CASE \E q \in Queues, n \in 1..MaxBatch : Send(q, n)
    BY <1>1, SendOrder
  <1>2. ASSUME NEW w \in Workers, Work(w) PROVE OrderInv'
    <2>1. CASE OnTimer(w)
      BY <2>1, OnTimerOrder
    <2>2. CASE \E q \in Queues : Reserve(w, q)
      BY <2>2, ReserveOrder
    <2>3. CASE Fetch(w)
      BY <2>3, FetchOrder
    <2>4. CASE Deliver(w)
      BY <2>4, DeliverOrder
    <2>5. CASE Mark(w)
      BY <2>5, MarkOrder
    <2>6. CASE Release(w)
      BY <2>6, ReleaseOrder
    <2>7. CASE EndOfBatch(w) \/ EndOfTick(w)
      BY <2>7, EndOrder
    <2> QED
      BY <1>2, <2>1, <2>2, <2>3, <2>4, <2>5, <2>6, <2>7 DEF Work
  <1>3. CASE \E w \in Workers : StatementFails(w)
    BY <1>3, EndOrder
  <1>4. CASE \E s \in Servers : Crash(s)
    BY <1>4, CrashOrder
  <1>6. CASE \E s \in Servers : StartUp(s)
    BY <1>6, StartUpOrder
  <1>5. CASE UNCHANGED vars
    <2>1. UNCHANGED << messages, starts, worker, delivered >>
      BY <1>5 DEF vars
    <2>2. /\ Ids' = Ids
          /\ \A m : IsFree(m)' = IsFree(m) /\ Live(m)' = Live(m)
          /\ \A m, n : Before(n, m)' = Before(n, m)
          /\ \A s, q : Reserved(s, q)' = Reserved(s, q)
      BY <2>1 DEF Ids, IsFree, Live, Handler, Before, Reserved
    <2>3. HandlersOfThePast' /\ DeliveredInOrder'
      BY <2>1, <2>2 DEF OrderInv, HandlersOfThePast, DeliveredInOrder
    <2>4. PassedIsDead'
      BY <2>1, <2>2 DEF OrderInv, PassedIsDead
    <2>5. ASSUME NEW w \in Workers PROVE FetchingOK(w)'
      BY <2>1, <2>2 DEF OrderInv, FetchingOK
    <2>6. ASSUME NEW w \in Workers PROVE OrderedBatch(w)'
      BY <2>1, <2>2 DEF OrderInv, OrderedBatch
    <2> QED
      BY <2>3, <2>4, <2>5, <2>6 DEF OrderInv
  <1> QED
    BY <1>1, <1>2, <1>3, <1>4, <1>5, <1>6 DEF Next

(***************************************************************************)
(* With one server, a message is not delivered after one of the same queue *)
(* and a later time stamp that was inserted after it: across batches and   *)
(* ticks, whatever statements fail and however often the server dies.      *)
(***************************************************************************)
THEOREM OneServerKeepsTheOrder ==
  ASSUME SingleServer
  PROVE  Spec => []DeliveredInOrder
  <1> DEFINE AllInv == Inv /\ CopiesInv /\ OrderInv
  <1>1. Init => AllInv
    BY InitInv, InitCopies, InitOrder
  <1>2. AllInv /\ [Next]_vars => AllInv'
    BY NextInv, NextCopies, NextOrder
  <1>3. AllInv => DeliveredInOrder
    BY DEF OrderInv
  <1> QED
    BY <1>1, <1>2, <1>3, PTL DEF Spec
=============================================================================
