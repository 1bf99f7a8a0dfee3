----------------------------- MODULE DapperBus ------------------------------
(***************************************************************************)
(* The SQL Server bus (ECQRS.SqlServer.Bus): a table of messages that      *)
(* senders insert into, and that the timer of every server process polls.  *)
(* A tick reserves the free messages of each queue for its server, reads   *)
(* them back in the order of their time stamps, and for each one invokes   *)
(* the handlers, marks the row elaborated, and then gives back ALL the     *)
(* rows that are still reserved: those it is about to handle included.     *)
(*                                                                         *)
(* Covered: batches of one send, equal time stamps, several servers,       *)
(* overlapping ticks of one server, exceptions of any statement of a tick, *)
(* crashes with restart, and the start of a server, whose timer runs while *)
(* the queues are created and the handlers subscribed one by one.  Not     *)
(* covered: SendSync, which calls the handlers on the sender's thread and  *)
(* touches no row; queues created as multiple, which no configuration of   *)
(* the repository creates; clocks set back; Unsubscribe, which nothing     *)
(* calls.                                                                  *)
(***************************************************************************)
EXTENDS Integers, Sequences, FiniteSets

CONSTANTS
  Servers,       \* processes with IsServer set
  Workers,       \* pool threads that run OnTimer
  Home,          \* Home[w]: the server worker w belongs to
  Queues,        \* queue identities
  Subscribers,   \* event and command handlers
  Source,        \* Source[h]: the queue that handler h is subscribed to
  MaxMessages,   \* bound: messages sent
  MaxBatch,      \* bound: messages of one call of SendMessage
  MaxStamp,      \* bound: values of the clock of the senders
  MaxFailures,   \* bound: statements that fail
  MaxCrashes     \* bound: crashes of each server

ASSUME BusAssumption ==
  /\ Home \in [Workers -> Servers]
  /\ Source \in [Subscribers -> Queues]
  /\ MaxMessages \in Nat /\ MaxBatch \in Nat
  /\ MaxStamp \in Nat /\ MaxFailures \in Nat /\ MaxCrashes \in Nat

VARIABLES
  messages,   \* table Message, in the order of insertion
  running,    \* running[s]: the field _running of the bus of server s
  starts,     \* starts[s]: times s was started again
  queues,     \* queues[s]: the keys of _queues of the bus of s
  subscribed, \* subscribed[s]: the handlers in _subscriptions of its queues
  worker,     \* worker[w]: where in OnTimer worker w is
  delivered,  \* history: messages given to handlers, by whom and to which
  exposed,    \* history: messages that waited while some server was starting
  failures    \* number of failed statements

vars == << messages, running, starts, queues, subscribed, worker, delivered,
           exposed, failures >>

startup == << queues, subscribed >>
history == << delivered, exposed >>

Ids == DOMAIN messages

\* Column Reserved: Guid.Empty, or the _handler of a queue of a started process.
Free == << >>
Handler(s) == << s, starts[s] >>
Handlers == Servers \X Nat

(***************************************************************************)
(* The messages of a queue stand for those of one type, the handlers of    *)
(* the queue for those of that type: a type that is subscribed to later    *)
(* than another is like a queue of its own.                                *)
(***************************************************************************)
SubscribersOf(q) == {h \in Subscribers : Source[h] = q}

Ready(s) == queues[s] = Queues /\ subscribed[s] = Subscribers

Idle == [phase |-> "idle"]

(***************************************************************************)
(* scanning   - between two queues, in the loop of OnTimer                 *)
(* fetching   - rows reserved, before the SELECT of Run                    *)
(* delivering - at the head of the loop of Run over batch                  *)
(* marking    - handlers done, before the UPDATE of the row                *)
(* releasing  - before the UPDATE that gives the reserved rows back        *)
(***************************************************************************)
Tick ==
  [phase : {"scanning", "fetching", "delivering", "marking", "releasing"},
   left  : SUBSET Queues,            \* queues not yet run
   queue : Queues \cup {"none"},
   batch : Seq(Ids)]                 \* messages still to be handled

Step(w, from, to) == worker[w].phase = from /\ worker' = [worker EXCEPT ![w].phase = to]

(***************************************************************************)
(* SendMessage: the messages of one call are inserted in one transaction.  *)
(* The sender reads its clock for each of them before it inserts it, so    *)
(* between calls time stamps need not follow the order of the commits; and *)
(* column Timestamp is a DATETIME, too coarse to tell apart rows that are  *)
(* stamped within a few milliseconds.  The sender is any process that has  *)
(* created the queue, a server or not.                                     *)
(***************************************************************************)
NewMessage(q, stamp) ==
  [queue |-> q, stamp |-> stamp, reserved |-> Free, elaborated |-> FALSE]

Send(q, n) ==
  /\ Len(messages) + n <= MaxMessages
  /\ \E stamp \in [1..n -> 0..MaxStamp] :
       /\ \A j, k \in 1..n : j <= k => stamp[j] <= stamp[k]
       /\ messages' = messages \o [k \in 1..n |-> NewMessage(q, stamp[k])]
  /\ exposed' = IF \A s \in Servers : Ready(s)
                THEN exposed
                ELSE exposed \cup ((Len(messages) + 1)..(Len(messages) + n))
  /\ UNCHANGED << running, starts, startup, worker, delivered, failures >>

IsFree(m) == messages[m].reserved = Free /\ ~messages[m].elaborated

\* The rows a queue of server s has reserved and not handled.
Reserved(s, q) ==
  {m \in Ids : /\ messages[m].queue = q
               /\ messages[m].reserved = Handler(s)
               /\ ~messages[m].elaborated}

\* Mutant: the flag is set without a test, so ticks of one server overlap.
OnTimerMutant(w) ==
  /\ worker[w] = Idle
  /\ \E m \in Ids : IsFree(m)
  /\ running' = [running EXCEPT ![Home[w]] = TRUE]
  /\ worker' = [worker EXCEPT ![w] =
                  [phase |-> "scanning", left |-> queues[Home[w]], queue |-> "none",
                   batch |-> << >>]]
  /\ UNCHANGED << messages, starts, startup, history, failures >>

(***************************************************************************)
(* The timer elapses while no other tick of the server runs, and some      *)
(* message is free.  When another tick runs, or no message is free, the    *)
(* tick ends without a trace.                                              *)
(***************************************************************************)
OnTimer(w) ==
  /\ worker[w] = Idle
  /\ ~running[Home[w]]
  /\ \E m \in Ids : IsFree(m)
  /\ running' = [running EXCEPT ![Home[w]] = TRUE]
  /\ worker' = [worker EXCEPT ![w] =
                  [phase |-> "scanning", left |-> queues[Home[w]], queue |-> "none",
                   batch |-> << >>]]
  /\ UNCHANGED << messages, starts, startup, history, failures >>

\* UPDATE ... SET Reserved; no row: Run returns.
Reserve(w, q) ==
  /\ worker[w].phase = "scanning"
  /\ q \in worker[w].left
  /\ LET rows == {m \in Ids : messages[m].queue = q /\ IsFree(m)}
     IN  /\ messages' = [m \in Ids |->
                           IF m \in rows
                           THEN [messages[m] EXCEPT !.reserved = Handler(Home[w])]
                           ELSE messages[m]]
         /\ worker' = [worker EXCEPT
                         ![w].phase = IF rows = {} THEN "scanning" ELSE "fetching",
                         ![w].left = @ \ {q},
                         ![w].queue = q]
  /\ UNCHANGED << running, starts, startup, history, failures >>

\* Mutant: no ORDER BY.
SortedMutant(rows) ==
  {s \in [1..Cardinality(rows) -> rows] : \A j, k \in DOMAIN s : j < k => s[j] # s[k]}

\* The orders in which SELECT ... ORDER BY Timestamp may return a set of rows.
Sorted(rows) ==
  {s \in [1..Cardinality(rows) -> rows] :
     \A j, k \in DOMAIN s :
       j < k => s[j] # s[k] /\ messages[s[j]].stamp <= messages[s[k]].stamp}

Fetch(w) ==
  /\ worker[w].phase = "fetching"
  /\ \E s \in Sorted(Reserved(Home[w], worker[w].queue)) :
       worker' = [worker EXCEPT ![w].phase = "delivering", ![w].batch = s]
  /\ UNCHANGED << messages, running, starts, startup, history, failures >>

Delivery(w) ==
  LET m == Head(worker[w].batch)
  IN  [msg |-> m, by |-> Handler(Home[w]),
       to |-> subscribed[Home[w]] \cap SubscribersOf(messages[m].queue)]

Leave(w) ==
  /\ worker' = [worker EXCEPT ![w] = Idle]
  /\ running' = [running EXCEPT ![Home[w]] = FALSE]

\* Mutant: the handlers are invoked without a try, and one may throw.
DeliverMutant(w) ==
  /\ worker[w].phase = "delivering"
  /\ worker[w].batch # << >>
  /\ delivered' = Append(delivered, Delivery(w))
  /\ \/ Step(w, "delivering", "marking") /\ UNCHANGED running
     \/ Leave(w)
  /\ UNCHANGED << messages, starts, startup, exposed, failures >>

(***************************************************************************)
(* The handlers subscribed so far are invoked; what one throws is caught.  *)
(* There may be none: the row is then marked all the same.  (A handler     *)
(* that is subscribed while they are enumerated makes the enumerator       *)
(* throw: that is Deliver, Subscribe, and StatementFails before Mark.)     *)
(***************************************************************************)
Deliver(w) ==
  /\ Step(w, "delivering", "marking")
  /\ worker[w].batch # << >>
  /\ delivered' = Append(delivered, Delivery(w))
  /\ UNCHANGED << messages, running, starts, startup, exposed, failures >>

\* Mutant: Elaborated is not set.
MarkMutant(w) ==
  /\ Step(w, "marking", "releasing")
  /\ UNCHANGED << messages, running, starts, startup, history, failures >>

\* Mutant: one UPDATE for the whole batch.
MarkAllMutant(w) ==
  /\ Step(w, "marking", "releasing")
  /\ messages' = [m \in Ids |->
                    IF \E k \in DOMAIN worker[w].batch : worker[w].batch[k] = m
                    THEN [messages[m] EXCEPT !.elaborated = TRUE]
                    ELSE messages[m]]
  /\ UNCHANGED << running, starts, startup, history, failures >>

\* Mutant: the row is deleted.
MarkDeletesMutant(w) ==
  /\ Step(w, "marking", "releasing")
  /\ LET m == Head(worker[w].batch)
     IN  messages' = SubSeq(messages, 1, m - 1) \o SubSeq(messages, m + 1, Len(messages))
  /\ UNCHANGED << running, starts, startup, history, failures >>

\* UpdateGeneric writes the whole row as it was fetched, Elaborated changed.
Mark(w) ==
  /\ Step(w, "marking", "releasing")
  /\ messages' = [messages EXCEPT ![Head(worker[w].batch)].elaborated = TRUE,
                                  ![Head(worker[w].batch)].reserved = Handler(Home[w])]
  /\ UNCHANGED << running, starts, startup, history, failures >>

\* UPDATE ... SET Reserved=@empty, and on to the next message of the batch.
Release(w) ==
  /\ worker[w].phase = "releasing"
  /\ LET rows == Reserved(Home[w], worker[w].queue)
     IN  messages' = [m \in Ids |-> IF m \in rows
                                    THEN [messages[m] EXCEPT !.reserved = Free]
                                    ELSE messages[m]]
  /\ worker' = [worker EXCEPT ![w].phase = "delivering", ![w].batch = Tail(@)]
  /\ UNCHANGED << running, starts, startup, history, failures >>

\* Run returns to the loop over the queues.
EndOfBatch(w) ==
  /\ worker[w].phase = "delivering"
  /\ worker[w].batch = << >>
  /\ worker' = [worker EXCEPT ![w].phase = "scanning"]
  /\ UNCHANGED << messages, running, starts, startup, history, failures >>

EndOfTick(w) ==
  /\ worker[w].phase = "scanning"
  /\ worker[w].left = {}
  /\ Leave(w)
  /\ UNCHANGED << messages, starts, startup, history, failures >>

\* Mutant: _running is reset at the end of the try block only.
StatementFailsMutant(w) ==
  /\ worker[w] # Idle
  /\ failures < MaxFailures
  /\ failures' = failures + 1
  /\ worker' = [worker EXCEPT ![w] = Idle]
  /\ UNCHANGED << messages, running, starts, startup, history >>

\* A statement throws: OnTimer catches the exception and ends the tick.
StatementFails(w) ==
  /\ worker[w] # Idle
  /\ failures < MaxFailures
  /\ failures' = failures + 1
  /\ Leave(w)
  /\ UNCHANGED << messages, starts, startup, history >>

(***************************************************************************)
(* The start of a server: both queues first, then the handlers, in the     *)
(* order in which the container lists them.  The timer elapses from the    *)
(* construction of the bus on, so ticks may come in between.               *)
(***************************************************************************)
CreateQueue(s, q) ==
  /\ q \notin queues[s]
  /\ queues' = [queues EXCEPT ![s] = @ \cup {q}]
  /\ UNCHANGED << messages, running, starts, subscribed, worker, history, failures >>

Subscribe(s, h) ==
  /\ queues[s] = Queues
  /\ h \notin subscribed[s]
  /\ subscribed' = [subscribed EXCEPT ![s] = @ \cup {h}]
  /\ UNCHANGED << messages, running, starts, queues, worker, history, failures >>

StartUp(s) ==
  \/ \E q \in Queues : CreateQueue(s, q)
  \/ \E h \in Subscribers : Subscribe(s, h)

(***************************************************************************)
(* The process dies and is started again: it has no queue and no handler   *)
(* yet, and its queues will get new ids.                                   *)
(***************************************************************************)
Crash(s) ==
  /\ starts[s] < MaxCrashes
  /\ starts' = [starts EXCEPT ![s] = @ + 1]
  /\ running' = [running EXCEPT ![s] = FALSE]
  /\ worker' = [w \in Workers |-> IF Home[w] = s THEN Idle ELSE worker[w]]
  /\ queues' = [queues EXCEPT ![s] = {}]
  /\ subscribed' = [subscribed EXCEPT ![s] = {}]
  /\ exposed' = exposed \cup {m \in Ids : ~messages[m].elaborated}
  /\ UNCHANGED << messages, delivered, failures >>

Init ==
  /\ messages = << >>
  /\ running = [s \in Servers |-> FALSE]
  /\ starts = [s \in Servers |-> 0]
  /\ queues = [s \in Servers |-> {}]
  /\ subscribed = [s \in Servers |-> {}]
  /\ worker = [w \in Workers |-> Idle]
  /\ delivered = << >>
  /\ exposed = {}
  /\ failures = 0

Work(w) ==
  \/ OnTimer(w)
  \/ \E q \in Queues : Reserve(w, q)
  \/ Fetch(w)
  \/ Deliver(w)
  \/ Mark(w)
  \/ Release(w)
  \/ EndOfBatch(w)
  \/ EndOfTick(w)

Next ==
  \/ \E q \in Queues, n \in 1..MaxBatch : Send(q, n)
  \/ \E w \in Workers : Work(w)
  \/ \E w \in Workers : StatementFails(w)
  \/ \E s \in Servers : StartUp(s)
  \/ \E s \in Servers : Crash(s)

Spec == Init /\ [][Next]_vars

\* The timer of a server goes on elapsing, a tick that runs goes on, and so
\* does the start of a server.
FairSpec ==
  /\ Spec
  /\ \A w \in Workers : WF_vars(Work(w))
  /\ \A s \in Servers : WF_vars(StartUp(s))

-----------------------------------------------------------------------------
Message ==
  [queue : Queues, stamp : 0..MaxStamp, reserved : Handlers \cup {Free},
   elaborated : BOOLEAN]

TypeOK ==
  /\ messages \in Seq(Message)
  /\ running \in [Servers -> BOOLEAN]
  /\ starts \in [Servers -> Nat]
  /\ queues \in [Servers -> SUBSET Queues]
  /\ subscribed \in [Servers -> SUBSET Subscribers]
  /\ worker \in [Workers -> {Idle} \cup Tick]
  /\ delivered \in Seq([msg : Ids, by : Handlers, to : SUBSET Subscribers])
  /\ exposed \subseteq Ids
  /\ failures \in 0..MaxFailures

(***************************************************************************)
(* No message is put aside that no tick has handled, in spite of crashes,  *)
(* failed statements and servers that take each other's messages.  And it  *)
(* was given to all of its handlers, unless a server was starting while it *)
(* waited: a server whose handlers are not yet subscribed takes messages   *)
(* all the same, and puts them aside for good.                             *)
(***************************************************************************)
ElaboratedWasDelivered ==
  \A m \in Ids : messages[m].elaborated =>
    \E k \in DOMAIN delivered :
      /\ delivered[k].msg = m
      /\ m \notin exposed => delivered[k].to = SubscribersOf(messages[m].queue)

(***************************************************************************)
(* How often can handlers see one message?  A server that loses no tick    *)
(* delivers it once, ticks that overlap included: every other copy is due  *)
(* to a failed statement, to a crash, or to another server, which takes    *)
(* the messages that Run gives back before it has handled them.            *)
(***************************************************************************)
Copies(m, s) == {k \in DOMAIN delivered : delivered[k].msg = m /\ delivered[k].by[1] = s}

CopiesAreAccountedFor ==
  \A m \in Ids, s \in Servers :
    Cardinality(Copies(m, s)) <= 1 + failures + starts[s]

(***************************************************************************)
(* Once a server has delivered a message, it does not deliver one of the   *)
(* same queue that was inserted before it, or by the same call, with a     *)
(* lower time stamp.  This spans batches and ticks and holds whatever      *)
(* fails: what a failed tick leaves reserved is read back before anything  *)
(* newer, and what a crash leaves reserved is never seen again.  It is     *)
(* checked with one server: two servers do not keep it.                    *)
(***************************************************************************)
DeliveredInOrder ==
  \A j, k \in DOMAIN delivered :
    LET m == delivered[j].msg
        n == delivered[k].msg
    IN  j < k /\ messages[m].queue = messages[n].queue /\ n < m =>
          messages[m].stamp <= messages[n].stamp

(***************************************************************************)
(* Without failures a message that is reserved and not handled is in the   *)
(* hands of a tick of the server that reserved it.  A reservation never    *)
(* expires: one that has lost its tick would keep the message for ever.    *)
(***************************************************************************)
Holds(w, m) ==
  /\ worker[w] # Idle
  /\ worker[w].queue = messages[m].queue
  /\ \/ worker[w].phase = "fetching"
     \/ \E k \in DOMAIN worker[w].batch : worker[w].batch[k] = m

ReservationHasOwner ==
  \A m \in Ids :
    messages[m].reserved # Free /\ ~messages[m].elaborated =>
      \E w \in Workers : Handler(Home[w]) = messages[m].reserved /\ Holds(w, m)

(***************************************************************************)
(* Without failures every message that is sent is put aside in the end.    *)
(***************************************************************************)
EveryMessageElaborated ==
  \A m \in 1..MaxMessages : m \in Ids ~> m \in Ids /\ messages[m].elaborated

(***************************************************************************)
(* Whatever fails, no free message is left lying: a server takes it.       *)
(***************************************************************************)
FreeMessageIsTaken ==
  \A m \in 1..MaxMessages : m \in Ids /\ IsFree(m) ~> m \in Ids /\ ~IsFree(m)
=============================================================================
