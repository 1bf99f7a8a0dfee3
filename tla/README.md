# ECQRS: specifications, model checking and proofs

ECQRS is a C# framework for CQRS with event sourcing: command handlers load an
*aggregate* by replaying its events, the aggregate decides on new events, an
*event store* appends them and hands them to a *bus*, and event handlers keep
the *views* that queries read. Three stacks implement store, bus and view
repository (in process, on the fly, SQL Server; a fourth adapts MassTransit),
and three samples use them (SimpleCQRS, Diary, UsersManager).

This directory holds TLA+ modules of that program, the TLC configurations that
check them on small instances and proofs that TLAPS checks for all instances.
Paths below are relative to `src/ECQRSFramrework/`.

## 1. The system

| Component | State | Operations | What makes it correct |
|---|---|---|---|
| SQL event store, `ECQRS.SqlServer.EventStore` | table Event | `SaveEvents`, `GetEventsForAggregate` | versions without gap or duplicate; `expectedVersion` honoured; what is stored is published and nothing else |
| Aggregate repository, `ECQRS.Commons/Domain/AggregateRepository.cs` | none | `GetById`, `Save` | saves what was decided on the history that was read |
| SQL bus, `ECQRS.SqlServer.Bus` | tables Message, Queue, Subscription; `_running`, reservation ids | `Publish`, `Send`, `SendSync`, `Subscribe`, timer tick | every message handled, once where the code can promise it, in order where it can |
| Aggregate root, `ECQRS.Commons/Domain/AggregateRoot*.cs` | state of the aggregate, `Version`, uncommitted changes | `ApplyChange`, `LoadsFromHistory`, `MakeSnapshot` | replay rebuilds the state the events were decided on |
| In-process stack, `ECQRS.InProcess` | dictionaries, queues, a runner thread | as the SQL stack | the same promises, with threads and no locks |
| On-the-fly stack, `ECQRS.OnTheFly` | dictionaries | as above, delivery on the caller's stack | handlers of an event all run; re-entrance |
| View repository, `ECQRS.SqlServer/Repositories` | one table per view | `Save`, `Update`, `Delete`, `Where` | each projection is a function of the history |
| Paging, `ECQRS.Commons/Repositories/JoinUtil.cs` | none | `DoSkip`, `DoTake`, joins | the page asked for |
| Diary sample, `Samples/RobertKanasz` | aggregate, view, open forms | pages, commands, event handlers | edits take effect as posted; views follow aggregates |
| UsersManager sample, `Samples/UsersManager` | aggregates of organizations, applications and users; views of each | commands by concurrent request threads, event handlers | domain rules survive concurrent commands; lists agree with aggregates |
| Web client, `UserManager.Web/app` | scope of a list page, page buttons, stack of dialogs | clicks; answers, templates | the page shows what was asked last; the dialog that closes is the one meant |

How they interact: a web request or a handler calls `ICommandSender.Send` (queue
`ecqrs.commands`) or `SendSync` (handlers run on the caller's thread). A command
handler calls `GetById`, a method of the aggregate and `Save(aggregate,
expectedVersion)`. `SaveEvents` inserts every event in one transaction and,
before it commits, calls `Publish` for it (queue `ecqrs.events`), which uses a
connection of its own. The timer of each server process polls the message table
and invokes the handlers. Server processes share nothing but the two databases.

What is hard here:

* **Concurrency.** The check of the version reads, then inserts, with no lock
  held in between; ticks of the timer can overlap; servers take messages from
  the same table; `SendSync` puts handlers on web threads next to the timer.
* **Failure.** Publication and storage are two databases without a common
  transaction; a tick can fail between reservation, delivery, mark and release;
  a process can die holding reservations that never expire.
* **Start.** The timer of a server runs from the construction of its bus, while
  its queues are still being created and its handlers subscribed.
* **Order.** Time stamps are coarse and read before the insert; servers
  interleave; views apply events in the order they arrive.
* **Time.** The timer elapses whether or not the last tick has ended; a tick
  does nothing unless some message is free.

`PROJECT.json` lists the hazards with their lines and the properties that catch
them.

## 2. The modules

### EventLog

What a store promises: per aggregate an append-only list of consecutive
versions, grown in one step per save. It is the specification the code's own
comments give ("iterate through current aggregate events increasing version
with each processed event") and the abstract side of the refinement below.

### DapperEventStore (`DapperEventStore.cs`, `AggregateRepository.cs`)

| Model | Code |
|---|---|
| `stored[a]` | committed rows of table Event, in commit order |
| `tx[t]` | the call of `SaveEvents` thread `t` is in: its `expectedVersion`, variable `i`, rows inserted and not committed |
| `published` | events given to `_publisher.Publish` |
| `Create`, `Load` | a command handler that makes a new aggregate, or loads one (`GetById`) and saves with `-1`, with the version it read, or with one a client saw in a published event |
| `ThrowConcurrencyException`, `ReadLastVersion` | lines 64-76: the SELECT and the test |
| `InsertEvent`, `PublishEvent` | lines 81-100, one iteration of the loop |
| `Commit`, `Rollback` | line 102; any exception or crash before it |

`RowVersioning` chooses what a SELECT does with uncommitted rows of others: wait
for them (SQL Server's default) or not see them. `AllHandled` only keeps TLC from
reporting the end of a bounded behaviour as a deadlock. Payloads, serialisation
and time stamps are left out: no property depends on them.

### DapperBus (`DapperBus.cs`, `QueueInstance.cs`)

| Model | Code |
|---|---|
| `messages` | table Message |
| `running[s]` | the field `_running` |
| `starts[s]` | how often process `s` was started; with `s` it stands for `_handler`, the GUID a queue object reserves rows with |
| `worker[w]` | a pool thread in `OnTimer`, between two SQL statements |
| `queues[s]`, `subscribed[s]` | the keys of `_queues`, and the handlers in `_subscriptions` of its queues |
| `delivered`, `exposed` | history: calls of the handlers, with the handlers there were; messages that waited while some server was starting |
| `Send` | `SendMessageInternal`, one transaction per call |
| `OnTimer`, `Reserve`, `Fetch`, `Deliver`, `Mark`, `Release`, `EndOfBatch`, `EndOfTick` | `OnTimer` lines 69-112 and `Run` lines 65-136, one action per statement |
| `StatementFails` | an exception anywhere in a tick (lines 102-111) |
| `StartUp` (`CreateQueue`, `Subscribe`) | `StartupInitializersInstaller` lines 68-73: both queues, then the handlers one by one |
| `Crash` | the process dies and starts again: no queue, no handler, a timer that runs |

`Mark` writes the reservation back as well, because `UpdateGeneric` writes the
whole row as it was fetched. `Release` frees every reserved row of the queue,
also those of the same batch that are still to be handled, as the code does.
`Deliver` gives a message to the handlers subscribed by then. There may be none:
the code skips the handlers and marks the row elaborated all the same, and
`CreateQueue` and `Subscribe` may come between any two statements of a tick,
because the timer does not wait for them. The messages of a queue stand for those
of one type, and `Subscribers` for the handlers of that type (`SubscribersOf`).
Not modelled: `SendSync` (touches no row), queues created as multiple (nothing in
the repository creates one), `Unsubscribe` (nothing calls it), clocks set back.

### Diary (`Samples/RobertKanasz`, `AggregateRoot.cs`, both stores)

One item of the Diary sample from end to end: the page that copies the view's
row into a form, the posted command, the handler that replays the aggregate, the
store, the event handler, the view.

| Model | Code |
|---|---|
| `history` | the item's rows in the store, oldest first |
| `commands`, `events` | the queues `ecqrs.commands` and `ecqrs.events` |
| `row` | the item in the view; `assigned` is the event whose handler has set the field and not yet the version |
| `forms[u]` | what the browser of `u` shows, the version included |
| `Add`, `OpenEdit`, `ReadField`, `ReadVersion`, `PostEdit`, `ClickDelete` | `HomeController` |
| `CreateItem`, `ChangeItem`, `DeleteItem` | the command handlers with `GetById`, the methods of `DiaryItem` and `Save`; `Loaded` is `LoadsFromHistory` |
| `ItemCreated`, `ItemChanged`, `SetVersion`, `ItemDeleted` | the event handlers of the view |

The sample can run on two stacks, which two constants tell apart. `NewestFirst`:
for a snapshottable aggregate `DapperEventStore` returns the events by falling
version and `InProcessEventStore` in the order of the saves. `SharedRows`:
`InProcessRepository` hands out the object it keeps, so a page can read a row
between two assignments of an event handler (`ReadField`, `SetVersion`), while
`DapperRepository` reads and writes a row in one statement.

Left out: several servers, saves that fail after publishing, equal time stamps
(each has its own module so far; the plan composes them), and snapshots, which
no aggregate of the sample makes. At most one item is created: items share
nothing.

### Organization (`UserManager.Organizations`, `OrganizationGroup*View.cs`)

One organization of the UsersManager sample, its roles, its groups and the roles
of its groups, on the SQL Server stack.

| Model | Code |
|---|---|
| `history` | committed rows of the aggregate in the order of the commits, each with its version and `basis`, how many rows its command had loaded |
| `request[t]` | the command a request thread handles: decided, or in its save, with the last version that the save has read |
| `queue` | `ecqrs.events`, taken by one server in the order sent |
| `roleRow`, `groupRow`, `used` | tables OrganizationRolesView, OrganizationGroupsView, OrganizationGroupRolesView |
| `gone`, `DeleteApplicationRole` | roles deleted in their application, another aggregate whose event the views handle too |
| `Offered` | what the controllers let a page post, from rows that a list has shown |
| `Orders`, `Loads` | `GetEventsForAggregate`: rows `ORDER BY Version`, those of one version in any order; what `GetById` may return |
| `Replayed`, `Throws`, `Effect`, `AddGroup`, `RemoveGroup`, `RemoveRole` | `LoadsFromHistory` and the `Apply` methods of `OrganizationItem` |
| `Accepts`, `Decide`, `Refuse` | `CheckDeleted`, the calls of `Check`, the command handlers |
| `ReadVersion`, `InsertEvent`, `Commit`, `Rollback` | `SaveEvents` with expectedVersion -1: the SELECT of the last version, one INSERT with its `Publish` per event, the commit |
| `HandleEvent` and the three `...ViewHandles` | the event handlers of the views, each in a try block of its own |

`Blocked` is SQL Server's READ COMMITTED: the SELECT of `GetById` and of a second
save wait while another thread has inserted rows that are not committed. Between
decision and save a thread holds nothing, nor between the SELECT of the save and
its first INSERT: two requests can decide on one history, and two saves can number
their rows from one version. These are the races this module is about. An INSERT
and the `Publish` that follows it are one step: in between others see only that
they have to wait, which they do already after the first row.

A SELECT is one step, at a moment when no other thread has inserted rows that are
not committed. (A scan that passes rows while others insert might also see a save
in part, the table being ordered by random keys; the module does not cover this.)
Not covered either: names, codes, descriptions and `OrganizationModified`; members
of groups; the delivery of messages (`DapperBus`).

### WebClient (`UserManager.Web/app`, `JoinUtil.cs`, `AngularApiUtils.cs`)

A list page: `ListController`, the grid with its page buttons, the dialogs of
`sgDialogService` with their controllers, and what the list queries return.

| Model | Code |
|---|---|
| `pageSize`, `list`, `buttons` | what the scope of the page and of the grid hold |
| `requests`, `latest`, `fate` | list requests without an answer; history of the last one |
| `opening`, `dialogs` | templates on their way; the array of open dialogs |
| `calls` | saves, details and deletions without an answer, by dialog |
| `overlay`, `covers` | the shared overlay, which is toggled, and the one each dialog gets when another covers it |
| `hasty` | history: a click while a template or an answer to the top dialog was awaited |
| `Search`, `Press`, `ChangeSize`, `ListAnswered`, `ListFailed` | `loadData` and the callbacks of its request; `InitializeData` |
| `Answer` with `DoSkip`, `DoTake` | `ParseRange` and the query of the controllers, on rows that are their positions |
| `Pagination`, `TotalPages` | `sgGridPaginationService` |
| `PushDialog`, `PopDialog` | `openModalInternal`, `popDialog` |
| `AddNew` to `Confirm` | the clicks of the page and of the dialogs |
| `Saved`, `DetailFailed`, `Deleted`, `OtherAnswer` | answers, in any order and whatever became of the dialog |

Not covered: what forms hold, messages, the route, the lists inside dialogs
(instances of the same controller). A query is evaluated in the step that
delivers its answer, and every query has the same order of rows.

### Proof modules

`DapperEventStoreProofs`, `SingleWriterProofs`, `DapperBusProofs`,
`BusOrderProofs`, `WebClientProofs`, `DiaryProofs` and `OrganizationProofs` hold
the theorems of section 4; each extends the module it is about.
`InductionLemmas` is what the last two share: induction over numbers, and the
existence of functions defined by recursion over them.

### MC modules

The MC modules only define what a `.cfg` cannot write: who writes which aggregate,
which worker belongs to which server, in which order the fields are compared,
sets of numbers. The request threads of `Organization` are symmetric, and so are
the users of the diary; only safety is checked of these modules, so TLC may
exchange them. `CheckedSpec` of `MCDapperEventStore` restricts `Spec` to what the
comment on the check is about: one creation, and then saves that expect the
version they loaded, no save with `-1`, which is never checked.

## 3. The runs

| Run | Instance | Shows |
|---|---|---|
| `event_store_mixed` | 2 threads, 2 aggregates (one with a single writer), 4 commands of up to 2 events, 1 rollback, no waiting readers | types; no gap in the versions; nothing stored that was not published; nothing published that is not stored, pending or rolled back; with a single writer: unique versions, `expectedVersion` honoured, `EventLog` implemented |
| `event_store_locking` | readers that wait, 3 commands, fairness | every save ends; the only waiting is for a transaction that has done its reading, so no circle of threads waits |
| `event_store_race` | 2 threads on one aggregate, one creation, then saves that expect the version they loaded (`CheckedSpec`) | **violated**: the comment at `DapperEventStore.cs:70-71` (finding) |
| `bus_one_server` | 1 server from its start, 2 workers, 2 queues with one handler, 3 messages, a failed statement, a crash | copies only where a failure or crash explains them; messages of a queue delivered in the order they were inserted, up to equal or inverted time stamps |
| `bus_two_servers` | 2 servers, 3 messages in batches of up to 3, nothing fails, fairness | no reservation without a tick that holds it; every message is handled |
| `bus_failures` | 2 servers from their start, 1 handler, 2 messages with equal stamps, 2 failed statements, a crash of each server, fairness | types; nothing marked that no tick handled, and nothing that missed a handler unless a server was starting; copies bounded by servers and failures; a free message is taken |
| `diary_in_process` | 2 users, 2 fields of 2 values, 4 commands, rows shared with the pages | types; the view shows what the history says once the events are handled; an accepted edit leaves the item as posted; a deletion is never refused |
| `diary_sql_server` | 2 users, 5 commands, newest events first | an edit is stored only if its page showed the item as it is now; nothing follows a deletion |
| `organization` | 2 request threads, 1 role, 2 groups, 3 commands, 1 rollback, queue of 2, from organizations with and without groups and roles (2.3 million states) | types; a history stops loading only after two requests raced, whatever the order of rows of one version; a group keeps a role its organization has lost only after such a race or rows of one version; lists agree with the aggregate at rest, unless saves overlapped or one was rolled back; a command is refused only for a reason |
| `web_client` | page sizes 1 and 2, lists of 0 or 4 rows, 2 list requests in flight, 2 dialog instances, 2 answers awaited by a dialog | types; pages tile the list; buttons lead to rows; the latest answer is shown; overlay and covers match the dialogs; only a hasty click lets an answer close the wrong dialog |
| `web_list` | as above | **violated**: the comment at `OrganizationGroupsController.cs:135` (finding) |
| `diary_replay` | 1 user, 3 commands, newest events first | **violated**: the comment at `DapperEventStore.cs:107-108` (finding) |

Bounds. Two threads are enough for the race and the third save shows its
consequences; batches of two events put a rollback, a crash or a reader between
two events of one save. Two servers with two messages make every overlap of
`Run` with `Release` of the other; the third message makes a batch of which two
rows are given back at once. Failures are at any statement. `MaxStamp = 1`
gives equal, ordered and inverted stamps; in `bus_failures`, where no property is
about the order, all stamps are equal and a batch is read in every order. One
handler is enough for a tick that finds it subscribed or not, and queue `commands`
of `bus_one_server` has none; `bus_two_servers` has none either, since its
properties do not depend on who handles a message. In the diary two fields are what it
takes for a command to store two events, or one and not the other; four commands
are a creation, two edits from one page (the second stale) and a deletion, and
the fifth is an edit from a page opened after the others.

The organization starts with or without the state its groups and roles can have,
so that three commands reach what would take eight from an empty one: two that
race and a third that meets the result, or a deletion, started before and saved
after the addition that follows it. Two groups with the one role are what
lets `RoleDeleted` remove the row of one and leave the other. A queue of two
holds both events of a role's deletion, and the rollback can come before, between
and after the publications of a save.

Four rows in pages of one make more pages than the two buttons, so that all five
kinds of buttons appear, also in pages of two; a list that shrinks to nothing
makes every shown page stale. Two requests are in flight at a time, in either
order of answers, and the size may change in between. Two dialog instances make a
pane over an edit, two dialogs opened before either shows, and an answer to a
dialog that is covered or closed and whose place another has taken; two answers
make a save that is clicked twice. The theorems of section 4 have none of these
bounds.

Three of the diary's properties are checked on one stack only, on purpose.
`EditTakesEffect` and `ReplayRebuildsState` fail with the events newest first
(the second finding). `AcceptedEditSawLatest` fails with shared rows: a page that
reads a field before, and the version after, an event handler shows a mixture
under the latest version, and the edit made from it is accepted.

Every property has a mutant (`PROJECT.json`, definitions that end in `Mutant`):
a plausible slip put in place of the modelled code under which TLC finds the
property violated.

**Fairness.** A thread inside `SaveEvents` goes on unless it waits for a row
lock (`WF` on its steps): SQL Server grants a lock when it is free. A worker's
timer elapses every 500 ms (`Timer(500)`, repeating) and a tick that runs goes
on, so `WF` on `Work(w)`. A server that starts goes on creating its queues
and subscribing its handlers (`WF` on `StartUp(s)`). Nothing is assumed of senders, failures or crashes.
Without fairness on a server's tick nothing would follow; with it nothing
follows for a message whose reservation was lost, and no property says so.

### The findings

`SaveEvents` reads the last version and compares it, but neither holds a lock
that would keep other readers out nor has a unique index on aggregate and
version. Two transactions that expect version v both find v, and both commit;
the aggregate then has two rows with version v+1. `event_store_race` is the
trace: two threads load version 2, both pass the check, and both commit a row with
version 3; `ExpectedVersionHonouredForSingleWriter` is what remains true.

`GetEventsForAggregate` of the SQL store ends in `ORDER BY Version DESC` for a
snapshottable aggregate, and `LoadsFromHistory` applies the events in the order
they come. An item that was created and then changed is therefore rebuilt with
the values of its creation, against the comment that says the list is "used to
build up an aggregate from its history". In the Diary sample an edit back to the
original value is compared with that state and dropped. `diary_replay` is the
trace.

`JoinUtil.DoSkip` counts down before it compares, and yields a row only once the
counter is below zero: it skips one row more than it is asked to. `DoTake` takes
one more for the same reason, so the pages tile (`PagesTile`) the rows after the
first, and the first row of a list is on no page, against comments such as
"Retrieves all the roles associated with the given organization"
(`OrganizationGroupsController.cs:135`). `web_list` is the trace.

Facts about the code that contradict no text of the repository, and are
therefore not findings: with two servers a message can be delivered by both; two
servers do not keep the order of a queue; a crash orphans the messages it had
reserved; a statement that fails leaves its messages reserved until another
message is sent; an event can reach its subscribers and then be rolled back. A
server that is starting puts messages aside that no handler, or not every handler,
has seen. Two
requests that race can make an organization unloadable for good, and leave a
group with a role that its organization lost. Two saves that overlap leave rows of
one version, whose order in a replay the database chooses; the views, which follow
the order of publication, may then say that a role is deleted that the aggregate
has, and nothing corrects them. The list of the roles of a group
keeps rows of roles and groups that are gone. In the web client an older answer
that comes late replaces a newer page, and the answer to a save closes whichever
dialog is on top.

## 4. The proofs

All theorems hold for all values of the constants (any set of threads, servers,
workers or queues, any assignment of writers, both read modes, all page sizes,
all bounds). They rest on the named assumption of the module they are about
(`EventStoreAssumption`, `BusAssumption`, `WebClientAssumption`, `DiaryAssumption`,
`OrganizationAssumption`: the types of the constants, and that there are finitely
many roles, since the initial history lists them) and on what the table names.
Every safety property of every passing run is among them.

| Theorem | Statement |
|---|---|
| `DapperEventStoreProofs!TypeCorrectness` | `Spec => []TypeOK` |
| `DapperEventStoreProofs!NoGap` | `Spec => []NoVersionGap` |
| `DapperEventStoreProofs!NothingUnpublished` | `Spec => []CommittedWasPublished` |
| `DapperEventStoreProofs!NothingInvented` | `Spec => []PublishedIsAccountedFor` |
| `SingleWriterProofs!NoVersionTwice` | `Spec => []UniqueVersions` |
| `SingleWriterProofs!CheckIsHonoured` | `Spec => ExpectedVersionHonouredForSingleWriter` |
| `SingleWriterProofs!Implementation` | `Spec => ImplementsEventLog`, the refinement of `EventLog` |
| `DapperBusProofs!TypeCorrectness` | `Spec => []TypeOK` |
| `DapperBusProofs!ElaboratedMeansDelivered` | `Spec => []ElaboratedWasDelivered` |
| `DapperBusProofs!TicksDoNotOverlap` | `Spec => []OneTick`: one worker of a server at a time is in its queues |
| `DapperBusProofs!CopiesAreBounded` | `Spec => []CopiesAreAccountedFor` |
| `DapperBusProofs!NoReservationIsLost` | `Spec => []ReservationHasOwner`, when `MaxFailures = 0` and `MaxCrashes = 0` |
| `BusOrderProofs!OneServerKeepsTheOrder` | `Spec => []DeliveredInOrder`, when there is one server |
| `WebClientProofs!TypeCorrectness` | `Spec => []TypeOK` |
| `WebClientProofs!LatestIsShown` | `Spec => []LatestAnswerIsShown` |
| `WebClientProofs!PagesDealTheRows` | `Spec => []PagesTile` |
| `WebClientProofs!ButtonsAreUseful` | `Spec => []ButtonsLeadToRows` |
| `WebClientProofs!OverlaysAreRight` | `Spec => []OverlayIffDialog` |
| `WebClientProofs!TheRightDialogCloses` | `Spec => OnlyHasteClosesTheWrongDialog` |
| `DiaryProofs!TypeCorrectness` | `Spec => []TypeOK` |
| `DiaryProofs!DeletionIsLast` | `Spec => []DeletedStaysDeleted` |
| `DiaryProofs!ViewIsUpToDate` | `Spec => []ViewFollowsHistory` |
| `DiaryProofs!DeletionIsAccepted` | `Spec => DeleteIsNeverRefused` |
| `DiaryProofs!ReplayIsFaithful` | `Spec => []ReplayRebuildsState`, when events are not returned newest first |
| `DiaryProofs!EditIsStored` | `Spec => EditTakesEffect`, when events are not returned newest first |
| `DiaryProofs!NothingUnseenIsOverwritten` | `Spec => AcceptedEditSawLatest`, when pages do not share the rows |
| `OrganizationProofs!TypeCorrectness` | `Spec => []TypeOK` |
| `OrganizationProofs!UnloadableAfterRaceOnly` | `Spec => []UnloadableOnlyAfterRace` |
| `OrganizationProofs!GroupsHaveRolesOfOrganization` | `Spec => []GroupRolesAreOfOrganization` |
| `OrganizationProofs!ListsAreOfAggregate` | `Spec => []ListsFollowAggregate` |
| `OrganizationProofs!RefusalsHaveReasons` | `Spec => RefusedForAReason` |

### The event store

No-gap is not inductive. What a commit appends is numbered from the version
read at the head of the transaction, which others may have overtaken by then.
The invariant `Inv` therefore also says, of every transaction in its loop: the
base it numbers from is the version before the first one or is still the version
of a stored row (`HasLastVersion`), its pending rows are numbered consecutively
from that base, variable `i` is the last of them, and all but at most the last
have been published with their version (`TransactionOK`). Since `stored` only
grows, the steps of other threads keep this (`ThreadStep`), and a commit appends
a block whose first row has a predecessor (`NoGapInConcat`). Publication follows
the same block: a commit happens at the head of the loop, where all pending rows
are published.

`NothingInvented` adds two conjuncts to `Inv` (`AccountInv`): the rows of a
transaction carry the identity of its command, which is what a rollback leaves
behind of them, and a transaction that the check refuses has no rows.

The single-writer theorems need `SoleInv`: for an aggregate with one writer, the
k-th row has the k-th version, only its writer has a transaction on it, and what
that transaction read (base of the numbering, expected version) is the end of the
log until it commits. Commits of others cannot disturb this: a transaction on the
same aggregate would be one of the same thread (`SoleCommit`). A commit then is
`Save` of `EventLog` (`CommitLog`) and every other step a stutter.

### The bus

`OneTick` is what the exchange of `_running` achieves, and everything else needs
it: while a tick of a server is under way, only its own steps reserve rows for the
server and give them back. `Inv` adds that a worker that is about to mark a row has
delivered it (`BatchOK`), which gives the first half of `ElaboratedMeansDelivered`. For the
second half, `ExposedOK` says that as long as some server is starting every message
that waits is exposed. A message that is not exposed was therefore delivered by a
server that had all its handlers.

The bound on copies (a server delivers a message at most once, plus once per
failed statement and per start) is not inductive, because `Release` gives back
rows that the batch still holds, and another tick may take them. `CopiesInv`
splits it by what may still happen to a message: while it is not elaborated, the
server's copies are within failures and starts alone, leaving room for one more
delivery, or its delivery has just happened and the tick is at `Mark`
(`NotElaboratedSettled`); and the same room is left for each row a batch has not
reached yet, whatever other servers have done to the row (`BatchSettled`). A
failed statement or a crash raises the bound by one as it abandons a delivery
that is not marked.

Order needs more (`OrderInv`). The hard part is a row that a failed tick has
left reserved: it is older than rows that become free later, and it must come
before them. It does, because the reservation is by server and not by tick: the
next tick that reserves fetches the old rows with the new. A crash breaks this
(the new process has other ids), and then the row is never delivered again. The
invariant says so: whatever should have come before a delivered row is dead,
elaborated or reserved under an id of the past (`PassedIsDead`), a batch holds
every live row that should come before one of its own, and before it
(`OrderedBatch`), and what became free after the UPDATE of a tick was inserted
after its rows (`FetchingOK`). With two servers the statement is false, and the
theorem assumes one.

### The web client

The proof is in two halves, since a step changes the list or the dialogs, or
both independently. `ListInv` adds to the three properties that the latest
request is the last of the queue while it waits, and that it was made with the
size in force or is a first page (`LatestFits`); `Tiling` and `ButtonPagesOf` are
the arithmetic of `DoSkip`, `DoTake`, the guessed total and the rounding to pages,
for all numbers. `DialogInv` adds `OneAtATime`: as long as no click was hasty, at
most one template or answer is awaited, and an answer is to the top dialog.
With more than one under way `popDialog` has nothing to tell the dialogs apart.

### Replaying a history

The aggregates of the diary and of the organization are the fold of their
history, a function defined by recursion over the number of events. The library's
induction theorems take a predicate as a parameter, which the provers cannot
instantiate. `InductionLemmas` states the same with sets and functions in the
predicate's place: `LeastElement` (from the well-foundedness of `<`), `Induction`
for a set of numbers, and `Recursion`, that a function given by a first value and
a step function exists. The set is then "the numbers of events after which the
replay is described by ...", and the description has no recursion in it:

* of the diary, `Says(s, n, c)`: content `c` has, of each field, the value that
  the last of the first `n` events about this field gave it;
* of the organization, `Stands(s, k, on, off)`: of the first `k` events one is in
  the set `on` (it creates the group, adds the role, ...) and none after it is in
  `off`. `Says(s, k, x)` puts together what stands, and, of an aggregate that does
  not load, that some event clashes with those before it.

`ReplayIsMeaning` and `LoadsSay` show that `LoadsFromHistory` computes just this,
for histories of any length, and the rest of the proofs speaks of `Says` alone. The
organization has its rows in any order that agrees with their versions: the same
induction, over versions, shows that what `Orders` builds are just these (`IsOrder`),
and that the rows in the order of their commits are the only one when the versions
are 1, 2, 3 and so on (`NumberedInOrder`).

### The diary

The invariant follows an item around the circle of store, view, page and
command. The events that wait are the last of the history (`QueueOK`), so the
view shows what the handled ones say (`ViewOK`), except between two assignments
of one handler. The versions of the history count up without a gap, start with
the creation, and only deletions follow a deletion (`HistoryOK`). A form has been
filled from the row of some earlier state and a posted command from a form
(`FormOK`, `CommandOK`); what they have seen stays true of a history that only
grows, and is what the item is now if the version is the last one.

The hypotheses are the ones under which the properties are checked.
`ReplayIsFaithful` and `EditIsStored` are false with the events newest first (the
second finding), `NothingUnseenIsOverwritten` is false where pages
read the object an event handler is assigning to. A deletion asks for less and is
accepted on both stacks: it counts the events, in whichever order they come.

### The organization

What a command checks, it checks on the rows it has loaded; its events get greater
versions than these (`VersionsOK`), but other rows may have been committed since,
also of the same version. `EntryOK` says of each committed event: a modification of
a group, or a role given to it, was produced where, among the rows loaded, the group
was created and not deleted (`GroupHeld`), and the role was added and not deleted with a
greater version (`RoleHeld`). `HistoryOK` adds that no group is created twice,
because its identity is younger than all others (`newGroup`). `RequestOK` says the
same of the events of a request in progress, and `Apart` that no two requests are
about to create one group. If then, in some order of the replay, an event clashes
with those before it, a deletion comes between the creation and the clash; it is not
among the rows loaded, so it was committed later, and its version is not greater: this
is the race, and the only one (`ClashIsRace`). The role that a group has and its
organization has not is the same argument, with the removal of the role as the end;
but here the removal may be among the rows loaded, if it has the version of the
addition and was read before it.

For the lists, `Settles(q, row, on, off)` is what a row will be when the events
`q` have been handled. `ListsOK` says that the rows will be what the published
events make of the organization; these are the history and the sent part of the
one save in progress, which the views may run ahead of (`OrderlyLists`).
Sending an event appends it on both sides (`ListsSent`), handling one changes the
row and shortens the queue (`ListsHandled`), and a commit only moves events from
the save into the history (`ListsCommitted`). The claim is made while things are
`Orderly`: nothing was rolled back, the rows are numbered in the order of their
commits, and whoever has inserted rows goes on from the last version and is alone.
It has to hold while saves overlap, too, before they have committed; once the first
of two has, the second will commit the same version, and `ListsFollowAggregate`
assumes that versions differ (`NumberedIfDiffer` makes this `Orderly`). A refusal has
a reason because a page offers only what a view
has shown, views show only what was published (`ShownOK`), and a handler that
loads the history waits for the save in progress: what was published is then
committed or rolled back.

### Only model-checked

Deadlock freedom and all liveness (`EverySaveEnds`, `EveryMessageElaborated`,
`FreeMessageIsTaken`) need fairness and ENABLED, which are outside TLAPS. The runs
that show a violation have no theorem: they refute.

## 5. What is done, what is left, what is not modelled

Done, in the order of importance: `EventLog`, `DapperEventStore` and its proofs
with the refinement; `DapperBus` and its proofs; `WebClient` and its proofs;
`Diary` and its proofs; `Organization` and its proofs.

Left, for whoever continues: the store and the bus in one module, with the diary
on top of it on several servers; the aggregates of applications and users and
the views of users and rights, which repeat the pattern of `Organization`.

### Not modelled

* **Libraries of the web projects.** Nearly all lines of JavaScript in the
  repository are jQuery, jQuery UI, Angular, knockout, modernizr, bootstrap,
  Microsoft Ajax, sinon and FakeRest, copied into the sample projects by their
  package manager. They are third-party code with tests of their own, and
  nothing of ECQRS is in them. The JavaScript that is the repository's own (list
  page, grid, dialogs) is in `WebClient`; its login, drop-down and error widgets
  keep no state that another part reads.
* **The 401 interceptor** (`app/common/services.js`): it turns a refusal into a
  success without data and leaves the page at the same time; the model has no
  route.
* **On-the-fly stack**: delivery on the caller's stack, by one thread, and no
  program of the repository refers to it.
* **In-process stack outside the diary**: `SendSync` beside the runner thread
  would share its dictionaries without a lock, but both programs on this stack, the
  diary and `CQRSGui.InProcess` of the GregYoung sample, send asynchronously only.
* **Snapshots**: no aggregate of the repository takes one.
* **View repository**: its operations are single statements, which is how
  `Diary` and `Organization` use it. The generation of SQL text from
  expressions and the creation of tables are wording, not control.
* **Joins of `JoinUtil`**: nothing calls them.
* **`SendSync` of the bus**: touches no row. Its handlers run on the sender's thread,
  as the request threads of `Organization` do.
* **MassTransit bus**: an adapter to a library that is not in the repository.
* **The container, SimpleCQRS's pages, sagas under `Todo/`, the SQLite wrapper**: run
  once, I/O, or unused.
