-------------------------------- MODULE Diary --------------------------------
(***************************************************************************)
(* One item of the Diary sample, from the pages that users open to the     *)
(* history in the event store and back to the view: users post commands    *)
(* made from what the view showed them, one thread handles commands and    *)
(* events from two queues, and an aggregate is rebuilt from its events for *)
(* every command.                                                          *)
(*                                                                         *)
(* The sample runs on two stacks.  They differ in the order in which the   *)
(* store returns the events of a snapshottable aggregate, and in whether   *)
(* the row that a page reads is the object that event handlers assign to.  *)
(*                                                                         *)
(* Covered: stale pages, repeated posts, interleaving of the queues, reads *)
(* of a row that is being updated.  Not covered here: several servers and  *)
(* failed saves (DapperEventStore, DapperBus), equal time stamps, and      *)
(* snapshots, which the sample never makes.                                *)
(***************************************************************************)
EXTENDS Integers, Sequences, SequencesExt

CONSTANTS
  Users,
  FieldOrder,   \* fields of an item, in the order ChangeItem compares them
  Values,       \* values of a field
  NewestFirst,  \* GetEventsForAggregate(id, true) returns the newest first:
                \* TRUE for DapperEventStore, FALSE for InProcessEventStore
  SharedRows,   \* the view repository gives out the object it keeps: FALSE
                \* for DapperRepository, TRUE for InProcessRepository
  MaxCommands   \* bound: commands posted

Fields == {FieldOrder[k] : k \in DOMAIN FieldOrder}
Content == [Fields -> Values]

ASSUME DiaryAssumption ==
  /\ FieldOrder \in Seq(Fields)
  /\ NewestFirst \in BOOLEAN
  /\ SharedRows \in BOOLEAN
  /\ MaxCommands \in Nat

VARIABLES
  history,    \* the events of the item in the store, oldest first
  commands,   \* queue ecqrs.commands
  events,     \* queue ecqrs.events
  row,        \* the item in the view
  assigned,   \* events whose handler has set the field and not the version
  forms,      \* forms[u]: what the browser of u shows
  posted      \* number of commands posted

vars == << history, commands, events, row, assigned, forms, posted >>

NoRow == [listed |-> FALSE, fields |-> << >>, version |-> 0]
Closed == [phase |-> "closed", shown |-> << >>, version |-> 0]

\* Field f with value v; fields after some of them were assigned to.
Only(f, v) == [x \in {f} |-> v]
Overwritten(fields, sets) ==
  [f \in DOMAIN fields \cup DOMAIN sets |->
     IF f \in DOMAIN sets THEN sets[f] ELSE fields[f]]

Event(type, sets) == [type |-> type, sets |-> sets, version |-> -1]
Command(type, fields, form) ==
  [type |-> type, fields |-> fields, version |-> form.version, shown |-> form.shown]

-----------------------------------------------------------------------------
(***************************************************************************)
(* The aggregate.  The Apply methods of DiaryItem overwrite what the event *)
(* carries; a deleted item is not marked.  Version starts at 1 and counts. *)
(***************************************************************************)
\* Mutant: there is no Apply method for the events of a change.
AppliedMutant(state, e) == IF e.type = "changed" THEN state ELSE Overwritten(state, e.sets)

Applied(state, e) == Overwritten(state, e.sets)

\* Mutant: Version starts at 0, as the field does.
LoadedVersionMutant(returned) == Len(returned)

LoadedVersion(returned) == 1 + Len(returned)

\* LoadsFromHistory.
Replayed(returned) ==
  LET after[k \in 0..Len(returned)] ==
        IF k = 0 THEN << >> ELSE Applied(after[k - 1], returned[k])
  IN  after[Len(returned)]

Returned == IF NewestFirst THEN Reverse(history) ELSE history
Loaded   == Replayed(Returned)

-----------------------------------------------------------------------------
(***************************************************************************)
(* The store, for one thread and an expectedVersion that is never -1.      *)
(***************************************************************************)
\* Mutant: the version a client expects is not checked.
AcceptsMutant(expected) == TRUE

Accepts(expected) == history = << >> \/ Last(history).version = expected

Save(changes, expected) ==
  IF Accepts(expected)
  THEN LET saved == [k \in DOMAIN changes |->
                       [changes[k] EXCEPT !.version = expected + k]]
       IN  history' = history \o saved /\ events' = events \o saved
  ELSE UNCHANGED << history, events >>

-----------------------------------------------------------------------------
\* The pages.
Post(command) ==
  /\ posted < MaxCommands
  /\ posted' = posted + 1
  /\ commands' = Append(commands, command)

Add(fields) ==
  /\ posted = 0
  /\ Post(Command("create", fields, Closed))
  /\ UNCHANGED << history, events, row, assigned, forms >>

\* Edit copies the row to the model field by field, the version last.
OpenEdit(u) ==
  /\ row.listed
  /\ forms' = [forms EXCEPT ![u] =
                 IF SharedRows
                 THEN [Closed EXCEPT !.phase = "reading"]
                 ELSE [phase |-> "open", shown |-> row.fields, version |-> row.version]]
  /\ UNCHANGED << history, commands, events, row, assigned, posted >>

ReadField(u, f) ==
  /\ forms[u].phase = "reading"
  /\ f \notin DOMAIN forms[u].shown
  /\ forms' = [forms EXCEPT ![u].shown = Overwritten(@, Only(f, row.fields[f]))]
  /\ UNCHANGED << history, commands, events, row, assigned, posted >>

ReadVersion(u) ==
  /\ forms[u].phase = "reading"
  /\ DOMAIN forms[u].shown = Fields
  /\ forms' = [forms EXCEPT ![u].phase = "open", ![u].version = row.version]
  /\ UNCHANGED << history, commands, events, row, assigned, posted >>

\* Mutant: the form is posted before it is filled.
PostEditMutant(u, fields) ==
  /\ forms[u].phase # "closed"
  /\ Post(Command("change", fields, forms[u]))
  /\ UNCHANGED << history, events, row, assigned, forms >>

\* The page can be posted again: a browser keeps it.
PostEdit(u, fields) ==
  /\ forms[u].phase = "open"
  /\ Post(Command("change", fields, forms[u]))
  /\ UNCHANGED << history, events, row, assigned, forms >>

ClickDelete ==
  /\ row.listed
  /\ Post(Command("delete", << >>, Closed))
  /\ UNCHANGED << history, events, row, assigned, forms >>

-----------------------------------------------------------------------------
(***************************************************************************)
(* Command handlers.  What they throw (an item that is not there, a        *)
(* version that is not the latest) is caught by the bus.                   *)
(***************************************************************************)
NextCommand(type) ==
  /\ assigned = << >>
  /\ commands # << >>
  /\ Head(commands).type = type
  /\ commands' = Tail(commands)
  /\ UNCHANGED << row, assigned, forms, posted >>

CreateItem ==
  /\ NextCommand("create")
  /\ Save(<< Event("created", Head(commands).fields) >>, 1)

\* One event for each field whose value is not the loaded one.
Changes(fields) ==
  LET upto[k \in 0..Len(FieldOrder)] ==
        IF k = 0 THEN << >>
        ELSE LET f == FieldOrder[k]
             IN  IF Loaded[f] = fields[f] THEN upto[k - 1]
                 ELSE Append(upto[k - 1], Event("changed", Only(f, fields[f])))
  IN  upto[Len(FieldOrder)]

ChangeItem ==
  /\ NextCommand("change")
  /\ Save(Changes(Head(commands).fields), Head(commands).version)

DeleteItem ==
  /\ NextCommand("delete")
  /\ Save(<< Event("deleted", << >>) >>, LoadedVersion(Returned))

-----------------------------------------------------------------------------
\* Event handlers.
NextEvent(type) ==
  /\ assigned = << >>
  /\ events # << >>
  /\ Head(events).type = type
  /\ events' = Tail(events)
  /\ UNCHANGED << history, commands, forms, posted >>

ItemCreated ==
  /\ NextEvent("created")
  /\ row' = [listed |-> TRUE, fields |-> Head(events).sets,
             version |-> Head(events).version]
  /\ UNCHANGED assigned

ItemDeleted ==
  /\ NextEvent("deleted")
  /\ row' = [row EXCEPT !.listed = FALSE]
  /\ UNCHANGED assigned

\* Mutant: the handler does not copy the version.
ItemChangedMutant ==
  /\ NextEvent("changed")
  /\ row' = [row EXCEPT !.fields = Overwritten(@, Head(events).sets)]
  /\ UNCHANGED assigned

(***************************************************************************)
(* The four handlers of a change set a field and then the version, of a    *)
(* copy that one statement writes back or of the row itself.  A row that   *)
(* is not listed makes them throw.                                         *)
(***************************************************************************)
ItemChanged ==
  /\ NextEvent("changed")
  /\ IF ~row.listed
     THEN UNCHANGED << row, assigned >>
     ELSE IF SharedRows
     THEN /\ row' = [row EXCEPT !.fields = Overwritten(@, Head(events).sets)]
          /\ assigned' = << Head(events) >>
     ELSE /\ row' = [row EXCEPT !.fields = Overwritten(@, Head(events).sets),
                                !.version = Head(events).version]
          /\ UNCHANGED assigned

SetVersion ==
  /\ assigned # << >>
  /\ row' = [row EXCEPT !.version = Head(assigned).version]
  /\ assigned' = << >>
  /\ UNCHANGED << history, commands, events, forms, posted >>

-----------------------------------------------------------------------------
Init ==
  /\ history = << >>
  /\ commands = << >>
  /\ events = << >>
  /\ row = NoRow
  /\ assigned = << >>
  /\ forms = [u \in Users |-> Closed]
  /\ posted = 0

Pages ==
  \/ \E fields \in Content : Add(fields)
  \/ \E u \in Users : OpenEdit(u)
  \/ \E u \in Users, f \in Fields : ReadField(u, f)
  \/ \E u \in Users : ReadVersion(u)
  \/ \E u \in Users, fields \in Content : PostEdit(u, fields)
  \/ ClickDelete

Runner ==
  \/ CreateItem
  \/ ChangeItem
  \/ DeleteItem
  \/ ItemCreated
  \/ ItemChanged
  \/ SetVersion
  \/ ItemDeleted

Next == Pages \/ Runner

Spec == Init /\ [][Next]_vars

-----------------------------------------------------------------------------
Partial == UNION {[D -> Values] : D \in SUBSET Fields}
Events  == [type : {"created", "changed", "deleted"}, sets : Partial, version : Nat]
Posted  == [type : {"create", "change", "delete"}, fields : Partial, version : Nat,
            shown : Partial]

TypeOK ==
  /\ history \in Seq(Events)
  /\ events \in Seq(Events)
  /\ commands \in Seq(Posted)
  /\ \A k \in DOMAIN commands :
       /\ commands[k].type # "delete" => commands[k].fields \in Content
       /\ commands[k].type = "change" => commands[k].shown \in Content
  /\ row \in [listed : BOOLEAN, fields : {<< >>} \cup Content, version : Nat]
  /\ assigned \in Seq(Events) /\ Len(assigned) <= 1
  /\ forms \in [Users -> [phase : {"closed", "reading", "open"}, shown : Partial,
                          version : Nat]]
  /\ posted \in 0..MaxCommands

(***************************************************************************)
(* What a history says of the item: every field has the value that the     *)
(* last event about it gave it.                                            *)
(***************************************************************************)
LastAbout(f, s) ==
  CHOOSE k \in DOMAIN s :
    /\ f \in DOMAIN s[k].sets
    /\ \A j \in (k + 1)..Len(s) : f \notin DOMAIN s[j].sets

Meaning(s) == [f \in Fields |-> s[LastAbout(f, s)].sets[f]]

(***************************************************************************)
(* "Collect all processed events for given aggregate and return them as a  *)
(* list; used to build up an aggregate from its history" (the stores): the *)
(* aggregate a command handler works on is the one the history describes.  *)
(***************************************************************************)
ReplayRebuildsState == history # << >> => Loaded = Meaning(history)

(***************************************************************************)
(* A change that expects the latest version leaves the item as posted: no  *)
(* field of the form is dropped.                                           *)
(***************************************************************************)
EditTakesEffect ==
  [][ChangeItem /\ Last(history).version = Head(commands).version
       => Meaning(history') = Head(commands).fields]_vars

(***************************************************************************)
(* A change that is stored comes from a page that showed the item as it is *)
(* now: nobody overwrites what they have not seen.  This relates the moment *)
(* the page read the view, the events then still in the queue, the         *)
(* commands of others handled since, and the check of the version.         *)
(***************************************************************************)
AcceptedEditSawLatest ==
  [][ChangeItem /\ history' # history => Head(commands).shown = Meaning(history)]_vars

(***************************************************************************)
(* Nothing but another deletion is stored after a deletion.  No code tests *)
(* for it: pages posted late are refused by their version alone.           *)
(***************************************************************************)
DeletedStaysDeleted ==
  \A j, k \in DOMAIN history :
    j < k /\ history[j].type = "deleted" => history[k].type = "deleted"

(***************************************************************************)
(* A deletion is never refused: the version DeleteItem expects, counted    *)
(* from the events it loaded, is the version of the last stored one.       *)
(***************************************************************************)
DeleteIsNeverRefused ==
  [][DeleteItem => Last(history').type = "deleted" /\ Len(history') > Len(history)]_vars

(***************************************************************************)
(* When no event is left to handle, the view shows what the history says.  *)
(***************************************************************************)
Deleted == \E k \in DOMAIN history : history[k].type = "deleted"

ViewFollowsHistory ==
  history # << >> /\ events = << >> /\ assigned = << >> =>
    /\ row.listed = ~Deleted
    /\ ~Deleted => row.fields = Meaning(history) /\ row.version = Last(history).version
=============================================================================
