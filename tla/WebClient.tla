----------------------------- MODULE WebClient ------------------------------
(***************************************************************************)
(* A list page of the UsersManager web client: ListController, the grid    *)
(* with its page buttons, the dialogs of sgDialogService with the          *)
(* controllers shown in them, and what the list queries of the server      *)
(* return (ParseRange, DoSkip, DoTake).                                    *)
(*                                                                         *)
(* Covered: answers that arrive in any order or fail, rows that come and   *)
(* go between two answers, a page size that changes while an answer is on  *)
(* its way, templates that arrive late, dialogs opened from a pane of an   *)
(* edit dialog, answers to dialogs that are closed or covered.             *)
(* Not covered: what the forms hold, messages, the route (and with it the  *)
(* answer 401, which changes it), the lists inside dialogs.  A query is    *)
(* evaluated in the step that delivers its answer, and the order of rows   *)
(* is the same for every query: a row is its position.                     *)
(***************************************************************************)
EXTENDS Integers, Sequences

CONSTANTS
  Sizes,         \* page sizes
  DefaultSize,   \* pageSize when ListController asks for the first page
  ButtonPages,   \* maxPages of the grid
  RowCounts,     \* bound: how many rows a list may have
  MaxInFlight,   \* bound: list requests without an answer
  Instances,     \* bound: dialog instances in use
  MaxSaves       \* bound: answers that one dialog waits for

ASSUME WebClientAssumption ==
  /\ Sizes \subseteq Nat \ {0} /\ DefaultSize \in Sizes
  /\ ButtonPages \in Nat \ {0}
  /\ RowCounts \subseteq Nat /\ MaxInFlight \in Nat
  /\ Instances \subseteq Nat \ {0} /\ MaxSaves \in Nat

VARIABLES
  pageSize,          \* $scope.pageSize
  requests,          \* list requests without an answer, in the order of sending
  latest,            \* the last of all list requests
  fate,              \* history: what became of latest
  list,              \* what the page shows, and the query it comes from
  buttons,           \* the buttons under the grid
  opening,           \* dialogs whose template is on its way
  dialogs,           \* open dialogs, the top one last
  calls,             \* other requests: saves, details and deletions
  overlay, covers,   \* the overlay of the page, those of dialogs, by number
  hasty              \* history: was a click made before its time

listVars   == << pageSize, requests, latest, fate, list, buttons >>
dialogVars == << opening, dialogs, calls, overlay, covers, hasty >>
vars       == << listVars, dialogVars >>

-----------------------------------------------------------------------------
(***************************************************************************)
(* The server's side.  A list is the sequence of its rows.                 *)
(***************************************************************************)
Min2(a, b) == IF a <= b THEN a ELSE b

\* JoinUtil.DoSkip yields once count has gone below zero: one row too late.
DoSkip(rows, count) == SubSeq(rows, count + 2, Len(rows))

\* JoinUtil.DoTake yields while count is not below zero: one row too many.
DoTake(rows, count) == SubSeq(rows, 1, Min2(count + 1, Len(rows)))

\* Mutant: the range starts at a multiple of the rows asked for.
AnswerMutant(n, page, size) ==
  DoTake(DoSkip([i \in 1..n |-> i], page * (size + 1)), size + 1)

\* The range [start, start + size + 1] that the client asks for; n rows match.
Answer(n, page, size) ==
  DoTake(DoSkip([i \in 1..n |-> i], page * size), size + 1)

-----------------------------------------------------------------------------
(***************************************************************************)
(* sgGridPaginationService.  A button is the page it asks for, and whether *)
(* it is a number.                                                         *)
(***************************************************************************)
Button(index, number) == [index |-> index, number |-> number]

\* Mutant: the last page counts only when it is full.
TotalPagesMutant(total, size) == total \div size

TotalPages(total, size) == (total + size - 1) \div size

\* Mutant: every page has a button to the one before it.
PaginationMutant(page, total, size) ==
  {Button(page - 1, FALSE)}
    \cup {Button(i, TRUE) : i \in 0..(TotalPages(total, size) - 1)}

Pagination(page, total, size) ==
  LET half     == ButtonPages \div 2
      startAt  == IF page > half THEN page - half ELSE 0
      pages    == TotalPages(total, size)
      more     == page < pages - 1
      numbered == startAt..(Min2(startAt + ButtonPages, pages) - 1)
  IN  {b \in {Button(0, FALSE)} : startAt > 0}
        \cup {b \in {Button(page - 1, FALSE)} : page > 0}
        \cup {Button(i, TRUE) : i \in numbered}
        \cup {b \in {Button(page + 1, FALSE)} : more}
        \cup {b \in {Button(pages - 1, FALSE)} : more /\ 2 * page < 2 * pages - ButtonPages}

-----------------------------------------------------------------------------
Request(page, size) == [page |-> page, size |-> size]

Dialog(id, kind) == [id |-> id, kind |-> kind]

\* "new" and "edit" are opened by the page's list, "pane" (a new dialog) and
\* "detail" by a list in a pane of an edit dialog.
Kinds == {"new", "edit", "pane", "detail", "confirm"}

Call(type, id) == [type |-> type, id |-> id]

CallTypes == {"save", "pane", "detail", "delete"}

Calls == [type : CallTypes, id : Instances]

\* How many answers that can close a dialog the instance waits for.
Waiting(id) ==
  calls[Call("save", id)] + calls[Call("pane", id)] + calls[Call("detail", id)]

Shown == {dialogs[k].id : k \in DOMAIN dialogs}

Free == {id \in Instances :
           /\ id \notin Shown /\ id \notin {d.id : d \in opening}
           /\ \A t \in CallTypes : calls[Call(t, id)] = 0}

NewId == CHOOSE id \in Free : TRUE

Init ==
  /\ pageSize \in {s \in Sizes : s <= DefaultSize}
  /\ latest = Request(0, DefaultSize) /\ requests = << latest >>
  /\ fate = "waiting"
  /\ list = [page |-> 0, size |-> pageSize, asked |-> DefaultSize,
             rows |-> << >>, total |-> 0, of |-> 0]
  /\ buttons = {}
  /\ opening = {} /\ dialogs = << >> /\ calls = [c \in Calls |-> 0]
  /\ overlay = FALSE /\ covers = {} /\ hasty = FALSE

-----------------------------------------------------------------------------
(***************************************************************************)
(* The list.  The user reaches it while the overlay is hidden.             *)
(***************************************************************************)
\* loadData: the request is made from what the scope holds now.
LoadData(page, size) ==
  /\ Len(requests) < MaxInFlight
  /\ latest' = Request(page, size)
  /\ requests' = Append(requests, latest')
  /\ fate' = "waiting"

\* search and resetSearch.
Search ==
  /\ ~overlay
  /\ LoadData(0, pageSize)
  /\ UNCHANGED << pageSize, list, buttons, dialogVars >>

Press(b) ==
  /\ ~overlay
  /\ LoadData(b.index, pageSize)
  /\ UNCHANGED << pageSize, list, buttons, dialogVars >>

\* The dropdown sets pageSize and the watch of the grid loads the first page.
ChangeSize(size) ==
  /\ ~overlay /\ size # pageSize
  /\ pageSize' = size
  /\ LoadData(0, size)
  /\ UNCHANGED << list, buttons, dialogVars >>

\* Mutant: currentPage is left to the caller of initializeData.
InitializeDataMutant(q, data, n) ==
  LET hasNext == Len(data) > pageSize
  IN  [page |-> list.page, size |-> pageSize, asked |-> q.size,
       rows |-> SubSeq(data, 1, Min2(pageSize, Len(data))),
       total |-> pageSize * (q.page + 1) + (IF hasNext THEN 1 ELSE 0), of |-> n]

\* initializeData: one row more than a page says that there is a next page.
InitializeData(q, data, n) ==
  LET hasNext == Len(data) > pageSize
  IN  [page |-> q.page, size |-> pageSize, asked |-> q.size,
       rows |-> SubSeq(data, 1, Min2(pageSize, Len(data))),
       total |-> pageSize * (q.page + 1) + (IF hasNext THEN 1 ELSE 0), of |-> n]

Without(s, k) == SubSeq(s, 1, k - 1) \o SubSeq(s, k + 1, Len(s))

\* Any request may be answered first; latest is the last one while it waits.
Settle(k, outcome) ==
  /\ requests' = Without(requests, k)
  /\ fate' = CASE fate = "waiting" /\ k = Len(requests) -> outcome
               [] fate # "waiting" /\ outcome = "answered" -> "overtaken"
               [] OTHER -> fate

\* The watch on the data fires unless the list was empty and stays so.
ListAnswered(k, n) ==
  /\ list' = InitializeData(requests[k], Answer(n, requests[k].page, requests[k].size), n)
  /\ buttons' = (IF list'.rows = << >> /\ list.rows = << >> THEN buttons
                 ELSE Pagination(list'.page, list'.total, pageSize))
  /\ Settle(k, "answered")
  /\ UNCHANGED << pageSize, latest, dialogVars >>

ListFailed(k) ==
  /\ Settle(k, "failed")
  /\ UNCHANGED << pageSize, latest, list, buttons, dialogVars >>

-----------------------------------------------------------------------------
(***************************************************************************)
(* sgDialogService.  Every way to close a dialog ends in popDialog, which  *)
(* closes the top one; with none open it throws and nothing changes.       *)
(***************************************************************************)
Top == dialogs[Len(dialogs)]

\* Mutant: the overlay is toggled without looking at the dialogs that are open.
PushDialogMutant(d) ==
  /\ dialogs' = Append(dialogs, d)
  /\ overlay' = ~overlay
  /\ covers' = covers \cup (1..Len(dialogs) \cap {Len(dialogs)})

\* openModalInternal: the first dialog shows the overlay, a later one covers the last.
PushDialog(d) ==
  /\ dialogs' = Append(dialogs, d)
  /\ overlay' = (IF dialogs = << >> THEN ~overlay ELSE overlay)
  /\ covers' = covers \cup (1..Len(dialogs) \cap {Len(dialogs)})

PopDialog ==
  IF dialogs = << >>
  THEN UNCHANGED << dialogs, overlay, covers >>
  ELSE /\ dialogs' = SubSeq(dialogs, 1, Len(dialogs) - 1)
       /\ overlay' = (IF Len(dialogs) = 1 THEN ~overlay ELSE overlay)
       /\ covers' = covers \ {Len(dialogs) - 1}

\* A click is hasty while a template or an answer to the top dialog is awaited.
Click == hasty' = (hasty \/ opening # {} \/ (dialogs # << >> /\ Waiting(Top.id) > 0))

\* openModal with a template: addNew, editDetail, viewDetail.
OpenModal(kind) ==
  /\ Free # {}
  /\ opening' = opening \cup {Dialog(NewId, kind)}
  /\ Click
  /\ UNCHANGED << listVars, dialogs, calls, overlay, covers >>

AddNew == ~overlay /\ OpenModal("new")

EditDetail == ~overlay /\ list.rows # << >> /\ OpenModal("edit")

AddNewInPane == dialogs # << >> /\ Top.kind = "edit" /\ OpenModal("pane")

ViewDetail == dialogs # << >> /\ Top.kind = "edit" /\ OpenModal("detail")

\* delete asks first; the template of confirm is at hand.
Delete ==
  /\ ~overlay /\ list.rows # << >> /\ Free # {}
  /\ PushDialog(Dialog(NewId, "confirm"))
  /\ Click
  /\ UNCHANGED << listVars, opening, calls >>

\* The dialog is shown with its controller; DetailController asks for the data.
TemplateArrives(d) ==
  /\ opening' = opening \ {d}
  /\ PushDialog(d)
  /\ calls' = (IF d.kind = "detail" THEN [calls EXCEPT ![Call("detail", d.id)] = @ + 1] ELSE calls)
  /\ UNCHANGED << listVars, hasty >>

TemplateLost(d) ==
  /\ opening' = opening \ {d}
  /\ UNCHANGED << listVars, dialogs, calls, overlay, covers, hasty >>

\* The callback of addNew and editDetail; that of a pane is about another list.
Callback(ofPage) ==
  IF ofPage
  THEN LoadData(0, pageSize) /\ UNCHANGED << pageSize, list, buttons >>
  ELSE UNCHANGED listVars

\* save and update: nothing stops a second click before the answer.
Save ==
  /\ dialogs # << >> /\ Top.kind \in {"new", "edit", "pane"}
  /\ Waiting(Top.id) < MaxSaves
  /\ LET type == IF Top.kind = "pane" THEN "pane" ELSE "save"
     IN  calls' = [calls EXCEPT ![Call(type, Top.id)] = @ + 1]
  /\ Click
  /\ UNCHANGED << listVars, opening, dialogs, overlay, covers >>

\* Cancel, Ok of a detail and of an alert: dismiss.
Dismiss ==
  /\ dialogs # << >> /\ Top.kind # "confirm"
  /\ Click
  /\ PopDialog
  /\ UNCHANGED << listVars, opening, calls >>

\* The cross calls closeModal: the callback runs as after a save.
Cross ==
  /\ dialogs # << >> /\ Top.kind # "confirm"
  /\ Click
  /\ Callback(Top.kind \in {"new", "edit"})
  /\ PopDialog
  /\ UNCHANGED << opening, calls >>

\* confirm: its callback gets TRUE or FALSE, and only TRUE deletes.
Confirm(result) ==
  /\ dialogs # << >> /\ Top.kind = "confirm"
  /\ calls' = (IF result THEN [calls EXCEPT ![Call("delete", Top.id)] = @ + 1] ELSE calls)
  /\ Click
  /\ PopDialog
  /\ UNCHANGED << listVars, opening >>

-----------------------------------------------------------------------------
(***************************************************************************)
(* Answers to dialogs: they find the dialog open, covered or closed.       *)
(***************************************************************************)
Answered(c) ==
  /\ calls[c] > 0
  /\ calls' = [calls EXCEPT ![c] = @ - 1]
  /\ UNCHANGED << opening, hasty >>

\* Mutant: the callback dismisses the dialog that closeModal is about to close.
SavedMutant(c) ==
  /\ c.type \in {"save", "pane"}
  /\ Answered(c)
  /\ Callback(c.type = "save")
  /\ dialogs' = SubSeq(dialogs, 1, Len(dialogs) - 2)
  /\ overlay' = (overlay /\ Len(dialogs) > 2)
  /\ covers' = {k \in covers : k < Len(dialogs) - 2}

\* closeModal: callback, then popDialog.
Saved(c) ==
  /\ c.type \in {"save", "pane"}
  /\ Answered(c)
  /\ Callback(c.type = "save")
  /\ PopDialog

\* DetailController dismisses its dialog when there is no data.
DetailFailed(c) ==
  /\ c.type = "detail"
  /\ Answered(c)
  /\ PopDialog
  /\ UNCHANGED listVars

Deleted(c) ==
  /\ c.type = "delete"
  /\ Answered(c)
  /\ Callback(TRUE)
  /\ UNCHANGED << dialogs, overlay, covers >>

\* The data of a detail, and the errors that only show a message.
OtherAnswer(c) ==
  /\ Answered(c)
  /\ UNCHANGED << listVars, dialogs, overlay, covers >>

-----------------------------------------------------------------------------
Next ==
  \/ Search
  \/ \E b \in buttons : Press(b)
  \/ \E size \in Sizes : ChangeSize(size)
  \/ \E k \in DOMAIN requests : ListFailed(k) \/ \E n \in RowCounts : ListAnswered(k, n)
  \/ AddNew \/ EditDetail \/ AddNewInPane \/ ViewDetail \/ Delete
  \/ \E d \in opening : TemplateArrives(d) \/ TemplateLost(d)
  \/ Save \/ Dismiss \/ Cross
  \/ \E result \in BOOLEAN : Confirm(result)
  \/ \E c \in Calls : Saved(c) \/ DetailFailed(c) \/ Deleted(c) \/ OtherAnswer(c)

Spec == Init /\ [][Next]_vars

-----------------------------------------------------------------------------
(***************************************************************************)
(* Properties.                                                             *)
(***************************************************************************)
Requests == [page : Nat, size : Sizes]

\* Type invariant.  The buttons never ask for a page before the first.
TypeOK ==
  /\ pageSize \in Sizes
  /\ requests \in Seq(Requests) /\ latest \in Requests
  /\ fate \in {"waiting", "answered", "failed", "overtaken"}
  /\ list \in [page : Nat, size : Sizes, asked : Sizes,
               rows : Seq(Nat), total : Nat, of : Nat]
  /\ buttons \in SUBSET [index : Nat, number : BOOLEAN]
  /\ opening \in SUBSET [id : Instances, kind : Kinds]
  /\ dialogs \in Seq([id : Instances, kind : Kinds])
  /\ calls \in [Calls -> Nat]
  /\ overlay \in BOOLEAN /\ covers \in SUBSET Nat /\ hasty \in BOOLEAN

\* The list was asked for in pages of the size in which it is shown.
Fits == list.asked = list.size \/ (list.page = 0 /\ list.asked >= list.size)

\* The rows after the first one, which DoSkip never lets through, are dealt to
\* the pages in order: the list shows row i exactly when i is of its page.
PagesTile ==
  Fits =>
    /\ \A k \in DOMAIN list.rows : list.rows[k] = list.page * list.size + 1 + k
    /\ \A i \in 2..list.of :
         (i - 2) \div list.size = list.page <=> \E k \in DOMAIN list.rows : list.rows[k] = i

\* What the documentation of the list queries says ("Retrieves all the roles"):
\* the first page begins with the first row.
FirstPageHasTheFirstRow ==
  list.of > 0 /\ list.page = 0 => \E k \in DOMAIN list.rows : list.rows[k] = 1

\* Under a list with rows every button leads to a page that has rows (or is the
\* one shown), and there are buttons to the first page, to the one before and,
\* if rows follow, to the next.
ButtonsLeadToRows ==
  Fits /\ list.rows # << >> =>
    LET pages == {b.index : b \in buttons}
    IN  /\ \A p \in pages \ {list.page} : p * list.size + 2 <= list.of
        /\ list.page > 0 => {0, list.page - 1} \subseteq pages
        /\ list.of >= (list.page + 1) * list.size + 2 => list.page + 1 \in pages

\* Once the latest request was answered, and until an older one's answer comes
\* after it, the page shows what was asked last, in pages of the size chosen.
LatestAnswerIsShown ==
  fate = "answered" =>
    /\ list.page = latest.page
    /\ list.size = pageSize /\ Fits

\* The overlay is there when a dialog is, and each dialog but the top one has
\* one cover, whatever the order of templates, clicks and answers.
OverlayIffDialog ==
  /\ overlay <=> dialogs # << >>
  /\ covers = 1..(Len(dialogs) - 1)

\* popDialog closes the top dialog whichever was to be closed.  That is the right
\* one, and nothing else is closed, as long as no click was made hastily.
OnlyHasteClosesTheWrongDialog ==
  [][\A c \in Calls :
       calls'[c] < calls[c] /\ ~hasty /\ dialogs' # dialogs =>
         Top.id = c.id /\ dialogs' = SubSeq(dialogs, 1, Len(dialogs) - 1)]_vars
=============================================================================
