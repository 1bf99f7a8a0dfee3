---------------------------- MODULE Organization ----------------------------
(***************************************************************************)
(* One organization of the UsersManager sample on the SQL Server stack:    *)
(* the pages post commands about the groups and roles their lists have     *)
(* shown; every request handles its command on its own thread (SendSync),  *)
(* which rebuilds the aggregate, decides and saves with expectedVersion    *)
(* -1; the events go through the bus, before the commit, to the views that *)
(* the pages read.                                                         *)
(*                                                                         *)
(* Covered: requests that decide on the same history, saves that overlap,  *)
(* rows of the same version, pages that are ahead of the commit or behind  *)
(* the views, rolled back saves whose events the views have seen, roles    *)
(* deleted in their application.                                           *)
(* Not covered here: names, codes and descriptions, and with them          *)
(* OrganizationModified; members of groups; and the delivery of messages   *)
(* (DapperBus): one server takes the events in the order in which they     *)
(* were sent.  A SELECT is one step, at a moment when no other thread has  *)
(* inserted rows that are not committed.                                   *)
(***************************************************************************)
EXTENDS Integers, Sequences, SequencesExt

CONSTANTS
  Threads,       \* request threads of the web server
  Roles,         \* roles of an application
  MaxGroups,     \* bound: groups created
  MaxCommands,   \* bound: commands handled
  MaxQueue,      \* bound: events that wait for the views
  MaxRollbacks   \* bound: saves that fail

ASSUME OrganizationAssumption ==
  /\ IsFiniteSet(Roles)
  /\ MaxGroups \in Nat /\ MaxCommands \in Nat /\ MaxQueue \in Nat /\ MaxRollbacks \in Nat

VARIABLES
  history,    \* committed rows in the order of their commits, each with the
              \* number of those that its command had loaded
  request,    \* request[t]: the command thread t is handling
  queue,      \* queue ecqrs.events
  roleRow,    \* roleRow[r]: the row of r in OrganizationRolesView
  groupRow,   \* groupRow[g]: the row of g in OrganizationGroupsView
  used,       \* rows of OrganizationGroupRolesView
  gone,       \* roles deleted in their application
  newGroup,   \* the identity of the next group (Guid.NewGuid)
  begun,      \* number of commands
  lost        \* history: events published by saves that were rolled back

vars == << history, request, queue, roleRow, groupRow, used, gone, newGroup,
           begun, lost >>

views == << roleRow, groupRow, used >>

Groups  == 1..MaxGroups
NoGroup == 0
NoRole  == "none"
Idle    == [phase |-> "idle"]

RowStates == {"absent", "live", "deleted"}

-----------------------------------------------------------------------------
(***************************************************************************)
(* Commands and the events they produce.  DeleteRole disconnects the       *)
(* application that no role is left of; OrganizationRolesController sends  *)
(* no ApplicationId, so it always finds none left.                         *)
(***************************************************************************)
Command(type, g, r) == [type |-> type, group |-> g, role |-> r]
Event(type, g, r)   == [type |-> type, group |-> g, role |-> r]

Produces ==
  [Delete          |-> << "Deleted" >>,
   RoleAdd         |-> << "RoleAdded" >>,
   RoleDelete      |-> << "RoleDeleted", "DisconnectedFromApplication" >>,
   GroupCreate     |-> << "GroupCreated" >>,
   GroupModify     |-> << "GroupModified" >>,
   GroupDelete     |-> << "GroupDeleted" >>,
   GroupRoleAdd    |-> << "GroupRoleAdded" >>,
   GroupRoleDelete |-> << "GroupRoleDeleted" >>]

\* Mutant: the event is built without the role.
ChangesMutant(c) ==
  [k \in DOMAIN Produces[c.type] |-> Event(Produces[c.type][k], c.group, NoRole)]

Changes(c) ==
  [k \in DOMAIN Produces[c.type] |-> Event(Produces[c.type][k], c.group, c.role)]

-----------------------------------------------------------------------------
(***************************************************************************)
(* The aggregate: groups is the dictionary from a group to its roles.  An  *)
(* exception of an Apply method ends LoadsFromHistory: the aggregate       *)
(* cannot be loaded.                                                       *)
(***************************************************************************)
New == [loads |-> TRUE, deleted |-> FALSE, roles |-> {}, groups |-> << >>]

\* Groups.Add of a key that is there, Groups[id] of one that is not.
Throws(s, e) ==
  \/ e.type = "GroupCreated" /\ e.group \in DOMAIN s.groups
  \/ e.type \in {"GroupModified", "GroupRoleAdded"} /\ e.group \notin DOMAIN s.groups

\* Mutant: RemoveRole leaves the role to the groups that have it.
RemoveRoleMutant(groups, r) == groups

RemoveRole(groups, r) == [g \in DOMAIN groups |-> groups[g] \ {r}]

\* Groups.Add and Groups.Remove.
AddGroup(groups, g)    == [x \in DOMAIN groups \cup {g} |-> IF x = g THEN {} ELSE groups[x]]
RemoveGroup(groups, g) == [x \in DOMAIN groups \ {g} |-> groups[x]]

Effect(s, e) ==
  CASE e.type = "Deleted"      -> [s EXCEPT !.deleted = TRUE]
    [] e.type = "RoleAdded"    -> [s EXCEPT !.roles = @ \cup {e.role}]
    [] e.type = "RoleDeleted"  -> [s EXCEPT !.roles = @ \ {e.role},
                                            !.groups = RemoveRole(@, e.role)]
    [] e.type = "GroupCreated" -> [s EXCEPT !.groups = AddGroup(@, e.group)]
    [] e.type = "GroupDeleted" -> [s EXCEPT !.groups = RemoveGroup(@, e.group)]
    [] e.type = "GroupRoleAdded" ->
         [s EXCEPT !.groups[e.group] = @ \cup {e.role}]
    [] e.type = "GroupRoleDeleted" /\ e.group \in DOMAIN s.groups ->
         [s EXCEPT !.groups[e.group] = @ \ {e.role}]
    [] OTHER -> s

Applied(s, entry) ==
  IF ~s.loads \/ Throws(s, entry.event)
  THEN [s EXCEPT !.loads = FALSE]
  ELSE Effect(s, entry.event)

(***************************************************************************)
(* The orders in which SELECT ... ORDER BY Version may return the rows h:  *)
(* it says nothing of rows of the same version.  No version exceeds the    *)
(* number of rows.                                                         *)
(***************************************************************************)
OfVersion(h, v) == {k \in DOMAIN h : h[k].version = v}

Orders(h) ==
  LET upTo[v \in 0..Len(h)] ==
        IF v = 0 THEN {<< >>}
        ELSE {p[1] \o p[2] : p \in upTo[v - 1] \X SetToSeqs(OfVersion(h, v))}
  IN  upTo[Len(h)]

\* LoadsFromHistory, of the rows h in the order o.
Replayed(h, o) ==
  LET after[k \in 0..Len(o)] == IF k = 0 THEN New ELSE Applied(after[k - 1], h[o[k]])
  IN  after[Len(o)]

\* What GetById may return.
Loads == {Replayed(history, o) : o \in Orders(history)}

\* SELECT ... ORDER BY Version DESC, first row.
LastVersion == Max({0} \cup {history[k].version : k \in DOMAIN history})

\* Mutant: ModifyGroup does not check that there is such a group.
AcceptsMutant(s, c) ==
  /\ ~s.deleted
  /\ c.type = "GroupCreate" => c.group \notin DOMAIN s.groups
  /\ c.type = "GroupRoleAdd" => c.group \in DOMAIN s.groups /\ c.role \in s.roles

\* CheckDeleted and the calls of Check.
Accepts(s, c) ==
  /\ ~s.deleted
  /\ c.type = "GroupCreate" => c.group \notin DOMAIN s.groups
  /\ c.type \in {"GroupModify", "GroupRoleAdd"} => c.group \in DOMAIN s.groups
  /\ c.type = "GroupRoleAdd" => c.role \in s.roles

-----------------------------------------------------------------------------
(***************************************************************************)
(* What the pages can post.  A page may be old: it goes on offering what a *)
(* list has shown, and rows of the first two views are never removed.      *)
(* OrganizationGroupRoleDelete is made from a row that must be there now.  *)
(***************************************************************************)
Offered ==
  {Command("Delete", NoGroup, NoRole)}
    \cup {Command("RoleAdd", NoGroup, r) : r \in Roles}
    \cup {Command("RoleDelete", NoGroup, r) : r \in {x \in Roles : roleRow[x] # "absent"}}
    \cup {Command("GroupCreate", g, NoRole) : g \in Groups \cap {newGroup}}
    \cup [type  : {"GroupModify", "GroupDelete"},
          group : {g \in Groups : groupRow[g] # "absent"},
          role  : {NoRole}]
    \cup [type  : {"GroupRoleAdd"},
          group : {g \in Groups : groupRow[g] # "absent"},
          role  : {r \in Roles : roleRow[r] # "absent"}]
    \cup {Command("GroupRoleDelete", u[1], u[2]) : u \in used}

\* Mutant: a reader sees the rows committed so far and does not wait.
BlockedMutant(t) == FALSE

\* A reader of the event table waits for the rows another thread has inserted.
Blocked(t) == \E s \in Threads \ {t} : request[s].phase = "saving" /\ request[s].sent > 0

CanBegin(t) ==
  /\ request[t] = Idle
  /\ begun < MaxCommands
  /\ ~Blocked(t)

Begin(c) ==
  /\ begun' = begun + 1
  /\ newGroup' = IF c.type = "GroupCreate" THEN newGroup + 1 ELSE newGroup

\* GetById returns x; then the method that the command stands for.
Decide(t, x, c) ==
  /\ x.loads /\ Accepts(x, c)
  /\ Begin(c)
  /\ request' = [request EXCEPT ![t] = [phase |-> "decided", changes |-> Changes(c),
                                        basis |-> Len(history), version |-> 0, sent |-> 0]]
  /\ UNCHANGED << history, queue, views, gone, lost >>

\* GetById or the method throws; the page gets an error.
Refuse(t, x, c) ==
  /\ ~(x.loads /\ Accepts(x, c))
  /\ Begin(c)
  /\ UNCHANGED << history, request, queue, views, gone, lost >>

(***************************************************************************)
(* SaveEvents.  The rows are numbered from the last version that is read   *)
(* before the first of them is inserted: two threads may both read it      *)
(* before either inserts, and their rows get the same versions.            *)
(***************************************************************************)
ReadVersion(t) ==
  /\ request[t].phase = "decided"
  /\ ~Blocked(t)
  /\ request' = [request EXCEPT ![t].phase = "saving", ![t].version = LastVersion]
  /\ UNCHANGED << history, queue, views, gone, newGroup, begun, lost >>

\* A row is inserted and its event published; others see only the event,
\* and that readers have to wait.
InsertEvent(t) ==
  /\ request[t].phase = "saving"
  /\ request[t].sent < Len(request[t].changes)
  /\ Len(queue) < MaxQueue
  /\ queue' = Append(queue, request[t].changes[request[t].sent + 1])
  /\ request' = [request EXCEPT ![t].sent = @ + 1]
  /\ UNCHANGED << history, views, gone, newGroup, begun, lost >>

Committed(q) ==
  [k \in DOMAIN q.changes |->
     [event |-> q.changes[k], version |-> q.version + k, basis |-> q.basis]]

Commit(t) ==
  /\ request[t].phase = "saving"
  /\ request[t].sent = Len(request[t].changes)
  /\ history' = history \o Committed(request[t])
  /\ request' = [request EXCEPT ![t] = Idle]
  /\ UNCHANGED << queue, views, gone, newGroup, begun, lost >>

Rollback(t) ==
  /\ request[t] # Idle
  /\ Cardinality(lost) < MaxRollbacks
  /\ lost' = lost \cup {request[t].changes[k] : k \in 1..request[t].sent}
  /\ request' = [request EXCEPT ![t] = Idle]
  /\ UNCHANGED << history, queue, views, gone, newGroup, begun >>

\* ApplicationItem.DeleteRole, handled and saved for another aggregate.
DeleteApplicationRole(r) ==
  /\ r \notin gone
  /\ Len(queue) < MaxQueue
  /\ gone' = gone \cup {r}
  /\ queue' = Append(queue, Event("ApplicationRoleDeleted", NoGroup, r))
  /\ UNCHANGED << history, request, views, newGroup, begun, lost >>

-----------------------------------------------------------------------------
(***************************************************************************)
(* The views.  Each handler of an event runs in a try block of its own:    *)
(* what one throws (a group that has no row, a column that is not there)   *)
(* keeps the others from nothing.                                          *)
(***************************************************************************)
Marked(row) == IF row = "absent" THEN "absent" ELSE "deleted"

\* Mutant: a row that is there is left as it is.
RoleRowAddedMutant(row) == IF row = "absent" THEN "live" ELSE row

\* The row is saved, or its mark is taken away.
RoleRowAdded(row) == "live"

RolesViewHandles(e) ==
  roleRow' =
    CASE e.type = "RoleAdded" -> [roleRow EXCEPT ![e.role] = RoleRowAdded(@)]
      [] e.type \in {"RoleDeleted", "ApplicationRoleDeleted"} ->
           [roleRow EXCEPT ![e.role] = Marked(@)]
      [] e.type = "Deleted" -> [r \in Roles |-> Marked(roleRow[r])]
      [] OTHER -> roleRow

GroupsViewHandles(e) ==
  groupRow' =
    CASE e.type = "GroupCreated" -> [groupRow EXCEPT ![e.group] = "live"]
      [] e.type = "GroupDeleted" -> [groupRow EXCEPT ![e.group] = Marked(@)]
      [] e.type = "Deleted" -> [g \in Groups |-> Marked(groupRow[g])]
      [] OTHER -> groupRow

(***************************************************************************)
(* RoleDeleted removes the first row of the role that the database returns *)
(* and leaves those of other groups; GroupDeleted compares GroupId with    *)
(* the organization and removes none.                                      *)
(***************************************************************************)
GroupRolesViewHandles(e) ==
  LET ofRole == {u \in used : u[2] = e.role}
  IN  CASE e.type = "GroupRoleAdded"   -> used' = used \cup {<< e.group, e.role >>}
        [] e.type = "GroupRoleDeleted" -> used' = used \ {<< e.group, e.role >>}
        [] e.type = "RoleDeleted" /\ ofRole # {} -> \E u \in ofRole : used' = used \ {u}
        [] e.type = "ApplicationRoleDeleted" -> used' = used \ ofRole
        [] e.type = "Deleted" -> used' = {}
        [] OTHER -> used' = used

HandleEvent ==
  /\ queue # << >>
  /\ queue' = Tail(queue)
  /\ RolesViewHandles(Head(queue))
  /\ GroupsViewHandles(Head(queue))
  /\ GroupRolesViewHandles(Head(queue))
  /\ UNCHANGED << history, request, gone, newGroup, begun, lost >>

-----------------------------------------------------------------------------
(***************************************************************************)
(* The organization has no role or all, no group or as many as the bound   *)
(* allows, and the groups have no role or all of them; nobody is at work,  *)
(* and the views have seen it all.                                         *)
(***************************************************************************)
Made(events) ==
  [k \in DOMAIN events |-> [event |-> events[k], version |-> k, basis |-> k - 1]]

Start(n, roles, pairs) ==
  /\ history = Made(SetToSeq({Event("RoleAdded", NoGroup, r) : r \in roles})
                    \o [g \in 1..n |-> Event("GroupCreated", g, NoRole)]
                    \o SetToSeq({Event("GroupRoleAdded", u[1], u[2]) : u \in pairs}))
  /\ roleRow = [r \in Roles |-> IF r \in roles THEN "live" ELSE "absent"]
  /\ groupRow = [g \in Groups |-> IF g <= n THEN "live" ELSE "absent"]
  /\ used = pairs
  /\ newGroup = n + 1

Init ==
  /\ \E n \in {0, MaxGroups}, roles \in {{}, Roles} :
       \E pairs \in {{}, (1..n) \X roles} : Start(n, roles, pairs)
  /\ request = [t \in Threads |-> Idle]
  /\ queue = << >>
  /\ gone = {}
  /\ begun = 0
  /\ lost = {}

Handle(t) ==
  \/ CanBegin(t) /\ \E x \in Loads, c \in Offered : Decide(t, x, c) \/ Refuse(t, x, c)
  \/ ReadVersion(t)
  \/ InsertEvent(t)
  \/ Commit(t)
  \/ Rollback(t)

Next ==
  \/ \E t \in Threads : Handle(t)
  \/ \E r \in Roles : DeleteApplicationRole(r)
  \/ HandleEvent

Spec == Init /\ [][Next]_vars

-----------------------------------------------------------------------------
Events ==
  [type : {"Deleted"}, group : {NoGroup}, role : {NoRole}]
    \cup [type : {"RoleAdded", "RoleDeleted", "DisconnectedFromApplication",
                  "ApplicationRoleDeleted"},
          group : {NoGroup}, role : Roles]
    \cup [type : {"GroupCreated", "GroupModified", "GroupDeleted"},
          group : Groups, role : {NoRole}]
    \cup [type : {"GroupRoleAdded", "GroupRoleDeleted"}, group : Groups, role : Roles]

TypeOK ==
  /\ history \in Seq([event : Events, version : Nat, basis : Nat])
  /\ request \in [Threads ->
       {Idle} \cup [phase : {"decided", "saving"}, changes : Seq(Events),
                    basis : Nat, version : Nat, sent : Nat]]
  /\ queue \in Seq(Events)
  /\ roleRow \in [Roles -> RowStates]
  /\ groupRow \in [Groups -> RowStates]
  /\ used \subseteq Groups \X Roles
  /\ gone \subseteq Roles
  /\ newGroup \in 1..(MaxGroups + 1)
  /\ begun \in 0..MaxCommands
  /\ lost \subseteq Events

Happened(type, g, r) == \E k \in DOMAIN history : history[k].event = Event(type, g, r)

(***************************************************************************)
(* When can an organization no longer be loaded, and with it no longer be  *)
(* changed?  Only when two requests raced: one deleted a group, and the    *)
(* other, which had not loaded the deletion, modified the group or gave it *)
(* a role.  Saves with expectedVersion -1 (all of this sample's) let the   *)
(* second one through.                                                     *)
(***************************************************************************)
UnloadableOnlyAfterRace ==
  \A x \in Loads : x.loads \/
    \E j, k \in DOMAIN history :
      /\ history[j].event.type = "GroupDeleted"
      /\ history[k].event.type \in {"GroupModified", "GroupRoleAdded"}
      /\ history[j].event.group = history[k].event.group
      /\ history[k].basis < j
      /\ history[j].version <= history[k].version

(***************************************************************************)
(* A group has only roles of its organization, except after the same race  *)
(* between the removal of the role and its addition to the group, or when  *)
(* the removal and an addition of the role have the same version: then the *)
(* database decides, at every replay, which of them comes last.            *)
(***************************************************************************)
GroupRolesAreOfOrganization ==
  \A x \in Loads : x.loads =>
    \A g \in DOMAIN x.groups : \A r \in x.groups[g] \ x.roles :
      \E j, k \in DOMAIN history :
        /\ history[j].event = Event("RoleDeleted", NoGroup, r)
        /\ history[k].event = Event("GroupRoleAdded", g, r)
        /\ history[j].version <= history[k].version
        /\ \/ history[k].basis < j
           \/ \E i \in DOMAIN history :
                /\ history[i].event = Event("RoleAdded", NoGroup, r)
                /\ history[i].version = history[j].version

(***************************************************************************)
(* When all is handled, nothing was rolled back and no saves overlapped,   *)
(* the lists agree with the aggregate: its groups are listed, and no       *)
(* others; its roles too, but for those that their application has         *)
(* deleted; and no role that a group has is missing from the list of its   *)
(* roles.  (That list may have roles that the group has lost: see          *)
(* GroupRolesViewHandles.)  Saves that overlapped leave two rows of the    *)
(* same version; after that, the order of the replay need not be the one   *)
(* in which the events were published, and the lists may stay wrong.       *)
(***************************************************************************)
AtRest ==
  /\ queue = << >>
  /\ \A t \in Threads : request[t].phase = "saving" => request[t].sent = 0
  /\ lost = {}

VersionsDiffer ==
  \A j, k \in DOMAIN history : history[j].version = history[k].version => j = k

ListsAgree(x) ==
  LET listed == {r \in Roles : roleRow[r] = "live"}
  IN  /\ {g \in Groups : groupRow[g] = "live"} = DOMAIN x.groups
      /\ listed \subseteq x.roles /\ x.roles \ listed \subseteq gone
      /\ \A g \in DOMAIN x.groups : \A r \in x.groups[g] \ gone : << g, r >> \in used

ListsFollowAggregate ==
  AtRest /\ VersionsDiffer =>
    \A x \in Loads : x.loads /\ ~x.deleted => ListsAgree(x)

(***************************************************************************)
(* The views may show a group or a role whose events are not committed     *)
(* yet.  A command about it is not refused for that: its handler waits for *)
(* the save.  It is refused when the organization is deleted or cannot be  *)
(* loaded, when the group or the role was deleted, or when the save that   *)
(* added it was rolled back after the views had shown it.                  *)
(***************************************************************************)
GroupIsNoMore(g) ==
  Happened("GroupDeleted", g, NoRole) \/ Event("GroupCreated", g, NoRole) \in lost

RoleIsNoMore(r) ==
  Happened("RoleDeleted", NoGroup, r) \/ Event("RoleAdded", NoGroup, r) \in lost

RefusedForAReason ==
  [][begun' # begun /\ request' = request =>
     \A t \in Threads : CanBegin(t) => \A x \in Loads : \A c \in Offered : Refuse(t, x, c) =>
       \/ x.deleted
       \/ ~x.loads
       \/ c.type \in {"GroupModify", "GroupRoleAdd"} /\ GroupIsNoMore(c.group)
       \/ c.type = "GroupRoleAdd" /\ RoleIsNoMore(c.role)]_vars
=============================================================================
