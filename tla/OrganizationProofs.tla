------------------------- MODULE OrganizationProofs -------------------------
(***************************************************************************)
(* Theorems about Organization.                                            *)
(*                                                                         *)
(* What the aggregate holds after k events is said without the recursion   *)
(* that computes it: a group is there when it was created and, since then, *)
(* not deleted; a role, and the role of a group, likewise.  The first      *)
(* lemmas are about such sentences, of a history and of what waits in the  *)
(* queue of the views; the second ones show that Replayed computes what    *)
(* they say of the events it applies, in any order of the rows that agrees *)
(* with their versions; then comes the invariant.                          *)
(***************************************************************************)
EXTENDS Organization, InductionLemmas, FiniteSetTheorems

LEMMA Joined ==
  ASSUME NEW S, NEW s \in Seq(S), NEW t \in Seq(S)
  PROVE  /\ s \o t \in Seq(S) /\ Len(s) \in Nat /\ Len(t) \in Nat
         /\ Len(s \o t) = Len(s) + Len(t)
         /\ DOMAIN s = 1..Len(s) /\ DOMAIN t = 1..Len(t)
         /\ DOMAIN (s \o t) = 1..(Len(s) + Len(t))
         /\ \A k \in 1..Len(s) : (s \o t)[k] = s[k]
         /\ \A k \in (Len(s) + 1)..(Len(s) + Len(t)) :
              k - Len(s) \in 1..Len(t) /\ (s \o t)[k] = t[k - Len(s)]
OBVIOUS

LEMMA JoinedAppend ==
  ASSUME NEW s \in Seq(Events), NEW a \in Seq(Events), NEW e \in Events
  PROVE  s \o a \in Seq(Events) /\ s \o Append(a, e) = Append(s \o a, e)
<1>1. PICK x, b, y, z : x = s \o a /\ b = Append(a, e) /\ y = s \o b /\ z = Append(x, e)
  OBVIOUS
<1>2. PICK n, m : n = Len(s) /\ m = Len(a)
  OBVIOUS
<1>3. /\ b \in Seq(Events) /\ n \in Nat /\ m \in Nat /\ Len(b) = m + 1 /\ b[m + 1] = e
      /\ \A k \in 1..m : b[k] = a[k]
  BY <1>1, <1>2
<1>4. /\ x \in Seq(Events) /\ Len(x) = n + m
      /\ \A k \in 1..n : x[k] = s[k]
      /\ \A k \in (n + 1)..(n + m) : k - n \in 1..m /\ x[k] = a[k - n]
  BY <1>1, <1>2, Joined
<1>5. /\ y \in Seq(Events) /\ Len(y) = n + m + 1
      /\ \A k \in 1..n : y[k] = s[k]
      /\ \A k \in (n + 1)..(n + (m + 1)) : y[k] = b[k - n]
  BY <1>1, <1>2, <1>3, Joined
<1>6. /\ z \in Seq(Events) /\ Len(z) = n + m + 1 /\ z[n + m + 1] = e
      /\ \A k \in 1..(n + m) : z[k] = x[k]
  BY <1>1, <1>3, <1>4
<1>7. ASSUME NEW k \in 1..(n + m + 1)
      PROVE  y[k] = z[k]
  <2>1. CASE k \in 1..n
    <3>1. k \in 1..(n + m)
      BY <1>3, <2>1
    <3> QED
      BY <1>4, <1>5, <1>6, <2>1, <3>1
  <2>2. CASE k \in (n + 1)..(n + m)
    <3>1. k \in 1..(n + m) /\ k \in (n + 1)..(n + (m + 1))
      BY <1>3, <2>2
    <3>2. z[k] = a[k - n] /\ y[k] = b[k - n] /\ k - n \in 1..m
      BY <1>4, <1>5, <1>6, <2>2, <3>1
    <3> QED
      BY <1>3, <3>2
  <2>3. CASE k = n + m + 1
    <3>1. k \in (n + 1)..(n + (m + 1)) /\ k - n = m + 1
      BY <1>3, <2>3
    <3>2. y[k] = b[m + 1]
      BY <1>5, <3>1
    <3> QED
      BY <1>3, <1>6, <2>3, <3>2
  <2>4. k \in 1..n \/ k \in (n + 1)..(n + m) \/ k = n + m + 1
    <3>1. n \in Nat /\ m \in Nat
      BY <1>3
    <3> QED
      BY <3>1
  <2> QED
    BY <2>1, <2>2, <2>3, <2>4
<1>8. y = z
  <2>1. DOMAIN y = 1..(n + m + 1) /\ DOMAIN z = 1..(n + m + 1)
    BY <1>5, <1>6
  <2>2. y = [k \in 1..(n + m + 1) |-> y[k]] /\ z = [k \in 1..(n + m + 1) |-> z[k]]
    BY <1>5, <1>6, <2>1
  <2> QED
    BY <1>7, <2>2
<1> QED
  BY <1>1, <1>4, <1>8

\* s is made of x, y and z.
IsJoin(s, x, y, z) ==
  /\ Len(x) \in Nat /\ Len(y) \in Nat /\ Len(z) \in Nat
  /\ Len(s) = Len(x) + Len(y) + Len(z)
  /\ \A k \in 1..Len(x) : s[k] = x[k]
  /\ \A k \in (Len(x) + 1)..(Len(x) + Len(y)) : s[k] = y[k - Len(x)]
  /\ \A k \in (Len(x) + Len(y) + 1)..(Len(x) + Len(y) + Len(z)) :
       s[k] = z[k - (Len(x) + Len(y))]

LEMMA JoinedThree ==
  ASSUME NEW S, NEW x \in Seq(S), NEW y \in Seq(S), NEW z \in Seq(S)
  PROVE  x \o y \o z \in Seq(S) /\ IsJoin(x \o y \o z, x, y, z)
<1>0. PICK s : s = x \o y \o z
  OBVIOUS
<1>1. PICK w \in Seq(S) : w = x \o y
  BY Joined
<1>2. /\ w \in Seq(S) /\ Len(x) \in Nat /\ Len(y) \in Nat /\ Len(w) = Len(x) + Len(y)
      /\ \A k \in 1..Len(x) : w[k] = x[k]
      /\ \A k \in (Len(x) + 1)..(Len(x) + Len(y)) : w[k] = y[k - Len(x)]
  BY <1>1, Joined
<1>3. s = w \o z
  BY <1>0, <1>1
<1>4. /\ s \in Seq(S) /\ Len(z) \in Nat /\ Len(s) = Len(w) + Len(z)
      /\ \A k \in 1..Len(w) : s[k] = w[k]
      /\ \A k \in (Len(w) + 1)..(Len(w) + Len(z)) : s[k] = z[k - Len(w)]
  <2>1. w \in Seq(S) /\ z \in Seq(S)
    BY <1>2
  <2>2. s \in Seq(S)
    BY <1>3, <2>1
  <2>3. Len(s) = Len(w) + Len(z) /\ Len(w) \in Nat /\ Len(z) \in Nat
    BY <1>3, <2>1
  <2>4. \A k \in 1..Len(w) : s[k] = w[k]
    BY <1>3, <2>1
  <2>5. \A k \in (Len(w) + 1)..(Len(w) + Len(z)) : s[k] = z[k - Len(w)]
    BY <1>3, <2>1
  <2> QED
    BY <2>2, <2>3, <2>4, <2>5
<1>5. PICK a, b, c : a = Len(x) /\ b = Len(y) /\ c = Len(z)
  OBVIOUS
<1>6. /\ a \in Nat /\ b \in Nat /\ c \in Nat /\ Len(w) = a + b
      /\ s \in Seq(S) /\ Len(s) = a + b + c
      /\ \A k \in 1..a : w[k] = x[k]
      /\ \A k \in (a + 1)..(a + b) : w[k] = y[k - a]
      /\ \A k \in 1..(a + b) : s[k] = w[k]
      /\ \A k \in (a + b + 1)..(a + b + c) : s[k] = z[k - (a + b)]
  BY <1>2, <1>4, <1>5
<1>7. /\ \A k \in 1..a : k \in 1..(a + b)
      /\ \A k \in (a + 1)..(a + b) : k \in 1..(a + b)
  BY <1>6
<1>8. /\ \A k \in 1..a : s[k] = x[k]
      /\ \A k \in (a + 1)..(a + b) : s[k] = y[k - a]
  BY <1>6, <1>7
<1>9. IsJoin(s, x, y, z)
  BY <1>5, <1>6, <1>8 DEF IsJoin
<1> QED
  BY <1>0, <1>6, <1>9

-----------------------------------------------------------------------------
(***************************************************************************)
(* On and off: of the first k of the events s, one is in the set on and    *)
(* none after it is in off.                                                *)
(***************************************************************************)
Stands(s, k, on, off) ==
  \E i \in 1..k : s[i] \in on /\ \A j \in (i + 1)..k : s[j] \notin off

LEMMA NothingStands ==
  ASSUME NEW s, NEW on, NEW off
  PROVE  ~Stands(s, 0, on, off)
BY DEF Stands

\* What the next event does.
LEMMA StandsNext ==
  ASSUME NEW s, NEW k \in Nat, NEW on, NEW off
  PROVE  Stands(s, k + 1, on, off) <=>
           \/ s[k + 1] \in on
           \/ s[k + 1] \notin off /\ Stands(s, k, on, off)
<1>1. ASSUME Stands(s, k + 1, on, off), s[k + 1] \notin on
      PROVE  s[k + 1] \notin off /\ Stands(s, k, on, off)
  <2>1. PICK i \in 1..(k + 1) : s[i] \in on /\ \A j \in (i + 1)..(k + 1) : s[j] \notin off
    BY <1>1 DEF Stands
  <2>2. i # k + 1
    BY <1>1, <2>1
  <2>3. i \in 1..k /\ k + 1 \in (i + 1)..(k + 1)
    BY <2>2
  <2>4. \A j \in (i + 1)..k : j \in (i + 1)..(k + 1)
    BY <2>3
  <2> QED
    BY <2>1, <2>3, <2>4 DEF Stands
<1>2. ASSUME s[k + 1] \in on
      PROVE  Stands(s, k + 1, on, off)
  <2>1. k + 1 \in 1..(k + 1) /\ \A j \in (k + 1 + 1)..(k + 1) : FALSE
    OBVIOUS
  <2> QED
    BY <1>2, <2>1 DEF Stands
<1>3. ASSUME s[k + 1] \notin off, Stands(s, k, on, off)
      PROVE  Stands(s, k + 1, on, off)
  <2>1. PICK i \in 1..k : s[i] \in on /\ \A j \in (i + 1)..k : s[j] \notin off
    BY <1>3 DEF Stands
  <2>2. i \in 1..(k + 1)
    OBVIOUS
  <2>3. \A j \in (i + 1)..(k + 1) : j \in (i + 1)..k \/ j = k + 1
    OBVIOUS
  <2> QED
    BY <1>3, <2>1, <2>2, <2>3 DEF Stands
<1> QED
  BY <1>1, <1>2, <1>3

\* It depends on the first k events only.
LEMMA StandsSame ==
  ASSUME NEW s, NEW t, NEW k \in Nat, NEW on, NEW off, \A i \in 1..k : s[i] = t[i]
  PROVE  Stands(s, k, on, off) <=> Stands(t, k, on, off)
<1>1. \A i \in 1..k : \A j \in (i + 1)..k : j \in 1..k
  OBVIOUS
<1> QED
  BY <1>1 DEF Stands

-----------------------------------------------------------------------------
(***************************************************************************)
(* What a row will be when the events q that wait for it are handled; row  *)
(* says whether it is on now.                                              *)
(***************************************************************************)
Settles(q, row, on, off) ==
  \/ Stands(q, Len(q), on, off)
  \/ row /\ \A j \in DOMAIN q : q[j] \notin off

LEMMA SettlesSent ==
  ASSUME NEW T, NEW q \in Seq(T), NEW e \in T, NEW row \in BOOLEAN, NEW on, NEW off
  PROVE  Settles(Append(q, e), row, on, off) <=>
           \/ e \in on
           \/ e \notin off /\ Settles(q, row, on, off)
<1>1. PICK p, n : p = Append(q, e) /\ n = Len(q)
  OBVIOUS
<1>2. /\ n \in Nat /\ Len(p) = n + 1 /\ p[n + 1] = e
      /\ DOMAIN q = 1..n /\ DOMAIN p = 1..(n + 1)
      /\ \A i \in 1..n : p[i] = q[i]
  BY <1>1
<1>3. Stands(p, n, on, off) <=> Stands(q, n, on, off)
  BY <1>2, StandsSame
<1>4. Stands(p, n + 1, on, off) <=> e \in on \/ (e \notin off /\ Stands(q, n, on, off))
  BY <1>2, <1>3, StandsNext
<1>5. (\A j \in DOMAIN p : p[j] \notin off) <=>
        (e \notin off /\ \A j \in DOMAIN q : q[j] \notin off)
  <2>1. \A j \in 1..(n + 1) : j \in 1..n \/ j = n + 1
    BY <1>2
  <2>2. n + 1 \in 1..(n + 1) /\ \A j \in 1..n : j \in 1..(n + 1)
    BY <1>2
  <2> QED
    BY <1>2, <2>1, <2>2
<1>6. /\ Settles(p, row, on, off) <=>
           Stands(p, n + 1, on, off) \/ (row /\ \A j \in DOMAIN p : p[j] \notin off)
      /\ Settles(q, row, on, off) <=>
           Stands(q, n, on, off) \/ (row /\ \A j \in DOMAIN q : q[j] \notin off)
  BY <1>1, <1>2 DEF Settles
<1>7. Settles(p, row, on, off) <=> e \in on \/ (e \notin off /\ Settles(q, row, on, off))
  BY <1>4, <1>5, <1>6
<1> QED
  BY <1>1, <1>7

\* The handler of the first event leaves the row as new.
LEMMA SettlesHandled ==
  ASSUME NEW T, NEW q \in Seq(T), q # << >>, NEW row \in BOOLEAN, NEW new \in BOOLEAN,
         NEW on, NEW off
  PROVE  /\ (new => Head(q) \in on \/ (Head(q) \notin off /\ row)) =>
              (Settles(Tail(q), new, on, off) => Settles(q, row, on, off))
         /\ (Head(q) \in on \/ (Head(q) \notin off /\ row) => new) =>
              (Settles(q, row, on, off) => Settles(Tail(q), new, on, off))
<1>1. PICK p, n, e : p = Tail(q) /\ n = Len(q) /\ e = Head(q)
  OBVIOUS
<1>2. /\ n \in Nat /\ n >= 1 /\ Len(p) = n - 1 /\ q[1] = e
      /\ DOMAIN q = 1..n /\ DOMAIN p = 1..(n - 1)
      /\ \A i \in 1..(n - 1) : p[i] = q[i + 1]
  BY <1>1
<1>3. (\A j \in DOMAIN q : q[j] \notin off) <=>
        (e \notin off /\ \A j \in DOMAIN p : p[j] \notin off)
  <2>1. ASSUME NEW j \in DOMAIN q, j # 1
        PROVE  j - 1 \in DOMAIN p /\ p[j - 1] = q[j]
    BY <1>2, <2>1
  <2>2. \A j \in DOMAIN p : j + 1 \in DOMAIN q
    BY <1>2
  <2>3. 1 \in DOMAIN q
    BY <1>2
  <2> QED
    BY <1>2, <2>1, <2>2, <2>3
<1>4. ASSUME Stands(p, n - 1, on, off)
      PROVE  Stands(q, n, on, off)
  <2>1. PICK i \in 1..(n - 1) : p[i] \in on /\ \A j \in (i + 1)..(n - 1) : p[j] \notin off
    BY <1>4 DEF Stands
  <2>2. i + 1 \in 1..n /\ q[i + 1] \in on
    BY <1>2, <2>1
  <2>3. ASSUME NEW j \in (i + 2)..n
        PROVE  q[j] \notin off
    <3>1. j - 1 \in (i + 1)..(n - 1) /\ j - 1 \in 1..(n - 1) /\ (j - 1) + 1 = j
      BY <1>2
    <3>2. p[j - 1] = q[j]
      BY <1>2, <3>1
    <3> QED
      BY <2>1, <3>1, <3>2
  <2>4. (i + 1) + 1 = i + 2
    OBVIOUS
  <2> QED
    BY <2>2, <2>3, <2>4 DEF Stands
<1>5. ASSUME Stands(q, n, on, off)
      PROVE  \/ Stands(p, n - 1, on, off)
             \/ e \in on /\ \A j \in DOMAIN p : p[j] \notin off
  <2>1. PICK i \in 1..n : q[i] \in on /\ \A j \in (i + 1)..n : q[j] \notin off
    BY <1>5 DEF Stands
  <2>2. ASSUME NEW j \in i..(n - 1), j >= 1
        PROVE  p[j] \notin off
    <3>1. j \in 1..(n - 1) /\ j + 1 \in (i + 1)..n
      BY <1>2, <2>2
    <3> QED
      BY <1>2, <2>1, <3>1
  <2>3. CASE i = 1
    BY <1>2, <2>1, <2>2, <2>3
  <2>4. CASE i # 1
    <3>1. i - 1 \in 1..(n - 1) /\ (i - 1) + 1 = i
      BY <1>2, <2>4
    <3>2. p[i - 1] \in on
      BY <1>2, <2>1, <3>1
    <3>3. \A j \in i..(n - 1) : p[j] \notin off
      BY <2>2, <2>4
    <3> QED
      BY <3>1, <3>2, <3>3 DEF Stands
  <2> QED
    BY <2>3, <2>4
<1>6. ASSUME e \in on, \A j \in DOMAIN p : p[j] \notin off
      PROVE  Stands(q, n, on, off)
  <2>1. 1 \in 1..n
    BY <1>2
  <2>2. ASSUME NEW j \in 2..n
        PROVE  q[j] \notin off
    <3>1. j - 1 \in 1..(n - 1) /\ (j - 1) + 1 = j
      BY <1>2
    <3> QED
      BY <1>2, <1>6, <3>1
  <2>3. 1 + 1 = 2
    OBVIOUS
  <2> QED
    BY <1>2, <1>6, <2>1, <2>2, <2>3 DEF Stands
<1>7. /\ Settles(p, new, on, off) <=>
           Stands(p, n - 1, on, off) \/ (new /\ \A j \in DOMAIN p : p[j] \notin off)
      /\ Settles(q, row, on, off) <=>
           Stands(q, n, on, off) \/ (row /\ \A j \in DOMAIN q : q[j] \notin off)
  BY <1>1, <1>2 DEF Settles
<1>8. /\ (new => e \in on \/ (e \notin off /\ row)) =>
           (Settles(p, new, on, off) => Settles(q, row, on, off))
      /\ (e \in on \/ (e \notin off /\ row) => new) =>
           (Settles(q, row, on, off) => Settles(p, new, on, off))
  BY <1>3, <1>4, <1>5, <1>6, <1>7
<1> QED
  BY <1>1, <1>8

-----------------------------------------------------------------------------
(***************************************************************************)
(* The events that put a group, a role or the role of a group there, and   *)
(* those that take it away.                                                *)
(***************************************************************************)
CreatesGroup(g)  == {Event("GroupCreated", g, NoRole)}
DeletesGroup(g)  == {Event("GroupDeleted", g, NoRole)}
AddsRole(r)      == {Event("RoleAdded", NoGroup, r)}
DeletesRole(r)   == {Event("RoleDeleted", NoGroup, r)}
GivesRole(g, r)  == {Event("GroupRoleAdded", g, r)}
TakesRole(g, r)  == {Event("GroupRoleDeleted", g, r)} \cup DeletesRole(r) \cup DeletesGroup(g)
Ends             == {Event("Deleted", NoGroup, NoRole)}

GroupStands(s, k, g)      == Stands(s, k, CreatesGroup(g), DeletesGroup(g))
RoleStands(s, k, r)       == Stands(s, k, AddsRole(r), DeletesRole(r))
GroupRoleStands(s, k, g, r) == Stands(s, k, GivesRole(g, r), TakesRole(g, r))

LEMMA EventFields ==
  \A type, g, r : /\ Event(type, g, r).type = type
                  /\ Event(type, g, r).group = g
                  /\ Event(type, g, r).role = r
BY DEF Event

LEMMA GroupEvents ==
  ASSUME NEW e \in Events, NEW g \in Groups
  PROVE  /\ e \in CreatesGroup(g) <=> e.type = "GroupCreated" /\ e.group = g
         /\ e \in DeletesGroup(g) <=> e.type = "GroupDeleted" /\ e.group = g
BY DEF Events, Event, CreatesGroup, DeletesGroup, NoGroup, NoRole, Groups

LEMMA RoleEvents ==
  ASSUME NEW e \in Events, NEW r \in Roles
  PROVE  /\ e \in AddsRole(r) <=> e.type = "RoleAdded" /\ e.role = r
         /\ e \in DeletesRole(r) <=> e.type = "RoleDeleted" /\ e.role = r
BY DEF Events, Event, AddsRole, DeletesRole, NoGroup, NoRole, Groups

LEMMA GroupRoleEvents ==
  ASSUME NEW e \in Events, NEW g \in Groups, NEW r \in Roles
  PROVE  /\ e \in GivesRole(g, r) <=>
              e.type = "GroupRoleAdded" /\ e.group = g /\ e.role = r
         /\ e \in TakesRole(g, r) <=>
              \/ e.type = "GroupRoleDeleted" /\ e.group = g /\ e.role = r
              \/ e.type = "RoleDeleted" /\ e.role = r
              \/ e.type = "GroupDeleted" /\ e.group = g
<1>1. e = Event("GroupRoleDeleted", g, r) <=>
        e.type = "GroupRoleDeleted" /\ e.group = g /\ e.role = r
  BY DEF Events, Event, NoGroup, NoRole, Groups
<1>2. e = Event("GroupRoleAdded", g, r) <=>
        e.type = "GroupRoleAdded" /\ e.group = g /\ e.role = r
  BY DEF Events, Event, NoGroup, NoRole, Groups
<1>3. /\ e \in DeletesGroup(g) <=> e.type = "GroupDeleted" /\ e.group = g
      /\ e \in DeletesRole(r) <=> e.type = "RoleDeleted" /\ e.role = r
  BY GroupEvents, RoleEvents
<1> QED
  BY <1>1, <1>2, <1>3 DEF GivesRole, TakesRole

LEMMA EndEvents ==
  ASSUME NEW e \in Events
  PROVE  e \in Ends <=> e.type = "Deleted"
BY DEF Events, Event, Ends, NoGroup, NoRole

\* What the parts of an event may be.
LEMMA EventParts ==
  ASSUME NEW e \in Events
  PROVE  /\ e.type \in {"GroupCreated", "GroupModified", "GroupDeleted", "GroupRoleAdded",
                        "GroupRoleDeleted"} => e.group \in Groups
         /\ e.type \in {"RoleAdded", "RoleDeleted", "ApplicationRoleDeleted",
                        "GroupRoleAdded", "GroupRoleDeleted"} => e.role \in Roles
         /\ e.type \in {"Deleted", "RoleAdded", "RoleDeleted", "DisconnectedFromApplication",
                        "ApplicationRoleDeleted", "GroupCreated", "GroupModified",
                        "GroupDeleted", "GroupRoleAdded", "GroupRoleDeleted"}
BY DEF Events

-----------------------------------------------------------------------------
(***************************************************************************)
(* The states of the aggregate, and what an event does to one.             *)
(***************************************************************************)
Dictionaries == UNION {[D -> SUBSET Roles] : D \in SUBSET Groups}

Aggregates ==
  [loads : BOOLEAN, deleted : BOOLEAN, roles : SUBSET Roles, groups : Dictionaries]

\* Group g is in the dictionary and has role r.
Has(groups, g, r) == g \in DOMAIN groups /\ r \in groups[g]

LEMMA DictionaryParts ==
  ASSUME NEW groups \in Dictionaries
  PROVE  /\ DOMAIN groups \in SUBSET Groups
         /\ groups \in [DOMAIN groups -> SUBSET Roles]
BY DEF Dictionaries

LEMMA IsDictionary ==
  ASSUME NEW D \in SUBSET Groups, NEW groups \in [D -> SUBSET Roles]
  PROVE  groups \in Dictionaries /\ DOMAIN groups = D
BY DEF Dictionaries

LEMMA RemoveRoleEffect ==
  ASSUME NEW groups \in Dictionaries, NEW r \in Roles
  PROVE  /\ RemoveRole(groups, r) \in Dictionaries
         /\ DOMAIN RemoveRole(groups, r) = DOMAIN groups
         /\ \A g, x : Has(RemoveRole(groups, r), g, x) <=> Has(groups, g, x) /\ x # r
<1>1. /\ DOMAIN groups \in SUBSET Groups
      /\ groups \in [DOMAIN groups -> SUBSET Roles]
  BY DictionaryParts
<1>2. RemoveRole(groups, r) \in [DOMAIN groups -> SUBSET Roles]
  BY <1>1 DEF RemoveRole
<1>3. \A g, x : Has(RemoveRole(groups, r), g, x) <=> Has(groups, g, x) /\ x # r
  BY DEF RemoveRole, Has
<1> QED
  BY <1>1, <1>2, <1>3, IsDictionary

LEMMA AddGroupEffect ==
  ASSUME NEW groups \in Dictionaries, NEW n \in Groups, n \notin DOMAIN groups
  PROVE  /\ AddGroup(groups, n) \in Dictionaries
         /\ DOMAIN AddGroup(groups, n) = DOMAIN groups \cup {n}
         /\ \A g, x : Has(AddGroup(groups, n), g, x) <=> Has(groups, g, x)
<1>1. /\ DOMAIN groups \in SUBSET Groups
      /\ groups \in [DOMAIN groups -> SUBSET Roles]
  BY DictionaryParts
<1>2. AddGroup(groups, n) \in [DOMAIN groups \cup {n} -> SUBSET Roles]
  BY <1>1 DEF AddGroup
<1>3. \A g, x : Has(AddGroup(groups, n), g, x) <=> Has(groups, g, x)
  BY DEF AddGroup, Has
<1> QED
  BY <1>1, <1>2, <1>3, IsDictionary

LEMMA RemoveGroupEffect ==
  ASSUME NEW groups \in Dictionaries, NEW n \in Groups
  PROVE  /\ RemoveGroup(groups, n) \in Dictionaries
         /\ DOMAIN RemoveGroup(groups, n) = DOMAIN groups \ {n}
         /\ \A g, x : Has(RemoveGroup(groups, n), g, x) <=> Has(groups, g, x) /\ g # n
<1>1. /\ DOMAIN groups \in SUBSET Groups
      /\ groups \in [DOMAIN groups -> SUBSET Roles]
  BY DictionaryParts
<1>2. RemoveGroup(groups, n) \in [DOMAIN groups \ {n} -> SUBSET Roles]
  BY <1>1 DEF RemoveGroup
<1>3. \A g, x : Has(RemoveGroup(groups, n), g, x) <=> Has(groups, g, x) /\ g # n
  BY DEF RemoveGroup, Has
<1> QED
  BY <1>1, <1>2, <1>3, IsDictionary

\* A group is given the roles S.
LEMMA GroupRolesEffect ==
  ASSUME NEW groups \in Dictionaries, NEW n \in DOMAIN groups, NEW S \in SUBSET Roles
  PROVE  /\ [groups EXCEPT ![n] = S] \in Dictionaries
         /\ DOMAIN [groups EXCEPT ![n] = S] = DOMAIN groups
         /\ \A g, x : Has([groups EXCEPT ![n] = S], g, x) <=>
              IF g = n THEN x \in S ELSE Has(groups, g, x)
<1>1. /\ DOMAIN groups \in SUBSET Groups
      /\ groups \in [DOMAIN groups -> SUBSET Roles]
  BY DictionaryParts
<1>2. [groups EXCEPT ![n] = S] \in [DOMAIN groups -> SUBSET Roles]
  BY <1>1
<1>3. \A g, x : Has([groups EXCEPT ![n] = S], g, x) <=>
        IF g = n THEN x \in S ELSE Has(groups, g, x)
  BY DEF Has
<1> QED
  BY <1>1, <1>2, <1>3, IsDictionary

(***************************************************************************)
(* State x is state s after event e: each part is what it was, but for     *)
(* what e puts there or takes away.                                        *)
(***************************************************************************)
Follows(s, e, x) ==
  /\ x \in Aggregates
  /\ x.loads = s.loads
  /\ x.deleted <=> s.deleted \/ e \in Ends
  /\ \A r \in Roles :
       r \in x.roles <=> e \in AddsRole(r) \/ (e \notin DeletesRole(r) /\ r \in s.roles)
  /\ \A g \in Groups :
       g \in DOMAIN x.groups <=>
         e \in CreatesGroup(g) \/ (e \notin DeletesGroup(g) /\ g \in DOMAIN s.groups)
  /\ \A g \in Groups, r \in Roles :
       Has(x.groups, g, r) <=>
         e \in GivesRole(g, r) \/ (e \notin TakesRole(g, r) /\ Has(s.groups, g, r))

LEMMA EffectSays ==
  ASSUME NEW s \in Aggregates, NEW e \in Events, ~Throws(s, e)
  PROVE  Follows(s, e, Effect(s, e))
<1>1. PICK x : x = Effect(s, e)
  OBVIOUS
<1>2. /\ s.loads \in BOOLEAN /\ s.deleted \in BOOLEAN /\ s.roles \in SUBSET Roles
      /\ s.groups \in Dictionaries
      /\ s = [loads |-> s.loads, deleted |-> s.deleted, roles |-> s.roles, groups |-> s.groups]
  BY DEF Aggregates
<1>3. DOMAIN s.groups \in SUBSET Groups /\ s.groups \in [DOMAIN s.groups -> SUBSET Roles]
  BY <1>2, DictionaryParts
<1>4. CASE e.type = "Deleted"
  <2>1. x = [s EXCEPT !.deleted = TRUE]
    BY <1>1, <1>4 DEF Effect
  <2>2. /\ x \in Aggregates /\ x.loads = s.loads /\ x.deleted = TRUE
        /\ x.roles = s.roles /\ x.groups = s.groups
    BY <1>2, <2>1 DEF Aggregates
  <2>3. Follows(s, e, x)
    BY <1>4, <2>2, GroupEvents, RoleEvents, GroupRoleEvents, EndEvents DEF Follows
  <2> QED
    BY <1>1, <2>3
<1>5. CASE e.type = "RoleAdded"
  <2>1. x = [s EXCEPT !.roles = @ \cup {e.role}]
    BY <1>1, <1>5 DEF Effect
  <2>2. e.role \in Roles
    BY <1>5, EventParts
  <2>3. /\ x \in Aggregates /\ x.loads = s.loads /\ x.deleted = s.deleted
        /\ x.roles = s.roles \cup {e.role} /\ x.groups = s.groups
    BY <1>2, <2>1, <2>2 DEF Aggregates
  <2>4. Follows(s, e, x)
    BY <1>5, <2>3, GroupEvents, RoleEvents, GroupRoleEvents, EndEvents DEF Follows
  <2> QED
    BY <1>1, <2>4
<1>6. CASE e.type = "RoleDeleted"
  <2>1. x = [s EXCEPT !.roles = @ \ {e.role}, !.groups = RemoveRole(@, e.role)]
    BY <1>1, <1>6 DEF Effect
  <2>2. e.role \in Roles
    BY <1>6, EventParts
  <2>3. PICK old, groups, v : old = s.groups /\ v = e.role /\ groups = RemoveRole(old, v)
    OBVIOUS
  <2>4. /\ groups \in Dictionaries /\ DOMAIN groups = DOMAIN s.groups
        /\ \A g, r : Has(groups, g, r) <=> Has(s.groups, g, r) /\ r # e.role
    BY <1>2, <2>2, <2>3, RemoveRoleEffect
  <2>5. /\ x \in Aggregates /\ x.loads = s.loads /\ x.deleted = s.deleted
        /\ x.roles = s.roles \ {e.role} /\ x.groups = groups
    BY <1>2, <2>1, <2>3, <2>4 DEF Aggregates
  <2>6. Follows(s, e, x)
    BY <1>6, <2>4, <2>5, GroupEvents, RoleEvents, GroupRoleEvents, EndEvents DEF Follows
  <2> QED
    BY <1>1, <2>6
<1>7. CASE e.type = "GroupCreated"
  <2>1. x = [s EXCEPT !.groups = AddGroup(@, e.group)]
    BY <1>1, <1>7 DEF Effect
  <2>2. e.group \in Groups /\ e.group \notin DOMAIN s.groups
    BY <1>7, EventParts DEF Throws
  <2>3. PICK old, groups, v : old = s.groups /\ v = e.group /\ groups = AddGroup(old, v)
    OBVIOUS
  <2>4. /\ groups \in Dictionaries /\ DOMAIN groups = DOMAIN s.groups \cup {e.group}
        /\ \A g, r : Has(groups, g, r) <=> Has(s.groups, g, r)
    BY <1>2, <2>2, <2>3, AddGroupEffect
  <2>5. /\ x \in Aggregates /\ x.loads = s.loads /\ x.deleted = s.deleted
        /\ x.roles = s.roles /\ x.groups = groups
    BY <1>2, <2>1, <2>3, <2>4 DEF Aggregates
  <2>6. Follows(s, e, x)
    BY <1>7, <2>4, <2>5, GroupEvents, RoleEvents, GroupRoleEvents, EndEvents DEF Follows
  <2> QED
    BY <1>1, <2>6
<1>8. CASE e.type = "GroupDeleted"
  <2>1. x = [s EXCEPT !.groups = RemoveGroup(@, e.group)]
    BY <1>1, <1>8 DEF Effect
  <2>2. e.group \in Groups
    BY <1>8, EventParts
  <2>3. PICK old, groups, v : old = s.groups /\ v = e.group /\ groups = RemoveGroup(old, v)
    OBVIOUS
  <2>4. /\ groups \in Dictionaries
        /\ \A g : g \in DOMAIN groups <=> g \in DOMAIN s.groups /\ g # e.group
        /\ \A g, r : Has(groups, g, r) <=> Has(s.groups, g, r) /\ g # e.group
    <3>1. old \in Dictionaries /\ v \in Groups
      BY <1>2, <2>2, <2>3
    <3>2. /\ groups \in Dictionaries
          /\ DOMAIN groups = DOMAIN old \ {v}
          /\ \A g, r : Has(groups, g, r) <=> Has(old, g, r) /\ g # v
      BY <2>3, <3>1, RemoveGroupEffect
    <3> QED
      BY <2>3, <3>2
  <2>5. /\ x \in Aggregates /\ x.loads = s.loads /\ x.deleted = s.deleted
        /\ x.roles = s.roles /\ x.groups = groups
    BY <1>2, <2>1, <2>3, <2>4 DEF Aggregates
  <2>6. Follows(s, e, x)
    BY <1>8, <2>4, <2>5, GroupEvents, RoleEvents, GroupRoleEvents, EndEvents DEF Follows
  <2> QED
    BY <1>1, <2>6
<1>9. CASE e.type = "GroupRoleAdded"
  <2>1. x = [s EXCEPT !.groups[e.group] = @ \cup {e.role}]
    BY <1>1, <1>9 DEF Effect
  <2>2. e.group \in DOMAIN s.groups /\ e.role \in Roles
    BY <1>9, EventParts DEF Throws
  <2>3. PICK new, groups : /\ new = s.groups[e.group] \cup {e.role}
                           /\ groups = [s.groups EXCEPT ![e.group] = new]
    OBVIOUS
  <2>4. new \in SUBSET Roles /\ \A r : r \in new <=> Has(s.groups, e.group, r) \/ r = e.role
    BY <1>3, <2>2, <2>3 DEF Has
  <2>5. /\ groups \in Dictionaries /\ DOMAIN groups = DOMAIN s.groups
        /\ \A g, r : Has(groups, g, r) <=> IF g = e.group THEN r \in new ELSE Has(s.groups, g, r)
    BY <1>2, <2>2, <2>3, <2>4, GroupRolesEffect
  <2>6. /\ x \in Aggregates /\ x.loads = s.loads /\ x.deleted = s.deleted
        /\ x.roles = s.roles /\ x.groups = groups
    BY <1>2, <2>1, <2>3, <2>5 DEF Aggregates
  <2>7. \A g, r : Has(groups, g, r) <=> (g = e.group /\ r = e.role) \/ Has(s.groups, g, r)
    BY <2>4, <2>5
  <2>8. Follows(s, e, x)
    BY <1>9, <2>5, <2>6, <2>7, GroupEvents, RoleEvents, GroupRoleEvents, EndEvents DEF Follows
  <2> QED
    BY <1>1, <2>8
<1>10. CASE e.type = "GroupRoleDeleted" /\ e.group \in DOMAIN s.groups
  <2>1. x = [s EXCEPT !.groups[e.group] = @ \ {e.role}]
    BY <1>1, <1>10 DEF Effect
  <2>2. PICK new, groups : /\ new = s.groups[e.group] \ {e.role}
                           /\ groups = [s.groups EXCEPT ![e.group] = new]
    OBVIOUS
  <2>3. new \in SUBSET Roles /\ \A r : r \in new <=> Has(s.groups, e.group, r) /\ r # e.role
    BY <1>3, <1>10, <2>2 DEF Has
  <2>4. /\ groups \in Dictionaries /\ DOMAIN groups = DOMAIN s.groups
        /\ \A g, r : Has(groups, g, r) <=> IF g = e.group THEN r \in new ELSE Has(s.groups, g, r)
    BY <1>2, <1>10, <2>2, <2>3, GroupRolesEffect
  <2>5. /\ x \in Aggregates /\ x.loads = s.loads /\ x.deleted = s.deleted
        /\ x.roles = s.roles /\ x.groups = groups
    BY <1>2, <2>1, <2>2, <2>4 DEF Aggregates
  <2>6. \A g, r : Has(groups, g, r) <=> ~(g = e.group /\ r = e.role) /\ Has(s.groups, g, r)
    BY <2>3, <2>4
  <2>7. Follows(s, e, x)
    BY <1>10, <2>4, <2>5, <2>6, GroupEvents, RoleEvents, GroupRoleEvents, EndEvents DEF Follows
  <2> QED
    BY <1>1, <2>7
<1>11. CASE \/ e.type \in {"DisconnectedFromApplication", "ApplicationRoleDeleted",
                           "GroupModified"}
            \/ e.type = "GroupRoleDeleted" /\ e.group \notin DOMAIN s.groups
  <2>1. x = s
    BY <1>1, <1>11 DEF Effect
  <2>2. \A r : ~Has(s.groups, e.group, r) \/ e.type # "GroupRoleDeleted"
    BY <1>11 DEF Has
  <2>3. Follows(s, e, x)
    BY <1>2, <1>11, <2>1, <2>2, GroupEvents, RoleEvents, GroupRoleEvents, EndEvents DEF Follows
  <2> QED
    BY <1>1, <2>3
<1> QED
  BY <1>4, <1>5, <1>6, <1>7, <1>8, <1>9, <1>10, <1>11, EventParts

-----------------------------------------------------------------------------
(***************************************************************************)
(* The orders in which the database may return the rows: each row comes    *)
(* once, and the versions do not go down.                                  *)
(***************************************************************************)
Entries == [event : Events, version : Nat, basis : Nat]

EventsOf(h) == [k \in DOMAIN h |-> h[k].event]

LEMMA EventsOfType ==
  ASSUME NEW h \in Seq(Entries)
  PROVE  /\ EventsOf(h) \in Seq(Events)
         /\ Len(EventsOf(h)) = Len(h) /\ Len(h) \in Nat /\ DOMAIN h = 1..Len(h)
         /\ \A k \in 1..Len(h) : /\ h[k] \in Entries
                                 /\ h[k].basis \in Nat /\ h[k].version \in Nat
                                 /\ EventsOf(h)[k] = h[k].event
                                 /\ EventsOf(h)[k] \in Events
<1>1. DOMAIN h = 1..Len(h) /\ Len(h) \in Nat
  OBVIOUS
<1>2. \A k \in 1..Len(h) : h[k] \in Entries
  BY <1>1
<1>3. \A k \in 1..Len(h) : h[k].event \in Events /\ h[k].basis \in Nat /\ h[k].version \in Nat
  BY <1>2 DEF Entries
<1>4. EventsOf(h) = [k \in 1..Len(h) |-> h[k].event]
  BY <1>1 DEF EventsOf
<1>5. EventsOf(h) \in Seq(Events) /\ Len(EventsOf(h)) = Len(h)
  BY <1>1, <1>3, <1>4
<1> QED
  BY <1>1, <1>2, <1>3, <1>4, <1>5

\* The k-th row has at most version k, and a greater one than the rows that
\* its command had loaded.
VersionsOK(h) ==
  \A k \in DOMAIN h : /\ h[k].version \in 1..k
                      /\ h[k].basis < k
                      /\ \A j \in 1..h[k].basis : h[j].version < h[k].version

IsOrder(h, o) ==
  /\ o \in [1..Len(h) -> 1..Len(h)]
  /\ \A i, j \in 1..Len(h) : o[i] = o[j] => i = j
  /\ \A k \in 1..Len(h) : \E i \in 1..Len(h) : o[i] = k
  /\ \A i, j \in 1..Len(h) : i < j => h[o[i]].version <= h[o[j]].version

\* s is an order of the rows with a version of at most v.
IsOrderUpTo(h, v, s) ==
  /\ s \in Seq(DOMAIN h)
  /\ \A i, j \in DOMAIN s : s[i] = s[j] => i = j
  /\ \A i \in DOMAIN s : h[s[i]].version <= v
  /\ \A k \in DOMAIN h : h[k].version <= v => \E i \in DOMAIN s : s[i] = k
  /\ \A i, j \in DOMAIN s : i < j => h[s[i]].version <= h[s[j]].version

LEMMA IntervalSize ==
  ASSUME NEW n \in Nat
  PROVE  IsFiniteSet(1..n) /\ Cardinality(1..n) = n
BY FS_Interval

LEMMA SetOrder ==
  ASSUME NEW n \in Nat, NEW S, S \subseteq 1..n, NEW b \in SetToSeqs(S)
  PROVE  /\ b \in Seq(1..n) /\ Len(b) \in Nat /\ DOMAIN b = 1..Len(b)
         /\ \A i \in DOMAIN b : b[i] \in S
         /\ \A i, j \in DOMAIN b : b[i] = b[j] => i = j
         /\ \A k \in S : \E i \in DOMAIN b : b[i] = k
<1> DEFINE m == Cardinality(S)
<1>1. IsFiniteSet(S)
  <2>1. IsFiniteSet(1..n)
    BY FS_Interval
  <2> QED
    BY <2>1, FS_Subset
<1>2. m \in Nat
  BY <1>1, FS_CardinalityType
<1>3. b \in [1..m -> S] /\ \A i, j \in 1..m : i # j => b[i] # b[j]
  BY DEF SetToSeqs
<1>4. b \in Injection(1..m, S)
  BY <1>3 DEF Injection, IsInjective
<1>5. IsFiniteSet(1..m) /\ Cardinality(1..m) = m
  BY <1>2, IntervalSize
<1>6. b \in Surjection(1..m, S)
  <2> HIDE DEF m
  <2> QED
    BY <1>1, <1>4, <1>5, FS_Injection DEF m
<1> HIDE DEF m
<1>7. \A k \in S : \E i \in 1..m : b[i] = k
  BY <1>6 DEF Surjection
<1>8. b \in [1..m -> 1..n]
  BY <1>3
<1>9. b \in Seq(1..n) /\ Len(b) = m /\ DOMAIN b = 1..m
  BY <1>2, <1>8
<1> QED
  BY <1>2, <1>3, <1>7, <1>9

LEMMA OrderNext ==
  ASSUME NEW h \in Seq(Entries), NEW v \in Nat, NEW a, IsOrderUpTo(h, v, a),
         NEW b \in SetToSeqs(OfVersion(h, v + 1))
  PROVE  IsOrderUpTo(h, v + 1, a \o b)
<1>1. PICK n, m, l, s : n = Len(h) /\ m = Len(a) /\ l = Len(b) /\ s = a \o b
  OBVIOUS
<1>2. /\ n \in Nat /\ DOMAIN h = 1..n /\ \A k \in 1..n : h[k].version \in Nat
  BY <1>1, EventsOfType
<1>3. OfVersion(h, v + 1) \subseteq 1..n
  BY <1>2 DEF OfVersion
<1>4. \A k \in 1..n : k \in OfVersion(h, v + 1) <=> h[k].version = v + 1
  BY <1>2 DEF OfVersion
<1>5. /\ b \in Seq(1..n) /\ l \in Nat /\ DOMAIN b = 1..l
      /\ \A i \in 1..l : b[i] \in OfVersion(h, v + 1)
      /\ \A i, j \in 1..l : b[i] = b[j] => i = j
      /\ \A k \in OfVersion(h, v + 1) : \E i \in 1..l : b[i] = k
  <2>1. PICK S : S = OfVersion(h, v + 1)
    OBVIOUS
  <2>2. S \subseteq 1..n /\ b \in SetToSeqs(S)
    BY <1>3, <2>1
  <2>3. /\ b \in Seq(1..n) /\ Len(b) \in Nat /\ DOMAIN b = 1..Len(b)
        /\ \A i \in DOMAIN b : b[i] \in S
        /\ \A i, j \in DOMAIN b : b[i] = b[j] => i = j
        /\ \A k \in S : \E i \in DOMAIN b : b[i] = k
    BY <1>2, <2>2, SetOrder
  <2> QED
    BY <1>1, <2>1, <2>3
<1>6. /\ a \in Seq(1..n) /\ m \in Nat /\ DOMAIN a = 1..m
      /\ \A i, j \in 1..m : a[i] = a[j] => i = j
      /\ \A i \in 1..m : a[i] \in 1..n /\ h[a[i]].version <= v
      /\ \A k \in 1..n : h[k].version <= v => \E i \in 1..m : a[i] = k
      /\ \A i, j \in 1..m : i < j => h[a[i]].version <= h[a[j]].version
  <2>1. a \in Seq(1..n)
    BY <1>2 DEF IsOrderUpTo
  <2>2. m \in Nat /\ DOMAIN a = 1..m /\ \A i \in 1..m : a[i] \in 1..n
    BY <1>1, <2>1
  <2> QED
    BY <1>2, <2>1, <2>2 DEF IsOrderUpTo
<1>7. /\ s \in Seq(1..n) /\ DOMAIN s = 1..(m + l)
      /\ \A i \in 1..m : s[i] = a[i]
      /\ \A i \in (m + 1)..(m + l) : i - m \in 1..l /\ s[i] = b[i - m]
  BY <1>1, <1>5, <1>6, Joined
<1>8. \A i \in 1..(m + l) : i \in 1..m \/ i \in (m + 1)..(m + l)
  BY <1>5, <1>6
<1>9. \A i \in 1..m : s[i] \in 1..n /\ h[s[i]].version <= v
  BY <1>6, <1>7
<1>10. \A i \in (m + 1)..(m + l) : s[i] \in 1..n /\ h[s[i]].version = v + 1
  <2>1. ASSUME NEW i \in (m + 1)..(m + l)
        PROVE  s[i] \in 1..n /\ h[s[i]].version = v + 1
    <3>1. PICK j \in 1..l : j = i - m /\ s[i] = b[j]
      BY <1>7
    <3>2. s[i] \in OfVersion(h, v + 1)
      BY <1>5, <3>1
    <3> QED
      BY <1>3, <1>4, <3>2
  <2> QED
    BY <2>1
<1>11. ASSUME NEW i \in 1..(m + l), NEW j \in 1..(m + l), s[i] = s[j]
       PROVE  i = j
  <2>1. CASE i \in 1..m /\ j \in 1..m
    BY <1>6, <1>7, <1>11, <2>1
  <2>2. CASE i \in (m + 1)..(m + l) /\ j \in (m + 1)..(m + l)
    <3>1. b[i - m] = b[j - m] /\ i - m \in 1..l /\ j - m \in 1..l
      BY <1>7, <1>11, <2>2
    <3>2. i - m = j - m
      BY <1>5, <3>1
    <3> QED
      BY <1>6, <3>2
  <2>3. CASE i \in 1..m /\ j \in (m + 1)..(m + l)
    BY <1>2, <1>9, <1>10, <1>11, <2>3
  <2>4. CASE i \in (m + 1)..(m + l) /\ j \in 1..m
    BY <1>2, <1>9, <1>10, <1>11, <2>4
  <2> QED
    BY <1>8, <2>1, <2>2, <2>3, <2>4
<1>12. \A i \in 1..(m + l) : h[s[i]].version <= v + 1
  <2>1. \A i \in 1..m : h[s[i]].version <= v + 1
    BY <1>2, <1>9
  <2> QED
    BY <1>8, <1>10, <2>1
<1>13. ASSUME NEW k \in 1..n, h[k].version <= v + 1
       PROVE  \E i \in 1..(m + l) : s[i] = k
  <2>1. CASE h[k].version <= v
    <3>1. PICK i \in 1..m : a[i] = k
      BY <1>6, <2>1
    <3>2. i \in 1..(m + l)
      BY <1>5, <1>6
    <3> QED
      BY <1>7, <3>1, <3>2
  <2>2. CASE h[k].version = v + 1
    <3>1. PICK i \in 1..l : b[i] = k
      BY <1>4, <1>5, <2>2
    <3>2. m + i \in (m + 1)..(m + l) /\ m + i \in 1..(m + l) /\ (m + i) - m = i
      BY <1>5, <1>6
    <3>3. s[m + i] = b[i]
      BY <1>7, <3>2
    <3> QED
      BY <3>1, <3>2, <3>3
  <2> QED
    BY <1>2, <1>13, <2>1, <2>2
<1>14. ASSUME NEW i \in 1..(m + l), NEW j \in 1..(m + l), i < j
       PROVE  h[s[i]].version <= h[s[j]].version
  <2>1. CASE i \in 1..m /\ j \in 1..m
    BY <1>6, <1>7, <1>14, <2>1
  <2>2. CASE j \in (m + 1)..(m + l)
    BY <1>10, <1>12, <2>2
  <2>3. j \in 1..m => i \in 1..m
    BY <1>6, <1>14
  <2> QED
    BY <1>8, <2>1, <2>2, <2>3
<1>15. IsOrderUpTo(h, v + 1, s)
  BY <1>2, <1>7, <1>11, <1>12, <1>13, <1>14 DEF IsOrderUpTo
<1> QED
  BY <1>1, <1>15

\* The orders of the rows with a version of at most v, for each v.
IsOrders(h, u) ==
  /\ u = [v \in 0..Len(h) |->
            IF v = 0 THEN {<< >>}
            ELSE {p[1] \o p[2] : p \in u[v - 1] \X SetToSeqs(OfVersion(h, v))}]
  /\ Orders(h) = u[Len(h)]

LEMMA OrdersExist ==
  ASSUME NEW h \in Seq(Entries)
  PROVE  \E u : IsOrders(h, u)
<1> DEFINE n == Len(h)
           S == SUBSET Seq(1..n)
           Longer(A, v) == {p[1] \o p[2] : p \in A \X SetToSeqs(OfVersion(h, v))}
           step == [p \in (1..n) \X S |-> Longer(p[2], p[1])]
           IsIt(u) == u = [v \in 0..n |-> IF v = 0 THEN {<< >>} ELSE Longer(u[v - 1], v)]
<1>1. n \in Nat /\ {<< >>} \in S /\ DOMAIN h = 1..n
  OBVIOUS
<1>2. \A v \in 1..n : \A A \in S : Longer(A, v) \in S
  <2>1. ASSUME NEW v \in 1..n, NEW A \in S, NEW p \in A \X SetToSeqs(OfVersion(h, v))
        PROVE  p[1] \o p[2] \in Seq(1..n)
    <3>1. p[1] \in A /\ p[2] \in SetToSeqs(OfVersion(h, v))
      OBVIOUS
    <3>2. OfVersion(h, v) \subseteq 1..n
      BY <1>1 DEF OfVersion
    <3>3. PICK T, a, b : T = OfVersion(h, v) /\ a = p[1] /\ b = p[2]
      OBVIOUS
    <3>4. b \in Seq(1..n)
      <4> HIDE DEF n
      <4> QED
        BY <1>1, <3>1, <3>2, <3>3, SetOrder
    <3>5. a \in Seq(1..n)
      BY <3>1, <3>3
    <3>6. a \o b \in Seq(1..n)
      BY <3>4, <3>5
    <3> QED
      BY <3>3, <3>6
  <2> QED
    BY <2>1
<1>3. step \in [(1..n) \X S -> S]
  <2>1. ASSUME NEW p \in (1..n) \X S
        PROVE  Longer(p[2], p[1]) \in S
    <3>1. p[1] \in 1..n /\ p[2] \in S
      OBVIOUS
    <3> HIDE DEF Longer, S
    <3> QED
      BY <1>2, <3>1
  <2> HIDE DEF Longer, S
  <2> QED
    BY <2>1
<1>4. \A v \in 1..n : \A A \in S : step[<< v, A >>] = Longer(A, v)
  <2> HIDE DEF Longer, S
  <2> QED
    OBVIOUS
<1>5. PICK f : IsRun(f, n, S, {<< >>}, step)
  <2> HIDE DEF step, n, S
  <2> QED
    BY <1>1, <1>3, Recursion
<1>6. ASSUME NEW v \in 0..n
      PROVE  f[v] = IF v = 0 THEN {<< >>} ELSE Longer(f[v - 1], v)
  <2> HIDE DEF step, S, Longer
  <2>1. CASE v = 0
    BY <1>5, <2>1 DEF IsRun
  <2>2. CASE v # 0
    <3>1. v \in 1..n /\ v - 1 \in 0..n
      BY <1>1, <2>2
    <3>2. f[v - 1] \in S
      BY <1>5, <3>1 DEF IsRun
    <3>3. f[v] = step[<< v, f[v - 1] >>]
      BY <1>5, <3>1 DEF IsRun
    <3>4. step[<< v, f[v - 1] >>] = Longer(f[v - 1], v)
      BY <1>4, <3>1, <3>2
    <3> QED
      BY <2>2, <3>3, <3>4
  <2> QED
    BY <2>1, <2>2
<1>7. IsIt(f)
  <2> HIDE DEF step, S, Longer
  <2> QED
    BY <1>5, <1>6 DEF IsRun
<1>8. IsIt(CHOOSE u : IsIt(u))
  <2> HIDE DEF IsIt
  <2> QED
    BY <1>7
<1>9. Orders(h) = (CHOOSE u : IsIt(u))[n]
  BY DEF Orders
<1> QED
  BY <1>8, <1>9 DEF IsOrders

LEMMA OrdersAreOrders ==
  ASSUME NEW h \in Seq(Entries), VersionsOK(h), NEW o \in Orders(h)
  PROVE  IsOrder(h, o)
<1>1. PICK u : IsOrders(h, u)
  BY OrdersExist
<1>2. PICK n \in Nat : n = Len(h) /\ DOMAIN h = 1..n
  OBVIOUS
<1>3. /\ u[0] = {<< >>}
      /\ \A v \in 1..n :
           u[v] = {p[1] \o p[2] : p \in u[v - 1] \X SetToSeqs(OfVersion(h, v))}
      /\ o \in u[n]
  BY <1>1, <1>2 DEF IsOrders
<1>4. \A k \in 1..n : h[k].version \in 1..n
  BY <1>2 DEF VersionsOK
<1> DEFINE T == {v \in 0..n : \A s \in u[v] : IsOrderUpTo(h, v, s)}
<1>5. 0 \in T
  <2>1. << >> \in Seq(DOMAIN h) /\ DOMAIN << >> = {}
    OBVIOUS
  <2>2. \A k \in DOMAIN h : ~(h[k].version <= 0)
    BY <1>2, <1>4
  <2>3. IsOrderUpTo(h, 0, << >>)
    BY <2>1, <2>2 DEF IsOrderUpTo
  <2> QED
    BY <1>2, <1>3, <2>3
<1>6. ASSUME NEW v \in 0..n, v < n, v \in T
      PROVE  v + 1 \in T
  <2>1. v + 1 \in 1..n /\ (v + 1) - 1 = v /\ v \in Nat
    BY <1>2, <1>6
  <2>2. ASSUME NEW s \in u[v + 1]
        PROVE  IsOrderUpTo(h, v + 1, s)
    <3>0. PICK k \in 1..n : k = v + 1 /\ k - 1 = v
      BY <2>1
    <3>1. PICK p \in u[v] \X SetToSeqs(OfVersion(h, v + 1)) : s = p[1] \o p[2]
      <4>1. u[k] = {p[1] \o p[2] : p \in u[k - 1] \X SetToSeqs(OfVersion(h, k))}
        BY <1>3
      <4>2. s \in u[k]
        BY <2>2, <3>0
      <4>3. \E p \in u[k - 1] \X SetToSeqs(OfVersion(h, k)) : s = p[1] \o p[2]
        BY <4>1, <4>2
      <4> QED
        BY <3>0, <4>3
    <3>2. p[1] \in u[v] /\ p[2] \in SetToSeqs(OfVersion(h, v + 1))
      OBVIOUS
    <3>3. PICK a, b : a = p[1] /\ b = p[2]
      OBVIOUS
    <3>4. IsOrderUpTo(h, v, a)
      BY <1>6, <3>2, <3>3
    <3> QED
      BY <2>1, <3>1, <3>2, <3>3, <3>4, OrderNext
  <2> QED
    BY <2>1, <2>2
<1> HIDE DEF T
<1>7. \A v \in 0..n : v \in T
  BY <1>2, <1>5, <1>6, Induction
<1>8. n \in T
  BY <1>2, <1>7
<1>9. IsOrderUpTo(h, n, o)
  BY <1>3, <1>8 DEF T
<1>10. PICK m \in Nat : m = Len(o)
  BY <1>9 DEF IsOrderUpTo
<1>11. /\ o \in [1..m -> 1..n] /\ DOMAIN o = 1..m
       /\ \A i, j \in 1..m : o[i] = o[j] => i = j
       /\ \A k \in 1..n : \E i \in 1..m : o[i] = k
       /\ \A i, j \in 1..m : i < j => h[o[i]].version <= h[o[j]].version
  <2>1. o \in [1..m -> 1..n] /\ DOMAIN o = 1..m
    BY <1>2, <1>9, <1>10 DEF IsOrderUpTo
  <2>2. \A k \in 1..n : h[k].version <= n
    BY <1>4
  <2>3. /\ \A i, j \in DOMAIN o : o[i] = o[j] => i = j
        /\ \A k \in DOMAIN h : h[k].version <= n => \E i \in DOMAIN o : o[i] = k
        /\ \A i, j \in DOMAIN o : i < j => h[o[i]].version <= h[o[j]].version
    BY <1>9 DEF IsOrderUpTo
  <2>4. \A k \in 1..n : \E i \in 1..m : o[i] = k
    BY <1>2, <2>1, <2>2, <2>3
  <2> QED
    BY <2>1, <2>3, <2>4
<1>12. m = n
  <2>1. o \in Bijection(1..m, 1..n)
    BY <1>11 DEF Bijection, Injection, Surjection, IsInjective
  <2>2. ExistsBijection(1..m, 1..n)
    BY <2>1 DEF ExistsBijection
  <2>3. IsFiniteSet(1..m) /\ Cardinality(1..m) = m
    BY <1>10, IntervalSize
  <2>4. Cardinality(1..n) = n
    BY <1>2, IntervalSize
  <2> QED
    BY <2>2, <2>3, <2>4, FS_Bijection
<1> QED
  BY <1>2, <1>11, <1>12 DEF IsOrder

-----------------------------------------------------------------------------
(***************************************************************************)
(* LoadsFromHistory as a function of the number of events: the state r[k]  *)
(* after the first k rows of h in the order o.                             *)
(***************************************************************************)
IsReplay(h, o, r) ==
  /\ r = [k \in 0..Len(o) |-> IF k = 0 THEN New ELSE Applied(r[k - 1], h[o[k]])]
  /\ Replayed(h, o) = r[Len(o)]

\* The events of the rows h in the order o.
InOrder(h, o) == [i \in 1..Len(h) |-> h[o[i]].event]

LEMMA OrderParts ==
  ASSUME NEW h \in Seq(Entries), NEW o, IsOrder(h, o), NEW n, n = Len(h)
  PROVE  /\ n \in Nat /\ DOMAIN h = 1..n /\ Len(o) = n
         /\ \A i \in 1..n : /\ o[i] \in 1..n /\ h[o[i]] \in Entries
                            /\ InOrder(h, o)[i] = h[o[i]].event
                            /\ InOrder(h, o)[i] \in Events
         /\ \A k \in 1..n : \E i \in 1..n : o[i] = k
         /\ \A i, j \in 1..n : i < j => h[o[i]].version <= h[o[j]].version
<1>1. n \in Nat /\ DOMAIN h = 1..n /\ \A k \in 1..n : h[k] \in Entries
  OBVIOUS
<1>2. o \in [1..n -> 1..n]
  BY DEF IsOrder
<1>3. Len(o) = n /\ \A i \in 1..n : o[i] \in 1..n
  BY <1>1, <1>2
<1>4. \A i \in 1..n : h[o[i]] \in Entries /\ InOrder(h, o)[i] = h[o[i]].event
  BY <1>1, <1>3 DEF InOrder
<1>5. \A i \in 1..n : InOrder(h, o)[i] \in Events
  BY <1>4 DEF Entries
<1> QED
  BY <1>1, <1>3, <1>4, <1>5 DEF IsOrder

\* Rows numbered from 1 come in the order in which they were committed.
Numbered(h) == \A k \in DOMAIN h : h[k].version = k

LEMMA NumberedInOrder ==
  ASSUME NEW h \in Seq(Entries), NEW o, IsOrder(h, o), Numbered(h)
  PROVE  InOrder(h, o) = EventsOf(h)
<1>1. PICK n : n = Len(h)
  OBVIOUS
<1>2. n \in Nat /\ DOMAIN h = 1..n /\ \A i \in 1..n : o[i] \in 1..n
  BY <1>1, OrderParts
<1>3. /\ \A k \in 1..n : \E i \in 1..n : o[i] = k
      /\ \A i, j \in 1..n : i < j => h[o[i]].version <= h[o[j]].version
      /\ \A i, j \in 1..n : o[i] = o[j] => i = j
  BY <1>1 DEF IsOrder
<1>4. \A k \in 1..n : h[k].version = k
  BY <1>2 DEF Numbered
<1>5. \A i, j \in 1..n : i < j => o[i] <= o[j]
  <2>1. \A i \in 1..n : h[o[i]].version = o[i]
    BY <1>2, <1>4
  <2>2. ASSUME NEW i \in 1..n, NEW j \in 1..n, i < j
        PROVE  o[i] <= o[j]
    <3>1. h[o[i]].version <= h[o[j]].version
      BY <1>3, <2>2
    <3> QED
      BY <2>1, <3>1
  <2> QED
    BY <2>2
<1>6. ASSUME NEW i \in 1..n, NEW j \in 1..n, o[i] = o[j]
      PROVE  i = j
  BY <1>3, <1>6
<1> DEFINE T == {i \in 1..n : o[i] # i}
<1>7. ASSUME T # {} PROVE FALSE
  <2>1. T \subseteq Nat
    OBVIOUS
  <2>2. PICK i \in T : \A m \in T : i <= m
    <3> HIDE DEF T
    <3> QED
      BY <1>7, <2>1, LeastElement
  <2>3. i \in 1..n /\ o[i] \in 1..n /\ o[i] # i
    BY <1>2, <2>2
  <2>4. \A j \in 1..n : j < i => o[j] = j
    <3>1. \A j \in 1..n : j < i => j \notin T
      BY <2>2, <2>3
    <3> QED
      BY <3>1
  <2>5. PICK p \in 1..n : o[p] = i
    BY <1>3, <2>3
  <2>6. ~(p < i)
    BY <2>3, <2>4, <2>5
  <2>7. p # i
    BY <2>3, <2>5
  <2>8. i < p
    BY <2>3, <2>6, <2>7
  <2>9. o[i] <= i
    BY <1>5, <2>3, <2>5, <2>8
  <2>10. PICK q \in 1..n : q = o[i] /\ q < i
    BY <2>3, <2>9
  <2>11. o[q] = o[i]
    BY <2>4, <2>10
  <2> QED
    BY <1>6, <2>3, <2>10, <2>11
<1>8. \A i \in 1..n : o[i] = i
  BY <1>7
<1> QED
  BY <1>1, <1>2, <1>8 DEF InOrder, EventsOf

LEMMA NumberedIfDiffer ==
  ASSUME NEW h \in Seq(Entries), VersionsOK(h),
         \A j, k \in DOMAIN h : h[j].version = h[k].version => j = k
  PROVE  Numbered(h)
<1>1. PICK n \in Nat : DOMAIN h = 1..n
  BY EventsOfType
<1>2. \A k \in 1..n : h[k].version \in 1..k
  BY <1>1 DEF VersionsOK
<1> DEFINE T == {k \in 1..n : h[k].version # k}
<1>3. T = {}
  <2>1. SUFFICES ASSUME T # {} PROVE FALSE
    OBVIOUS
  <2>2. T \subseteq Nat
    OBVIOUS
  <2>3. PICK k \in T : \A m \in T : k <= m
    <3> HIDE DEF T
    <3> QED
      BY <2>1, <2>2, LeastElement
  <2>4. k \in 1..n /\ h[k].version # k /\ \A j \in 1..n : j < k => h[j].version = j
    BY <2>3
  <2>5. PICK v : v = h[k].version
    OBVIOUS
  <2>6. v \in 1..n /\ v < k
    BY <1>2, <2>4, <2>5
  <2>7. h[v].version = h[k].version
    BY <2>4, <2>5, <2>6
  <2> QED
    BY <1>1, <2>4, <2>6, <2>7
<1> QED
  BY <1>1, <1>3 DEF Numbered

LEMMA NewIsAggregate == New \in Aggregates /\ New.groups = << >> /\ DOMAIN New.groups = {}
<1>1. DOMAIN << >> = {} /\ << >> \in [{} -> SUBSET Roles]
  OBVIOUS
<1>2. << >> \in Dictionaries
  BY <1>1, IsDictionary
<1> QED
  BY <1>1, <1>2 DEF New, Aggregates

LEMMA AppliedType ==
  ASSUME NEW s \in Aggregates, NEW entry \in Entries
  PROVE  /\ Applied(s, entry) \in Aggregates
         /\ IF s.loads /\ ~Throws(s, entry.event)
            THEN Follows(s, entry.event, Applied(s, entry)) /\ Applied(s, entry).loads
            ELSE ~Applied(s, entry).loads
<1>1. entry.event \in Events
  BY DEF Entries
<1>2. CASE s.loads /\ ~Throws(s, entry.event)
  <2>1. Applied(s, entry) = Effect(s, entry.event)
    BY <1>2 DEF Applied
  <2>2. Follows(s, entry.event, Applied(s, entry))
    BY <1>1, <1>2, <2>1, EffectSays
  <2>3. Applied(s, entry) \in Aggregates /\ Applied(s, entry).loads = s.loads
    BY <2>2 DEF Follows
  <2> QED
    BY <1>2, <2>2, <2>3
<1>3. CASE ~(s.loads /\ ~Throws(s, entry.event))
  <2>1. Applied(s, entry) = [s EXCEPT !.loads = FALSE]
    BY <1>3 DEF Applied
  <2>2. [s EXCEPT !.loads = FALSE] \in Aggregates /\ ~[s EXCEPT !.loads = FALSE].loads
    BY DEF Aggregates
  <2> QED
    BY <1>3, <2>1, <2>2
<1> QED
  BY <1>2, <1>3

LEMMA ReplayExists ==
  ASSUME NEW h \in Seq(Entries), NEW o, IsOrder(h, o)
  PROVE  \E r : IsReplay(h, o, r)
<1> DEFINE n == Len(h)
           step == [p \in (1..n) \X Aggregates |-> Applied(p[2], h[o[p[1]]])]
           IsIt(r) == r = [k \in 0..n |-> IF k = 0 THEN New ELSE Applied(r[k - 1], h[o[k]])]
<1>1. /\ n \in Nat /\ New \in Aggregates /\ Len(o) = n
      /\ \A k \in 1..n : h[o[k]] \in Entries
  BY NewIsAggregate, OrderParts
<1>2. step \in [(1..n) \X Aggregates -> Aggregates]
  <2>1. ASSUME NEW p \in (1..n) \X Aggregates
        PROVE  Applied(p[2], h[o[p[1]]]) \in Aggregates
    <3>1. p[1] \in 1..n /\ p[2] \in Aggregates
      OBVIOUS
    <3>2. h[o[p[1]]] \in Entries
      BY <1>1, <3>1
    <3> QED
      BY <3>1, <3>2, AppliedType
  <2> QED
    BY <2>1
<1>3. \A k \in 1..n : \A a \in Aggregates : step[<< k, a >>] = Applied(a, h[o[k]])
  OBVIOUS
<1>4. PICK f : IsRun(f, n, Aggregates, New, step)
  <2> HIDE DEF step, n
  <2> QED
    BY <1>1, <1>2, Recursion
<1>5. ASSUME NEW k \in 0..n
      PROVE  f[k] = IF k = 0 THEN New ELSE Applied(f[k - 1], h[o[k]])
  <2>1. CASE k = 0
    BY <1>4, <2>1 DEF IsRun
  <2>2. CASE k # 0
    <3>1. k \in 1..n /\ k - 1 \in 0..n
      BY <1>1, <2>2
    <3>2. f[k - 1] \in Aggregates
      BY <1>4, <3>1 DEF IsRun
    <3>3. f[k] = step[<< k, f[k - 1] >>]
      BY <1>4, <3>1 DEF IsRun
    <3>4. step[<< k, f[k - 1] >>] = Applied(f[k - 1], h[o[k]])
      BY <1>3, <3>1, <3>2
    <3> QED
      BY <2>2, <3>3, <3>4
  <2> QED
    BY <2>1, <2>2
<1>6. IsIt(f)
  BY <1>4, <1>5 DEF IsRun
<1>7. IsIt(CHOOSE r : IsIt(r))
  <2> HIDE DEF IsIt
  <2> QED
    BY <1>6
<1>8. Replayed(h, o) = (CHOOSE r : IsIt(r))[n]
  BY <1>1 DEF Replayed
<1> QED
  BY <1>1, <1>7, <1>8 DEF IsReplay

-----------------------------------------------------------------------------
(***************************************************************************)
(* An Apply method throws at the i-th of the events s: a group is created  *)
(* that is there, or one that is not is modified or given a role.          *)
(***************************************************************************)
Clash(s, i) ==
  \/ s[i].type = "GroupCreated" /\ GroupStands(s, i - 1, s[i].group)
  \/ s[i].type \in {"GroupModified", "GroupRoleAdded"} /\ ~GroupStands(s, i - 1, s[i].group)

Describes(s, k, x) ==
  /\ x.deleted <=> Stands(s, k, Ends, {})
  /\ \A r \in Roles : r \in x.roles <=> RoleStands(s, k, r)
  /\ \A g \in Groups : g \in DOMAIN x.groups <=> GroupStands(s, k, g)
  /\ \A g \in Groups, r \in Roles : Has(x.groups, g, r) <=> GroupRoleStands(s, k, g, r)

\* x is what the first k of the events s make of an aggregate.
Says(s, k, x) ==
  /\ x \in Aggregates
  /\ x.loads => Describes(s, k, x)
  /\ ~x.loads => \E i \in 1..k : Clash(s, i)

\* Before the first event.
LEMMA NewSays ==
  ASSUME NEW s
  PROVE  Says(s, 0, New)
<1>1. New \in Aggregates /\ DOMAIN New.groups = {}
  BY NewIsAggregate
<1>2. New.loads /\ ~New.deleted /\ New.roles = {}
  BY DEF New
<1>3. \A g, r : ~Has(New.groups, g, r)
  BY <1>1 DEF Has
<1>4. Describes(s, 0, New)
  BY <1>1, <1>2, <1>3, NothingStands
     DEF Describes, RoleStands, GroupStands, GroupRoleStands
<1> QED
  BY <1>1, <1>2, <1>4 DEF Says

LEMMA SaysNext ==
  ASSUME NEW s, NEW k \in Nat, NEW x, Says(s, k, x), NEW entry \in Entries,
         entry.event = s[k + 1]
  PROVE  Says(s, k + 1, Applied(x, entry))
<1>1. PICK y, e : y = Applied(x, entry) /\ e = s[k + 1]
  OBVIOUS
<1>2. x \in Aggregates /\ e \in Events
  BY <1>1 DEF Says, Entries
<1>3. /\ y \in Aggregates
      /\ IF x.loads /\ ~Throws(x, e) THEN Follows(x, e, y) /\ y.loads ELSE ~y.loads
  BY <1>1, <1>2, AppliedType
<1>4. ASSUME x.loads
      PROVE  Describes(s, k, x)
  BY <1>4 DEF Says
<1>5. ASSUME x.loads, ~Throws(x, e)
      PROVE  y.loads /\ Describes(s, k + 1, y)
  <2>1. Follows(x, e, y) /\ y.loads
    BY <1>3, <1>5
  <2>2. Describes(s, k, x)
    BY <1>4, <1>5
  <2>3. y.deleted <=> Stands(s, k + 1, Ends, {})
    <3>1. Stands(s, k + 1, Ends, {}) <=> e \in Ends \/ Stands(s, k, Ends, {})
      BY <1>1, StandsNext
    <3>2. y.deleted <=> x.deleted \/ e \in Ends
      BY <2>1 DEF Follows
    <3>3. x.deleted <=> Stands(s, k, Ends, {})
      BY <2>2 DEF Describes
    <3> QED
      BY <3>1, <3>2, <3>3
  <2>4. ASSUME NEW r \in Roles
        PROVE  r \in y.roles <=> RoleStands(s, k + 1, r)
    <3>1. RoleStands(s, k + 1, r) <=>
            e \in AddsRole(r) \/ (e \notin DeletesRole(r) /\ RoleStands(s, k, r))
      BY <1>1, StandsNext DEF RoleStands
    <3>2. r \in y.roles <=> e \in AddsRole(r) \/ (e \notin DeletesRole(r) /\ r \in x.roles)
      BY <2>1 DEF Follows
    <3>3. r \in x.roles <=> RoleStands(s, k, r)
      BY <2>2 DEF Describes
    <3> QED
      BY <3>1, <3>2, <3>3
  <2>5. ASSUME NEW g \in Groups
        PROVE  g \in DOMAIN y.groups <=> GroupStands(s, k + 1, g)
    <3>1. GroupStands(s, k + 1, g) <=>
            e \in CreatesGroup(g) \/ (e \notin DeletesGroup(g) /\ GroupStands(s, k, g))
      BY <1>1, StandsNext DEF GroupStands
    <3>2. g \in DOMAIN y.groups <=>
            e \in CreatesGroup(g) \/ (e \notin DeletesGroup(g) /\ g \in DOMAIN x.groups)
      BY <2>1 DEF Follows
    <3>3. g \in DOMAIN x.groups <=> GroupStands(s, k, g)
      BY <2>2 DEF Describes
    <3> QED
      BY <3>1, <3>2, <3>3
  <2>6. ASSUME NEW g \in Groups, NEW r \in Roles
        PROVE  Has(y.groups, g, r) <=> GroupRoleStands(s, k + 1, g, r)
    <3>1. GroupRoleStands(s, k + 1, g, r) <=>
            e \in GivesRole(g, r) \/ (e \notin TakesRole(g, r) /\ GroupRoleStands(s, k, g, r))
      BY <1>1, StandsNext DEF GroupRoleStands
    <3>2. Has(y.groups, g, r) <=>
            e \in GivesRole(g, r) \/ (e \notin TakesRole(g, r) /\ Has(x.groups, g, r))
      BY <2>1 DEF Follows
    <3>3. Has(x.groups, g, r) <=> GroupRoleStands(s, k, g, r)
      BY <2>2 DEF Describes
    <3> QED
      BY <3>1, <3>2, <3>3
  <2> QED
    BY <2>1, <2>3, <2>4, <2>5, <2>6 DEF Describes
<1>6. ASSUME x.loads, Throws(x, e)
      PROVE  Clash(s, k + 1)
  <2>1. e.group \in Groups
    BY <1>2, <1>6, EventParts DEF Throws
  <2>2. e.group \in DOMAIN x.groups <=> GroupStands(s, k, e.group)
    BY <1>4, <1>6, <2>1 DEF Describes
  <2>3. (k + 1) - 1 = k
    OBVIOUS
  <2> QED
    BY <1>1, <1>6, <2>2, <2>3 DEF Clash, Throws
<1>7. ASSUME ~y.loads
      PROVE  \E i \in 1..(k + 1) : Clash(s, i)
  <2>1. CASE x.loads
    <3>1. Throws(x, e)
      BY <1>5, <1>7, <2>1
    <3>2. k + 1 \in 1..(k + 1)
      OBVIOUS
    <3> QED
      BY <1>6, <2>1, <3>1, <3>2
  <2>2. CASE ~x.loads
    <3>1. PICK i \in 1..k : Clash(s, i)
      BY <2>2 DEF Says
    <3>2. i \in 1..(k + 1)
      OBVIOUS
    <3> QED
      BY <3>1, <3>2
  <2> QED
    BY <2>1, <2>2
<1>8. ASSUME y.loads
      PROVE  Describes(s, k + 1, y)
  BY <1>3, <1>5, <1>8
<1>9. Says(s, k + 1, y)
  BY <1>3, <1>7, <1>8 DEF Says
<1> QED
  BY <1>1, <1>9

\* LoadsFromHistory computes what the events say, in the order in which they come.
LEMMA ReplaySays ==
  ASSUME NEW h \in Seq(Entries), NEW o, IsOrder(h, o)
  PROVE  Says(InOrder(h, o), Len(h), Replayed(h, o))
<1>1. PICK r : IsReplay(h, o, r)
  BY ReplayExists
<1>2. PICK s, n : s = InOrder(h, o) /\ n = Len(h)
  OBVIOUS
<1>3. n \in Nat /\ Len(o) = n /\ \A i \in 1..n : h[o[i]] \in Entries /\ h[o[i]].event = s[i]
  BY <1>2, OrderParts
<1>4. /\ r[0] = New
      /\ \A k \in 1..n : r[k] = Applied(r[k - 1], h[o[k]])
      /\ Replayed(h, o) = r[n]
  BY <1>1, <1>3 DEF IsReplay
<1> DEFINE T == {k \in 0..n : Says(s, k, r[k])}
<1>5. 0 \in T
  BY <1>3, <1>4, NewSays
<1>6. ASSUME NEW k \in 0..n, k < n, k \in T
      PROVE  k + 1 \in T
  <2>1. k + 1 \in 1..n /\ (k + 1) - 1 = k /\ k \in Nat
    BY <1>3, <1>6
  <2>2. PICK entry : entry = h[o[k + 1]]
    OBVIOUS
  <2>3. entry \in Entries /\ entry.event = s[k + 1]
    BY <1>3, <2>1, <2>2
  <2>4. r[k + 1] = Applied(r[k], entry)
    BY <1>4, <2>1, <2>2
  <2>5. Says(s, k + 1, r[k + 1])
    BY <1>6, <2>1, <2>3, <2>4, SaysNext
  <2> QED
    BY <2>1, <2>5
<1> HIDE DEF T
<1>7. \A k \in 0..n : k \in T
  BY <1>3, <1>5, <1>6, Induction
<1>8. n \in T
  BY <1>3, <1>7
<1> QED
  BY <1>2, <1>4, <1>8 DEF T

-----------------------------------------------------------------------------
(***************************************************************************)
(* The invariant.  EntryOK: an event that needs its group or its role is   *)
(* only ever produced by a command that had loaded it, and a group is      *)
(* deleted only after its creation was published; no group is created      *)
(* twice.  VersionsOK (above): a row has a greater version than the rows   *)
(* that its command had loaded.  ShownOK: the views know only groups and   *)
(* roles whose events were published.  ListsOK: once the views have        *)
(* handled their queue, the lists are what the events s say, in the order  *)
(* in which they were published; OrderlyLists: as long as that is the      *)
(* order of the versions.                                                  *)
(***************************************************************************)

\* Among the first b rows of h, group g was created; and it was not deleted.
GroupMade(h, b, g) == \E i \in 1..b : h[i].event \in CreatesGroup(g)

GroupHeld(h, b, g) ==
  /\ GroupMade(h, b, g)
  /\ \A j \in 1..b : h[j].event \notin DeletesGroup(g)

\* Among them, role r was added, and not deleted with a greater version.
RoleHeld(h, b, r) ==
  \E i \in 1..b :
    /\ h[i].event \in AddsRole(r)
    /\ \A j \in 1..b : h[j].event \in DeletesRole(r) => h[j].version <= h[i].version

\* Event e of a command that had loaded the first b rows of h; l was lost.
EntryOK(h, l, b, e) ==
  /\ e.type # "ApplicationRoleDeleted"
  /\ e.type \in {"GroupModified", "GroupRoleAdded"} => GroupHeld(h, b, e.group)
  /\ e.type = "GroupRoleAdded" => RoleHeld(h, b, e.role)
  /\ e.type = "GroupDeleted" =>
       GroupMade(h, b, e.group) \/ Event("GroupCreated", e.group, NoRole) \in l

HistoryOK(h, l, n) ==
  \A k \in DOMAIN h :
    /\ EntryOK(h, l, h[k].basis, h[k].event)
    /\ h[k].event.type = "GroupCreated" =>
         /\ h[k].event.group < n
         /\ h[k].event \notin l
         /\ \A j \in DOMAIN h : h[j].event = h[k].event => j = k

ChangesOK(h, l, n, b, changes) ==
  \A k \in DOMAIN changes :
    /\ EntryOK(h, l, b, changes[k])
    /\ changes[k].type = "GroupCreated" =>
         /\ changes[k].group < n
         /\ changes[k] \notin l
         /\ \A j \in DOMAIN h : h[j].event # changes[k]
         /\ \A j \in DOMAIN changes : changes[j] = changes[k] => j = k

RequestOK(h, l, n, q) ==
  q.phase # "idle" =>
    /\ q.basis <= Len(h)
    /\ q.sent <= Len(q.changes) /\ 0 < Len(q.changes)
    /\ q.phase = "decided" => q.sent = 0
    /\ q.phase = "saving" =>
         q.version <= Len(h) /\ \A j \in 1..q.basis : h[j].version <= q.version
    /\ ChangesOK(h, l, n, q.basis, q.changes)

\* No two of the requests are about to create the same group.
Apart(q1, q2) ==
  q1.phase # "idle" /\ q2.phase # "idle" =>
    \A j \in DOMAIN q1.changes, k \in DOMAIN q2.changes :
      q1.changes[j].type = "GroupCreated" => q1.changes[j] # q2.changes[k]

RequestsOK ==
  /\ \A t \in Threads : RequestOK(history, lost, newGroup, request[t])
  /\ \A t, u \in Threads : t # u => Apart(request[t], request[u])

LostOK(l, n) == \A e \in l : e.type = "GroupCreated" => e.group < n

\* The request has inserted a row, and published its event.
Inserted(q) == q.phase = "saving" /\ 0 < q.sent

Published(e) ==
  \/ \E k \in DOMAIN history : history[k].event = e
  \/ e \in lost
  \/ \E t \in Threads : /\ Inserted(request[t])
                        /\ \E k \in 1..request[t].sent : request[t].changes[k] = e

ShownOK ==
  /\ \A k \in DOMAIN queue :
       queue[k].type \in {"GroupCreated", "RoleAdded"} => Published(queue[k])
  /\ \A g \in Groups : groupRow[g] # "absent" => Published(Event("GroupCreated", g, NoRole))
  /\ \A r \in Roles : roleRow[r] # "absent" => Published(Event("RoleAdded", NoGroup, r))

\* The events after which a role is not in the list of roles.
HidesRole(r) ==
  DeletesRole(r) \cup {Event("ApplicationRoleDeleted", NoGroup, r)} \cup Ends

ListsOK(s, q, groupIs, roleIs, pairs, lostRoles) ==
  ~Stands(s, Len(s), Ends, {}) =>
    /\ \A g \in Groups :
         Settles(q, groupIs[g] = "live", CreatesGroup(g), DeletesGroup(g) \cup Ends)
           <=> GroupStands(s, Len(s), g)
    /\ \A r \in Roles :
         Settles(q, roleIs[r] = "live", AddsRole(r), HidesRole(r)) => RoleStands(s, Len(s), r)
    /\ \A r \in Roles \ lostRoles :
         RoleStands(s, Len(s), r) => Settles(q, roleIs[r] = "live", AddsRole(r), HidesRole(r))
    /\ \A g \in Groups, r \in Roles \ lostRoles :
         GroupRoleStands(s, Len(s), g, r) =>
           Settles(q, << g, r >> \in pairs, GivesRole(g, r),
                   {Event("GroupRoleDeleted", g, r)} \cup HidesRole(r))

SentOf(q) == SubSeq(q.changes, 1, q.sent)

\* No save was rolled back, and no two of them overlapped: the rows are numbered
\* in the order of the commits, and whoever inserts now goes on from the last.
Orderly(h, l, rq) ==
  /\ l = {}
  /\ Numbered(h)
  /\ \A t \in Threads : Inserted(rq[t]) => rq[t].version = Len(h)
  /\ \A t, u \in Threads : Inserted(rq[t]) /\ Inserted(rq[u]) => t = u

OrderlyLists(h, l, rq, q, groupIs, roleIs, pairs, lostRoles) ==
  Orderly(h, l, rq) =>
    /\ \A t \in Threads :
         Inserted(rq[t]) => ListsOK(EventsOf(h) \o SentOf(rq[t]),
                                    q, groupIs, roleIs, pairs, lostRoles)
    /\ (\A t \in Threads : ~Inserted(rq[t])) =>
         ListsOK(EventsOf(h), q, groupIs, roleIs, pairs, lostRoles)

Inv ==
  /\ TypeOK
  /\ VersionsOK(history)
  /\ HistoryOK(history, lost, newGroup)
  /\ LostOK(lost, newGroup)
  /\ RequestsOK
  /\ ShownOK
  /\ OrderlyLists(history, lost, request, queue, groupRow, roleRow, used, gone)

-----------------------------------------------------------------------------
(***************************************************************************)
(* Commands and the events they produce.                                   *)
(***************************************************************************)
Commands ==
  [type : {"Delete"}, group : {NoGroup}, role : {NoRole}]
    \cup [type : {"RoleAdd", "RoleDelete"}, group : {NoGroup}, role : Roles]
    \cup [type : {"GroupCreate", "GroupModify", "GroupDelete"}, group : Groups, role : {NoRole}]
    \cup [type : {"GroupRoleAdd", "GroupRoleDelete"}, group : Groups, role : Roles]

EventTypes ==
  {"Deleted", "RoleAdded", "RoleDeleted", "DisconnectedFromApplication", "GroupCreated",
   "GroupModified", "GroupDeleted", "GroupRoleAdded", "GroupRoleDeleted"}

LEMMA OneType ==
  ASSUME NEW x \in EventTypes, NEW p, p = << x >>
  PROVE  /\ p \in Seq(EventTypes) /\ 0 < Len(p)
         /\ \A k \in DOMAIN p : p[k] = x /\ \A j \in DOMAIN p : j = k
<1>1. p \in Seq(EventTypes) /\ 0 < Len(p)
  OBVIOUS
<1>2. DOMAIN p = {1} /\ p[1] = x
  OBVIOUS
<1> QED
  BY <1>1, <1>2

LEMMA TwoTypes ==
  ASSUME NEW x \in EventTypes, NEW y \in EventTypes, NEW p, p = << x, y >>
  PROVE  /\ p \in Seq(EventTypes) /\ 0 < Len(p)
         /\ \A k \in DOMAIN p : p[k] \in {x, y}
<1>1. p \in Seq(EventTypes) /\ 0 < Len(p)
  OBVIOUS
<1>2. DOMAIN p = 1..2 /\ p[1] = x /\ p[2] = y
  OBVIOUS
<1>3. \A k \in 1..2 : k = 1 \/ k = 2
  OBVIOUS
<1> QED
  BY <1>1, <1>2, <1>3

\* The k-th of the types p is one that command c produces.
IsProduct(c, p, k) ==
  \/ c.type = "Delete" /\ p[k] = "Deleted"
  \/ c.type = "RoleAdd" /\ p[k] = "RoleAdded"
  \/ c.type = "RoleDelete" /\ p[k] \in {"RoleDeleted", "DisconnectedFromApplication"}
  \/ c.type = "GroupCreate" /\ p[k] = "GroupCreated" /\ \A j \in DOMAIN p : j = k
  \/ c.type = "GroupModify" /\ p[k] = "GroupModified"
  \/ c.type = "GroupDelete" /\ p[k] = "GroupDeleted"
  \/ c.type = "GroupRoleAdd" /\ p[k] = "GroupRoleAdded"
  \/ c.type = "GroupRoleDelete" /\ p[k] = "GroupRoleDeleted"

LEMMA ProducedTypes ==
  ASSUME NEW c \in Commands, NEW p, p = Produces[c.type]
  PROVE  /\ p \in Seq(EventTypes) /\ 0 < Len(p)
         /\ \A k \in DOMAIN p : IsProduct(c, p, k)
<1>1. CASE c.type = "Delete"
  <2>1. p = << "Deleted" >>
    BY <1>1 DEF Produces
  <2>2. "Deleted" \in EventTypes
    BY DEF EventTypes
  <2>3. /\ p \in Seq(EventTypes) /\ 0 < Len(p)
        /\ \A k \in DOMAIN p : p[k] = "Deleted" /\ \A j \in DOMAIN p : j = k
    BY <2>1, <2>2, OneType
  <2> QED
    BY <1>1, <2>3 DEF IsProduct
<1>2. CASE c.type = "RoleAdd"
  <2>1. p = << "RoleAdded" >>
    BY <1>2 DEF Produces
  <2>2. "RoleAdded" \in EventTypes
    BY DEF EventTypes
  <2>3. /\ p \in Seq(EventTypes) /\ 0 < Len(p)
        /\ \A k \in DOMAIN p : p[k] = "RoleAdded" /\ \A j \in DOMAIN p : j = k
    BY <2>1, <2>2, OneType
  <2> QED
    BY <1>2, <2>3 DEF IsProduct
<1>3. CASE c.type = "RoleDelete"
  <2>1. p = << "RoleDeleted", "DisconnectedFromApplication" >>
    BY <1>3 DEF Produces
  <2>2. "RoleDeleted" \in EventTypes /\ "DisconnectedFromApplication" \in EventTypes
    BY DEF EventTypes
  <2>3. /\ p \in Seq(EventTypes) /\ 0 < Len(p)
        /\ \A k \in DOMAIN p : p[k] \in {"RoleDeleted", "DisconnectedFromApplication"}
    BY <2>1, <2>2, TwoTypes
  <2> QED
    BY <1>3, <2>3 DEF IsProduct
<1>4. CASE c.type = "GroupCreate"
  <2>1. p = << "GroupCreated" >>
    BY <1>4 DEF Produces
  <2>2. "GroupCreated" \in EventTypes
    BY DEF EventTypes
  <2>3. /\ p \in Seq(EventTypes) /\ 0 < Len(p)
        /\ \A k \in DOMAIN p : p[k] = "GroupCreated" /\ \A j \in DOMAIN p : j = k
    BY <2>1, <2>2, OneType
  <2> QED
    BY <1>4, <2>3 DEF IsProduct
<1>5. CASE c.type = "GroupModify"
  <2>1. p = << "GroupModified" >>
    BY <1>5 DEF Produces
  <2>2. "GroupModified" \in EventTypes
    BY DEF EventTypes
  <2>3. /\ p \in Seq(EventTypes) /\ 0 < Len(p)
        /\ \A k \in DOMAIN p : p[k] = "GroupModified" /\ \A j \in DOMAIN p : j = k
    BY <2>1, <2>2, OneType
  <2> QED
    BY <1>5, <2>3 DEF IsProduct
<1>6. CASE c.type = "GroupDelete"
  <2>1. p = << "GroupDeleted" >>
    BY <1>6 DEF Produces
  <2>2. "GroupDeleted" \in EventTypes
    BY DEF EventTypes
  <2>3. /\ p \in Seq(EventTypes) /\ 0 < Len(p)
        /\ \A k \in DOMAIN p : p[k] = "GroupDeleted" /\ \A j \in DOMAIN p : j = k
    BY <2>1, <2>2, OneType
  <2> QED
    BY <1>6, <2>3 DEF IsProduct
<1>7. CASE c.type = "GroupRoleAdd"
  <2>1. p = << "GroupRoleAdded" >>
    BY <1>7 DEF Produces
  <2>2. "GroupRoleAdded" \in EventTypes
    BY DEF EventTypes
  <2>3. /\ p \in Seq(EventTypes) /\ 0 < Len(p)
        /\ \A k \in DOMAIN p : p[k] = "GroupRoleAdded" /\ \A j \in DOMAIN p : j = k
    BY <2>1, <2>2, OneType
  <2> QED
    BY <1>7, <2>3 DEF IsProduct
<1>8. CASE c.type = "GroupRoleDelete"
  <2>1. p = << "GroupRoleDeleted" >>
    BY <1>8 DEF Produces
  <2>2. "GroupRoleDeleted" \in EventTypes
    BY DEF EventTypes
  <2>3. /\ p \in Seq(EventTypes) /\ 0 < Len(p)
        /\ \A k \in DOMAIN p : p[k] = "GroupRoleDeleted" /\ \A j \in DOMAIN p : j = k
    BY <2>1, <2>2, OneType
  <2> QED
    BY <1>8, <2>3 DEF IsProduct
<1> QED
  BY <1>1, <1>2, <1>3, <1>4, <1>5, <1>6, <1>7, <1>8 DEF Commands

LEMMA ChangesOfCommand ==
  ASSUME NEW c \in Commands
  PROVE  /\ Changes(c) \in Seq(Events) /\ 0 < Len(Changes(c))
         /\ \A k \in DOMAIN Changes(c) :
              /\ Changes(c)[k].group = c.group
              /\ Changes(c)[k].role = c.role
              /\ Changes(c)[k].type # "ApplicationRoleDeleted"
              /\ Changes(c)[k].type = "GroupModified" => c.type = "GroupModify"
              /\ Changes(c)[k].type = "GroupRoleAdded" => c.type = "GroupRoleAdd"
              /\ Changes(c)[k].type = "GroupDeleted" => c.type = "GroupDelete"
              /\ Changes(c)[k].type = "GroupCreated" =>
                   c.type = "GroupCreate" /\ \A j \in DOMAIN Changes(c) : j = k
<1>1. PICK s, p : s = Changes(c) /\ p = Produces[c.type]
  OBVIOUS
<1>2. /\ p \in Seq(EventTypes) /\ 0 < Len(p) /\ s = [k \in DOMAIN p |-> Event(p[k], c.group, c.role)]
      /\ \A k \in DOMAIN p : IsProduct(c, p, k)
  BY <1>1, ProducedTypes DEF Changes
<1>3. ASSUME NEW k \in DOMAIN s
      PROVE  /\ s[k] \in Events
             /\ s[k].group = c.group
             /\ s[k].role = c.role
             /\ s[k].type # "ApplicationRoleDeleted"
             /\ s[k].type = "GroupModified" => c.type = "GroupModify"
             /\ s[k].type = "GroupRoleAdded" => c.type = "GroupRoleAdd"
             /\ s[k].type = "GroupDeleted" => c.type = "GroupDelete"
             /\ s[k].type = "GroupCreated" =>
                  c.type = "GroupCreate" /\ \A j \in DOMAIN s : j = k
  <2>1. k \in DOMAIN p /\ DOMAIN s = DOMAIN p /\ s[k] = Event(p[k], c.group, c.role)
    BY <1>2
  <2>2. IsProduct(c, p, k)
    BY <1>2, <2>1
  <2>3. /\ c.type = "Delete" => c.group = NoGroup /\ c.role = NoRole
        /\ c.type \in {"RoleAdd", "RoleDelete"} => c.group = NoGroup /\ c.role \in Roles
        /\ c.type \in {"GroupCreate", "GroupModify", "GroupDelete"} =>
             c.group \in Groups /\ c.role = NoRole
        /\ c.type \in {"GroupRoleAdd", "GroupRoleDelete"} => c.group \in Groups /\ c.role \in Roles
    BY DEF Commands
  <2>4. s[k].type = p[k] /\ s[k].group = c.group /\ s[k].role = c.role
    BY <2>1 DEF Event
  <2>5. s[k] \in Events
    BY <2>1, <2>2, <2>3 DEF Event, Events, IsProduct
  <2> QED
    BY <2>1, <2>2, <2>4, <2>5 DEF IsProduct
<1>4. DOMAIN s = 1..Len(p) /\ Len(p) \in Nat
  BY <1>2
<1>5. s \in Seq(Events) /\ Len(s) = Len(p)
  BY <1>2, <1>3, <1>4
<1> QED
  BY <1>1, <1>2, <1>3, <1>5

\* The pages post commands about groups and roles only.
LEMMA OfferedType ==
  ASSUME TypeOK
  PROVE  Offered \subseteq Commands
<1>1. /\ newGroup \in Int
      /\ used \subseteq Groups \X Roles
  BY DEF TypeOK
<1>2. ASSUME NEW c \in Offered
      PROVE  c \in Commands
  <2>1. CASE \/ c = Command("Delete", NoGroup, NoRole)
             \/ \E r \in Roles : c = Command("RoleAdd", NoGroup, r)
             \/ \E r \in Roles : c = Command("RoleDelete", NoGroup, r)
             \/ \E g \in Groups : c = Command("GroupCreate", g, NoRole)
    BY <2>1 DEF Command, Commands
  <2>2. CASE c \in [type : {"GroupModify", "GroupDelete"}, group : Groups, role : {NoRole}]
    BY <2>2 DEF Commands
  <2>3. CASE c \in [type : {"GroupRoleAdd"}, group : Groups, role : Roles]
    BY <2>3 DEF Commands
  <2>4. CASE \E u \in used : c = Command("GroupRoleDelete", u[1], u[2])
    <3>1. PICK u \in used : c = Command("GroupRoleDelete", u[1], u[2])
      BY <2>4
    <3>2. u[1] \in Groups /\ u[2] \in Roles
      BY <1>1
    <3> QED
      BY <3>1, <3>2 DEF Command, Commands
  <2> QED
    BY <1>2, <2>1, <2>2, <2>3, <2>4 DEF Offered
<1> QED
  BY <1>2

LEMMA OfferedGroup ==
  ASSUME TypeOK, NEW c \in Offered
  PROVE  /\ c.type = "GroupCreate" => c.group = newGroup /\ newGroup \in Groups
         /\ c.type \in {"GroupModify", "GroupDelete", "GroupRoleAdd"} =>
              c.group \in Groups /\ groupRow[c.group] # "absent"
         /\ c.type = "GroupRoleAdd" => c.role \in Roles /\ roleRow[c.role] # "absent"
BY DEF Offered, Command

-----------------------------------------------------------------------------
(***************************************************************************)
(* Types.                                                                  *)
(***************************************************************************)
Busy ==
  [phase : {"decided", "saving"}, changes : Seq(Events), basis : Nat, version : Nat, sent : Nat]

LEMMA TypeParts ==
  ASSUME TypeOK
  PROVE  /\ history \in Seq(Entries)
         /\ request \in [Threads -> {Idle} \cup Busy]
         /\ queue \in Seq(Events)
BY DEF TypeOK, Entries, Busy

LEMMA RequestParts ==
  ASSUME TypeOK, NEW t \in Threads
  PROVE  /\ request[t] = Idle <=> request[t].phase = "idle"
         /\ request[t].phase # "idle" =>
              /\ request[t] \in Busy
              /\ request[t].phase \in {"decided", "saving"}
              /\ request[t].changes \in Seq(Events)
              /\ request[t].basis \in Nat
              /\ request[t].version \in Nat
              /\ request[t].sent \in Nat
<1>1. request[t] \in {Idle} \cup Busy
  BY TypeParts
<1>2. Idle.phase = "idle"
  BY DEF Idle
<1>3. ASSUME request[t] \in Busy
      PROVE  /\ request[t].phase \in {"decided", "saving"}
             /\ request[t].changes \in Seq(Events)
             /\ request[t].basis \in Nat
             /\ request[t].version \in Nat
             /\ request[t].sent \in Nat
  BY <1>3 DEF Busy
<1> QED
  BY <1>1, <1>2, <1>3

\* A request of a thread is replaced by another.
LEMMA RequestType ==
  ASSUME TypeOK, NEW t \in Threads, NEW q \in {Idle} \cup Busy
  PROVE  [request EXCEPT ![t] = q] \in
           [Threads ->
              {Idle} \cup [phase : {"decided", "saving"}, changes : Seq(Events),
                           basis : Nat, version : Nat, sent : Nat]]
BY TypeParts DEF Busy

LEMMA BeginType ==
  ASSUME TypeOK, NEW t \in Threads, CanBegin(t), NEW c \in Offered, Begin(c)
  PROVE  begun' \in 0..MaxCommands /\ newGroup' \in 1..(MaxGroups + 1)
<1>1. /\ begun \in 0..MaxCommands /\ newGroup \in 1..(MaxGroups + 1)
      /\ MaxCommands \in Nat /\ MaxGroups \in Nat
  BY OrganizationAssumption DEF TypeOK
<1>2. /\ begun < MaxCommands /\ begun' = begun + 1
      /\ newGroup' = IF c.type = "GroupCreate" THEN newGroup + 1 ELSE newGroup
  BY DEF CanBegin, Begin
<1>3. c.type = "GroupCreate" => newGroup <= MaxGroups
  BY <1>1, <1>2, OfferedGroup DEF Groups
<1> QED
  BY <1>1, <1>2, <1>3

\* The request that command c makes, decided on n rows.
Decided(c, n) ==
  [phase |-> "decided", changes |-> Changes(c), basis |-> n, version |-> 0, sent |-> 0]

LEMMA DecideType ==
  ASSUME TypeOK, NEW t \in Threads, CanBegin(t), NEW x, NEW c \in Offered, Decide(t, x, c)
  PROVE  TypeOK'
<1>1. begun' \in 0..MaxCommands /\ newGroup' \in 1..(MaxGroups + 1)
  BY BeginType DEF Decide
<1>2. c \in Commands
  BY OfferedType
<1>3. PICK q : q = Decided(c, Len(history))
  OBVIOUS
<1>4. Len(history) \in Nat
  BY TypeParts
<1>5. Changes(c) \in Seq(Events)
  BY <1>2, ChangesOfCommand
<1>6. q \in Busy
  BY <1>3, <1>4, <1>5 DEF Busy, Decided
<1>7. request' = [request EXCEPT ![t] = q]
  BY <1>3 DEF Decide, Decided
<1>8. request' \in [Threads -> {Idle} \cup [phase : {"decided", "saving"}, changes : Seq(Events),
                                            basis : Nat, version : Nat, sent : Nat]]
  BY <1>6, <1>7, RequestType
<1> QED
  BY <1>1, <1>8 DEF TypeOK, Decide, views

LEMMA RefuseType ==
  ASSUME TypeOK, NEW t \in Threads, CanBegin(t), NEW x, NEW c \in Offered, Refuse(t, x, c)
  PROVE  TypeOK'
<1>1. begun' \in 0..MaxCommands /\ newGroup' \in 1..(MaxGroups + 1)
  BY BeginType DEF Refuse
<1> QED
  BY <1>1 DEF TypeOK, Refuse, views

\* The greatest of some numbers.
LEMMA MaxOf ==
  ASSUME NEW n \in Nat, NEW S, S \subseteq 0..n, 0 \in S
  PROVE  Max(S) \in S /\ \A y \in S : y <= Max(S)
<1> DEFINE Above == {m \in 0..n : \A y \in S : y <= m}
<1>1. n \in Above
  OBVIOUS
<1>2. Above \subseteq Nat
  OBVIOUS
<1>3. PICK m \in Above : \A k \in Above : m <= k
  <2> HIDE DEF Above
  <2> QED
    BY <1>1, <1>2, LeastElement
<1>4. m \in 0..n /\ \A y \in S : y <= m
  BY <1>3
<1>5. ASSUME m \notin S
      PROVE  FALSE
  <2>1. m # 0
    BY <1>5
  <2>2. m - 1 \in 0..n
    BY <1>4, <2>1
  <2>3. \A y \in S : y <= m - 1
    BY <1>4, <1>5
  <2>4. m <= m - 1
    BY <1>3, <2>2, <2>3
  <2> QED
    BY <1>4, <2>4
<1>6. \E x \in S : \A y \in S : x >= y
  BY <1>4, <1>5
<1>7. Max(S) \in S /\ \A y \in S : Max(S) >= y
  BY <1>6 DEF Max
<1> QED
  BY <1>4, <1>7

\* What SELECT ... ORDER BY Version DESC returns.
LEMMA LastVersionIs ==
  ASSUME history \in Seq(Entries), VersionsOK(history), NEW n, n = Len(history)
  PROVE  /\ LastVersion \in Nat /\ LastVersion <= n
         /\ \A k \in 1..n : history[k].version <= LastVersion
<1>1. n \in Nat /\ DOMAIN history = 1..n /\ \A k \in 1..n : history[k].version \in Nat
  BY EventsOfType
<1>2. \A k \in 1..n : history[k].version <= n
  BY <1>1 DEF VersionsOK
<1> DEFINE S == {0} \cup {history[k].version : k \in 1..n}
<1>3. S \subseteq 0..n /\ 0 \in S
  BY <1>1, <1>2
<1>4. \A k \in 1..n : history[k].version \in S
  OBVIOUS
<1>5. LastVersion = Max(S)
  BY <1>1 DEF LastVersion
<1> HIDE DEF S
<1>6. Max(S) \in S /\ \A y \in S : y <= Max(S)
  BY <1>1, <1>3, MaxOf
<1>7. Max(S) \in 0..n
  BY <1>3, <1>6
<1> QED
  BY <1>1, <1>4, <1>5, <1>6, <1>7

\* SaveEvents reads the last version: the request stays one of Busy.
LEMMA ReadVersionType ==
  ASSUME TypeOK, VersionsOK(history), NEW t \in Threads, ReadVersion(t)
  PROVE  TypeOK'
<1>1. request[t] \in Busy
  BY RequestParts DEF ReadVersion
<1>2. PICK q, v : /\ v = LastVersion
                  /\ q = [request[t] EXCEPT !.phase = "saving", !.version = v]
  OBVIOUS
<1>3. v \in Nat
  BY <1>2, TypeParts, LastVersionIs
<1>4. q \in Busy
  BY <1>1, <1>2, <1>3 DEF Busy
<1>5. request' = [request EXCEPT ![t] = q]
  BY <1>2 DEF ReadVersion
<1>6. request' \in [Threads -> {Idle} \cup [phase : {"decided", "saving"}, changes : Seq(Events),
                                            basis : Nat, version : Nat, sent : Nat]]
  BY <1>4, <1>5, RequestType
<1> QED
  BY <1>6 DEF TypeOK, ReadVersion, views

LEMMA InsertEventType ==
  ASSUME TypeOK, NEW t \in Threads, InsertEvent(t)
  PROVE  TypeOK'
<1>1. request[t] \in Busy /\ request[t].changes \in Seq(Events) /\ request[t].sent \in Nat
  BY RequestParts DEF InsertEvent
<1>2. PICK q : q = [request[t] EXCEPT !.sent = @ + 1]
  OBVIOUS
<1>3. q \in Busy
  BY <1>1, <1>2 DEF Busy
<1>4. request' = [request EXCEPT ![t] = q]
  BY <1>2 DEF InsertEvent
<1>5. request' \in [Threads -> {Idle} \cup [phase : {"decided", "saving"}, changes : Seq(Events),
                                            basis : Nat, version : Nat, sent : Nat]]
  BY <1>3, <1>4, RequestType
<1>6. PICK e : e = request[t].changes[request[t].sent + 1]
  OBVIOUS
<1>7. e \in Events
  <2>1. request[t].sent + 1 \in 1..Len(request[t].changes)
    BY <1>1 DEF InsertEvent
  <2> QED
    BY <1>1, <1>6, <2>1
<1>8. queue' \in Seq(Events)
  BY <1>6, <1>7, TypeParts DEF InsertEvent
<1> QED
  BY <1>5, <1>8 DEF TypeOK, InsertEvent, views

LEMMA CommittedType ==
  ASSUME NEW q, q.changes \in Seq(Events), q.basis \in Nat, q.version \in Nat
  PROVE  /\ Committed(q) \in Seq(Entries)
         /\ Len(Committed(q)) = Len(q.changes) /\ Len(q.changes) \in Nat
         /\ DOMAIN Committed(q) = DOMAIN q.changes /\ DOMAIN q.changes = 1..Len(q.changes)
         /\ \A k \in DOMAIN q.changes : /\ Committed(q)[k].event = q.changes[k]
                                        /\ Committed(q)[k].basis = q.basis
                                        /\ Committed(q)[k].version = q.version + k
<1>1. DOMAIN q.changes = 1..Len(q.changes) /\ Len(q.changes) \in Nat
  OBVIOUS
<1> DEFINE Row(k) == [event |-> q.changes[k], version |-> q.version + k, basis |-> q.basis]
<1>2. \A k \in 1..Len(q.changes) : Row(k) \in Entries
  BY DEF Entries
<1>3. Committed(q) = [k \in 1..Len(q.changes) |-> Row(k)]
  BY <1>1 DEF Committed
<1>4. Committed(q) \in Seq(Entries) /\ Len(Committed(q)) = Len(q.changes)
  <2> HIDE DEF Row
  <2> QED
    BY <1>1, <1>2, <1>3
<1> QED
  BY <1>1, <1>3, <1>4

LEMMA CommitType ==
  ASSUME TypeOK, NEW t \in Threads, Commit(t)
  PROVE  TypeOK'
<1>1. /\ request[t].changes \in Seq(Events) /\ request[t].basis \in Nat
      /\ request[t].version \in Nat
  BY RequestParts DEF Commit
<1>2. PICK new : new = Committed(request[t])
  OBVIOUS
<1>3. new \in Seq(Entries)
  BY <1>1, <1>2, CommittedType
<1>4. history' = history \o new
  BY <1>2 DEF Commit
<1>5. history' \in Seq([event : Events, version : Nat, basis : Nat])
  BY <1>3, <1>4, TypeParts DEF Entries
<1>6. request' \in [Threads -> {Idle} \cup [phase : {"decided", "saving"}, changes : Seq(Events),
                                            basis : Nat, version : Nat, sent : Nat]]
  BY RequestType DEF Commit
<1> QED
  BY <1>5, <1>6 DEF TypeOK, Commit, views

LEMMA RollbackType ==
  ASSUME TypeOK, NEW t \in Threads, RequestOK(history, lost, newGroup, request[t]), Rollback(t)
  PROVE  TypeOK'
<1>1. request[t].phase # "idle"
  BY RequestParts DEF Rollback
<1>2. /\ request[t].changes \in Seq(Events) /\ request[t].sent \in Nat
      /\ request[t].sent <= Len(request[t].changes)
  BY <1>1, RequestParts DEF RequestOK
<1>3. \A k \in 1..request[t].sent : request[t].changes[k] \in Events
  BY <1>2
<1>4. lost' \subseteq Events
  BY <1>3 DEF Rollback, TypeOK
<1>5. request' \in [Threads -> {Idle} \cup [phase : {"decided", "saving"}, changes : Seq(Events),
                                            basis : Nat, version : Nat, sent : Nat]]
  BY RequestType DEF Rollback
<1> QED
  BY <1>4, <1>5 DEF TypeOK, Rollback, views

LEMMA DeleteApplicationRoleType ==
  ASSUME TypeOK, NEW r \in Roles, DeleteApplicationRole(r)
  PROVE  TypeOK'
<1>1. PICK e : e = Event("ApplicationRoleDeleted", NoGroup, r)
  OBVIOUS
<1>2. e \in Events
  BY <1>1 DEF Event, Events
<1>3. queue' \in Seq(Events)
  BY <1>1, <1>2, TypeParts DEF DeleteApplicationRole
<1>4. gone' \subseteq Roles
  BY DEF DeleteApplicationRole, TypeOK
<1> QED
  BY <1>3, <1>4 DEF TypeOK, DeleteApplicationRole, views

LEMMA HandleEventType ==
  ASSUME TypeOK, HandleEvent
  PROVE  TypeOK'
<1>1. PICK e : e = Head(queue)
  OBVIOUS
<1>2. e \in Events /\ queue' \in Seq(Events)
  BY <1>1, TypeParts DEF HandleEvent
<1>3. /\ roleRow \in [Roles -> RowStates] /\ groupRow \in [Groups -> RowStates]
      /\ used \subseteq Groups \X Roles
  BY DEF TypeOK
<1>4. \A row : Marked(row) \in RowStates /\ RoleRowAdded(row) \in RowStates
  BY DEF Marked, RoleRowAdded, RowStates
<1>5. roleRow' \in [Roles -> RowStates]
  <2>1. \/ roleRow' = roleRow
        \/ roleRow' = [roleRow EXCEPT ![e.role] = RoleRowAdded(@)]
        \/ roleRow' = [roleRow EXCEPT ![e.role] = Marked(@)]
        \/ roleRow' = [r \in Roles |-> Marked(roleRow[r])]
    BY <1>1 DEF HandleEvent, RolesViewHandles
  <2> QED
    BY <1>3, <1>4, <2>1
<1>6. groupRow' \in [Groups -> RowStates]
  <2>1. \/ groupRow' = groupRow
        \/ groupRow' = [groupRow EXCEPT ![e.group] = "live"]
        \/ groupRow' = [groupRow EXCEPT ![e.group] = Marked(@)]
        \/ groupRow' = [g \in Groups |-> Marked(groupRow[g])]
    BY <1>1 DEF HandleEvent, GroupsViewHandles
  <2>2. "live" \in RowStates
    BY DEF RowStates
  <2> QED
    BY <1>3, <1>4, <2>1, <2>2
<1>7. used' \subseteq Groups \X Roles
  <2>1. \/ used' \subseteq used
        \/ e.type = "GroupRoleAdded" /\ used' = used \cup {<< e.group, e.role >>}
    BY <1>1 DEF HandleEvent, GroupRolesViewHandles
  <2> QED
    BY <1>2, <1>3, <2>1, EventParts
<1> QED
  BY <1>2, <1>5, <1>6, <1>7 DEF TypeOK, HandleEvent

-----------------------------------------------------------------------------
(***************************************************************************)
(* The initial states.                                                     *)
(***************************************************************************)

\* A finite set as a sequence.
LEMMA Listed ==
  ASSUME NEW S, IsFiniteSet(S)
  PROVE  /\ SetToSeq(S) \in Seq(S)
         /\ DOMAIN SetToSeq(S) = 1..Len(SetToSeq(S))
         /\ Len(SetToSeq(S)) \in Nat
         /\ \A x \in S : \E i \in DOMAIN SetToSeq(S) : SetToSeq(S)[i] = x
<1> DEFINE n == Cardinality(S)
           Good(f) == f \in [1..n -> S] /\ IsInjective(f)
<1>1. n \in Nat /\ ExistsBijection(1..n, S)
  BY FS_CardinalityType
<1>2. PICK b : b \in Injection(1..n, S)
  BY <1>1 DEF ExistsBijection, Bijection
<1>3. Good(b)
  BY <1>2 DEF Injection
<1>4. PICK f : f = SetToSeq(S)
  OBVIOUS
<1>5. f = CHOOSE x \in [1..n -> S] : IsInjective(x)
  BY <1>4 DEF SetToSeq
<1>6. Good(f)
  BY <1>3, <1>5
<1>7. f \in Injection(1..n, S)
  BY <1>6 DEF Injection
<1>8. f \in Surjection(1..n, S)
  <2>1. IsFiniteSet(1..n) /\ Cardinality(1..n) = n
    BY <1>1, FS_Interval
  <2> HIDE DEF n
  <2> QED
    BY <1>7, <2>1, FS_Injection DEF n
<1>9. \A x \in S : \E i \in 1..n : f[i] = x
  BY <1>8 DEF Surjection
<1>10. f \in Seq(S) /\ DOMAIN f = 1..n /\ Len(f) = n
  BY <1>1, <1>6
<1> QED
  BY <1>1, <1>4, <1>9, <1>10

\* The events s that make an organization with these roles, n groups and pairs.
IsStart(s, a, n, roles, pairs) ==
  /\ s \in Seq(Events)
  /\ a \in Nat /\ n \in Nat /\ a + n <= Len(s)
  /\ \A k \in 1..Len(s) :
       \/ k <= a /\ \E r \in roles : s[k] = Event("RoleAdded", NoGroup, r)
       \/ a < k /\ k <= a + n /\ s[k] = Event("GroupCreated", k - a, NoRole)
       \/ a + n < k /\ \E u \in pairs : s[k] = Event("GroupRoleAdded", u[1], u[2])
  /\ \A r \in roles : \E k \in 1..a : s[k] = Event("RoleAdded", NoGroup, r)

\* What Start puts into the history.
LEMMA StartEvents ==
  ASSUME NEW n \in {0, MaxGroups}, NEW roles \in {{}, Roles},
         NEW pairs \in {{}, (1..n) \X roles}, Start(n, roles, pairs)
  PROVE  \E s, a : IsStart(s, a, n, roles, pairs) /\ history = Made(s)
<1> DEFINE added == {Event("RoleAdded", NoGroup, r) : r \in roles}
           given == {Event("GroupRoleAdded", u[1], u[2]) : u \in pairs}
<1>1. n \in Nat /\ n <= MaxGroups /\ IsFiniteSet(Roles) /\ MaxGroups \in Nat
  BY OrganizationAssumption
<1>2. IsFiniteSet(roles) /\ roles \subseteq Roles
  BY <1>1, FS_EmptySet
<1>3. IsFiniteSet(pairs) /\ pairs \subseteq Groups \X Roles
  <2>1. IsFiniteSet(1..n)
    BY <1>1, FS_Interval
  <2>2. IsFiniteSet((1..n) \X roles)
    BY <1>2, <2>1, FS_Product
  <2>3. 1..n \subseteq Groups
    BY <1>1 DEF Groups
  <2> QED
    BY <1>2, <2>2, <2>3, FS_EmptySet
<1>4. IsFiniteSet(added)
  <2>1. PICK f : f = [r \in roles |-> Event("RoleAdded", NoGroup, r)]
    OBVIOUS
  <2>2. f \in Surjection(roles, added)
    BY <2>1 DEF Surjection
  <2> HIDE DEF added
  <2> QED
    BY <1>2, <2>2, FS_Surjection
<1>5. IsFiniteSet(given)
  <2>1. PICK f : f = [u \in pairs |-> Event("GroupRoleAdded", u[1], u[2])]
    OBVIOUS
  <2>2. f \in Surjection(pairs, given)
    BY <2>1 DEF Surjection
  <2> HIDE DEF given
  <2> QED
    BY <1>3, <2>2, FS_Surjection
<1>6. PICK x, y, z : /\ x = SetToSeq(added)
                     /\ y = [g \in 1..n |-> Event("GroupCreated", g, NoRole)]
                     /\ z = SetToSeq(given)
  OBVIOUS
<1>7. /\ x \in Seq(added) /\ z \in Seq(given)
      /\ DOMAIN x = 1..Len(x) /\ Len(x) \in Nat
      /\ DOMAIN z = 1..Len(z) /\ Len(z) \in Nat
      /\ \A e \in added : \E i \in DOMAIN x : x[i] = e
  <2> HIDE DEF added, given
  <2> QED
    BY <1>4, <1>5, <1>6, Listed
<1>8. added \subseteq Events /\ given \subseteq Events
  BY <1>2, <1>3 DEF Event, Events
<1>9. \A g \in 1..n : Event("GroupCreated", g, NoRole) \in Events
  BY <1>1 DEF Event, Events, Groups
<1> HIDE DEF added, given
<1>10. y \in Seq(Events) /\ Len(y) = n
  BY <1>1, <1>6, <1>9
<1>11. x \in Seq(Events) /\ z \in Seq(Events)
  BY <1>7, <1>8
<1>12. PICK s, a : s = x \o y \o z /\ a = Len(x)
  OBVIOUS
<1>13. /\ s \in Seq(Events) /\ a \in Nat /\ Len(s) = a + n + Len(z)
       /\ \A k \in 1..a : s[k] = x[k]
       /\ \A k \in (a + 1)..(a + n) : s[k] = y[k - a]
       /\ \A k \in (a + n + 1)..(a + n + Len(z)) : s[k] = z[k - (a + n)]
  <2>1. s \in Seq(Events) /\ IsJoin(s, x, y, z)
    BY <1>10, <1>11, <1>12, JoinedThree
  <2>2. a \in Nat /\ Len(x) = a /\ Len(y) = n
    BY <1>7, <1>10, <1>12
  <2> QED
    BY <2>1, <2>2 DEF IsJoin
<1>14. ASSUME NEW k \in 1..Len(s)
       PROVE  \/ k <= a /\ \E r \in roles : s[k] = Event("RoleAdded", NoGroup, r)
              \/ a < k /\ k <= a + n /\ s[k] = Event("GroupCreated", k - a, NoRole)
              \/ a + n < k /\ \E u \in pairs : s[k] = Event("GroupRoleAdded", u[1], u[2])
  <2>1. CASE k <= a
    <3>1. k \in 1..a
      BY <1>13, <2>1
    <3>2. x[k] \in added
      BY <1>7, <1>12, <3>1
    <3>3. s[k] \in added
      BY <1>13, <3>1, <3>2
    <3> QED
      BY <2>1, <3>3 DEF added
  <2>2. CASE a < k /\ k <= a + n
    <3>1. k \in (a + 1)..(a + n) /\ k - a \in 1..n
      BY <1>1, <1>13, <2>2
    <3>2. s[k] = Event("GroupCreated", k - a, NoRole)
      BY <1>6, <1>13, <3>1
    <3> QED
      BY <2>2, <3>2
  <2>3. CASE a + n < k
    <3>1. k \in (a + n + 1)..(a + n + Len(z)) /\ k - (a + n) \in 1..Len(z)
      BY <1>1, <1>7, <1>13, <2>3
    <3>2. z[k - (a + n)] \in given
      BY <1>7, <3>1
    <3>3. s[k] \in given
      BY <1>13, <3>1, <3>2
    <3> QED
      BY <2>3, <3>3 DEF given
  <2>4. k <= a \/ (a < k /\ k <= a + n) \/ a + n < k
    BY <1>1, <1>13
  <2> QED
    BY <2>1, <2>2, <2>3, <2>4
<1>15. ASSUME NEW r \in roles
       PROVE  \E k \in 1..a : s[k] = Event("RoleAdded", NoGroup, r)
  <2>1. Event("RoleAdded", NoGroup, r) \in added
    BY DEF added
  <2> QED
    BY <1>7, <1>12, <1>13, <2>1
<1>16. a + n <= Len(s)
  BY <1>1, <1>7, <1>13
<1>17. IsStart(s, a, n, roles, pairs)
  <2>1. s \in Seq(Events) /\ a \in Nat /\ n \in Nat
    BY <1>1, <1>13
  <2> QED
    BY <1>14, <1>15, <1>16, <2>1 DEF IsStart
<1>18. history = Made(s)
  BY <1>6, <1>12 DEF Start, added, given
<1> QED
  BY <1>17, <1>18

\* Where nothing is taken away, what was put there stands.
LEMMA StandsIfKept ==
  ASSUME NEW s, NEW k \in Nat, NEW on, NEW off, \A i \in 1..k : s[i] \notin off
  PROVE  Stands(s, k, on, off) <=> \E i \in 1..k : s[i] \in on
<1>1. \A i \in 1..k : \A j \in (i + 1)..k : j \in 1..k
  OBVIOUS
<1> QED
  BY <1>1 DEF Stands

LEMMA StartStands ==
  ASSUME NEW n \in Nat, NEW roles \in SUBSET Roles, NEW pairs \in SUBSET ((1..n) \X roles),
         n <= MaxGroups, NEW s, NEW a, IsStart(s, a, n, roles, pairs),
         NEW k \in (a + n)..Len(s)
  PROVE  /\ ~Stands(s, k, Ends, {})
         /\ \A g \in Groups : GroupStands(s, k, g) <=> g <= n
         /\ \A r \in Roles : RoleStands(s, k, r) <=> r \in roles
         /\ \A g \in Groups, r \in Roles : GroupRoleStands(s, k, g, r) => << g, r >> \in pairs
<1>1. /\ a \in Nat /\ k \in Nat /\ Len(s) \in Nat /\ MaxGroups \in Nat
      /\ s \in Seq(Events)
  BY OrganizationAssumption DEF IsStart
<1>2. ASSUME NEW i \in 1..k
      PROVE  /\ s[i] \in Events
             /\ \/ i <= a /\ \E r \in roles : s[i] = Event("RoleAdded", NoGroup, r)
                \/ a < i /\ i <= a + n /\ s[i] = Event("GroupCreated", i - a, NoRole)
                \/ a + n < i /\ \E u \in pairs : s[i] = Event("GroupRoleAdded", u[1], u[2])
  <2>1. i \in 1..Len(s)
    BY <1>1
  <2> QED
    BY <1>1, <2>1 DEF IsStart
<1>3. \A i \in 1..k : s[i].type \in {"RoleAdded", "GroupCreated", "GroupRoleAdded"}
  BY <1>2, EventFields
<1>4. ~Stands(s, k, Ends, {})
  BY <1>2, <1>3, EndEvents DEF Stands
<1>5. ASSUME NEW g \in Groups
      PROVE  GroupStands(s, k, g) <=> g <= n
  <2>1. \A i \in 1..k : s[i] \notin DeletesGroup(g)
    BY <1>2, <1>3, GroupEvents
  <2>2. GroupStands(s, k, g) <=> \E i \in 1..k : s[i] \in CreatesGroup(g)
    BY <1>1, <2>1, StandsIfKept DEF GroupStands
  <2>3. ASSUME g <= n
        PROVE  \E i \in 1..k : s[i] \in CreatesGroup(g)
    <3>1. /\ a + g \in 1..k /\ a < a + g /\ a + g <= a + n /\ (a + g) - a = g
          /\ ~(a + g <= a) /\ ~(a + n < a + g)
      BY <1>1, <2>3 DEF Groups
    <3>2. s[a + g] = Event("GroupCreated", g, NoRole)
      BY <1>2, <3>1
    <3> QED
      BY <3>1, <3>2 DEF CreatesGroup
  <2>4. ASSUME NEW i \in 1..k, s[i] \in CreatesGroup(g)
        PROVE  g <= n
    <3>1. s[i] \in Events
      BY <1>2
    <3>2. s[i].type = "GroupCreated" /\ s[i].group = g
      BY <2>4, <3>1, GroupEvents
    <3>3. a < i /\ i <= a + n /\ s[i] = Event("GroupCreated", i - a, NoRole)
      BY <1>2, <3>2, EventFields
    <3>4. g = i - a
      BY <3>2, <3>3, EventFields
    <3> QED
      BY <1>1, <3>3, <3>4
  <2> QED
    BY <2>2, <2>3, <2>4
<1>6. ASSUME NEW r \in Roles
      PROVE  RoleStands(s, k, r) <=> r \in roles
  <2>1. \A i \in 1..k : s[i] \notin DeletesRole(r)
    BY <1>2, <1>3, RoleEvents
  <2>2. RoleStands(s, k, r) <=> \E i \in 1..k : s[i] \in AddsRole(r)
    BY <1>1, <2>1, StandsIfKept DEF RoleStands
  <2>3. ASSUME r \in roles
        PROVE  \E i \in 1..k : s[i] \in AddsRole(r)
    <3>1. PICK i \in 1..a : s[i] = Event("RoleAdded", NoGroup, r)
      BY <2>3 DEF IsStart
    <3>2. i \in 1..k
      BY <1>1
    <3> QED
      BY <3>1, <3>2 DEF AddsRole
  <2>4. ASSUME NEW i \in 1..k, s[i] \in AddsRole(r)
        PROVE  r \in roles
    <3>1. s[i] = Event("RoleAdded", NoGroup, r)
      BY <2>4 DEF AddsRole
    <3>2. PICK x \in roles : s[i] = Event("RoleAdded", NoGroup, x)
      BY <1>2, <3>1, EventFields
    <3> QED
      BY <3>1, <3>2, EventFields
  <2> QED
    BY <2>2, <2>3, <2>4
<1>7. ASSUME NEW g \in Groups, NEW r \in Roles, GroupRoleStands(s, k, g, r)
      PROVE  << g, r >> \in pairs
  <2>1. PICK i \in 1..k : s[i] \in GivesRole(g, r)
    BY <1>7 DEF GroupRoleStands, Stands
  <2>2. s[i] = Event("GroupRoleAdded", g, r)
    BY <2>1 DEF GivesRole
  <2>3. PICK u \in pairs : s[i] = Event("GroupRoleAdded", u[1], u[2])
    BY <1>2, <2>2, EventFields
  <2>4. u[1] = g /\ u[2] = r
    BY <2>2, <2>3, EventFields
  <2>5. u = << u[1], u[2] >>
    OBVIOUS
  <2> QED
    BY <2>4, <2>5
<1> QED
  BY <1>4, <1>5, <1>6, <1>7

\* Nothing waits: the row is what it will be.
LEMMA SettlesNow ==
  ASSUME NEW row \in BOOLEAN, NEW on, NEW off
  PROVE  Settles(<< >>, row, on, off) <=> row
<1>1. Len(<< >>) = 0 /\ DOMAIN << >> = {}
  OBVIOUS
<1> QED
  BY <1>1, NothingStands DEF Settles

\* A history h of the events s is sound; the next group is n.
Sound(h, s, n) ==
  /\ h \in Seq(Entries)
  /\ EventsOf(h) = s
  /\ VersionsOK(h) /\ Numbered(h)
  /\ HistoryOK(h, {}, n)
  /\ \A k \in DOMAIN h : h[k].event = s[k]
  /\ DOMAIN h = 1..Len(s)

\* What the rows that give a role to a group needed.
LEMMA StartHolds ==
  ASSUME NEW n \in Nat, NEW roles \in SUBSET Roles, NEW pairs \in SUBSET ((1..n) \X roles),
         n <= MaxGroups, NEW s, NEW a, IsStart(s, a, n, roles, pairs),
         NEW h, \A k \in 1..Len(s) : h[k].event = s[k],
         NEW k \in 1..Len(s), a + n < k
  PROVE  EntryOK(h, {}, k - 1, s[k])
<1>1. a \in Nat /\ Len(s) \in Nat /\ MaxGroups \in Nat
  BY OrganizationAssumption DEF IsStart
<1>2. /\ \A i \in 1..Len(s) :
           \/ i <= a /\ \E r \in roles : s[i] = Event("RoleAdded", NoGroup, r)
           \/ a < i /\ i <= a + n /\ s[i] = Event("GroupCreated", i - a, NoRole)
           \/ a + n < i /\ \E u \in pairs : s[i] = Event("GroupRoleAdded", u[1], u[2])
      /\ \A r \in roles : \E i \in 1..a : s[i] = Event("RoleAdded", NoGroup, r)
  BY DEF IsStart
<1>3. PICK u \in pairs : s[k] = Event("GroupRoleAdded", u[1], u[2])
  BY <1>1, <1>2
<1>4. PICK g, r : g = u[1] /\ r = u[2]
  OBVIOUS
<1>5. g \in 1..n /\ r \in roles
  BY <1>4
<1>6. s[k].type = "GroupRoleAdded" /\ s[k].group = g /\ s[k].role = r
  BY <1>3, <1>4, EventFields
<1>7. \A j \in 1..(k - 1) : j \in 1..Len(s) /\ h[j].event = s[j]
  BY <1>1
<1>8. \A j \in 1..Len(s) : s[j].type \in {"RoleAdded", "GroupCreated", "GroupRoleAdded"}
  BY <1>2, EventFields
<1>9. GroupHeld(h, k - 1, g)
  <2>1. a + g \in 1..(k - 1) /\ a < a + g /\ a + g <= a + n /\ (a + g) - a = g
        /\ ~(a + g <= a) /\ ~(a + n < a + g)
    BY <1>1, <1>5
  <2>2. s[a + g] = Event("GroupCreated", g, NoRole)
    BY <1>2, <1>7, <2>1
  <2>3. h[a + g].event \in CreatesGroup(g)
    BY <1>7, <2>1, <2>2 DEF CreatesGroup
  <2>4. \A j \in 1..(k - 1) : h[j].event \notin DeletesGroup(g)
    BY <1>7, <1>8, EventFields DEF DeletesGroup
  <2> QED
    BY <2>1, <2>3, <2>4 DEF GroupHeld, GroupMade
<1>10. RoleHeld(h, k - 1, r)
  <2>1. PICK i \in 1..a : s[i] = Event("RoleAdded", NoGroup, r)
    BY <1>2, <1>5
  <2>2. i \in 1..(k - 1)
    BY <1>1
  <2>3. h[i].event \in AddsRole(r)
    BY <1>7, <2>1, <2>2 DEF AddsRole
  <2>4. \A j \in 1..(k - 1) : h[j].event \notin DeletesRole(r)
    BY <1>7, <1>8, EventFields DEF DeletesRole
  <2> QED
    BY <2>2, <2>3, <2>4 DEF RoleHeld
<1> QED
  BY <1>6, <1>9, <1>10 DEF EntryOK

LEMMA StartSound ==
  ASSUME NEW n \in Nat, NEW roles \in SUBSET Roles, NEW pairs \in SUBSET ((1..n) \X roles),
         n <= MaxGroups, NEW s, NEW a, IsStart(s, a, n, roles, pairs)
  PROVE  Sound(Made(s), s, n + 1)
<1> SUFFICES ASSUME NEW h, h = Made(s)
             PROVE  Sound(h, s, n + 1)
  OBVIOUS
<1>1. /\ a \in Nat /\ Len(s) \in Nat /\ MaxGroups \in Nat
      /\ s \in Seq(Events) /\ DOMAIN s = 1..Len(s)
  BY OrganizationAssumption DEF IsStart
<1>2. h = [k \in 1..Len(s) |-> [event |-> s[k], version |-> k, basis |-> k - 1]]
  BY <1>1 DEF Made
<1>3. \A k \in 1..Len(s) : [event |-> s[k], version |-> k, basis |-> k - 1] \in Entries
  BY <1>1 DEF Entries
<1>4. h \in Seq(Entries) /\ Len(h) = Len(s) /\ DOMAIN h = 1..Len(s)
  BY <1>1, <1>2, <1>3
<1>5. \A k \in 1..Len(s) : h[k].event = s[k] /\ h[k].version = k /\ h[k].basis = k - 1
  BY <1>2
<1>6. EventsOf(h) = s
  <2>1. EventsOf(h) = [k \in 1..Len(s) |-> s[k]]
    BY <1>4, <1>5 DEF EventsOf
  <2>2. s = [k \in 1..Len(s) |-> s[k]]
    BY <1>1
  <2> QED
    BY <2>1, <2>2
<1>7. Numbered(h) /\ VersionsOK(h)
  <2>1. Numbered(h)
    BY <1>4, <1>5 DEF Numbered
  <2>2. ASSUME NEW k \in 1..Len(s)
        PROVE  /\ h[k].version \in 1..k /\ h[k].basis < k
               /\ \A j \in 1..h[k].basis : h[j].version < h[k].version
    <3>1. k \in 1..k /\ k - 1 < k /\ \A j \in 1..(k - 1) : j \in 1..Len(s) /\ j < k
      BY <1>1
    <3> QED
      BY <1>5, <3>1
  <2> QED
    BY <1>4, <2>1, <2>2 DEF VersionsOK
<1>8. ASSUME NEW k \in 1..Len(s)
      PROVE  /\ EntryOK(h, {}, h[k].basis, h[k].event)
             /\ h[k].event.type = "GroupCreated" =>
                  /\ h[k].event.group < n + 1
                  /\ \A j \in DOMAIN h : h[j].event = h[k].event => j = k
  <2>1. \/ k <= a /\ \E r \in roles : s[k] = Event("RoleAdded", NoGroup, r)
        \/ a < k /\ k <= a + n /\ s[k] = Event("GroupCreated", k - a, NoRole)
        \/ a + n < k /\ \E u \in pairs : s[k] = Event("GroupRoleAdded", u[1], u[2])
    BY DEF IsStart
  <2>2. EntryOK(h, {}, k - 1, s[k])
    <3>1. CASE k <= a + n
      <4>1. s[k].type \in {"RoleAdded", "GroupCreated"}
        BY <1>1, <2>1, <3>1, EventFields
      <4> QED
        BY <4>1 DEF EntryOK
    <3>2. CASE a + n < k
      BY <1>5, <3>2, StartHolds
    <3> QED
      BY <1>1, <3>1, <3>2
  <2>3. ASSUME s[k].type = "GroupCreated"
        PROVE  s[k].group < n + 1 /\ \A j \in 1..Len(s) : s[j] = s[k] => j = k
    <3>1. k <= a + n /\ s[k] = Event("GroupCreated", k - a, NoRole)
      BY <2>1, <2>3, EventFields
    <3>2. s[k].group = k - a
      BY <3>1, EventFields
    <3>3. ASSUME NEW j \in 1..Len(s), s[j] = s[k]
          PROVE  j = k
      <4>1. \/ j <= a /\ \E r \in roles : s[j] = Event("RoleAdded", NoGroup, r)
            \/ a < j /\ j <= a + n /\ s[j] = Event("GroupCreated", j - a, NoRole)
            \/ a + n < j /\ \E u \in pairs : s[j] = Event("GroupRoleAdded", u[1], u[2])
        BY DEF IsStart
      <4>2. s[j] = Event("GroupCreated", j - a, NoRole)
        BY <2>3, <3>3, <4>1, EventFields
      <4>3. j - a = k - a
        BY <3>2, <3>3, <4>2, EventFields
      <4> QED
        BY <1>1, <4>3
    <3> QED
      BY <1>1, <3>1, <3>2, <3>3
  <2> QED
    BY <1>4, <1>5, <2>2, <2>3
<1>9. HistoryOK(h, {}, n + 1)
  BY <1>4, <1>8 DEF HistoryOK
<1> QED
  BY <1>4, <1>5, <1>6, <1>7, <1>9 DEF Sound

LEMMA InitInv == Init => Inv
<1> SUFFICES ASSUME Init PROVE Inv
  OBVIOUS
<1>1. PICK n \in {0, MaxGroups}, roles \in {{}, Roles} :
        \E pairs \in {{}, (1..n) \X roles} : Start(n, roles, pairs)
  BY DEF Init
<1>2. PICK pairs \in {{}, (1..n) \X roles} : Start(n, roles, pairs)
  BY <1>1
<1>3. PICK s, a : IsStart(s, a, n, roles, pairs) /\ history = Made(s)
  BY <1>2, StartEvents
<1>4. /\ n \in Nat /\ n <= MaxGroups /\ MaxGroups \in Nat /\ MaxCommands \in Nat
      /\ roles \in SUBSET Roles /\ pairs \in SUBSET ((1..n) \X roles)
  BY OrganizationAssumption
<1>5. /\ history \in Seq(Entries) /\ EventsOf(history) = s /\ HistoryOK(history, {}, n + 1)
      /\ VersionsOK(history)
      /\ \A k \in DOMAIN history : history[k].event = s[k]
      /\ DOMAIN history = 1..Len(s)
  <2>1. Sound(Made(s), s, n + 1)
    BY <1>3, <1>4, StartSound
  <2> QED
    BY <1>3, <2>1 DEF Sound
<1>6. /\ request = [t \in Threads |-> Idle] /\ queue = << >> /\ gone = {} /\ begun = 0
      /\ lost = {}
      /\ roleRow = [r \in Roles |-> IF r \in roles THEN "live" ELSE "absent"]
      /\ groupRow = [g \in Groups |-> IF g <= n THEN "live" ELSE "absent"]
      /\ used = pairs /\ newGroup = n + 1
  BY <1>2 DEF Init, Start
<1>7. Idle.phase = "idle"
  BY DEF Idle
<1>8. TypeOK
  <2>1. history \in Seq([event : Events, version : Nat, basis : Nat])
    BY <1>5 DEF Entries
  <2>2. queue \in Seq(Events)
    BY <1>6
  <2>3. roleRow \in [Roles -> RowStates] /\ groupRow \in [Groups -> RowStates]
    BY <1>6 DEF RowStates
  <2>4. used \subseteq Groups \X Roles
    <3>1. 1..n \subseteq Groups
      BY <1>4 DEF Groups
    <3> QED
      BY <1>4, <1>6, <3>1
  <2>5. newGroup \in 1..(MaxGroups + 1) /\ begun \in 0..MaxCommands
    BY <1>4, <1>6
  <2> QED
    BY <1>6, <2>1, <2>2, <2>3, <2>4, <2>5 DEF TypeOK
<1>9. RequestsOK
  BY <1>6, <1>7 DEF RequestsOK, RequestOK, Apart
<1>10. a + n \in Nat /\ Len(s) \in (a + n)..Len(s) /\ a \in Nat /\ Len(s) \in Nat
  BY <1>3 DEF IsStart
<1>11. /\ ~Stands(s, Len(s), Ends, {})
       /\ \A g \in Groups : GroupStands(s, Len(s), g) <=> g <= n
       /\ \A r \in Roles : RoleStands(s, Len(s), r) <=> r \in roles
       /\ \A g \in Groups, r \in Roles : GroupRoleStands(s, Len(s), g, r) => << g, r >> \in pairs
  BY <1>3, <1>4, <1>10, StartStands
<1>12. ShownOK
  <2>1. ASSUME NEW g \in Groups, groupRow[g] # "absent"
        PROVE  Published(Event("GroupCreated", g, NoRole))
    <3>1. g <= n
      BY <1>6, <2>1
    <3>2. PICK i \in 1..Len(s) : s[i] \in CreatesGroup(g)
      BY <1>11, <3>1 DEF GroupStands, Stands
    <3> QED
      BY <1>5, <3>2 DEF CreatesGroup, Published
  <2>2. ASSUME NEW r \in Roles, roleRow[r] # "absent"
        PROVE  Published(Event("RoleAdded", NoGroup, r))
    <3>1. r \in roles
      BY <1>6, <2>2
    <3>2. PICK i \in 1..Len(s) : s[i] \in AddsRole(r)
      BY <1>11, <3>1 DEF RoleStands, Stands
    <3> QED
      BY <1>5, <3>2 DEF AddsRole, Published
  <2>3. DOMAIN queue = {}
    BY <1>6
  <2> QED
    BY <2>1, <2>2, <2>3 DEF ShownOK
<1>13. ListsOK(s, queue, groupRow, roleRow, used, gone)
  <2>1. \A g \in Groups : groupRow[g] = "live" <=> g <= n
    BY <1>6
  <2>2. \A r \in Roles : roleRow[r] = "live" <=> r \in roles
    BY <1>6
  <2>3. \A row \in BOOLEAN : \A on, off : Settles(queue, row, on, off) <=> row
    BY <1>6, SettlesNow
  <2> QED
    BY <1>6, <1>11, <2>1, <2>2, <2>3 DEF ListsOK
<1>14. OrderlyLists(history, lost, request, queue, groupRow, roleRow, used, gone)
  BY <1>5, <1>6, <1>7, <1>13 DEF OrderlyLists, Inserted
<1>15. LostOK(lost, newGroup)
  BY <1>6 DEF LostOK
<1> QED
  BY <1>5, <1>6, <1>8, <1>9, <1>12, <1>14, <1>15 DEF Inv

-----------------------------------------------------------------------------
(***************************************************************************)
(* What the steps have in common.                                          *)
(***************************************************************************)

\* GetById returns what the rows say in one of the orders of their versions.
LEMMA LoadsSay ==
  ASSUME TypeOK, VersionsOK(history), NEW x \in Loads
  PROVE  \E o : IsOrder(history, o) /\ Says(InOrder(history, o), Len(history), x)
<1>1. history \in Seq(Entries)
  BY TypeParts
<1>2. PICK o \in Orders(history) : x = Replayed(history, o)
  BY DEF Loads
<1>3. IsOrder(history, o)
  BY <1>1, OrdersAreOrders
<1>4. Says(InOrder(history, o), Len(history), Replayed(history, o))
  BY <1>1, <1>3, ReplaySays
<1> QED
  BY <1>2, <1>3, <1>4

\* What an event needed is a matter of the rows its command had loaded.
LEMMA EntrySame ==
  ASSUME NEW h, NEW g, NEW l, NEW m, l \subseteq m, NEW b \in Nat, NEW e,
         EntryOK(h, l, b, e), \A i \in 1..b : g[i] = h[i]
  PROVE  EntryOK(g, m, b, e)
BY DEF EntryOK, GroupHeld, GroupMade, RoleHeld

LEMMA NewerGroup ==
  ASSUME TypeOK, NEW m \in Nat, newGroup <= m, newGroup \in Nat
  PROVE  /\ HistoryOK(history, lost, newGroup) => HistoryOK(history, lost, m)
         /\ LostOK(lost, newGroup) => LostOK(lost, m)
         /\ \A t \in Threads : RequestOK(history, lost, newGroup, request[t]) =>
                                 RequestOK(history, lost, m, request[t])
<1>1. \A k \in DOMAIN history :
        history[k].event.type = "GroupCreated" => history[k].event.group \in Groups
  <2>1. \A k \in DOMAIN history : history[k] \in Entries
    BY TypeParts
  <2>2. \A k \in DOMAIN history : history[k].event \in Events
    BY <2>1 DEF Entries
  <2> QED
    BY <2>2, EventParts
<1>2. \A g \in Groups : g < newGroup => g < m
  BY OrganizationAssumption DEF Groups
<1>3. HistoryOK(history, lost, newGroup) => HistoryOK(history, lost, m)
  BY <1>1, <1>2 DEF HistoryOK
<1>4. LostOK(lost, newGroup) => LostOK(lost, m)
  <2>1. \A e \in lost : e.type = "GroupCreated" => e.group \in Groups
    BY EventParts DEF TypeOK
  <2> QED
    BY <1>2, <2>1 DEF LostOK
<1>5. ASSUME NEW t \in Threads, RequestOK(history, lost, newGroup, request[t])
      PROVE  RequestOK(history, lost, m, request[t])
  <2>1. CASE request[t].phase = "idle"
    BY <2>1 DEF RequestOK
  <2>2. CASE request[t].phase # "idle"
    <3>1. request[t].changes \in Seq(Events)
      BY <2>2, RequestParts
    <3>2. \A k \in DOMAIN request[t].changes : request[t].changes[k] \in Events
      BY <3>1
    <3>3. \A k \in DOMAIN request[t].changes :
            request[t].changes[k].type = "GroupCreated" => request[t].changes[k].group \in Groups
      BY <3>2, EventParts
    <3>4. ChangesOK(history, lost, m, request[t].basis, request[t].changes)
      BY <1>2, <1>5, <2>2, <3>3 DEF RequestOK, ChangesOK
    <3> QED
      BY <1>5, <3>4 DEF RequestOK
  <2> QED
    BY <2>1, <2>2
<1> QED
  BY <1>3, <1>4, <1>5

\* One request changes.
LEMMA RequestsAfter ==
  ASSUME TypeOK, RequestsOK, NEW t \in Threads, NEW q,
         request' = [request EXCEPT ![t] = q],
         RequestOK(history', lost', newGroup', q),
         \A u \in Threads \ {t} : RequestOK(history', lost', newGroup', request[u]),
         \A u \in Threads \ {t} : Apart(q, request[u]) /\ Apart(request[u], q)
  PROVE  RequestsOK'
<1>1. request \in [Threads -> {Idle} \cup Busy]
  BY TypeParts
<1>2. \A u \in Threads : request'[u] = IF u = t THEN q ELSE request[u]
  BY <1>1
<1>3. \A u \in Threads : RequestOK(history', lost', newGroup', request'[u])
  BY <1>2
<1>4. \A u, v \in Threads : u # v => Apart(request'[u], request'[v])
  BY <1>2 DEF RequestsOK
<1> QED
  BY <1>3, <1>4 DEF RequestsOK

LEMMA ShownStays ==
  ASSUME ShownOK, queue' = queue, groupRow' = groupRow, roleRow' = roleRow,
         \A e : Published(e) => Published(e)'
  PROVE  ShownOK'
BY DEF ShownOK

\* Of a request that has not inserted a row, nothing is published.
LEMMA PublishedStays ==
  ASSUME TypeOK, NEW t \in Threads, NEW q, ~Inserted(request[t]),
         request' = [request EXCEPT ![t] = q],
         history' = history, lost' = lost, NEW e, Published(e)
  PROVE  Published(e)'
<1>1. request \in [Threads -> {Idle} \cup Busy]
  BY TypeParts
<1>2. \A u \in Threads \ {t} : request'[u] = request[u]
  BY <1>1
<1>3. CASE \E u \in Threads : /\ Inserted(request[u])
                              /\ \E k \in 1..request[u].sent : request[u].changes[k] = e
  <2>1. PICK u \in Threads : /\ Inserted(request[u])
                             /\ \E k \in 1..request[u].sent : request[u].changes[k] = e
    BY <1>3
  <2>2. u # t
    BY <2>1
  <2>3. request'[u] = request[u]
    BY <1>2, <2>2
  <2>4. /\ Inserted(request'[u])
        /\ \E k \in 1..request'[u].sent : request'[u].changes[k] = e
    BY <2>1, <2>3
  <2> QED
    BY <2>4 DEF Published
<1>4. CASE (\E k \in DOMAIN history : history[k].event = e) \/ e \in lost
  BY <1>4 DEF Published
<1> QED
  BY <1>3, <1>4 DEF Published

\* The lists are what they were when no request begins or ends to insert rows.
LEMMA ListsStay ==
  ASSUME NEW h, NEW l, NEW rq, NEW q, NEW groupIs, NEW roleIs, NEW pairs, NEW lostRoles,
         OrderlyLists(h, l, rq, q, groupIs, roleIs, pairs, lostRoles), NEW new,
         \A u \in Threads : Inserted(new[u]) <=> Inserted(rq[u]),
         \A u \in Threads : Inserted(rq[u]) => new[u] = rq[u]
  PROVE  OrderlyLists(h, l, new, q, groupIs, roleIs, pairs, lostRoles)
<1>1. Orderly(h, l, new) => Orderly(h, l, rq)
  BY DEF Orderly
<1> QED
  BY <1>1 DEF OrderlyLists

\* The rows h in the order o: n of them, with the events s.
RowsSorted(h, o, n, s) ==
  /\ n \in Nat /\ DOMAIN h = 1..n
  /\ \A i \in 1..n : o[i] \in 1..n /\ s[i] = h[o[i]].event
  /\ \A k \in 1..n : \E i \in 1..n : o[i] = k
  /\ \A i, j \in 1..n : i < j => h[o[i]].version <= h[o[j]].version

LEMMA OrderSorts ==
  ASSUME NEW h \in Seq(Entries), NEW o, IsOrder(h, o), NEW n, n = Len(h),
         NEW s, s = InOrder(h, o)
  PROVE  RowsSorted(h, o, n, s)
<1>1. n \in Nat /\ DOMAIN h = 1..n
  OBVIOUS
<1>2. \A i \in 1..n : o[i] \in 1..n
  BY DEF IsOrder
<1>3. \A i \in 1..n : s[i] = h[o[i]].event
  BY DEF InOrder
<1>4. /\ \A k \in 1..n : \E i \in 1..n : o[i] = k
      /\ \A i, j \in 1..n : i < j => h[o[i]].version <= h[o[j]].version
  BY DEF IsOrder
<1> QED
  BY <1>1, <1>2, <1>3, <1>4 DEF RowsSorted

\* A group that stands was never deleted: who deletes it has loaded its
\* creation, which comes before the deletion in every order of the versions.
LEMMA GroupIsHeld ==
  ASSUME NEW h \in Seq(Entries), VersionsOK(h), NEW l, NEW m, HistoryOK(h, l, m),
         NEW o, IsOrder(h, o), NEW n, n = Len(h),
         NEW g \in Groups, GroupStands(InOrder(h, o), n, g)
  PROVE  GroupHeld(h, n, g)
<1>1. PICK s : s = InOrder(h, o)
  OBVIOUS
<1>2. /\ n \in Nat /\ DOMAIN h = 1..n
      /\ \A i \in 1..n : o[i] \in 1..n /\ s[i] = h[o[i]].event
      /\ \A k \in 1..n : \E i \in 1..n : o[i] = k
      /\ \A i, j \in 1..n : i < j => h[o[i]].version <= h[o[j]].version
  <2>1. RowsSorted(h, o, n, s)
    BY <1>1, OrderSorts
  <2> QED
    BY <2>1 DEF RowsSorted
<1>3. \A k \in 1..n : h[k].version \in Nat /\ h[k].basis \in Nat
  BY <1>2, EventsOfType
<1>4. PICK p \in 1..n : /\ s[p] \in CreatesGroup(g)
                        /\ \A j \in (p + 1)..n : s[j] \notin DeletesGroup(g)
  BY <1>1 DEF GroupStands, Stands
<1>5. PICK i \in 1..n : i = o[p] /\ h[i].event = Event("GroupCreated", g, NoRole)
  <2>1. o[p] \in 1..n /\ s[p] = h[o[p]].event
    BY <1>2
  <2> QED
    BY <1>4, <2>1 DEF CreatesGroup
<1>6. h[i].event.type = "GroupCreated"
  BY <1>5, EventFields
<1>7. /\ h[i].event \notin l
      /\ \A j \in 1..n : h[j].event = h[i].event => j = i
  BY <1>2, <1>6 DEF HistoryOK
<1>8. ASSUME NEW j \in 1..n, h[j].event \in DeletesGroup(g)
      PROVE  FALSE
  <2>1. h[j].event.type = "GroupDeleted" /\ h[j].event.group = g
    BY <1>8, EventFields DEF DeletesGroup
  <2>2. GroupMade(h, h[j].basis, g)
    <3>1. EntryOK(h, l, h[j].basis, h[j].event)
      BY <1>2 DEF HistoryOK
    <3> QED
      BY <1>5, <1>7, <2>1, <3>1 DEF EntryOK
  <2>3. PICK k \in 1..h[j].basis : h[k].event \in CreatesGroup(g)
    BY <2>2 DEF GroupMade
  <2>4. /\ h[j].basis < j
        /\ \A y \in 1..h[j].basis : h[y].version < h[j].version
    BY <1>2 DEF VersionsOK
  <2>5. k \in 1..n
    BY <1>3, <2>3, <2>4
  <2>6. k = i
    BY <1>5, <1>7, <2>3, <2>5 DEF CreatesGroup
  <2>7. h[i].version < h[j].version
    BY <2>3, <2>4, <2>6
  <2>8. PICK q \in 1..n : o[q] = j
    BY <1>2
  <2>9. s[q] \in DeletesGroup(g)
    BY <1>2, <1>8, <2>8
  <2>10. q \notin (p + 1)..n
    BY <1>4, <2>9
  <2>11. q # p
    BY <1>5, <1>6, <2>1, <2>8
  <2>12. q < p
    BY <1>2, <2>10, <2>11
  <2>13. h[o[q]].version <= h[o[p]].version
    BY <1>2, <2>12
  <2>14. h[j].version <= h[i].version
    BY <1>5, <2>8, <2>13
  <2> QED
    BY <1>3, <2>7, <2>14
<1>9. GroupMade(h, n, g)
  BY <1>5 DEF GroupMade, CreatesGroup
<1> QED
  BY <1>8, <1>9 DEF GroupHeld

\* A role that stands was added with a version that none of its deletions exceeds.
LEMMA RoleIsHeld ==
  ASSUME NEW h \in Seq(Entries), NEW o, IsOrder(h, o), NEW n, n = Len(h),
         NEW r \in Roles, RoleStands(InOrder(h, o), n, r)
  PROVE  RoleHeld(h, n, r)
<1>1. PICK s : s = InOrder(h, o)
  OBVIOUS
<1>2. /\ n \in Nat
      /\ \A i \in 1..n : o[i] \in 1..n /\ s[i] = h[o[i]].event
      /\ \A k \in 1..n : \E i \in 1..n : o[i] = k
      /\ \A i, j \in 1..n : i < j => h[o[i]].version <= h[o[j]].version
  <2>1. RowsSorted(h, o, n, s)
    BY <1>1, OrderSorts
  <2> QED
    BY <2>1 DEF RowsSorted
<1>3. PICK p \in 1..n : /\ s[p] \in AddsRole(r)
                        /\ \A j \in (p + 1)..n : s[j] \notin DeletesRole(r)
  BY <1>1 DEF RoleStands, Stands
<1>4. PICK i \in 1..n : i = o[p] /\ h[i].event \in AddsRole(r)
  <2>1. o[p] \in 1..n /\ s[p] = h[o[p]].event
    BY <1>2
  <2> QED
    BY <1>3, <2>1
<1>5. ASSUME NEW j \in 1..n, h[j].event \in DeletesRole(r)
      PROVE  h[j].version <= h[i].version
  <2>1. PICK q \in 1..n : o[q] = j
    BY <1>2
  <2>2. s[q] \in DeletesRole(r)
    BY <1>2, <1>5, <2>1
  <2>3. q \notin (p + 1)..n
    BY <1>3, <2>2
  <2>4. q # p
    <3>1. h[j].event.type = "RoleDeleted" /\ h[i].event.type = "RoleAdded"
      BY <1>4, <1>5, EventFields DEF AddsRole, DeletesRole
    <3> QED
      BY <1>4, <2>1, <3>1
  <2>5. q < p
    BY <1>2, <2>3, <2>4
  <2>6. h[o[q]].version <= h[o[p]].version
    BY <1>2, <2>5
  <2> QED
    BY <1>4, <2>1, <2>6
<1> QED
  BY <1>4, <1>5 DEF RoleHeld

-----------------------------------------------------------------------------
(***************************************************************************)
(* The steps of a request.                                                 *)
(***************************************************************************)

\* What was published to a thread that may begin is committed or lost.
LEMMA PublishedBefore ==
  ASSUME TypeOK, NEW t \in Threads, CanBegin(t), NEW e, Published(e)
  PROVE  (\E k \in DOMAIN history : history[k].event = e) \/ e \in lost
<1>1. request[t].phase = "idle"
  BY DEF CanBegin, Idle
<1>2. \A u \in Threads : ~Inserted(request[u])
  BY <1>1 DEF CanBegin, Blocked, Inserted
<1> QED
  BY <1>2 DEF Published

\* What the command needs, the rows it has loaded say.
LEMMA DecidedChanges ==
  ASSUME Inv, NEW t \in Threads, CanBegin(t), NEW x \in Loads, NEW c \in Offered,
         Decide(t, x, c)
  PROVE  ChangesOK(history, lost, newGroup', Len(history), Changes(c))
<1>1. /\ TypeOK /\ VersionsOK(history) /\ HistoryOK(history, lost, newGroup)
      /\ LostOK(lost, newGroup) /\ ShownOK /\ history \in Seq(Entries)
  BY TypeParts DEF Inv
<1>2. c \in Commands
  BY <1>1, OfferedType
<1>3. PICK n, changes : n = Len(history) /\ changes = Changes(c)
  OBVIOUS
<1>4. PICK o : IsOrder(history, o) /\ Says(InOrder(history, o), n, x)
  BY <1>1, <1>3, LoadsSay
<1>5. x.loads /\ Accepts(x, c)
  BY DEF Decide
<1>6. Describes(InOrder(history, o), n, x)
  BY <1>4, <1>5 DEF Says
<1>7. /\ changes \in Seq(Events)
      /\ \A k \in DOMAIN changes :
           /\ changes[k].group = c.group
           /\ changes[k].role = c.role
           /\ changes[k].type # "ApplicationRoleDeleted"
           /\ changes[k].type = "GroupModified" => c.type = "GroupModify"
           /\ changes[k].type = "GroupRoleAdded" => c.type = "GroupRoleAdd"
           /\ changes[k].type = "GroupDeleted" => c.type = "GroupDelete"
           /\ changes[k].type = "GroupCreated" =>
                c.type = "GroupCreate" /\ \A j \in DOMAIN changes : j = k
  BY <1>2, <1>3, ChangesOfCommand
<1>8. ASSUME c.type \in {"GroupModify", "GroupRoleAdd"}
      PROVE  GroupHeld(history, n, c.group)
  <2>1. PICK g : g = c.group
    OBVIOUS
  <2>2. g \in Groups /\ g \in DOMAIN x.groups
    BY <1>1, <1>5, <1>8, <2>1, OfferedGroup DEF Accepts
  <2>3. GroupStands(InOrder(history, o), n, g)
    BY <1>6, <2>2 DEF Describes
  <2>4. GroupHeld(history, n, g)
    BY <1>1, <1>3, <1>4, <2>2, <2>3, GroupIsHeld
  <2> QED
    BY <2>1, <2>4
<1>9. ASSUME c.type = "GroupRoleAdd"
      PROVE  RoleHeld(history, n, c.role)
  <2>1. PICK r : r = c.role
    OBVIOUS
  <2>2. r \in Roles /\ r \in x.roles
    BY <1>1, <1>5, <1>9, <2>1, OfferedGroup DEF Accepts
  <2>3. RoleStands(InOrder(history, o), n, r)
    BY <1>6, <2>2 DEF Describes
  <2>4. RoleHeld(history, n, r)
    BY <1>1, <1>3, <1>4, <2>2, <2>3, RoleIsHeld
  <2> QED
    BY <2>1, <2>4
<1>10. ASSUME c.type = "GroupDelete"
       PROVE  GroupMade(history, n, c.group) \/ Event("GroupCreated", c.group, NoRole) \in lost
  <2>1. c.group \in Groups /\ groupRow[c.group] # "absent"
    BY <1>1, <1>10, OfferedGroup
  <2>2. PICK e : e = Event("GroupCreated", c.group, NoRole)
    OBVIOUS
  <2>3. Published(e)
    BY <1>1, <2>1, <2>2 DEF ShownOK
  <2>4. (\E k \in DOMAIN history : history[k].event = e) \/ e \in lost
    BY <1>1, <2>3, PublishedBefore
  <2>5. DOMAIN history = 1..n
    BY <1>1, <1>3
  <2> QED
    BY <2>2, <2>4, <2>5 DEF GroupMade, CreatesGroup
<1>11. ASSUME c.type = "GroupCreate"
       PROVE  /\ c.group < newGroup' /\ c.group \in Nat
              /\ \A j \in DOMAIN history :
                   history[j].event.type = "GroupCreated" => history[j].event.group < c.group
              /\ \A e \in lost : e.type = "GroupCreated" => e.group < c.group
  <2>1. c.group = newGroup /\ newGroup \in Groups
    BY <1>1, <1>11, OfferedGroup
  <2>2. newGroup' = newGroup + 1
    BY <1>11 DEF Decide, Begin
  <2>3. newGroup < newGroup + 1 /\ newGroup \in Nat
    BY <2>1 DEF Groups
  <2> QED
    BY <1>1, <2>1, <2>2, <2>3 DEF HistoryOK, LostOK
<1>12. ASSUME NEW k \in DOMAIN changes
       PROVE  EntryOK(history, lost, n, changes[k])
  BY <1>7, <1>8, <1>9, <1>10 DEF EntryOK
<1>13. ASSUME NEW k \in DOMAIN changes, changes[k].type = "GroupCreated"
       PROVE  /\ changes[k].group < newGroup'
              /\ changes[k] \notin lost
              /\ \A j \in DOMAIN history : history[j].event # changes[k]
              /\ \A j \in DOMAIN changes : changes[j] = changes[k] => j = k
  <2>1. c.type = "GroupCreate" /\ changes[k].group = c.group
    BY <1>7, <1>13
  <2>2. c.group < newGroup' /\ c.group \in Nat /\ ~(c.group < c.group)
    BY <1>11, <2>1
  <2>3. changes[k] \notin lost
    BY <1>11, <1>13, <2>1, <2>2
  <2>4. ASSUME NEW j \in DOMAIN history, history[j].event = changes[k]
        PROVE  FALSE
    BY <1>11, <1>13, <2>1, <2>2, <2>4
  <2> QED
    BY <1>7, <1>13, <2>1, <2>2, <2>3, <2>4
<1> QED
  BY <1>3, <1>12, <1>13 DEF ChangesOK

LEMMA DecideStep ==
  ASSUME Inv, NEW t \in Threads, CanBegin(t), NEW x \in Loads, NEW c \in Offered,
         Decide(t, x, c)
  PROVE  Inv'
<1>1. /\ TypeOK /\ VersionsOK(history) /\ HistoryOK(history, lost, newGroup)
      /\ LostOK(lost, newGroup) /\ RequestsOK /\ ShownOK
      /\ OrderlyLists(history, lost, request, queue, groupRow, roleRow, used, gone)
  BY DEF Inv
<1>2. TypeOK'
  BY <1>1, DecideType
<1>3. /\ newGroup \in Nat /\ newGroup' \in Nat /\ newGroup <= newGroup'
      /\ newGroup' = IF c.type = "GroupCreate" THEN newGroup + 1 ELSE newGroup
  <2>1. newGroup \in 1..(MaxGroups + 1) /\ MaxGroups \in Nat
    BY <1>1, OrganizationAssumption DEF TypeOK
  <2>2. newGroup' = IF c.type = "GroupCreate" THEN newGroup + 1 ELSE newGroup
    BY DEF Decide, Begin
  <2> QED
    BY <2>1, <2>2
<1>4. PICK m : m = newGroup'
  OBVIOUS
<1>5. /\ HistoryOK(history, lost, m) /\ LostOK(lost, m)
      /\ \A u \in Threads : RequestOK(history, lost, m, request[u])
  BY <1>1, <1>3, <1>4, NewerGroup DEF RequestsOK
<1>6. PICK q : q = Decided(c, Len(history))
  OBVIOUS
<1>7. /\ request' = [request EXCEPT ![t] = q] /\ request[t] = Idle
      /\ history' = history /\ queue' = queue /\ groupRow' = groupRow /\ roleRow' = roleRow
      /\ used' = used /\ gone' = gone /\ lost' = lost
  BY <1>6 DEF Decide, CanBegin, views, Decided
<1>8. /\ q.phase = "decided" /\ q.changes = Changes(c) /\ q.basis = Len(history) /\ q.sent = 0
  BY <1>6 DEF Decided
<1>9. c \in Commands
  BY <1>1, OfferedType
<1>10. RequestOK(history, lost, m, q)
  <2>1. ChangesOK(history, lost, m, q.basis, q.changes)
    BY <1>4, <1>8, DecidedChanges
  <2>2. Len(history) \in Nat /\ Len(q.changes) \in Nat /\ 0 < Len(q.changes)
    <3>1. q.changes \in Seq(Events) /\ 0 < Len(q.changes)
      BY <1>8, <1>9, ChangesOfCommand
    <3> QED
      BY <1>1, <3>1, TypeParts
  <2>3. q.basis <= Len(history) /\ q.sent <= Len(q.changes)
    BY <1>8, <2>2
  <2> QED
    BY <1>8, <2>1, <2>2, <2>3 DEF RequestOK
<1>11. ASSUME NEW u \in Threads \ {t}
       PROVE  Apart(q, request[u]) /\ Apart(request[u], q)
  <2>1. SUFFICES ASSUME request[u].phase # "idle",
                        NEW j \in DOMAIN q.changes, NEW k \in DOMAIN request[u].changes,
                        q.changes[j] = request[u].changes[k],
                        q.changes[j].type = "GroupCreated"
                 PROVE  FALSE
    BY DEF Apart
  <2>2. request[u].changes[k].group < newGroup
    BY <1>1, <2>1 DEF RequestsOK, RequestOK, ChangesOK
  <2>3. c.type = "GroupCreate" /\ q.changes[j].group = c.group
    BY <1>8, <1>9, <2>1, ChangesOfCommand
  <2>4. c.group = newGroup
    BY <1>1, <2>3, OfferedGroup
  <2>5. newGroup < newGroup
    BY <2>1, <2>2, <2>3, <2>4
  <2> QED
    BY <1>3, <2>5
<1>12. RequestsOK'
  BY <1>1, <1>4, <1>5, <1>7, <1>8, <1>10, <1>11, RequestsAfter
<1>13. ~Inserted(request[t]) /\ ~Inserted(q)
  BY <1>7, <1>8 DEF Inserted, Idle
<1>14. ShownOK'
  BY <1>1, <1>7, <1>13, PublishedStays, ShownStays
<1>15. OrderlyLists(history, lost, request', queue, groupRow, roleRow, used, gone)
  <2>1. PICK rq : rq = request'
    OBVIOUS
  <2>2. \A u \in Threads : rq[u] = IF u = t THEN q ELSE request[u]
    BY <1>1, <1>7, <2>1, TypeParts
  <2>3. \A u \in Threads : /\ Inserted(rq[u]) <=> Inserted(request[u])
                           /\ Inserted(request[u]) => rq[u] = request[u]
    BY <1>13, <2>2
  <2>4. OrderlyLists(history, lost, rq, queue, groupRow, roleRow, used, gone)
    BY <1>1, <2>3, ListsStay
  <2> QED
    BY <2>1, <2>4
<1> QED
  BY <1>1, <1>2, <1>4, <1>5, <1>7, <1>12, <1>14, <1>15 DEF Inv

LEMMA RefuseStep ==
  ASSUME Inv, NEW t \in Threads, CanBegin(t), NEW x, NEW c \in Offered, Refuse(t, x, c)
  PROVE  Inv'
<1>1. /\ TypeOK /\ VersionsOK(history) /\ HistoryOK(history, lost, newGroup)
      /\ LostOK(lost, newGroup) /\ RequestsOK /\ ShownOK
      /\ OrderlyLists(history, lost, request, queue, groupRow, roleRow, used, gone)
  BY DEF Inv
<1>2. TypeOK'
  BY <1>1, RefuseType
<1>3. newGroup \in Nat /\ newGroup' \in Nat /\ newGroup <= newGroup'
  <2>1. newGroup \in 1..(MaxGroups + 1) /\ MaxGroups \in Nat
    BY <1>1, OrganizationAssumption DEF TypeOK
  <2>2. newGroup' = IF c.type = "GroupCreate" THEN newGroup + 1 ELSE newGroup
    BY DEF Refuse, Begin
  <2> QED
    BY <2>1, <2>2
<1>4. PICK m : m = newGroup'
  OBVIOUS
<1>5. /\ HistoryOK(history, lost, m) /\ LostOK(lost, m)
      /\ \A u \in Threads : RequestOK(history, lost, m, request[u])
  BY <1>1, <1>3, <1>4, NewerGroup DEF RequestsOK
<1>6. /\ request' = request
      /\ history' = history /\ queue' = queue /\ groupRow' = groupRow /\ roleRow' = roleRow
      /\ used' = used /\ gone' = gone /\ lost' = lost
  BY DEF Refuse, views
<1>7. RequestsOK'
  BY <1>1, <1>4, <1>5, <1>6 DEF RequestsOK
<1>8. ShownOK'
  BY <1>1, <1>6 DEF ShownOK, Published
<1> QED
  BY <1>1, <1>2, <1>4, <1>5, <1>6, <1>7, <1>8 DEF Inv

\* A request goes on to insert the same changes.
LEMMA ApartSame ==
  ASSUME NEW p, NEW q, q.phase # "idle", p.phase # "idle", q.changes = p.changes, NEW r,
         Apart(p, r), Apart(r, p)
  PROVE  Apart(q, r) /\ Apart(r, q)
BY DEF Apart

LEMMA ReadVersionStep ==
  ASSUME Inv, NEW t \in Threads, ReadVersion(t)
  PROVE  Inv'
<1>1. /\ TypeOK /\ VersionsOK(history) /\ HistoryOK(history, lost, newGroup)
      /\ LostOK(lost, newGroup) /\ RequestsOK /\ ShownOK /\ history \in Seq(Entries)
      /\ OrderlyLists(history, lost, request, queue, groupRow, roleRow, used, gone)
  BY TypeParts DEF Inv
<1>2. TypeOK'
  BY <1>1, ReadVersionType
<1>3. PICK p, q, v, n : /\ p = request[t] /\ v = LastVersion /\ n = Len(history)
                        /\ q = [p EXCEPT !.phase = "saving", !.version = v]
  OBVIOUS
<1>4. /\ p.phase = "decided" /\ p \in Busy
      /\ p.changes \in Seq(Events) /\ p.basis \in Nat /\ p.sent \in Nat
  BY <1>1, <1>3, RequestParts DEF ReadVersion
<1>5. /\ q.phase = "saving" /\ q.changes = p.changes /\ q.basis = p.basis
      /\ q.version = v /\ q.sent = p.sent
  BY <1>3, <1>4 DEF Busy
<1>6. /\ request' = [request EXCEPT ![t] = q]
      /\ history' = history /\ queue' = queue /\ groupRow' = groupRow /\ roleRow' = roleRow
      /\ used' = used /\ gone' = gone /\ lost' = lost /\ newGroup' = newGroup
  BY <1>3 DEF ReadVersion, views
<1>7. RequestOK(history, lost, newGroup, p) /\ p.sent = 0
  BY <1>1, <1>3, <1>4 DEF RequestsOK, RequestOK
<1>8. ~Inserted(p) /\ ~Inserted(q)
  BY <1>5, <1>7 DEF Inserted
<1>9. RequestOK(history, lost, newGroup, q)
  <2>1. /\ n \in Nat /\ v \in Nat /\ v <= n
        /\ \A k \in 1..n : history[k].version <= v
    <3>1. n \in Nat
      BY <1>1, <1>3
    <3> QED
      BY <1>1, <1>3, <3>1, LastVersionIs
  <2>2. p.basis <= n
    BY <1>3, <1>4, <1>7 DEF RequestOK
  <2>3. \A j \in 1..p.basis : history[j].version <= v
    BY <1>4, <2>1, <2>2
  <2> QED
    BY <1>3, <1>4, <1>5, <1>7, <2>1, <2>3 DEF RequestOK
<1>10. ASSUME NEW u \in Threads \ {t}
       PROVE  Apart(q, request[u]) /\ Apart(request[u], q)
  <2>1. Apart(p, request[u]) /\ Apart(request[u], p)
    BY <1>1, <1>3 DEF RequestsOK
  <2> QED
    BY <1>4, <1>5, <2>1, ApartSame
<1>11. \A u \in Threads : RequestOK(history, lost, newGroup, request[u])
  BY <1>1 DEF RequestsOK
<1>12. RequestsOK'
  BY <1>1, <1>6, <1>9, <1>10, <1>11, RequestsAfter
<1>13. ShownOK'
  BY <1>1, <1>3, <1>6, <1>8, PublishedStays, ShownStays
<1>14. OrderlyLists(history, lost, request', queue, groupRow, roleRow, used, gone)
  <2>1. PICK rq : rq = request'
    OBVIOUS
  <2>2. \A u \in Threads : rq[u] = IF u = t THEN q ELSE request[u]
    BY <1>1, <1>6, <2>1, TypeParts
  <2>3. \A u \in Threads : /\ Inserted(rq[u]) <=> Inserted(request[u])
                           /\ Inserted(request[u]) => rq[u] = request[u]
    BY <1>3, <1>8, <2>2
  <2>4. OrderlyLists(history, lost, rq, queue, groupRow, roleRow, used, gone)
    BY <1>1, <2>3, ListsStay
  <2> QED
    BY <2>1, <2>4
<1> QED
  BY <1>1, <1>2, <1>6, <1>12, <1>13, <1>14 DEF Inv

\* The next event is published, and waits for the views.
LEMMA StandsSent ==
  ASSUME NEW s \in Seq(Events), NEW e \in Events, NEW on, NEW off
  PROVE  Stands(Append(s, e), Len(Append(s, e)), on, off) <=>
           \/ e \in on
           \/ e \notin off /\ Stands(s, Len(s), on, off)
<1>1. PICK p, n : p = Append(s, e) /\ n = Len(s)
  OBVIOUS
<1>2. n \in Nat /\ Len(p) = n + 1 /\ p[n + 1] = e /\ \A i \in 1..n : p[i] = s[i]
  BY <1>1
<1>3. Stands(p, n, on, off) <=> Stands(s, n, on, off)
  BY <1>2, StandsSame
<1>4. Stands(p, n + 1, on, off) <=> e \in on \/ (e \notin off /\ Stands(s, n, on, off))
  BY <1>2, <1>3, StandsNext
<1> QED
  BY <1>1, <1>2, <1>4

LEMMA ListsSent ==
  ASSUME NEW s \in Seq(Events), NEW q \in Seq(Events), NEW e \in Events,
         e.type # "ApplicationRoleDeleted",
         NEW groupIs, NEW roleIs, NEW pairs, NEW lostRoles,
         ListsOK(s, q, groupIs, roleIs, pairs, lostRoles)
  PROVE  ListsOK(Append(s, e), Append(q, e), groupIs, roleIs, pairs, lostRoles)
<1>1. PICK x, y : x = Append(s, e) /\ y = Append(q, e)
  OBVIOUS
<1>2. ASSUME NEW on, NEW off
      PROVE  Stands(x, Len(x), on, off) <=>
               e \in on \/ (e \notin off /\ Stands(s, Len(s), on, off))
  BY <1>1, StandsSent
<1>3. ASSUME NEW row \in BOOLEAN, NEW on, NEW off
      PROVE  Settles(y, row, on, off) <=>
               e \in on \/ (e \notin off /\ Settles(q, row, on, off))
  BY <1>1, SettlesSent
<1>4. SUFFICES ASSUME ~Stands(x, Len(x), Ends, {})
               PROVE  ListsOK(x, y, groupIs, roleIs, pairs, lostRoles)
  BY <1>1 DEF ListsOK
<1>5. e \notin Ends /\ ~Stands(s, Len(s), Ends, {})
  BY <1>2, <1>4
<1>6. ASSUME NEW g \in Groups
      PROVE  Settles(y, groupIs[g] = "live", CreatesGroup(g), DeletesGroup(g) \cup Ends)
               <=> GroupStands(x, Len(x), g)
  <2>1. Settles(q, groupIs[g] = "live", CreatesGroup(g), DeletesGroup(g) \cup Ends)
          <=> GroupStands(s, Len(s), g)
    BY <1>5 DEF ListsOK
  <2>2. Settles(y, groupIs[g] = "live", CreatesGroup(g), DeletesGroup(g) \cup Ends) <=>
          \/ e \in CreatesGroup(g)
          \/ /\ e \notin DeletesGroup(g) \cup Ends
             /\ Settles(q, groupIs[g] = "live", CreatesGroup(g), DeletesGroup(g) \cup Ends)
    BY <1>3
  <2>3. GroupStands(x, Len(x), g) <=>
          e \in CreatesGroup(g) \/ (e \notin DeletesGroup(g) /\ GroupStands(s, Len(s), g))
    BY <1>2 DEF GroupStands
  <2> QED
    BY <1>5, <2>1, <2>2, <2>3
<1>7. ASSUME NEW r \in Roles
      PROVE  /\ Settles(y, roleIs[r] = "live", AddsRole(r), HidesRole(r)) =>
                  RoleStands(x, Len(x), r)
             /\ r \notin lostRoles /\ RoleStands(x, Len(x), r) =>
                  Settles(y, roleIs[r] = "live", AddsRole(r), HidesRole(r))
  <2>1. /\ Settles(q, roleIs[r] = "live", AddsRole(r), HidesRole(r)) =>
             RoleStands(s, Len(s), r)
        /\ r \notin lostRoles /\ RoleStands(s, Len(s), r) =>
             Settles(q, roleIs[r] = "live", AddsRole(r), HidesRole(r))
    BY <1>5 DEF ListsOK
  <2>2. Settles(y, roleIs[r] = "live", AddsRole(r), HidesRole(r)) <=>
          \/ e \in AddsRole(r)
          \/ /\ e \notin HidesRole(r)
             /\ Settles(q, roleIs[r] = "live", AddsRole(r), HidesRole(r))
    BY <1>3
  <2>3. RoleStands(x, Len(x), r) <=>
          e \in AddsRole(r) \/ (e \notin DeletesRole(r) /\ RoleStands(s, Len(s), r))
    BY <1>2 DEF RoleStands
  <2>4. e \in HidesRole(r) <=> e \in DeletesRole(r)
    BY <1>5, EventFields DEF HidesRole
  <2> QED
    BY <2>1, <2>2, <2>3, <2>4
<1>8. ASSUME NEW g \in Groups, NEW r \in Roles \ lostRoles, GroupRoleStands(x, Len(x), g, r)
      PROVE  Settles(y, << g, r >> \in pairs, GivesRole(g, r),
                     {Event("GroupRoleDeleted", g, r)} \cup HidesRole(r))
  <2> DEFINE off == {Event("GroupRoleDeleted", g, r)} \cup HidesRole(r)
  <2>1. GroupRoleStands(s, Len(s), g, r) =>
          Settles(q, << g, r >> \in pairs, GivesRole(g, r), off)
    BY <1>5 DEF ListsOK
  <2>2. Settles(y, << g, r >> \in pairs, GivesRole(g, r), off) <=>
          \/ e \in GivesRole(g, r)
          \/ e \notin off /\ Settles(q, << g, r >> \in pairs, GivesRole(g, r), off)
    <3> HIDE DEF off
    <3>1. (<< g, r >> \in pairs) \in BOOLEAN
      OBVIOUS
    <3> QED
      BY <1>3, <3>1, Zenon
  <2>3. GroupRoleStands(x, Len(x), g, r) <=>
          e \in GivesRole(g, r) \/ (e \notin TakesRole(g, r) /\ GroupRoleStands(s, Len(s), g, r))
    BY <1>2 DEF GroupRoleStands
  <2>4. e \in off => e \in TakesRole(g, r)
    BY <1>5, EventFields DEF HidesRole, TakesRole
  <2> QED
    BY <1>8, <2>1, <2>2, <2>3, <2>4
<1>9. ListsOK(x, y, groupIs, roleIs, pairs, lostRoles)
  BY <1>6, <1>7, <1>8 DEF ListsOK
<1> QED
  BY <1>9

LEMMA OneMore ==
  ASSUME NEW S, NEW c \in Seq(S), NEW m \in Nat, m < Len(c)
  PROVE  /\ SubSeq(c, 1, m) \in Seq(S)
         /\ SubSeq(c, 1, m + 1) = Append(SubSeq(c, 1, m), c[m + 1])
<1>1. Len(c) \in Nat /\ \A k \in 1..Len(c) : c[k] \in S
  OBVIOUS
<1>2. PICK x, y : x = SubSeq(c, 1, m) /\ y = SubSeq(c, 1, m + 1)
  OBVIOUS
<1>3. x \in Seq(S) /\ Len(x) = m /\ \A k \in 1..m : x[k] = c[k]
  BY <1>1, <1>2
<1>4. y \in Seq(S) /\ Len(y) = m + 1 /\ \A k \in 1..(m + 1) : y[k] = c[k]
  BY <1>1, <1>2
<1>5. c[m + 1] \in S
  BY <1>1
<1>6. PICK z : z = Append(x, c[m + 1])
  OBVIOUS
<1>7. z \in Seq(S) /\ Len(z) = m + 1 /\ \A k \in 1..(m + 1) : z[k] = c[k]
  BY <1>3, <1>5, <1>6
<1>8. y = z
  BY <1>4, <1>7
<1> QED
  BY <1>2, <1>3, <1>6, <1>8

\* Of a save that has inserted nothing, no event was published.
LEMMA NoneSent ==
  ASSUME NEW s \in Seq(Events), NEW p, p.changes \in Seq(Events), p.sent = 0
  PROVE  s \o SentOf(p) = s
<1>1. SentOf(p) = << >>
  BY DEF SentOf
<1> QED
  BY <1>1

\* Request p of thread t inserts a row, with event e, and becomes q.
LEMMA ListsInserted ==
  ASSUME NEW h \in Seq(Entries), NEW l, NEW rq \in [Threads -> {Idle} \cup Busy],
         NEW w \in Seq(Events), NEW e \in Events, e.type # "ApplicationRoleDeleted",
         NEW groupIs, NEW roleIs, NEW pairs, NEW lostRoles,
         OrderlyLists(h, l, rq, w, groupIs, roleIs, pairs, lostRoles),
         NEW t \in Threads, NEW p, p = rq[t], p.phase = "saving", p.sent \in Nat,
         p.changes \in Seq(Events), SentOf(p) \in Seq(Events),
         NEW q, SentOf(q) = Append(SentOf(p), e), Inserted(q), q.version = p.version,
         NEW new, new = [rq EXCEPT ![t] = q]
  PROVE  OrderlyLists(h, l, new, Append(w, e), groupIs, roleIs, pairs, lostRoles)
<1>1. SUFFICES ASSUME Orderly(h, l, new)
               PROVE  OrderlyLists(h, l, new, Append(w, e), groupIs, roleIs, pairs, lostRoles)
  BY DEF OrderlyLists
<1>0. \A u \in Threads : new[u] = IF u = t THEN q ELSE rq[u]
  OBVIOUS
<1>2. /\ new[t] = q /\ Inserted(new[t])
      /\ \A u \in Threads : Inserted(new[u]) => u = t
  BY <1>0, <1>1 DEF Orderly
<1>3. \A u \in Threads : Inserted(rq[u]) => u = t
  BY <1>0, <1>2
<1>4. Orderly(h, l, rq)
  BY <1>1, <1>2, <1>3 DEF Orderly
<1>5. PICK s : s = EventsOf(h)
  OBVIOUS
<1>6. s \in Seq(Events)
  BY <1>5, EventsOfType
<1>7. ListsOK(s \o SentOf(p), w, groupIs, roleIs, pairs, lostRoles)
  <2>1. CASE p.sent = 0
    <3>1. ~Inserted(rq[t])
      BY <2>1 DEF Inserted
    <3>2. ListsOK(s, w, groupIs, roleIs, pairs, lostRoles)
      BY <1>3, <1>4, <1>5, <3>1 DEF OrderlyLists
    <3>3. s \o SentOf(p) = s
      BY <1>6, <2>1, NoneSent
    <3> QED
      BY <3>2, <3>3
  <2>2. CASE p.sent # 0
    <3>1. Inserted(rq[t])
      BY <2>2 DEF Inserted
    <3> QED
      BY <1>4, <1>5, <3>1 DEF OrderlyLists
  <2> QED
    BY <2>1, <2>2
<1>8. PICK x, y : x = s \o SentOf(p) /\ y = s \o SentOf(q)
  OBVIOUS
<1>9. x \in Seq(Events) /\ y = Append(x, e)
  <2>1. PICK a : a = SentOf(p)
    OBVIOUS
  <2>2. a \in Seq(Events) /\ SentOf(q) = Append(a, e)
    BY <2>1, Zenon
  <2>4. x = s \o a /\ y = s \o Append(a, e)
    BY <1>8, <2>1, <2>2, Zenon
  <2>3. s \o a \in Seq(Events) /\ s \o Append(a, e) = Append(s \o a, e)
    <3>1. s \in Seq(Events) /\ a \in Seq(Events) /\ e \in Events
      BY <1>6, <2>2
    <3> QED
      BY ONLY <3>1, JoinedAppend
  <2> QED
    BY <2>3, <2>4, Zenon
<1>10. ListsOK(y, Append(w, e), groupIs, roleIs, pairs, lostRoles)
  BY <1>7, <1>8, <1>9, ListsSent
<1> QED
  BY <1>2, <1>5, <1>8, <1>10 DEF OrderlyLists

LEMMA InsertEventStep ==
  ASSUME Inv, NEW t \in Threads, InsertEvent(t)
  PROVE  Inv'
<1>1. /\ TypeOK /\ VersionsOK(history) /\ HistoryOK(history, lost, newGroup)
      /\ LostOK(lost, newGroup) /\ RequestsOK /\ ShownOK /\ history \in Seq(Entries)
      /\ OrderlyLists(history, lost, request, queue, groupRow, roleRow, used, gone)
  BY TypeParts DEF Inv
<1>2. TypeOK'
  BY <1>1, InsertEventType
<1>3. PICK p, q, e : /\ p = request[t] /\ q = [p EXCEPT !.sent = @ + 1]
                     /\ e = p.changes[p.sent + 1]
  OBVIOUS
<1>4. /\ p.phase = "saving" /\ p \in Busy /\ p.sent < Len(p.changes)
      /\ p.changes \in Seq(Events) /\ p.basis \in Nat /\ p.sent \in Nat
  BY <1>1, <1>3, RequestParts DEF InsertEvent
<1>5. /\ q.phase = "saving" /\ q.changes = p.changes /\ q.basis = p.basis
      /\ q.version = p.version /\ q.sent = p.sent + 1
  BY <1>3, <1>4 DEF Busy
<1>6. /\ request' = [request EXCEPT ![t] = q] /\ queue' = Append(queue, e)
      /\ history' = history /\ groupRow' = groupRow /\ roleRow' = roleRow
      /\ used' = used /\ gone' = gone /\ lost' = lost /\ newGroup' = newGroup
  BY <1>3 DEF InsertEvent, views
<1>7. RequestOK(history, lost, newGroup, p)
  BY <1>1, <1>3 DEF RequestsOK
<1>8. Inserted(q)
  BY <1>4, <1>5 DEF Inserted
<1>9. RequestOK(history, lost, newGroup, q)
  <2>1. q.sent <= Len(q.changes)
    BY <1>4, <1>5
  <2> QED
    BY <1>4, <1>5, <1>7, <2>1 DEF RequestOK
<1>10. ASSUME NEW u \in Threads \ {t}
       PROVE  Apart(q, request[u]) /\ Apart(request[u], q)
  <2>1. Apart(p, request[u]) /\ Apart(request[u], p)
    BY <1>1, <1>3 DEF RequestsOK
  <2> QED
    BY <1>4, <1>5, <2>1, ApartSame
<1>11. \A u \in Threads : RequestOK(history, lost, newGroup, request[u])
  BY <1>1 DEF RequestsOK
<1>12. RequestsOK'
  BY <1>1, <1>6, <1>9, <1>10, <1>11, RequestsAfter
<1>13. \A u \in Threads : request'[u] = IF u = t THEN q ELSE request[u]
  BY <1>1, <1>6, TypeParts
<1>14. p.sent + 1 \in 1..Len(p.changes) /\ p.sent + 1 \in DOMAIN p.changes
  BY <1>4
<1>15. e \in Events /\ e.type # "ApplicationRoleDeleted"
  <2>1. e \in Events
    BY <1>3, <1>4, <1>14
  <2>2. EntryOK(history, lost, p.basis, p.changes[p.sent + 1])
    BY <1>4, <1>7, <1>14 DEF RequestOK, ChangesOK
  <2> QED
    BY <1>3, <2>1, <2>2 DEF EntryOK
<1>16. ASSUME NEW x, Published(x)
       PROVE  Published(x)'
  <2>1. CASE \E u \in Threads : /\ Inserted(request[u])
                                /\ \E k \in 1..request[u].sent : request[u].changes[k] = x
    <3>1. PICK u \in Threads : /\ Inserted(request[u])
                               /\ \E k \in 1..request[u].sent : request[u].changes[k] = x
      BY <2>1
    <3>2. CASE u = t
      <4>1. PICK k \in 1..p.sent : p.changes[k] = x
        BY <1>3, <3>1, <3>2
      <4>2. k \in 1..q.sent /\ q.changes[k] = x
        BY <1>4, <1>5, <4>1
      <4>3. request'[t] = q
        BY <1>13
      <4> QED
        BY <1>8, <4>2, <4>3 DEF Published
    <3>3. CASE u # t
      <4>1. request'[u] = request[u]
        BY <1>13, <3>3
      <4>2. /\ Inserted(request'[u])
            /\ \E k \in 1..request'[u].sent : request'[u].changes[k] = x
        BY <3>1, <4>1
      <4> QED
        BY <4>2 DEF Published
    <3> QED
      BY <3>2, <3>3
  <2>2. CASE (\E k \in DOMAIN history : history[k].event = x) \/ x \in lost
    BY <1>6, <2>2 DEF Published
  <2> QED
    BY <1>16, <2>1, <2>2 DEF Published
<1>17. Published(e)'
  <2>1. p.sent + 1 \in 1..q.sent /\ q.changes[p.sent + 1] = e
    BY <1>3, <1>4, <1>5
  <2>2. request'[t] = q
    BY <1>13
  <2> QED
    BY <1>8, <2>1, <2>2 DEF Published
<1>18. ShownOK'
  <2>1. queue \in Seq(Events)
    BY <1>1, TypeParts
  <2>2. \A k \in DOMAIN queue' : queue'[k] = e \/ (k \in DOMAIN queue /\ queue'[k] = queue[k])
    BY <1>6, <2>1
  <2>3. ASSUME NEW k \in DOMAIN queue', queue'[k].type \in {"GroupCreated", "RoleAdded"}
        PROVE  Published(queue[k])'
    <3>1. PICK x : x = queue'[k]
      OBVIOUS
    <3>2. x = e \/ Published(x)
      BY <1>1, <2>2, <2>3, <3>1 DEF ShownOK
    <3>3. Published(x)'
      BY <1>16, <1>17, <3>2
    <3> QED
      BY <3>1, <3>3 DEF Published
  <2>4. \A g \in Groups : groupRow'[g] # "absent" => Published(Event("GroupCreated", g, NoRole))'
    BY <1>1, <1>6, <1>16 DEF ShownOK
  <2>5. \A r \in Roles : roleRow'[r] # "absent" => Published(Event("RoleAdded", NoGroup, r))'
    BY <1>1, <1>6, <1>16 DEF ShownOK
  <2> QED
    BY <2>3, <2>4, <2>5 DEF ShownOK
<1>19. OrderlyLists(history, lost, request', queue', groupRow, roleRow, used, gone)
  <2>1. PICK new : new = request'
    OBVIOUS
  <2>2. new = [request EXCEPT ![t] = q] /\ request \in [Threads -> {Idle} \cup Busy]
    BY <1>1, <1>6, <2>1, TypeParts
  <2>3. SentOf(p) \in Seq(Events) /\ SentOf(q) = Append(SentOf(p), e)
    <3>1. PICK c, m : c = p.changes /\ m = p.sent
      OBVIOUS
    <3>2. c \in Seq(Events) /\ m \in Nat /\ m < Len(c)
      BY <1>4, <3>1
    <3>3. /\ SubSeq(c, 1, m) \in Seq(Events)
          /\ SubSeq(c, 1, m + 1) = Append(SubSeq(c, 1, m), c[m + 1])
      BY <3>2, OneMore
    <3>4. /\ SentOf(p) = SubSeq(c, 1, m) /\ SentOf(q) = SubSeq(c, 1, m + 1)
          /\ e = c[m + 1]
      BY <1>3, <1>5, <3>1 DEF SentOf
    <3> QED
      BY <3>3, <3>4
  <2>4. queue \in Seq(Events)
    BY <1>1, TypeParts
  <2>5. OrderlyLists(history, lost, new, Append(queue, e), groupRow, roleRow, used, gone)
    <3>1. /\ p = request[t] /\ p.phase = "saving" /\ p.sent \in Nat /\ p.changes \in Seq(Events)
          /\ q.version = p.version /\ Inserted(q)
          /\ e \in Events /\ e.type # "ApplicationRoleDeleted"
      BY <1>3, <1>4, <1>5, <1>8, <1>15
    <3>2. /\ history \in Seq(Entries)
          /\ OrderlyLists(history, lost, request, queue, groupRow, roleRow, used, gone)
      BY <1>1
    <3> QED
      BY <2>2, <2>3, <2>4, <3>1, <3>2, ListsInserted
  <2> QED
    BY <1>6, <2>1, <2>5
<1> QED
  BY <1>1, <1>2, <1>6, <1>12, <1>18, <1>19 DEF Inv

\* A history to which a commit of request p has added its events.
Grown(h, p, g) ==
  /\ g \in Seq(Entries)
  /\ Len(h) \in Nat /\ Len(p.changes) \in Nat
  /\ Len(g) = Len(h) + Len(p.changes)
  /\ DOMAIN h = 1..Len(h) /\ DOMAIN p.changes = 1..Len(p.changes) /\ DOMAIN g = 1..Len(g)
  /\ \A k \in 1..Len(h) : g[k] = h[k]
  /\ \A k \in (Len(h) + 1)..Len(g) : /\ k - Len(h) \in DOMAIN p.changes
                                     /\ g[k].event = p.changes[k - Len(h)]
                                     /\ g[k].basis = p.basis
                                     /\ g[k].version = p.version + (k - Len(h))
  /\ \A k \in DOMAIN p.changes : Len(h) + k \in DOMAIN g /\ g[Len(h) + k].event = p.changes[k]

LEMMA CommitGrows ==
  ASSUME NEW h \in Seq(Entries), NEW p, p.changes \in Seq(Events), p.basis \in Nat,
         p.version \in Nat
  PROVE  Grown(h, p, h \o Committed(p))
<1>1. PICK c, n, m, g : c = Committed(p) /\ n = Len(h) /\ m = Len(c) /\ g = h \o c
  OBVIOUS
<1>2. /\ c \in Seq(Entries) /\ m = Len(p.changes)
      /\ DOMAIN c = DOMAIN p.changes /\ DOMAIN p.changes = 1..m
      /\ \A k \in DOMAIN p.changes : /\ c[k].event = p.changes[k] /\ c[k].basis = p.basis
                                     /\ c[k].version = p.version + k
  BY <1>1, CommittedType
<1>3. /\ g \in Seq(Entries) /\ n \in Nat /\ m \in Nat /\ Len(g) = n + m
      /\ DOMAIN h = 1..n /\ DOMAIN g = 1..(n + m)
      /\ \A k \in 1..n : g[k] = h[k]
      /\ \A k \in (n + 1)..(n + m) : k - n \in 1..m /\ g[k] = c[k - n]
  <2>1. g \in Seq(Entries) /\ n \in Nat /\ m \in Nat
    BY <1>1, <1>2
  <2>2. Len(g) = n + m /\ DOMAIN h = 1..n /\ DOMAIN g = 1..(n + m)
    <3>1. Len(g) = n + m
      <4>1. \A a, b \in Seq(Entries) : Len(a \o b) = Len(a) + Len(b)
        OBVIOUS
      <4> QED
        BY <1>1, <1>2, <4>1
    <3>2. DOMAIN h = 1..n
      BY <1>1
    <3>3. DOMAIN g = 1..Len(g)
      BY <2>1
    <3> QED
      BY <3>1, <3>2, <3>3
  <2>3. \A k \in 1..n : g[k] = h[k]
    BY <1>1, <1>2
  <2>4. \A k \in (n + 1)..(n + m) : k - n \in 1..m
    BY <2>1
  <2>5. \A k \in (n + 1)..(n + m) : g[k] = c[k - n]
    BY <1>1, <1>2
  <2> QED
    BY <2>1, <2>2, <2>3, <2>4, <2>5
<1>4. \A k \in (n + 1)..(n + m) : /\ k - n \in DOMAIN p.changes
                                  /\ g[k].event = p.changes[k - n]
                                  /\ g[k].basis = p.basis
                                  /\ g[k].version = p.version + (k - n)
  <2>1. ASSUME NEW k \in (n + 1)..(n + m)
        PROVE  /\ k - n \in DOMAIN p.changes
               /\ g[k].event = p.changes[k - n]
               /\ g[k].basis = p.basis
               /\ g[k].version = p.version + (k - n)
    <3>1. k - n \in 1..m /\ g[k] = c[k - n]
      BY <1>3
    <3>2. PICK i : i = k - n
      OBVIOUS
    <3>3. i \in DOMAIN p.changes /\ g[k] = c[i]
      BY <1>2, <3>1, <3>2
    <3>4. /\ g[k].event = p.changes[i] /\ g[k].basis = p.basis
          /\ g[k].version = p.version + i
      BY <1>2, <3>3
    <3> QED
      BY <3>2, <3>3, <3>4
  <2> QED
    BY <2>1
<1>5. \A k \in 1..m : n + k \in (n + 1)..(n + m) /\ (n + k) - n = k /\ n + k \in 1..(n + m)
  BY <1>3
<1>6. \A k \in DOMAIN p.changes : n + k \in DOMAIN g /\ g[n + k].event = p.changes[k]
  BY <1>2, <1>3, <1>4, <1>5
<1>7. Grown(h, p, g)
  BY <1>1, <1>2, <1>3, <1>4, <1>6 DEF Grown
<1> QED
  BY <1>1, <1>7

\* The events of the grown history.
EventsFollow(g, h, c) == EventsOf(g) = EventsOf(h) \o c

LEMMA GrownEvents ==
  ASSUME NEW h \in Seq(Entries), NEW p, p.changes \in Seq(Events), NEW g, Grown(h, p, g)
  PROVE  EventsFollow(g, h, p.changes)
<1>1. PICK s, c, n, m : s = EventsOf(h) /\ c = p.changes /\ n = Len(h) /\ m = Len(c)
  OBVIOUS
<1>2. s \in Seq(Events) /\ Len(s) = n /\ n \in Nat /\ \A k \in 1..n : s[k] = h[k].event
  BY <1>1, EventsOfType
<1>3. /\ g \in Seq(Entries) /\ m \in Nat /\ Len(g) = n + m /\ DOMAIN g = 1..(n + m)
      /\ DOMAIN c = 1..m
      /\ \A k \in 1..n : g[k] = h[k]
      /\ \A k \in (n + 1)..(n + m) : k - n \in 1..m /\ g[k].event = c[k - n]
  BY <1>1 DEF Grown
<1>4. PICK x, y : x = EventsOf(g) /\ y = s \o c
  OBVIOUS
<1>5. x \in Seq(Events) /\ Len(x) = n + m /\ \A k \in 1..(n + m) : x[k] = g[k].event
  BY <1>3, <1>4, EventsOfType
<1>6. c \in Seq(Events)
  BY <1>1
<1>7. /\ y \in Seq(Events) /\ Len(y) = n + m
      /\ \A k \in 1..n : y[k] = s[k]
      /\ \A k \in (n + 1)..(n + m) : y[k] = c[k - n]
  <2>1. y \in Seq(Events) /\ Len(y) = n + m
    <3>1. \A a, b \in Seq(Events) : a \o b \in Seq(Events) /\ Len(a \o b) = Len(a) + Len(b)
      OBVIOUS
    <3>2. s \in Seq(Events) /\ c \in Seq(Events) /\ Len(s) = n /\ Len(c) = m /\ y = s \o c
      BY <1>1, <1>2, <1>4, <1>6
    <3>3. s \o c \in Seq(Events) /\ Len(s \o c) = Len(s) + Len(c)
      BY <3>1, <3>2
    <3> QED
      BY <3>2, <3>3
  <2>2. \A k \in 1..n : y[k] = s[k]
    BY <1>1, <1>2, <1>4, <1>6
  <2>3. \A k \in (n + 1)..(n + m) : y[k] = c[k - n]
    BY <1>1, <1>2, <1>4, <1>6
  <2> QED
    BY <2>1, <2>2, <2>3
<1>8. \A k \in 1..(n + m) : k \in 1..n \/ k \in (n + 1)..(n + m)
  <2>1. ASSUME NEW k \in 1..(n + m), k \notin 1..n
        PROVE  k \in (n + 1)..(n + m)
    <3>1. n \in Nat /\ m \in Nat /\ k \in Int
      BY <1>2, <1>3
    <3> QED
      BY <2>1, <3>1
  <2> QED
    BY <2>1
<1>9. \A k \in 1..(n + m) : x[k] = y[k]
  <2>1. ASSUME NEW k \in 1..(n + m)
        PROVE  x[k] = y[k]
    <3>1. x[k] = g[k].event
      BY <1>5
    <3>2. CASE k \in 1..n
      <4>1. y[k] = s[k] /\ s[k] = h[k].event /\ g[k] = h[k]
        BY <1>2, <1>3, <1>7, <3>2
      <4> QED
        BY <3>1, <4>1
    <3>3. CASE k \in (n + 1)..(n + m)
      <4>1. y[k] = c[k - n] /\ g[k].event = c[k - n]
        BY <1>3, <1>7, <3>3
      <4> QED
        BY <3>1, <4>1
    <3> QED
      BY <1>8, <3>2, <3>3
  <2> QED
    BY <2>1
<1>10. x = y
  BY <1>5, <1>7, <1>9
<1> QED
  BY <1>1, <1>4, <1>10 DEF EventsFollow

\* The rows that the commit added have greater versions than those loaded.
LEMMA GrownVersions ==
  ASSUME NEW h \in Seq(Entries), NEW p, p.basis \in Nat, p.version \in Nat,
         NEW g, Grown(h, p, g), VersionsOK(h), p.basis <= Len(h), p.version <= Len(h),
         \A j \in 1..(p.basis) : h[j].version <= p.version
  PROVE  VersionsOK(g)
<1>1. PICK n, b, v : n = Len(h) /\ b = p.basis /\ v = p.version
  OBVIOUS
<1>2. /\ n \in Nat /\ DOMAIN h = 1..n /\ DOMAIN g = 1..Len(g) /\ Len(g) \in Nat
      /\ \A k \in 1..n : g[k] = h[k]
      /\ \A k \in (n + 1)..Len(g) : g[k].basis = b /\ g[k].version = v + (k - n)
  BY <1>1 DEF Grown
<1>3. /\ b \in Nat /\ v \in Nat /\ b <= n /\ v <= n
      /\ \A j \in 1..b : h[j].version <= v
  BY <1>1
<1>4. \A k \in 1..n : h[k].version \in Nat /\ h[k].basis \in Nat
  BY <1>1, EventsOfType
<1>5. ASSUME NEW k \in 1..n
      PROVE  /\ g[k].version \in 1..k /\ g[k].basis < k
             /\ \A j \in 1..(g[k].basis) : g[j].version < g[k].version
  <2>1. /\ h[k].version \in 1..k /\ h[k].basis < k
        /\ \A j \in 1..(h[k].basis) : h[j].version < h[k].version
    BY <1>2 DEF VersionsOK
  <2>2. \A j \in 1..(h[k].basis) : j \in 1..n
    BY <1>2, <1>4, <2>1
  <2> QED
    BY <1>2, <2>1, <2>2
<1>6. ASSUME NEW k \in (n + 1)..Len(g)
      PROVE  /\ g[k].version \in 1..k /\ g[k].basis < k
             /\ \A j \in 1..(g[k].basis) : g[j].version < g[k].version
  <2>1. g[k].basis = b /\ g[k].version = v + (k - n)
    BY <1>2
  <2>2. v + (k - n) \in 1..k /\ b < k
    BY <1>2, <1>3
  <2>3. ASSUME NEW j \in 1..b
        PROVE  g[j].version < v + (k - n)
    <3>1. j \in 1..n /\ g[j] = h[j]
      BY <1>2, <1>3
    <3>2. h[j].version <= v /\ h[j].version \in Nat
      BY <1>3, <1>4, <3>1
    <3> QED
      BY <1>2, <1>3, <3>1, <3>2
  <2> QED
    BY <2>1, <2>2, <2>3
<1>7. \A k \in 1..Len(g) : k \in 1..n \/ k \in (n + 1)..Len(g)
  BY <1>2
<1> QED
  BY <1>2, <1>5, <1>6, <1>7 DEF VersionsOK

LEMMA GrownHistory ==
  ASSUME NEW h \in Seq(Entries), NEW p, p.changes \in Seq(Events), p.basis \in Nat,
         NEW g, Grown(h, p, g), NEW l, NEW m, VersionsOK(h), HistoryOK(h, l, m),
         p.phase # "idle", RequestOK(h, l, m, p)
  PROVE  HistoryOK(g, l, m)
<1>1. PICK n, c : n = Len(h) /\ c = p.changes
  OBVIOUS
<1>3. /\ n \in Nat /\ DOMAIN h = 1..n /\ DOMAIN g = 1..Len(g) /\ Len(g) \in Nat
      /\ \A k \in 1..n : g[k] = h[k]
      /\ \A k \in (n + 1)..Len(g) : /\ k - n \in DOMAIN c
                                    /\ g[k].event = c[k - n]
                                    /\ g[k].basis = p.basis
  BY <1>1 DEF Grown
<1>4. /\ p.basis <= n
      /\ \A k \in DOMAIN c :
           /\ EntryOK(h, l, p.basis, c[k])
           /\ c[k].type = "GroupCreated" =>
                /\ c[k].group < m
                /\ c[k] \notin l
                /\ \A j \in DOMAIN h : h[j].event # c[k]
                /\ \A j \in DOMAIN c : c[j] = c[k] => j = k
  BY <1>1 DEF RequestOK, ChangesOK
<1>5. \A k \in DOMAIN h :
        /\ h[k].basis < k
        /\ EntryOK(h, l, h[k].basis, h[k].event)
        /\ h[k].event.type = "GroupCreated" =>
             /\ h[k].event.group < m
             /\ h[k].event \notin l
             /\ \A j \in DOMAIN h : h[j].event = h[k].event => j = k
  BY DEF HistoryOK, VersionsOK
<1>6. \A k \in DOMAIN g : k \in 1..n \/ k \in (n + 1)..Len(g)
  BY <1>3
<1>7. ASSUME NEW k \in 1..n
      PROVE  /\ EntryOK(g, l, g[k].basis, g[k].event)
             /\ g[k].event.type = "GroupCreated" =>
                  /\ g[k].event.group < m
                  /\ g[k].event \notin l
                  /\ \A j \in DOMAIN g : g[j].event = g[k].event => j = k
  <2>1. g[k] = h[k] /\ k \in DOMAIN h /\ h[k].basis \in Nat
    BY <1>1, <1>3, EventsOfType
  <2>2. h[k].basis < k /\ EntryOK(h, l, h[k].basis, h[k].event)
    BY <1>5, <2>1
  <2>3. \A i \in 1..(h[k].basis) : g[i] = h[i]
    BY <1>3, <2>1, <2>2
  <2>4. EntryOK(g, l, h[k].basis, h[k].event)
    BY <2>1, <2>2, <2>3, EntrySame
  <2>5. ASSUME h[k].event.type = "GroupCreated", NEW j \in DOMAIN g, g[j].event = h[k].event
        PROVE  j = k
    <3>1. CASE j \in 1..n
      BY <1>3, <1>5, <2>1, <2>5, <3>1
    <3>2. CASE j \in (n + 1)..Len(g)
      <4>1. j - n \in DOMAIN c /\ g[j].event = c[j - n]
        BY <1>3, <3>2
      <4>2. c[j - n].type = "GroupCreated"
        BY <2>5, <4>1
      <4> QED
        BY <1>4, <2>1, <2>5, <4>1, <4>2
    <3> QED
      BY <1>6, <3>1, <3>2
  <2> QED
    BY <1>5, <2>1, <2>4, <2>5
<1>8. ASSUME NEW k \in (n + 1)..Len(g)
      PROVE  /\ EntryOK(g, l, g[k].basis, g[k].event)
             /\ g[k].event.type = "GroupCreated" =>
                  /\ g[k].event.group < m
                  /\ g[k].event \notin l
                  /\ \A j \in DOMAIN g : g[j].event = g[k].event => j = k
  <2>1. PICK i : i = k - n
    OBVIOUS
  <2>2. i \in DOMAIN c /\ g[k].event = c[i] /\ g[k].basis = p.basis
    BY <1>3, <2>1
  <2>4. \A j \in 1..(p.basis) : g[j] = h[j]
    BY <1>3, <1>4
  <2>5. EntryOK(h, l, p.basis, c[i])
    BY <1>4, <2>2
  <2>6. EntryOK(g, l, p.basis, c[i])
    BY <2>4, <2>5, EntrySame
  <2>7. ASSUME c[i].type = "GroupCreated", NEW j \in DOMAIN g, g[j].event = c[i]
        PROVE  j = k
    <3>1. CASE j \in 1..n
      BY <1>3, <1>4, <2>2, <2>7, <3>1
    <3>2. CASE j \in (n + 1)..Len(g)
      <4>1. j - n \in DOMAIN c /\ g[j].event = c[j - n]
        BY <1>3, <3>2
      <4>2. j - n = i
        BY <1>4, <2>2, <2>7, <4>1
      <4> QED
        BY <1>3, <2>1, <3>2, <4>2
    <3> QED
      BY <1>6, <3>1, <3>2
  <2> QED
    BY <1>4, <2>2, <2>6, <2>7
<1> QED
  BY <1>1, <1>6, <1>7, <1>8 DEF HistoryOK

\* Another request after the commit.
LEMMA GrownRequest ==
  ASSUME NEW h \in Seq(Entries), NEW p, p.changes \in Seq(Events), p.basis \in Nat,
         NEW g, Grown(h, p, g), NEW l, NEW m, p.phase # "idle",
         NEW q, RequestOK(h, l, m, q), Apart(q, p),
         q.phase # "idle" => q.basis \in Nat /\ q.version \in Nat
  PROVE  RequestOK(g, l, m, q)
<1>1. SUFFICES ASSUME q.phase # "idle"
               PROVE  RequestOK(g, l, m, q)
  BY DEF RequestOK
<1>2. PICK n, c : n = Len(h) /\ c = q.changes
  OBVIOUS
<1>3. /\ n \in Nat /\ DOMAIN h = 1..n /\ DOMAIN g = 1..Len(g) /\ Len(g) \in Nat /\ n <= Len(g)
      /\ \A k \in 1..n : g[k] = h[k]
      /\ \A k \in (n + 1)..Len(g) : /\ k - n \in DOMAIN p.changes
                                    /\ g[k].event = p.changes[k - n]
  BY <1>2 DEF Grown
<1>4. /\ q.basis <= n /\ q.basis \in Nat /\ q.version \in Nat
      /\ q.sent <= Len(c) /\ 0 < Len(c)
      /\ q.phase = "decided" => q.sent = 0
      /\ q.phase = "saving" =>
           q.version <= n /\ \A j \in 1..(q.basis) : h[j].version <= q.version
      /\ ChangesOK(h, l, m, q.basis, c)
  BY <1>1, <1>2 DEF RequestOK
<1>5. /\ q.basis <= Len(g)
      /\ q.version <= n => q.version <= Len(g)
      /\ \A j \in 1..(q.basis) : g[j] = h[j]
  BY <1>3, <1>4
<1>6. q.phase = "saving" =>
        q.version <= Len(g) /\ \A j \in 1..(q.basis) : g[j].version <= q.version
  BY <1>4, <1>5
<1>7. ASSUME NEW k \in DOMAIN c
      PROVE  EntryOK(g, l, q.basis, c[k])
  <2>1. EntryOK(h, l, q.basis, c[k])
    BY <1>2, <1>4 DEF ChangesOK
  <2> QED
    BY <1>4, <1>5, <2>1, EntrySame
<1>8. ASSUME NEW k \in DOMAIN c, c[k].type = "GroupCreated"
      PROVE  /\ c[k].group < m
             /\ c[k] \notin l
             /\ \A j \in DOMAIN g : g[j].event # c[k]
             /\ \A j \in DOMAIN c : c[j] = c[k] => j = k
  <2>1. /\ c[k].group < m
        /\ c[k] \notin l
        /\ \A j \in DOMAIN h : h[j].event # c[k]
        /\ \A j \in DOMAIN c : c[j] = c[k] => j = k
    BY <1>4, <1>8 DEF ChangesOK
  <2>2. \A j \in DOMAIN p.changes : p.changes[j] # c[k]
    BY <1>1, <1>2, <1>8 DEF Apart
  <2>3. \A j \in DOMAIN g : j \in 1..n \/ j \in (n + 1)..Len(g)
    BY <1>3
  <2> QED
    BY <1>3, <2>1, <2>2, <2>3
<1>9. ChangesOK(g, l, m, q.basis, c)
  BY <1>2, <1>7, <1>8 DEF ChangesOK
<1> QED
  BY <1>2, <1>6, <1>4, <1>5, <1>9 DEF RequestOK

\* The commit of thread t: when the rows are numbered in the order of the commits,
\* nobody else has inserted rows, for they would have one of these numbers.
LEMMA ListsCommitted ==
  ASSUME NEW h \in Seq(Entries), NEW l, NEW rq \in [Threads -> {Idle} \cup Busy],
         NEW w, NEW groupIs, NEW roleIs, NEW pairs, NEW lostRoles,
         OrderlyLists(h, l, rq, w, groupIs, roleIs, pairs, lostRoles),
         NEW t \in Threads, NEW p, p = rq[t], p.phase = "saving", p.version \in Nat,
         p.changes \in Seq(Events), p.sent = Len(p.changes), 0 < Len(p.changes),
         NEW n, n = Len(h), \A u \in Threads : Inserted(rq[u]) => rq[u].version <= n,
         NEW g, Grown(h, p, g), NEW new, new = [rq EXCEPT ![t] = Idle]
  PROVE  OrderlyLists(g, l, new, w, groupIs, roleIs, pairs, lostRoles)
<1>1. SUFFICES ASSUME Orderly(g, l, new)
               PROVE  OrderlyLists(g, l, new, w, groupIs, roleIs, pairs, lostRoles)
  BY DEF OrderlyLists
<1>2. PICK m : m = Len(p.changes)
  OBVIOUS
<1>3. /\ n \in Nat /\ m \in Nat /\ 0 < m /\ Len(g) = n + m
      /\ DOMAIN h = 1..n /\ DOMAIN g = 1..(n + m)
      /\ \A k \in 1..n : g[k] = h[k]
      /\ \A k \in (n + 1)..(n + m) : g[k].version = p.version + (k - n)
  BY <1>2 DEF Grown
<1>4. \A k \in 1..(n + m) : g[k].version = k
  BY <1>1, <1>3 DEF Orderly, Numbered
<1>5. Numbered(h)
  <2>1. \A k \in 1..n : k \in 1..(n + m)
    BY <1>3
  <2> QED
    BY <1>3, <1>4, <2>1 DEF Numbered
<1>6. p.version = n
  <2>1. n + 1 \in (n + 1)..(n + m) /\ n + 1 \in 1..(n + m) /\ (n + 1) - n = 1
    BY <1>3
  <2>2. g[n + 1].version = p.version + 1 /\ g[n + 1].version = n + 1
    BY <1>3, <1>4, <2>1
  <2> QED
    BY <1>3, <2>2
<1>7. \A u \in Threads : new[u] = IF u = t THEN Idle ELSE rq[u]
  OBVIOUS
<1>8. ~Inserted(Idle)
  BY DEF Inserted, Idle
<1>9. ASSUME NEW u \in Threads, Inserted(new[u])
      PROVE  FALSE
  <2>1. new[u] = rq[u]
    BY <1>7, <1>8, <1>9
  <2>2. new[u].version = n + m
    BY <1>1, <1>3, <1>9 DEF Orderly
  <2>3. new[u].version <= n
    BY <1>9, <2>1
  <2> QED
    BY <1>3, <2>2, <2>3
<1>10. Inserted(p) /\ p.version = n
  BY <1>2, <1>3, <1>6 DEF Inserted
<1>11. \A u \in Threads : Inserted(rq[u]) => u = t
  BY <1>7, <1>9
<1>12. Orderly(h, l, rq)
  BY <1>1, <1>5, <1>10, <1>11 DEF Orderly
<1>13. ListsOK(EventsOf(h) \o SentOf(p), w, groupIs, roleIs, pairs, lostRoles)
  BY <1>10, <1>12 DEF OrderlyLists
<1>14. SentOf(p) = p.changes
  <2>1. \A c \in Seq(Events) : SubSeq(c, 1, Len(c)) = c
    OBVIOUS
  <2> QED
    BY <2>1 DEF SentOf
<1>15. EventsFollow(g, h, p.changes)
  BY GrownEvents
<1>16. ListsOK(EventsOf(g), w, groupIs, roleIs, pairs, lostRoles)
  BY <1>13, <1>14, <1>15 DEF EventsFollow
<1> QED
  BY <1>9, <1>16 DEF OrderlyLists

LEMMA CommitStep ==
  ASSUME Inv, NEW t \in Threads, Commit(t)
  PROVE  Inv'
<1>1. /\ TypeOK /\ VersionsOK(history) /\ HistoryOK(history, lost, newGroup)
      /\ LostOK(lost, newGroup) /\ RequestsOK /\ ShownOK /\ history \in Seq(Entries)
      /\ OrderlyLists(history, lost, request, queue, groupRow, roleRow, used, gone)
  BY TypeParts DEF Inv
<1>2. TypeOK'
  BY <1>1, CommitType
<1>3. PICK p, g, q, l, m : /\ p = request[t] /\ g = history \o Committed(p) /\ q = Idle
                           /\ l = lost /\ m = newGroup
  OBVIOUS
<1>4. /\ p.phase = "saving" /\ p.phase # "idle" /\ p.sent = Len(p.changes)
      /\ p.changes \in Seq(Events) /\ p.basis \in Nat /\ p.version \in Nat
  BY <1>1, <1>3, RequestParts DEF Commit
<1>5. q.phase = "idle"
  BY <1>3 DEF Idle
<1>6. /\ request' = [request EXCEPT ![t] = q] /\ history' = g
      /\ queue' = queue /\ groupRow' = groupRow /\ roleRow' = roleRow
      /\ used' = used /\ gone' = gone /\ lost' = l /\ newGroup' = m
  BY <1>3 DEF Commit, Committed, views
<1>7. RequestOK(history, l, m, p)
  BY <1>1, <1>3 DEF RequestsOK
<1>8. Grown(history, p, g)
  BY <1>1, <1>3, <1>4, CommitGrows
<1>9. VersionsOK(g)
  <2>1. /\ p.basis <= Len(history) /\ p.version <= Len(history)
        /\ \A j \in 1..(p.basis) : history[j].version <= p.version
    BY <1>4, <1>7 DEF RequestOK
  <2> QED
    BY <1>1, <1>4, <1>8, <2>1, GrownVersions
<1>10. HistoryOK(g, l, m)
  BY <1>1, <1>3, <1>4, <1>7, <1>8, GrownHistory
<1>11. ASSUME NEW u \in Threads \ {t}
       PROVE  RequestOK(g, l, m, request[u])
  <2>1. RequestOK(history, l, m, request[u]) /\ Apart(request[u], p)
    BY <1>1, <1>3 DEF RequestsOK
  <2>2. request[u].phase # "idle" => request[u].basis \in Nat /\ request[u].version \in Nat
    BY <1>1, RequestParts
  <2>3. PICK r : r = request[u]
    OBVIOUS
  <2>4. RequestOK(g, l, m, r)
    BY <1>1, <1>4, <1>8, <2>1, <2>2, <2>3, GrownRequest
  <2> QED
    BY <2>3, <2>4
<1>12. RequestOK(g, l, m, q) /\ \A u \in Threads \ {t} : Apart(q, request[u]) /\ Apart(request[u], q)
  BY <1>5 DEF RequestOK, Apart
<1>13. RequestsOK'
  BY <1>1, <1>6, <1>11, <1>12, RequestsAfter
<1>14. \A u \in Threads : request'[u] = IF u = t THEN q ELSE request[u]
  BY <1>1, <1>6, TypeParts
<1>15. ASSUME NEW x, Published(x)
       PROVE  Published(x)'
  <2>1. /\ DOMAIN history \subseteq DOMAIN g
        /\ \A k \in DOMAIN history : g[k] = history[k]
        /\ \A k \in DOMAIN p.changes : \E j \in DOMAIN g : g[j].event = p.changes[k]
    <3>1. /\ Len(history) \in Nat /\ Len(p.changes) \in Nat
          /\ Len(g) = Len(history) + Len(p.changes)
          /\ DOMAIN history = 1..Len(history) /\ DOMAIN g = 1..Len(g)
          /\ \A k \in 1..Len(history) : g[k] = history[k]
          /\ \A k \in DOMAIN p.changes :
               Len(history) + k \in DOMAIN g /\ g[Len(history) + k].event = p.changes[k]
      BY <1>8 DEF Grown
    <3>2. 1..Len(history) \subseteq 1..Len(g)
      BY <3>1
    <3> QED
      BY <3>1, <3>2
  <2>2. CASE \E k \in DOMAIN history : history[k].event = x
    BY <1>6, <2>1, <2>2 DEF Published
  <2>3. CASE x \in lost
    BY <1>3, <1>6, <2>3 DEF Published
  <2>4. CASE \E u \in Threads : /\ Inserted(request[u])
                                /\ \E k \in 1..request[u].sent : request[u].changes[k] = x
    <3>1. PICK u \in Threads : /\ Inserted(request[u])
                               /\ \E k \in 1..request[u].sent : request[u].changes[k] = x
      BY <2>4
    <3>2. CASE u = t
      <4>1. PICK k \in 1..p.sent : p.changes[k] = x
        BY <1>3, <3>1, <3>2
      <4>2. k \in DOMAIN p.changes
        BY <1>4, <4>1
      <4> QED
        BY <1>6, <2>1, <4>1, <4>2 DEF Published
    <3>3. CASE u # t
      <4>1. request'[u] = request[u]
        BY <1>14, <3>3
      <4>2. /\ Inserted(request'[u])
            /\ \E k \in 1..request'[u].sent : request'[u].changes[k] = x
        BY <3>1, <4>1
      <4> QED
        BY <4>2 DEF Published
    <3> QED
      BY <3>2, <3>3
  <2> QED
    BY <1>15, <2>2, <2>3, <2>4 DEF Published
<1>16. ShownOK'
  BY <1>1, <1>6, <1>15, ShownStays
<1>17. OrderlyLists(g, l, request', queue, groupRow, roleRow, used, gone)
  <2>1. PICK new, n : new = request' /\ n = Len(history)
    OBVIOUS
  <2>2. new = [request EXCEPT ![t] = Idle] /\ request \in [Threads -> {Idle} \cup Busy]
    BY <1>1, <1>3, <1>6, <2>1, TypeParts
  <2>3. \A u \in Threads : Inserted(request[u]) => request[u].version <= n
    <3>1. \A u \in Threads : RequestOK(history, lost, newGroup, request[u])
      BY <1>1 DEF RequestsOK
    <3> QED
      BY <2>1, <3>1 DEF Inserted, RequestOK
  <2>4. 0 < Len(p.changes)
    BY <1>4, <1>7 DEF RequestOK
  <2>5. /\ history \in Seq(Entries)
        /\ OrderlyLists(history, l, request, queue, groupRow, roleRow, used, gone)
    BY <1>1, <1>3
  <2>6. p = request[t] /\ n = Len(history)
    BY <1>3, <2>1
  <2>7. OrderlyLists(g, l, new, queue, groupRow, roleRow, used, gone)
    BY <1>4, <1>8, <2>2, <2>3, <2>4, <2>5, <2>6, ListsCommitted
  <2> QED
    BY <2>1, <2>7
<1>18. LostOK(l, m)
  BY <1>1, <1>3
<1> QED
  BY <1>2, <1>6, <1>9, <1>10, <1>13, <1>16, <1>17, <1>18 DEF Inv

\* The events that request p has published are lost.
LEMMA LostGrows ==
  ASSUME NEW h, NEW l, NEW n, NEW p, p.phase # "idle", RequestOK(h, l, n, p),
         p.changes \in Seq(Events), p.sent \in Nat,
         NEW m, m = l \cup {p.changes[k] : k \in 1..p.sent}
  PROVE  /\ HistoryOK(h, l, n) => HistoryOK(h, m, n)
         /\ LostOK(l, n) => LostOK(m, n)
<1>1. \A k \in DOMAIN p.changes :
        p.changes[k].type = "GroupCreated" =>
          p.changes[k].group < n /\ \A j \in DOMAIN h : h[j].event # p.changes[k]
  BY DEF RequestOK, ChangesOK
<1>2. \A k \in 1..p.sent : k \in DOMAIN p.changes
  BY DEF RequestOK
<1>3. \A b, e : EntryOK(h, l, b, e) => EntryOK(h, m, b, e)
  BY DEF EntryOK
<1>4. ASSUME HistoryOK(h, l, n)
      PROVE  HistoryOK(h, m, n)
  <2>1. \A k \in DOMAIN h : h[k].event.type = "GroupCreated" => h[k].event \notin m
    BY <1>1, <1>2, <1>4 DEF HistoryOK
  <2> QED
    BY <1>3, <1>4, <2>1 DEF HistoryOK
<1>5. LostOK(l, n) => LostOK(m, n)
  BY <1>1, <1>2 DEF LostOK
<1> QED
  BY <1>4, <1>5

\* Another request is about to create other groups.
LEMMA LostElsewhere ==
  ASSUME NEW h, NEW l, NEW n, NEW p, p.phase # "idle", RequestOK(h, l, n, p),
         p.changes \in Seq(Events), p.sent \in Nat,
         NEW m, m = l \cup {p.changes[k] : k \in 1..p.sent},
         NEW q, RequestOK(h, l, n, q), Apart(q, p)
  PROVE  RequestOK(h, m, n, q)
<1>1. \A k \in 1..p.sent : k \in DOMAIN p.changes
  BY DEF RequestOK
<1>2. \A b, e : EntryOK(h, l, b, e) => EntryOK(h, m, b, e)
  BY DEF EntryOK
<1>3. CASE q.phase # "idle"
  <2>1. ChangesOK(h, l, n, q.basis, q.changes)
    BY <1>3 DEF RequestOK
  <2>2. \A k \in DOMAIN q.changes : q.changes[k].type = "GroupCreated" => q.changes[k] \notin m
    BY <1>1, <1>3, <2>1 DEF ChangesOK, Apart
  <2>3. ChangesOK(h, m, n, q.basis, q.changes)
    BY <1>2, <2>1, <2>2 DEF ChangesOK
  <2> QED
    BY <1>3, <2>3 DEF RequestOK
<1>4. CASE q.phase = "idle"
  BY <1>4 DEF RequestOK
<1> QED
  BY <1>3, <1>4

LEMMA RollbackStep ==
  ASSUME Inv, NEW t \in Threads, Rollback(t)
  PROVE  Inv'
<1>1. /\ TypeOK /\ VersionsOK(history) /\ HistoryOK(history, lost, newGroup)
      /\ LostOK(lost, newGroup) /\ RequestsOK /\ ShownOK /\ history \in Seq(Entries)
      /\ OrderlyLists(history, lost, request, queue, groupRow, roleRow, used, gone)
  BY TypeParts DEF Inv
<1>2. PICK p, q, m : p = request[t] /\ q = Idle /\ m = lost'
  OBVIOUS
<1>3. RequestOK(history, lost, newGroup, p)
  BY <1>1, <1>2 DEF RequestsOK
<1>4. TypeOK'
  BY <1>1, <1>2, <1>3, RollbackType
<1>5. p.phase # "idle" /\ p.sent \in Nat /\ p.changes \in Seq(Events)
  BY <1>1, <1>2, RequestParts DEF Rollback
<1>6. q.phase = "idle"
  BY <1>2 DEF Idle
<1>7. /\ request' = [request EXCEPT ![t] = q] /\ history' = history
      /\ queue' = queue /\ groupRow' = groupRow /\ roleRow' = roleRow
      /\ used' = used /\ gone' = gone /\ newGroup' = newGroup
      /\ m = lost \cup {p.changes[k] : k \in 1..p.sent}
  BY <1>2 DEF Rollback, views
<1>8. HistoryOK(history, m, newGroup) /\ LostOK(m, newGroup)
  BY <1>1, <1>3, <1>5, <1>7, LostGrows
<1>9. ASSUME NEW u \in Threads \ {t}
      PROVE  /\ RequestOK(history, m, newGroup, request[u])
             /\ Apart(q, request[u]) /\ Apart(request[u], q)
  <2>1. PICK r : r = request[u]
    OBVIOUS
  <2>2. RequestOK(history, lost, newGroup, r) /\ Apart(r, p)
    BY <1>1, <1>2, <2>1 DEF RequestsOK
  <2>3. RequestOK(history, m, newGroup, r)
    BY <1>3, <1>5, <1>7, <2>2, LostElsewhere
  <2>4. Apart(q, r) /\ Apart(r, q)
    BY <1>6 DEF Apart
  <2> QED
    BY <2>1, <2>3, <2>4
<1>10. /\ RequestOK(history', lost', newGroup', q)
       /\ \A u \in Threads \ {t} : RequestOK(history', lost', newGroup', request[u])
  <2>1. RequestOK(history, m, newGroup, q)
    BY <1>6 DEF RequestOK
  <2>2. history' = history /\ newGroup' = newGroup /\ lost' = m
    BY <1>2, <1>7
  <2> QED
    BY <1>9, <2>1, <2>2
<1>11. RequestsOK'
  <2>1. request' = [request EXCEPT ![t] = q]
    BY <1>7
  <2> QED
    BY <1>1, <1>9, <1>10, <2>1, RequestsAfter
<1>12. \A u \in Threads : request'[u] = IF u = t THEN q ELSE request[u]
  BY <1>1, <1>7, TypeParts
<1>13. ASSUME NEW x, Published(x)
       PROVE  Published(x)'
  <2>1. CASE \E u \in Threads : /\ Inserted(request[u])
                                /\ \E k \in 1..request[u].sent : request[u].changes[k] = x
    <3>1. PICK u \in Threads : /\ Inserted(request[u])
                               /\ \E k \in 1..request[u].sent : request[u].changes[k] = x
      BY <2>1
    <3>2. CASE u = t
      <4>1. x \in m
        BY <1>2, <1>7, <3>1, <3>2
      <4> QED
        BY <1>2, <4>1 DEF Published
    <3>3. CASE u # t
      <4>1. request'[u] = request[u]
        BY <1>12, <3>3
      <4>2. /\ Inserted(request'[u])
            /\ \E k \in 1..request'[u].sent : request'[u].changes[k] = x
        BY <3>1, <4>1
      <4> QED
        BY <4>2 DEF Published
    <3> QED
      BY <3>2, <3>3
  <2>2. CASE (\E k \in DOMAIN history : history[k].event = x) \/ x \in lost
    BY <1>2, <1>7, <2>2 DEF Published
  <2> QED
    BY <1>13, <2>1, <2>2 DEF Published
<1>14. ShownOK'
  BY <1>1, <1>7, <1>13, ShownStays
<1>15. OrderlyLists(history, m, request', queue, groupRow, roleRow, used, gone)
  <2>1. CASE m # {}
    BY <2>1 DEF OrderlyLists, Orderly
  <2>2. CASE m = {}
    <3>1. lost = m /\ p.sent = 0
      <4>1. \A k \in 1..p.sent : FALSE
        BY <1>7, <2>2
      <4> QED
        BY <1>5, <1>7, <2>2, <4>1
    <3>2. ~Inserted(p) /\ ~Inserted(q)
      BY <1>5, <1>6, <3>1 DEF Inserted
    <3>3. PICK rq : rq = request'
      OBVIOUS
    <3>4. \A u \in Threads : rq[u] = IF u = t THEN q ELSE request[u]
      BY <1>12, <3>3
    <3>5. \A u \in Threads : /\ Inserted(rq[u]) <=> Inserted(request[u])
                             /\ Inserted(request[u]) => rq[u] = request[u]
      BY <1>2, <3>2, <3>4
    <3>6. OrderlyLists(history, m, rq, queue, groupRow, roleRow, used, gone)
      BY <1>1, <3>1, <3>5, ListsStay
    <3> QED
      BY <3>3, <3>6
  <2> QED
    BY <2>1, <2>2
<1> QED
  BY <1>1, <1>2, <1>4, <1>7, <1>8, <1>11, <1>14, <1>15 DEF Inv

\* A role is deleted in its application: the lists will do without it.
LEMMA ListsHidden ==
  ASSUME NEW s, NEW q \in Seq(Events), NEW a \in Roles,
         NEW e \in Events, e = Event("ApplicationRoleDeleted", NoGroup, a),
         NEW groupIs, NEW roleIs, NEW pairs, NEW lostRoles,
         ListsOK(s, q, groupIs, roleIs, pairs, lostRoles)
  PROVE  ListsOK(s, Append(q, e), groupIs, roleIs, pairs, lostRoles \cup {a})
<1>1. PICK y : y = Append(q, e)
  OBVIOUS
<1>2. ASSUME NEW row \in BOOLEAN, NEW on, NEW off
      PROVE  Settles(y, row, on, off) <=>
               e \in on \/ (e \notin off /\ Settles(q, row, on, off))
  BY <1>1, SettlesSent
<1>3. SUFFICES ASSUME ~Stands(s, Len(s), Ends, {})
               PROVE  ListsOK(s, y, groupIs, roleIs, pairs, lostRoles \cup {a})
  BY <1>1 DEF ListsOK
<1>4. e.type = "ApplicationRoleDeleted" /\ e.role = a
  BY EventFields
<1>5. e \notin Ends
  BY <1>4, EventFields DEF Ends
<1>6. ASSUME NEW g \in Groups
      PROVE  Settles(y, groupIs[g] = "live", CreatesGroup(g), DeletesGroup(g) \cup Ends)
               <=> GroupStands(s, Len(s), g)
  <2>1. Settles(q, groupIs[g] = "live", CreatesGroup(g), DeletesGroup(g) \cup Ends)
          <=> GroupStands(s, Len(s), g)
    BY <1>3 DEF ListsOK
  <2>2. e \notin CreatesGroup(g) /\ e \notin DeletesGroup(g)
    BY <1>4, EventFields DEF CreatesGroup, DeletesGroup
  <2>3. Settles(y, groupIs[g] = "live", CreatesGroup(g), DeletesGroup(g) \cup Ends) <=>
          \/ e \in CreatesGroup(g)
          \/ /\ e \notin DeletesGroup(g) \cup Ends
             /\ Settles(q, groupIs[g] = "live", CreatesGroup(g), DeletesGroup(g) \cup Ends)
    BY <1>2
  <2> QED
    BY <1>5, <2>1, <2>2, <2>3
<1>7. ASSUME NEW r \in Roles
      PROVE  /\ Settles(y, roleIs[r] = "live", AddsRole(r), HidesRole(r)) =>
                  RoleStands(s, Len(s), r)
             /\ r \notin lostRoles \cup {a} /\ RoleStands(s, Len(s), r) =>
                  Settles(y, roleIs[r] = "live", AddsRole(r), HidesRole(r))
  <2>1. /\ Settles(q, roleIs[r] = "live", AddsRole(r), HidesRole(r)) =>
             RoleStands(s, Len(s), r)
        /\ r \notin lostRoles /\ RoleStands(s, Len(s), r) =>
             Settles(q, roleIs[r] = "live", AddsRole(r), HidesRole(r))
    BY <1>3 DEF ListsOK
  <2>2. Settles(y, roleIs[r] = "live", AddsRole(r), HidesRole(r)) <=>
          \/ e \in AddsRole(r)
          \/ /\ e \notin HidesRole(r)
             /\ Settles(q, roleIs[r] = "live", AddsRole(r), HidesRole(r))
    BY <1>2
  <2>3. e \notin AddsRole(r)
    BY <1>4, EventFields DEF AddsRole
  <2>4. r # a => e \notin HidesRole(r)
    BY <1>4, <1>5, EventFields DEF HidesRole, DeletesRole
  <2> QED
    BY <2>1, <2>2, <2>3, <2>4
<1>8. ASSUME NEW g \in Groups, NEW r \in Roles \ (lostRoles \cup {a}),
             GroupRoleStands(s, Len(s), g, r)
      PROVE  Settles(y, << g, r >> \in pairs, GivesRole(g, r),
                     {Event("GroupRoleDeleted", g, r)} \cup HidesRole(r))
  <2> DEFINE off == {Event("GroupRoleDeleted", g, r)} \cup HidesRole(r)
  <2>1. Settles(q, << g, r >> \in pairs, GivesRole(g, r), off)
    BY <1>3, <1>8 DEF ListsOK
  <2>2. Settles(y, << g, r >> \in pairs, GivesRole(g, r), off) <=>
          \/ e \in GivesRole(g, r)
          \/ e \notin off /\ Settles(q, << g, r >> \in pairs, GivesRole(g, r), off)
    <3> HIDE DEF off
    <3>1. (<< g, r >> \in pairs) \in BOOLEAN
      OBVIOUS
    <3> QED
      BY <1>2, <3>1, Zenon
  <2>3. e \notin off
    BY <1>4, <1>5, EventFields DEF HidesRole, DeletesRole
  <2> QED
    BY <2>1, <2>2, <2>3
<1>9. ListsOK(s, y, groupIs, roleIs, pairs, lostRoles \cup {a})
  BY <1>6, <1>7, <1>8 DEF ListsOK
<1> QED
  BY <1>1, <1>9

LEMMA DeleteApplicationRoleStep ==
  ASSUME Inv, NEW r \in Roles, DeleteApplicationRole(r)
  PROVE  Inv'
<1>1. /\ TypeOK /\ VersionsOK(history) /\ HistoryOK(history, lost, newGroup)
      /\ LostOK(lost, newGroup) /\ RequestsOK /\ ShownOK
      /\ OrderlyLists(history, lost, request, queue, groupRow, roleRow, used, gone)
  BY DEF Inv
<1>2. TypeOK'
  BY <1>1, DeleteApplicationRoleType
<1>3. PICK e : e = Event("ApplicationRoleDeleted", NoGroup, r)
  OBVIOUS
<1>4. e \in Events /\ e.type = "ApplicationRoleDeleted"
  BY <1>3 DEF Event, Events
<1>5. /\ queue' = Append(queue, e) /\ gone' = gone \cup {r}
      /\ request' = request /\ history' = history /\ groupRow' = groupRow
      /\ roleRow' = roleRow /\ used' = used /\ lost' = lost /\ newGroup' = newGroup
  BY <1>3 DEF DeleteApplicationRole, views
<1>6. queue \in Seq(Events)
  BY <1>1, TypeParts
<1>7. RequestsOK'
  BY <1>1, <1>5 DEF RequestsOK
<1>8. \A x : Published(x)' <=> Published(x)
  BY <1>5 DEF Published
<1>9. ShownOK'
  <2>1. ASSUME NEW k \in DOMAIN queue', queue'[k].type \in {"GroupCreated", "RoleAdded"}
        PROVE  Published(queue[k])'
    <3>1. k \in DOMAIN queue /\ queue'[k] = queue[k]
      BY <1>4, <1>5, <1>6, <2>1
    <3>2. PICK x : x = queue'[k]
      OBVIOUS
    <3>3. Published(x)
      BY <1>1, <2>1, <3>1, <3>2 DEF ShownOK
    <3>4. Published(x)'
      BY <1>8, <3>3
    <3> QED
      BY <3>2, <3>4 DEF Published
  <2>2. \A g \in Groups : groupRow'[g] # "absent" => Published(Event("GroupCreated", g, NoRole))'
    BY <1>1, <1>5, <1>8 DEF ShownOK
  <2>3. \A x \in Roles : roleRow'[x] # "absent" => Published(Event("RoleAdded", NoGroup, x))'
    BY <1>1, <1>5, <1>8 DEF ShownOK
  <2> QED
    BY <2>1, <2>2, <2>3 DEF ShownOK
<1>10. PICK w, z : w = Append(queue, e) /\ z = gone \cup {r}
  OBVIOUS
<1>11. OrderlyLists(history, lost, request, w, groupRow, roleRow, used, z)
  <2>1. ASSUME NEW s, ListsOK(s, queue, groupRow, roleRow, used, gone)
        PROVE  ListsOK(s, w, groupRow, roleRow, used, z)
    BY <1>3, <1>4, <1>6, <1>10, <2>1, ListsHidden
  <2> QED
    BY <1>1, <2>1 DEF OrderlyLists
<1> QED
  BY <1>1, <1>2, <1>5, <1>7, <1>9, <1>10, <1>11 DEF Inv

\* What the handlers of event e make of the rows.
Handled(e, groupIs, roleIs, pairs, nextGroups, nextRoles, nextPairs) ==
  /\ \A g \in Groups :
       /\ nextGroups[g] = "live" <=>
            \/ e \in CreatesGroup(g)
            \/ e \notin DeletesGroup(g) \cup Ends /\ groupIs[g] = "live"
       /\ nextGroups[g] # "absent" => e \in CreatesGroup(g) \/ groupIs[g] # "absent"
  /\ \A r \in Roles :
       /\ nextRoles[r] = "live" <=>
            e \in AddsRole(r) \/ (e \notin HidesRole(r) /\ roleIs[r] = "live")
       /\ nextRoles[r] # "absent" => e \in AddsRole(r) \/ roleIs[r] # "absent"
  /\ \A g \in Groups, r \in Roles :
       \/ e \in GivesRole(g, r)
       \/ /\ e \notin {Event("GroupRoleDeleted", g, r)} \cup HidesRole(r)
          /\ << g, r >> \in pairs
       => << g, r >> \in nextPairs

LEMMA HidingEvents ==
  ASSUME NEW e \in Events, NEW r \in Roles
  PROVE  e \in HidesRole(r) <=>
           \/ e.type \in {"RoleDeleted", "ApplicationRoleDeleted"} /\ e.role = r
           \/ e.type = "Deleted"
<1>1. e = Event("ApplicationRoleDeleted", NoGroup, r) <=>
        e.type = "ApplicationRoleDeleted" /\ e.role = r
  BY DEF Events, Event, NoGroup, NoRole, Groups
<1> QED
  BY <1>1, RoleEvents, EndEvents DEF HidesRole

LEMMA HandleEventRows ==
  ASSUME TypeOK, HandleEvent, NEW e, e = Head(queue)
  PROVE  Handled(e, groupRow, roleRow, used, groupRow', roleRow', used')
<1>1. e \in Events
  BY TypeParts DEF HandleEvent
<1>2. /\ roleRow \in [Roles -> RowStates] /\ groupRow \in [Groups -> RowStates]
      /\ used \subseteq Groups \X Roles
  BY DEF TypeOK
<1>3. RolesViewHandles(e) /\ GroupsViewHandles(e) /\ GroupRolesViewHandles(e)
  BY DEF HandleEvent
<1>4. \A row : /\ Marked(row) # "live" /\ (Marked(row) # "absent" => row # "absent")
               /\ RoleRowAdded(row) = "live"
  BY DEF Marked, RoleRowAdded
<1>5. ASSUME NEW g \in Groups
      PROVE  /\ groupRow'[g] = "live" <=>
                  \/ e \in CreatesGroup(g)
                  \/ e \notin DeletesGroup(g) \cup Ends /\ groupRow[g] = "live"
             /\ groupRow'[g] # "absent" => e \in CreatesGroup(g) \/ groupRow[g] # "absent"
  <2>1. /\ e \in CreatesGroup(g) <=> e.type = "GroupCreated" /\ e.group = g
        /\ e \in DeletesGroup(g) <=> e.type = "GroupDeleted" /\ e.group = g
        /\ e \in Ends <=> e.type = "Deleted"
    BY <1>1, GroupEvents, EndEvents
  <2>2. CASE e.type = "GroupCreated"
    <3>1. groupRow' = [groupRow EXCEPT ![e.group] = "live"]
      BY <1>3, <2>2 DEF GroupsViewHandles
    <3> QED
      BY <1>2, <2>1, <2>2, <3>1
  <2>3. CASE e.type = "GroupDeleted"
    <3>1. groupRow' = [groupRow EXCEPT ![e.group] = Marked(@)]
      BY <1>3, <2>3 DEF GroupsViewHandles
    <3>2. groupRow'[g] = IF e.group = g THEN Marked(groupRow[g]) ELSE groupRow[g]
      BY <1>2, <3>1
    <3> QED
      BY <1>4, <2>1, <2>3, <3>2
  <2>4. CASE e.type = "Deleted"
    <3>1. groupRow'[g] = Marked(groupRow[g])
      BY <1>3, <2>4 DEF GroupsViewHandles
    <3> QED
      BY <1>4, <2>1, <2>4, <3>1
  <2>5. CASE e.type \notin {"GroupCreated", "GroupDeleted", "Deleted"}
    <3>1. groupRow' = groupRow
      BY <1>3, <2>5 DEF GroupsViewHandles
    <3> QED
      BY <2>1, <2>5, <3>1
  <2> QED
    BY <2>2, <2>3, <2>4, <2>5
<1>6. ASSUME NEW r \in Roles
      PROVE  /\ roleRow'[r] = "live" <=>
                  e \in AddsRole(r) \/ (e \notin HidesRole(r) /\ roleRow[r] = "live")
             /\ roleRow'[r] # "absent" => e \in AddsRole(r) \/ roleRow[r] # "absent"
  <2>1. /\ e \in AddsRole(r) <=> e.type = "RoleAdded" /\ e.role = r
        /\ e \in HidesRole(r) <=>
             \/ e.type \in {"RoleDeleted", "ApplicationRoleDeleted"} /\ e.role = r
             \/ e.type = "Deleted"
    BY <1>1, RoleEvents, HidingEvents
  <2>2. CASE e.type = "RoleAdded"
    <3>1. roleRow' = [roleRow EXCEPT ![e.role] = RoleRowAdded(@)]
      BY <1>3, <2>2 DEF RolesViewHandles
    <3>2. roleRow'[r] = IF e.role = r THEN RoleRowAdded(roleRow[r]) ELSE roleRow[r]
      BY <1>2, <3>1
    <3> QED
      BY <1>4, <2>1, <2>2, <3>2
  <2>3. CASE e.type \in {"RoleDeleted", "ApplicationRoleDeleted"}
    <3>1. roleRow' = [roleRow EXCEPT ![e.role] = Marked(@)]
      BY <1>3, <2>3 DEF RolesViewHandles
    <3>2. roleRow'[r] = IF e.role = r THEN Marked(roleRow[r]) ELSE roleRow[r]
      BY <1>2, <3>1
    <3> QED
      BY <1>4, <2>1, <2>3, <3>2
  <2>4. CASE e.type = "Deleted"
    <3>1. roleRow'[r] = Marked(roleRow[r])
      BY <1>3, <2>4 DEF RolesViewHandles
    <3> QED
      BY <1>4, <2>1, <2>4, <3>1
  <2>5. CASE e.type \notin {"RoleAdded", "RoleDeleted", "ApplicationRoleDeleted", "Deleted"}
    <3>1. roleRow' = roleRow
      BY <1>3, <2>5 DEF RolesViewHandles
    <3> QED
      BY <2>1, <2>5, <3>1
  <2> QED
    BY <2>2, <2>3, <2>4, <2>5
<1>7. ASSUME NEW g \in Groups, NEW r \in Roles,
             \/ e \in GivesRole(g, r)
             \/ /\ e \notin {Event("GroupRoleDeleted", g, r)} \cup HidesRole(r)
                /\ << g, r >> \in used
      PROVE  << g, r >> \in used'
  <2>1. /\ e \in GivesRole(g, r) <=> e.type = "GroupRoleAdded" /\ e.group = g /\ e.role = r
        /\ e \in HidesRole(r) <=>
             \/ e.type \in {"RoleDeleted", "ApplicationRoleDeleted"} /\ e.role = r
             \/ e.type = "Deleted"
    BY <1>1, GroupRoleEvents, HidingEvents
  <2>2. e = Event("GroupRoleDeleted", g, r) <=>
          e.type = "GroupRoleDeleted" /\ e.group = g /\ e.role = r
    BY <1>1 DEF Events, Event, NoGroup, NoRole, Groups
  <2>3. CASE e.type = "GroupRoleAdded"
    <3>1. used' = used \cup {<< e.group, e.role >>}
      BY <1>3, <2>3 DEF GroupRolesViewHandles
    <3> QED
      BY <1>7, <2>1, <3>1
  <2>4. CASE e.type # "GroupRoleAdded"
    <3>1. << g, r >> \in used /\ e \notin HidesRole(r) /\ e # Event("GroupRoleDeleted", g, r)
      BY <1>7, <2>1, <2>4
    <3>2. CASE e.type = "GroupRoleDeleted"
      <4>1. used' = used \ {<< e.group, e.role >>}
        BY <1>3, <3>2 DEF GroupRolesViewHandles
      <4> QED
        BY <2>2, <3>1, <3>2, <4>1
    <3>3. CASE e.type \in {"RoleDeleted", "ApplicationRoleDeleted"}
      <4>1. e.role # r
        BY <2>1, <3>1, <3>3
      <4>2. \A u \in used : u \in used' \/ u[2] = e.role
        BY <1>3, <3>3 DEF GroupRolesViewHandles
      <4> QED
        BY <3>1, <4>1, <4>2
    <3>4. CASE e.type \notin {"GroupRoleAdded", "GroupRoleDeleted", "RoleDeleted",
                              "ApplicationRoleDeleted"}
      <4>1. e.type # "Deleted"
        BY <2>1, <3>1
      <4>2. used' = used
        BY <1>3, <3>4, <4>1 DEF GroupRolesViewHandles
      <4> QED
        BY <3>1, <4>2
    <3> QED
      BY <2>4, <3>2, <3>3, <3>4
  <2> QED
    BY <2>3, <2>4
<1> QED
  BY <1>5, <1>6, <1>7 DEF Handled

\* The rows after the first event, and the events that still wait, come to the same.
LEMMA ListsHandled ==
  ASSUME NEW s, NEW q \in Seq(Events), q # << >>, NEW e, e = Head(q),
         NEW groupIs, NEW roleIs, NEW pairs, NEW lostRoles,
         NEW nextGroups, NEW nextRoles, NEW nextPairs,
         Handled(e, groupIs, roleIs, pairs, nextGroups, nextRoles, nextPairs),
         ListsOK(s, q, groupIs, roleIs, pairs, lostRoles)
  PROVE  ListsOK(s, Tail(q), nextGroups, nextRoles, nextPairs, lostRoles)
<1>1. PICK y : y = Tail(q)
  OBVIOUS
<1>2. ASSUME NEW row \in BOOLEAN, NEW new \in BOOLEAN, NEW on, NEW off
      PROVE  /\ (new => e \in on \/ (e \notin off /\ row)) =>
                  (Settles(y, new, on, off) => Settles(q, row, on, off))
             /\ (e \in on \/ (e \notin off /\ row) => new) =>
                  (Settles(q, row, on, off) => Settles(y, new, on, off))
  BY <1>1, SettlesHandled
<1>3. SUFFICES ASSUME ~Stands(s, Len(s), Ends, {})
               PROVE  ListsOK(s, y, nextGroups, nextRoles, nextPairs, lostRoles)
  BY <1>1 DEF ListsOK
<1>4. ASSUME NEW g \in Groups
      PROVE  Settles(y, nextGroups[g] = "live", CreatesGroup(g), DeletesGroup(g) \cup Ends)
               <=> GroupStands(s, Len(s), g)
  <2> DEFINE off == DeletesGroup(g) \cup Ends
  <2>1. Settles(q, groupIs[g] = "live", CreatesGroup(g), off) <=> GroupStands(s, Len(s), g)
    BY <1>3 DEF ListsOK
  <2>2. nextGroups[g] = "live" <=>
          e \in CreatesGroup(g) \/ (e \notin off /\ groupIs[g] = "live")
    BY DEF Handled
  <2>3. Settles(y, nextGroups[g] = "live", CreatesGroup(g), off) <=>
          Settles(q, groupIs[g] = "live", CreatesGroup(g), off)
    <3> HIDE DEF off
    <3> QED
      BY <1>2, <2>2
  <2> QED
    BY <2>1, <2>3
<1>5. ASSUME NEW r \in Roles
      PROVE  Settles(y, nextRoles[r] = "live", AddsRole(r), HidesRole(r)) <=>
               Settles(q, roleIs[r] = "live", AddsRole(r), HidesRole(r))
  <2>1. nextRoles[r] = "live" <=>
          e \in AddsRole(r) \/ (e \notin HidesRole(r) /\ roleIs[r] = "live")
    BY DEF Handled
  <2> QED
    BY <1>2, <2>1
<1>6. ASSUME NEW g \in Groups, NEW r \in Roles \ lostRoles, GroupRoleStands(s, Len(s), g, r)
      PROVE  Settles(y, << g, r >> \in nextPairs, GivesRole(g, r),
                     {Event("GroupRoleDeleted", g, r)} \cup HidesRole(r))
  <2> DEFINE off == {Event("GroupRoleDeleted", g, r)} \cup HidesRole(r)
  <2>1. Settles(q, << g, r >> \in pairs, GivesRole(g, r), off)
    BY <1>3, <1>6 DEF ListsOK
  <2>2. e \in GivesRole(g, r) \/ (e \notin off /\ << g, r >> \in pairs)
          => << g, r >> \in nextPairs
    BY DEF Handled
  <2>3. (<< g, r >> \in pairs) \in BOOLEAN /\ (<< g, r >> \in nextPairs) \in BOOLEAN
    OBVIOUS
  <2> HIDE DEF off
  <2>4. Settles(y, << g, r >> \in nextPairs, GivesRole(g, r), off)
    BY <1>2, <2>1, <2>2, <2>3, Zenon
  <2> QED
    BY <2>4 DEF off
<1>7. ListsOK(s, y, nextGroups, nextRoles, nextPairs, lostRoles)
  <2>1. \A r \in Roles :
          /\ Settles(y, nextRoles[r] = "live", AddsRole(r), HidesRole(r)) => RoleStands(s, Len(s), r)
          /\ r \notin lostRoles /\ RoleStands(s, Len(s), r) =>
               Settles(y, nextRoles[r] = "live", AddsRole(r), HidesRole(r))
    BY <1>3, <1>5 DEF ListsOK
  <2> QED
    BY <1>4, <1>6, <2>1 DEF ListsOK
<1> QED
  BY <1>1, <1>7

LEMMA HandleEventStep ==
  ASSUME Inv, HandleEvent
  PROVE  Inv'
<1>1. /\ TypeOK /\ VersionsOK(history) /\ HistoryOK(history, lost, newGroup)
      /\ LostOK(lost, newGroup) /\ RequestsOK /\ ShownOK
      /\ OrderlyLists(history, lost, request, queue, groupRow, roleRow, used, gone)
  BY DEF Inv
<1>2. TypeOK'
  BY <1>1, HandleEventType
<1>3. PICK e, gs, rs, ps : e = Head(queue) /\ gs = groupRow' /\ rs = roleRow' /\ ps = used'
  OBVIOUS
<1>4. queue \in Seq(Events) /\ queue # << >>
  BY <1>1, TypeParts DEF HandleEvent
<1>5. /\ queue' = Tail(queue) /\ request' = request /\ history' = history
      /\ gone' = gone /\ lost' = lost /\ newGroup' = newGroup
  BY DEF HandleEvent
<1>6. Handled(e, groupRow, roleRow, used, gs, rs, ps)
  BY <1>1, <1>3, HandleEventRows
<1>7. RequestsOK'
  BY <1>1, <1>5 DEF RequestsOK
<1>8. \A x : Published(x)' <=> Published(x)
  BY <1>5 DEF Published
<1>9. e.type \in {"GroupCreated", "RoleAdded"} => Published(e)
  <2>1. 1 \in DOMAIN queue /\ e = queue[1]
    BY <1>3, <1>4
  <2> QED
    BY <1>1, <2>1 DEF ShownOK
<1>10. ShownOK'
  <2>1. ASSUME NEW k \in DOMAIN queue', queue'[k].type \in {"GroupCreated", "RoleAdded"}
        PROVE  Published(queue[k])'
    <3>1. k + 1 \in DOMAIN queue /\ queue'[k] = queue[k + 1]
      BY <1>4, <1>5, <2>1
    <3>2. PICK x : x = queue'[k]
      OBVIOUS
    <3>3. Published(x)
      BY <1>1, <2>1, <3>1, <3>2 DEF ShownOK
    <3>4. Published(x)'
      BY <1>8, <3>3
    <3> QED
      BY <3>2, <3>4 DEF Published
  <2>2. ASSUME NEW g \in Groups, groupRow'[g] # "absent"
        PROVE  Published(Event("GroupCreated", g, NoRole))'
    <3>1. e \in CreatesGroup(g) \/ groupRow[g] # "absent"
      BY <1>3, <1>6, <2>2 DEF Handled
    <3>2. e \in CreatesGroup(g) => Published(Event("GroupCreated", g, NoRole))
      BY <1>9, EventFields DEF CreatesGroup
    <3> QED
      BY <1>1, <1>8, <3>1, <3>2 DEF ShownOK
  <2>3. ASSUME NEW r \in Roles, roleRow'[r] # "absent"
        PROVE  Published(Event("RoleAdded", NoGroup, r))'
    <3>1. e \in AddsRole(r) \/ roleRow[r] # "absent"
      BY <1>3, <1>6, <2>3 DEF Handled
    <3>2. e \in AddsRole(r) => Published(Event("RoleAdded", NoGroup, r))
      BY <1>9, EventFields DEF AddsRole
    <3> QED
      BY <1>1, <1>8, <3>1, <3>2 DEF ShownOK
  <2> QED
    BY <2>1, <2>2, <2>3 DEF ShownOK
<1>11. PICK w : w = Tail(queue)
  OBVIOUS
<1>12. OrderlyLists(history, lost, request, w, gs, rs, ps, gone)
  <2>1. ASSUME NEW s, ListsOK(s, queue, groupRow, roleRow, used, gone)
        PROVE  ListsOK(s, w, gs, rs, ps, gone)
    BY <1>3, <1>4, <1>6, <1>11, <2>1, ListsHandled
  <2> QED
    BY <1>1, <2>1 DEF OrderlyLists
<1> QED
  BY <1>1, <1>2, <1>3, <1>5, <1>7, <1>10, <1>11, <1>12 DEF Inv

-----------------------------------------------------------------------------
(***************************************************************************)
(* The invariant holds.                                                    *)
(***************************************************************************)
LEMMA NextInv == Inv /\ [Next]_vars => Inv'
<1> SUFFICES ASSUME Inv, [Next]_vars
             PROVE  Inv'
  OBVIOUS
<1>1. ASSUME NEW t \in Threads, CanBegin(t), NEW x \in Loads, NEW c \in Offered,
             Decide(t, x, c) \/ Refuse(t, x, c)
      PROVE  Inv'
  BY <1>1, DecideStep, RefuseStep
<1>2. ASSUME NEW t \in Threads,
             ReadVersion(t) \/ InsertEvent(t) \/ Commit(t) \/ Rollback(t)
      PROVE  Inv'
  BY <1>2, ReadVersionStep, InsertEventStep, CommitStep, RollbackStep
<1>3. ASSUME NEW r \in Roles, DeleteApplicationRole(r)
      PROVE  Inv'
  BY <1>3, DeleteApplicationRoleStep
<1>4. CASE HandleEvent
  BY <1>4, HandleEventStep
<1>5. CASE UNCHANGED vars
  BY <1>5 DEF Inv, TypeOK, RequestsOK, ShownOK, Published, vars, views
<1> QED
  BY <1>1, <1>2, <1>3, <1>4, <1>5 DEF Next, Handle

LEMMA Invariance == Spec => []Inv
  BY InitInv, NextInv, PTL DEF Spec

(***************************************************************************)
(* The state stays in the types of the variables, whatever the commands,   *)
(* the order of the steps and the saves that are rolled back.              *)
(***************************************************************************)
THEOREM TypeCorrectness == Spec => []TypeOK
  BY Invariance, PTL DEF Inv

-----------------------------------------------------------------------------
(***************************************************************************)
(* What the invariant says of the aggregate.                               *)
(***************************************************************************)

\* The rows in the order o of their versions, what their commands had loaded,
\* and the events s that this makes.
IsRead(h, l, o, n, s) ==
  /\ RowsSorted(h, o, n, s)
  /\ \A i, j \in 1..n : o[i] = o[j] => i = j
  /\ \A i \in 1..n : s[i] \in Events
  /\ \A k \in 1..n :
       /\ h[k].version \in Nat /\ h[k].basis \in Nat /\ h[k].basis < k
       /\ \A j \in 1..(h[k].basis) : h[j].version < h[k].version
       /\ EntryOK(h, l, h[k].basis, h[k].event)
  /\ \A j, k \in 1..n : h[k].event.type = "GroupCreated" /\ h[j].event = h[k].event => j = k

LEMMA LoadsRead ==
  ASSUME Inv, NEW x \in Loads, NEW n, n = Len(history)
  PROVE  \E o, s : s = InOrder(history, o) /\ IsOrder(history, o) /\ Says(s, n, x)
                   /\ IsRead(history, lost, o, n, s)
<1>1. /\ TypeOK /\ VersionsOK(history) /\ HistoryOK(history, lost, newGroup)
      /\ history \in Seq(Entries)
  BY TypeParts DEF Inv
<1>2. PICK o : IsOrder(history, o) /\ Says(InOrder(history, o), n, x)
  BY <1>1, LoadsSay
<1>3. PICK s, h, l : s = InOrder(history, o) /\ h = history /\ l = lost
  OBVIOUS
<1>4. /\ h \in Seq(Entries) /\ n = Len(h) /\ IsOrder(h, o) /\ s = InOrder(h, o)
      /\ VersionsOK(h) /\ HistoryOK(h, l, newGroup)
  BY <1>1, <1>2, <1>3
<1>5. RowsSorted(h, o, n, s)
  BY <1>4, OrderSorts
<1>6. \A i, j \in 1..n : o[i] = o[j] => i = j
  BY <1>4 DEF IsOrder
<1>7. n \in Nat /\ DOMAIN h = 1..n
  BY <1>4
<1>8. \A i \in 1..n : s[i] \in Events
  BY <1>4, OrderParts
<1>9. \A k \in 1..n : h[k].version \in Nat /\ h[k].basis \in Nat
  BY <1>4, EventsOfType
<1>10. \A k \in 1..n : /\ h[k].basis < k
                       /\ \A j \in 1..(h[k].basis) : h[j].version < h[k].version
  BY <1>4, <1>7 DEF VersionsOK
<1>11. /\ \A k \in 1..n : EntryOK(h, l, h[k].basis, h[k].event)
       /\ \A j, k \in 1..n :
            h[k].event.type = "GroupCreated" /\ h[j].event = h[k].event => j = k
  BY <1>4, <1>7 DEF HistoryOK
<1>12. IsRead(h, l, o, n, s)
  BY <1>5, <1>6, <1>8, <1>9, <1>10, <1>11 DEF IsRead
<1> QED
  BY <1>2, <1>3, <1>12

\* What clashes in the order o: a change of a group, and before it a deletion of
\* the group that was committed after the command had loaded the rows.
LEMMA ClashIsRace ==
  ASSUME NEW h, NEW l, NEW o, NEW n, NEW s, IsRead(h, l, o, n, s),
         NEW i \in 1..n, Clash(s, i)
  PROVE  \E j, k \in 1..n :
           /\ h[j].event.type = "GroupDeleted"
           /\ h[k].event.type \in {"GroupModified", "GroupRoleAdded"}
           /\ h[j].event.group = h[k].event.group
           /\ h[k].basis < j
           /\ h[j].version <= h[k].version
<1>1. /\ n \in Nat
      /\ \A y \in 1..n : o[y] \in 1..n /\ s[y] = h[o[y]].event
      /\ \A k \in 1..n : \E y \in 1..n : o[y] = k
      /\ \A y, z \in 1..n : y < z => h[o[y]].version <= h[o[z]].version
  BY DEF IsRead, RowsSorted
<1>2. PICK k \in 1..n : k = o[i]
  BY <1>1
<1>3. PICK e, b, g : e = s[i] /\ b = h[k].basis /\ g = e.group
  OBVIOUS
<1>4. e = h[k].event /\ e \in Events
  BY <1>1, <1>2, <1>3 DEF IsRead
<1>5. /\ b \in Nat /\ b < k /\ h[k].version \in Nat
      /\ \A j \in 1..b : h[j].version < h[k].version
      /\ EntryOK(h, l, b, e)
  BY <1>3, <1>4 DEF IsRead
<1>6. ASSUME e.type = "GroupCreated", GroupStands(s, i - 1, g)
      PROVE  FALSE
  <2>1. PICK p \in 1..(i - 1) : s[p] \in CreatesGroup(g)
    BY <1>6 DEF GroupStands, Stands
  <2>2. p \in 1..n /\ p # i
    BY <1>1
  <2>3. g \in Groups
    BY <1>3, <1>4, <1>6, EventParts
  <2>4. e \in CreatesGroup(g)
    BY <1>3, <1>4, <1>6, <2>3, GroupEvents
  <2>5. s[p] = e
    BY <2>1, <2>4 DEF CreatesGroup
  <2>6. PICK j \in 1..n : j = o[p] /\ h[j].event = s[p]
    BY <1>1, <2>2
  <2>7. j = k
    BY <1>4, <1>6, <2>5, <2>6 DEF IsRead
  <2> QED
    BY <1>2, <2>2, <2>6, <2>7 DEF IsRead
<1>7. ASSUME e.type \in {"GroupModified", "GroupRoleAdded"}, ~GroupStands(s, i - 1, g)
      PROVE  \E j \in 1..n : /\ h[j].event.type = "GroupDeleted"
                             /\ h[j].event.group = g
                             /\ b < j
                             /\ h[j].version <= h[k].version
  <2>1. GroupHeld(h, b, g)
    BY <1>3, <1>5, <1>7 DEF EntryOK
  <2>2. PICK c \in 1..b : h[c].event \in CreatesGroup(g)
    BY <2>1 DEF GroupHeld, GroupMade
  <2>3. c \in 1..n /\ c # k /\ h[c].version < h[k].version
    BY <1>1, <1>5
  <2>4. PICK p \in 1..n : o[p] = c
    BY <1>1, <2>3
  <2>5. h[c].version \in Nat
    BY <2>3 DEF IsRead
  <2>6. p # i /\ ~(i < p)
    <3>1. i < p => h[k].version <= h[c].version
      BY <1>1, <1>2, <2>4
    <3> QED
      BY <1>2, <1>5, <2>3, <2>4, <2>5, <3>1
  <2>7. p \in 1..(i - 1)
    BY <1>1, <2>6
  <2>8. s[p] \in CreatesGroup(g)
    BY <1>1, <2>2, <2>4
  <2>9. PICK y \in (p + 1)..(i - 1) : s[y] \in DeletesGroup(g)
    BY <1>7, <2>7, <2>8 DEF GroupStands, Stands
  <2>10. y \in 1..n /\ y < i
    BY <1>1, <2>7
  <2>11. PICK j \in 1..n : j = o[y] /\ h[j].event = s[y]
    BY <1>1, <2>10
  <2>12. h[j].event.type = "GroupDeleted" /\ h[j].event.group = g
    BY <2>9, <2>11, EventFields DEF DeletesGroup
  <2>13. h[j].version <= h[k].version
    BY <1>1, <1>2, <2>10, <2>11
  <2>14. j \notin 1..b
    BY <2>1, <2>9, <2>11 DEF GroupHeld
  <2>15. b < j
    BY <1>1, <1>5, <2>14
  <2> QED
    BY <2>12, <2>13, <2>15
<1>8. e.type \in {"GroupModified", "GroupRoleAdded"} /\ ~GroupStands(s, i - 1, g)
  BY <1>3, <1>6 DEF Clash
<1> QED
  BY <1>3, <1>4, <1>7, <1>8

LEMMA UnloadableAfterRace == Inv => UnloadableOnlyAfterRace
<1>1. SUFFICES ASSUME Inv, NEW x \in Loads, ~x.loads
               PROVE  \E j, k \in DOMAIN history :
                        /\ history[j].event.type = "GroupDeleted"
                        /\ history[k].event.type \in {"GroupModified", "GroupRoleAdded"}
                        /\ history[j].event.group = history[k].event.group
                        /\ history[k].basis < j
                        /\ history[j].version <= history[k].version
  BY DEF UnloadableOnlyAfterRace
<1>2. PICK n : n = Len(history)
  OBVIOUS
<1>3. PICK o, s : Says(s, n, x) /\ IsRead(history, lost, o, n, s)
  BY <1>1, <1>2, LoadsRead
<1>4. PICK i \in 1..n : Clash(s, i)
  BY <1>1, <1>3 DEF Says
<1>5. DOMAIN history = 1..n
  BY <1>3 DEF IsRead, RowsSorted
<1> QED
  BY <1>3, <1>4, <1>5, ClashIsRace

LEMMA RolesOfOrganization == Inv => GroupRolesAreOfOrganization
<1>1. SUFFICES ASSUME Inv, NEW x \in Loads, x.loads,
                      NEW g \in DOMAIN x.groups, NEW r \in x.groups[g] \ x.roles
               PROVE  \E j, k \in DOMAIN history :
                        /\ history[j].event = Event("RoleDeleted", NoGroup, r)
                        /\ history[k].event = Event("GroupRoleAdded", g, r)
                        /\ history[j].version <= history[k].version
                        /\ \/ history[k].basis < j
                           \/ \E i \in DOMAIN history :
                                /\ history[i].event = Event("RoleAdded", NoGroup, r)
                                /\ history[i].version = history[j].version
  BY DEF GroupRolesAreOfOrganization
<1>2. PICK n, h : n = Len(history) /\ h = history
  OBVIOUS
<1>3. PICK o, s : Says(s, n, x) /\ IsRead(h, lost, o, n, s)
  BY <1>1, <1>2, LoadsRead
<1>4. /\ n \in Nat /\ DOMAIN h = 1..n
      /\ \A y \in 1..n : o[y] \in 1..n /\ s[y] = h[o[y]].event
      /\ \A k \in 1..n : \E y \in 1..n : o[y] = k
      /\ \A y, z \in 1..n : y < z => h[o[y]].version <= h[o[z]].version
  BY <1>3 DEF IsRead, RowsSorted
<1>5. x \in Aggregates /\ Describes(s, n, x)
  BY <1>1, <1>3 DEF Says
<1>6. g \in Groups /\ r \in Roles /\ Has(x.groups, g, r) /\ r \notin x.roles
  <2>1. /\ DOMAIN x.groups \in SUBSET Groups
        /\ x.groups \in [DOMAIN x.groups -> SUBSET Roles]
    BY <1>5, DictionaryParts DEF Aggregates
  <2> QED
    BY <1>1, <2>1 DEF Has
<1>7. GroupRoleStands(s, n, g, r) /\ ~RoleStands(s, n, r)
  BY <1>5, <1>6 DEF Describes
<1>8. PICK p \in 1..n : /\ s[p] \in GivesRole(g, r)
                        /\ \A y \in (p + 1)..n : s[y] \notin TakesRole(g, r)
  BY <1>7 DEF GroupRoleStands, Stands
<1>9. PICK k \in 1..n : k = o[p] /\ h[k].event = s[p]
  BY <1>4
<1>10. h[k].event = Event("GroupRoleAdded", g, r)
  BY <1>8, <1>9 DEF GivesRole
<1>11. h[k].event.type = "GroupRoleAdded" /\ h[k].event.role = r
  BY <1>10, EventFields
<1>12. PICK b : b = h[k].basis
  OBVIOUS
<1>13. /\ b \in Nat /\ b < k /\ RoleHeld(h, b, r)
  <2>1. EntryOK(h, lost, b, h[k].event) /\ b \in Nat /\ b < k
    BY <1>3, <1>12 DEF IsRead
  <2> QED
    BY <1>11, <2>1 DEF EntryOK
<1>14. PICK i \in 1..b :
         /\ h[i].event \in AddsRole(r)
         /\ \A j \in 1..b : h[j].event \in DeletesRole(r) => h[j].version <= h[i].version
  BY <1>13 DEF RoleHeld
<1>15. i \in 1..n
  BY <1>4, <1>13
<1>16. PICK q \in 1..n : o[q] = i
  BY <1>4, <1>15
<1>17. s[q] \in AddsRole(r)
  BY <1>4, <1>14, <1>16
<1>18. PICK y \in (q + 1)..n : s[y] \in DeletesRole(r)
  BY <1>7, <1>17 DEF RoleStands, Stands
<1>19. y \in 1..n /\ q < y
  BY <1>4
<1>20. PICK j \in 1..n : j = o[y] /\ h[j].event = s[y]
  BY <1>4, <1>19
<1>21. h[j].event = Event("RoleDeleted", NoGroup, r) /\ h[j].event \in DeletesRole(r)
  BY <1>18, <1>20 DEF DeletesRole
<1>22. y < p
  <2>1. y \notin (p + 1)..n
    BY <1>8, <1>18 DEF TakesRole
  <2>2. y # p
    <3>1. h[j].event.type = "RoleDeleted"
      BY <1>21, EventFields
    <3> QED
      BY <1>9, <1>11, <1>20, <3>1
  <2> QED
    BY <1>4, <1>19, <2>1, <2>2
<1>23. h[j].version <= h[k].version /\ h[i].version <= h[j].version
  BY <1>4, <1>9, <1>16, <1>19, <1>20, <1>22
<1>24. b < j \/ h[i].version = h[j].version
  <2>1. ASSUME ~(b < j)
        PROVE  h[i].version = h[j].version
    <3>1. j \in 1..b
      BY <1>4, <1>13, <2>1
    <3>2. h[j].version <= h[i].version
      BY <1>14, <1>21, <3>1
    <3>3. h[i].version \in Nat /\ h[j].version \in Nat
      BY <1>3, <1>15 DEF IsRead
    <3> QED
      BY <1>23, <3>2, <3>3
  <2> QED
    BY <2>1
<1>25. h[i].event = Event("RoleAdded", NoGroup, r)
  BY <1>14 DEF AddsRole
<1> QED
  BY <1>2, <1>4, <1>10, <1>12, <1>15, <1>21, <1>23, <1>24, <1>25

LEMMA ListsAtRest == Inv => ListsFollowAggregate
<1>1. SUFFICES ASSUME Inv, AtRest, VersionsDiffer, NEW x \in Loads, x.loads, ~x.deleted
               PROVE  ListsAgree(x)
  BY DEF ListsFollowAggregate
<1>2. PICK n, s : n = Len(history) /\ s = EventsOf(history)
  OBVIOUS
<1>3. /\ TypeOK /\ VersionsOK(history) /\ history \in Seq(Entries) /\ RequestsOK
      /\ OrderlyLists(history, lost, request, queue, groupRow, roleRow, used, gone)
  BY <1>1, TypeParts DEF Inv
<1>4. Numbered(history)
  BY <1>1, <1>3, NumberedIfDiffer DEF VersionsDiffer
<1>5. PICK o : IsOrder(history, o) /\ Says(InOrder(history, o), n, x)
  BY <1>2, <1>3, LoadsSay
<1>6. InOrder(history, o) = s
  BY <1>2, <1>3, <1>4, <1>5, NumberedInOrder
<1>7. x \in Aggregates /\ Describes(s, n, x)
  BY <1>1, <1>5, <1>6 DEF Says
<1>8. /\ DOMAIN x.groups \in SUBSET Groups
      /\ x.groups \in [DOMAIN x.groups -> SUBSET Roles]
      /\ x.roles \in SUBSET Roles
  BY <1>7, DictionaryParts DEF Aggregates
<1>9. Len(s) = n /\ ~Stands(s, n, Ends, {})
  <2>1. Len(s) = n
    BY <1>2, <1>3, EventsOfType
  <2> QED
    BY <1>1, <1>7, <2>1 DEF Describes
<1>10. ListsOK(s, << >>, groupRow, roleRow, used, gone)
  <2>1. \A t \in Threads : ~Inserted(request[t])
    BY <1>1 DEF AtRest, Inserted
  <2>2. Orderly(history, lost, request)
    BY <1>1, <1>4, <2>1 DEF Orderly, AtRest
  <2> QED
    BY <1>1, <1>2, <1>3, <2>1, <2>2 DEF OrderlyLists, AtRest
<1>11. \A row \in BOOLEAN : \A on, off : Settles(<< >>, row, on, off) <=> row
  BY SettlesNow
<1>12. ASSUME NEW g \in Groups
       PROVE  groupRow[g] = "live" <=> g \in DOMAIN x.groups
  <2>1. Settles(<< >>, groupRow[g] = "live", CreatesGroup(g), DeletesGroup(g) \cup Ends)
          <=> GroupStands(s, n, g)
    BY <1>9, <1>10 DEF ListsOK
  <2> QED
    BY <1>7, <1>11, <2>1 DEF Describes
<1>13. ASSUME NEW r \in Roles
       PROVE  /\ roleRow[r] = "live" => r \in x.roles
              /\ r \in x.roles /\ roleRow[r] # "live" => r \in gone
  <2>1. Settles(<< >>, roleRow[r] = "live", AddsRole(r), HidesRole(r)) <=> roleRow[r] = "live"
    BY <1>11
  <2>2. /\ Settles(<< >>, roleRow[r] = "live", AddsRole(r), HidesRole(r)) => RoleStands(s, n, r)
        /\ r \notin gone /\ RoleStands(s, n, r) =>
             Settles(<< >>, roleRow[r] = "live", AddsRole(r), HidesRole(r))
    BY <1>9, <1>10 DEF ListsOK
  <2> QED
    BY <1>7, <2>1, <2>2 DEF Describes
<1>14. ASSUME NEW g \in DOMAIN x.groups, NEW r \in x.groups[g] \ gone
       PROVE  << g, r >> \in used
  <2>1. g \in Groups /\ r \in Roles \ gone /\ Has(x.groups, g, r)
    BY <1>8, <1>14 DEF Has
  <2>2. GroupRoleStands(s, n, g, r)
    BY <1>7, <2>1 DEF Describes
  <2> DEFINE off == {Event("GroupRoleDeleted", g, r)} \cup HidesRole(r)
  <2>3. Settles(<< >>, << g, r >> \in used, GivesRole(g, r), off)
    BY <1>9, <1>10, <2>1, <2>2 DEF ListsOK
  <2>4. (<< g, r >> \in used) \in BOOLEAN
    OBVIOUS
  <2> HIDE DEF off
  <2> QED
    BY <1>11, <2>3, <2>4, Zenon
<1>15. {g \in Groups : groupRow[g] = "live"} = DOMAIN x.groups
  BY <1>8, <1>12
<1>16. /\ {r \in Roles : roleRow[r] = "live"} \subseteq x.roles
       /\ x.roles \ {r \in Roles : roleRow[r] = "live"} \subseteq gone
  BY <1>8, <1>13
<1> QED
  BY <1>14, <1>15, <1>16 DEF ListsAgree

\* A group that was created, and is not there, was deleted; a role likewise.
LEMMA CreatedAndGone ==
  ASSUME NEW h, NEW o, NEW n, NEW s, RowsSorted(h, o, n, s),
         NEW k \in 1..n, NEW on, NEW off, h[k].event \in on, ~Stands(s, n, on, off)
  PROVE  \E j \in 1..n : h[j].event \in off
<1>1. PICK i \in 1..n : o[i] = k /\ s[i] \in on
  BY DEF RowsSorted
<1>2. PICK y \in (i + 1)..n : s[y] \in off
  BY <1>1 DEF Stands
<1>3. y \in 1..n
  BY DEF RowsSorted
<1> QED
  BY <1>2, <1>3 DEF RowsSorted

\* A page offers only what was published; nobody is saving now.
LEMMA RefusalHasAReason ==
  ASSUME Inv, NEW t \in Threads, CanBegin(t), NEW x \in Loads, NEW c \in Offered,
         Refuse(t, x, c), ~x.deleted, x.loads
  PROVE  \/ c.type \in {"GroupModify", "GroupRoleAdd"} /\ GroupIsNoMore(c.group)
         \/ c.type = "GroupRoleAdd" /\ RoleIsNoMore(c.role)
<1>1. PICK n : n = Len(history)
  OBVIOUS
<1>2. TypeOK /\ HistoryOK(history, lost, newGroup) /\ ShownOK
  BY DEF Inv
<1>3. PICK o, s : Says(s, n, x) /\ IsRead(history, lost, o, n, s)
  BY <1>1, LoadsRead
<1>4. RowsSorted(history, o, n, s)
  BY <1>3 DEF IsRead
<1>5. /\ DOMAIN history = 1..n
      /\ \A y \in 1..n : o[y] \in 1..n /\ s[y] = history[o[y]].event
  BY <1>4 DEF RowsSorted
<1>6. Describes(s, n, x)
  BY <1>3 DEF Says
<1>7. ~Accepts(x, c) /\ ~x.deleted
  BY DEF Refuse
<1>8. CASE c.type = "GroupCreate" /\ c.group \in DOMAIN x.groups
  <2>1. c.group = newGroup /\ newGroup \in Groups
    BY <1>2, <1>8, OfferedGroup
  <2>2. GroupStands(s, n, newGroup)
    BY <1>6, <1>8, <2>1 DEF Describes
  <2>3. PICK i \in 1..n : s[i] \in CreatesGroup(newGroup)
    BY <2>2 DEF GroupStands, Stands
  <2>4. PICK k \in 1..n : history[k].event = s[i]
    BY <1>5, <2>3
  <2>5. history[k].event.type = "GroupCreated" /\ history[k].event.group = newGroup
    BY <2>3, <2>4, EventFields DEF CreatesGroup
  <2>6. newGroup < newGroup
    BY <1>2, <1>5, <2>5 DEF HistoryOK
  <2> QED
    BY <2>1, <2>6 DEF Groups
<1>9. CASE c.type \in {"GroupModify", "GroupRoleAdd"} /\ c.group \notin DOMAIN x.groups
  <2>1. PICK g, e : g = c.group /\ e = Event("GroupCreated", g, NoRole)
    OBVIOUS
  <2>2. g \in Groups /\ groupRow[g] # "absent" /\ ~GroupStands(s, n, g)
    BY <1>2, <1>6, <1>9, <2>1, OfferedGroup DEF Describes
  <2>3. Published(e)
    BY <1>2, <2>1, <2>2 DEF ShownOK
  <2>4. (\E k \in DOMAIN history : history[k].event = e) \/ e \in lost
    BY <1>2, <2>3, PublishedBefore
  <2>5. ASSUME NEW k \in DOMAIN history, history[k].event = e
        PROVE  Happened("GroupDeleted", g, NoRole)
    <3>1. k \in 1..n /\ history[k].event \in CreatesGroup(g)
      BY <1>5, <2>1, <2>5 DEF CreatesGroup
    <3>2. ~Stands(s, n, CreatesGroup(g), DeletesGroup(g))
      BY <2>2 DEF GroupStands
    <3>3. PICK j \in 1..n : history[j].event \in DeletesGroup(g)
      BY <1>4, <3>1, <3>2, CreatedAndGone
    <3> QED
      BY <1>5, <3>3 DEF DeletesGroup, Happened
  <2>6. GroupIsNoMore(g)
    BY <2>1, <2>4, <2>5 DEF GroupIsNoMore
  <2> QED
    BY <1>9, <2>1, <2>6
<1>10. CASE c.type = "GroupRoleAdd" /\ c.role \notin x.roles
  <2>1. PICK r, e : r = c.role /\ e = Event("RoleAdded", NoGroup, r)
    OBVIOUS
  <2>2. r \in Roles /\ roleRow[r] # "absent" /\ ~RoleStands(s, n, r)
    BY <1>2, <1>6, <1>10, <2>1, OfferedGroup DEF Describes
  <2>3. Published(e)
    BY <1>2, <2>1, <2>2 DEF ShownOK
  <2>4. (\E k \in DOMAIN history : history[k].event = e) \/ e \in lost
    BY <1>2, <2>3, PublishedBefore
  <2>5. ASSUME NEW k \in DOMAIN history, history[k].event = e
        PROVE  Happened("RoleDeleted", NoGroup, r)
    <3>1. k \in 1..n /\ history[k].event \in AddsRole(r)
      BY <1>5, <2>1, <2>5 DEF AddsRole
    <3>2. ~Stands(s, n, AddsRole(r), DeletesRole(r))
      BY <2>2 DEF RoleStands
    <3>3. PICK j \in 1..n : history[j].event \in DeletesRole(r)
      BY <1>4, <3>1, <3>2, CreatedAndGone
    <3> QED
      BY <1>5, <3>3 DEF DeletesRole, Happened
  <2>6. RoleIsNoMore(r)
    BY <2>1, <2>4, <2>5 DEF RoleIsNoMore
  <2> QED
    BY <1>10, <2>1, <2>6
<1> QED
  BY <1>7, <1>8, <1>9, <1>10 DEF Accepts

-----------------------------------------------------------------------------
(***************************************************************************)
(* An organization can no longer be loaded, in whatever order the database *)
(* returns rows of the same version, only after a race: a request changed  *)
(* a group that another one had deleted since the first had loaded the     *)
(* history (Organization.Apply, saves with expectedVersion -1).            *)
(***************************************************************************)
THEOREM UnloadableAfterRaceOnly == Spec => []UnloadableOnlyAfterRace
  BY Invariance, UnloadableAfterRace, PTL

(***************************************************************************)
(* A group has only roles of its organization, but for a role that was     *)
(* removed after the request that gave it had loaded the history, or that  *)
(* was removed and added with one version (Organization.AddGroupRole and   *)
(* its check; the numbering of DapperEventStore.SaveEvents).               *)
(***************************************************************************)
THEOREM GroupsHaveRolesOfOrganization == Spec => []GroupRolesAreOfOrganization
  BY Invariance, RolesOfOrganization, PTL

(***************************************************************************)
(* When the views have handled all events, no save was rolled back and no  *)
(* two rows have the same version, the lists are those of the aggregate,   *)
(* whatever the interleaving of requests, commits and handlers (event      *)
(* handlers of UserManager.Core).  Saves that overlapped leave two rows of *)
(* the same version: of those the theorem says nothing.                    *)
(***************************************************************************)
THEOREM ListsAreOfAggregate == Spec => []ListsFollowAggregate
  BY Invariance, ListsAtRest, PTL

(***************************************************************************)
(* A command that a page offers is not refused because its events are too  *)
(* young: only for a deletion, an unloadable organization or a rollback.   *)
(***************************************************************************)
THEOREM RefusalsHaveReasons == Spec => RefusedForAReason
<1>1. ASSUME Inv, NEW t \in Threads, CanBegin(t), NEW x \in Loads, NEW c \in Offered,
             Refuse(t, x, c)
      PROVE  \/ x.deleted
             \/ ~x.loads
             \/ c.type \in {"GroupModify", "GroupRoleAdd"} /\ GroupIsNoMore(c.group)
             \/ c.type = "GroupRoleAdd" /\ RoleIsNoMore(c.role)
  BY <1>1, RefusalHasAReason
<1>2. Inv /\ [Next]_vars =>
        [begun' # begun /\ request' = request =>
           \A t \in Threads : CanBegin(t) => \A x \in Loads : \A c \in Offered : Refuse(t, x, c) =>
             \/ x.deleted
             \/ ~x.loads
             \/ c.type \in {"GroupModify", "GroupRoleAdd"} /\ GroupIsNoMore(c.group)
             \/ c.type = "GroupRoleAdd" /\ RoleIsNoMore(c.role)]_vars
  BY <1>1
<1> QED
  BY <1>2, Invariance, PTL DEF Spec, RefusedForAReason

=============================================================================
