\* Two requests at a time, one role, two groups.
CONSTANTS
  t1 = t1
  t2 = t2
  r1 = r1
  Threads = {t1, t2}
  Roles = {r1}
  MaxGroups = 2
  MaxCommands = 3
  MaxQueue = 2
  MaxRollbacks = 1
SPECIFICATION Spec
SYMMETRY Symmetry
INVARIANTS
  TypeOK
  UnloadableOnlyAfterRace
  GroupRolesAreOfOrganization
  ListsFollowAggregate
PROPERTIES
  RefusedForAReason
\* All commands handled.
CHECK_DEADLOCK FALSE
