\* The history as the SQL Server store returns it.
CONSTANTS
  u1 = u1
  u2 = u2
  Users = {u1}
  FieldOrder <- TwoFields
  Values = {"x", "y"}
  NewestFirst = TRUE
  SharedRows = FALSE
  MaxCommands = 3
SPECIFICATION Spec
INVARIANTS
  ReplayRebuildsState
\* All commands posted and handled.
CHECK_DEADLOCK FALSE
