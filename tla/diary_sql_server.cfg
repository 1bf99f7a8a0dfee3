\* Two users on the SQL Server stack.
CONSTANTS
  u1 = u1
  u2 = u2
  Users = {u1, u2}
  FieldOrder <- TwoFields
  Values = {"x", "y"}
  NewestFirst = TRUE
  SharedRows = FALSE
  MaxCommands = 5
SPECIFICATION Spec
SYMMETRY Symmetry
INVARIANTS
  DeletedStaysDeleted
PROPERTIES
  AcceptedEditSawLatest
\* All commands posted and handled.
CHECK_DEADLOCK FALSE
