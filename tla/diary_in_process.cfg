\* Two users on the in-process stack.
CONSTANTS
  u1 = u1
  u2 = u2
  Users = {u1, u2}
  FieldOrder <- TwoFields
  Values = {"x", "y"}
  NewestFirst = FALSE
  SharedRows = TRUE
  MaxCommands = 4
SPECIFICATION Spec
SYMMETRY Symmetry
INVARIANTS
  TypeOK
  ViewFollowsHistory
PROPERTIES
  EditTakesEffect
  DeleteIsNeverRefused
\* All commands posted and handled.
CHECK_DEADLOCK FALSE
