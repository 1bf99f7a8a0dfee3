\* Any order of clicks, answers and templates on a list page and its dialogs.
SPECIFICATION Spec
CONSTANTS
  Sizes <- MCSizes
  DefaultSize = 2
  ButtonPages = 2
  RowCounts <- MCRowCounts
  MaxInFlight = 2
  Instances <- MCInstances
  MaxSaves = 2
INVARIANTS
  TypeOK
  PagesTile
  ButtonsLeadToRows
  LatestAnswerIsShown
  OverlayIffDialog
PROPERTIES
  OnlyHasteClosesTheWrongDialog
