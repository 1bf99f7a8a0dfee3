\* The first row of a list against what its query is documented to return.
SPECIFICATION Spec
CONSTANTS
  Sizes <- MCSizes
  DefaultSize = 2
  ButtonPages = 2
  RowCounts <- MCRowCounts
  MaxInFlight = 2
  Instances <- MCInstances
  MaxSaves = 1
INVARIANTS
  FirstPageHasTheFirstRow
