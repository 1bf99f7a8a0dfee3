\* The default isolation of SQL Server: a reader waits for uncommitted rows.
CONSTANTS
  t1 = t1
  t2 = t2
  a1 = a1
  a2 = a2
  Threads = {t1, t2}
  Aggregates = {a1, a2}
  Writers <- MixedWriters
  NewVersion <- MinusOne
  RowVersioning = FALSE
  MaxSaves = 3
  MaxBatch = 2
  MaxRollbacks = 1
SPECIFICATION FairSpec
PROPERTIES
  EverySaveEnds
