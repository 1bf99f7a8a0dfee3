\* Two threads load one aggregate, save it and expect the version they loaded.
CONSTANTS
  t1 = t1
  t2 = t2
  a1 = a1
  a2 = a2
  Threads = {t1, t2}
  Aggregates = {a1}
  Writers <- SharedWriters
  NewVersion = 1
  RowVersioning = FALSE
  MaxSaves = 3
  MaxBatch = 1
  MaxRollbacks = 0
SPECIFICATION CheckedSpec
PROPERTIES
  ExpectedVersionHonoured
