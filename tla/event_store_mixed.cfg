\* Two threads race on a1 while a2 has a single writer; one transaction may
\* fail.  Readers do not wait, which allows every interleaving locking does.
CONSTANTS
  t1 = t1
  t2 = t2
  a1 = a1
  a2 = a2
  Threads = {t1, t2}
  Aggregates = {a1, a2}
  Writers <- MixedWriters
  NewVersion = 1
  RowVersioning = TRUE
  MaxSaves = 4
  MaxBatch = 2
  MaxRollbacks = 1
SPECIFICATION Spec
INVARIANTS
  TypeOK
  NoVersionGap
  CommittedWasPublished
  PublishedIsAccountedFor
  UniqueVersions
PROPERTIES
  ExpectedVersionHonouredForSingleWriter
  ImplementsEventLog
