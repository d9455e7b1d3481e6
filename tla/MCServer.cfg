SPECIFICATION FairServerSpec
CONSTANTS
  c1 = c1
  p1 = p1
  a1 = a1
  task = task
  r1 = r1
  r2 = r2
  d1 = d1
  d2 = d2
  NoArea = NoArea
  Absent = Absent
  Components <- OneComponent
  Apps <- OneApp
  Areas <- OneArea
  ComponentLinks <- ComponentInArea
  AppLinks <- AppOnComponent
  Writers <- TheTask
  Task <- task
  Readers <- TwoReaders
  Providers <- TwoProviders
  Diffs <- FourDiffs
  MaxBatch = 4
  Capacity = 1
  MaxItems = 3
INVARIANTS
  DiffsAreAtomic
  EndsWithoutLock
  ServerTypeOK
  ServesAsConfigured
PROPERTIES
  LockServed
  DiffIsApplied
  ShutdownEnds
  ServeReturns
\* The program ends.
CHECK_DEADLOCK FALSE
