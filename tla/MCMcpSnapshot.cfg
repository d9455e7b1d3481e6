SPECIFICATION McpSpec
CONSTANTS
  c1 = c1
  p1 = p1
  a1 = a1
  task = task
  rc = rc
  rp = rp
  ra = ra
  d1 = d1
  NoArea = NoArea
  Absent = Absent
  Components <- OneComponent
  Apps <- OneApp
  Areas <- OneArea
  ComponentLinks <- ComponentInArea
  AppLinks <- AppOnComponent
  Writers <- TheTask
  Task <- task
  Readers <- ThreeRequests
  KindOf <- ListedKind
  Providers <- OneProvider
  Diffs <- SomeDiffs
  MaxBatch = 2
  Capacity = 1
  MaxItems = 2
INVARIANTS
  TextIsSnapshot
