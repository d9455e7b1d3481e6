SPECIFICATION Spec
CONSTANTS
  c1 = c1
  p1 = p1
  a1 = a1
  w1 = w1
  w2 = w2
  r1 = r1
  NoArea = NoArea
  Absent = Absent
  Components <- OneComponent
  Apps <- OneApp
  Areas <- OneArea
  ComponentLinks <- ComponentInArea
  AppLinks <- AppOnComponent
  Writers <- TwoWriters
  Readers <- OneReader
  MaxBatch = 2
  Capacity = 2
INVARIANTS
  TopologyTypeOK
  ReadersSeeAnnounced
  MirrorConverges
  IndexesSound
PROPERTIES
  ReadsAreAtomic
