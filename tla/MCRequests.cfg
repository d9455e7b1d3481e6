SPECIFICATION FairRequestsSpec
CONSTANTS
  c1 = c1
  p1 = p1
  w1 = w1
  r1 = r1
  r2 = r2
  user = user
  admin = admin
  stranger = stranger
  readOnly = readOnly
  writeOnly = writeOnly
  readWrite = readWrite
  missing = missing
  k1 = k1
  k2 = k2
  g1 = g1
  NoArea = NoArea
  Absent = Absent
  Components <- OneComponent
  Apps <- OneApp
  Areas = {}
  ComponentLinks <- NoLinks
  AppLinks <- AppOnComponent
  Writers <- OneWriter
  Readers <- TwoRequests
  MaxBatch = 1
  Capacity = 1
  DataIds <- AllDataIds
  Categories <- TwoCategories
  DataGroups <- OneGroup
  DataTags = {}
  Translations = {}
  AnyCategory = AnyCategory
  NoTranslation = NoTranslation
  Calls <- SomeCalls
  Identity <- WhoIsWho
  NoIdentity = NoIdentity
  Permitted <- UsersRead
  Providers <- ComponentHasData
  NoProvider = NoProvider
  Timeouts <- TwoRequests
INVARIANTS
  RequestsTypeOK
  RefusedLearnNothing
  ServedEntityStays
PROPERTIES
  WritersServed
