SPECIFICATION BrowserSpec
CONSTANTS
  c1 = c1
  c2 = c2
  p1 = p1
  a1 = a1
  t1 = t1
  t2 = t2
  NoArea = NoArea
  Absent = Absent
  Components <- TwoComponents
  Apps <- OneApp
  Areas <- OneArea
  ComponentLinks <- FreeComponentLinks
  AppLinks <- FreeAppLinks
  TagsOf <- SomeTags
  Queries <- FourQueries
INVARIANTS
  TypeOK
  HostsComplete
  HostListsItsApps
PROPERTIES
  MembershipKept
  NotFoundMeansGone
SYMMETRY Interchangeable
