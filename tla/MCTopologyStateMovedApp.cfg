SPECIFICATION StateSpec
CONSTANTS
  c1 = c1
  c2 = c2
  p1 = p1
  a1 = a1
  a2 = a2
  NoArea = NoArea
  Absent = Absent
  Components <- TwoComponents
  Apps <- OneApp
  Areas <- TwoAreas
  ComponentLinks <- FreeComponentLinks
  AppLinks <- FreeAppLinks
INVARIANTS
  HostsSound
