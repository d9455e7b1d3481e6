SPECIFICATION ProviderSpec
CONSTANTS
  d1 = d1
  d2 = d2
  k1 = k1
  k2 = k2
  g1 = g1
  g2 = g2
  t1 = t1
  x1 = x1
  DataIds <- TwoIds
  Categories <- TwoCategories
  DataGroups <- TwoGroups
  DataTags <- OneTag
  Translations <- OneTranslation
  AnyCategory = AnyCategory
  NoTranslation = NoTranslation
  GroupLists <- SomeGroupLists
  TagLists <- SomeTagLists
  MaxResources = 2
INVARIANTS
  ProviderTypeOK
  SummariesMatchLists
  FiltersCompose
  FlagsTruthful
\* A builder is used up by build(): the chain of calls ends.
CHECK_DEADLOCK FALSE
