SPECIFICATION Spec
CONSTANTS
  AtWork <- OneAtATime
  i1 = i1  i2 = i2  i3 = i3
  zone1 = zone1  zone2 = zone2
  Item = {i1, i2, i3}
  Scope = {zone1, zone2}
  ScopeOf <- MCScopeOf
  MaxGroups = 2
  MaxItems = 4
INVARIANTS
  ManagersTypeOK
  AppendedListingComplete
  RegionsWithPoliciesListed
  NamesStandForServices
  ErrorIds
\* A listing, a look-up and a loop come to an end.
CHECK_DEADLOCK FALSE
