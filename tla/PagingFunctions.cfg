SPECIFICATION Spec
CONSTANTS
  i1 = i1  i2 = i2  i3 = i3
  zone1 = zone1  zone2 = zone2
  Item = {i1, i2, i3}
  Scope = {zone1, zone2}
  ScopeOf <- MCScopeOf
INVARIANTS
  FunctionsListed
\* A listing that has returned or raised is over.
CHECK_DEADLOCK FALSE
