SPECIFICATION Spec
CONSTANTS
  vpc1 = vpc1  vpc2 = vpc2  web = web
  Network = {vpc1, vpc2}
  Tag = {web}
  MaxInstances = 2
  MaxInterfaces = 2
  Account = {}
  Protocol <- Protocols
INVARIANTS
  TaggedRouteInstances
\* The matching of one rule comes to an end.
CHECK_DEADLOCK FALSE
