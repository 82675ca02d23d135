SPECIFICATION Spec
CONSTANTS
  AtWork <- OneAtATime
  vpc1 = vpc1  vpc2 = vpc2  Network = {vpc1, vpc2}
  web = web  Tag = {web}  MaxInstances = 2  MaxInterfaces = 2
  svc = svc  Account = {svc}  Protocol <- Protocols
  ip1 = ip1  ip2 = ip2  IP = {ip1, ip2}  east = east  Region = {east}
  r1 = r1  r2 = r2  Rule = {r1, r2}  v1 = v1  VM = {v1}
  p1 = p1  p2 = p2  Proxy = {p1, p2}  f1 = f1  f2 = f2  ForwardingRule = {f1, f2}
  pool = pool  TargetPool = {pool}  m = m  UrlMap = {m}  s = s  BackendService = {s}
  b1 = b1  b2 = b2  BackendBucket = {b1, b2}  h = h  HealthCheck = {h}
  vpn = vpn  VpnGateway = {vpn}  PartOf <- BucketPartOf
  fw = fw  Firewall = {fw}  sub1 = sub1  sub2 = sub2  Subnet = {sub1, sub2}
  route = route  Route = {route}  a1 = a1  a2 = a2  Address = {a1, a2}
  NetworkOf <- NetworkOfEach  SubnetOf <- SubnetOfEach  MaxChanges = 2
INVARIANTS
  TypeOK
  InstancesMatched
  FirewallSidesAgree
  AddressesShown
  BalancersShown
  LastingShown
\* A collection of one manager comes to an end.
CHECK_DEADLOCK FALSE
