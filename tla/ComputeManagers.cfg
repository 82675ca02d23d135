SPECIFICATION Spec
CONSTANTS
  AtWork <- OneAtATime
  d1 = d1  d2 = d2  Disk = {d1, d2}  east = east  west = west  Region = {east, west}
  s1 = s1  s2 = s2  s3 = s3  Policy = {s1, s2, s3}  RegionOf <- PolicyRegion
  MaxLinks = 2
  v1 = v1  v2 = v2  v3 = v3  VM = {v1, v2, v3}  ssd = ssd  LocalSSD = {ssd}
  listed = listed  custom = custom  MachineType = {listed, custom}
  Predefined = {listed}  TypeOf <- MachineTypeOf
  ConnectedVM = {v1, v2}  n1 = n1  n2 = n2  Network = {n1, n2}
  sub1 = sub1  sub2 = sub2  Subnet = {sub1, sub2}  pool = pool  TargetPool = {pool}
  r1 = r1  ForwardingRule = {r1}  g1 = g1  g2 = g2  g3 = g3  GroupManager = {g1, g2}
  NetworkOf <- SubnetNetwork  InterfacesOf <- SubnetsOf  TargetOf <- PoolOf
  SubnetOrder <- ListedSubnets  PartOf <- LinkPartOf  MaxChanges = 2
  Group = {g1, g2, g3}  t1 = t1  Template = {t1}  GroupedVM = {v1}
  Kind <- GroupKind  MaxGroupChanges = 1
  z1 = z1  z2 = z2  Zones <- ListedZones  Name = {n1, n2}
  i1 = i1  i2 = i2  Image = {i1, i2}  License = {"ubuntu-2204-lts"}
  public_images <- Images  KeysIn <- LicenseKeys  Windows = {}  MaxZoneChanges = 1
  \* Sizes of which the rates of pd-standard are rounded up and down.
  Sizes = {10, 11, 13}  GiB = 1024  MaxResizes = 1
INVARIANTS
  TypeOK
  DisksShown
  InstancesShown
  PlacedInOwnNetwork
  BalancersOfInstance
  ManagedInstancesMarked
  GroupsAsTheyAre
  UseShownOnBothEnds
\* A collection of one manager comes to an end.
CHECK_DEADLOCK FALSE
