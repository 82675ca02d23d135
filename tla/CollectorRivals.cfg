SPECIFICATION FairCollectorSpec
CONSTANTS
  r1 = r1  r2 = r2
  t1 = t1  t2 = t2
  disk = disk  topic = topic
  c1 = c1  c2 = c2
  i1 = i1  i2 = i2
  east = east  global = global  unknown = unknown
  Request = {r1, r2}
  Task = {t1, t2}
  Owner <- RivalsOwner
  Slot <- MCSlot
  MaxWorker = 2
  Type = {disk}
  TypeOf <- RivalsTypeOf
  Code = {c1, c2}
  InitialCode <- MCInitialCode
  Mapper <- SameMapper
  Item = {i1}
  Regional = {disk}
  RegionName = {east, global, unknown}
  Region = {east, global}
  Global = global
  RegionOf <- MCRegionOf
  BigQuery = {}
  Reason = {"x", "SERVICE_DISABLED"}
  Fault <- MCFault
INVARIANTS
  RegionsDelivered
  CodeAsConfigured
PROPERTIES
  RequestsEnd
\* Once every request has ended, the service waits for requests.
CHECK_DEADLOCK FALSE
