SPECIFICATION Spec
CONSTANTS
  t1 = t1  t2 = t2  t3 = t3
  dataset = dataset  topic = topic
  c1 = c1  c2 = c2
  i1 = i1  i2 = i2
  east = east  global = global  unknown = unknown
  Task = {t1, t2, t3}
  Type = {dataset, topic}
  TypeOf <- MCTypeOf
  Code = {c1, c2}
  InitialCode <- MCInitialCode
  Mapper <- MCMapper
  Item = {i1, i2}
  Regional = {dataset}
  RegionName = {east, global, unknown}
  Region = {east, global}
  Global = global
  RegionOf <- MCRegionOf
  BigQuery = {dataset}
  Reason = {"accessNotConfigured", "invalid"}
  Fault <- MCFault
SYMMETRY ThreadSymmetry
INVARIANTS
  TypeOK
  EachItemAnsweredOnce
  OwnRegionsCollected
  SilentOnlyIfSkipped
  DuplicatesBounded
  KeyErrorNeedsRival
PROPERTIES
  AppendOnly

\* Once every task has finished, the base class has nothing left to do.
CHECK_DEADLOCK FALSE
