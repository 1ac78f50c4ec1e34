SPECIFICATION FairSpec
CONSTANTS
  c1 = c1
  c2 = c2
  c3 = c3
  c4 = c4
  loss = loss
  p1 = p1
  p2 = p2
  x = x
  y = y
  m1 = m1
  Calls = {c1, c2, c3, c4}
  ParamKeys = {p1, p2}
  ParamValues = {x, y}
  MetricKeys = {loss}
  MetricValues <- MCMetricValues
  NaN = NaN
  Models = {m1}
  NoModel = NoModel
  Workloads <- MCWorkloads
  NoParam = NoParam
  NoMetric = NoMetric
  MaxFaults = 1
INVARIANTS
  RunDataTypeOK
  LatestIsNewestOfHistory
  AcknowledgedBatchesStored
PROPERTIES
  ParamsAreImmutable
  EveryBatchReturns
