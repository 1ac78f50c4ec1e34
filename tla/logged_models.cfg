SPECIFICATION Spec
CONSTANTS
  c1 = c1
  c2 = c2
  c3 = c3
  c4 = c4
  A = A
  B = B
  k1 = k1
  None = None
  NaN = NaN
  Calls = {c1, c2, c3, c4}
  ModelIds = {1, 2, 3, 4, 5}
  Experiments = {1, 2}
  Keys = {k1}
  Values = {0, 1, 2}
  Times = {1, 2, 3}
  Metrics <- MCMetrics
  Databases <- MCDatabases
  Workloads <- MCWorkloads
  MaxFaults = 1
INVARIANTS
  TypeOK
  RecordsLostOnlyByOverlap
  PagesFollowTheResult
PROPERTY
  SearchFindsExactly
