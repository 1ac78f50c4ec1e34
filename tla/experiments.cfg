SPECIFICATION Spec
CONSTANTS
  c1 = c1
  c2 = c2
  c3 = c3
  c4 = c4
  c5 = c5
  st1 = st1
  st2 = st2
  Default = Default
  n1 = n1
  Calls = {c1, c2, c3, c4, c5}
  Stores = {st1, st2}
  StoreOf <- MCStoreOf
  Names = {Default, n1}
  DefaultName = Default
  MaxId = 3
  Workloads <- MCWorkloads
  MaxFaults = 1
INVARIANTS
  ExperimentsTypeOK
  AllocatedIdsAreFree
  StoresShareOneDefault
  RunsFollowTheirExperiment
  AcknowledgedMovesAlternate
