SPECIFICATION Spec
CONSTANTS
  c1 = c1
  c2 = c2
  c3 = c3
  c4 = c4
  c5 = c5
  c6 = c6
  n1 = n1
  n2 = n2
  champion = champion
  NoModel = NoModel
  Calls = {c1, c2, c3, c4, c5, c6}
  Names = {n1, n2}
  Aliases = {champion}
  Workloads <- MCWorkloads
  MaxFaults = 1
INVARIANTS
  TypeOK
  AllocatedVersionsAreFree
  AliasesDangleOnlyByRaces
  OrphansComeOnlyByRaces
  StagesHaveACause
PROPERTIES
  ImplementsLifecycle
