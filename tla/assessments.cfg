SPECIFICATION Spec
CONSTANTS
  c1 = c1
  c2 = c2
  c3 = c3
  c4 = c4
  c5 = c5
  t1 = t1
  t2 = t2
  a1 = a1
  a2 = a2
  a3 = a3
  None = None
  Calls = {c1, c2, c3, c4, c5}
  Traces = {t1, t2}
  Ids = {a1, a2, a3}
  Workloads <- MCWorkloads
  MaxFaults = 1
INVARIANTS
  TypeOK
  OverriddenAssessmentsInvalid
  InvalidAssessmentsExplained
  AcknowledgedUpdatesKept
  KindsMixOnlyByRaces
