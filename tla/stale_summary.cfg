SPECIFICATION DeletionSpec
CONSTANTS
  t1 = t1
  s1 = s1
  s2 = s2
  c1 = c1
  c2 = c2
  start = start
  d1 = d1
  d2 = d2
  e1 = e1
  e2 = e2
  NoExperiment = NoExperiment
  NoTrace = NoTrace
  Experiments = {e1}
  Traces = {t1}
  Spans = {s1, s2}
  TraceOf <- MCTraceOf
  RootStatus <- MCRootStatus
  FirstOf <- MCFirstOf
  Batches <- MCBatches
  TraceInfos <- MCTraceInfos
  LogCalls = {c1, c2}
  StartCalls = {}
  DeleteCalls = {d1}
  MaxAttempts = 3
  MaxFaults = 0
PROPERTIES
  StaleSummariesRejected
