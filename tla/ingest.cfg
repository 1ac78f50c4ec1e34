SPECIFICATION Spec
CONSTANTS
  t1 = t1
  t2 = t2
  s1 = s1
  s2 = s2
  s3 = s3
  c1 = c1
  c2 = c2
  start = start
  e1 = e1
  e2 = e2
  NoExperiment = NoExperiment
  NoTrace = NoTrace
  Experiments = {e1, e2}
  Traces = {t1, t2}
  Spans = {s1, s2, s3}
  TraceOf <- MCTraceOf
  RootStatus <- MCRootStatus
  FirstOf <- MCFirstOf
  Batches <- MCBatches
  TraceInfos <- MCTraceInfos
  LogCalls = {c1, c2}
  StartCalls = {start}
  MaxAttempts = 3
  MaxFaults = 1
SYMMETRY Symmetries
INVARIANTS
  TypeOK
  EverySpanAccountedFor
  AcknowledgedSpansSummarised
  LaterWriterInvalidatesSnapshots
  OwnershipRespected
  ReportedMetadataKept
  DerivedStateExplained
PROPERTIES
  ImplementsPromise
