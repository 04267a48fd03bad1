SPECIFICATION PoolSpec
CONSTANTS
  Capacity = 1
  MaxJobs = 3
  Owner = {m, plain}
  Plain = plain
  Caller = {closer}
  Closer = closer
  p = p
  m = m
  Stream = {p, m}
  MapStream = {m}
  SourceJobs <- OneAndTwo
  Width = 1
  Steady = {p}
  Free = free
INVARIANTS
  NoStreamAsleep
  MapStreamComplete
  ClosedPoolHoldsNothing
  OutstandingExact
PROPERTIES
  SteadyStreamsEnd
  CloseCompletes
CHECK_DEADLOCK FALSE
