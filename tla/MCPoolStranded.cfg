SPECIFICATION PoolSpec
CONSTANTS
  Capacity = 2
  MaxJobs = 2
  Owner = {m, plain}
  Plain = plain
  Caller = {closer}
  Closer = closer
  p = p
  m = m
  Stream = {p, m}
  MapStream = {m}
  SourceJobs <- OnlyMap
  Width = 2
  Steady = {p}
  Free = free
PROPERTY StreamsEnd
CHECK_DEADLOCK FALSE
