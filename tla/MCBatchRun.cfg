SPECIFICATION BatchSpec
CONSTANTS
  Capacity = 2
  MaxJobs = 4
  Owner = {plain}
  Plain = plain
  Caller = {driver}
  Driver = driver
  SourceJobs = 4
  Endless = {1}
INVARIANTS
  NoSilentLoss
  RoomForPulledJob
PROPERTIES
  EveryRequestAnswered
  ClosingTerminates
CHECK_DEADLOCK FALSE
