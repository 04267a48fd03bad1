SPECIFICATION Spec
CONSTANTS
  Capacity = 2
  MaxJobs = 3
  Owner = {plain, map}
  Plain = plain
  Caller = {c1}
INVARIANTS
  TypeOK
  Accounting
  EveryJobHasAThread
  NoLostWakeup
  ExpiryReachesEveryJob
PROPERTY
  ImplementsService
CHECK_DEADLOCK FALSE
