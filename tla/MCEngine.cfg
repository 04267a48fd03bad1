SPECIFICATION EngineSpec
CONSTANTS
  Attempt = {a}
  This = a
  NoOne = no_one
  Overlapping = FALSE
  Unbudgeted = unbudgeted
  Calls <- TheCalls
INVARIANTS
  OwnDeath
  OutputComplete
  GroupGone
PROPERTY StoppedCallReturns
CHECK_DEADLOCK FALSE
