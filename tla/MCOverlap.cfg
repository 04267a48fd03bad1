SPECIFICATION Spec
CONSTANTS
  Attempt = {a1, a2}
  NoOne = no_one
  Overlapping = TRUE
PROPERTY LifecycleMovesForward
CHECK_DEADLOCK FALSE
