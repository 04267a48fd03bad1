SPECIFICATION Spec
CONSTANTS
  Attempt = {a1, a2, a3}
  NoOne = no_one
  Overlapping = FALSE
INVARIANTS
  FinalizedVerifies
  ReceiptsTellDurableState
PROPERTIES
  RefusedOnlyByARecord
  LifecycleMovesForward
  ForeignPreserved
CHECK_DEADLOCK FALSE
