SPECIFICATION JsonSpec
CONSTANTS
  Deadline = TRUE
  MaxFrame = 2
  MaxTotal = 8
  MaxOutputs = 1
  ChunkBytes = 2
  MaxFrames = 3
  FrameSizes = {0, 1, 2, 3}
  Numbers = {0, 1}
INVARIANTS
  ReadsAsReference
  BufferBounded
  StopOutranksBody
  ParsesWhatReturned
PROPERTIES
  NeverEntersLate
  InterruptAnswers
CHECK_DEADLOCK FALSE
