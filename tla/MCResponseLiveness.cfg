SPECIFICATION WriterSpec
CONSTANTS
  Kinds = {"plain", "nonstream"}
  MaxTokens = 1
  MaxBytes = 2
  MaxFrames = 2
PROPERTIES
  ConnectionCloses
  TaskEnds
CHECK_DEADLOCK FALSE
