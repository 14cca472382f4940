SPECIFICATION MCSpec
CONSTANTS
  Parts = {"buffers", "packing", "copying", "maps"}
  BfropsComponents = {"v12", "v20", "v21", "v3"}
  Buffers = {"a", "b"}
  Bytes = {"x", "y"}
  Types = {"full", "bare"}
  initial_size = 1
  threshold_size = 3
  Payloads <- MCPayloads
  MaxUsed = 4
CHECK_DEADLOCK FALSE
INVARIANTS InBounds PackingSound CopiesSound
PROPERTIES BufferIsQueue DataArrives
