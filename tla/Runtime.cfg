SPECIFICATION MCSpec
CONSTANTS
  Pointers = {p, q}
  NullPointer = NULL
  WordBits = 2
  initial_allocation = 1
  max_size = 5
  block_size = 2
  MaxIndex = 5
  Parts = {"pointer array", "frameworks", "lifecycle", "rendezvous", "interfaces", "connection"}
  Barriers = FALSE
INVARIANTS PointersSound LifecycleSound RendezvousSound ConnectionsSound
PROPERTIES  RuntimeEnds
CHECK_DEADLOCK FALSE
