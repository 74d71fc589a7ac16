SPECIFICATION TimelySpec
CONSTANTS
  Pool = {p1, p2}
  Main = main
  Sock = {"conn"}
  Tracked = {"receive"}
  Timers = {"file_timer", "connection_timer"}
  Purpose = {"set"}
  MaxFileSize = 2
  MaxFiles = 2
  MutexSize = 4
  BufferSize = 1
  LateCallbacks = FALSE
  MaxDepth = 0
SYMMETRY PoolSymmetry
INVARIANTS
  ReceivedDataIsTaken
