SPECIFICATION Spec
CONSTANTS
  Pool = {p1}
  Main = main
  Sock = {"conn"}
  Tracked = {"receive"}
  Timers = {"file_timer", "connection_timer"}
  Purpose = {"set"}
  MaxFileSize = 2
  MaxFiles = 2
  MutexSize = 4
  BufferSize = 2
  LateCallbacks = FALSE
  MaxDepth = 0
INVARIANTS
  TypeOK
  FileMutexGuards
  FinalFilesHaveData
  SizeTracked
  FileIsTimed
  NobodyWaitsForItself
  ConnectionTimerNeverAwaitsItself
  NeverLost
PROPERTIES
  FinalFilesKept
CHECK_DEADLOCK FALSE
