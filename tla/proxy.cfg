SPECIFICATION FairSpec
CONSTANTS
  Pool = {p1}
  Main = main
  Sock = {"server", "client"}
  Tracked = {"receive", "send"}
  Timers = {"timer"}
  Purpose = {"connect", "transfer"}
  SlowConnect = FALSE
  LateCallbacks = FALSE
  MaxDepth = 1
  Talkers = {"server", "client"}
  CounterSize = 4
INVARIANTS
  TypeOK
  CountsOpenSides
  AcceptsOnlyWhenClosed
  BufferHasOneUser
  NoReuse
  LockHolderRuns
  TimerNeverAwaitsItself
  NeverLost
PROPERTIES
  ImplementsSlot
  ClosedConnectionAccepts
