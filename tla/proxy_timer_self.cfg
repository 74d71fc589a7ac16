SPECIFICATION Spec
CONSTANTS
  Pool = {p1}
  Main = main
  Sock = {"server", "client"}
  Tracked = {"receive", "send"}
  Timers = {"timer"}
  Purpose = {"connect", "transfer"}
  SlowConnect = FALSE
  LateCallbacks = TRUE
  MaxDepth = 2
  Talkers = {"server", "client"}
  CounterSize = 4
INVARIANTS
  TimerNeverAwaitsItself
