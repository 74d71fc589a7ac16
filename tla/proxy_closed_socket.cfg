SPECIFICATION Spec
CONSTANTS
  Pool = {p1, p2}
  Main = main
  Sock = {"server", "client"}
  Tracked = {"receive", "send"}
  Timers = {"timer"}
  Purpose = {"connect", "transfer"}
  SlowConnect = FALSE
  LateCallbacks = FALSE
  MaxDepth = 1
  Talkers = {"server", "client"}
  CounterSize = 4
SYMMETRY PoolSymmetry
INVARIANTS
  NeverUsesClosedSocket
