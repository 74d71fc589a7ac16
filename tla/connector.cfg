SPECIFICATION FairSpec
CONSTANTS
  Pool = {p1}
  Main = main
  Sock = {1, 2}
  Tracked = {"connect", "send", "disconnect"}
  Transfers = 2
  Loops = 2
  Length = 2
INVARIANTS
  TypeOK
  OneActivity
  InStep
  NoBreach
  RunningCounted
  EventMeansFinished
PROPERTIES
  EveryConnectionEnds
CHECK_DEADLOCK FALSE
