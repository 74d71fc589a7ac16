SPECIFICATION Spec
CONSTANTS
  Pool = {p1, p2}
  Main = main
  Sock = {1, 2}
  Tracked = {"send"}
  Transfers = 2
  Loops = 1
  Length = 2
SYMMETRY PoolSymmetry
INVARIANTS
  TestsFinish
CHECK_DEADLOCK FALSE
