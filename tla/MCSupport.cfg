SPECIFICATION SupportSpec
CONSTANTS
  Device <- MCDevice
  Network = {1, 2, 3, 4, 5}
  SOURCE = 0
  Listed <- MCListed
  Paths <- Replicated
  InitialDevices = {"nullptr"}
  VALUE = 0
  Counts = {0, 1, 2}
  TicksPerSec = 100
  Periods = {2, 3}
  Lengths = {1, 2, 3}
  Sizes = {1, 3}
  Latencies = {1, 2, 3}
CHECK_DEADLOCK FALSE
INVARIANTS
  RouteIsItsLinks
  LinksAreConnected
  ReloadKeepsLinks
  BudgetsAreSufficient
  BucketsCoverElevations
PROPERTIES
  CopiesAgree
  KeepsPromise
  LoopEnds
