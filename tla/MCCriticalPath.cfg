SPECIFICATION GroupSpec
CONSTANTS
  Streams <- LineAndRing
  Groups <- LineOrRing
  Vertex <- Vertices
  EdgeType = {"FIFO", "MACHINE", "JOB"}
  Graphs <- StreamGraphs
  start <- SINK_ID
  src <- SOURCE_ID
  weights <- MCweights
  arrivals <- MCarrivals
INVARIANTS
  TypeOK
  FinishedInOrder
  EveryEdgeIsVisited
  EverythingIsFinished
  CostsAreLongestPaths
  ScheduleIsFeasible
  PredecessorsAreCritical
  CyclesAreReported
  CycleIsPrinted
PROPERTIES
  TraversalEnds
