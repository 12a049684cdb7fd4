SPECIFICATION TSNSpec
CONSTANTS
  Streams <- LineAndRing
  Groups <- LineOrRing
  Vertex <- Vertices
  EdgeType = {"FIFO", "MACHINE", "JOB"}
  Graphs <- StreamGraphs
  start <- SINK_ID
  src <- SOURCE_ID
  snk <- SINK_ID
  weights <- MCweights
  arrivals <- MCarrivals
  op <- MCop
  mk_firm <- MCmk_firm
  qos <- MCqos
  data_rate <- MCdata_rate
  clock_resolution = 1
  cycle <- MCcycle
  TicksPerSec = 10
CHECK_DEADLOCK FALSE
INVARIANT
  ElevatedFramesAreAdmitted
