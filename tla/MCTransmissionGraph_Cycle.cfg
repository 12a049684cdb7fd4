SPECIFICATION Spec
CONSTANTS
  MaxRequests = 40
  MaxPairs = 20
  Streams <- RingStreams
  Op <- MCOp
  Link <- MCLink
  link <- MClink
  pcp <- MCpcp
  InitialFrames <- MCframes
  InitialOrder <- MCorder
  InitialPred <- MCpred
  InitialSucc <- MCsucc
  objective_type = "PER_FRAME"
  Objectives = {"MAKESPAN", "PER_FRAME"}
INVARIANTS
  CyclesAreReported
