SPECIFICATION Spec
CONSTANTS
  MaxRequests = 40
  MaxPairs = 20
  Streams <- RingStreams
  Op <- MCOp
  Link <- MCLink
  link <- MClink
  pcp <- MCpcp
  InitialFrames <- MCframes
  InitialOrder <- MCorder
  InitialPred <- MCpred
  InitialSucc <- MCsucc
  objective_type = "PER_FRAME"
  Objectives = {"PER_FRAME"}
INVARIANTS
  TypeOK
  FramesAreKept
  JobEdgesAreContracted
  MergesAreClosed
  UndoLeadsBack
  QueuesAreFIFO
  MergesAreSafe
  MergesArePairwise
