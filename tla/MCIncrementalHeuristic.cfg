SPECIFICATION Spec
CONSTANTS
  MaxRequests = 40
  MaxPairs = 20
  Streams <- MixedStreams
  MaxCalls = 4
INVARIANTS
  GraphsFollowAdmission
  QueuesAreFIFO
CHECK_DEADLOCK FALSE
