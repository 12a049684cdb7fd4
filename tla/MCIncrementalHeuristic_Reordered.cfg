SPECIFICATION Spec
CONSTANTS
  MaxRequests = 40
  MaxPairs = 20
  Streams <- ReorderedStreams
  MaxCalls = 3
INVARIANT CallsAreDefined
CHECK_DEADLOCK FALSE
