SPECIFICATION SpecShipped
CONSTANTS
  TicksPerSec = 100
  Periods = {2, 4}
  Lengths = {1, 2, 4}
  Sizes = {1, 3}
  Latencies = {2, 4}
CHECK_DEADLOCK FALSE
INVARIANT
  BucketHoldsWhatIsElevated
