SPECIFICATION UnrollingSpec
CONSTANTS
  MaxInt = 15
  MaxFactor = 4
  Unset = Unset
CHECK_DEADLOCK FALSE
INVARIANT IterationsKept
