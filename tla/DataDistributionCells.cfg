SPECIFICATION Spec
CONSTANTS
  Distributions <- TwoCells
  MaxProcesses = 3
  Sweeps = 3
  Junk = Junk
INVARIANT WithinBuffers
CHECK_DEADLOCK FALSE
