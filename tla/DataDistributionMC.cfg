SPECIFICATION Spec
CONSTANTS
  Distributions <- OneBlockEach
  MaxProcesses = 3
  Sweeps = 3
  Junk = Junk
INVARIANTS TypeOK WithinBuffers HalosFresh Restored
PROPERTIES ImplementsSweeps Ends
CHECK_DEADLOCK FALSE
