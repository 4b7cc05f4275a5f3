SPECIFICATION Program
CONSTANTS
  MaxInt = 15
  MaxFactor = 4
  Unset = Unset
  Bounds <- SmallBounds
CHECK_DEADLOCK FALSE
INVARIANTS Typed CounterAfter
PROPERTIES ImplementsOriginal NestCompleted
