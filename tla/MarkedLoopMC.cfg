SPECIFICATION Spec
CONSTANTS
  Nests <- Loops
  Sequences <- Rows
  Kinds <- AllKinds
  Targets = {"MISM", "SISM", "sequential"}
CHECK_DEADLOCK FALSE
INVARIANTS ArrowsComplete AsInOrder
