SPECIFICATION Spec
CONSTANTS
  Nodes = {n1, n2, n3}
  Lists = {l1, l2}
  Cursors = {c}
  Null = null
  Before = before
INVARIANT Consistent
PROPERTIES ImplementsSequences AddedBeside
CHECK_DEADLOCK TRUE
