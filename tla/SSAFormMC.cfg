\* The bodies of SSAFormMC, run with two values.
SPECIFICATION Spec
CONSTANTS
  None = None
  x = x
  y = y
  Vars <- TheVars
  Data = {0, 1}
  Programs <- Structured
INVARIANTS TypeOK GraphTrue DominatorsExact FrontierTrue NamesRight
PROPERTY Completes
CHECK_DEADLOCK FALSE
