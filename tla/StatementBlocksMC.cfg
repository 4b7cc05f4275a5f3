SPECIFICATION Spec
CONSTANTS
  leap = leap
  jumper = jumper
  Stmts = {jumper, s1, s2}
  Blocks = {b1, b2}
  Gathered = gathered
  Gotos = {leap}
  Cases = {case}
  Site <- SiteMC
  Labels = {L1}
  Null = null
INVARIANTS TypeOK ParentsTrue JumpsSound
PROPERTIES ImplementsEdits
CHECK_DEADLOCK TRUE
