SPECIFICATION SwappingSpec
CONSTANTS
  leap = leap
  jumper = jumper
  Stmts = {jumper, s1, s2}
  Blocks = {b1, b2}
  Gathered = gathered
  Gotos = {leap}
  Cases = {case}
  Site <- SiteMC
  Labels = {L1, L2}
  Null = null
INVARIANTS JumpsLand
CHECK_DEADLOCK TRUE
