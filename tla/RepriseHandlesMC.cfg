SPECIFICATION Spec
CONSTANTS
  parent = parent
  child = child
  member = member
  link = link
  Objects = {parent, child}
  Cells = {c0, c1, c2, c3}
  Strong = {member, s1, s2, temp}
  Weak = {link, w1}
  Temp = temp
  Null = null
  Home <- HomeMC
INVARIANTS TypeOK MemorySafe RefsExact CellsExact WeakHonest
PROPERTIES ImplementsOwnership StatementsEnd
CHECK_DEADLOCK TRUE
