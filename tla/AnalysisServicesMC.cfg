SPECIFICATION Spec
CONSTANTS
  p1 = p1  p2 = p2
  s1 = s1  s2 = s2  s3 = s3  s4 = s4
  c1 = c1  c2 = c2  c3 = c3
  Programs = {p1, p2}
  States = {s1, s2, s3, s4}
  Containers = {c1, c2, c3}
  Null = Null
  MaxEdits = 2
SYMMETRY Symmetric
INVARIANTS TypeOK AnswersCurrent ContainersSafe
