SPECIFICATION Spec
CONSTANTS
  p1 = p1
  p2 = p2
  m1 = m1
  m2 = m2
  s1 = s1
  s2 = s2
  Proc = {p1, p2}
  Secret = {s1, s2}
  Mac = {m1, m2}
  allowed <- OneAndBoth
  Horizon = 1
  NoRow = NoRow
SYMMETRY Interchangeable
INVARIANTS TypeOK WithinAllowance OnlyAccepted
