SPECIFICATION Spec
CONSTANTS
  n1 = n1
  n2 = n2
  p1 = p1
  p2 = p2
  s1 = s1
  m1 = m1
  m2 = m2
  Node = {n1, n2}
  Proc = {p1, p2}
  Secret = {s1}
  Mac = {m1, m2}
  allowed <- OneDevice
  Dates = {0, 1}
  Gone = Gone
  Nowhere = Nowhere
  MaxVersions = 3
  MaxWork = 4
INVARIANTS TypeOK WithinAllowance
PROPERTIES HooksChooseWell SettledStays RemovalsSpread UsesSpread
