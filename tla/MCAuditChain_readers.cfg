SPECIFICATION Spec
CONSTANTS
  p1 = p1
  p2 = p2
  c1 = c1
  c2 = c2
  c3 = c3
  Proc = {p1, p2}
  Call = {c1, c2, c3}
  ProcOf <- TwoProcesses
  Kinds = {"audit", "library"}
  MaxRecords = 4
  MaxTorn = 0
SYMMETRY SlotSymmetry
INVARIANTS ForkNeedsOverlap NoForkBySelf
PROPERTIES ImplementsLinkedLog
