SPECIFICATION Spec
CONSTANTS
  p1 = p1
  p2 = p2
  c1 = c1
  c2 = c2
  c3 = c3
  Proc = {p1}
  Call = {c1, c2}
  ProcOf <- TwoInOneProcess
  Kinds = {"audit", "broadcast", "library"}
  MaxRecords = 4
  MaxTorn = 2
INVARIANTS LinksPointBack AllOrNothing
