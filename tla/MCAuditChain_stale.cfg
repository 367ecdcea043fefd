SPECIFICATION Spec
CONSTANTS
  p1 = p1
  p2 = p2
  c1 = c1
  c2 = c2
  c3 = c3
  Proc = {p1}
  Call = {c1}
  ProcOf <- OneSlot
  Kinds = {"audit", "broadcast"}
  MaxRecords = 3
  MaxTorn = 0
INVARIANTS AlwaysVerifies
