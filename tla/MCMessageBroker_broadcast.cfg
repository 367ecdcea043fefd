\* A broadcast in a tenant of two agents, with nothing failing.
SPECIFICATION Spec
CONSTANTS
  a = a
  b = b
  t = t
  a1 = a1
  b1 = b1
  m1 = m1
  m2 = m2
  Message = {m1, m2}
  Conn = {a1, b1}
  AgentOf <- MCAgentOf
  TenantOf <- MCTenantOf
  Kind = {"direct", "broadcast"}
  Priority = {0, 1}
  Limit = 1
  NoAgent = none
  NoTenant = nowhere
  MaxFailures = 0
  MaxReturned = 0
INVARIANTS BroadcastReachesAll
CHECK_DEADLOCK FALSE
