\* One client of each of two agents, that both want a broadcast; two messages,
\* one failure and one returned message.
SPECIFICATION FairSpec
CONSTANTS
  a = a
  b = b
  t = t
  a1 = a1
  b1 = b1
  m1 = m1
  m2 = m2
  Message = {m1, m2}
  Conn = {a1, b1}
  AgentOf <- MCAgentOf
  TenantOf <- MCTenantOf
  Kind = {"direct", "broadcast"}
  Priority = {0, 1}
  Limit = 1
  NoAgent = none
  NoTenant = nowhere
  MaxFailures = 1
  MaxReturned = 1
INVARIANTS TypeOK CopiesNeedContention DeliveredReached
PROPERTIES PendingTaken
CHECK_DEADLOCK FALSE
