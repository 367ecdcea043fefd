\* Keys: two callers, two keys.  Consents: two records.  Tenants: one, and the
\* demo tenant.  Agents: two starts of the sentinel.  Streams: one client.
\* Safety: one wrapped action.  Page: two polls.  Web: two clients, three
\* requests.  Limit: two processes, four requests.
\* Bounds stop everything at some point: keys are drawn, records written, ticks
\* counted; no deadlock is looked for.
SPECIFICATION Spec
CONSTANTS
  MaxKeys = 2
  KeyClient = {k1}
  KeyAdmin = {k2}
  MaxConsents = 2
  MaxInstant = 2
  TenantId = {"t"}
  DemoTenant = "default"
  Plan = {"free", "enterprise"}
  TokensPerDay <- TwoPlans
  FreePlan = "free"
  Text = Text
  Missing = Missing
  Uncounted = Uncounted
  MaxCredit = 1
  MaxSent = 2
  Plain = {"heartbeat"}
  Sentinel = "sentinel"
  Start = {s1, s2}
  Check = {h1}
  MaxTicks = 2
  Client = {c1}
  AuditSlot = {a1, a2}
  SnapshotSize = 2
  MaxLogged = 4
  Wrapped = {w1}
  ActionRequest <- ManyRequests
  Leaks <- ThreeOutputs
  MaxBreaches = 2
  MaxBlocked = 3
  PageSize = 1
  LiveSize = 2
  Poll = {p1, p2}
  MaxRows = 4
  WebClient = {u1, u2}
  MaxAccounts = 2
  MaxWebKeys = 2
  MaxResets = 1
  MaxWebCalls = 3
  RateLimit = 2
  RateWindow = 1
  RateRequest = {q1, q2}
  MaxSecond = 2
  MaxRequests = 4
INVARIANTS
  RevocationFinal RejectionJustified SuccessorMeansRevoked ExpiredRejectedByTable
  RevocationKept RestartKeepsDecision
  UsageWithinLimits
  OneInterval ShutdownStopsAgents
  DeliveredOnce LeftoversNeedEarlyClose
  VerdictMonotone BreachesLatest
  NoRowSkipped RecountNeedsReorder
  DeletedStaysOut ResetSetsOnce TableForksNeedOverlap
  AdmittedPerWindow
PROPERTIES StartSettles KeysImplementAccess WebKeysImplementAccess
CHECK_DEADLOCK FALSE
