\* Two requests, a budget of two units, calls that cost up to two, and
\* estimates that may be too low; at most one round of tools.
SPECIFICATION FairSpec
CONSTANTS
  Req = {r1, r2}
  Budgets = {1, 2}
  Estimate = {1, 2}
  MaxCost = 2
  MaxDepth = 1
INVARIANTS  RevocationHonoured
PROPERTIES RequestsAnswered
