\* One request that may use a tool.
SPECIFICATION Spec
CONSTANTS
  Req = {r1}
  Budgets = {2}
  Estimate = {1, 2}
  MaxCost = 2
  MaxDepth = 1
PROPERTIES CostRecorded
