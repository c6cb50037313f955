SPECIFICATION PlanSpec
CONSTANTS
  Requests = {r1, r2}
  Paths = {p, q}
  MaxProviders = 1
  MaxRestarts = 1
INVARIANT StagingOwned
CHECK_DEADLOCK FALSE
