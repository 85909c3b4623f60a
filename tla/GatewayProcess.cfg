SPECIFICATION Spec
CONSTANTS
  r1 = r1
  r2 = r2
  Requests = {r1, r2}
  Capacity = 1
  RefillTokens = 1
  RefillInterval = 2
  Cost = 1
  MaxBucketTries = 2
  MaxSkew = 1
  Leavers = {r1}
  MaxClock = 4
  Tenants <- MCTenants
INVARIANTS TypeOK GrantsCovered ServedByWholeProcess ForwardedAsConfigured
PROPERTIES ShutdownEnds
CHECK_DEADLOCK FALSE
