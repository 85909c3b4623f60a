\* Two requests, costs above and below the reservation; a period ends, or the policy changes or goes,
\* or a request is billed twice.
\* Neither the fairness nor a property names a request.
SPECIFICATION FairSpec
CONSTANTS
  r1 = r1
  r2 = r2
  NoPolicy = NoPolicy
  Absent = Absent
  Requests <- TwoRequests
  Last = 2
  Costs = {0, 2}
  Policies <- BothPolicies
  First <- Small
  MaxRetries = 2
  MaxBills = 2
  MaxDones = 2
  MaxChanges = 1
  Starts <- SomeStarts
SYMMETRY Interchangeable
CHECK_DEADLOCK FALSE
INVARIANTS
  TypeOK
  CounterIsExact
  SoftLimitAlertedOnce
PROPERTIES
  AdmittedWithinLimit
  DriftIsCorrected
