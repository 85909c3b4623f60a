SPECIFICATION Spec
CONSTANTS
  c1 = c1
  c2 = c2
  Calls = {c1, c2}
  Attempts <- MCAttempts
  Policies <- MCPolicies
  MaxAttempts = 2
  MaxPinTries = 2
  MaxFrames = 2
INVARIANTS BilledOnce
CHECK_DEADLOCK FALSE
