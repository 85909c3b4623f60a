\* Two workers, two jobs, claims of up to two rows.
SPECIFICATION FairSpec
CONSTANTS
  j1 = j1
  j2 = j2
  w1 = w1
  w2 = w2
  Jobs <- MCJobs
  Workers <- MCWorkers
  Handled <- MCHandled
  MaxAttempts <- MCMaxAttempts
  BatchSize = 2
INVARIANTS
  TypeOK
  OneOwner
  RunsWithinAttempts
  SettledForAReason
PROPERTIES
  OneRunPerClaim
  ImplementsLifecycle
  EveryJobSettles
