\* Two workers, two jobs that both have handlers: is an exhausted job ever run again?
SPECIFICATION Spec
CONSTANTS
  j1 = j1
  j2 = j2
  w1 = w1
  w2 = w2
  Jobs <- MCJobs
  Workers <- MCWorkers
  Handled <- MCJobs
  MaxAttempts <- MCMaxAttempts
  BatchSize = 2
PROPERTY
  ExhaustedNeverRerun
