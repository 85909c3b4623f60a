\* Two concurrent calls; a threshold of two failures; two attempts per transaction.
SPECIFICATION FairSpec
CONSTANTS
  c1 = c1
  c2 = c2
  t1 = t1
  t2 = t2
  NoToken = NoToken
  Callers <- TwoCallers
  Tokens <- TwoTokens
  Threshold = 2
  MaxRetries = 2
  MaxFailures = 3
INVARIANTS
  TypeOK
PROPERTIES
  ClosedOnlyByLiveTrial
  ImplementsBreaker
  OpenIsProbed
