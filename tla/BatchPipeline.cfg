\* One batch request, one drain loop, every kind of fault, two at most.
SPECIFICATION FairSpec
CONSTANTS
  b1 = b1
  b2 = b2
  d1 = d1
  d2 = d2
  Batches <- OneBatch
  Background <- NoBatch
  Hooked <- OneBatch
  Drainers <- OneDrainer
  DrainSize = 2
  HandOffs = 3
  Attempts = 2
  Faults = {"create", "pop", "lookup", "handOff", "requeue", "mark", "persist", "notify", "drainCrash", "runCrash"}
  MaxFaults = 2
CHECK_DEADLOCK FALSE
INVARIANTS
  TypeOK
  RoutedOnceUnlessFailOpen
  NotifiedAgreesWithRow
  NeverDropped
PROPERTIES
  OutcomeIsFinal
  LostOnlyToKnownGaps
