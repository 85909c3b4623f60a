\* No fault at all: is an accepted batch always executed?
SPECIFICATION FairSpec
CONSTANTS
  b1 = b1
  b2 = b2
  d1 = d1
  d2 = d2
  Batches <- OneBatch
  Background <- NoBatch
  Hooked <- NoBatch
  Drainers <- OneDrainer
  DrainSize = 1
  HandOffs = 1
  Attempts = 2
  Faults = {}
  MaxFaults = 0
CHECK_DEADLOCK FALSE
PROPERTIES
  AcceptedIsProcessed
