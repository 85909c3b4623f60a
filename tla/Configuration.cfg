\* One process with a consumer, one request over two scopes, two writes, one fault.
SPECIFICATION FairSpec
CONSTANTS
  p1 = p1
  r1 = r1
  Processes <- OneProcess
  Readers <- OneReader
  Depth = 2
  MaxWrites = 2
  Valid = {1, 2}
  MaxFaults = 1
CHECK_DEADLOCK FALSE
INVARIANTS
  TypeOK
  InformedIsFresh
PROPERTIES
  NoGoingBack
  StaleCopiesGo
