\* One process, one write, no fault.
SPECIFICATION FairSpec
CONSTANTS
  p1 = p1
  r1 = r1
  Processes <- OneProcess
  Readers <- NoReader
  Depth = 1
  MaxWrites = 1
  Valid = {1}
  MaxFaults = 0
CHECK_DEADLOCK FALSE
PROPERTIES
  ChangesArrive
