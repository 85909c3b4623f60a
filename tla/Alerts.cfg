SPECIFICATION Spec
CONSTANTS
  c1 = c1
  c2 = c2
  a1 = a1
  a2 = a2
  ch1 = ch1
  Recorders = {c1, c2}
  WindowSize = 3
  MinSamples = 2
  MaxClaimTries = 2
  MaxAlerts = 2
  MaxFaults = 1
  none = none
  Channels = {ch1}
  NoChannel = none
  Admins = {a1, a2}
  Casts <- MCCasts
  MaxDeliveries = 2
SYMMETRY MCSymmetry
INVARIANTS TypeOK AlertsAlternate LastAlertIsRight RemovedHearsNothing
CHECK_DEADLOCK FALSE
