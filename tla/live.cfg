SPECIFICATION Spec
CONSTANTS
  Qty = 1
  Monitors = {w1, w2}
  Api = api
  Starts <- TwoMonitors
  Markets = {k1, k2}
  Entry = entry
  SlLeg = sl
  TpLeg = tp
  NoId = none
  MaxExpiries = 1
  MaxCrashes = 1
INVARIANTS TypeOK OneClosePerLock TurnedOnlyBy
CHECK_DEADLOCK FALSE
