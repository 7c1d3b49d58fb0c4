SPECIFICATION FairSpec
CONSTANTS
  Qty = 2
  Monitors = {w1}
  Api = api
  Starts <- ApiAndMonitors
  Markets = {k1}
  Entry = entry
  SlLeg = sl
  TpLeg = tp
  NoId = none
  MaxExpiries = 0
  MaxCrashes = 1
PROPERTIES ImplementsLife SquareOffSent
CHECK_DEADLOCK FALSE
