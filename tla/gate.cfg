SPECIFICATION Spec
CONSTANTS
  m1 = m1  m2 = m2  s1 = s1
  Replicas = {r1, r2}
  r1 = r1  r2 = r2
  Msgs <- TwoMsgs
  Stocks <- OneStock
  Stock <- SameStock
  CandleTime <- BornAtOnce
  Scanner = {m2}
  Replay = {m2}
  MaxPositions = 1
  MaxPerStock = 2
  Cooldown = 1
  GateStaleAge = 2
  StaleAge = 1
  ReserveTTL = 3
  LockTTL = 1
  MaxTime = 3
  None = None
SYMMETRY Symmetric
INVARIANTS TypeOK OneEvaluation PositionLimit OverdueExplained ApprovalsCounted
CHECK_DEADLOCK FALSE
