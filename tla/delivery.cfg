SPECIFICATION FairSpec
CONSTANTS
  m1 = m1  m2 = m2  s1 = s1
  Workers = {w1}
  Recoverers = {r1}
  RecoveryStarts = TRUE
  Msgs <- TwoMsgs
  Signals <- OneSignal
  Signal <- SameSignal
  CandleTime <- BornAtOnce
  Timeless = {}
  BatchSize = 2
  StaleAge = 1
  KeyTTL = 3
  IdleTime = 1
  DiscardAge = 2
  PoisonLimit = 1
  RetryLimit = 5
  MaxStall = 1
  MaxTime = 4
  Quiet = 2
  NoMsg = NoMsg
INVARIANTS AtMostOnce LostOnlyByFailure
PROPERTIES Settled
CHECK_DEADLOCK FALSE
