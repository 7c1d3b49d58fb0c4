SPECIFICATION LedgerSpec
CONSTANTS
  t1 = t1  t2 = t2  t3 = t3  t4 = t4
  i1 = i1  i2 = i2  i3 = i3
  Trades <- FourTrades
  Margin <- FourMargins
  Instrument <- FourInstruments
  Pnls <- NoChange
  Capital = 4
  MaxOpenPositions = 2
  Workers = {w1}
  Manuals = {}
  Closers = {}
  Monitors = {}
  TradeMonitors = {k1}
  KillSwitches = {q1}
  Resets = {r1}
  NoSession = NoSession
  NoMark = NoMark
  Trailed = Trailed
INVARIANTS OpenPositionsCap OnePositionPerInstrument
PROPERTIES NeverReopened
CHECK_DEADLOCK FALSE
