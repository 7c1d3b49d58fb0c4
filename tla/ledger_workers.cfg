SPECIFICATION FairLedgerSpec
CONSTANTS
  t1 = t1  t2 = t2  t3 = t3  t4 = t4
  i1 = i1  i2 = i2  i3 = i3
  Trades <- FourTrades
  Margin <- FourMargins
  Instrument <- FourInstruments
  Pnls <- NoChange
  Capital = 3
  MaxOpenPositions = 4
  Workers = {w1, w2, w3}
  Manuals = {}
  Closers = {}
  Monitors = {}
  TradeMonitors = {}
  KillSwitches = {}
  Resets = {}
  NoSession = NoSession
  NoMark = NoMark
  Trailed = Trailed
INVARIANTS Conservation
PROPERTIES ImplementsAccount LockWaitEnds
CHECK_DEADLOCK FALSE
