SPECIFICATION LedgerSpec
CONSTANTS
  t1 = t1  t2 = t2  t3 = t3  t4 = t4
  i1 = i1  i2 = i2  i3 = i3
  Trades <- TwoTrades
  Margin <- TwoMargins
  Instrument <- TwoInstruments
  Pnls <- LossAndProfit
  Capital = 4
  MaxOpenPositions = 2
  Workers = {w1, w2}
  Manuals = {x1}
  Closers = {c1}
  Monitors = {m1}
  TradeMonitors = {}
  KillSwitches = {}
  Resets = {r1}
  NoSession = NoSession
  NoMark = NoMark
  Trailed = Trailed
INVARIANTS LedgerTypeOK NoFurtherOverdraft LockedReadIsCurrent
