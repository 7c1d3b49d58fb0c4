SPECIFICATION FairSpec
CONSTANTS
  a = a  x1 = x1  x2 = x2  y1 = y1  x = x  y = y
  Ids = {a}
  Signals <- ThreeSignals
  SymbolId <- OneSymbol
  Strategy <- StrategyOf
  Dir <- AllBuy
  CandleTime <- Times
  Entry <- SameEntry
  Stop <- Stops
  Target <- Targets
  Foreign = {x2}
  Timeless = {x1}
  Window = 2
  MaxWait = 2
  MirrorTTL = 3
  DedupTTL = 1
  None = None
INVARIANTS TypeOK NothingLost MirrorOfPool TightestStop
PROPERTIES Flushed
