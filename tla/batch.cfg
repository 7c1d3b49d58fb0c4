SPECIFICATION FairSpec
CONSTANTS
  p1 = p1  p2 = p2  old = old  a = a  b = b
  buyX = buyX  sellX = sellX  buyY = buyY  buyZ = buyZ  sellZ = sellZ  buyV = buyV
  x = x  y = y  z = z  v = v
  Procs = {p1, p2}
  Batches <- ThreeBatches
  Past = {old}
  Home <- HomeOfThree
  Results <- ReversingBatches
  Signals <- AllSignals
  Sym <- SymbolOf
  Dir <- DirectionOf
  OldKeys = {sellX}
  MaxOpen = 2
  QueueMax = 1
  LockTTL = 1
  DedupTTL = 1
  Account = Account
  None = None
INVARIANTS TypeOK PositionCap OnePerSymbol
PROPERTIES OncePerKey BatchEnds
