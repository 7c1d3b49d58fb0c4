SPECIFICATION Spec
CONSTANTS
  None = None
  NoCandle = NoCandle
  Requests = {q1, q2}
  q1 = q1
  q2 = q2
  Symbols <- SymbolSet
  Files <- FileSet
  Session = {2, 3, 4, 5, 6, 7}
  MinuteLength = 2
  RecentMax = 1
  Clients = {c1}
  c1 = c1
  Bounds <- BoundSet
SYMMETRY Symmetric
INVARIANTS WholeCandles AckedIsKept
PROPERTIES HaltHolds
CHECK_DEADLOCK FALSE
