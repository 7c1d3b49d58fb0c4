SPECIFICATION Spec
CONSTANTS
  None = None
  Raises = Raises
  NoIndex = NoIndex
  Bars <- AllBars
  Orders <- LoadOrders
  Keys = {"ema_crossover", "orb_vwap", "multi_strategy"}
  Starts <- StartSet
  MaxBars = 2
  MaxMoves = 1
  Ids <- IdsOfOrders
  Closers = {w1}
  Askers = {"runner", "meta"}
  MaxLosses = 1
  WinLookback = 2
  WinPct = 35
  PfLookback = 3
  Pnls <- Results
  MaxTrades = 2
  MaxDays = 1
INVARIANTS EvaluatedAlone OneVoice
PROPERTIES PauseHolds
CHECK_DEADLOCK FALSE
