SPECIFICATION Spec
CONSTANTS
  None = None
  Cfg <- Config
  Bars <- PriceSet
  Offers <- OfferSet
  Engines <- EngineSet
  initial_balance = 1000
  MaxBars = 4
  MaxRuns = 2
  MaxNights = 1
INVARIANTS LossesHalt OneTradePerApproval
CHECK_DEADLOCK FALSE
