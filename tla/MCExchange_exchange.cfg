SPECIFICATION Spec
CONSTANTS
  Callers = {"loop", "worker"}
  MaxCalls = 2
  MaxRetries = 1
  MaxCrashes = 1
  Buyers = {"loop", "worker"}
  TradedPairs = {"DOGE"}
  RestMax = 4
  RestDecay = 1
  PlainCost = 2
  TradesCost = 4
  EngineMax = 3
  TicksPerPoint = 2
  OrderCost = 2
  CancelPenalty = 1
  MaxRepeats = 1
  MaxNow = 2
  FeedPairs = {"DOGE", "ALT"}
  FeedOrders = {"first", "second"}
  Loops = {"ticker", "orders"}
  MaxFaults = 3
INVARIANT WithinPolicy
INVARIANT SubscriptionsKept
INVARIANT AnnouncedOnce
PROPERTY AtMostOnce
PROPERTY GivenUpStaysDead
PROPERTY EveryCallReturns
PROPERTY DropIsRepaired
CHECK_DEADLOCK FALSE
