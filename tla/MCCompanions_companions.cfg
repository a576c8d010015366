SPECIFICATION Spec
CONSTANTS
  Tasks = {1, 2}
  Dependent = {2}
  MaxAttempts = 2
  CouncilPairs = {"DOGE"}
  Agents = {"claude", "codex"}
  Votes = {"bullish"}
  MaxRequests = 2
  MaxHours = 1
  MaxBrokerKills = 1
  StaleHours = 0
  CleanupHours = 0
  Window = 1
  BrainAssets = {"X"}
  Renamed <- OnlyCross
  StaleOrderHours = 1
  MaxOrders = 2
  MaxFailures = 1
  Capitals = {0, 1, 2}
  Capacities = {4, 6}
  HeadroomPct = 75
  Minimum = 1
  Parts = 2
  MaxQuantity = 4
  MaxCycles = 2
INVARIANT OneRequestPending
INVARIANT RepeatsExplained
INVARIANT LegsLevel
PROPERTY BeliefHasVote
 
PROPERTY CommittedIsTested
PROPERTY CommittedOnce
PROPERTY EveryRunEnds
PROPERTY EveryRequestAnswered
PROPERTY StaleOrdersEnd
CHECK_DEADLOCK FALSE
