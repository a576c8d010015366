SPECIFICATION FairSpec
CONSTANTS
  buy = buy
  sell = sell
  Pairs <- BothPairs
  BuyPairs <- OnlyBuy
  PriceOf <- Prices
  Capital = 2
  Lots = {1}
  ExitPrices = {1}
  MaxDepth = 2
  MaxChildren = 2
  RootPair = sell
  ConditionalTree = TRUE
  MaxNodes = 2
  MaxOrders = 1
PROPERTIES
  ExpiredPlanResolved
  FillsSettled
