SPECIFICATION Spec
CONSTANTS
  buy = buy
  sell = sell
  Pairs <- OnlyBuy
  BuyPairs <- OnlyBuy
  PriceOf <- BuyPrice
  Capital = 3
  Lots = {2}
  ExitPrices = {1}
  MaxDepth = 2
  MaxChildren = 2
  RootPair = "no pair"
  ConditionalTree = FALSE
  MaxNodes = 2
  MaxOrders = 2
INVARIANT OneLiveEntryPerNode
