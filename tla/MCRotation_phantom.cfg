SPECIFICATION Spec
CONSTANTS
  buy = buy
  sell = sell
  Pairs <- BothPairs
  BuyPairs <- OnlyBuy
  PriceOf <- Prices
  Capital = 2
  Lots = {1}
  ExitPrices = {1}
  MaxDepth = 1
  MaxChildren = 1
  RootPair = "no pair"
  ConditionalTree = FALSE
  MaxNodes = 2
  MaxOrders = 1
INVARIANT FreeReservedWithinTotal
