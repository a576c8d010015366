SPECIFICATION Spec
CONSTANTS
  buy = buy
  sell = sell
  Pairs <- OnlyBuy
  BuyPairs <- OnlyBuy
  PriceOf <- BuyPrice
  Capital = 2
  Lots = {1}
  ExitPrices = {1}
  MaxDepth = 2
  MaxChildren = 2
  RootPair = buy
  ConditionalTree = FALSE
  MaxNodes = 2
  MaxOrders = 2
PROPERTY ParentClosesLast
