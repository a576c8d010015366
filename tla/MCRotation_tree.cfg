SPECIFICATION Spec
CONSTANTS
  buy = buy
  sell = sell
  Pairs <- BothPairs
  BuyPairs <- OnlyBuy
  PriceOf <- Prices
  Capital = 3
  Lots = {1}
  ExitPrices = {2}
  MaxDepth = 2
  MaxChildren = 2
  RootPair = "no pair"
  ConditionalTree = FALSE
  MaxNodes = 3
  MaxOrders = 2
INVARIANTS
  ReservedBacked
  RootCapitalConserved
  CancelledUntracked
