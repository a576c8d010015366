SPECIFICATION Spec
CONSTANTS
    Pairs = {"DOGE", "ALT"}
    Doge = "DOGE"
    EntryUsd = 1
    Balances <- OneEach
    MaxUnread = 1
    Views = {"bullish", "bearish"}
    WebOrders <- LongAlt
    OrderQuantity = 2
    MaxOrders = 3
    MaxWebOrders = 1
    MaxBeliefs = 2
    MaxCrashes = 1
INVARIANT EveryPositionHasStop
