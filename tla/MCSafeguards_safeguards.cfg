SPECIFICATION PartsSpec
CONSTANTS
  loop = loop
  worker = worker
  Callers <- TwoCallers
  Threshold = 2
  Window = 2
  Cooldown = 2
  MutationsEnabled = TRUE
  MaxTime = 3
  TreeAssets = {"A", "B"}
  Wallets = {{"A"}, {}}
  TreeDepth = 2
  TreeChildren = 1
  TreeNodes = 3
  TreeCycles = 4
  TreeFills = 1
  LoopOrders = {"looped"}
  ApiOrders = {"posted"}
  UserOrders = {"manual"}
  Buys <- CoinOrOther
  FillWindow = 0
  StaleAge = 1
  LastQuarter = 1
  Discrepancies <- Reports
  NoteWindow = 2
  DriftWindow = 1
  WalletRoots = {"root"}
  Worths = {0, 2}
  Tolerance = 1
  LastTick = 3
  StaleAfter = 1
  RecentLimit = 2
  OrderFailureThreshold = 2
  ModelAnswers = {"NOOP", "garbage"}
  MaxIncidents = 2
  MaxAudits = 2
SYMMETRY CallerSymmetry
INVARIANTS
  TypeOK
  ClosedBelowThreshold
  InFlightPredatesOpening
  ClosedRowHasOutcome
  AnomalyOnRecord
  SilenceIsReal
PROPERTIES
  EarlyClosingIsOverdue
  SharedIdsExplained
  OpenChildrenKept
  OwnOrdersRecognised
CHECK_DEADLOCK FALSE
