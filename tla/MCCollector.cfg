SPECIFICATION CollectorSpec
CONSTANTS
  e1 = e1
  e2 = e2
  c1 = c1
  c2 = c2
  Endpoints = {e1, e2}
  Priority <- MCPriority
  Networks <- MCNetworks
  Excludes <- MCExcludes
  BatchLimit <- MCLimit
  LimitTold <- MCTold
  Callers = {c1, c2}
  Sizes = {3}
  MaxAttempts = 3
  LagTolerance = 0
  MaxHeight = 0
  MaxPoolFaults = 1
  Awake <- MCAwake
  Events <- MCEvents
  WatchFrom <- MCFrom
  Span = 2
  WindowMin = 1
  WindowMax = 2
  StartBlocks = {0, 1}
  Collected = {2}
  MaxTip = 3
  MaxWatchFaults = 2
  MaxBlock = 4
  StartBlock = 1
  RunUp = 0
  MaxCatchup = 3
  LagAlert = 1
  Batch = 2
  HeadWindow = 2
  HistWindow = 2
  History = FALSE
  MaxTries = 1
  MaxFaults = 1
  MaxRow = 3
  BatchRows = 2
  MaxReplays = 2
  MaxEnrichFaults = 2
  StallAlert = 1
  StallRestart = 3
  Grace = 1
  Repeat = 2
  MaxDogFaults = 2
INVARIANTS CollectorTypeOK   BoundChainKept  PaymentsIndexed
PROPERTIES CollectorGoesOn
CHECK_DEADLOCK FALSE
