SPECIFICATION ServicesSpec
CONSTANTS
  t0 = t0
  t1 = t1
  b1 = b1
  b2 = b2
  Tools = {t0, t1}
  Price <- MCPrice
  Buyers = {b1, b2}
  Hostings <- MCHostings
  UptoCeiling = 5
  UptoFee = 1
  TimerBudget = 4
  ThoughtCeiling = 2
  MaxSteps = 3
  Deposits = {5}
  MaxThinkFaults = 1
  p1 = p1
  p2 = p2
  own = own
  r1 = r1
  Payments = {p1, p2}
  OwnSellers = {own}
  NewSellers = {r1}
  Strangers = {}
  SignedAmount = 1
  SellerDayCap = 1
  SharedDayCap = 1
  GasAtStart = 1
  GasReserve = 1
  MaxSellers = 1
  FileFaults = FALSE
  MaxFacDay = 1
  MaxFacFaults = 1
  MoveAmount = 3
  MoveFeeCap = 1
  KeepForGas = 1
  ArcGas = 1
  MaxMoves = 2
  MaxLaneFaults = 1
  JobIds = {j1}
  JobCalls = {1, 2}
  Budgets = {1, 2, 3}
  JobPaymentCap = 2
  JobDayCap = 3
  MaxJobFaults = 1
  k0 = k0
  k1 = k1
  cheap = cheap
  dear = dear
  Listable = {k0, k1}
  OurRoutes = {k0}
  Terms = {cheap, dear}
  CircleLists <- MCCircleLists
  Submissions = {1, 2}
  HostCap = 1
  CheckBatch = 1
  OfflineAfter = 1
  GoneAfter = 2
  PageTries = 2
  OtherFacilitators = {f1}
  Awakenings <- MCAwakenings
  MaxOfferChanges = 1
  MaxCatalogueFaults = 1
  ShopCalls = {1, 2}
  ShopRoutes = {"wallet", "tx", "npm", "whois", "convert", "fail"}
  PriceTags = {1, 8}
  CdpMin = 2
  DirectFloor = 6
  Openings <- MCOpenings
  RpcEndpoints = 2
  Quotings <- MCQuotings
  RateSpread = 10
  PriceTolerance = 10
  SatScale = 100
  MinMsat = 1
  StepMsat = 2
  InvoicesPerMinute = 1
  MaxQuoteMoves = 1
  MaxShopFaults = 1
  LastRun = 2
  RunSteps = 1
  Reduced = {FALSE, TRUE}
  MaxLoops = 2
  MaxVisits = 2
  MaxSilences = 1
INVARIANTS ServicesTypeOK BudgetKept BillCoversTheRun ShownIsTrue SaleReportsTrue AllowanceHeld
       
PROPERTIES ServicesGoOn
CHECK_DEADLOCK FALSE
