SPECIFICATION FairSpec
CONSTANTS
  Calls = {c1, c2}
  Sellers = {s1, s2}
  Permitted = {s1, s2}
  MaxPrice = 2
  PerPaymentCap = 2
  DailyCap = 3
  SellerCap = 2
  RateMax = 1
  DayWindow = 1
  RateWindow = 0
  IdentityRequired = FALSE
  X402Schemes = {"upto"}
  Ceilings = {1}
  EscrowAbove = 2
  Concurrent = FALSE
  MayCrash = TRUE
  MaxTime = 2
INVARIANTS TypeOK SpendWithinCaps RateHeld CeilingHeld  
PROPERTIES  ImplementsSpendLimit
