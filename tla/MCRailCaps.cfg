SPECIFICATION Spec
CONSTANTS
  Calls = {c1, c2}
  Sellers = {s1, s2}
  Permitted = {s1}
  MaxPrice = 2
  PerPaymentCap = 2
  DailyCap = 2
  SellerCap = 2
  RateMax = 1
  DayWindow = 1
  RateWindow = 0
  IdentityRequired = FALSE
  X402Schemes = {"exact", "upto"}
  Ceilings = {1}
  EscrowAbove = 1
  Concurrent = TRUE
  MayCrash = FALSE
  MaxTime = 1
INVARIANT SpendWithinCaps
