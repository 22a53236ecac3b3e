SPECIFICATION PayFairSpec
CONSTANTS
  o1 = o1
  o2 = o2
  s1 = s1
  va = va
  c1 = c1
  c2 = c2
  h1 = h1
  h2 = h2
  r1 = r1
  r2 = r2
  g1 = g1
  g2 = g2
  None = None
  Declines = {}
  Orders = {o1}
  Variants = {va}
  Sweepers = {}
  Methods = {"razorpay", "cod"}
  Baskets <- OneEach
  Credits = {0}
  GrandTotal = 1
  Captures = {1}
  Opening <- One
  Adjustments = {}
  AdjustBound = 1
  CodPressedFor = {}
  ShipFrom = {}
  Sessions = {c1, c2}
  Requests = {h1}
  Redrivers = {r1}
  GatewayIds = {g1, g2}
  MaxAttempts = 2
  DeliveryBound = 1
CHECK_DEADLOCK FALSE
INVARIANT CapturedWasPaid
PROPERTIES
  RefStays
  CapturesLand
