SPECIFICATION PaySpec
CONSTANTS
  o1 = o1
  o2 = o2
  s1 = s1
  va = va
  c1 = c1
  c2 = c2
  h1 = h1
  h2 = h2
  r1 = r1
  r2 = r2
  g1 = g1
  g2 = g2
  None = None
  Declines = {g1}
  Orders = {o1}
  Variants = {va}
  Sweepers = {s1}
  Methods = {"razorpay"}
  Baskets <- OneEach
  Credits = {0}
  GrandTotal = 1
  Captures = {1}
  Opening <- One
  Adjustments <- WriteOff
  AdjustBound = 1
  CodPressedFor = {"razorpay"}
  ShipFrom = {"paid"}
  Sessions = {c1}
  Requests = {h1}
  Redrivers = {r1}
  GatewayIds = {g1}
  MaxAttempts = 2
  DeliveryBound = 2
CHECK_DEADLOCK FALSE
INVARIANTS
  PayTypeOK
  ProcessedIsApplied

  
