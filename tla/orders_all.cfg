SPECIFICATION FairSpec
CONSTANTS
  o1 = o1
  o2 = o2
  o3 = o3
  s1 = s1
  s2 = s2
  va = va
  vb = vb
  Orders = {o1, o2}
  Variants = {va, vb}
  Sweepers = {s1, s2}
  Methods = {"razorpay", "cod"}
  Baskets <- Partial
  Credits = {0, 2}
  GrandTotal = 2
  Captures = {2}
  Opening <- One
  Adjustments <- Adjust
  AdjustBound = 0
  CodPressedFor = {"razorpay", "cod"}
  ShipFrom = {"paid", "shipped", "cancelled"}
CHECK_DEADLOCK FALSE
INVARIANTS
  LedgerMatchesStatus
PROPERTIES
  SettledLedgerIsFrozen
  ClaimsKept
  HoldsDoNotStrand
