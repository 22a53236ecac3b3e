SPECIFICATION Spec
CONSTANTS
  o1 = o1
  o2 = o2
  o3 = o3
  s1 = s1
  s2 = s2
  va = va
  vb = vb
  Orders = {o1, o2}
  Variants = {va}
  Sweepers = {s1}
  Methods = {"razorpay"}
  Baskets <- UpTo2
  Credits = {0, 1, 2}
  GrandTotal = 2
  Captures = {1, 2}
  Opening <- Two
  Adjustments <- Adjust
  AdjustBound = 1
  CodPressedFor = {}
  ShipFrom = {"paid", "shipped"}
CHECK_DEADLOCK FALSE
INVARIANT ChargedOnce
