SPECIFICATION Spec
CONSTANTS
  s1 = s1
  s2 = s2
  b1 = b1
  b2 = b2
  r1 = r1
  r2 = r2
  k1 = k1
  k2 = k2
  None = None
  Sessions = {s1, s2}
  Shipments = {b1, b2}
  Returns = {r1, r2}
  Keys = {k1, k2}
  Quantity = 2
  Parcels = {1, 2}
  Asks = {2}
  Amounts = {1, 2}
  Tracks = {"delivered"}
  Decisions = {"rejected"}
  AskTogether = FALSE
  MishapBound = 1
SYMMETRY Symmetry
CHECK_DEADLOCK FALSE
INVARIANTS
  TypeOK
  ShippedWithinOrder
  
  
  StaffNeverDeadlock
PROPERTIES
  ReturnFinal
  FullyRefunded
