SPECIFICATION FairSpec
CONSTANTS
  c1 = c1
  k1 = k1
  k2 = k2
  k3 = k3
  g1 = g1
  s1 = s1
  s2 = s2
  None = None
  Guest = Guest
  Keys = {k1, k2, k3}
  Customers = {c1}
  CustomerOf <- MCCustomerOf
  Bodies <- MCBodies
  Cards = {g1}
  Face = 1
  Deltas = {1}
  Price = 2
  Off = 1
  MaxUses = 1
  MaxPerCustomer = 1
  Sessions = {s1, s2}
  MaxCredit = 1
CHECK_DEADLOCK FALSE
INVARIANTS
  TypeOK
  OneOrderPerKey
  AnswersMatch
PROPERTIES
  OneAtATime
  
