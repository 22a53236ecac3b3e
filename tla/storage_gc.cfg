SPECIFICATION FairSpec
CONSTANTS
  i1 = i1
  c1 = c1
  u1 = u1
  u2 = u2
  p1 = p1
  p2 = p2
  NoUrl = NoUrl
  NoPath = NoPath
  Images = {i1}
  Collections = {c1}
  Urls = {u1, u2}
  Paths = {p1, p2}
  PathOf <- MCPathOf
  Opening <- MCOpening
  Workers = {w1}
  Pasted = {u1}
  PasteAnytime = FALSE
  RouteShared = FALSE
  GiveUp = 1
  MaxDelete = 2
  MishapBound = 1
INVARIANTS
  TypeOK
  
PROPERTIES
  QueueForgetsNothing
  OrphansLeave
