SPECIFICATION FairSpec
CONSTANTS
  NoMessage = NoMessage
  Messages <- MCMessages
  Drainers = {d1, d2}
  Unsendable = {2}
  Batch = 2
  GiveUp = 2
  CallTicks = 1
  StallTicks = 2
  MishapBound = 1
INVARIANTS
  TypeOK
  OneSender
  DuplicatesNeedMishaps
PROPERTIES
  SentIsFinal
  EverySettled
