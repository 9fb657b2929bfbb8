SPECIFICATION FairSpec
CONSTANTS
  Requests = {r1, r2}
  None = None
  QueueCap = 1
  MaxGen = 2
PROPERTIES
  EveryHoldReturns
