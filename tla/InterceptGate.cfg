SPECIFICATION Spec
CONSTANTS
  Requests = {r1, r2, r3}
  None = None
  QueueCap = 2
  MaxGen = 3
SYMMETRY RequestSymmetry
INVARIANTS
  ReplyNeverBlocks
  DecisionApplied
  OnMeansIntercepting
PROPERTIES
  DisplayedNotLost
  ShownInArrivalOrder
