SPECIFICATION FairSpec
CONSTANTS
  Payloads = 3
  Markers = 2
  MaxRedirects = 2
  MaxAttacks = 2
INVARIANTS
  ResultsInOrder
  StopHalts
PROPERTIES
  AttackEnds
CHECK_DEADLOCK FALSE
