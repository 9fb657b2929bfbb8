SPECIFICATION FairSpec
CONSTANTS
  l1 = l1
  l2 = l2
  n1 = n1
  Writers = {l1, l2, n1}
  Kind <- MixedKind
  Single = {l1, l2}
  None = None
  QueueCap = 1
  UpdateCap = 2
  NoticeCap = 1
CHECK_DEADLOCK FALSE
PROPERTIES
  SerialStoreSpec
  UpdatesInCommitOrder
  WriteReturns
