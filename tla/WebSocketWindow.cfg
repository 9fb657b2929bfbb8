SPECIFICATION FairSpec
CONSTANTS
  c1 = c1
  c2 = c2
  Conns = {c1, c2}
  Budgets <- SomeBudgets
  NoticeCap = 1
  Earlier = Earlier
  OldRows = 1
  Queries = {q1, q2}
  NoQuery = NoQuery
CHECK_DEADLOCK FALSE
INVARIANTS
  FramesKept
  ListInOrder
PROPERTIES
  SessionEnds
