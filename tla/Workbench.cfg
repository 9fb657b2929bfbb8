SPECIFICATION Spec
CONSTANTS
  BodyRows = 1
  TableWidth = 7
  ColumnWidths <- MCWidths
  ColumnMin <- MCMin
  Plugins = {p1, p2}
  LootCap = 1
  Severities = {1, 2}
  Transactions = {1}
  Stored <- MCStored
  MaxLoot = 4
  Requests = {r1, r2}
  NoText = NoText
  MaxHistory = 2
  MaxTabs = 4
  MaxConns = 2
  Sessions <- MCSessions
INVARIANTS
  ColumnsFit
  TabsReopen
  PairsBelong
  LiveIsHeld
PROPERTIES
  TableCatchesUp
  SendEnds
CHECK_DEADLOCK FALSE
