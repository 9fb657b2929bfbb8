SPECIFICATION Spec
CONSTANTS
  all = all
  noStatic = noStatic
  search = search
  hostSearch = hostSearch
  NoFilter = all
  ClassOf <- TwoRows
  Filters <- SomeFilters
  InPage <- SomeInPage
  Matching <- SomeMatching
  ClientFilters = {noStatic}
  OfHost <- SomeOfHost
  Unselected <- SomeUnselected
  PageSize = 1
  UpdateCap = 3
  MaxQuery = 3
  MaxPending = 2
INVARIANTS
  RowsAreReachable
