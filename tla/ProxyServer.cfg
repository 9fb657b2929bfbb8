SPECIFICATION Spec
CONSTANTS
  c1 = c1
  c2 = c2
  c3 = c3
  c4 = c4
  r1 = r1
  r2 = r2
  r3 = r3
  r4 = r4
  example = example
  other = other
  Authorities = {1, 2}
  Absent = Absent
  Torn = Torn
  Askers = {c1, c2, c3, c4}
  Hosts = {example, other}
  HostOf <- MCHostOf
  MaxPairs = 3
  Requests = {r1, r2, r3, r4}
  ConnOf <- MCConnOf
  Kind <- MCKind
  Addrs <- MCAddrs
  Foreign = {3}
  Budgets <- MCBudgets
INVARIANT
  LoadedPairMatches
  OneCertificatePerHost
  OnlySrvListens
  HistoryIsUpstream

  
CHECK_DEADLOCK FALSE
