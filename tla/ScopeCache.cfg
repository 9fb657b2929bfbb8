SPECIFICATION ScopeSpec
CONSTANTS
  Nil = Nil
  site = site
  addSite = addSite
  addAgain = addAgain
  delSite = delSite
  k1 = k1
  k2 = k2
  k3 = k3
  Hosts = {site}
  HostOf <- SomeHostOf
  RowOf <- SomeRowOf
  Lookups = {k1, k2, k3}
  Changes = {addSite, addAgain, delSite}
  Adds = {addSite, addAgain}
CHECK_DEADLOCK FALSE
INVARIANTS
  AnswerIsCurrent
  AnswersNeverGoBack
