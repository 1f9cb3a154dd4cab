SPECIFICATION Spec
CONSTANTS
  e1 = e1
  e2 = e2
  e3 = e3
  s1 = s1
  s2 = s2
  t1 = t1
  t2 = t2
  AnySource = AnySource
  Events = {e1, e2, e3}
  SourceOf <- Sources
  Filter <- Filters
  Tabs = {t1}
  Sleepers = {}
  Capacity = 1
  ListSize = 2
  Sendings = 2
  Reports = {"delivered", "failed"}
  MaxConnects = 2
  MaxLost = 0
  MaxRestarts = 1
  MaxMessages = 3
INVARIANTS
  TypeOK
  NeverSendsOnClosed
  SeenInOrder
  EveryMessageAccounted
  ListMatchesSeen
CHECK_DEADLOCK FALSE
SYMMETRY SameSource
