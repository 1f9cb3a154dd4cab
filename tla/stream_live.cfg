SPECIFICATION FairSpec
CONSTANTS
  e1 = e1
  e2 = e2
  e3 = e3
  s1 = s1
  s2 = s2
  t1 = t1
  t2 = t2
  AnySource = AnySource
  Events = {e1}
  SourceOf <- Sources
  Filter <- Filters
  Tabs = {t1, t2}
  Sleepers = {t1, t2}
  Capacity = 1
  ListSize = 1
  Sendings = 1
  Reports = {"failed", "buried"}
  MaxConnects = 1
  MaxLost = 1
  MaxRestarts = 0
  MaxMessages = 2
PROPERTIES
  EveryMessageSettles
  LeftIsUnregistered
CHECK_DEADLOCK FALSE
