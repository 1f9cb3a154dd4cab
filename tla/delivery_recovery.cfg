SPECIFICATION Spec
CONSTANTS
  Events = {e1}
  NoEvent = NoEvent
  Destinations = {d1, d2}
  Workers = {w1}
  Clients = {c1}
  Routes <- AllRoute
  MaxRetries = 2
  NumDelays = 1
  AttemptLimit = 2
  Repeats = 1
  MaxFaults = 0
  MaxAPIFaults = 0
  MaxOutages = 2
  MaxPushes = 3
  MaxRequests = 1
SYMMETRY Symmetry
INVARIANTS
  NothingVanishes
  RowBackedByList
PROPERTIES
  RecoveryLeavesSettledAlone
