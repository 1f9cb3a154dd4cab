SPECIFICATION Spec
CONSTANTS
  Events = {e1}
  NoEvent = NoEvent
  Destinations = {d1}
  Workers = {w1, w2}
  Clients = {c1, c2}
  Routes <- AllRoute
  MaxRetries = 2
  NumDelays = 2
  AttemptLimit = 2
  Repeats = 1
  MaxFaults = 0
  MaxAPIFaults = 2
  MaxOutages = 0
  MaxPushes = 3
  MaxRequests = 2
SYMMETRY Interchangeable
INVARIANTS
  TypeOK
  NothingVanishes
  RetryKeepsEvent
