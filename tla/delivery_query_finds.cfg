SPECIFICATION Spec
CONSTANTS
  Events = {e1}
  NoEvent = NoEvent
  Destinations = {d1, d2}
  Workers = {w1}
  Clients = {c1}
  Routes <- AllRoute
  MaxRetries = 4
  NumDelays = 4
  AttemptLimit = 4
  Repeats = 1
  MaxFaults = 0
  MaxAPIFaults = 0
  MaxOutages = 1
  MaxPushes = 3
  MaxRequests = 0
INVARIANTS
  QueryFindsUnfinished
