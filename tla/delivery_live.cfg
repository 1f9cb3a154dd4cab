SPECIFICATION FairSpec
CONSTANTS
  Events = {e1}
  NoEvent = NoEvent
  Destinations = {d1}
  Workers = {w1}
  Clients = {c1}
  Routes <- AnyRoute
  MaxRetries = 2
  NumDelays = 2
  AttemptLimit = 2
  Repeats = 1
  MaxFaults = 1
  MaxAPIFaults = 0
  MaxOutages = 1
  MaxPushes = 3
  MaxRequests = 1
INVARIANTS
  NoPrematureBurial
  DuplicatesBounded
PROPERTIES
  EventsComeToRest
  OwedIsSettled
