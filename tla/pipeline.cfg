SPECIFICATION FairSpec
CONSTANTS
  Events = {e1, f1}
  FileEvents = {f1}
  Nothing = Nothing
  InitialWorkers = 1
  MaxWorkers = 2
  Batch = 10
  Threshold = 1
  MaxFaults = 1
  MaxOutages = 1
CHECK_DEADLOCK FALSE
INVARIANTS
  TypeOK
  NeverTwice
  RecordMatchesEvent
PROPERTIES
  ImplementsHandover
  NothingIsStuck
