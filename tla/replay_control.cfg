SPECIFICATION FairSpec
CONSTANTS
  Sessions = {s1}
  MaxEvents = 3
  MaxCommands = 4
  MaxFaults = 2
  MaxRestarts = 1
INVARIANTS
  TypeOK
  StopTakesHold
  CompletedMeansAll
PROPERTIES
  GoroutineEnds
CHECK_DEADLOCK FALSE
