SPECIFICATION FairSpec
CONSTANTS
  e1 = e1
  e2 = e2
  Events = {e1}
  MaxAttempts = 3
INVARIANTS
  TypeOK
  KeysStayTheirOwn
  OnlyTransientIsRetried
  ReportIsTrue
PROPERTIES
  ExtractionEnds
CHECK_DEADLOCK FALSE
