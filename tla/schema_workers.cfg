SPECIFICATION Spec
CONSTANTS
  Workers = {w1, w2}
  Fields = {f1}
  Types = {"string", "number", "null"}
  MinSamples = 3
  MaxWebhooks = 5
  MaxFaults = 1
SYMMETRY Symmetry
INVARIANTS
  TypeOK
  InferenceIsExact
  LockRestsOnSamples
CHECK_DEADLOCK FALSE
