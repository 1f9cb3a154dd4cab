SPECIFICATION Spec
CONSTANTS
  d1 = d1
  d2 = d2
  d3 = d3
  Workers = {w1}
  Rules = {r1, r2}
  Destinations = {d1, d2, d3}
  Own = {d1, d2}
  Conditions <- MCConditions
  Drafts <- MCDrafts
  Garbled = Garbled
  Payloads <- MCPayloads
  Absent = Absent
  NotJSON = NotJSON
  NoNumber = NoNumber
  TextContains = {}
  MaxEdits = 2
INVARIANTS
  TypeOK
  RuleEditsAreAtomic
  SelectedAtSomeMoment
SYMMETRY SameRules
CHECK_DEADLOCK FALSE
