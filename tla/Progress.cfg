\* Two instances and two requests at a time; a tab with two requests under way.
CONSTANTS
  Instances = {i1, i2}
  Calls = {q1, q2}
  Limit = 1
  MaxFaults = 1
  Servers = {s1, s2}
  Asks = {a1, a2}
  Filters = {f1, f2}
  Everyone = f1
  Wall = {v1, v2}
  Slots = {x1, x2}
SPECIFICATION Spec
INVARIANTS
  AdmittedWithinLimit
  AnswersFitThePage
PROPERTIES
  LockoutEnds
  FlagsCatchUp
  NobodyWaitsForever
CHECK_DEADLOCK FALSE
