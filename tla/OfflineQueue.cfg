CONSTANTS
  Tabs = {t1, t2}
  Voices = {v1, v2}
  Malformed = {v2}
  MaxFaults = 2
SPECIFICATION Spec
INVARIANTS
  NeitherLostNorDoubled
PROPERTIES
  QueueDrains
CHECK_DEADLOCK FALSE
