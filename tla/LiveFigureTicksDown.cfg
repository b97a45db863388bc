\* The figure on the page against the counts it is told.
CONSTANTS
  Instances = {i1, i2}
  Pages = {p1}
  Calls = {a1, a2}
  TTL = 2
  MaxAdjusts = 2
  LastReading = 2
  MaxOutages = 1
SPECIFICATION Spec
PROPERTIES
  FigureNeverTicksDown
