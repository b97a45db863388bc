\* Two calls interleave at every await; stamps of two clocks in any order, and of
\* one millisecond; one outage.
CONSTANTS
  Instances = {i1, i2}
  Pages = {p1}
  Calls = {a1, a2}
  TTL = 2
  MaxAdjusts = 2
  LastReading = 2
  MaxOutages = 1
SPECIFICATION Spec
ACTION_CONSTRAINT EitherVaries
SYMMETRY Symmetry
INVARIANTS
  ServedWithinTwoLifetimes
PROPERTIES
  FigureMovesForward
