\* The close of an earlier socket opens another one.
CONSTANTS
  Listeners = {l1, l2}
  Sockets = {s1, s2, s3}
  Patience = 3
  MaxFaults = 2
  MaxLeaves = 2
SPECIFICATION Spec
INVARIANTS
  OneSocket
