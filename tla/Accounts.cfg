\* One address, two requests at a time, five in all, two
\* instances that purge; two of all these fail.
CONSTANTS
  Members = {m1}
  Requests = {r1, r2}
  Links = {k1}
  Sessions = {s1}
  Files = {f1}
  Workers = {w1, w2}
  MaxArrivals = 5
  MaxFaults = 2
SPECIFICATION Spec
INVARIANTS
  LinkWorksOnce
  FilesAreAccountedFor
PROPERTIES
  BarStands
  DueIsPurged
CHECK_DEADLOCK FALSE
