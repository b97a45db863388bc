\* A member who is named in the audit log asks to be deleted.
CONSTANTS
  Members = {m1}
  Requests = {r1, r2}
  Links = {k1}
  Sessions = {s1}
  Files = {f1}
  Workers = {w1, w2}
  MaxArrivals = 5
  MaxFaults = 2
SPECIFICATION Spec
PROPERTIES
  RequestedIsDeleted
CHECK_DEADLOCK FALSE
