\* A member signs in with a password before the address is proved.
CONSTANTS
  Members = {m1}
  Requests = {r1, r2}
  Links = {k1}
  Sessions = {s1}
  Files = {f1}
  Workers = {w1, w2}
  MaxArrivals = 6
  MaxFaults = 2
SPECIFICATION Spec
INVARIANTS
  AddressIsProved
CHECK_DEADLOCK FALSE
