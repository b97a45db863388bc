CONSTANTS
  Listeners = {l1, l2}
  Sockets = {s1, s2, s3}
  Patience = 3
  MaxFaults = 2
  MaxLeaves = 2
SPECIFICATION Spec
PROPERTIES
  HealthyStays
  ListenerIsHeard
  DeadClientIsReaped
