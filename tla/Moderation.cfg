\* A story and a circle, two requests at a time, three in all, one of them cut short.
CONSTANTS
  Posts = {p1}
  Stories = {p1}
  Others = {c1}
  Requests = {r1, r2}
  Moderators = {m1, m2}
  Reports = {n1}
  Appeals = {a1}
  Actions = {"APPROVE", "HIDE", "DISMISS_REPORT"}
  MaxArrivals = 3
  MaxFaults = 1
SPECIFICATION Spec
SYMMETRY Alike
INVARIANTS
  LastDecisionStands
  RecordMatchesDeeds
CHECK_DEADLOCK FALSE
