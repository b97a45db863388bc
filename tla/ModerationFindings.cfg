\* One decision, about what the handler does not change, and posts that no list
\* shows afterwards: run with -continue to see both.
CONSTANTS
  Posts = {p1}
  Stories = {p1}
  Others = {c1}
  Requests = {r1, r2}
  Moderators = {m1, m2}
  Reports = {n1}
  Appeals = {a1}
  Actions = {"APPROVE", "HIDE", "DISMISS_REPORT"}
  MaxArrivals = 1
  MaxFaults = 0
SPECIFICATION Spec
SYMMETRY Alike
INVARIANTS
  DecisionsTakeEffect
  ActionableIsFindable
CHECK_DEADLOCK FALSE
