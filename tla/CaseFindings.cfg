\* Requests one at a time: a case that is active, or closed, after a withdrawal, and
\* one that goes on after it was stopped; and a window that passed and is not opened
\* again, though everybody does their part. TLC ends at the first; take out what was
\* seen to see the next.
CONSTANTS
  Users = {u1, u2}
  Requests = {r1}
  StageCount = 4
  MaxCrashes = 0
SPECIFICATION DiligentSpec
INVARIANTS
  ActiveWhileNobodyWithdrew
  ClosedWhileNobodyWithdrew
PROPERTIES
  StoppedStaysStopped
  WindowIsReopened
