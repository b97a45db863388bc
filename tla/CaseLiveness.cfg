\* The server ends what it begins once the case is active; both parties and the
\* facilitator do their part.
CONSTANTS
  Users = {u1, u2}
  Requests = {r1}
  StageCount = 4
  MaxCrashes = 1
SPECIFICATION DiligentSpec
ACTION_CONSTRAINT CutShortEarly
PROPERTIES
  ActiveCaseProceeds
  ClosedIsFollowedUp
