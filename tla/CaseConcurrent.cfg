\* Two requests interleave at every await; three members hold the link.
CONSTANTS
  Users = {u1, u2, u3}
  Requests = {r1, r2}
  StageCount = 4
  MaxCrashes = 0
SPECIFICATION Spec
SYMMETRY Symmetry
INVARIANTS
  ReleasedTogether
  SpeakBeforeHearing
  NoStageSkipped
  ActiveHasTwoParties
  AuditIsTrue
  ClosedMeansHeard
PROPERTIES
  ExchangeIsSealed
