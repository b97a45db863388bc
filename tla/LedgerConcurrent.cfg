\* Three requests interleave at every await, on two voices from two countries;
\* one of them is cut short.
CONSTANTS
  Voices = {v1, v2}
  MemberVoices = {v1}
  Countries = {c1, c2}
  Requests = {r1, r2, r3}
  Seeded = TRUE
  MaxCrashes = 1
SPECIFICATION Spec
SYMMETRY Symmetry
INVARIANTS
  CountsWhatIsPublished
  TotalMatchesWall
  BreadthIsHeard
  TakedownIsRecorded
