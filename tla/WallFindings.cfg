\* Two voices that should not be shown twice, and one that no reader sees first:
\* run with -continue to see the three.
CONSTANTS
  Voices = {v1, v2, v3}
  Window = 3
  Page = 2
  Kept = 1
  Grain = 4
INIT WallPagesInit
NEXT WallPagesNext
INVARIANTS
  PagesAreDisjoint
  ShownOnce
  EveryVoiceMayStandFirst
CHECK_DEADLOCK FALSE
