\* An approved recording.
CONSTANTS
  Files = {g1}
  MaxFailures = 0
INIT UploadsInit
NEXT UploadsNext
INVARIANTS
  ClearedMediaIsServed
CHECK_DEADLOCK FALSE
