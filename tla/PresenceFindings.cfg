\* A profile read twice, and replies that name their author: run with -continue to see both.
CONSTANTS
  Looks = {k1}
INIT PresenceInit
NEXT PresenceNext
INVARIANTS
  ShownAsOfOneMoment
  WordsWithoutName
CHECK_DEADLOCK FALSE
