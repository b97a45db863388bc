\* Two tabs drain one queue; a store refuses a voice.
CONSTANTS
  Tabs = {t1, t2}
  Voices = {v1, v2}
  Malformed = {v2}
  MaxFaults = 2
SPECIFICATION Spec
CHECK_DEADLOCK FALSE
INVARIANTS
  NoneVanishes
  TabsDoNotRepeat
