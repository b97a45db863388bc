\* Every handler that has begun runs to its end; the first adjustment creates the row.
CONSTANTS
  Voices = {v1, v2}
  MemberVoices = {}
  Countries = {c1}
  Requests = {r1, r2, r3}
  Seeded = FALSE
  MaxCrashes = 0
SPECIFICATION FairSpec
PROPERTIES
  EveryVoiceIsCounted
