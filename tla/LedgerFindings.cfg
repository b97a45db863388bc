\* Two uses of one link overlap; the member leaves with the voices; a takedown
\* names a report that does not exist; a withdrawn voice meets a moderator; two
\* countries are new at once. TLC ends at the first; take out what was seen to
\* see the next.
CONSTANTS
  Voices = {v1, v2}
  MemberVoices = {v1}
  Countries = {c1, c2}
  Requests = {r1, r2, r3}
  Seeded = TRUE
  MaxCrashes = 0
SPECIFICATION Spec
INVARIANTS
  CountNotBelowWall
  CountNotAboveWall
  EveryTakedownIsLogged
PROPERTIES
  WithdrawalIsFinal
  BreadthOnlyGrows
