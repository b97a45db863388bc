\* A directory that says nobody matches while it asks, a refusal not shown, a
\* magic link answered after its page was left. TLC ends at the first; take out
\* what was seen to see the next.
CONSTANTS
  Filters = {f1, f2}
  Everyone = f1
  Wall = {v1, v2}
  Slots = {x1, x2}
INIT PagesInit
NEXT PagesNext
INVARIANTS
  EmptyIsTrue
  RefusalIsShown
PROPERTIES
  LinkLeadsOnlyItsPage
CHECK_DEADLOCK FALSE
