\* Pages of one post; a Wall of three voices; two uploads, two of whose steps
\* fail; one photograph in two widths, or narrower; two languages, two namespaces.
CONSTANTS
  Users = {u1, u2}
  Circles = {c1}
  Posts = {p1, p2}
  Stories = {p2}
  Writers = {w1}
  PageSize = 1
  Now = 1
  Voices = {v1, v2, v3}
  Window = 3
  Page = 2
  Kept = 1
  Grain = 4
  Parties = {y1, y2}
  Members = {y1, y2, y3}
  Answers = {b1, b2}
  MaxCuts = 1
  Files = {g1, g2}
  MaxFailures = 2
  Looks = {k1}
  Photos = {o1}
  Widths = {480, 768}
  Least = 480
  Seconds = 2
  Locales = {en, ar}
  Reference = en
  Namespaces = {n1, n2}
  Keys = {t1}
SPECIFICATION Spec
INVARIANTS
  WrittenByMembers
  ListIsWhole
  NoneFavouredAmongDrawn
  LastToConsentIsTold
  NothingUnstripped
  HiddenIsNotShown
  PassedIsCurrent
  AcceptedIsWorded
CHECK_DEADLOCK FALSE
