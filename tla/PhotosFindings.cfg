\* A stale photograph after a checkout, after a build that was cut short, and in
\* the place of a narrow one; a build that does not settle what the check complains
\* of: run with -continue to see the four.
CONSTANTS
  Photos = {o1}
  Widths = {480, 768}
  Least = 480
  Seconds = 2
INIT PhotosInit
NEXT PhotosNext
INVARIANTS
  SoAfterACheckout
  SoAfterACutBuild
  SoOfNarrowOnes
PROPERTIES
  BuildingSettles
CHECK_DEADLOCK FALSE
