SPECIFICATION Spec
CONSTANTS
  l1 = l1
  l2 = l2
  p1 = p1
  p2 = p2
  disc = disc
  seal = seal
  vinyl = vinyl
  wrap = wrap
  Slot = {disc, seal}
  Component = {vinyl, wrap}
  ComponentOf <- McComponentOf
  Seal = seal
  MaxQuantity = 2
  Listing = {l1, l2}
  Pressing = {p1, p2}
  Session = {s1, s2}
  None = None
  Requests <- McExcludes
  Assignments <- McAssignments
  References <- McReferences
  Observations <- McObservations
  MaxBegun = 1
CHECK_DEADLOCK FALSE
INVARIANT AcceptedReferenceIsSaved
