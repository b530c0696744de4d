\* Two proposals, two handlers under way at a time.
SPECIFICATION Spec
CONSTANTS
  Proposals = {p1, p2}
  Popular = {p1}
  MaxCalls = 2
INVARIANT ShownIsOfSelected
CHECK_DEADLOCK FALSE
