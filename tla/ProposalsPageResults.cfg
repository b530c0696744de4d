\* One proposal, two handlers under way at a time.
SPECIFICATION Spec
CONSTANTS
  Texts = {t1}
  MaxProposals = 1
  Calls = {k1, k2}
INVARIANT ResultsAreShown
CHECK_DEADLOCK FALSE
