\* Two tokens, one upgrade, nothing unsure.
SPECIFICATION Spec
CONSTANTS
  Tokens = {t1, t2}
  Addrs = {a1}
  UnlockTimes <- MCUnlocks
  Emits = TRUE
  Period = 1
  MaxTime = 1
  MaxUpgrades = 1
  Unsure = {}
INVARIANT InitialAllocationOnce
CHECK_DEADLOCK FALSE
