\* One token, two holders, two unlock items out of order, one upgrade.
SPECIFICATION FairSpec
CONSTANTS
  Tokens = {t1}
  Addrs = {a1, a2}
  UnlockTimes <- MCUnlocks
  Emits = TRUE
  Period = 1
  MaxTime = 1
  MaxUpgrades = 1
  Unsure = {"Scheduled"}
INVARIANTS TypeOK PaidByTheModel HistoryIsTrue
PROPERTIES ImplementsContract ScheduleServed
CHECK_DEADLOCK FALSE
