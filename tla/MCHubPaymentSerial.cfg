\* One call at a time, nothing lost.
CONSTANTS
  u1 = u1
  u2 = u2
  c1 = c1
  c2 = c2
  Users <- MCUsers
  Calls <- MCOneCall
  MaxOrders = 2
  Price = 4
  BaseFee = 2
  Fee = 1
  Window = 0
  MaxTime = 1
  Amounts = {2, 4}
  MaxFunds = 6
  Faulty = FALSE
SPECIFICATION FairSpec
INVARIANT SettledFairly
PROPERTIES IdentityKept CallsSettle ImplementsStrictContract
CHECK_DEADLOCK FALSE
