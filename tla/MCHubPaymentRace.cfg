\* Two calls pending at once, nothing lost.
CONSTANTS
  u1 = u1
  u2 = u2
  c1 = c1
  c2 = c2
  Users <- MCUsers
  Calls <- MCTwoCalls
  MaxOrders = 1
  Price = 4
  BaseFee = 2
  Fee = 1
  Window = 0
  MaxTime = 1
  Amounts = {2, 4}
  MaxFunds = 6
  Faulty = FALSE

SPECIFICATION Spec

INVARIANT PaidIsNotRefunded
CHECK_DEADLOCK FALSE
