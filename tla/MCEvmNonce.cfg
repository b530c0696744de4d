\* Two payments overlap on two chain types, two attempts at one of them.
SPECIFICATION FairSpec
CONSTANTS
  Calls = {c1, c2}
  Chains = {eth, sepolia}
  Served = eth
  MaxNonce = 1
  MaxTries <- MCTries
  Unsure = TRUE
INVARIANTS TypeOK NoGapOfOwnCount PaidAsAnswered
PROPERTY OwnPaymentsMined
CHECK_DEADLOCK FALSE
