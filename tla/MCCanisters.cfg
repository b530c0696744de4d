\* Each of four parts by itself, at the bounds that its module's properties need.
SPECIFICATION MCSpec
CONSTANTS
  Pids = {p1, p2}
  FirstOwner = p1
  Envs = {prod, test}
  FirstEnv = test
  Codes = {k1, k2, k3}
  CodeLimit = 2
  BatchLimit = 2
  Daos = {d1, d2}
  Roles = {owner, member}
  MaxOrders = 2
  MaxUpgrades = 2
  Sns = {s1}
  Jobs = {j1, j2}
  Limit = 1
  MaxProposals = 2
  Callers = {u1, u2}
  Production = prod
  MaxCanisters = 2
  Principals = {ctl, adm}
  Controllers = {ctl}
  Types = {treasury, technical}
  IdModulus = 8
  MaxCalls = 3
  Skips = TRUE
SYMMETRY MCSymmetry
INVARIANTS CanistersTypeOK OrderIdsFresh OnlyUpgradesUnsaved
PROPERTIES CountsAreTrue FactoryLosesNothing GovernanceIdsAreNew
CHECK_DEADLOCK FALSE
