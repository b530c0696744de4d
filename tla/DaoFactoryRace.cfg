SPECIFICATION Spec
CONSTANTS
  Callers = {u1}
  Envs = {production}
  Production = production
  Jobs = {j1, j2}
  MaxCanisters = 2
PROPERTY DaosAreNotReplaced
CHECK_DEADLOCK FALSE
