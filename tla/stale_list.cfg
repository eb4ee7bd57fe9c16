SPECIFICATION Spec
CONSTANTS
  Roles = {r1}
  Infra = {multus}
  MaxEdits = 0
  MaxFailures = 1
  Scenarios = {{"cache_lag"}}
INVARIANTS AlwaysNothingOwnedLeft
\* Once the CR is gone nothing is left to do.
CHECK_DEADLOCK FALSE
