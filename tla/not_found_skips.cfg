SPECIFICATION Spec
CONSTANTS
  Roles = {r1}
  Infra = {multus, exporter}
  MaxEdits = 1
  MaxFailures = 0
  Scenarios = {{"foreign_removal"}}
INVARIANTS AlwaysNothingOwnedLeft
\* Once the CR is gone nothing is left to do.
CHECK_DEADLOCK FALSE
