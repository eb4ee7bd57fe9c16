SPECIFICATION Spec
CONSTANTS
  Roles = {r1}
  Infra = {multus, exporter}
  MaxEdits = 2
  MaxFailures = 0
  Scenarios = {{"hasty_edit"}}
INVARIANTS AlwaysNothingOwnedLeft
\* Once the CR is gone nothing is left to do.
CHECK_DEADLOCK FALSE
