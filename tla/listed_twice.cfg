SPECIFICATION Spec
CONSTANTS
  Roles = {r1}
  Infra = {multus, exporter}
  MaxEdits = 0
  MaxFailures = 0
  Scenarios = {{"many_namespaces"}}
INVARIANTS AlwaysNothingOwnedLeft
\* Once the CR is gone nothing is left to do.
CHECK_DEADLOCK FALSE
