SPECIFICATION Spec
CONSTANTS
  Roles = {r1, r2}
  Infra = {multus, exporter}
  MaxEdits = 1
  MaxFailures = 0
  Scenarios = {{"role_edit"}}
PROPERTIES LastStepFinishes
\* Once the CR is gone nothing is left to do.
CHECK_DEADLOCK FALSE
