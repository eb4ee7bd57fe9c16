SPECIFICATION FairSpec
CONSTANTS
  Roles = {r1, r2}
  Infra = {multus, exporter}
  MaxEdits = 2
  MaxFailures = 1
  Scenarios = {{"role_edit"}, {"originals_change"}, {"cache_lag"}, {"foreign_removal", "many_namespaces"}}
INVARIANTS NothingOwnedLeft DaemonSetsFollowSpec
PROPERTIES CRGoes AppliedInTheEnd
\* Once the CR is gone nothing is left to do.
CHECK_DEADLOCK FALSE
