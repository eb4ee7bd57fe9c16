SPECIFICATION Spec
CONSTANTS
  Hosts = {h1, h2}
  MaxWorkers = 2
  MaxEdits = 2
  MaxFailures = 0
  Missing = Missing
  Scenarios = {{"early_name"}}
INVARIANT AlwaysSelectionFollowsSpec
