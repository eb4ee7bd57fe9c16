SPECIFICATION Spec
CONSTANTS
  Hosts = {h1, h2}
  MaxWorkers = 2
  MaxEdits = 3
  MaxFailures = 0
  Missing = Missing
  Scenarios = {{"cache_lag"}}
PROPERTIES AlwaysTakenOverFromEdit
