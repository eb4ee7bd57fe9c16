SPECIFICATION Spec
CONSTANTS
  Hosts = {h1, h2}
  MaxWorkers = 2
  MaxEdits = 4
  MaxFailures = 0
  Missing = Missing
  Scenarios = {{"hasty_edit"}}
PROPERTIES AlwaysSelectedBeforeScaleDown
