SPECIFICATION FairSpec
CONSTANTS
  Hosts = {h1, h2}
  MaxWorkers = 2
  MaxEdits = 3
  MaxFailures = 1
  Missing = Missing
  Scenarios = {{"machineset_edit", "early_name"}, {"machineset_edit", "cache_lag"}, {"hasty_edit", "machineset_edit"}}
INVARIANTS RecordedIsApplied SelectionFollowsSpec
PROPERTIES TakenOverFromEdit SelectedBeforeScaleDown WorkersAgree
