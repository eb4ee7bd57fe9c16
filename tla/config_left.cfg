SPECIFICATION Spec
CONSTANTS
    Notes = {}
    MaxEdits = 1
    MaxFailures = 0
    Scenarios = {{}}
INVARIANT NothingElseLeft
