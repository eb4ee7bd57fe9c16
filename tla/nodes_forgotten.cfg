SPECIFICATION FairSpec
CONSTANTS
    Notes = {}
    MaxEdits = 2
    MaxFailures = 0
    Scenarios = {{"inputs_change"}}
PROPERTY AlwaysNodesLookedAt
