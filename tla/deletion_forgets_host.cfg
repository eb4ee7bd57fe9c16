SPECIFICATION DeletionSpec
CONSTANTS
    Nodes = {n1}
    NoNode = NoNode
    Mishaps = {"cache_lag"}
    MaxFailures = 0
INVARIANTS
    NothingLeftBehind
CHECK_DEADLOCK FALSE
