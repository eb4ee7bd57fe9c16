SPECIFICATION FairSpec
CONSTANTS
    Nodes = {n1}
    NoNode = NoNode
    Mishaps = {"cache_lag"}
    MaxFailures = 0
PROPERTIES
    RemovalCompletes
CHECK_DEADLOCK FALSE
