SPECIFICATION DeletedSpec
CONSTANTS
    Nodes = {n1, n2}
    NoNode = NoNode
    Mishaps = {}
    MaxFailures = 0
INVARIANTS
    AllGoingHostsDisabled
\* Once the CR and its hosts are gone nothing is left to do.
CHECK_DEADLOCK FALSE
