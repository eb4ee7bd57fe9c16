SPECIFICATION DeletedSpec
CONSTANTS
    Nodes = {n1, n2}
    NoNode = NoNode
    Mishaps = {}
    MaxFailures = 2
INVARIANTS
    DeletionInv
PROPERTIES
    NoReleaseBeforeAllDrained
    ImplementsFleetRemoval
    DeletionCompletes
\* Once the CR and its hosts are gone nothing is left to do.
CHECK_DEADLOCK FALSE
