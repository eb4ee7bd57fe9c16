SPECIFICATION DeletionSpec
CONSTANTS
    Nodes = {n1}
    NoNode = NoNode
    Mishaps = {"cache_lag"}
    MaxFailures = 0
INVARIANTS
    PreDrainedForDeletion
\* Once the CR and its hosts are gone nothing is left to do.
CHECK_DEADLOCK FALSE
