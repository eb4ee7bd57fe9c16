SPECIFICATION Spec
CONSTANTS
    Nodes = {n1}
    NoNode = NoNode
    Mishaps = {"forced_removal", "cache_lag", "spec_edit", "foreign_cordon"}
    MaxFailures = 1
INVARIANTS
    StayInv
\* Once the node has left nothing is left to do.
CHECK_DEADLOCK FALSE
