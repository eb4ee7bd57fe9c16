SPECIFICATION SettledSpec
CONSTANTS
    Nodes = {n1, n2}
    NoNode = NoNode
    Mishaps = {"overlapping_removal"}
    MaxFailures = 0
INVARIANTS
    PreDrainedForDeletion
\* Once the CR and its hosts are gone nothing is left to do.
CHECK_DEADLOCK FALSE
