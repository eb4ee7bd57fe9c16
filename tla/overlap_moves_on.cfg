SPECIFICATION SettledSpec
CONSTANTS
    Nodes = {n1, n2}
    NoNode = NoNode
    Mishaps = {"overlapping_removal"}
    MaxFailures = 0
INVARIANTS
    DeletedServiceIsEmpty
CHECK_DEADLOCK FALSE
