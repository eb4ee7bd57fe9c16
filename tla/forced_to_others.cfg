SPECIFICATION Spec
CONSTANTS
    Nodes = {n1, n2}
    NoNode = NoNode
    Mishaps = {"forced_removal"}
    MaxFailures = 0
SYMMETRY NodeSymmetry
INVARIANTS
    TaintedNodeIsEmpty
CHECK_DEADLOCK FALSE
