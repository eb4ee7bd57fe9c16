SPECIFICATION Spec
CONSTANTS
    Nodes = {n1}
    NoNode = NoNode
    Mishaps = {"forced_removal"}
    MaxFailures = 0
INVARIANTS
    MissingMachineIsDeleted
