SPECIFICATION Spec
CONSTANTS
    Nodes = {n1, n2}
    NoNode = NoNode
    Mishaps = {"foreign_cordon"}
    MaxFailures = 0
SYMMETRY NodeSymmetry
INVARIANTS
    TaintedNodeIsEmpty
    DeletedServiceIsEmpty
    JobsOnlyForGuardedRemoval
    KnownNodeIsGuarded
    StayingHostKeepsService
PROPERTIES
    ReleasedOnlyWhenDrained
    ImplementsNodeRemoval
