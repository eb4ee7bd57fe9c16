SPECIFICATION RemovalSpec
CONSTANTS
    Nodes = {n1, n2}
    NoNode = NoNode
    Mishaps = {"job_failure", "spec_edit"}
    MaxFailures = 1
INVARIANTS
    DrainInv
PROPERTIES
    RemovalCompletes
