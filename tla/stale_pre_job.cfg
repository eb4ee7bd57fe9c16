SPECIFICATION Spec
CONSTANTS
    Nodes = {n1}
    NoNode = NoNode
    Mishaps = {"forced_removal", "name_reuse"}
    MaxFailures = 0
INVARIANTS
    PreDrainedMeansNoInstances
