SPECIFICATION Spec
CONSTANTS
    Nodes = {n1}
    NoNode = NoNode
    Mishaps = {}
    MaxFailures = 1
PROPERTIES
    NoneMeansNoBlockerPod
