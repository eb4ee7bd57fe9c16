SPECIFICATION Spec
CONSTANTS
    Nodes = {n1, n2}
    NoNode = NoNode
    Mishaps = {"spec_edit"}
    MaxFailures = 0
SYMMETRY NodeSymmetry
PROPERTIES
    NothingExtraToDo
