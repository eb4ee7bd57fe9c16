SPECIFICATION MidDrainSpec
CONSTANTS
    Nodes = {n1, n2}
    NoNode = NoNode
    Mishaps = {"foreign_cordon", "spec_edit", "job_failure", "overlapping_removal", "forced_removal"}
    MaxFailures = 1
SYMMETRY NodeSymmetry
INVARIANTS
    NothingLeftBehind
    WaitingHasACause
PROPERTIES
    ServicesGoTogether
\* Once the CR and its hosts are gone nothing is left to do.
CHECK_DEADLOCK FALSE
