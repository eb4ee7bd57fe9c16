SPECIFICATION Spec
CONSTANTS
    CRs = {c1}
    NoOne = NoOne
    MaxImage = 1
    MaxRemovals = 0
INVARIANTS AlwaysCurrentScripts
\* Once all CRs are gone nothing is left to do.
CHECK_DEADLOCK FALSE
