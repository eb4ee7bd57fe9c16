SPECIFICATION FairSpec
CONSTANTS
    CRs = {c1, c2}
    NoOne = NoOne
    MaxImage = 0
    MaxRemovals = 0
PROPERTIES AlwaysDeletionEnds
\* Once all CRs are gone nothing is left to do.
CHECK_DEADLOCK FALSE
