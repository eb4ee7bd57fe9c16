SPECIFICATION FairSpec
CONSTANTS
    CRs = {c1, c2}
    NoOne = NoOne
    MaxImage = 1
    MaxRemovals = 1
INVARIANTS SharedTypeOK CurrentScripts
PROPERTIES ScriptsKept DeletionEnds
\* Once all CRs are gone nothing is left to do.
CHECK_DEADLOCK FALSE
