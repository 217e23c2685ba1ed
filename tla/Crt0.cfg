CONSTANTS
    NumClusters = 1
    NumCores = 4
    DmaDepth = 4
SPECIFICATION Spec
INVARIANTS
    SectionsReadyInMain
    BssReadyInMain
PROPERTY
    AllReachMain
\* all cores are in main
CHECK_DEADLOCK FALSE
