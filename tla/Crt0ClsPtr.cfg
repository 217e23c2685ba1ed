CONSTANTS
    NumClusters = 1
    NumCores = 2
    DmaDepth = 3
SPECIFICATION Spec
INVARIANT
    ClsPtrKept
\* all cores are in main
CHECK_DEADLOCK FALSE
