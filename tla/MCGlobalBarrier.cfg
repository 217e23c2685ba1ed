CONSTANTS
    Clusters <- MCClusters
    CoreIds <- MCCoreIds
    DmCore = 1
    IterMod = 2
    MaxEpisodes = 2
    ExitCode <- MCExitCode
SPECIFICATION Spec
INVARIANTS
    IInv
    GloballySynchronised
    ReductionExact
PROPERTY
    Implements
\* the program is over once every core has made its calls
CHECK_DEADLOCK FALSE
