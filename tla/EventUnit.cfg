CONSTANTS
    NumCores = 3
    MaxRegions = 3
    Argcs = {12}
SPECIFICATION Spec
INVARIANTS
    IInv
    EventStableWhileRead
    NoStaleWakeup
    ArgsOfThisRegion
PROPERTIES
    ImplementsForkJoin
    CleanExitOfSleepers
\* after destroy every core has returned from main
CHECK_DEADLOCK FALSE
