CONSTANTS
    NumCores = 2
    MaxRegions = 1
    Argcs = {0}
SPECIFICATION Spec
PROPERTY
    CleanExit
\* after destroy every core has returned from main
CHECK_DEADLOCK FALSE
