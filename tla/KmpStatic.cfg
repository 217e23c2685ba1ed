CONSTANTS
    MaxThreads = 4
    Lowers = {0}
    MaxSize = 12
    Incrs = {1}
    Chunks = {1, 2, 3}
SPECIFICATION Spec
INVARIANTS
    Partition
    LastIterationFlag
\* every thread has its part
CHECK_DEADLOCK FALSE
