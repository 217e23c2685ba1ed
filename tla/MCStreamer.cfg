CONSTANTS
    LoopDim = 2
    LoopBoundWidth = 2
    AddrWidth = 5
    NumReadWrite = 11
    NumReadOnly = 1
    TcdmPortsNum = 2
    FifoDepth = 2
    None = None
    Plans <- MCPlans
    AccDepth = 1
    CounterWidth = 1
SPECIFICATION Spec
INVARIANTS
    TypeOK
    ReadsInOrder
    WritesInOrder
    IdleMeansWritten
    UnitsIdleTogether
    RequestsHeld
PROPERTY
    JobsFinish
