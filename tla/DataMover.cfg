CONSTANTS
    Clients = {a}
    Calls = {"copy", "start", "wait"}
    QueueSize = 2
    DmaDepth = 2
    MaxCalls = 5
SPECIFICATION Spec
INVARIANTS
    IInv
    IssuedInOrder
    WaitCovers
PROPERTIES
    CallsReturn
    StartedAfterStart
\* the clients have made their calls and the DM core sleeps
CHECK_DEADLOCK FALSE
