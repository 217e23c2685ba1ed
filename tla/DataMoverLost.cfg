CONSTANTS
    Clients = {a}
    Calls = {"wait", "ready"}
    QueueSize = 2
    DmaDepth = 1
    MaxCalls = 2
SPECIFICATION Spec
PROPERTY
    CallsReturn
\* the clients have made their calls and the DM core sleeps
CHECK_DEADLOCK FALSE
