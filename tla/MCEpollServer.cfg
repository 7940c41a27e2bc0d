SPECIFICATION FairSpec
CONSTANTS
    Clients = {c1, c2}
    MaxBytes = 3
    Room = 2
    REQUEST_BUFFER = 2
    MAX_EVENTS = 2
    ConnectionLimits <- MCConnectionLimits
    MaxSignals = 1
CHECK_DEADLOCK FALSE
INVARIANTS
    EchoIntact
    CountAgrees
PROPERTY Attended
