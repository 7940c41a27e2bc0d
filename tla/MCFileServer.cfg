SPECIFICATION FairSpec
CONSTANTS
    MaxClients = 2
    MaxSignals = 2
    FdLimit = 3
    MAX_REQUEST_LEN = 2
    MaxSize = 2
    SockCap = 1
CHECK_DEADLOCK FALSE
INVARIANTS
    HonestLog
PROPERTY Served
