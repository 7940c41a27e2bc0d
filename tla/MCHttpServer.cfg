SPECIFICATION FairSpec
CONSTANTS
    MaxConns = 2
    Kinds = {"bad", "refused", "static", "cgi", "badexec"}
    MaxForks = 2
    MaxPieces = 1
    FileLen = 1
    Outputs = {0, 2}
    PipeCap = 1
    SockCap = 1
CHECK_DEADLOCK FALSE
INVARIANTS TypeOK HonestSuccess NoFdLeak
PROPERTIES Reaped StopHonoured Served
