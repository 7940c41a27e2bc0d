SPECIFICATION FairSpec
CONSTANTS
    MaxSignals = 3
    MaxPrograms = 4
    PipeCapacity = 1
    MaxOutput = 2
CHECK_DEADLOCK FALSE
INVARIANTS
    HonestVerdict
    ConnectedInOrder
PROPERTY Ends
