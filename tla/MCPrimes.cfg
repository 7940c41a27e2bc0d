SPECIFICATION FairSpec
CONSTANT Args <- MCArgs
CHECK_DEADLOCK FALSE
INVARIANTS
    TypeOK
    HandOver
PROPERTIES
    StreamsPrimes
    Ends
