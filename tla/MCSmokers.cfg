SPECIFICATION FairSpec
CONSTANT MaxInput <- MCMaxInput
CHECK_DEADLOCK FALSE
INVARIANTS
    TypeOK
    OutputFollowsInput
    KilledAtRest
PROPERTY EndsUnlessMissed
