SPECIFICATION FairSpec
CONSTANTS
    MaxN <- MCMaxN
    MaxK <- MCMaxK
INVARIANTS
    TypeOK
    Chained
    PrintsEveryPush
    CrashOnlyOnEmptyList
PROPERTY Terminates
