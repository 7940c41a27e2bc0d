SPECIFICATION FairSpec
CONSTANTS
    FileBytes <- MCFileBytes
    PageBytes <- MCPageBytes
    WordBytes <- MCWordBytes
    IntLimit <- MCIntLimit
    Requests <- MCRequests
    Data <- MCData
INVARIANTS
    HeapIntact
PROPERTIES
    HeapPromise
    CallsReturn
