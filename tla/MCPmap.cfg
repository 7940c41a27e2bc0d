SPECIFICATION FairSpec
CONSTANTS
    N = 4
    T = 2
CHECK_DEADLOCK FALSE
INVARIANTS Throttled SafeDestroy ResultsComplete
PROPERTIES Returns
