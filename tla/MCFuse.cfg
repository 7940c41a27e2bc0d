SPECIFICATION Spec
CONSTANTS
    n1 = n1
    n2 = n2
    dot = dot
    Names <- MCNames
    Hidden <- MCHidden
    MaxFiles = 2
    MaxSize = 4
    HeaderSize = 1
    Width = 5
    Directories = 2
    MaxTime = 2
    MergeSize = 2
    Capacities <- MCCapacities
    MaxChanges = 1
SYMMETRY MCSymmetry
CHECK_DEADLOCK FALSE
INVARIANTS
    ReadsTheFile
    ShowsTheUnion
