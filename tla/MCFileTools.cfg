SPECIFICATION Spec
CONSTANTS
    Values <- MCValues
    Width = 3
    MaxLength = 5
    Segments <- MCSizes
    Buffers <- MCSizes
    MaxPath = 7
CHECK_DEADLOCK FALSE
INVARIANTS
    SortsTheFile
    NormalizesThePath
