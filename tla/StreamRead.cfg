SPECIFICATION Spec
CONSTANTS
    Length = 6
    MaxStreamFrameSorterGaps = 3
    Segments <- MCSegments
    ReadSizes = {2}
    WriteSizes = {}
    MaxWrites = 0
    PopSizes = {}
    ReadDeadlines = {0, 2}
    WriteDeadlines = {}
    MaxTime = 2
    ResetErrors = {"nil", "reset"}
INVARIANTS NothingLost ReadsInOrder EofMeansComplete
PROPERTY BlockedReadReturns
CHECK_DEADLOCK FALSE
