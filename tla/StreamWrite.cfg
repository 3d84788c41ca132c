SPECIFICATION Spec
CONSTANTS
    Length = 0
    MaxStreamFrameSorterGaps = 2
    Segments <- MCNoSegments
    ReadSizes = {1}
    WriteSizes = {2}
    MaxWrites = 2
    PopSizes = {1}
    ReadDeadlines = {}
    WriteDeadlines = {0, 2}
    MaxTime = 2
    ResetErrors = {"nil", "reset"}
INVARIANTS FinalOffsetKept WriteCountsTaken CollectedIsDone
PROPERTY BlockedWriteReturns
CHECK_DEADLOCK FALSE
