SPECIFICATION LiveSpec
CONSTANTS
    NrArgs <- MCNrArgs
    MAX_ARGS = 5
    SEGMENT = 7
    NrSegments = 3
    MaxEvents = 10
CHECK_DEADLOCK FALSE
INVARIANTS PrintsWhatIsKept
PROPERTIES PrintEnds
