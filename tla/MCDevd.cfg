SPECIFICATION LiveSpec
CONSTANTS
    None = None
    MaxPeers = 2
    MaxRequests = 2
    MaxWork = 4
    MaxSignals = 1
CHECK_DEADLOCK FALSE
INVARIANTS TypeOK ListsExact OwnersOutlive SentInOrder
PROPERTIES IoEndsFirst TeardownEnds
