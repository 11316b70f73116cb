SPECIFICATION FairSpec
CONSTANTS
    w1 = w1
    w2 = w2
    w3 = w3
    k1 = k1
    k2 = k2
    None = None
    Key = {k1, k2}
    Write = {w1, w2, w3}
    KeyOf <- OneKeyTwice
    BadCrc = {w3}
    MaxEntries = 5
    SearchOffset = 4
    DevSize = 24
    MaxCrashes = 0
PROPERTIES
    WritesAnswered
CHECK_DEADLOCK FALSE
