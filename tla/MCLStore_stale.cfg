SPECIFICATION Spec
CONSTANTS
    w1 = w1
    w2 = w2
    w3 = w3
    k1 = k1
    k2 = k2
    None = None
    Key = {k1, k2}
    Write = {w1, w2, w3}
    KeyOf <- OneKeyTwice
    BadCrc = {}
    MaxEntries = 6
    SearchOffset = 64
    DevSize = 20
    MaxCrashes = 2
INVARIANTS
    StableIsReadable
CHECK_DEADLOCK FALSE
