SPECIFICATION Spec
CONSTANTS
    None = None
    Key <- MCKey
    Version = {1, 2}
    Hashes <- MCHashes
    MIN_SIZE = 3
    MIGRATE_BATCH = 3
    LOW_UTIL = 45
    HIGH_UTIL = 50
    GROW = 150
    SHRINK = 66
    WordSize = 65536
CHECK_DEADLOCK FALSE
INVARIANTS TablesExact
PROPERTIES AbsSpec
