SPECIFICATION Spec
CONSTANTS
    Client = {c1, c2}
    RequestModes = {2, 3}
    ReleaseModes = {0}
    MaxInFlight = 2
INVARIANTS MutualExclusion
CHECK_DEADLOCK FALSE
