\* An abort ends the server, so the system may stop.
SPECIFICATION Spec
CONSTANTS
    Client = {c1, c2, c3}
    RequestModes = {1, 2, 3}
    ReleaseModes = {0, 1, 2}
    MaxInFlight = 1
INVARIANTS GrantedSorted ListsMatchClients WaitsForConfirm
SYMMETRY Symmetry
CHECK_DEADLOCK FALSE
