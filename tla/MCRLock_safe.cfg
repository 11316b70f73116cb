SPECIFICATION FairSpec
CONSTANTS
    Client = {c1, c2, c3}
    RequestModes = {2, 3}
    ReleaseModes = {}
    MaxInFlight = 3
INVARIANTS TypeOK MutualExclusion NeverAborts OneRevokeInFlight RequestAccounted
PROPERTIES LosesNoMoreThanAsked RequestsGranted AbsSpec
