CONSTANTS
    w1 = w1  w2 = w2  c1 = c1  c2 = c2
    Worker = {w1, w2}
    Client = {c1, c2}
    Budget = 2
    ProbeTimeout = 2
    Inputs <- MCInputs
    Byte = {"k", "t", "1", "_", "-", "lead", "cont"}
    Letter = {"k", "t"}
    Digit = {"1"}
    Lead <- MCLead
    Continuation = {"cont"}
    BASE <- MCBase
    STATE_LABEL <- MCState
    MAX_LABEL_NAME_LEN = 3
    MAX_CUSTOM_LABEL_COUNT = 2
    Mark = {"a", "f", "[", "]", ":", "%", "1", "0", "127"}
    MIN_API_VERSION = 40
    MAX_API_VERSION = 56
    MIN_POLL_DELAY = 1
    MaxStop = 3
    MaxTime = 6
SPECIFICATION LFairSpec
INVARIANTS
    PreScanIsExact
    ProbeReachesServer
    FamiliesFit
    StopsInTime
    ExitTellsWhatHappened
PROPERTIES
    StopEnds
