\* A poll of a service that changes, with a fault and a shutdown.
CONSTANTS
    s1 = s1  s2 = s2  s3 = s3
    replicated = replicated  scaled = scaled  global = global
    n1 = n1  n2 = n2
    Service = {s1}
    ServiceSpec = {replicated}
    Global = {}
    NodeSet = {n1}
    Label <- OwnLabels
    LabelOf <- OwnLabelOf
    NoService = NoService
    Malformed = Malformed
    NoNodes = NoNodes
    NodeEvent = NodeEvent
    InitialWorlds <- OneReplicated
    PendingCap = 1
    KeysPerCycle = 1
    RetryLimit = 1
    MaxChanges = 1
    MaxFaults = 1
    MaxDrops = 0
    MaxPeriodic = 0
    MaxTime = 1
    MayCancel = TRUE
    MaxCarriedPolls = 2
SPECIFICATION FairPSpec
CHECK_DEADLOCK FALSE
PROPERTIES
    PollsEnd
    EventuallyPublished
    CancelStopsAll
