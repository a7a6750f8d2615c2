\* A change, a fault and a lost stream.
CONSTANTS
    s1 = s1  s2 = s2  s3 = s3
    replicated = replicated  scaled = scaled  global = global
    n1 = n1  n2 = n2
    Service = {s1}
    ServiceSpec = {replicated}
    Global = {}
    NodeSet = {n1}
    Label <- OwnLabels
    LabelOf <- OwnLabelOf
    NoService = NoService
    Malformed = Malformed
    NoNodes = NoNodes
    NodeEvent = NodeEvent
    InitialWorlds <- OneReplicated
    PendingCap = 1
    KeysPerCycle = 1
    RetryLimit = 1
    MaxChanges = 1
    MaxFaults = 1
    MaxDrops = 1
    MaxPeriodic = 0
    MaxTime = 2
    MayCancel = FALSE
SPECIFICATION FairSpec
PROPERTIES
    EventuallyMirrored
    WorkIsServed
    ImplementsResync
