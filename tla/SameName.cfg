\* A service is deleted and created again under its name.
CONSTANTS
    s1 = s1  s2 = s2  s3 = s3
    replicated = replicated  scaled = scaled  global = global
    n1 = n1  n2 = n2
    Service = {s1, s2}
    ServiceSpec = {replicated}
    Global = {}
    NodeSet = {n1}
    Label <- SharedLabels
    LabelOf <- SharedLabelOf
    NoService = NoService
    Malformed = Malformed
    NoNodes = NoNodes
    NodeEvent = NodeEvent
    InitialWorlds <- OneReplicated
    PendingCap = 2
    KeysPerCycle = 1
    RetryLimit = 1
    MaxChanges = 2
    MaxFaults = 0
    MaxDrops = 1
    MaxPeriodic = 1
    MaxTime = 1
    MayCancel = FALSE
SPECIFICATION Spec
INVARIANTS
    SettledServiceHasSeries
