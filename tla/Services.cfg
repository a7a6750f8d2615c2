\* Three services and a queue of two keys.
CONSTANTS
    s1 = s1  s2 = s2  s3 = s3
    replicated = replicated  scaled = scaled  global = global
    n1 = n1  n2 = n2
    Service = {s1, s2, s3}
    ServiceSpec = {replicated}
    Global = {}
    NodeSet = {n1, n2}
    Label <- OwnLabels
    LabelOf <- OwnLabelOf
    NoService = NoService
    Malformed = Malformed
    NoNodes = NoNodes
    NodeEvent = NodeEvent
    InitialWorlds <- AllReplicated
    PendingCap = 2
    KeysPerCycle = 1
    RetryLimit = 1
    MaxChanges = 3
    MaxFaults = 1
    MaxDrops = 0
    MaxPeriodic = 0
    MaxTime = 1
    MayCancel = TRUE
SPECIFICATION Spec
SYMMETRY Symmetry
CONSTRAINT Budget
INVARIANTS
    TypeOK
    QueueWellFormed
    GenerationsMirrorCache
    NoLostServiceChange
PROPERTIES
    QueueIsFifo
