\* Polls of two services whose changes overflow the queue.
CONSTANTS
    s1 = s1  s2 = s2  s3 = s3
    replicated = replicated  scaled = scaled  global = global
    n1 = n1  n2 = n2
    Service = {s1, s2}
    ServiceSpec = {replicated, global}
    Global = {global}
    NodeSet = {n1, n2}
    Label <- OwnLabels
    LabelOf <- OwnLabelOf
    NoService = NoService
    Malformed = Malformed
    NoNodes = NoNodes
    NodeEvent = NodeEvent
    InitialWorlds <- AllReplicated
    PendingCap = 1
    KeysPerCycle = 1
    RetryLimit = 1
    MaxChanges = 2
    MaxFaults = 0
    MaxDrops = 0
    MaxPeriodic = 1
    MaxTime = 1
    MayCancel = FALSE
    MaxCarriedPolls = 2
SPECIFICATION PSpec
SYMMETRY Symmetry
CONSTRAINT Budget
INVARIANTS
    CarriedIsBounded
    NoLostNodeChange
    NoLostWakeup
    SeriesMirrorCache
PROPERTIES
    AcceptedIsUpToDateUnlessResyncing
    NoSilentOmission
    PublishedIsCurrent
