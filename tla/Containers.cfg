CONSTANTS
    c1 = c1  c2 = c2  c3 = c3
    Container = {c1, c2, c3}
    Swarm = {c3}
    include_swarm = FALSE
    ExitCode = {0, 1}
    inspect_cap = 1
    ListTimeout = 1
    EnrichTimeout = 2
    MaxChanges = 2
SPECIFICATION CSpec
SYMMETRY Interchangeable
INVARIANTS
    ContainerPollIsBounded
    ContainerSeriesAreSound
CHECK_DEADLOCK FALSE
