\* Two callers, two events, faults of the daemon.
CONSTANTS
    Caller = {"listener", "poller"}
    Self = "listener"
    Timeout = 2
    MaxFaults = 2
    EVENTS_SINCE_MARGIN = 1
    BACKOFF_INITIAL_DELAY = 1
    BACKOFF_MAX_DELAY = 3
    Skew = 1
    Second = 2
    MaxEvents = 2
    MaxTime = 3
    MaxNaps = 4
SPECIFICATION LFairSpec
INVARIANTS
    CallsEndInTime
    HeldEventsArrive
    EveryEventIsCovered
    BackoffMatchesAttempts
PROPERTIES
    EventuallyStreaming
