\* Three resyncs, and a clock that runs three windows.
CONSTANTS
    Window = 1
    MaxTime = 4
    MaxRequests = 3
SPECIFICATION HSpec
INVARIANTS
    HealthyHasServed
    OutstandingIsUnbroken
