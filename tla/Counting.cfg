SPECIFICATION TSpec
CONSTANTS
    Text <- MCText
    Empty = ""
    Fold <- MCFold
    Addresses <- MCAddresses
    Snapshots <- MCSnapshots
    TaskLists <- MCTaskLists
INVARIANTS
    RunningIsServed
    OrderDoesNotMatterIfCreatedApart
    FinishedJobIsDone
