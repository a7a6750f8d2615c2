\* Renames, updates, removals and node changes during a scrape.
CONSTANTS
    Service = {"s1"}
    Identity <- MCIdentity
    UpdateStatus <- MCUpdateStatus
    NodeLists <- MCNodeLists
    MaxChanges = 3
    MaxPolls = 1
SPECIFICATION ESpec
INVARIANTS
    SettledSeries
    ScrapeIsWhole
