SPECIFICATION GSpec
CONSTANTS
    Text <- MCText
    Empty = ""
    Fold <- MCFold
    Addresses <- MCAddresses
    ServiceSpecs <- MCSpecs
    NodeLists <- MCNodeLists
    NoSpec = NoSpec
INVARIANTS
    ConstraintsAreDecided
PROPERTIES
    NodeChangesAreContained
