SPECIFICATION FairDatabaseSpec
CONSTANTS
    Items <- MCItems
    NoSKU <- MCNoSKU
    FlatTools <- MCFlatTools
    Users = {u}
    Confirmations = {c, d}
    Limit = 1
    MaxFaults = 1
INVARIANT TagsHaveTools
INVARIANT UnreadableHoldUpNone
PROPERTY KnownStaysKnown
PROPERTY CatalogueFollows
