SPECIFICATION Spec
CONSTANTS
    a = a
    b = b
    x = x
    p = p
    Pieces = {a, b, x}
    Query <- Repeating
    Typed <- PartOfQuery
    Images = {p}
    MaxEvents = 3
    Limit = 2
    MaxRevision = 4
    None = None
CHECK_DEADLOCK FALSE
INVARIANTS
    EventsConsistent
    MergeUndoesSplit
PROPERTIES
    LogSpec
