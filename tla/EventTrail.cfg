SPECIFICATION Spec
CONSTANTS
    EventCount = 3
    Times = {0, 2, 4, 6, 8}
    ClusterStart <- MCClusterStart
    Score <- MCScore
    AltCount = 2
    MinSep = 2
    MaxRadius = 3
    None = None
    WindowInputs <- MCWindows
    MaxRevision = 2
    Absent = None
    Gap = 1
    Plain <- MCWindows
    Unit = 100
    CuesOf <- MCWindows
    Video <- MCVideo
    Settings <- MCSettings
INVARIANTS
    ActivePathIsBest
    ExhaustedIffInfeasible
    SelectionStaysAnchored
    ProgramsAnswer
PROPERTIES
    RejectionSparesOthers
    LogSpec
