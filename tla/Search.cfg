SPECIFICATION SearchSpec
CONSTANTS
    Absent = Absent
    Gap = 1
    Plain <- MCPlain
    Unit = 100
    CuesOf <- MCCuesOf
    Threads = {t1, t2}
    Builds = {1, 2, 3, 4, 5, 6, 7}
    BuildOf <- MCBuildOf
    CorpusOf <- MCCorpusOf
    Requests = {1, 2, 3, 4, 5, 6, 7, 8, 9, 10, 11, 12, 13, 14, 15, 16}
    RequestOf <- MCRequestOf
    Outages <- MCOutages
    Avs <- MCAvs
    MaxEvents = 3
    ImageLimit = 4
    Ttl = 1
    Room = 1
    Scenes <- MCScenes
    MaxNow = 2
CHECK_DEADLOCK FALSE
SYMMETRY ThreadSymmetry
INVARIANTS
    SnapshotRedecodes
    SnapshotOfRevision
    RowsCanonical
    NearlyBounded
    EventsIndependent
    CoverageNeutral
    DecodersAgree
    AvsSpread
