SPECIFICATION PublicationSpec
CONSTANTS
    Kinds = {"bundle", "transcript", "directory"}
    Data = 2
    MaxPublications = 3
    MaxFaults = 2
    MaxCrashes = 2
CHECK_DEADLOCK FALSE
INVARIANTS
    NeverMixed
    NothingLost
PROPERTIES
    OldOrNew
