CONSTANTS
    FrameCount = 2
    BatchSize = 1
    WriteInterval = 1
    FrameBatch = 2
    ShardSize = 1
    MaxStops = 1
    Lineages = {1, 2}
    Revisions = {0, 1, 2}
    Videos = {1, 2}
    Sources = {1, 2}
    Configs <- MCConfigs
    VideoOf <- MCVideoOf
    Plans <- MCPlans
SPECIFICATION Spec
CHECK_DEADLOCK FALSE
INVARIANTS
    CaptionsStated
    VectorsAligned
    IndexBelongs
PROPERTIES
    TranscriptsCurrent
