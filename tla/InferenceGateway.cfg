SPECIFICATION FairSpec
CONSTANTS
    Callers = {c1, c2}
    Endpoints = {0, 1}
    Requests <- CheckRequests
    Hosted = {"caption_embedding", "visual_embedding"}
    Faults = {"garbled"}
    Threshold = 2
    MaxAttempts = 2
    MaxConcurrency = 1
    Absent = Absent
INVARIANTS
    PlacesComeBack
    ProbeAllowed
PROPERTIES
    CircuitRecovers
