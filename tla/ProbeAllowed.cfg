SPECIFICATION GatewaySpec
CONSTANTS
    Callers = {c1}
    Endpoints = {0}
    Requests <- TextRequests
    Hosted = {"caption_embedding", "visual_embedding"}
    Faults = {"protocol"}
    Threshold = 2
    MaxAttempts = 2
    MaxConcurrency = 1
    Absent = Absent
INVARIANTS
    ProbeAllowed
