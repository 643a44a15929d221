SPECIFICATION Spec
CONSTANTS
    Events = {e, f}
    Invented = {}
    Texts = {t}
    Limit = 1
    MaxRequests = 3
    None = None
CHECK_DEADLOCK FALSE
SYMMETRY Symmetry
INVARIANTS
    AnswersStable
    ResultsMatchOverrides
    PageShowsRevision
