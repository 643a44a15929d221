SPECIFICATION Spec
CONSTANTS
    c1 = c1
    c2 = c2
    c3 = c3
    c4 = c4
    p1 = p1
    A = A
    B = B
    Calls = {c1}
    Jobs <- ActivateJobs
    Users = {p1}
    Admin = Admin
    Tasks = {A, B}
    Polls = 2
    Tokens = {t1, t2, t3}
    None = None
INVARIANTS
    ActivatedTaskRan
