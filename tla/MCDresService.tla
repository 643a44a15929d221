---------------------------- MODULE MCDresService ----------------------------
(* Small instances of DresService for TLC. *)
EXTENDS DresService, TLC

CONSTANTS c1, c2, c3, c4, p1, A, B

Want(op, task, named) == [op |-> op, user |-> p1, task |-> task, named |-> named]

NoCall == Want("none", A, TRUE)

\* A participant connects, disconnects and has two operations in flight.
SessionJobs == c1 :> Want("connect", A, TRUE) @@ c2 :> Want("disconnect", A, TRUE)
            @@ c3 :> Want("read", A, TRUE) @@ c4 :> Want("log", A, TRUE)

\* A submission, which may activate its task, while the organisers run tasks of
\* their own and the participant's token expires.
SubmitJobs == c1 :> Want("connect", A, TRUE) @@ c2 :> Want("submit", A, FALSE)
           @@ c3 :> NoCall @@ c4 :> NoCall

MCJobs == {SessionJobs, SubmitJobs}

\* One task is activated while the organisers run tasks of their own.
ActivateJobs == {c1 :> Want("activate", A, TRUE)}
=============================================================================
