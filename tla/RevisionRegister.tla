--------------------------- MODULE RevisionRegister ---------------------------
(***************************************************************************)
(* What the backend promises to concurrent clients of revisioned sessions: *)
(* every request is answered as if it had run alone, at one moment between *)
(* its arrival and its answer.  A request that names a revision is         *)
(* accepted only while that revision is the current one, so two clients    *)
(* never both build on the same revision.                                  *)
(***************************************************************************)
EXTENDS Integers

CONSTANTS Clients, Sessions, None

VARIABLES revision, request, answer

registerVars == <<revision, request, answer>>

Requests == [writes   : BOOLEAN,
             session  : Sessions,
             expected : Nat \cup {None}]

Init ==
    /\ revision = [s \in Sessions |-> 0]
    /\ request = [c \in Clients |-> None]
    /\ answer = [c \in Clients |-> "none"]

Invoke(c) ==
    /\ request'[c] \in Requests
    /\ request' = [request EXCEPT ![c] = request'[c]]
    /\ answer' = [answer EXCEPT ![c] = "none"]
    /\ UNCHANGED revision

\* The moment at which the request takes effect.
Accept(c) ==
    LET r == request[c]
    IN  /\ r \in Requests
        /\ answer[c] = "none"
        /\ r.expected \in {None, revision[r.session]}
        /\ revision' = IF r.writes
                       THEN [revision EXCEPT ![r.session] = @ + 1]
                       ELSE revision
        /\ answer' = [answer EXCEPT ![c] = "ok"]
        /\ UNCHANGED request

Conflict(c) ==
    /\ request[c] \in Requests
    /\ answer[c] = "none"
    /\ request[c].expected \notin {None, revision[request[c].session]}
    /\ answer' = [answer EXCEPT ![c] = "conflict"]
    /\ UNCHANGED <<revision, request>>

\* Refused for a reason of its own: unknown session, capacity, invalid action.
Refuse(c) ==
    /\ answer[c] = "none"
    /\ \E reason \in {"expired", "missing", "busy", "refused"} :
           answer' = [answer EXCEPT ![c] = reason]
    /\ UNCHANGED <<revision, request>>

Next == \E c \in Clients : Invoke(c) \/ Accept(c) \/ Conflict(c) \/ Refuse(c)

Spec == Init /\ [][Next]_registerVars
=============================================================================
