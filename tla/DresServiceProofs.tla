--------------------------- MODULE DresServiceProofs ---------------------------
(***************************************************************************)
(* What participants are told of their answers, and who connects them, for *)
(* any number of calls, users, tasks and sessions.  The inductive          *)
(* invariant IInv has three parts besides the types: what a call can be    *)
(* doing (Local), who holds the lock of a login (Locks), and how what DRES *)
(* recorded for a call relates to what the call knows of it (Books).       *)
(***************************************************************************)
EXTENDS DresService, TLAPS

Operating == {"operation", "again"}
Refreshing == {"refresh_lock", "refresh_login"}
LoggingIn == {"connect_login", "refresh_login", "admin_login"}
Activating == {"admin_lock", "admin_login", "admin_list", "admin_state", "admin_current",
               "admin_abort", "admin_switch", "admin_start", "admin_poll"}
Steps == {"ready", "done", "connect_login"} \cup Operating \cup Refreshing \cup Activating
Phases == {"read", "scope", "log", "answer", "retry"}

CallState ==
    [step : Steps, phase : Phases \cup {None}, token : Tokens \cup {None}, relisted : BOOLEAN,
     polls : 0..(Polls - 1), request : Requests \cup {None}, reply : Replies \cup {None},
     outcome : Outcomes \cup {None}]

Late == [call : Calls, kind : Effective, token : Tokens \cup {None}]

\* Types of the whole state: tokens are DRES's, polls stay within their limit.
DresTypes ==
    /\ job \in Jobs
    /\ sessions \in [Keys -> Tokens \cup {None}]
    /\ lock \in [Keys -> Calls \cup {None}]
    /\ call \in [Calls -> CallState]
    /\ valid \subseteq issued /\ issued \subseteq Tokens
    /\ current \in Tasks /\ taskStatus \in TaskStatuses /\ started \subseteq Tasks
    /\ late \subseteq Late
    /\ recorded \in [Calls -> Nat]

\* The phases of each operation.
PhasesOf(op) ==
    CASE op = "read" -> {"read"} [] op = "log" -> {"log"} [] OTHER -> {"scope", "answer", "retry"}

\* What call c can be doing with the local state r.
LocalOf(c, r) ==
    /\ r.step \in Operating => r.request = RequestOf(c, r.phase)
    /\ r.step \notin Operating => r.request \notin {"submit", "log"}
    /\ r.step \in Operating \cup Refreshing =>
          /\ job[c].op \in {"read", "log", "submit"} /\ r.phase \in PhasesOf(job[c].op)
          /\ r.token # None
    /\ r.step \in Activating => job[c].op \in {"submit", "activate"}
    /\ r.step = "connect_login" => job[c].op = "connect"
    /\ r.step \in LoggingIn => r.request = "login"
    /\ r.step \in {"ready", "done"} => r.request = None
    /\ r.outcome # None => r.step = "done"
    /\ r.reply # None => r.request # None
    /\ r.reply # None /\ r.request = "login" /\ r.reply.status = "ok" => r.reply.value \in Tokens

Local == \A c \in Calls : LocalOf(c, call[c])

\* A login holds the lock of its key, and a refresh finds the session it refreshes.
Locks ==
    \A c \in Calls :
        /\ At(c, "connect_login") => lock[User(c)] = c
        /\ At(c, "refresh_login") => lock[User(c)] = c /\ sessions[User(c)] = call[c].token
        /\ At(c, "admin_login") => lock[Admin] = c

\* Requests of c that its client gave up on and that DRES may still record.
Pending(c) == {r \in late : r.call = c /\ r.kind \in {"submit", "log"}}

\* The call knows that its answer was recorded, or does not know and will not ask again.
Confirmed(c, r) ==
    \/ r.outcome = "RECORDED"
    \/ job[c].op = "log" /\ r.outcome = "OK"
    \/ r.request \in {"submit", "log"} /\ r.reply # None /\ r.reply.status = "ok"
Uncertain(r) ==
    \/ r.outcome \in {"UNKNOWN", "FAILED"}
    \/ r.request \in {"submit", "log"} /\ r.reply # None /\ r.reply.status = "unavailable"

BooksOf(c, r) ==
    \/ recorded[c] = 0 /\ Pending(c) = {} /\ ~Confirmed(c, r)
    \/ recorded[c] = 1 /\ Pending(c) = {} /\ (Confirmed(c, r) \/ Uncertain(r))
    \/ recorded[c] = 0 /\ (\E x : Pending(c) = {x}) /\ Uncertain(r)

Books == \A c \in Calls : BooksOf(c, call[c])

IInv == DresTypes /\ Local /\ Locks /\ Books

-----------------------------------------------------------------------------
(* How a step of one call carries over to the invariant.                   *)

JobTypes == [op : {"connect", "disconnect", "read", "log", "submit", "activate", "none"},
             user : Users, task : Tasks, named : BOOLEAN]

\* What a call works on: a user who is no administrator, and a task.
LEMMA JobFacts ==
    ASSUME DresTypes, NEW c \in Calls
    PROVE  /\ job[c] \in JobTypes /\ User(c) \in Users /\ User(c) \in Keys /\ User(c) # Admin
           /\ job[c].task \in Tasks /\ Admin \in Keys
<1>1. job \in [Calls -> JobTypes]
    BY JobAssumption DEF DresTypes, JobTypes
<1>2. job[c] \in JobTypes
    BY <1>1
<1> QED  BY <1>2, KeysAssumption DEF JobTypes, User, Keys

\* The key whose lock a login holds.
KeyOf(c, step) == IF step = "admin_login" THEN Admin ELSE User(c)

\* Locks and sessions change at one key, which no other call is logging in for.
LEMMA LocksStep ==
    ASSUME DresTypes, Locks, NEW c \in Calls, NEW r \in CallState, NEW k \in Keys,
           call' = [call EXCEPT ![c] = r], job' = job,
           \A j \in Keys \ {k} : lock'[j] = lock[j] /\ sessions'[j] = sessions[j],
           \/ lock[k] \in {None, c}
           \/ lock'[k] = lock[k] /\ (sessions'[k] = sessions[k] \/ k = Admin),
           r.step \in LoggingIn => k = KeyOf(c, r.step) /\ lock'[k] = c,
           r.step = "refresh_login" => sessions'[k] = r.token
    PROVE  Locks'
<1>1. call'[c] = r /\ \A d \in Calls \ {c} : call'[d] = call[d]
    BY DEF DresTypes
<1>2. \A d \in Calls : User(d)' = User(d)
    BY DEF User
<1>3. ASSUME NEW d \in Calls, d # c, call[d].step \in LoggingIn, KeyOf(d, call[d].step) = k
      PROVE  lock'[k] = d /\ (call[d].step = "refresh_login" => sessions'[k] = sessions[k])
    <2>1. lock[k] = d
        BY <1>3 DEF Locks, At, LoggingIn, KeyOf
    <2>2. lock[k] \notin {None, c}
        BY <1>3, <2>1, DresNoneAssumption
    <2> QED  BY <1>3, <2>1, <2>2, JobFacts DEF KeyOf
<1>4. ASSUME NEW d \in Calls \ {c}
      PROVE  /\ At(d, "connect_login") => lock'[User(d)] = d
             /\ At(d, "refresh_login") => lock'[User(d)] = d /\ sessions'[User(d)] = call[d].token
             /\ At(d, "admin_login") => lock'[Admin] = d
    BY <1>3, JobFacts DEF Locks, At, LoggingIn, KeyOf
<1>5. /\ r.step = "connect_login" => lock'[User(c)] = c
      /\ r.step = "refresh_login" => lock'[User(c)] = c /\ sessions'[User(c)] = r.token
      /\ r.step = "admin_login" => lock'[Admin] = c
    BY DEF LoggingIn, KeyOf
<1> QED  BY <1>1, <1>2, <1>4, <1>5 DEF Locks, At

\* The client's steps record nothing: its books stay in order as long as it learns no
\* more than it was told.
LEMMA ClientStep ==
    ASSUME IInv, NEW c \in Calls, NEW r \in CallState, call' = [call EXCEPT ![c] = r],
           UNCHANGED <<job, dresVars>>, Locks', LocalOf(c, r),
           sessions' \in [Keys -> Tokens \cup {None}], lock' \in [Keys -> Calls \cup {None}],
           Confirmed(c, r) <=> Confirmed(c, call[c]),
           Uncertain(call[c]) => Uncertain(r)
    PROVE  IInv'
<1>1. call'[c] = r /\ call' \in [Calls -> CallState]
      /\ \A d \in Calls \ {c} : call'[d] = call[d]
    BY DEF IInv, DresTypes
<1>2. DresTypes'
    BY <1>1 DEF IInv, DresTypes, dresVars, taskVars
<1>3. \A d \in Calls : LocalOf(d, call'[d])
    BY <1>1 DEF IInv, Local
<1>4. Local'
    BY <1>3 DEF Local, LocalOf, RequestOf, PhasesOf
<1>5. \A d \in Calls : recorded'[d] = recorded[d] /\ Pending(d)' = Pending(d)
    BY DEF dresVars, Pending
<1>6. \A d \in Calls : /\ Confirmed(d, call[d]) <=> Confirmed(d, call'[d])
                       /\ Uncertain(call[d]) => Uncertain(call'[d])
    BY <1>1
<1>7. \A d \in Calls : Confirmed(d, call'[d]) <=> Confirmed(d, call[d])'
    BY DEF Confirmed
<1>8. Books'
    BY <1>5, <1>6, <1>7 DEF IInv, Books, BooksOf, Uncertain
<1> QED  BY <1>2, <1>4, <1>8 DEF IInv

\* A call that starts has asked, been told and decided nothing.
LEMMA FreshType ==
    /\ Fresh \in CallState
    /\ Fresh.request = None /\ Fresh.reply = None /\ Fresh.outcome = None
BY PollsAssumption DEF Fresh, CallState, Steps

\* The invariant holds before any call began.
LEMMA InitInv == Init => IInv
<1> SUFFICES ASSUME Init PROVE IInv
    OBVIOUS
<1>1. Fresh \in CallState /\ [Fresh EXCEPT !.step = "done"] \in CallState
    BY FreshType DEF CallState, Steps
<1>2. \A c \in Calls : call[c] \in {Fresh, [Fresh EXCEPT !.step = "done"]}
    <2> SUFFICES ASSUME NEW c \in Calls PROVE call[c] \in {Fresh, [Fresh EXCEPT !.step = "done"]}
        OBVIOUS
    <2>1. CASE job[c].op = "none"
        BY <2>1 DEF Init
    <2>2. CASE job[c].op # "none"
        BY <2>2 DEF Init, Fresh
    <2> QED  BY <2>1, <2>2
<1>3. DresTypes
    BY <1>1, <1>2 DEF Init, DresTypes, TaskStatuses
<1>4. \A c \in Calls : /\ call[c].step \in {"ready", "done"} /\ call[c].request = None
                       /\ call[c].reply = None /\ call[c].outcome = None
    BY <1>2 DEF Fresh
<1>5. Local
    BY <1>4, DresNoneAssumption DEF Local, LocalOf, Operating, Refreshing, Activating, LoggingIn,
                                    Requests
<1>6. Locks
    BY <1>4 DEF Locks, At
<1>7. Books
    BY <1>4, DresNoneAssumption DEF Init, Books, BooksOf, Pending, Confirmed, Requests, Outcomes
<1> QED  BY <1>3, <1>5, <1>6, <1>7 DEF IInv

-----------------------------------------------------------------------------
(* DRES's steps.                                                           *)

\* While a call waits for an answer, nothing was recorded for it.
LEMMA WaitingIsClean ==
    ASSUME IInv, NEW c \in Calls, Waiting(c)
    PROVE  /\ recorded[c] = 0 /\ Pending(c) = {}
           /\ call[c].outcome = None /\ call[c].reply = None /\ call[c].request \in Requests
           /\ call[c].request \in {"submit", "log"} => call[c].step \in Operating
<1>1. LocalOf(c, call[c]) /\ call[c] \in CallState
    BY DEF IInv, Local, DresTypes
<1>2. call[c].outcome = None
    BY <1>1 DEF LocalOf, Waiting
<1>3. ~Uncertain(call[c]) /\ ~Confirmed(c, call[c])
    BY <1>2, DresNoneAssumption DEF Uncertain, Confirmed, Waiting, Outcomes
<1> QED  BY <1>1, <1>2, <1>3 DEF IInv, Books, BooksOf, Waiting, CallState, LocalOf

\* DRES or the network answers call c, and whatever was recorded meanwhile is in order.
LEMMA AnswerStep ==
    ASSUME IInv, NEW c \in Calls, Waiting(c), NEW status \in Statuses,
           NEW value \in Tokens \cup Tasks \cup TaskStatuses \cup {None},
           Answered(c, status, value), UNCHANGED <<job, sessions, lock>>, DresTypes',
           call[c].request = "login" /\ status = "ok" => value \in Tokens,
           \A d \in Calls \ {c} : recorded'[d] = recorded[d] /\ Pending(d)' = Pending(d),
           LET effective == call[c].request \in {"submit", "log"} IN
           \/ recorded'[c] = 0 /\ Pending(c)' = {} /\ ~(effective /\ status = "ok")
           \/ recorded'[c] = 1 /\ Pending(c)' = {} /\ effective /\ status = "ok"
           \/ /\ recorded'[c] = 0 /\ (\E x : Pending(c)' = {x})
              /\ effective /\ status = "unavailable"
    PROVE  IInv'
<1> DEFINE reply == [status |-> status, value |-> value]
<1>0. PICK r : r = [call[c] EXCEPT !.reply = reply]
    OBVIOUS
<1>1. reply \in Replies /\ reply # None
    BY DresNoneAssumption DEF Replies
<1>2. call[c] \in CallState /\ LocalOf(c, call[c])
    BY DEF IInv, DresTypes, Local
<1>3. /\ call'[c] = r /\ \A d \in Calls \ {c} : call'[d] = call[d]
      /\ r \in CallState /\ r.reply = reply /\ r.step = call[c].step /\ r.token = call[c].token
      /\ r.request = call[c].request /\ r.outcome = call[c].outcome /\ r.phase = call[c].phase
    BY <1>0, <1>1, <1>2 DEF Answered, IInv, DresTypes, CallState
<1>4. LocalOf(c, r)
    BY <1>1, <1>2, <1>3 DEF LocalOf, Waiting
<1>5. Local'
    <2>1. \A d \in Calls : LocalOf(d, call'[d])
        BY <1>3, <1>4 DEF IInv, Local
    <2> QED  BY <2>1 DEF Local, LocalOf, RequestOf, PhasesOf
<1>6. Locks'
    BY <1>3 DEF IInv, Locks, At, User
<1>7. \A d \in Calls : Confirmed(d, call'[d]) <=> Confirmed(d, call[d])'
    BY DEF Confirmed
<1>8. ASSUME NEW d \in Calls \ {c} PROVE BooksOf(d, call[d])'
    <2>1. BooksOf(d, call[d]) /\ call'[d] = call[d]
        BY <1>3 DEF IInv, Books
    <2>2. Confirmed(d, call[d])' <=> Confirmed(d, call[d])
        BY <1>7, <2>1
    <2>3. recorded'[d] = recorded[d] /\ Pending(d)' = Pending(d)
        OBVIOUS
    <2> QED  BY <2>1, <2>2, <2>3 DEF BooksOf, Uncertain
<1>9. BooksOf(c, call[c])'
    <2>1. r.outcome = None
        BY <1>3, WaitingIsClean
    <2>2. /\ Confirmed(c, r) <=> call[c].request \in {"submit", "log"} /\ status = "ok"
          /\ Uncertain(r) <=> call[c].request \in {"submit", "log"} /\ status = "unavailable"
        BY <1>1, <1>3, <2>1, DresNoneAssumption DEF Confirmed, Uncertain, Outcomes
    <2> QED  BY <1>3, <1>7, <2>2 DEF BooksOf, Uncertain
<1> QED  BY <1>5, <1>6, <1>8, <1>9 DEF IInv, Books

\* Serving a request changes what is recorded for its call only, and exactly when an
\* answer or a log is accepted.
LEMMA PerformFacts ==
    ASSUME DresTypes, NEW kind \in Requests, NEW c \in Calls, NEW status, Perform(kind, c, status)
    PROVE  /\ recorded' \in [Calls -> Nat]
           /\ \A d \in Calls \ {c} : recorded'[d] = recorded[d]
           /\ recorded'[c] = IF kind \in {"submit", "log"} /\ status = "ok" THEN recorded[c] + 1
                             ELSE recorded[c]
           /\ current' \in Tasks /\ taskStatus' \in TaskStatuses /\ started' \subseteq Tasks
           /\ UNCHANGED started
BY JobFacts DEF Perform, DresTypes, taskVars, TaskStatuses

\* That DRES serves a request keeps the invariant.
LEMMA ServeStep ==
    ASSUME IInv, job' = job, NEW c \in Calls, Serve(c)
    PROVE  IInv'
<1>1. /\ Waiting(c) /\ call[c].request # "login"
      /\ UNCHANGED <<sessions, lock, valid, issued, late>>
    BY DEF Serve
<1>2. \A d \in Calls : Pending(d)' = Pending(d)
    BY <1>1 DEF Pending
<1>3. CASE call[c].token \in valid
    <2>1. PICK status \in Statuses : /\ Perform(call[c].request, c, status)
                                     /\ Answered(c, status, Value(call[c].request))
        BY <1>3 DEF Serve
    <2>2. Value(call[c].request) \in Tokens \cup Tasks \cup TaskStatuses \cup {None}
        BY DEF Value, IInv, DresTypes
    <2>3. call[c].request \in Requests
        BY <1>1, WaitingIsClean
    <2>4. DresTypes'
        <3>1. call' \in [Calls -> CallState]
            <4>1. [status |-> status, value |-> Value(call[c].request)] \in Replies
                BY <2>2 DEF Replies
            <4> QED  BY <2>1, <4>1 DEF Answered, IInv, DresTypes, CallState
        <3> QED  BY <1>1, <2>1, <2>3, <3>1, PerformFacts DEF IInv, DresTypes
    <2> QED
        BY <1>1, <1>2, <2>1, <2>2, <2>3, <2>4, AnswerStep, WaitingIsClean, PerformFacts DEF IInv
<1>4. CASE call[c].token \notin valid
    <2>1. Answered(c, "unauthorized", None) /\ UNCHANGED <<taskVars, recorded>>
        BY <1>4 DEF Serve
    <2>2. DresTypes'
        <3>1. call' \in [Calls -> CallState]
            <4>1. [status |-> "unauthorized", value |-> None] \in Replies
                BY DEF Replies, Statuses
            <4> QED  BY <2>1, <4>1 DEF Answered, IInv, DresTypes, CallState
        <3> QED  BY <1>1, <2>1, <3>1 DEF IInv, DresTypes, taskVars
    <2>3. "unauthorized" \in Statuses
        BY DEF Statuses
    <2> QED  BY <1>1, <1>2, <2>1, <2>2, <2>3, AnswerStep, WaitingIsClean
<1> QED  BY <1>3, <1>4

\* An answer to a waiting call is a well-typed local state.
LEMMA AnsweredType ==
    ASSUME DresTypes, NEW c \in Calls, NEW status \in Statuses,
           NEW value \in Tokens \cup Tasks \cup TaskStatuses \cup {None},
           Answered(c, status, value)
    PROVE  call' \in [Calls -> CallState]
<1>1. [status |-> status, value |-> value] \in Replies
    BY DEF Replies
<1> QED  BY <1>1 DEF Answered, DresTypes, CallState

\* That DRES logs a user in keeps the invariant.
LEMMA ServeLoginStep ==
    ASSUME IInv, job' = job, NEW c \in Calls, ServeLogin(c)
    PROVE  IInv'
<1>1. PICK token : token = CHOOSE t \in Tokens \ issued : TRUE
    OBVIOUS
<1>2. /\ Waiting(c) /\ call[c].request = "login" /\ issued # Tokens
      /\ issued' = issued \cup {token} /\ valid' = valid \cup {token}
      /\ Answered(c, "ok", token)
      /\ UNCHANGED <<sessions, lock, taskVars, late, recorded>>
    BY <1>1 DEF ServeLogin
<1>3. token \in Tokens
    BY <1>1, <1>2 DEF IInv, DresTypes
<1>4. "ok" \in Statuses
    BY DEF Statuses
<1>5. DresTypes'
    BY <1>2, <1>3, <1>4, AnsweredType DEF IInv, DresTypes, taskVars
<1>6. \A d \in Calls : recorded'[d] = recorded[d] /\ Pending(d)' = Pending(d)
    BY <1>2 DEF Pending
<1> QED  BY <1>2, <1>3, <1>4, <1>5, <1>6, WaitingIsClean, AnswerStep

\* That the client stops waiting for an answer keeps the invariant.
LEMMA GiveUpStep ==
    ASSUME IInv, job' = job, NEW c \in Calls, GiveUp(c)
    PROVE  IInv'
<1> DEFINE r == [call |-> c, kind |-> call[c].request, token |-> call[c].token]
<1>1. /\ Waiting(c) /\ Answered(c, "unavailable", None)
      /\ UNCHANGED <<sessions, lock, valid, issued, taskVars, recorded>>
      /\ \/ late' = late
         \/ call[c].request \in Effective /\ late' = late \cup {r}
    BY DEF GiveUp
<1>2. "unavailable" \in Statuses /\ "unavailable" # "ok"
    BY DEF Statuses
<1>3. call[c].token \in Tokens \cup {None}
    BY DEF IInv, DresTypes, CallState
<1>4. DresTypes'
    <2>1. late' \subseteq Late
        BY <1>1, <1>3 DEF Late, IInv, DresTypes
    <2> QED  BY <1>1, <1>2, <2>1, AnsweredType DEF IInv, DresTypes, taskVars
<1>5. CASE late' = late
    <2>1. \A d \in Calls : recorded'[d] = recorded[d] /\ Pending(d)' = Pending(d)
        BY <1>1, <1>5 DEF Pending
    <2> QED  BY <1>1, <1>2, <1>4, <2>1, WaitingIsClean, AnswerStep
<1>6. CASE call[c].request \in Effective /\ late' = late \cup {r}
    <2>1. \A d \in Calls \ {c} : recorded'[d] = recorded[d] /\ Pending(d)' = Pending(d)
        BY <1>1, <1>6 DEF Pending
    <2>2. Pending(c)' = IF call[c].request \in {"submit", "log"} THEN {r} ELSE {}
        <3>1. Pending(c) = {}
            BY <1>1, WaitingIsClean
        <3>2. r.call = c /\ r.kind = call[c].request
            OBVIOUS
        <3>3. Pending(c)' = {q \in late \cup {r} : q.call = c /\ q.kind \in {"submit", "log"}}
            BY <1>6 DEF Pending
        <3> HIDE DEF r
        <3> QED  BY <3>1, <3>2, <3>3 DEF Pending
    <2>3. recorded'[c] = 0
        BY <1>1, WaitingIsClean
    <2>4. \/ Pending(c)' = {} /\ call[c].request \notin {"submit", "log"}
          \/ (\E x : Pending(c)' = {x}) /\ call[c].request \in {"submit", "log"}
        BY <2>2
    <2> QED  BY <1>1, <1>2, <1>4, <2>1, <2>3, <2>4, AnswerStep
<1> QED  BY <1>1, <1>5, <1>6

\* No call is sure and unsure of its answer.
LEMMA SureOrNot ==
    ASSUME DresTypes, Local, NEW c \in Calls
    PROVE  ~(Confirmed(c, call[c]) /\ Uncertain(call[c]))
<1>1. LocalOf(c, call[c])
    BY DEF Local
<1>2. call[c].outcome = None \/ call[c].request = None
    BY <1>1 DEF LocalOf
<1> QED  BY <1>2, DresNoneAssumption DEF Confirmed, Uncertain, Outcomes, Requests

\* Books and everything else a client knows, when only DRES moves.
LEMMA DresStep ==
    ASSUME IInv, UNCHANGED <<job, sessions, lock, call>>, DresTypes',
           \A d \in Calls :
               \/ recorded'[d] = recorded[d] /\ Pending(d)' = Pending(d)
               \/ /\ \E x : Pending(d) = {x}
                  /\ recorded'[d] \in {recorded[d], recorded[d] + 1} /\ Pending(d)' = {}
    PROVE  IInv'
<1>1. Local' /\ Locks'
    BY DEF IInv, Local, LocalOf, RequestOf, PhasesOf, Locks, At, User
<1>2. ASSUME NEW d \in Calls PROVE BooksOf(d, call[d])'
    <2>1. BooksOf(d, call[d])
        BY DEF IInv, Books
    <2>2. Confirmed(d, call[d])' <=> Confirmed(d, call[d])
        BY DEF Confirmed
    <2>3. Uncertain(call[d])' <=> Uncertain(call[d])
        BY DEF Uncertain
    <2>4. ~(Confirmed(d, call[d]) /\ Uncertain(call[d]))
        BY SureOrNot DEF IInv
    <2>5. CASE recorded'[d] = recorded[d] /\ Pending(d)' = Pending(d)
        BY <2>1, <2>2, <2>3, <2>5 DEF BooksOf
    <2>6. CASE /\ \E x : Pending(d) = {x}
               /\ recorded'[d] \in {recorded[d], recorded[d] + 1} /\ Pending(d)' = {}
        <3>1. recorded[d] = 0 /\ Uncertain(call[d])
            BY <2>1, <2>6 DEF BooksOf
        <3> QED  BY <2>2, <2>3, <2>4, <2>6, <3>1 DEF BooksOf
    <2> QED  BY <2>5, <2>6
<1> QED  BY <1>1, <1>2 DEF IInv, Books

\* That DRES serves a request nobody waits for keeps the invariant.
LEMMA ServeLateStep ==
    ASSUME IInv, job' = job, NEW r \in late, ServeLate(r)
    PROVE  IInv'
<1>1. /\ late' = late \ {r} /\ UNCHANGED <<sessions, lock, call, valid, issued>>
      /\ r \in Late /\ r.call \in Calls /\ r.kind \in Effective
    BY DEF ServeLate, IInv, DresTypes, Late
<1>2. PICK status \in Statuses : Perform(r.kind, r.call, status)
    BY DEF ServeLate
<1>3. r.kind \in Requests
    BY <1>1 DEF Effective, Requests
<1>4. DresTypes'
    <2>1. late' \subseteq Late
        BY <1>1 DEF IInv, DresTypes
    <2>2. /\ recorded' \in [Calls -> Nat] /\ current' \in Tasks
          /\ taskStatus' \in TaskStatuses /\ started' \subseteq Tasks
        BY <1>1, <1>2, <1>3, PerformFacts DEF IInv
    <2> QED  BY <1>1, <2>1, <2>2 DEF IInv, DresTypes
<1>5. ASSUME NEW d \in Calls
      PROVE  \/ recorded'[d] = recorded[d] /\ Pending(d)' = Pending(d)
             \/ /\ \E x : Pending(d) = {x}
                /\ recorded'[d] \in {recorded[d], recorded[d] + 1} /\ Pending(d)' = {}
    <2>1. CASE d = r.call /\ r.kind \in {"submit", "log"}
        <3>1. r \in Pending(d)
            BY <2>1 DEF Pending
        <3>2. \E x : Pending(d) = {x}
            BY <3>1 DEF IInv, Books, BooksOf
        <3>3. Pending(d) = {r}
            BY <3>1, <3>2
        <3>4. Pending(d)' = Pending(d) \ {r}
            BY <1>1 DEF Pending
        <3>5. recorded'[d] \in {recorded[d], recorded[d] + 1}
            BY <1>1, <1>2, <1>3, <2>1, PerformFacts DEF IInv
        <3> QED  BY <3>2, <3>3, <3>4, <3>5
    <2>2. CASE ~(d = r.call /\ r.kind \in {"submit", "log"})
        <3>1. Pending(d)' = Pending(d)
            BY <1>1, <2>2 DEF Pending
        <3>2. recorded'[d] = recorded[d]
            BY <1>1, <1>2, <1>3, <2>2, PerformFacts DEF IInv
        <3> QED  BY <3>1, <3>2
    <2> QED  BY <2>1, <2>2
<1> QED  BY <1>1, <1>4, <1>5, DresStep

\* That DRES forgets a session keeps the invariant.
LEMMA ExpireStep ==
    ASSUME IInv, job' = job, NEW t \in valid, Expire(t)
    PROVE  IInv'
<1>1. /\ valid' = valid \ {t}
      /\ UNCHANGED <<sessions, lock, call, issued, current, taskStatus, started, late, recorded>>
    BY DEF Expire, taskVars
<1>2. DresTypes'
    BY <1>1 DEF IInv, DresTypes
<1>3. \A d \in Calls : recorded'[d] = recorded[d] /\ Pending(d)' = Pending(d)
    BY <1>1 DEF Pending
<1> QED  BY <1>1, <1>2, <1>3, DresStep

\* A task that the organisers run keeps the invariant.
LEMMA RunTaskStep ==
    ASSUME IInv, job' = job, RunTask
    PROVE  IInv'
<1>1. /\ UNCHANGED <<sessions, lock, call, valid, issued, late, recorded>>
      /\ current' \in Tasks /\ taskStatus' \in TaskStatuses /\ started' \subseteq Tasks
    BY DEF RunTask, IInv, DresTypes, TaskStatuses
<1>2. DresTypes'
    BY <1>1 DEF IInv, DresTypes
<1>3. \A d \in Calls : recorded'[d] = recorded[d] /\ Pending(d)' = Pending(d)
    BY <1>1 DEF Pending
<1> QED  BY <1>1, <1>2, <1>3, DresStep

-----------------------------------------------------------------------------
(* How a call goes on: its next local state is typed, possible, and knows  *)
(* of the answer what the one before it knew.                              *)

Follows(c, r) ==
    /\ call' = [call EXCEPT ![c] = r]
    /\ r \in CallState /\ LocalOf(c, r)
    /\ Confirmed(c, r) <=> Confirmed(c, call[c])
    /\ Uncertain(call[c]) => Uncertain(r)

\* A call that finishes was told what its outcome says.
LEMMA FinishFacts ==
    ASSUME NEW c \in Calls, NEW outcome \in Outcomes, Finish(c, outcome)
    PROVE  \E r \in CallState :
              /\ call' = [call EXCEPT ![c] = r] /\ LocalOf(c, r) /\ r.step = "done"
              /\ Confirmed(c, r) <=> outcome = "RECORDED" \/ (job[c].op = "log" /\ outcome = "OK")
              /\ Uncertain(r) <=> outcome \in {"UNKNOWN", "FAILED"}
<1>1. PICK r : r = [Fresh EXCEPT !.step = "done", !.outcome = outcome]
    OBVIOUS
<1>2. call' = [call EXCEPT ![c] = r]
    BY <1>1 DEF Finish
<1>3. /\ r \in CallState /\ r.step = "done" /\ r.outcome = outcome
      /\ r.request = None /\ r.reply = None
    BY <1>1, FreshType DEF CallState, Steps
<1>4. LocalOf(c, r)
    BY <1>3, DresNoneAssumption
    DEF LocalOf, Operating, Refreshing, Activating, LoggingIn, Requests
<1> QED  BY <1>2, <1>3, <1>4 DEF Confirmed, Uncertain

\* A call that asks waits for the answer to its request alone.
LEMMA AskFacts ==
    ASSUME DresTypes, NEW c \in Calls, NEW step \in Steps, NEW request \in Requests,
           NEW token \in Tokens \cup {None}, Ask(c, step, request, token)
    PROVE  \E r \in CallState :
              /\ call' = [call EXCEPT ![c] = r] /\ r.step = step /\ r.request = request
              /\ r.token = token /\ r.reply = None
              /\ r.phase = call[c].phase /\ r.outcome = call[c].outcome
<1>1. PICK r : r = [call[c] EXCEPT !.step = step, !.request = request, !.token = token,
                                   !.reply = None]
    OBVIOUS
<1>2. call[c] \in CallState
    BY DEF DresTypes
<1>3. call' = [call EXCEPT ![c] = r]
    BY <1>1 DEF Ask
<1>4. /\ r \in CallState /\ r.step = step /\ r.request = request /\ r.token = token
      /\ r.reply = None /\ r.phase = call[c].phase /\ r.outcome = call[c].outcome
    BY <1>1, <1>2 DEF CallState
<1> QED  BY <1>3, <1>4

\* A call that waits for a lock has no request on its way.
LEMMA WaitFacts ==
    ASSUME DresTypes, NEW c \in Calls, NEW step \in Steps, Wait(c, step)
    PROVE  \E r \in CallState :
              /\ call' = [call EXCEPT ![c] = r] /\ r.step = step /\ r.request = None
              /\ r.reply = None /\ r.token = call[c].token
              /\ r.phase = call[c].phase /\ r.outcome = call[c].outcome
<1>1. PICK r : r = [call[c] EXCEPT !.step = step, !.request = None, !.reply = None]
    OBVIOUS
<1>2. call[c] \in CallState
    BY DEF DresTypes
<1>3. call' = [call EXCEPT ![c] = r]
    BY <1>1 DEF Wait
<1>4. /\ r \in CallState /\ r.step = step /\ r.request = None /\ r.token = call[c].token
      /\ r.reply = None /\ r.phase = call[c].phase /\ r.outcome = call[c].outcome
    BY <1>1, <1>2 DEF CallState
<1> QED  BY <1>3, <1>4

\* A call that operates sends its request with the session its user has.
LEMMA OperateFacts ==
    ASSUME DresTypes, NEW c \in Calls, NEW phase \in Phases, Operate(c, phase)
    PROVE  \E r \in CallState :
              /\ call' = [call EXCEPT ![c] = r] /\ r.step = "operation" /\ r.phase = phase
              /\ r.request = RequestOf(c, phase) /\ r.token = sessions[User(c)]
              /\ r.reply = None /\ r.outcome = call[c].outcome
<1>1. PICK r : r = [call[c] EXCEPT !.phase = phase, !.step = "operation",
                                   !.request = RequestOf(c, phase),
                                   !.token = sessions[User(c)], !.reply = None]
    OBVIOUS
<1>2. call[c] \in CallState /\ sessions[User(c)] \in Tokens \cup {None}
    BY JobFacts DEF DresTypes
<1>3. RequestOf(c, phase) \in Requests
    BY DEF RequestOf, Requests
<1>4. call' = [call EXCEPT ![c] = r]
    BY <1>1 DEF Operate
<1>5. /\ r \in CallState /\ r.step = "operation" /\ r.phase = phase
      /\ r.request = RequestOf(c, phase) /\ r.token = sessions[User(c)]
      /\ r.reply = None /\ r.outcome = call[c].outcome
    BY <1>1, <1>2, <1>3 DEF CallState, Steps, Operating
<1> QED  BY <1>4, <1>5

\* A call that was not answered knows nothing of its answer, nor does one that is not
\* operating.
LEMMA Unanswered ==
    ASSUME NEW c, NEW r, r.reply = None, r.outcome = None
    PROVE  ~Confirmed(c, r) /\ ~Uncertain(r)
BY DresNoneAssumption DEF Confirmed, Uncertain, Outcomes

\* A call that is still to operate knows of no outcome.
LEMMA Unsettled ==
    ASSUME Local, NEW c \in Calls, call[c].step \notin Operating \cup {"done"}
    PROVE  ~Confirmed(c, call[c]) /\ ~Uncertain(call[c]) /\ call[c].outcome = None
<1>1. LocalOf(c, call[c])
    BY DEF Local
<1> QED  BY <1>1, DresNoneAssumption DEF LocalOf, Confirmed, Uncertain, Outcomes

\* Ending a call with an outcome that says what the call knew.
LEMMA FinishFollows ==
    ASSUME NEW c \in Calls, NEW outcome \in Outcomes, Finish(c, outcome),
           Confirmed(c, call[c]) <=> outcome = "RECORDED" \/ (job[c].op = "log" /\ outcome = "OK"),
           Uncertain(call[c]) => outcome \in {"UNKNOWN", "FAILED"}
    PROVE  \E r : Follows(c, r) /\ r.step = "done"
BY FinishFacts DEF Follows

\* An answer that is to be sent is on its way, or the call is done.
LEMMA SubmitFollows ==
    ASSUME DresTypes, NEW c \in Calls, NEW phase \in {"answer", "retry"}, Submit(c, phase),
           job[c].op = "submit", call[c].outcome = None,
           ~Confirmed(c, call[c]), ~Uncertain(call[c])
    PROVE  \E r : Follows(c, r) /\ r.step \in {"operation", "done"}
<1>1. CASE sessions[User(c)] = None
    <2>1. Finish(c, "NOT_RECORDED") /\ "NOT_RECORDED" \in Outcomes
        BY <1>1 DEF Submit, Outcomes
    <2> QED  BY <2>1, FinishFollows
<1>2. CASE sessions[User(c)] # None
    <2>1. Operate(c, phase) /\ phase \in Phases
        BY <1>2 DEF Submit, Phases
    <2>2. PICK r \in CallState :
              /\ call' = [call EXCEPT ![c] = r] /\ r.step = "operation" /\ r.phase = phase
              /\ r.request = RequestOf(c, phase) /\ r.token = sessions[User(c)]
              /\ r.reply = None /\ r.outcome = call[c].outcome
        BY <2>1, OperateFacts
    <2>3. phase \in PhasesOf(job[c].op)
        BY DEF PhasesOf
    <2>4. LocalOf(c, r)
        BY <1>2, <2>2, <2>3 DEF LocalOf, Operating, Refreshing, Activating, LoggingIn
    <2> QED  BY <2>2, <2>4, Unanswered DEF Follows
<1> QED  BY <1>1, <1>2

\* A phase ends with what its operation answered, or with the failure of its session.
LEMMA ConcludeFollows ==
    ASSUME DresTypes, Local, NEW c \in Calls, NEW status \in Statuses, NEW value,
           Conclude(c, status, value),
           \/ /\ call[c].step \in Operating
              /\ call[c].reply # None /\ call[c].reply.status = status
           \/ call[c].step \in Refreshing /\ status \in {"unauthorized", "unavailable"}
    PROVE  \E r : Follows(c, r) /\ r.step \notin LoggingIn
<1> DEFINE phase == call[c].phase
           recording == phase \in {"log", "answer", "retry"}
<1>1. /\ LocalOf(c, call[c])
      /\ job[c].op \in {"read", "log", "submit"} /\ phase \in PhasesOf(job[c].op)
      /\ call[c].step \notin {"done"} /\ call[c].outcome = None
    BY DEF Local, LocalOf, Operating, Refreshing
<1>2. /\ phase = "log" <=> job[c].op = "log"
      /\ phase = "read" <=> job[c].op = "read"
      /\ phase \in {"scope", "answer", "retry"} <=> job[c].op = "submit"
    BY <1>1 DEF PhasesOf
<1>3. call[c].step \in Operating => (call[c].request \in {"submit", "log"} <=> recording)
    BY <1>1, <1>2 DEF LocalOf, RequestOf
<1>4. call[c].step \in Refreshing => call[c].request \notin {"submit", "log"}
    BY <1>1 DEF LocalOf, Operating, Refreshing
<1>5. /\ Confirmed(c, call[c]) <=> recording /\ status = "ok"
      /\ Uncertain(call[c]) => recording /\ status = "unavailable"
    BY <1>1, <1>3, <1>4, DresNoneAssumption DEF Confirmed, Uncertain, Outcomes
<1>6. ASSUME NEW outcome \in Outcomes, Finish(c, outcome),
             outcome = "RECORDED" \/ (job[c].op = "log" /\ outcome = "OK")
                 <=> recording /\ status = "ok",
             recording /\ status = "unavailable" => outcome \in {"UNKNOWN", "FAILED"}
      PROVE  \E r : Follows(c, r) /\ r.step \notin LoggingIn
    BY <1>5, <1>6, FinishFollows DEF LoggingIn
<1>7. CASE /\ phase \in {"read", "log"}
           /\ Finish(c, IF status = "ok" THEN "OK" ELSE "FAILED")
    BY <1>2, <1>6, <1>7 DEF Outcomes
<1>8. CASE phase = "scope" /\ status # "ok" /\ Finish(c, "FAILED")
    BY <1>2, <1>6, <1>8 DEF Outcomes
<1>9. CASE /\ phase = "scope" /\ status = "ok"
           /\ IF value \in {None, job[c].task} THEN Submit(c, "answer") ELSE Finish(c, "CONFLICT")
    <2>1. ~Confirmed(c, call[c]) /\ ~Uncertain(call[c]) /\ job[c].op = "submit"
        BY <1>2, <1>5, <1>9
    <2>2. CASE Submit(c, "answer")
        BY <1>1, <2>1, <2>2, SubmitFollows DEF LoggingIn
    <2>3. CASE Finish(c, "CONFLICT")
        BY <1>6, <1>9, <2>1, <2>3 DEF Outcomes
    <2> QED  BY <1>9, <2>2, <2>3
<1>10. CASE phase \in {"answer", "retry"} /\ status = "ok" /\ Finish(c, "RECORDED")
    BY <1>2, <1>6, <1>10 DEF Outcomes
<1>11. CASE phase \in {"answer", "retry"} /\ status = "unavailable" /\ Finish(c, "UNKNOWN")
    BY <1>2, <1>6, <1>11 DEF Outcomes
<1>12. CASE /\ phase \in {"answer", "retry"} /\ status \in {"unauthorized", "refused"}
            /\ Finish(c, "NOT_RECORDED")
    BY <1>2, <1>6, <1>12 DEF Outcomes
<1>13. CASE phase = "answer" /\ status = "not_running" /\ Wait(c, "admin_lock")
    <2>1. ~Confirmed(c, call[c]) /\ ~Uncertain(call[c]) /\ job[c].op = "submit"
        BY <1>2, <1>5, <1>13
    <2>2. PICK r \in CallState :
              /\ call' = [call EXCEPT ![c] = r] /\ r.step = "admin_lock" /\ r.request = None
              /\ r.reply = None /\ r.outcome = call[c].outcome
        BY <1>13, WaitFacts DEF Steps, Activating
    <2>3. LocalOf(c, r)
        BY <1>1, <2>1, <2>2, DresNoneAssumption
        DEF LocalOf, Operating, Refreshing, Activating, LoggingIn, Requests
    <2> QED  BY <1>1, <2>1, <2>2, <2>3, Unanswered DEF Follows, LoggingIn
<1>14. CASE phase = "retry" /\ status = "not_running" /\ Finish(c, "NOT_RECORDED")
    BY <1>2, <1>6, <1>14 DEF Outcomes
<1> QED
    BY <1>7, <1>8, <1>9, <1>10, <1>11, <1>12, <1>13, <1>14 DEF Conclude

\* An activation ends its call, or lets it submit again.
LEMMA ActivatedFollows ==
    ASSUME DresTypes, Local, NEW c \in Calls, NEW success \in BOOLEAN, Activated(c, success),
           call[c].step \in Activating
    PROVE  \E r : Follows(c, r) /\ r.step \notin LoggingIn
<1>1. /\ ~Confirmed(c, call[c]) /\ ~Uncertain(call[c]) /\ call[c].outcome = None
      /\ job[c].op \in {"submit", "activate"}
    <2>1. call[c].step \notin Operating \cup {"done"}
        BY DEF Activating, Operating
    <2> QED  BY <2>1, Unsettled DEF Local, LocalOf
<1>2. CASE job[c].op = "activate"
    <2>1. Finish(c, IF success THEN "OK" ELSE "FAILED")
        BY <1>2 DEF Activated
    <2> QED  BY <1>1, <1>2, <2>1, FinishFollows DEF Outcomes, LoggingIn
<1>3. CASE job[c].op = "submit" /\ success
    <2>1. Submit(c, "retry")
        BY <1>3 DEF Activated
    <2> QED  BY <1>1, <1>3, <2>1, SubmitFollows DEF LoggingIn
<1>4. CASE job[c].op = "submit" /\ ~success
    <2>1. Finish(c, "NOT_RECORDED")
        BY <1>4 DEF Activated
    <2> QED  BY <1>1, <1>4, <2>1, FinishFollows DEF Outcomes, LoggingIn
<1> QED  BY <1>1, <1>2, <1>3, <1>4

-----------------------------------------------------------------------------
(* The actions of a call.                                                  *)

\* A call moves, and the cached token and the lock of one key with it.
LEMMA Moves ==
    ASSUME IInv, NEW c \in Calls, NEW r, Follows(c, r), UNCHANGED <<job, dresVars>>,
           NEW k \in Keys, NEW token \in Tokens \cup {None}, NEW holder \in Calls \cup {None},
           sessions' = [sessions EXCEPT ![k] = token], lock' = [lock EXCEPT ![k] = holder],
           \/ lock[k] \in {None, c}
           \/ holder = lock[k] /\ (token = sessions[k] \/ k = Admin),
           r.step \in LoggingIn => k = KeyOf(c, r.step) /\ holder = c,
           r.step = "refresh_login" => token = r.token
    PROVE  IInv'
<1>1. /\ sessions' \in [Keys -> Tokens \cup {None}] /\ lock' \in [Keys -> Calls \cup {None}]
      /\ sessions'[k] = token /\ lock'[k] = holder
      /\ \A j \in Keys \ {k} : lock'[j] = lock[j] /\ sessions'[j] = sessions[j]
    BY DEF IInv, DresTypes
<1>2. r \in CallState /\ call' = [call EXCEPT ![c] = r]
    BY DEF Follows
<1>3. Locks'
    BY <1>1, <1>2, LocksStep DEF IInv
<1> QED  BY <1>1, <1>2, <1>3, ClientStep DEF Follows

\* A call moves on its own.
LEMMA MovesAlone ==
    ASSUME IInv, NEW c \in Calls, NEW r, Follows(c, r), UNCHANGED <<job, dresVars>>,
           UNCHANGED <<sessions, lock>>, r.step \notin LoggingIn
    PROVE  IInv'
<1>1. r \in CallState /\ call' = [call EXCEPT ![c] = r]
    BY DEF Follows
<1>2. User(c) \in Keys
    BY JobFacts DEF IInv
<1>3. Locks'
    BY <1>1, <1>2, LocksStep DEF IInv, LoggingIn
<1> QED  BY <1>1, <1>3, ClientStep DEF Follows, IInv, DresTypes

\* What a call that received an answer is.
LEMMA ReceivedFacts ==
    ASSUME DresTypes, Local, NEW c \in Calls, NEW step, Received(c, step)
    PROVE  /\ call[c] \in CallState /\ LocalOf(c, call[c])
           /\ call[c].step = step /\ call[c].reply # None
           /\ call[c].reply.status \in Statuses
           /\ call[c].token \in Tokens \cup {None}
           /\ step \in LoggingIn /\ call[c].reply.status = "ok" => call[c].reply.value \in Tokens
<1>1. call[c] \in CallState /\ LocalOf(c, call[c]) /\ call[c].step = step /\ call[c].reply # None
    BY DEF DresTypes, Local, Received, At
<1>2. call[c].reply.status \in Statuses
    BY <1>1 DEF CallState, Replies
<1> QED  BY <1>1, <1>2 DEF CallState, LocalOf

\* A call that asks for its next request outside the phases of a participant.
LEMMA AskFollows ==
    ASSUME DresTypes, Local, NEW c \in Calls, NEW step \in Steps, NEW request \in Requests,
           NEW token \in Tokens \cup {None}, Ask(c, step, request, token),
           call[c].step \notin Operating \cup {"done"},
           step \notin Operating \cup Refreshing \cup {"ready", "done"},
           request \notin {"submit", "log"},
           step \in LoggingIn => request = "login",
           step = "connect_login" => job[c].op = "connect",
           step \in Activating => job[c].op \in {"submit", "activate"}
    PROVE  \E r : Follows(c, r) /\ r.step = step
<1>1. PICK r \in CallState :
          /\ call' = [call EXCEPT ![c] = r] /\ r.step = step /\ r.request = request
          /\ r.reply = None /\ r.outcome = call[c].outcome
    BY AskFacts
<1>2. ~Confirmed(c, call[c]) /\ ~Uncertain(call[c]) /\ call[c].outcome = None
    BY Unsettled
<1>3. LocalOf(c, r)
    BY <1>1, <1>2 DEF LocalOf
<1> QED  BY <1>1, <1>2, <1>3, Unanswered DEF Follows

\* connect() keeps the invariant.
LEMMA ConnectStep ==
    ASSUME IInv, job' = job, NEW c \in Calls, Connect(c)
    PROVE  IInv'
<1>1. /\ call[c].step = "ready" /\ job[c].op = "connect" /\ lock[User(c)] = None
      /\ UNCHANGED <<sessions, dresVars>>
    BY DEF Connect, At, Free
<1>2. call[c].step \notin Operating \cup {"done"} /\ User(c) \in Keys
    BY <1>1, JobFacts DEF Operating, IInv
<1>3. ~Confirmed(c, call[c]) /\ ~Uncertain(call[c])
    BY <1>2, Unsettled DEF IInv
<1>4. CASE Finish(c, "OK") /\ UNCHANGED lock
    <2>1. PICK r : Follows(c, r) /\ r.step = "done"
        BY <1>1, <1>3, <1>4, FinishFollows DEF Outcomes
    <2> QED  BY <1>1, <1>4, <2>1, MovesAlone DEF LoggingIn
<1>5. CASE Ask(c, "connect_login", "login", None) /\ Acquire(c, User(c))
    <2>1. PICK r : Follows(c, r) /\ r.step = "connect_login"
        BY <1>1, <1>2, <1>5, AskFollows
        DEF IInv, Steps, Requests, Operating, Refreshing, Activating
    <2>2. lock' = [lock EXCEPT ![User(c)] = c]
        BY <1>5 DEF Acquire
    <2>3. sessions' = [sessions EXCEPT ![User(c)] = sessions[User(c)]]
          /\ sessions[User(c)] \in Tokens \cup {None}
        BY <1>1, <1>2 DEF IInv, DresTypes
    <2> QED  BY <1>1, <1>2, <2>1, <2>2, <2>3, Moves DEF KeyOf
<1> QED  BY <1>4, <1>5 DEF Connect

\* The login of connect() keeps the invariant.
LEMMA ConnectLoginStep ==
    ASSUME IInv, job' = job, NEW c \in Calls, ConnectLogin(c)
    PROVE  IInv'
<1>1. Received(c, "connect_login") /\ Release(User(c)) /\ UNCHANGED dresVars
    BY DEF ConnectLogin
<1>2. /\ call[c].step \notin Operating \cup {"done"} /\ User(c) \in Keys
      /\ lock' = [lock EXCEPT ![User(c)] = None]
      /\ lock[User(c)] = c /\ job[c].op = "connect"
    BY <1>1, JobFacts DEF Operating, IInv, Received, At, Release, Locks, Local, LocalOf
<1>3. ~Confirmed(c, call[c]) /\ ~Uncertain(call[c])
    BY <1>2, Unsettled DEF IInv
<1>4. PICK token \in Tokens \cup {None} : sessions' = [sessions EXCEPT ![User(c)] = token]
    <2>1. CASE Succeeded(c)
        <3>1. Reply(c).value \in Tokens
            BY <1>1, <2>1, ReceivedFacts DEF Reply, Succeeded, LoggingIn, IInv
        <3> QED  BY <2>1, <3>1 DEF ConnectLogin, Cache
    <2>2. CASE ~Succeeded(c)
        <3>1. sessions' = sessions
            BY <2>2 DEF ConnectLogin
        <3> QED  BY <1>2, <3>1 DEF IInv, DresTypes
    <2> QED  BY <2>1, <2>2
<1>5. PICK r : Follows(c, r) /\ r.step = "done"
    <2>1. Finish(c, "OK") \/ Finish(c, "FAILED")
        BY DEF ConnectLogin
    <2> QED  BY <1>2, <1>3, <2>1, FinishFollows DEF Outcomes
<1> QED  BY <1>1, <1>2, <1>4, <1>5, Moves DEF LoggingIn

\* disconnect() keeps the invariant.
LEMMA DisconnectStep ==
    ASSUME IInv, job' = job, NEW c \in Calls, Disconnect(c)
    PROVE  IInv'
<1>1. /\ call[c].step = "ready" /\ lock[User(c)] = None /\ Finish(c, "OK")
      /\ job[c].op = "disconnect"
      /\ sessions' = [sessions EXCEPT ![User(c)] = None] /\ UNCHANGED <<lock, dresVars>>
    BY DEF Disconnect, At, Free, Cache
<1>2. call[c].step \notin Operating \cup {"done"} /\ User(c) \in Keys
    BY <1>1, JobFacts DEF Operating, IInv
<1>3. ~Confirmed(c, call[c]) /\ ~Uncertain(call[c])
    BY <1>2, Unsettled DEF IInv
<1>4. PICK r : Follows(c, r) /\ r.step = "done"
    BY <1>1, <1>3, FinishFollows DEF Outcomes
<1>5. /\ None \in Tokens \cup {None} /\ None \in Calls \cup {None}
      /\ lock' = [lock EXCEPT ![User(c)] = None]
    BY <1>1, <1>2 DEF IInv, DresTypes
<1>6. r.step \notin LoggingIn /\ r.step # "refresh_login" /\ lock[User(c)] \in {None, c}
    BY <1>1, <1>4 DEF LoggingIn
<1> QED  BY <1>1, <1>2, <1>4, <1>5, <1>6, Moves

\* The start of an operation keeps the invariant.
LEMMA BeginStep ==
    ASSUME IInv, job' = job, NEW c \in Calls, Begin(c)
    PROVE  IInv'
<1>1. /\ call[c].step = "ready" /\ job[c].op \in {"read", "log", "submit"}
      /\ UNCHANGED <<sessions, lock, dresVars>>
    BY DEF Begin, At
<1>2. ~Confirmed(c, call[c]) /\ ~Uncertain(call[c]) /\ call[c].outcome = None
    BY <1>1, Unsettled DEF IInv, Operating
<1>3. CASE sessions[User(c)] = None
    <2>1. Finish(c, "NOT_CONNECTED")
        BY <1>3 DEF Begin
    <2>2. PICK r : Follows(c, r) /\ r.step = "done"
        BY <1>2, <2>1, FinishFollows DEF Outcomes
    <2> QED  BY <1>1, <2>2, MovesAlone DEF LoggingIn
<1>4. CASE sessions[User(c)] # None
    <2>1. PICK phase : phase = IF job[c].op = "submit" THEN "scope" ELSE job[c].op
        OBVIOUS
    <2>2. Operate(c, phase) /\ phase \in Phases /\ phase \in PhasesOf(job[c].op)
        BY <1>1, <1>4, <2>1 DEF Begin, Phases, PhasesOf
    <2>3. PICK r \in CallState :
              /\ call' = [call EXCEPT ![c] = r] /\ r.step = "operation" /\ r.phase = phase
              /\ r.request = RequestOf(c, phase) /\ r.token = sessions[User(c)]
              /\ r.reply = None /\ r.outcome = call[c].outcome
        BY <2>2, OperateFacts DEF IInv
    <2>4. LocalOf(c, r)
        BY <1>1, <1>2, <1>4, <2>2, <2>3
        DEF LocalOf, Operating, Refreshing, Activating, LoggingIn
    <2>5. Follows(c, r)
        BY <1>2, <2>3, <2>4, Unanswered DEF Follows
    <2> QED  BY <1>1, <2>3, <2>5, MovesAlone DEF LoggingIn
<1> QED  BY <1>3, <1>4

\* The end of an operation keeps the invariant.
LEMMA OperationStep ==
    ASSUME IInv, job' = job, NEW c \in Calls, Operation(c)
    PROVE  IInv'
<1>1. Received(c, "operation") /\ UNCHANGED <<sessions, lock, dresVars>>
    BY DEF Operation
<1>2. /\ call[c] \in CallState /\ LocalOf(c, call[c]) /\ call[c].step = "operation"
      /\ call[c].reply # None /\ call[c].reply.status \in Statuses
    BY <1>1, ReceivedFacts DEF IInv
<1>3. CASE Reply(c).status = "unauthorized"
    <2>1. PICK r \in CallState :
              /\ call' = [call EXCEPT ![c] = r] /\ r.step = "refresh_lock" /\ r.request = None
              /\ r.reply = None /\ r.token = call[c].token
              /\ r.phase = call[c].phase /\ r.outcome = call[c].outcome
        BY <1>3, WaitFacts DEF Operation, IInv, Steps, Refreshing
    <2>2. LocalOf(c, r)
        BY <1>2, <2>1, DresNoneAssumption
        DEF LocalOf, Operating, Refreshing, Activating, LoggingIn, Requests
    <2>3. call[c].outcome = None
        BY <1>2 DEF LocalOf
    <2>4. ~Confirmed(c, call[c]) /\ ~Uncertain(call[c])
        BY <1>3, <2>3, DresNoneAssumption DEF Confirmed, Uncertain, Reply, Outcomes
    <2>5. Follows(c, r)
        BY <2>1, <2>2, <2>3, <2>4, Unanswered DEF Follows
    <2> QED  BY <1>1, <2>1, <2>5, MovesAlone DEF LoggingIn
<1>4. CASE Reply(c).status # "unauthorized"
    <2>1. Conclude(c, Reply(c).status, Reply(c).value)
        BY <1>4 DEF Operation
    <2>2. PICK r : Follows(c, r) /\ r.step \notin LoggingIn
        BY <1>2, <2>1, ConcludeFollows DEF IInv, Operating, Reply
    <2> QED  BY <1>1, <2>2, MovesAlone
<1> QED  BY <1>3, <1>4

\* The end of a repeated operation keeps the invariant.
LEMMA AgainStep ==
    ASSUME IInv, job' = job, NEW c \in Calls, Again(c)
    PROVE  IInv'
<1>1. Received(c, "again") /\ UNCHANGED <<sessions, lock, dresVars>>
      /\ Conclude(c, Reply(c).status, Reply(c).value)
    BY DEF Again
<1>2. /\ call[c].step = "again" /\ call[c].reply # None /\ call[c].reply.status \in Statuses
    BY <1>1, ReceivedFacts DEF IInv
<1>3. PICK r : Follows(c, r) /\ r.step \notin LoggingIn
    BY <1>1, <1>2, ConcludeFollows DEF IInv, Operating, Reply
<1> QED  BY <1>1, <1>3, MovesAlone

\* A call whose token was rejected logs in again, or operates with another token.
LEMMA RefreshAskFollows ==
    ASSUME DresTypes, Local, NEW c \in Calls, call[c].step \in Refreshing,
           NEW step \in {"refresh_login", "again"}, NEW token \in Tokens,
           Ask(c, step, IF step = "again" THEN RequestOf(c, call[c].phase) ELSE "login", token)
    PROVE  \E r : Follows(c, r) /\ r.step = step /\ r.token = token
<1>1. PICK request : request = IF step = "again" THEN RequestOf(c, call[c].phase) ELSE "login"
    OBVIOUS
<1>2. request \in Requests /\ step \in Steps
    BY <1>1 DEF RequestOf, Requests, Steps, Operating, Refreshing
<1>3. PICK r \in CallState :
          /\ call' = [call EXCEPT ![c] = r] /\ r.step = step /\ r.request = request
          /\ r.token = token /\ r.reply = None
          /\ r.phase = call[c].phase /\ r.outcome = call[c].outcome
    BY <1>1, <1>2, AskFacts
<1>4. ~Confirmed(c, call[c]) /\ ~Uncertain(call[c]) /\ call[c].outcome = None
    BY Unsettled DEF Refreshing, Operating
<1>5. LocalOf(c, call[c])
    BY DEF Local
<1>6. LocalOf(c, r)
    BY <1>1, <1>3, <1>4, <1>5, DresNoneAssumption
    DEF LocalOf, Operating, Refreshing, Activating, LoggingIn
<1> QED  BY <1>3, <1>4, <1>6, Unanswered DEF Follows

\* Taking the lock of a refresh keeps the invariant.
LEMMA RefreshLockStep ==
    ASSUME IInv, job' = job, NEW c \in Calls, RefreshLock(c)
    PROVE  IInv'
<1> DEFINE u == User(c)
           latest == sessions[u]
           retry == call[c].phase \notin {"answer", "retry"}
<1>1. /\ call[c].step = "refresh_lock" /\ lock[u] = None /\ UNCHANGED dresVars
      /\ call[c].step \in Refreshing /\ LocalOf(c, call[c])
    BY DEF RefreshLock, At, Free, Refreshing, IInv, Local
<1>2. u \in Keys /\ latest \in Tokens \cup {None} /\ call[c].token \in Tokens
    BY <1>1, JobFacts DEF IInv, DresTypes, CallState, LocalOf
<1>3. /\ lock' = lock => lock' = [lock EXCEPT ![u] = None]
      /\ sessions' = sessions => sessions' = [sessions EXCEPT ![u] = latest]
    BY <1>1, <1>2 DEF IInv, DresTypes
<1>4. CASE /\ latest = call[c].token /\ retry
           /\ Ask(c, "refresh_login", "login", call[c].token) /\ Acquire(c, u)
           /\ UNCHANGED sessions
    <2>1. PICK r : Follows(c, r) /\ r.step = "refresh_login" /\ r.token = call[c].token
        BY <1>1, <1>2, <1>4, RefreshAskFollows DEF IInv
    <2>2. lock' = [lock EXCEPT ![u] = c]
        BY <1>4 DEF Acquire
    <2>3. KeyOf(c, r.step) = u
        BY <2>1 DEF KeyOf
    <2>4. /\ sessions' = [sessions EXCEPT ![u] = r.token] /\ r.token \in Tokens \cup {None}
          /\ c \in Calls \cup {None} /\ lock[u] \in {None, c}
        BY <1>1, <1>2, <1>3, <1>4, <2>1
    <2> HIDE DEF u, latest, retry
    <2> QED  BY <1>1, <1>2, <2>1, <2>2, <2>3, <2>4, Moves
<1>5. CASE /\ Conclude(c, "unauthorized", None)
           /\ \/ Cache(u, None) /\ UNCHANGED lock
              \/ UNCHANGED <<sessions, lock>>
    <2>1. PICK r : Follows(c, r) /\ r.step \notin LoggingIn
        BY <1>1, <1>5, ConcludeFollows DEF IInv, Statuses
    <2>2. PICK token \in Tokens \cup {None} : sessions' = [sessions EXCEPT ![u] = token]
        BY <1>2, <1>3, <1>5 DEF Cache
    <2> QED  BY <1>1, <1>2, <1>3, <1>5, <2>1, <2>2, Moves DEF LoggingIn
<1>6. CASE /\ latest # None
           /\ Ask(c, "again", RequestOf(c, call[c].phase), latest)
           /\ UNCHANGED <<sessions, lock>>
    <2>1. PICK r : Follows(c, r) /\ r.step = "again"
        BY <1>1, <1>2, <1>6, RefreshAskFollows DEF IInv
    <2> QED  BY <1>1, <1>6, <2>1, MovesAlone DEF LoggingIn
<1> QED  BY <1>4, <1>5, <1>6 DEF RefreshLock

\* The login of a refresh keeps the invariant.
LEMMA RefreshLoginStep ==
    ASSUME IInv, job' = job, NEW c \in Calls, RefreshLogin(c)
    PROVE  IInv'
<1> DEFINE u == User(c)
<1>1. /\ Received(c, "refresh_login") /\ lock' = [lock EXCEPT ![u] = None] /\ UNCHANGED dresVars
      /\ call[c].step = "refresh_login" /\ call[c].step \in Refreshing /\ lock[u] = c
    BY DEF RefreshLogin, Release, Received, At, Refreshing, IInv, Locks
<1>2. u \in Keys /\ sessions[u] \in Tokens \cup {None}
    BY JobFacts DEF IInv, DresTypes
<1>3. CASE Succeeded(c)
    <2>1. Reply(c).value \in Tokens
        BY <1>1, <1>3, ReceivedFacts DEF Reply, Succeeded, LoggingIn, IInv
    <2>2. /\ sessions' = [sessions EXCEPT ![u] = Reply(c).value]
          /\ Ask(c, "again", RequestOf(c, call[c].phase), Reply(c).value)
        BY <1>3 DEF RefreshLogin, Cache
    <2>3. PICK r : Follows(c, r) /\ r.step = "again"
        BY <1>1, <2>1, <2>2, RefreshAskFollows DEF IInv
    <2> QED  BY <1>1, <1>2, <2>1, <2>2, <2>3, Moves DEF LoggingIn
<1>4. CASE ~Succeeded(c)
    <2>1. Conclude(c, "unavailable", None) /\ UNCHANGED sessions
        BY <1>4 DEF RefreshLogin
    <2>2. PICK r : Follows(c, r) /\ r.step \notin LoggingIn
        BY <1>1, <2>1, ConcludeFollows DEF IInv, Statuses
    <2>3. sessions' = [sessions EXCEPT ![u] = sessions[u]]
        BY <1>2, <2>1 DEF IInv, DresTypes
    <2> QED  BY <1>1, <1>2, <2>2, <2>3, Moves DEF LoggingIn
<1> QED  BY <1>3, <1>4

\* An activation asks DRES for its next request, holding no lock.
LEMMA ActivationAsks ==
    ASSUME IInv, NEW c \in Calls, call[c].step \in Activating,
           NEW step \in Activating \ {"admin_login"}, NEW request \in Requests \ {"submit", "log"},
           NEW token \in Tokens \cup {None}, Ask(c, step, request, token)
    PROVE  \E r : Follows(c, r) /\ r.step \notin LoggingIn
<1>1. job[c].op \in {"submit", "activate"}
    BY DEF IInv, Local, LocalOf
<1>2. /\ call[c].step \notin Operating \cup {"done"}
      /\ step \notin Operating \cup Refreshing \cup {"ready", "done"}
      /\ step \notin LoggingIn /\ step \in Steps
    BY DEF Activating, Operating, Refreshing, LoggingIn, Steps
<1>3. PICK r : Follows(c, r) /\ r.step = step
    BY <1>1, <1>2, AskFollows DEF IInv, LoggingIn
<1> QED  BY <1>2, <1>3

\* Taking the lock of the administrator keeps the invariant.
LEMMA AdminLockStep ==
    ASSUME IInv, job' = job, NEW c \in Calls, AdminLock(c)
    PROVE  IInv'
<1>1. /\ call[c].step \in {"ready", "admin_lock"} /\ job[c].op \in {"submit", "activate"}
      /\ lock[Admin] = None /\ Admin \in Keys
      /\ UNCHANGED <<sessions, dresVars>>
    BY JobFacts DEF AdminLock, At, Free, IInv, Local, LocalOf, Activating
<1>2. /\ sessions[Admin] \in Tokens \cup {None} /\ call[c].step \notin Operating \cup {"done"}
      /\ sessions' = [sessions EXCEPT ![Admin] = sessions[Admin]]
    BY <1>1 DEF IInv, DresTypes, Operating
<1>3. CASE Ask(c, "admin_list", "list", sessions[Admin]) /\ UNCHANGED lock
    <2>1. PICK r : Follows(c, r) /\ r.step = "admin_list"
        BY <1>1, <1>2, <1>3, AskFollows
        DEF IInv, Steps, Requests, Operating, Refreshing, Activating, LoggingIn
    <2> QED  BY <1>1, <1>3, <2>1, MovesAlone DEF LoggingIn
<1>4. CASE Ask(c, "admin_login", "login", None) /\ Acquire(c, Admin)
    <2>1. PICK r : Follows(c, r) /\ r.step = "admin_login"
        BY <1>1, <1>2, <1>4, AskFollows
        DEF IInv, Steps, Requests, Operating, Refreshing, Activating
    <2>2. lock' = [lock EXCEPT ![Admin] = c]
        BY <1>4 DEF Acquire
    <2> QED  BY <1>1, <1>2, <2>1, <2>2, Moves DEF KeyOf
<1> QED  BY <1>3, <1>4 DEF AdminLock

\* The login of the administrator keeps the invariant.
LEMMA AdminLoginStep ==
    ASSUME IInv, job' = job, NEW c \in Calls, AdminLogin(c)
    PROVE  IInv'
<1>1. /\ Received(c, "admin_login") /\ lock' = [lock EXCEPT ![Admin] = None] /\ UNCHANGED dresVars
      /\ call[c].step = "admin_login" /\ call[c].step \in Activating
      /\ lock[Admin] = c /\ Admin \in Keys
    BY JobFacts DEF AdminLogin, Release, Received, At, Activating, IInv, Locks
<1>2. CASE Succeeded(c)
    <2>1. Reply(c).value \in Tokens
        BY <1>1, <1>2, ReceivedFacts DEF Reply, Succeeded, LoggingIn, IInv
    <2>2. /\ sessions' = [sessions EXCEPT ![Admin] = Reply(c).value]
          /\ Ask(c, "admin_list", "list", Reply(c).value)
        BY <1>2 DEF AdminLogin, Cache
    <2>3. PICK r : Follows(c, r) /\ r.step \notin LoggingIn
        BY <1>1, <2>1, <2>2, ActivationAsks DEF Activating, Requests
    <2> QED  BY <1>1, <2>1, <2>2, <2>3, Moves DEF LoggingIn
<1>3. CASE ~Succeeded(c)
    <2>1. Activated(c, FALSE) /\ UNCHANGED sessions
        BY <1>3 DEF AdminLogin
    <2>2. PICK r : Follows(c, r) /\ r.step \notin LoggingIn
        BY <1>1, <2>1, ActivatedFollows DEF IInv
    <2>3. sessions' = [sessions EXCEPT ![Admin] = sessions[Admin]]
          /\ sessions[Admin] \in Tokens \cup {None}
        BY <1>1, <2>1 DEF IInv, DresTypes
    <2> QED  BY <1>1, <2>2, <2>3, Moves DEF LoggingIn
<1> QED  BY <1>2, <1>3

\* The admin's token is dropped without the lock, whoever holds it.
LEMMA AdminListStep ==
    ASSUME IInv, job' = job, NEW c \in Calls, AdminList(c)
    PROVE  IInv'
<1>1. /\ call[c].step = "admin_list" /\ call[c].step \in Activating
      /\ UNCHANGED <<lock, dresVars>>
      /\ Admin \in Keys /\ lock[Admin] \in Calls \cup {None}
      /\ call[c] \in CallState /\ LocalOf(c, call[c])
    BY JobFacts DEF AdminList, Received, At, Activating, IInv, DresTypes, Local
<1>2. CASE /\ Cache(Admin, None)
           /\ call' = [call EXCEPT ![c] = [@ EXCEPT !.step = "admin_lock", !.relisted = TRUE,
                                                    !.request = None, !.reply = None]]
    <2>1. PICK r : r = [call[c] EXCEPT !.step = "admin_lock", !.relisted = TRUE,
                                       !.request = None, !.reply = None]
        OBVIOUS
    <2>2. /\ r \in CallState /\ r.step = "admin_lock" /\ r.request = None /\ r.reply = None
          /\ r.outcome = call[c].outcome
        BY <1>1, <2>1 DEF CallState, Steps, Activating
    <2>3. ~Confirmed(c, call[c]) /\ ~Uncertain(call[c]) /\ call[c].outcome = None
        BY <1>1, Unsettled DEF IInv, Operating
    <2>4. LocalOf(c, r)
        BY <1>1, <2>2, <2>3, DresNoneAssumption
        DEF LocalOf, Operating, Refreshing, Activating, LoggingIn, Requests
    <2>5. call' = [call EXCEPT ![c] = r]
        BY <1>2, <2>1
    <2>6. Follows(c, r)
        BY <2>2, <2>3, <2>4, <2>5, Unanswered DEF Follows
    <2>7. /\ sessions' = [sessions EXCEPT ![Admin] = None]
          /\ lock' = [lock EXCEPT ![Admin] = lock[Admin]] /\ None \in Tokens \cup {None}
        BY <1>1, <1>2 DEF Cache, IInv, DresTypes
    <2>8. r.step \notin LoggingIn /\ r.step # "refresh_login"
        BY <2>2 DEF LoggingIn
    <2> QED  BY <1>1, <2>6, <2>7, <2>8, Moves
<1>3. CASE Ask(c, "admin_state", "state", call[c].token) /\ UNCHANGED sessions
    <2>1. PICK r : Follows(c, r) /\ r.step \notin LoggingIn
        BY <1>1, <1>3, ActivationAsks DEF Activating, Requests, CallState
    <2> QED  BY <1>1, <1>3, <2>1, MovesAlone
<1>4. CASE Activated(c, FALSE) /\ UNCHANGED sessions
    <2>1. PICK r : Follows(c, r) /\ r.step \notin LoggingIn
        BY <1>1, <1>4, ActivatedFollows DEF IInv
    <2> QED  BY <1>1, <1>4, <2>1, MovesAlone
<1> QED  BY <1>2, <1>3, <1>4 DEF AdminList

\* The rest of the activation asks, ends, or polls once more.
LEMMA ActivationStep ==
    ASSUME IInv, job' = job, NEW c \in Calls, call[c].step \in Activating,
           UNCHANGED <<sessions, lock, dresVars>>,
           \/ \E success \in BOOLEAN : Activated(c, success)
           \/ \E step \in Activating \ {"admin_login"}, request \in Requests \ {"submit", "log"} :
                  AskNext(c, step, request)
    PROVE  IInv'
<1>1. \E r : Follows(c, r) /\ r.step \notin LoggingIn
    <2>1. ASSUME NEW success \in BOOLEAN, Activated(c, success)
          PROVE  \E r : Follows(c, r) /\ r.step \notin LoggingIn
        BY <2>1, ActivatedFollows DEF IInv
    <2>2. ASSUME NEW step \in Activating \ {"admin_login"},
                 NEW request \in Requests \ {"submit", "log"}, AskNext(c, step, request)
          PROVE  \E r : Follows(c, r) /\ r.step \notin LoggingIn
        <3>1. call[c].token \in Tokens \cup {None}
            BY DEF IInv, DresTypes, CallState
        <3> QED  BY <2>2, <3>1, ActivationAsks DEF AskNext
    <2> QED  BY <2>1, <2>2
<1> QED  BY <1>1, MovesAlone

\* A poll of the task that was started keeps the invariant.
LEMMA AdminPollStep ==
    ASSUME IInv, job' = job, NEW c \in Calls, AdminPoll(c)
    PROVE  IInv'
<1>1. /\ call[c].step = "admin_poll" /\ call[c].step \in Activating
      /\ UNCHANGED <<sessions, lock, dresVars>>
      /\ call[c] \in CallState /\ LocalOf(c, call[c])
    BY DEF AdminPoll, Received, At, Activating, IInv, DresTypes, Local
<1>2. CASE Activated(c, FALSE) \/ Activated(c, TRUE)
    BY <1>1, <1>2, ActivationStep
<1>3. CASE /\ call[c].polls + 1 < Polls
           /\ call' = [call EXCEPT ![c].polls = @ + 1, ![c].reply = None]
    <2>1. PICK r : r = [call[c] EXCEPT !.polls = @ + 1, !.reply = None]
        OBVIOUS
    <2>2. call' = [call EXCEPT ![c] = r]
        BY <1>1, <1>3, <2>1 DEF IInv, DresTypes, CallState
    <2>3. /\ r \in CallState /\ r.step = "admin_poll" /\ r.request = call[c].request
          /\ r.reply = None /\ r.outcome = call[c].outcome
        <3>1. call[c].polls + 1 \in 0..(Polls - 1)
            BY <1>1, <1>3, PollsAssumption DEF CallState
        <3> QED  BY <1>1, <2>1, <3>1 DEF CallState
    <2>4. ~Confirmed(c, call[c]) /\ ~Uncertain(call[c]) /\ call[c].outcome = None
        BY <1>1, Unsettled DEF IInv, Operating
    <2>5. LocalOf(c, r)
        BY <1>1, <2>3, <2>4 DEF LocalOf, Operating, Refreshing, LoggingIn
    <2>6. Follows(c, r)
        BY <2>2, <2>3, <2>4, <2>5, Unanswered DEF Follows
    <2> QED  BY <1>1, <2>3, <2>6, MovesAlone DEF LoggingIn
<1> QED  BY <1>2, <1>3 DEF AdminPoll

\* The other steps of an activation keep the invariant.
LEMMA AdminSteps ==
    ASSUME IInv, job' = job, NEW c \in Calls,
           \/ AdminState(c) \/ AdminCurrent(c) \/ AdminAbort(c) \/ AdminSwitch(c) \/ AdminStart(c)
    PROVE  IInv'
<1>1. /\ {"admin_state", "admin_current", "admin_abort", "admin_switch", "admin_start",
          "admin_poll"} \subseteq Activating \ {"admin_login"}
      /\ {"state", "current", "abort", "switch", "start"} \subseteq Requests \ {"submit", "log"}
    BY DEF Activating, Requests
<1>2. CASE AdminState(c)
    BY <1>1, <1>2, ActivationStep DEF AdminState, Received, At
<1>3. CASE AdminCurrent(c)
    BY <1>1, <1>3, ActivationStep DEF AdminCurrent, Received, At
<1>4. CASE AdminAbort(c)
    BY <1>1, <1>4, ActivationStep DEF AdminAbort, Received, At
<1>5. CASE AdminSwitch(c)
    BY <1>1, <1>5, ActivationStep DEF AdminSwitch, Received, At
<1>6. CASE AdminStart(c)
    BY <1>1, <1>6, ActivationStep DEF AdminStart, Received, At
<1> QED  BY <1>2, <1>3, <1>4, <1>5, <1>6

\* Whatever a call does next keeps the invariant.
LEMMA ProceedStep ==
    ASSUME IInv, job' = job, NEW c \in Calls, Proceed(c)
    PROVE  IInv'
BY ConnectStep, ConnectLoginStep, DisconnectStep, BeginStep, OperationStep, RefreshLockStep,
   RefreshLoginStep, AgainStep, AdminLockStep, AdminLoginStep, AdminListStep, AdminPollStep,
   AdminSteps
DEF Proceed

\* The invariant is inductive.
LEMMA StepInv == IInv /\ [Next]_<<job, vars>> => IInv'
<1> SUFFICES ASSUME IInv, [Next]_<<job, vars>> PROVE IInv'
    OBVIOUS
<1>1. CASE Next
    <2>1. job' = job
        BY <1>1 DEF Next
    <2>2. ASSUME NEW c \in Calls, Proceed(c) \/ ServeLogin(c) \/ Serve(c) \/ GiveUp(c)
          PROVE  IInv'
        BY <2>1, <2>2, ProceedStep, ServeLoginStep, ServeStep, GiveUpStep
    <2>3. ASSUME NEW r \in late, ServeLate(r) PROVE IInv'
        BY <2>1, <2>3, ServeLateStep
    <2>4. ASSUME NEW t \in valid, Expire(t) PROVE IInv'
        BY <2>1, <2>4, ExpireStep
    <2>5. ASSUME RunTask PROVE IInv'
        BY <2>1, <2>5, RunTaskStep
    <2> QED  BY <1>1, <2>2, <2>3, <2>4, <2>5 DEF Next
<1>2. CASE UNCHANGED <<job, vars>>
    <2>1. UNCHANGED <<job, sessions, lock, call, valid, issued, current, taskStatus, started,
                      late, recorded>>
        BY <1>2 DEF vars, dresVars, taskVars
    <2>2. DresTypes'
        BY <2>1 DEF IInv, DresTypes
    <2>3. \A d \in Calls : recorded'[d] = recorded[d] /\ Pending(d)' = Pending(d)
        BY <2>1 DEF Pending
    <2> QED  BY <2>1, <2>2, <2>3, DresStep
<1> QED  BY <1>1, <1>2

-----------------------------------------------------------------------------
(* What holds of every behaviour.                                          *)

\* The invariant the other theorems rest on, of vbs/service.py with any number of
\* participants, calls, tasks and DRES sessions.
THEOREM InvHolds == Spec => []IInv
<1>1. IInv /\ [Next]_<<job, vars>> => IInv'
    BY StepInv
<1> QED  BY <1>1, InitInv, PTL DEF Spec

\* What the session cache, the locks and DRES hold has its type: a cached token is one that
\* DRES issued, and the polls of an activation stay below their limit.
THEOREM TypeCorrect == Spec => []DresTypes
<1>1. IInv => DresTypes
    BY DEF IInv
<1> QED  BY <1>1, InvHolds, PTL

\* However calls are retried, refreshed, timed out or served late, an answer and a result log
\* are recorded at most once, and what the participant is told stays true.
THEOREM AnswersAreAccounted == Spec => []AnswersAccounted
<1>1. IInv => AnswersAccounted
    <2> SUFFICES ASSUME IInv, NEW c \in Calls
                 PROVE  /\ recorded[c] <= 1
                        /\ call[c].outcome = "RECORDED" => recorded[c] = 1
                        /\ call[c].outcome \in {"NOT_RECORDED", "CONFLICT", "NOT_CONNECTED"} =>
                              recorded[c] = 0
                        /\ job[c].op = "log" /\ call[c].outcome = "OK" => recorded[c] = 1
        BY DEF AnswersAccounted
    <2>1. BooksOf(c, call[c]) /\ LocalOf(c, call[c])
        BY DEF IInv, Books, Local
    <2>2. ~(Confirmed(c, call[c]) /\ Uncertain(call[c]))
        BY SureOrNot DEF IInv
    <2>3. recorded[c] <= 1
        BY <2>1 DEF BooksOf
    <2>4. Confirmed(c, call[c]) => recorded[c] = 1
        BY <2>1, <2>2 DEF BooksOf
    <2>5. ASSUME call[c].outcome \in {"NOT_RECORDED", "CONFLICT", "NOT_CONNECTED"}
          PROVE  recorded[c] = 0
        <3>1. call[c].step = "done"
            BY <2>1, <2>5, DresNoneAssumption DEF LocalOf, Outcomes
        <3>2. call[c].request = None
            BY <2>1, <3>1 DEF LocalOf
        <3>3. ~Confirmed(c, call[c]) /\ ~Uncertain(call[c])
            BY <2>5, <3>2, DresNoneAssumption DEF Confirmed, Uncertain, Requests
        <3> QED  BY <2>1, <3>3 DEF BooksOf
    <2> QED  BY <2>3, <2>4, <2>5 DEF Confirmed
<1> QED  BY <1>1, InvHolds, PTL

\* The cached token of a participant changes only in these actions.
LEMMA SessionsChange ==
    ASSUME IInv, Next, NEW u \in Users, sessions'[u] # sessions[u]
    PROVE  \E c \in Calls : User(c) = u /\ ( \/ ConnectLogin(c) \/ RefreshLogin(c)
                                            \/ sessions'[u] = None )
<1>1. sessions' # sessions
    OBVIOUS
<1>2. PICK c \in Calls : \/ ConnectLogin(c) \/ Disconnect(c) \/ RefreshLock(c) \/ RefreshLogin(c)
                         \/ AdminLogin(c) \/ AdminList(c)
    BY <1>1
    DEF Next, Proceed, ServeLogin, Serve, GiveUp, ServeLate, Expire, RunTask, Connect, Begin,
        Operation, Again, AdminLock, AdminState, AdminCurrent, AdminAbort, AdminSwitch,
        AdminStart, AdminPoll
<1>3. u \in Keys /\ u # Admin /\ sessions \in [Keys -> Tokens \cup {None}]
    BY KeysAssumption DEF Keys, IInv, DresTypes
<1>4. CASE AdminLogin(c) \/ AdminList(c)
    BY <1>3, <1>4 DEF AdminLogin, AdminList, Cache
<1>5. CASE Disconnect(c) \/ RefreshLock(c)
    <2>1. sessions' = [sessions EXCEPT ![User(c)] = None]
        BY <1>1, <1>5 DEF Disconnect, RefreshLock, Cache
    <2> QED  BY <1>3, <2>1
<1>6. CASE ConnectLogin(c) \/ RefreshLogin(c)
    <2>1. PICK token : sessions' = [sessions EXCEPT ![User(c)] = token]
        BY <1>1, <1>6 DEF ConnectLogin, RefreshLogin, Cache
    <2> QED  BY <1>3, <1>6, <2>1
<1> QED  BY <1>2, <1>4, <1>5, <1>6

\* Only connect() connects: a refresh in flight renews a session that is still there, and no
\* retry brings back a participant who was disconnected.
THEOREM ConnectsOnlyByConnect == Spec => OnlyConnectConnects
<1>1. IInv /\ [Next]_<<job, vars>> =>
          [ \A u \in Users :
                sessions[u] = None /\ sessions'[u] # None =>
                    \E c \in Calls :
                        job[c].op = "connect" /\ User(c) = u /\ At(c, "connect_login") ]_vars
    <2> SUFFICES ASSUME IInv, Next, NEW u \in Users, sessions[u] = None, sessions'[u] # None
                 PROVE  \E c \in Calls : /\ job[c].op = "connect" /\ User(c) = u
                                         /\ At(c, "connect_login")
        BY DEF vars
    <2>1. PICK c \in Calls : User(c) = u /\ (ConnectLogin(c) \/ RefreshLogin(c))
        BY SessionsChange
    <2>2. CASE ConnectLogin(c)
        <3>1. At(c, "connect_login")
            BY <2>2 DEF ConnectLogin, Received
        <3>2. job[c].op = "connect"
            BY <3>1 DEF IInv, Local, LocalOf, At
        <3> QED  BY <2>1, <3>1, <3>2
    <2>3. CASE RefreshLogin(c)
        <3>1. call[c].step = "refresh_login"
            BY <2>3 DEF RefreshLogin, Received, At
        <3>2. sessions[u] = call[c].token /\ call[c].token # None
            BY <2>1, <3>1 DEF IInv, Locks, At, Local, LocalOf, Refreshing
        <3> QED  BY <3>2
    <2> QED  BY <2>1, <2>2, <2>3
<1> QED  BY <1>1, InvHolds, PTL DEF Spec, OnlyConnectConnects
=============================================================================
