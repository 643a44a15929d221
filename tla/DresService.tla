------------------------------ MODULE DresService ------------------------------
(***************************************************************************)
(* Participant sessions and submissions against a DRES server: the calls   *)
(* of vbs/service.py and of the submit route, as asyncio tasks that        *)
(* interleave wherever they await a lock or a response.                    *)
(*                                                                         *)
(* A request is outstanding until DRES serves it or the client times out;  *)
(* a request that timed out may still be served later.  The evaluation is  *)
(* fixed (settings.evaluation_id), admin credentials are configured, and   *)
(* every user has a credential.                                            *)
(***************************************************************************)
EXTENDS Integers, FiniteSets

CONSTANTS
    Calls,          \* the API calls of a run
    Jobs,           \* what the calls of a behaviour may ask for
    Users,          \* participants
    Admin,          \* the key "__admin__" of the session cache
    Tasks,          \* task templates of the evaluation
    Polls,          \* status polls after starting a task
    Tokens,         \* bounds the sessions DRES issues
    None            \* Python's None

Keys == Users \cup {Admin}

ASSUME JobAssumption ==
    Jobs \subseteq [Calls -> [op    : {"connect", "disconnect", "read", "log", "submit",
                                       "activate", "none"},  \* "none": the call is not made
                              user  : Users,
                              task  : Tasks,
                              named : BOOLEAN]]      \* the request names its task
\* What a call asks of DRES, what DRES or the network answers, and how a call ends.
Requests == {"login", "list", "current", "log", "submit", "state", "abort", "switch", "start"}
Statuses == {"ok", "missing", "unauthorized", "unavailable", "refused", "not_running"}
TaskStatuses == {"STOPPED", "PREPARING", "RUNNING"}
Replies == [status : Statuses, value : Tokens \cup Tasks \cup TaskStatuses \cup {None}]
Outcomes == {"OK", "FAILED", "CONFLICT", "NOT_CONNECTED", "NOT_RECORDED", "RECORDED", "UNKNOWN"}

ASSUME DresNoneAssumption ==
    /\ None \notin Calls \cup Tokens \cup Tasks \cup Keys
    /\ None \notin Requests \cup Outcomes \cup Replies
ASSUME KeysAssumption == Admin \notin Users
ASSUME PollsAssumption == Polls \in Nat \ {0}

VARIABLES
    job,            \* what each call asks for, from Jobs and fixed
    sessions,       \* cached token of each key
    lock,           \* call that holds each key's lock
    call,           \* local state of each call
    valid,          \* DRES: tokens it accepts
    issued,         \* DRES: tokens issued so far
    current,        \* DRES: selected task
    taskStatus,     \* DRES: its status
    started,        \* DRES: tasks that have run
    late,           \* DRES: requests whose client gave up waiting
    recorded        \* DRES: how often the answer or log of a call was recorded

taskVars == <<current, taskStatus, started>>
dresVars == <<valid, issued, taskVars, late, recorded>>
vars == <<sessions, lock, call, dresVars>>

Effective == {"log", "submit", "abort", "switch", "start"}

Fresh == [step |-> "ready", phase |-> None, token |-> None, relisted |-> FALSE,
          polls |-> 0, request |-> None, reply |-> None, outcome |-> None]

Init ==
    /\ sessions = [k \in Keys |-> None]
    /\ lock = [k \in Keys |-> None]
    /\ job \in Jobs
    /\ call = [c \in Calls |-> [Fresh EXCEPT !.step = IF job[c].op = "none" THEN "done" ELSE @]]
    /\ valid = {} /\ issued = {}
    /\ current \in Tasks /\ taskStatus = "STOPPED" /\ started = {}
    /\ late = {} /\ recorded = [c \in Calls |-> 0]

User(c) == job[c].user

-----------------------------------------------------------------------------
(* DRES.                                                                   *)

\* What serving a request of call c does, and the status it answers.
Perform(kind, c, status) ==
    LET running == taskStatus = "RUNNING" /\ current = job[c].task
    IN  \/ /\ kind = "submit" /\ running /\ status = "ok"
           /\ recorded' = [recorded EXCEPT ![c] = @ + 1]
           /\ UNCHANGED taskVars
        \/ /\ \/ kind = "submit" /\ status = "refused"
              \/ kind = "submit" /\ ~running /\ status = "not_running"
              \/ kind \in {"list", "current"} /\ status \in {"ok", "missing"}
              \/ kind = "state" /\ status = "ok"
              \/ kind = "abort" /\ taskStatus = "STOPPED" /\ status = "refused"
              \/ kind = "switch" /\ taskStatus # "STOPPED" /\ status = "refused"
              \/ kind = "start" /\ taskStatus # "STOPPED" /\ status = "refused"
           /\ UNCHANGED <<taskVars, recorded>>
        \/ /\ kind = "log" /\ status = "ok"
           /\ recorded' = [recorded EXCEPT ![c] = @ + 1]
           /\ UNCHANGED taskVars
        \/ /\ kind = "abort" /\ taskStatus # "STOPPED" /\ status = "ok"
           /\ taskStatus' = "STOPPED"
           /\ UNCHANGED <<current, started, recorded>>
        \/ /\ kind = "switch" /\ taskStatus = "STOPPED" /\ status = "ok"
           /\ current' = job[c].task
           /\ UNCHANGED <<taskStatus, started, recorded>>
        \/ /\ kind = "start" /\ taskStatus = "STOPPED" /\ status = "ok"
           /\ taskStatus' = "PREPARING"
           /\ UNCHANGED <<current, started, recorded>>

Waiting(c) == call[c].request # None /\ call[c].reply = None

Answered(c, status, value) ==
    call' = [call EXCEPT ![c].reply = [status |-> status, value |-> value]]

\* Every login gets a token of its own.
ServeLogin(c) ==
    LET token == CHOOSE t \in Tokens \ issued : TRUE
    IN  /\ Waiting(c) /\ call[c].request = "login"
        /\ issued # Tokens
        /\ issued' = issued \cup {token}
        /\ valid' = valid \cup {token}
        /\ Answered(c, "ok", token)
        /\ UNCHANGED <<sessions, lock, taskVars, late, recorded>>

Value(kind) == CASE kind = "current" -> current
                 [] kind = "state" -> taskStatus
                 [] OTHER -> None

Serve(c) ==
    /\ Waiting(c) /\ call[c].request # "login"
    /\ IF call[c].token \in valid
       THEN \E status \in Statuses :
                /\ Perform(call[c].request, c, status)
                /\ Answered(c, status, Value(call[c].request))
       ELSE /\ Answered(c, "unauthorized", None)
            /\ UNCHANGED <<taskVars, recorded>>
    /\ UNCHANGED <<sessions, lock, valid, issued, late>>

\* The client times out or loses the connection; DRES may still get the request.
GiveUp(c) ==
    /\ Waiting(c)
    /\ Answered(c, "unavailable", None)
    /\ \/ /\ call[c].request \in Effective
          /\ late' = late \cup {[call |-> c, kind |-> call[c].request, token |-> call[c].token]}
       \/ UNCHANGED late
    /\ UNCHANGED <<sessions, lock, valid, issued, taskVars, recorded>>

ServeLate(r) ==
    /\ late' = late \ {r}
    /\ r.token \in valid /\ \E status \in Statuses : Perform(r.kind, r.call, status)
    /\ UNCHANGED <<sessions, lock, call, valid, issued>>

\* DRES forgets a session; the organisers run tasks of their own.
Expire(t) ==
    /\ valid' = valid \ {t}
    /\ UNCHANGED <<sessions, lock, call, issued, taskVars, late, recorded>>

RunTask ==
    /\ \/ /\ taskStatus = "STOPPED"
          /\ current' \in Tasks /\ taskStatus' = "PREPARING"
          /\ UNCHANGED started
       \/ /\ taskStatus = "PREPARING"
          /\ taskStatus' = "RUNNING" /\ started' = started \cup {current}
          /\ UNCHANGED current
       \/ /\ taskStatus = "RUNNING"
          /\ taskStatus' = "STOPPED"
          /\ UNCHANGED <<current, started>>
    /\ UNCHANGED <<sessions, lock, call, valid, issued, late, recorded>>

-----------------------------------------------------------------------------
(* How a call goes on.                                                     *)

At(c, step) == call[c].step = step
Received(c, step) == At(c, step) /\ call[c].reply # None
Reply(c) == call[c].reply
Succeeded(c) == call[c].reply.status = "ok"

Ask(c, step, request, token) ==
    call' = [call EXCEPT ![c] = [@ EXCEPT !.step = step, !.request = request,
                                          !.token = token, !.reply = None]]

Wait(c, step) ==
    call' = [call EXCEPT ![c] = [@ EXCEPT !.step = step, !.request = None, !.reply = None]]

Finish(c, outcome) ==
    call' = [call EXCEPT ![c] = [Fresh EXCEPT !.step = "done", !.outcome = outcome]]

\* The operation that _with_session runs in each phase of a call.
RequestOf(c, phase) ==
    CASE phase = "read" -> "current"
      [] phase = "scope" -> IF job[c].named THEN "list" ELSE "current"
      [] phase = "log" -> "log"
      [] OTHER -> "submit"

\* _with_session with a cached token.
Operate(c, phase) ==
    call' = [call EXCEPT ![c] = [@ EXCEPT !.phase = phase, !.step = "operation",
                                          !.request = RequestOf(c, phase),
                                          !.token = sessions[User(c)], !.reply = None]]

\* One attempt to submit; the participant may have been disconnected meanwhile.
Submit(c, phase) ==
    IF sessions[User(c)] = None THEN Finish(c, "NOT_RECORDED") ELSE Operate(c, phase)

\* The phase's operation returned, or raised the error that status stands for.
Conclude(c, status, value) ==
    LET phase == call[c].phase
    IN  \/ /\ phase \in {"read", "log"}
           /\ Finish(c, IF status = "ok" THEN "OK" ELSE "FAILED")
        \/ /\ phase = "scope" /\ status # "ok"
           /\ Finish(c, "FAILED")
        \/ /\ phase = "scope" /\ status = "ok"
           /\ IF value \in {None, job[c].task} THEN Submit(c, "answer") ELSE Finish(c, "CONFLICT")
        \/ /\ phase \in {"answer", "retry"} /\ status = "ok"
           /\ Finish(c, "RECORDED")
        \/ /\ phase \in {"answer", "retry"} /\ status = "unavailable"
           /\ Finish(c, "UNKNOWN")
        \/ /\ phase \in {"answer", "retry"} /\ status \in {"unauthorized", "refused"}
           /\ Finish(c, "NOT_RECORDED")
        \/ /\ phase = "answer" /\ status = "not_running"
           /\ Wait(c, "admin_lock")
        \/ /\ phase = "retry" /\ status = "not_running"
           /\ Finish(c, "NOT_RECORDED")

\* ensure_task_running returned.
Activated(c, success) ==
    IF job[c].op = "activate" THEN Finish(c, IF success THEN "OK" ELSE "FAILED")
    ELSE IF success THEN Submit(c, "retry")
    ELSE Finish(c, "NOT_RECORDED")

-----------------------------------------------------------------------------
(* Connecting, and operations with one refresh of a rejected token.        *)

Free(k) == lock[k] = None
Acquire(c, k) == lock' = [lock EXCEPT ![k] = c]
Release(k) == lock' = [lock EXCEPT ![k] = None]
Cache(k, token) == sessions' = [sessions EXCEPT ![k] = token]

Connect(c) ==
    /\ At(c, "ready") /\ job[c].op = "connect" /\ Free(User(c))
    /\ \/ /\ sessions[User(c)] # None
          /\ Finish(c, "OK") /\ UNCHANGED lock
       \/ /\ sessions[User(c)] = None
          /\ Ask(c, "connect_login", "login", None) /\ Acquire(c, User(c))
    /\ UNCHANGED <<sessions, dresVars>>

ConnectLogin(c) ==
    /\ Received(c, "connect_login")
    /\ IF Succeeded(c)
       THEN Cache(User(c), Reply(c).value) /\ Finish(c, "OK")
       ELSE Finish(c, "FAILED") /\ UNCHANGED sessions
    /\ Release(User(c))
    /\ UNCHANGED dresVars

Disconnect(c) ==
    /\ At(c, "ready") /\ job[c].op = "disconnect" /\ Free(User(c))
    /\ Cache(User(c), None) /\ Finish(c, "OK")
    /\ UNCHANGED <<lock, dresVars>>

Begin(c) ==
    /\ At(c, "ready") /\ job[c].op \in {"read", "log", "submit"}
    /\ IF sessions[User(c)] = None THEN Finish(c, "NOT_CONNECTED")
       ELSE Operate(c, IF job[c].op = "submit" THEN "scope" ELSE job[c].op)
    /\ UNCHANGED <<sessions, lock, dresVars>>

\* Mutant: a timeout is taken for a rejected token.
OperationRefreshing(c) ==
    /\ Received(c, "operation")
    /\ IF Reply(c).status \in {"unauthorized", "unavailable"} THEN Wait(c, "refresh_lock")
       ELSE Conclude(c, Reply(c).status, Reply(c).value)
    /\ UNCHANGED <<sessions, lock, dresVars>>

Operation(c) ==
    /\ Received(c, "operation")
    /\ IF Reply(c).status = "unauthorized" THEN Wait(c, "refresh_lock")
       ELSE Conclude(c, Reply(c).status, Reply(c).value)
    /\ UNCHANGED <<sessions, lock, dresVars>>

\* Mutant: the token in the cache is not compared with the rejected one.
RefreshUnchecked(c) ==
    /\ At(c, "refresh_lock") /\ Free(User(c))
    /\ IF call[c].phase \in {"answer", "retry"}
       THEN Cache(User(c), None) /\ Conclude(c, "unauthorized", None) /\ UNCHANGED lock
       ELSE /\ Ask(c, "refresh_login", "login", call[c].token) /\ Acquire(c, User(c))
            /\ UNCHANGED sessions
    /\ UNCHANGED dresVars

\* Under the lock: refresh or evict the token, unless it is no longer cached.
RefreshLock(c) ==
    LET u == User(c)
        latest == sessions[u]
        retry == call[c].phase \notin {"answer", "retry"}
    IN  /\ At(c, "refresh_lock") /\ Free(u)
        /\ \/ /\ latest = call[c].token /\ retry
              /\ Ask(c, "refresh_login", "login", call[c].token) /\ Acquire(c, u)
              /\ UNCHANGED sessions
           \/ /\ latest = call[c].token /\ ~retry
              /\ Cache(u, None) /\ Conclude(c, "unauthorized", None)
              /\ UNCHANGED lock
           \/ /\ latest # call[c].token /\ (~retry \/ latest = None)
              /\ Conclude(c, "unauthorized", None)
              /\ UNCHANGED <<sessions, lock>>
           \/ /\ latest # call[c].token /\ retry /\ latest # None
              /\ Ask(c, "again", RequestOf(c, call[c].phase), latest)
              /\ UNCHANGED <<sessions, lock>>
        /\ UNCHANGED dresVars

\* Mutant: a failed login keeps the lock.
RefreshLoginHolding(c) ==
    /\ Received(c, "refresh_login")
    /\ IF Succeeded(c)
       THEN /\ Cache(User(c), Reply(c).value)
            /\ Ask(c, "again", RequestOf(c, call[c].phase), Reply(c).value)
            /\ Release(User(c))
       ELSE Conclude(c, "unavailable", None) /\ UNCHANGED <<sessions, lock>>
    /\ UNCHANGED dresVars

RefreshLogin(c) ==
    /\ Received(c, "refresh_login")
    /\ IF Succeeded(c)
       THEN /\ Cache(User(c), Reply(c).value)
            /\ Ask(c, "again", RequestOf(c, call[c].phase), Reply(c).value)
       ELSE /\ Conclude(c, "unavailable", None)
            /\ UNCHANGED sessions
    /\ Release(User(c))
    /\ UNCHANGED dresVars

Again(c) ==
    /\ Received(c, "again")
    /\ Conclude(c, Reply(c).status, Reply(c).value)
    /\ UNCHANGED <<sessions, lock, dresVars>>

-----------------------------------------------------------------------------
(* ensure_task_running.                                                    *)

AdminLock(c) ==
    /\ \/ At(c, "admin_lock")
       \/ At(c, "ready") /\ job[c].op = "activate"
    /\ Free(Admin)
    /\ \/ /\ sessions[Admin] # None
          /\ Ask(c, "admin_list", "list", sessions[Admin]) /\ UNCHANGED lock
       \/ /\ sessions[Admin] = None
          /\ Ask(c, "admin_login", "login", None) /\ Acquire(c, Admin)
    /\ UNCHANGED <<sessions, dresVars>>

AdminLogin(c) ==
    /\ Received(c, "admin_login")
    /\ IF Succeeded(c)
       THEN /\ Cache(Admin, Reply(c).value)
            /\ Ask(c, "admin_list", "list", Reply(c).value)
       ELSE Activated(c, FALSE) /\ UNCHANGED sessions
    /\ Release(Admin)
    /\ UNCHANGED dresVars

\* A rejected token is dropped without the lock and without a comparison.
AdminList(c) ==
    /\ Received(c, "admin_list")
    /\ \/ /\ Reply(c).status = "unauthorized" /\ ~call[c].relisted
          /\ Cache(Admin, None)
          /\ call' = [call EXCEPT ![c] = [@ EXCEPT !.step = "admin_lock", !.relisted = TRUE,
                                                   !.request = None, !.reply = None]]
       \/ /\ Succeeded(c)
          /\ Ask(c, "admin_state", "state", call[c].token) /\ UNCHANGED sessions
       \/ /\ ~Succeeded(c)
          /\ Reply(c).status = "unauthorized" => call[c].relisted
          /\ Activated(c, FALSE) /\ UNCHANGED sessions
    /\ UNCHANGED <<lock, dresVars>>

\* One request of the activation after another, with the admin's token.
AskNext(c, step, request) ==
    Ask(c, step, request, call[c].token)

AdminState(c) ==
    /\ Received(c, "admin_state")
    /\ \/ ~Succeeded(c) /\ Activated(c, FALSE)
       \/ Succeeded(c) /\ Reply(c).value = "RUNNING" /\ AskNext(c, "admin_current", "current")
       \/ Succeeded(c) /\ Reply(c).value # "RUNNING" /\ AskNext(c, "admin_switch", "switch")
    /\ UNCHANGED <<sessions, lock, dresVars>>

\* A failure to read the running task counts as another task running.
AdminCurrent(c) ==
    /\ Received(c, "admin_current")
    /\ IF Succeeded(c) /\ Reply(c).value = job[c].task THEN Activated(c, TRUE)
       ELSE AskNext(c, "admin_abort", "abort")
    /\ UNCHANGED <<sessions, lock, dresVars>>

AdminAbort(c) ==
    /\ Received(c, "admin_abort")
    /\ AskNext(c, "admin_switch", "switch")
    /\ UNCHANGED <<sessions, lock, dresVars>>

AdminSwitch(c) ==
    /\ Received(c, "admin_switch")
    /\ IF Succeeded(c) THEN AskNext(c, "admin_start", "start") ELSE Activated(c, FALSE)
    /\ UNCHANGED <<sessions, lock, dresVars>>

AdminStart(c) ==
    /\ Received(c, "admin_start")
    /\ IF Succeeded(c) THEN AskNext(c, "admin_poll", "state") ELSE Activated(c, FALSE)
    /\ UNCHANGED <<sessions, lock, dresVars>>

\* Success after the last poll, whatever the status.
AdminPoll(c) ==
    /\ Received(c, "admin_poll")
    /\ \/ ~Succeeded(c) /\ Activated(c, FALSE)
       \/ /\ Succeeded(c)
          /\ Reply(c).value = "RUNNING" \/ call[c].polls + 1 = Polls
          /\ Activated(c, TRUE)
       \/ /\ Succeeded(c) /\ Reply(c).value # "RUNNING" /\ call[c].polls + 1 < Polls
          /\ call' = [call EXCEPT ![c].polls = @ + 1, ![c].reply = None]
    /\ UNCHANGED <<sessions, lock, dresVars>>

-----------------------------------------------------------------------------

Proceed(c) ==
    \/ Connect(c) \/ ConnectLogin(c) \/ Disconnect(c)
    \/ Begin(c) \/ Operation(c) \/ RefreshLock(c) \/ RefreshLogin(c) \/ Again(c)
    \/ AdminLock(c) \/ AdminLogin(c) \/ AdminList(c) \/ AdminState(c) \/ AdminCurrent(c)
    \/ AdminAbort(c) \/ AdminSwitch(c) \/ AdminStart(c) \/ AdminPoll(c)

Next ==
    /\ \/ \E c \in Calls : Proceed(c) \/ ServeLogin(c) \/ Serve(c) \/ GiveUp(c)
       \/ \E r \in late : ServeLate(r)
       \/ \E t \in valid : Expire(t)
       \/ RunTask
    /\ UNCHANGED job

Spec == Init /\ [][Next]_<<job, vars>>

\* The event loop runs every call that can go on, and every request is answered
\* or times out.
FairSpec ==
    /\ Spec
    /\ \A c \in Calls : WF_vars(Proceed(c)) /\ WF_vars(ServeLogin(c) \/ Serve(c) \/ GiveUp(c))

-----------------------------------------------------------------------------
(* Properties.                                                             *)

\* Whatever was retried, refreshed, timed out or served late, DRES records an
\* answer or a result log at most once, and what the participant is told of it
\* stays true.
AnswersAccounted ==
    \A c \in Calls :
        /\ recorded[c] <= 1
        /\ call[c].outcome = "RECORDED" => recorded[c] = 1
        /\ call[c].outcome \in {"NOT_RECORDED", "CONFLICT", "NOT_CONNECTED"} => recorded[c] = 0
        /\ job[c].op = "log" /\ call[c].outcome = "OK" => recorded[c] = 1

\* Only connect() connects: no retry in flight brings back a participant who
\* was disconnected.
OnlyConnectConnects ==
    [][ \A u \in Users :
            sessions[u] = None /\ sessions'[u] # None =>
                \E c \in Calls : job[c].op = "connect" /\ User(c) = u /\ At(c, "connect_login") ]_vars

\* Every call ends, although calls wait for each other's logins.
CallsEnd == \A c \in Calls : <>At(c, "done")

\* An activation that succeeds has had its task running ("ensure the specified
\* task is actively RUNNING").
ActivatedTaskRan ==
    \A c \in Calls :
        job[c].op = "activate" /\ call[c].outcome = "OK" => job[c].task \in started
=============================================================================
