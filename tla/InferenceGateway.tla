--------------------------- MODULE InferenceGateway ---------------------------
(***************************************************************************)
(* Calls to remote model servers: the least-busy pool of llm/remote/pool.py*)
(* over one gateway per endpoint (gateway.py: bulkhead, circuit breaker,   *)
(* retries within a deadline), against the servers of llm/server.          *)
(*                                                                         *)
(* A step is what a caller's thread does under one lock, or one exchange   *)
(* with a server.  Time is kept only as far as the code asks for it:       *)
(* whether a circuit still cools down; a deadline is found to have passed  *)
(* or not where it is looked at, and once it has the call is on its way out*)
(***************************************************************************)
EXTENDS Integers, FiniteSets

CONSTANTS
    Callers,            \* threads that call models
    Endpoints,          \* indices of the pool's clients
    Requests,           \* what callers ask for
    Hosted,             \* models that the servers' profile enables
    Faults,             \* how an exchange with a server that serves can still fail
    Threshold,          \* circuit_failure_threshold
    MaxAttempts,        \* max_attempts
    MaxConcurrency,     \* max_concurrency
    Absent

Kinds == {"readiness", "text", "images", "dino", "ocr", "boundary", "audio"}

\* The capabilities a server can host, by the rows of its readiness report.
Models == {"caption_generation", "visual_embedding", "caption_embedding", "ocr", "objects",
           "asr", "diarization", "text_generation"}

ASSUME PoolAssumption == /\ Endpoints \subseteq Nat /\ Endpoints # {}
                         /\ IsFiniteSet(Endpoints) /\ IsFiniteSet(Callers)
                         /\ Absent \notin Endpoints /\ Absent \notin Requests
ASSUME ConfigAssumption == {Threshold, MaxAttempts, MaxConcurrency} \subseteq Nat \ {0}
ASSUME RequestAssumption == Requests \subseteq [kind : Kinds, valid : BOOLEAN]
ASSUME HostedAssumption == Hosted \subseteq Models
ASSUME FaultAssumption == Faults \subseteq {"protocol", "garbled"}

VARIABLES
    loaded,     \* [Endpoints -> BOOLEAN]: the server runs and answers in time
    circuit,    \* [Endpoints -> Circuits]
    permits,    \* free places in each endpoint's bulkhead
    inflight,   \* the pool's count of calls at each endpoint
    named,      \* whether each client has the name of its text model: _cached_text_model
    call        \* what each caller's thread is doing

gatewayVars == <<loaded, circuit, permits, inflight, named, call>>

\* failures saturate at the threshold, the only value they are compared with.
Circuits == [state : {"closed", "open", "half_open"}, failures : 0..Threshold,
             cooling : BOOLEAN, probing : BOOLEAN]

Steps == {"idle", "pick", "name", "enter", "permission", "sent", "backoff", "leave", "unload"}

\* Errors by what the code does about them: "transient" (timeouts, network errors, 429,
\* 502, 503 and 504) is retried and counts against the server, any other is "final".
Errors == {"transient", "final"}

\* naming: the request under way asks for the name of the model, before the call's own.
IdleCall == [pc |-> "idle", request |-> Absent, tried |-> {}, at |-> Absent,
             attempts |-> 0, error |-> Absent, naming |-> FALSE]

GatewayTypeOK ==
    /\ loaded \in [Endpoints -> BOOLEAN]
    /\ circuit \in [Endpoints -> Circuits]
    /\ permits \in [Endpoints -> 0..MaxConcurrency]
    /\ inflight \in [Endpoints -> 0..Cardinality(Callers)]
    /\ named \in [Endpoints -> BOOLEAN]
    /\ call \in [Callers -> [pc : Steps, request : Requests \cup {Absent},
                             tried : SUBSET Endpoints, at : Endpoints \cup {Absent},
                             attempts : 0..MaxAttempts, error : Errors \cup {Absent},
                             naming : BOOLEAN]]

Closed == [state |-> "closed", failures |-> 0, cooling |-> FALSE, probing |-> FALSE]

GatewayInit ==
    /\ loaded = [e \in Endpoints |-> TRUE]
    /\ circuit = [e \in Endpoints |-> Closed]
    /\ permits = [e \in Endpoints |-> MaxConcurrency]
    /\ inflight = [e \in Endpoints |-> 0]
    /\ named = [e \in Endpoints |-> FALSE]
    /\ call = [c \in Callers |-> IdleCall]

-----------------------------------------------------------------------------
(* The model server.                                                       *)

\* A request that passes the transport checks needs its model; whatever goes wrong from
\* there on, the caller's own mistakes included, is translated into 503.
Computed(model, r) == IF model \in Hosted /\ r.valid THEN "ok" ELSE "transient"

\* decode_images(), decode_tensor(): a damaged batch is the client's fault (400).
Decoded(r, answer) == IF r.valid THEN answer ELSE "final"

\* What the routers answer.  No row of the readiness report is named for the DINO and
\* boundary models, so these routes never find their model loaded.
TextAnswer(r) == Computed("caption_embedding", r)
ImagesAnswer(r) == Decoded(r, Computed("visual_embedding", r))
DinoAnswer(r) == Decoded(r, "transient")
OcrAnswer(r) == Decoded(r, Computed("ocr", r))
BoundaryAnswer(r) == Decoded(r, "transient")
AudioAnswer(r) == Computed("asr", r)
\* The application starts once all enabled models are loaded, so a server that
\* answers is ready.
ReadinessAnswer == "ok"

\* A fault: "protocol", the connection breaks in the middle of the answer; "garbled",
\* the answer is not what the client's contract demands.
Answers(e, r) ==
    IF ~loaded[e]
    THEN {"transient"}
    ELSE Faults \cup {CASE r.kind = "text"     -> TextAnswer(r)
                        [] r.kind = "images"   -> ImagesAnswer(r)
                        [] r.kind = "dino"     -> DinoAnswer(r)
                        [] r.kind = "ocr"      -> OcrAnswer(r)
                        [] r.kind = "boundary" -> BoundaryAnswer(r)
                        [] r.kind = "audio"    -> AudioAnswer(r)
                        [] OTHER               -> ReadinessAnswer}

\* A server stops, or starts again and loads its models.
Restart(e) ==
    /\ loaded' = [loaded EXCEPT ![e] = ~@]
    /\ UNCHANGED <<circuit, permits, inflight, named, call>>

-----------------------------------------------------------------------------
(* CircuitBreaker.  Each operation runs under its lock.                    *)

\* acquire_permission(): a breaker past its cooldown admits one probe.
MayProbe(b) == b.state # "closed" /\ ~b.cooling /\ ~b.probing
Permits(b) == b.state = "closed" \/ MayProbe(b)
AcquirePermission(b) ==
    IF b.state = "closed" \/ b.cooling THEN b
    ELSE [b EXCEPT !.state = "half_open", !.probing = TRUE]

RecordSuccess(b) == Closed

\* Mutant: a failure does not give the probe's permission back.
RecordFailureIgnoresProbe(b) ==
    [b EXCEPT !.failures = IF @ < Threshold THEN @ + 1 ELSE @,
              !.state = IF @ = "half_open" \/ b.failures + 1 >= Threshold THEN "open" ELSE @,
              !.cooling = @ \/ b.state = "half_open" \/ b.failures + 1 >= Threshold]
RecordFailure(b) ==
    LET failures == IF b.failures < Threshold THEN b.failures + 1 ELSE Threshold
        opens == b.state = "half_open" \/ failures >= Threshold
    IN  [state |-> IF opens THEN "open" ELSE b.state, failures |-> failures,
         cooling |-> b.cooling \/ opens, probing |-> FALSE]

\* The cooldown of an open circuit has passed.
Cooldown(e) ==
    /\ circuit[e].cooling
    /\ circuit' = [circuit EXCEPT ![e].cooling = FALSE]
    /\ UNCHANGED <<loaded, permits, inflight, named, call>>

-----------------------------------------------------------------------------
(* The gateway.                                                            *)

At(c, pc) == call[c].pc = pc
Goes(c, pc, error) == call' = [call EXCEPT ![c].pc = pc, ![c].error = error]

\* Mutant: an error that the request caused itself tells the breaker nothing.
SettledSkipsFinal(b, error) ==
    IF error = "transient" THEN RecordFailure(b) ELSE IF error = "final" THEN b ELSE RecordSuccess(b)
\* The outcome is recorded: whatever is not worth a retry is a success of the server.
Settled(b, error) == IF error = "transient" THEN RecordFailure(b) ELSE RecordSuccess(b)

Settle(c, error) ==
    /\ circuit' = [circuit EXCEPT ![call[c].at] = Settled(@, error)]
    /\ Goes(c, "leave", error)

\* Only the health check at start-up has a deadline.
MayBeOverdue(c) == call[c].request.kind = "readiness"

\* embed_text() asks a client without the name of its text model for readiness first.
Name(c) ==
    /\ At(c, "name")
    /\ call' = [call EXCEPT ![c].pc = "enter", ![c].naming = ~named[call[c].at]]
    /\ UNCHANGED <<loaded, circuit, permits, inflight, named>>

\* The request that a thread has under way.
Sent(c) == IF call[c].naming THEN [kind |-> "readiness", valid |-> TRUE] ELSE call[c].request

\* request() is over: the call is, unless it has asked for a name so far, which it then
\* has whatever came of asking, the default one if need be.
Returns(c, error) ==
    IF call[c].naming
    THEN /\ call' = [call EXCEPT ![c].pc = "enter", ![c].naming = FALSE,
                                 ![c].attempts = 0, ![c].error = Absent]
         /\ named' = [named EXCEPT ![call[c].at] = TRUE]
    ELSE Goes(c, "unload", error) /\ UNCHANGED named

\* request(): wait for a place in the bulkhead, at most until the deadline.
Enter(c) ==
    /\ At(c, "enter")
    /\ \/ /\ permits[call[c].at] > 0
          /\ permits' = [permits EXCEPT ![call[c].at] = @ - 1]
          /\ Goes(c, "permission", Absent) /\ UNCHANGED named
       \/ /\ permits[call[c].at] = 0 \/ MayBeOverdue(c)
          /\ Returns(c, "final") /\ UNCHANGED permits
    /\ UNCHANGED <<loaded, circuit, inflight>>

\* Mutant: a refusal by the breaker is raised before the try whose finally releases.
PermissionKeepsPlace(c) ==
    LET b == circuit[call[c].at] IN
    /\ At(c, "permission")
    /\ circuit' = [circuit EXCEPT ![call[c].at] = AcquirePermission(b)]
    /\ IF Permits(b)
       THEN call' = [call EXCEPT ![c].pc = "sent", ![c].attempts = 1]
       ELSE Goes(c, "unload", "final")
    /\ UNCHANGED <<loaded, permits, inflight, named>>
\* The breaker admits the call or refuses it.  A deadline that has passed since is a
\* final error without an attempt.
Permission(c) ==
    LET b == circuit[call[c].at]
        asked == AcquirePermission(b)
    IN  /\ At(c, "permission")
        /\ \/ /\ ~Permits(b)
              /\ circuit' = [circuit EXCEPT ![call[c].at] = asked]
              /\ Goes(c, "leave", "final")
           \/ /\ Permits(b) /\ MayBeOverdue(c)
              /\ circuit' = [circuit EXCEPT ![call[c].at] = Settled(asked, "final")]
              /\ Goes(c, "leave", "final")
           \/ /\ Permits(b)
              /\ circuit' = [circuit EXCEPT ![call[c].at] = asked]
              /\ call' = [call EXCEPT ![c].pc = "sent", ![c].attempts = 1]
        /\ UNCHANGED <<loaded, permits, inflight, named>>

\* The exchange ends.  An httpx error that is neither a timeout nor a network error
\* leaves request() at once, past the breaker: only the bulkhead has a finally.
Exchange(c) ==
    /\ At(c, "sent")
    /\ \E answer \in Answers(call[c].at, Sent(c)) :
          \/ answer = "protocol" /\ Goes(c, "leave", "final") /\ UNCHANGED circuit
          \/ answer = "ok" /\ Settle(c, Absent)
          \/ answer \in {"final", "garbled"} /\ Settle(c, "final")
          \/ /\ answer = "transient"
             /\ IF call[c].attempts < MaxAttempts
                THEN Goes(c, "backoff", answer) /\ UNCHANGED circuit
                ELSE Settle(c, answer)
    /\ UNCHANGED <<loaded, permits, inflight, named>>

\* After the delay the request is sent again, unless the deadline leaves no budget for
\* it; a deadline that passes during the delay replaces the error of the attempt.
Backoff(c) ==
    /\ At(c, "backoff")
    /\ \/ /\ call' = [call EXCEPT ![c].pc = "sent", ![c].attempts = @ + 1, ![c].error = Absent]
          /\ UNCHANGED circuit
       \/ MayBeOverdue(c) /\ \E error \in Errors : Settle(c, error)
    /\ UNCHANGED <<loaded, permits, inflight, named>>

Leave(c) ==
    /\ At(c, "leave")
    /\ permits' = [permits EXCEPT ![call[c].at] = @ + 1]
    /\ Returns(c, call[c].error)
    /\ UNCHANGED <<loaded, circuit, inflight>>

-----------------------------------------------------------------------------
(* The pool.                                                               *)

\* The first of the least busy endpoints that have not been tried.
LeastBusy(tried, e) ==
    /\ e \notin tried
    /\ \A f \in Endpoints \ tried :
          inflight[e] < inflight[f] \/ (inflight[e] = inflight[f] /\ e <= f)

\* _call() sends the call to such an endpoint.
Pick(c, started) ==
    /\ \E e \in Endpoints :
          /\ LeastBusy(started.tried, e)
          /\ inflight' = [inflight EXCEPT ![e] = @ + 1]
          /\ call' = [call EXCEPT ![c] =
                [started EXCEPT !.pc = IF started.request.kind = "text" THEN "name" ELSE "enter",
                                !.at = e, !.tried = @ \cup {e}, !.attempts = 0, !.error = Absent]]
    /\ UNCHANGED <<loaded, circuit, permits, named>>

Start(c, r) ==
    /\ At(c, "idle") /\ r.kind # "readiness"
    /\ Pick(c, [IdleCall EXCEPT !.request = r])
FailOver(c) == At(c, "pick") /\ Pick(c, call[c])

\* A health check asks one client, and is not counted.
Check(c, r, e) ==
    /\ At(c, "idle") /\ r.kind = "readiness"
    /\ call' = [call EXCEPT ![c] =
          [IdleCall EXCEPT !.pc = "enter", !.request = r, !.at = e, !.tried = Endpoints]]
    /\ UNCHANGED <<loaded, circuit, permits, inflight, named>>

Counted(c, e) == call[c].at = e /\ call[c].request.kind # "readiness"

\* The count is lowered; the call ends, or fails over to an endpoint not tried yet.
Unload(c) ==
    LET again == call[c].error # Absent /\ call[c].tried # Endpoints IN
    /\ At(c, "unload")
    /\ inflight' = [e \in Endpoints |->
                      IF Counted(c, e) THEN inflight[e] - 1 ELSE inflight[e]]
    /\ call' = [call EXCEPT ![c] =
                   IF again THEN [@ EXCEPT !.pc = "pick", !.at = Absent] ELSE IdleCall]
    /\ UNCHANGED <<loaded, circuit, permits, named>>

\* What a caller's thread does once it has called.
Proceed(c) ==
    \/ FailOver(c) \/ Name(c) \/ Enter(c) \/ Permission(c) \/ Exchange(c) \/ Backoff(c)
    \/ Leave(c) \/ Unload(c)

GatewayNext ==
    \/ \E c \in Callers :
          \/ Proceed(c)
          \/ \E r \in Requests : Start(c, r) \/ \E e \in Endpoints : Check(c, r, e)
    \/ \E e \in Endpoints : Cooldown(e) \/ Restart(e)

GatewaySpec == GatewayInit /\ [][GatewayNext]_gatewayVars

\* Threads run, exchanges end (httpx bounds them), and time passes.
FairSpec ==
    /\ GatewaySpec
    /\ \A c \in Callers : WF_gatewayVars(Proceed(c))
    /\ \A e \in Endpoints : WF_gatewayVars(Cooldown(e))

-----------------------------------------------------------------------------
(* Properties.                                                             *)

Holds(c, e) == call[c].at = e /\ call[c].pc \in {"permission", "sent", "backoff", "leave"}
Admitted(c, e) == call[c].at = e /\ call[c].pc \in {"sent", "backoff"}

\* Whatever way a call takes out of request(), an error that nobody catches included,
\* its place in the bulkhead and its count in the pool come back: both agree with the
\* calls that are at the endpoint.
PlacesComeBack ==
    \A e \in Endpoints :
        /\ permits[e] + Cardinality({c \in Callers : Holds(c, e)}) = MaxConcurrency
        /\ inflight[e] = Cardinality({c \in Callers : Counted(c, e)})

\* "Allow one half-open probe after a bounded cooldown" (resilience.py): when the
\* cooldown has passed and no call is at the server, the breaker admits the next one.
ProbeAllowed ==
    \A e \in Endpoints :
        ~circuit[e].cooling /\ (\A c \in Callers : ~Admitted(c, e)) => Permits(circuit[e])

\* A circuit that opened closes again once its server answers, as long as requests come
\* to it that the server can serve: no stale outcome keeps it open.
Serving(e) == loaded[e] /\ \A c \in Callers : call[c].at = e =>
                            Answers(e, Sent(c)) \cap {"transient", "protocol"} = {}
CircuitRecovers ==
    \A e \in Endpoints :
        <>[]Serving(e) /\ []<>(\E c \in Callers : At(c, "permission") /\ call[c].at = e)
            => []<>(circuit[e].state = "closed")
=============================================================================
