---------------------------- MODULE HypothesisStore ----------------------------
(***************************************************************************)
(* Query Hypothesis sessions under concurrent requests: the store of       *)
(* kis/hypothesis/store.py, the calls of kis/hypothesis/service.py and its *)
(* router, and what a client has been shown when it sends the next call.   *)
(*                                                                         *)
(* The intent of a session is known by its revision; what a mutation does  *)
(* to it is QueryHypothesis's.  Threads interleave between the lookup      *)
(* under the map lock, the wait for the slot's lock, the two assignments   *)
(* of a commit and the three reads of a view.                              *)
(***************************************************************************)
EXTENDS Integers, SequencesExt

CONSTANTS
    Clients,        \* each with one request at a time, in a thread of its own
    Sessions,       \* session ids, each drawn once by uuid4
    MaxEntries,     \* event_trail.session_max_entries
    Limit,          \* checkpoints kept (20 in the code)
    MaxRequests,    \* bound on the requests that arrive
    None            \* Python's None

ASSUME HypothesisAssumption ==
    /\ IsFiniteSet(Clients) /\ MaxEntries \in Nat \ {0}
    /\ Limit \in Nat \ {0} /\ MaxRequests \in Nat

VARIABLES
    entries,        \* ids of stored sessions, least recently used first
    tombstones,     \* ids of expired sessions
    created,        \* sessions that were put
    outlived,       \* sessions whose TTL has passed
    intent,         \* revision of each session's intent
    depth,          \* number of checkpoints in its history
    inUse,          \* QueryHypothesisSlot.in_use
    lockedBy,       \* the client whose call holds the slot's lock, or None
    pc, call,       \* where each client's call is, and its local state
    shown,          \* what each client was shown last
    requests        \* requests that have arrived

slotVars == <<intent, depth, inUse, lockedBy>>
storeVars == <<entries, tombstones, created>>
vars == <<storeVars, outlived, slotVars, pc, call, shown, requests>>

Labels == {"idle", "putting", "entering", "waiting", "locked", "writing", "leaving",
           "view_revision", "view_history"}
Kinds == {"open", "get", "preview", "commit", "undo"}
Answers == {"none", "ok", "conflict", "refused", "cannot_undo", "expired", "missing", "busy"}
View == [session : Sessions, intent : Nat, revision : Nat, canUndo : BOOLEAN]

ASSUME HypothesisNoneAssumption == None \notin Clients \cup Sessions \cup View \cup Nat

\* What an idle client or a fresh call knows of no session.
NoCall == [kind |-> "get", session |-> None, expected |-> None,
           late |-> FALSE, view |-> None, answer |-> "none"]

Init ==
    /\ entries = <<>> /\ tombstones = {} /\ created = {} /\ outlived = {}
    /\ intent = [s \in Sessions |-> 0]
    /\ depth = [s \in Sessions |-> 0]
    /\ inUse = [s \in Sessions |-> 0]
    /\ lockedBy = [s \in Sessions |-> None]
    /\ pc = [c \in Clients |-> "idle"]
    /\ call = [c \in Clients |-> NoCall]
    /\ shown = [c \in Clients |-> None]
    /\ requests = 0

Stored == ToSet(entries)
Session(c) == call[c].session
Goto(c, label) == pc' = [pc EXCEPT ![c] = label]
Answer(c, reply) == call' = [call EXCEPT ![c].answer = reply]

\* The client shows what it is answered (receiveOpenedHypothesis, receiveCommit).
Show(c, view) ==
    /\ shown' = [shown EXCEPT ![c] = view]
    /\ call' = [call EXCEPT ![c].answer = "ok", ![c].view = view]

ViewOf(s, revision, checkpoints) ==
    [session |-> s, intent |-> revision, revision |-> revision, canUndo |-> checkpoints > 0]

-----------------------------------------------------------------------------
(* Requests.                                                               *)

Age(s) ==
    /\ s \in created \ outlived
    /\ outlived' = outlived \cup {s}
    /\ UNCHANGED <<storeVars, slotVars, pc, call, shown, requests>>

\* A call begins and reads the clock before it takes the map lock.
Begin(c, kind, s, expected, label) ==
    /\ pc[c] = "idle" /\ requests < MaxRequests
    /\ requests' = requests + 1
    /\ Goto(c, label)
    /\ call' = [call EXCEPT ![c] = [NoCall EXCEPT !.kind = kind, !.session = s, !.expected = expected,
                                                  !.late = s \in outlived]]
    /\ UNCHANGED <<storeVars, outlived, slotVars, shown>>

BeginOpen(c, s) ==
    /\ s \notin created /\ \A d \in Clients : call[d].session # s
    /\ Begin(c, "open", s, None, "putting")

BeginGet(c, s) == s \in created /\ Begin(c, "get", s, None, "entering")

\* A mutation names the revision the client was told with the intent it shows.
BeginMutation(c, kind) ==
    /\ shown[c] # None /\ kind \in {"preview", "commit", "undo"}
    /\ Begin(c, kind, shown[c].session, shown[c].revision, "entering")

-----------------------------------------------------------------------------
(* The store.                                                              *)

\* Mutant: the least recently used session goes although a call uses it.
PutEvictingBusy(c) ==
    /\ pc[c] = "putting"
    /\ entries' = Append(IF Len(entries) >= MaxEntries THEN Tail(entries) ELSE entries, Session(c))
    /\ created' = created \cup {Session(c)}
    /\ intent' = [intent EXCEPT ![Session(c)] = 1]
    /\ Show(c, ViewOf(Session(c), 1, 0))
    /\ Goto(c, "idle")
    /\ UNCHANGED <<tombstones, outlived, depth, inUse, lockedBy, requests>>

\* put(): the id is fresh, so the branch that replaces a session is never taken.
Put(c) ==
    LET s == Session(c)
        idle == {i \in DOMAIN entries : inUse[entries[i]] = 0}
        victim == CHOOSE i \in idle : \A j \in idle : i <= j
        full == Len(entries) >= MaxEntries
    IN  /\ pc[c] = "putting"
        /\ \/ /\ full /\ idle = {}
              /\ Answer(c, "busy")
              /\ UNCHANGED <<entries, created, intent, shown>>
           \/ /\ full => idle # {}
              /\ entries' = Append(IF full THEN RemoveFirst(entries, entries[victim]) ELSE entries, s)
              /\ created' = created \cup {s}
              /\ intent' = [intent EXCEPT ![s] = 1]
              /\ Show(c, ViewOf(s, 1, 0))
        /\ Goto(c, "idle")
        /\ UNCHANGED <<tombstones, outlived, depth, inUse, lockedBy, requests>>

\* An outlived session is expired by the first lookup that finds nobody using it.
LookupFails(c) ==
    LET s == Session(c)
    IN  /\ pc[c] = "entering"
        /\ \/ /\ s \in Stored /\ call[c].late
              /\ IF inUse[s] = 0
                 THEN /\ entries' = RemoveFirst(entries, s)
                      /\ tombstones' = tombstones \cup {s}
                 ELSE UNCHANGED <<entries, tombstones>>
              /\ Answer(c, "expired")
           \/ /\ s \notin Stored
              /\ Answer(c, IF s \in tombstones THEN "expired" ELSE "missing")
              /\ UNCHANGED <<entries, tombstones>>
        /\ Goto(c, "idle")
        /\ UNCHANGED <<created, outlived, slotVars, shown, requests>>

Enter(c) ==
    LET s == Session(c)
    IN  /\ pc[c] = "entering" /\ s \in Stored /\ ~call[c].late
        /\ entries' = Append(RemoveFirst(entries, s), s)
        /\ inUse' = [inUse EXCEPT ![s] = @ + 1]
        /\ Goto(c, "waiting")
        /\ UNCHANGED <<tombstones, created, outlived, intent, depth, lockedBy, call, shown, requests>>

\* Mutant: the slot's lock is not waited for.
AcquireUnlocked(c) ==
    /\ pc[c] = "waiting"
    /\ lockedBy' = [lockedBy EXCEPT ![Session(c)] = c]
    /\ Goto(c, "locked")
    /\ UNCHANGED <<storeVars, outlived, intent, depth, inUse, call, shown, requests>>

Acquire(c) ==
    /\ pc[c] = "waiting" /\ lockedBy[Session(c)] = None
    /\ lockedBy' = [lockedBy EXCEPT ![Session(c)] = c]
    /\ Goto(c, "locked")
    /\ UNCHANGED <<storeVars, outlived, intent, depth, inUse, call, shown, requests>>

\* Leaving the with statement of the slot's lock.
Unlock(c) ==
    /\ lockedBy' = [lockedBy EXCEPT ![Session(c)] = None]
    /\ Goto(c, "leaving")

\* The finally clause of locked(); get() then builds its view.
Leave(c) ==
    LET s == Session(c)
    IN  /\ pc[c] = "leaving"
        /\ inUse' = [inUse EXCEPT ![s] = @ - 1]
        /\ \/ /\ call[c].kind = "get"
              /\ call' = [call EXCEPT ![c].view = ViewOf(s, intent[s], 0)]
              /\ Goto(c, "view_revision")
           \/ /\ call[c].kind # "get"
              /\ Goto(c, "idle") /\ UNCHANGED call
        /\ UNCHANGED <<storeVars, outlived, intent, depth, lockedBy, shown, requests>>

-----------------------------------------------------------------------------
(* The service's calls under the slot's lock.                              *)

\* get() hands the session out of the lock.
Get(c) ==
    /\ pc[c] = "locked" /\ call[c].kind = "get"
    /\ Unlock(c)
    /\ UNCHANGED <<storeVars, outlived, intent, depth, inUse, call, shown, requests>>

\* The revision is another one, the mutation refuses the action, or there is
\* nothing to undo: the exception leaves both the lock and the slot.
Refuse(c) ==
    LET s == Session(c)
    IN  /\ pc[c] = "locked" /\ call[c].kind # "get"
        /\ \/ call[c].expected # intent[s] /\ Answer(c, "conflict")
           \/ /\ call[c].expected = intent[s]
              /\ \/ call[c].kind # "undo" /\ Answer(c, "refused")
                 \/ call[c].kind = "undo" /\ depth[s] = 0 /\ Answer(c, "cannot_undo")
        /\ Unlock(c)
        /\ UNCHANGED <<storeVars, outlived, intent, depth, inUse, shown, requests>>

Preview(c) ==
    /\ pc[c] = "locked" /\ call[c].kind = "preview" /\ call[c].expected = intent[Session(c)]
    /\ Answer(c, "ok")
    /\ Unlock(c)
    /\ UNCHANGED <<storeVars, outlived, intent, depth, inUse, shown, requests>>

\* commit() and undo() assign the history first ...
WriteHistory(c) ==
    LET s == Session(c)
    IN  /\ pc[c] = "locked" /\ call[c].expected = intent[s]
        /\ \/ /\ call[c].kind = "commit"
              /\ depth' = [depth EXCEPT ![s] = IF @ < Limit THEN @ + 1 ELSE Limit]
           \/ /\ call[c].kind = "undo" /\ depth[s] > 0
              /\ depth' = [depth EXCEPT ![s] = @ - 1]
        /\ Goto(c, "writing")
        /\ UNCHANGED <<storeVars, outlived, intent, inUse, lockedBy, call, shown, requests>>

\* ... then the intent, and answer the new session.
WriteIntent(c) ==
    LET s == Session(c)
    IN  /\ pc[c] = "writing"
        /\ intent' = [intent EXCEPT ![s] = @ + 1]
        /\ Show(c, ViewOf(s, intent[s] + 1, depth[s]))
        /\ Unlock(c)
        /\ UNCHANGED <<storeVars, outlived, depth, inUse, requests>>

\* QueryHypothesisView.from_session() of get(): the intent was read in Leave;
\* its revision and the history are read after it, without the lock.
ViewRevision(c) ==
    /\ pc[c] = "view_revision"
    /\ call' = [call EXCEPT ![c].view.revision = intent[Session(c)]]
    /\ Goto(c, "view_history")
    /\ UNCHANGED <<storeVars, outlived, slotVars, shown, requests>>

ViewHistory(c) ==
    /\ pc[c] = "view_history"
    /\ Show(c, [call[c].view EXCEPT !.canUndo = depth[Session(c)] > 0])
    /\ Goto(c, "idle")
    /\ UNCHANGED <<storeVars, outlived, slotVars, requests>>

Proceed(c) ==
    \/ Put(c) \/ LookupFails(c) \/ Enter(c) \/ Acquire(c) \/ Leave(c)
    \/ Get(c) \/ Refuse(c) \/ Preview(c) \/ WriteHistory(c) \/ WriteIntent(c)
    \/ ViewRevision(c) \/ ViewHistory(c)

Next ==
    \/ \E s \in Sessions : Age(s)
    \/ \E c \in Clients, s \in Sessions : BeginOpen(c, s) \/ BeginGet(c, s)
    \/ \E c \in Clients, kind \in Kinds : BeginMutation(c, kind)
    \/ \E c \in Clients : Proceed(c)

Spec == Init /\ [][Next]_vars

-----------------------------------------------------------------------------
(* Properties.                                                             *)

TypeOK ==
    /\ entries \in Seq(Sessions) /\ Len(entries) <= MaxEntries /\ IsInjective(entries)
    /\ tombstones \subseteq created /\ created \subseteq Sessions /\ outlived \subseteq created
    /\ intent \in [Sessions -> Nat] /\ depth \in [Sessions -> 0..Limit]
    /\ inUse \in [Sessions -> 0..Cardinality(Clients)]
    /\ lockedBy \in [Sessions -> Clients \cup {None}]
    /\ pc \in [Clients -> Labels]
    /\ call \in [Clients -> [kind : Kinds, session : Sessions \cup {None},
                             expected : Nat \cup {None}, late : BOOLEAN, view : View \cup {None}, answer : Answers]]
    /\ shown \in [Clients -> View \cup {None}]
    /\ requests \in 0..MaxRequests

\* A session that a call waits for, or changes, is not evicted or expired.
BusySessionsStay ==
    \A c \in Clients : pc[c] \in {"waiting", "locked", "writing", "leaving"} => Session(c) \in Stored

\* Every accepted commit and undo has a revision of its own, and the client that
\* sent it saw the latest one: of two requests for the same revision one loses.
Accepted(c) == call[c].kind \in {"commit", "undo"} /\ call[c].answer = "ok"

UpdatesNotLost ==
    /\ \A c, d \in Clients :
          c # d /\ Accepted(c) /\ Accepted(d) /\ Session(c) = Session(d) =>
              call[c].view.revision # call[d].view.revision
    /\ \A c \in Clients : Accepted(c) => call[c].view.revision = call[c].expected + 1

-----------------------------------------------------------------------------
(* Refinement.                                                             *)

\* The sessions are the register's revisions: a request is accepted at one moment, on
\* the revision its client was shown.  Opening writes the first revision.
Register == INSTANCE RevisionRegister WITH
    revision <- intent,
    request  <- [c \in Clients |->
        IF call[c].session = None THEN None
        ELSE [writes   |-> call[c].kind \in {"open", "commit", "undo"},
              session  |-> call[c].session,
              expected |-> call[c].expected]],
    answer   <- [c \in Clients |->
        IF call[c].answer = "cannot_undo" THEN "refused" ELSE call[c].answer]

RegisterSpec == Register!Spec

=============================================================================
