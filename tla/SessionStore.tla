----------------------------- MODULE SessionStore -----------------------------
(***************************************************************************)
(* The store of EventTrail sessions and the service calls that use it from *)
(* concurrent request threads: a bounded map in LRU order, a bounded list  *)
(* of tombstones of expired sessions, and for each session a slot with a   *)
(* lock and a count of the calls that hold or await it.                    *)
(*                                                                         *)
(* A call reads the clock, looks its session up under the map lock, waits  *)
(* for the slot's lock, reads the session, writes it back, and releases    *)
(* the slot under the map lock again; each of these is a step, and other   *)
(* threads may take theirs in between.  What an accepted action does to    *)
(* the trail is EventTrail's; here only the revision moves.                *)
(***************************************************************************)
EXTENDS Integers, SequencesExt

CONSTANTS
    Threads,        \* request threads
    Sessions,       \* session ids, each drawn once by uuid4
    MaxEntries,     \* event_trail.session_max_entries
    TTL,            \* event_trail.session_ttl_seconds
    None,           \* Python's None
    MaxNow,         \* bound on the clock
    MaxRequests     \* bound on the requests that arrive

ASSUME StoreAssumption == MaxEntries \in Nat \ {0} /\ TTL \in Nat \ {0}
ASSUME ThreadsAssumption == IsFiniteSet(Threads)
ASSUME BoundAssumption == MaxNow \in Nat /\ MaxRequests \in Nat

VARIABLES
    now,            \* time.monotonic()
    entries,        \* ids of stored sessions, least recently used first
    tombstones,     \* ids of expired sessions, oldest first
    revision,       \* trail_revision of the session in a slot
    inUse,          \* SessionSlot.in_use
    insertedAt,     \* SessionSlot.inserted_at, None before put
    lockedBy,       \* the thread holding SessionSlot.lock, or None
    pc, call,       \* where each thread is, and in which call
    closed,         \* sessions removed by close(), to state properties
    requests        \* requests that have arrived

slotVars == <<revision, inUse, insertedAt, lockedBy>>
vars == <<now, entries, tombstones, slotVars, pc, call, closed, requests>>

Kinds == {"open", "get", "act", "alternatives", "close"}
Answers == {"none", "ok", "conflict", "refused", "expired", "missing", "busy"}
Calls == [kind     : Kinds,
          session  : Sessions,
          expected : Nat \cup {None},   \* expected_trail_revision
          read     : Nat,               \* the clock when the call began
          seen     : Nat,               \* revision of the session it read
          answer   : Answers]

ASSUME NoneAssumption ==
    /\ None \notin Nat
    /\ None \notin Sessions
    /\ None \notin Threads
    /\ None \notin Calls

Stored == ToSet(entries)
Expired == ToSet(tombstones)
Created == {s \in Sessions : insertedAt[s] # None}

Init ==
    /\ now = 0
    /\ entries = <<>>
    /\ tombstones = <<>>
    /\ revision = [s \in Sessions |-> 0]
    /\ inUse = [s \in Sessions |-> 0]
    /\ insertedAt = [s \in Sessions |-> None]
    /\ lockedBy = [s \in Sessions |-> None]
    /\ pc = [t \in Threads |-> "idle"]
    /\ call = [t \in Threads |-> None]
    /\ closed = {}
    /\ requests = 0

-----------------------------------------------------------------------------

\* OrderedDict.move_to_end
Touch(q, s) == Append(RemoveFirst(q, s), s)

\* A tombstone beyond the capacity pushes out the oldest one.
AddTombstone(s) ==
    tombstones' = Append(IF Len(tombstones) >= MaxEntries THEN Tail(tombstones)
                                                          ELSE tombstones, s)

Expire(s) ==
    /\ entries' = RemoveFirst(entries, s)
    /\ AddTombstone(s)

Outlived(s, clock) == clock >= insertedAt[s] + TTL

Goto(t, label) == pc' = [pc EXCEPT ![t] = label]
Answer(t, reply) == call' = [call EXCEPT ![t].answer = reply]
Reply(t, reply) == Goto(t, "idle") /\ Answer(t, reply)

-----------------------------------------------------------------------------

Tick ==
    /\ now < MaxNow
    /\ now' = now + 1
    /\ UNCHANGED <<entries, tombstones, slotVars, pc, call, closed, requests>>

\* A request arrives and its call reads the clock.
Begin(t, kind, s, expected) ==
    /\ pc[t] = "idle"
    /\ requests < MaxRequests
    /\ requests' = requests + 1
    /\ Goto(t, "entering")
    /\ call' = [call EXCEPT ![t] =
           [kind |-> kind, session |-> s, expected |-> expected,
            read |-> now, seen |-> 0, answer |-> "none"]]
    /\ UNCHANGED <<now, entries, tombstones, slotVars, closed>>

\* The id is fresh: no other call knows it yet.
BeginOpen(t, s) ==
    /\ s \notin Created
    /\ \A u \in Threads : call[u] # None => call[u].session # s
    /\ Begin(t, "open", s, None)

BeginGet(t, s) == s \in Created /\ Begin(t, "get", s, None)

\* A client expects a revision it was shown once.
BeginLocked(t, kind, s, expected) ==
    /\ s \in Created
    /\ kind \in {"act", "alternatives", "close"}
    /\ kind # "close" => expected # None
    /\ expected # None => expected <= revision[s]
    /\ Begin(t, kind, s, expected)

\* put(): over capacity the least recently used idle session makes room, and
\* leaves no tombstone; with every session busy the open is refused.
Put(t) ==
    LET s == call[t].session
        idle == {i \in DOMAIN entries : inUse[entries[i]] = 0}
        victim == CHOOSE i \in idle : \A j \in idle : i <= j
        full == Len(entries) >= MaxEntries
    IN  /\ pc[t] = "entering"
        /\ call[t].kind = "open"
        /\ IF full /\ idle = {}
           THEN /\ Reply(t, "busy")
                /\ UNCHANGED <<entries, insertedAt>>
           ELSE /\ Reply(t, "ok")
                /\ entries' = Append(IF full THEN RemoveFirst(entries, entries[victim])
                                             ELSE entries, s)
                /\ insertedAt' = [insertedAt EXCEPT ![s] = call[t].read]
        /\ UNCHANGED <<now, tombstones, revision, inUse, lockedBy, closed, requests>>

\* Mutant: an outlived session is expired under the calls that use it.
LookupExpires(t) ==
    LET s == call[t].session
    IN  /\ pc[t] = "entering"
        /\ call[t].kind # "open"
        /\ s \in Stored
        /\ Outlived(s, call[t].read)
        /\ Expire(s)
        /\ Reply(t, "expired")
        /\ UNCHANGED <<now, slotVars, closed, requests>>

\* The lookup shared by get() and locked(), when it fails.
LookupFails(t) ==
    LET s == call[t].session
    IN  /\ pc[t] = "entering"
        /\ call[t].kind # "open"
        /\ \/ /\ s \in Stored
              /\ Outlived(s, call[t].read)
              /\ IF inUse[s] = 0 THEN Expire(s) ELSE UNCHANGED <<entries, tombstones>>
              /\ Reply(t, "expired")
           \/ /\ s \notin Stored
              /\ s \in Expired
              /\ tombstones' = Touch(tombstones, s)
              /\ UNCHANGED entries
              /\ Reply(t, "expired")
           \/ /\ s \notin Stored \cup Expired
              /\ UNCHANGED <<entries, tombstones>>
              /\ Reply(t, "missing")
        /\ UNCHANGED <<now, slotVars, closed, requests>>

LookupSucceeds(t) ==
    LET s == call[t].session
    IN  /\ pc[t] = "entering"
        /\ call[t].kind # "open"
        /\ s \in Stored
        /\ ~Outlived(s, call[t].read)
        /\ entries' = Touch(entries, s)

\* get() reads the session without its lock: sessions are replaced whole.
Get(t) ==
    /\ LookupSucceeds(t)
    /\ call[t].kind = "get"
    /\ Goto(t, "idle")
    /\ call' = [call EXCEPT ![t].seen = revision[call[t].session], ![t].answer = "ok"]
    /\ UNCHANGED <<now, tombstones, slotVars, closed, requests>>

Enter(t) ==
    /\ LookupSucceeds(t)
    /\ call[t].kind # "get"
    /\ Goto(t, "waiting")
    /\ inUse' = [inUse EXCEPT ![call[t].session] = @ + 1]
    /\ UNCHANGED <<now, tombstones, revision, insertedAt, lockedBy, call, closed, requests>>

\* Mutant: the lock is not waited for.
AcquireUnlocked(t) ==
    /\ pc[t] = "waiting"
    /\ lockedBy' = [lockedBy EXCEPT ![call[t].session] = t]
    /\ Goto(t, "reading")
    /\ UNCHANGED <<now, entries, tombstones, revision, inUse, insertedAt,
                   call, closed, requests>>

Acquire(t) ==
    LET s == call[t].session
    IN  /\ pc[t] = "waiting"
        /\ lockedBy[s] = None
        /\ lockedBy' = [lockedBy EXCEPT ![s] = t]
        /\ Goto(t, "reading")
        /\ UNCHANGED <<now, entries, tombstones, revision, inUse, insertedAt,
                       call, closed, requests>>

\* session = slot.session, and the comparison with the expected revision.
ReadSession(t) ==
    LET s == call[t].session
    IN  /\ pc[t] = "reading"
        /\ \/ /\ call[t].expected \in {None, revision[s]}
              /\ call' = [call EXCEPT ![t].seen = revision[s]]
              /\ Goto(t, "writing")
           \/ /\ call[t].expected \notin {None, revision[s]}
              /\ Answer(t, "conflict")
              /\ Goto(t, "releasing")
        /\ UNCHANGED <<now, entries, tombstones, slotVars, closed, requests>>

\* Mutant: an exception skips the release of the lock.
RefuseWithoutRelease(t) ==
    /\ pc[t] = "writing"
    /\ call[t].kind \in {"act", "alternatives"}
    /\ Answer(t, "refused")
    /\ Goto(t, "leaving")
    /\ UNCHANGED <<now, entries, tombstones, slotVars, closed, requests>>

\* dispatch_action() or the decoder raises: the slot keeps its session.
RefuseAction(t) ==
    /\ pc[t] = "writing"
    /\ call[t].kind \in {"act", "alternatives"}
    /\ Answer(t, "refused")
    /\ Goto(t, "releasing")
    /\ UNCHANGED <<now, entries, tombstones, slotVars, closed, requests>>

\* Mutant: the new session is put back into the map.
WriteBack(t) ==
    LET s == call[t].session
    IN  /\ pc[t] = "writing"
        /\ call[t].kind \in {"act", "alternatives"}
        /\ entries' = IF s \in Stored THEN Touch(entries, s) ELSE Append(entries, s)
        /\ Answer(t, "ok")
        /\ Goto(t, "releasing")
        /\ UNCHANGED <<now, tombstones, slotVars, closed, requests>>

\* slot.session becomes a copy of the session read before: an action raises
\* its revision, listing alternatives keeps it.
WriteSession(t) ==
    LET s == call[t].session
    IN  /\ pc[t] = "writing"
        /\ call[t].kind \in {"act", "alternatives"}
        /\ revision' = [revision EXCEPT ![s] =
               IF call[t].kind = "act" THEN call[t].seen + 1 ELSE call[t].seen]
        /\ Answer(t, "ok")
        /\ Goto(t, "releasing")
        /\ UNCHANGED <<now, entries, tombstones, inUse, insertedAt, lockedBy,
                       closed, requests>>

\* close() removes the session under the map lock, without a tombstone; calls
\* already waiting for the slot go on with it.
RemoveSession(t) ==
    LET s == call[t].session
    IN  /\ pc[t] = "writing"
        /\ call[t].kind = "close"
        /\ entries' = RemoveFirst(entries, s)
        /\ tombstones' = RemoveFirst(tombstones, s)
        /\ closed' = closed \cup {s}
        /\ Answer(t, "ok")
        /\ Goto(t, "releasing")
        /\ UNCHANGED <<now, slotVars, requests>>

Release(t) ==
    /\ pc[t] = "releasing"
    /\ lockedBy' = [lockedBy EXCEPT ![call[t].session] = None]
    /\ Goto(t, "leaving")
    /\ UNCHANGED <<now, entries, tombstones, revision, inUse, insertedAt,
                   call, closed, requests>>

\* The last user of a session that outlived its TTL expires it, unless it was
\* removed meanwhile.
Leave(t) ==
    LET s == call[t].session
    IN  /\ pc[t] = "leaving"
        /\ inUse' = [inUse EXCEPT ![s] = @ - 1]
        /\ IF Outlived(s, now) /\ inUse[s] = 1 /\ s \in Stored
           THEN Expire(s)
           ELSE UNCHANGED <<entries, tombstones>>
        /\ Goto(t, "idle")
        /\ UNCHANGED <<now, revision, insertedAt, lockedBy, call, closed, requests>>

Arrive(t) ==
    \E s \in Sessions :
        \/ BeginOpen(t, s)
        \/ BeginGet(t, s)
        \/ \E kind \in {"act", "alternatives", "close"},
              expected \in 0..MaxRequests \cup {None} : BeginLocked(t, kind, s, expected)

Proceed(t) ==
    \/ Put(t)
    \/ LookupFails(t)
    \/ Get(t)
    \/ Enter(t)
    \/ Acquire(t)
    \/ ReadSession(t)
    \/ RefuseAction(t)
    \/ WriteSession(t)
    \/ RemoveSession(t)
    \/ Release(t)
    \/ Leave(t)

Next == Tick \/ \E t \in Threads : Arrive(t) \/ Proceed(t)

Spec == Init /\ [][Next]_vars

\* The interpreter schedules every thread that can run; clients owe nothing.
FairSpec == Spec /\ \A t \in Threads : WF_vars(Proceed(t))

-----------------------------------------------------------------------------
(* Properties.                                                             *)

TypeOK ==
    /\ now \in 0..MaxNow
    /\ entries \in Seq(Sessions)
    /\ tombstones \in Seq(Sessions)
    /\ revision \in [Sessions -> Nat]
    /\ inUse \in [Sessions -> Nat]
    /\ insertedAt \in [Sessions -> Nat \cup {None}]
    /\ lockedBy \in [Sessions -> Threads \cup {None}]
    /\ pc \in [Threads -> {"idle", "entering", "waiting", "reading", "writing",
                           "releasing", "leaving"}]
    /\ call \in [Threads -> Calls \cup {None}]
    /\ \A t \in Threads : pc[t] # "idle" => call[t] # None
    /\ closed \subseteq Sessions
    /\ requests \in 0..MaxRequests

\* Neither map outgrows its capacity or names a session twice, and a session is
\* never stored and expired at once, whatever calls race.
StoreBounded ==
    /\ Len(entries) <= MaxEntries /\ IsInjective(entries)
    /\ Len(tombstones) <= MaxEntries /\ IsInjective(tombstones)
    /\ Stored \cap Expired = {}

Using(s) == {t \in Threads : /\ pc[t] \in {"waiting", "reading", "writing", "releasing", "leaving"}
                             /\ call[t].session = s}

\* in_use counts the calls that hold or await a slot, through every way a call
\* ends: eviction and expiry rely on zero meaning nobody.
InUseCounts == \A s \in Sessions : inUse[s] = Cardinality(Using(s))

\* A closed session is forgotten: a call that was waiting for it when it was
\* closed, and leaves after its TTL, brings back no tombstone.
ClosedForgotten == closed \cap (Stored \cup Expired) = {}

\* A session leaves the store for good.
GoneForGood ==
    [][ \A s \in Created : s \notin Stored => s \notin Stored' ]_vars

\* Nobody takes a session from under the calls that use it: it leaves the store
\* through one of its own users, by close() or because that user is the last.
BusySessionsStay ==
    [][ \A s \in Stored \ Stored' : Using(s) # {} =>
            \E t \in Using(s) : pc'[t] # pc[t] /\ (s \in closed' \/ Using(s) = {t}) ]_vars

\* Two requests never both build on the same revision, and the answer to every
\* request is the one it would get running alone.
Register == INSTANCE RevisionRegister WITH
    Clients <- Threads,
    request <- [t \in Threads |->
        IF call[t] = None THEN None
        ELSE [writes   |-> call[t].kind = "act",
              session  |-> call[t].session,
              expected |-> call[t].expected]],
    answer  <- [t \in Threads |-> IF call[t] = None THEN "none" ELSE call[t].answer]

RegisterSpec == Register!Spec

\* Every call ends: no thread waits for a slot's lock for ever, whatever the
\* calls before it met.  (Once requests stop arriving, as MaxRequests makes
\* them: an unfair lock may starve one thread among endless others.)
CallsEnd == \A t \in Threads : pc[t] # "idle" ~> pc[t] = "idle"

=============================================================================
