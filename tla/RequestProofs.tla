----------------------------- MODULE RequestProofs -----------------------------
(***************************************************************************)
(* What becomes of requests.                                               *)
(*                                                                         *)
(* What a conversational feedback session keeps for any intent, number of  *)
(* requests and language model: a request takes effect at most once, the   *)
(* results belong to the overrides, the page shows the revision it names,  *)
(* and the session is a revision log.                                      *)
(*                                                                         *)
(* What the remote inference gateway keeps for any number of callers and   *)
(* servers: places and counts come back, and a circuit whose cooldown has  *)
(* passed admits a probe as long as httpx raises only errors it classifies.*)
(***************************************************************************)
EXTENDS FeedbackSession, InferenceGateway, SequenceTheorems, FiniteSetTheorems, TLAPS

Matching(document) == document.overrides = document.results

\* A reply that names a revision shows the session as it was then: the next revision
\* after the request's when it was applied, the request's own otherwise.
Tells(q, reply, now, log) ==
    /\ reply.revision = IF reply.status = "applied" THEN q.expected + 1 ELSE q.expected
    /\ reply.revision \in 1..now
    /\ reply.state = log[reply.revision]

Truthful(q, reply) == Tells(q, reply, revision, states)

StatesRecorded ==
    /\ Len(states) = revision /\ states[revision] = state
    /\ \A i \in 1..revision : Matching(states[i])
    /\ \A i \in DOMAIN history : Matching(history[i])

AnswersRecorded ==
    /\ \A id \in Ids : committed[id] # None => Truthful(committed[id].request, committed[id].reply)
    /\ \A x \in answered :
          /\ Truthful(x[1], x[2])
          /\ x[1].kind = "turn" => committed[x[1].id] = [request |-> x[1], reply |-> x[2]]
          /\ x[1].kind = "undo" => x[1].expected < revision

\* Replies on their way are to the call that the page waits for, which named the
\* revision that the page shows.
PageRecorded ==
    /\ page.waits # None => page.waits.expected = page.revision
    /\ \A reply \in replies \ Refusals : page.waits # None /\ Truthful(page.waits, reply)

IInv ==
    /\ TypeOK /\ StatesRecorded /\ AnswersRecorded /\ AnswersStable
    /\ PageRecorded /\ PageShowsRevision /\ page.revision > 0

-----------------------------------------------------------------------------
(* The log of states only grows.                                           *)

Grows == /\ revision' \in Nat /\ revision <= revision'
         /\ \A i \in 1..revision : states'[i] = states[i]

\* A reply stays true while the log of states grows.
LEMMA TruthfulKept ==
    ASSUME TypeOK, Grows
    PROVE  \A q, reply : reply \in Reply /\ Tells(q, reply, revision, states)
                              => Tells(q, reply, revision', states')
BY DEF TypeOK, Grows, Tells, Reply

\* The invariant holds of a session that was just opened.
LEMMA InitInv == Init => IInv
<1> SUFFICES ASSUME Init PROVE IInv
    OBVIOUS
<1>1. Opened \in State /\ Matching(Opened)
    BY DEF Opened, State, Unrefined, Overrides, Matching
<1>2. TypeOK
    <2>1. states \in Seq(State) /\ history \in Seq(Document) /\ Len(history) <= Limit
        BY <1>1, FeedbackAssumption DEF Init
    <2>2. page \in [revision : Nat, state : State, frames : Overrides, waits : requests \cup {None}]
        BY <1>1 DEF Init, Unrefined, Overrides
    <2>3. committed \in [Ids -> {None} \cup [request : Request, reply : Reply]]
        BY DEF Init
    <2>4. states \in Seq(State) /\ answered \subseteq Request \X Reply
        BY <1>1, <2>1 DEF Init
    <2> QED  BY <1>1, <2>1, <2>2, <2>3, <2>4 DEF Init, TypeOK
<1>3. StatesRecorded
    BY <1>1 DEF Init, StatesRecorded
<1>4. AnswersRecorded /\ AnswersStable
    BY DEF Init, AnswersRecorded, AnswersStable
<1>5. PageRecorded /\ PageShowsRevision /\ page.revision > 0
    BY DEF Init, PageRecorded, PageShowsRevision, Opened
<1> QED  BY <1>2, <1>3, <1>4, <1>5 DEF IInv

-----------------------------------------------------------------------------
(* A request is executed.                                                  *)

\* Answering a request keeps the types of what is answered.
LEMMA AnswerTypes ==
    ASSUME TypeOK, NEW q \in requests, NEW reply \in Reply \cup Refusals, Answer(q, reply)
    PROVE  /\ replies' \subseteq Reply \cup Refusals
           /\ answered' \subseteq Request \X Reply
<1>1. q \in Request
    BY DEF TypeOK
<1>2. replies' \subseteq Reply \cup Refusals
    BY DEF TypeOK, Answer
<1>3. answered' \subseteq Request \X Reply
    <2>1. CASE reply \in Refusals
        BY <2>1 DEF TypeOK, Answer
    <2>2. CASE reply \notin Refusals
        BY <1>1, <2>2 DEF TypeOK, Answer
    <2> QED  BY <2>1, <2>2
<1> QED  BY <1>2, <1>3

\* No reply is a refusal.
LEMMA NoRefusal == \A reply \in Reply : reply \notin Refusals
BY DEF Reply, Refusals

\* The page's books after an answer was sent.
LEMMA PageTold ==
    ASSUME IInv, Grows, NEW q \in requests, NEW reply \in Reply \cup Refusals,
           Answer(q, reply), reply \in Refusals \/ Tells(q, reply, revision', states'),
           UNCHANGED <<requests, page>>
    PROVE  PageRecorded' /\ PageShowsRevision' /\ (page.revision > 0)'
<1>1. q \in Request /\ q # None
    BY NoRecordAssumption DEF IInv, TypeOK
<1>2. ASSUME NEW r \in replies' \ Refusals
      PROVE  page.waits # None /\ Tells(page.waits, r, revision', states')
    <2>1. CASE r \in replies
        <3>1. page.waits # None /\ Tells(page.waits, r, revision, states) /\ r \in Reply
            BY <1>2, <2>1 DEF IInv, TypeOK, PageRecorded, Truthful
        <3> QED  BY <3>1, TruthfulKept DEF IInv
    <2>2. CASE r \notin replies
        BY <1>1, <1>2, <2>2 DEF Answer
    <2> QED  BY <2>1, <2>2
<1>3. PageRecorded'
    BY <1>2 DEF IInv, PageRecorded, Truthful
<1>4. page.revision \in Nat
    BY DEF IInv, TypeOK
<1> QED  BY <1>3, <1>4 DEF IInv, PageShowsRevision, Grows, TypeOK

\* A request answered with the state of a revision, that was not answered otherwise.
LEMMA Executed ==
    ASSUME IInv, Grows, NEW q \in requests, NEW reply \in Reply, Answer(q, reply),
           UNCHANGED <<requests, page>>, TypeOK', StatesRecorded',
           Tells(q, reply, revision', states'),
           \A x \in answered : x[1] = q => x[2] = reply,
           \A x \in answered : x[1].kind = "turn" => committed'[x[1].id] = committed[x[1].id],
           \A id \in Ids : \/ committed'[id] = committed[id]
                           \/ committed'[id] = [request |-> q, reply |-> reply],
           q.kind = "turn" => committed'[q.id] = [request |-> q, reply |-> reply],
           q.kind = "undo" => q.expected < revision'
    PROVE  IInv'
<1>1. reply \notin Refusals /\ answered' = answered \cup {<<q, reply>>} /\ q \in Request
    BY NoRefusal DEF Answer, IInv, TypeOK
<1>2. ASSUME NEW id \in Ids, committed'[id] # None
      PROVE  Tells(committed'[id].request, committed'[id].reply, revision', states')
    <2>1. CASE committed'[id] = [request |-> q, reply |-> reply]
        BY <2>1
    <2>2. CASE committed'[id] = committed[id]
        <3>1. /\ Tells(committed[id].request, committed[id].reply, revision, states)
              /\ committed[id].reply \in Reply
            BY <1>2, <2>2 DEF IInv, TypeOK, AnswersRecorded, Truthful
        <3> QED  BY <2>2, <3>1, TruthfulKept DEF IInv
    <2> QED  BY <2>1, <2>2
<1>3. ASSUME NEW x \in answered'
      PROVE  /\ Tells(x[1], x[2], revision', states')
             /\ x[1].kind = "turn" => committed'[x[1].id] = [request |-> x[1], reply |-> x[2]]
             /\ x[1].kind = "undo" => x[1].expected < revision'
    <2>1. CASE x \in answered
        <3>1. x[1] \in Request /\ x[2] \in Reply
            BY <2>1 DEF IInv, TypeOK
        <3>2. Tells(x[1], x[2], revision', states')
            BY <2>1, <3>1, TruthfulKept DEF IInv, AnswersRecorded, Truthful
        <3>3. x[1].kind = "undo" => x[1].expected < revision'
            <4>1. x[1].expected \in Nat /\ revision \in Nat
                BY <3>1 DEF IInv, TypeOK, Request
            <4>2. x[1].kind = "undo" => x[1].expected < revision
                BY <2>1 DEF IInv, AnswersRecorded
            <4> QED  BY <4>1, <4>2 DEF Grows
        <3>4. x[1].kind = "turn" => committed'[x[1].id] = [request |-> x[1], reply |-> x[2]]
            BY <2>1 DEF IInv, AnswersRecorded
        <3> QED  BY <3>2, <3>3, <3>4
    <2>2. CASE x = <<q, reply>>
        BY <2>2
    <2> QED  BY <1>1, <2>1, <2>2
<1>4. AnswersRecorded'
    BY <1>2, <1>3 DEF AnswersRecorded, Truthful
<1>5. AnswersStable'
    BY <1>1 DEF IInv, AnswersStable
<1>6. PageRecorded' /\ PageShowsRevision' /\ (page.revision > 0)'
    BY PageTold
<1> QED  BY <1>4, <1>5, <1>6 DEF IInv

\* A turn that was not committed, or an undo of the present revision, has no answer yet.
LEMMA Unanswered ==
    ASSUME IInv, NEW q \in requests, q.kind = "turn" => committed[q.id] = None,
           q.kind = "undo" => q.expected = revision
    PROVE  \A x \in answered : x[1] # q
<1> SUFFICES ASSUME NEW x \in answered, x[1] = q PROVE FALSE
    OBVIOUS
<1>1. q \in Request /\ x[2] \in Reply
    BY DEF IInv, TypeOK
<1>2. CASE q.kind = "turn"
    <2>1. [request |-> q, reply |-> x[2]] = None
        BY <1>2 DEF IInv, AnswersRecorded
    <2> QED  BY <1>1, <2>1, NoRecordAssumption
<1>3. CASE q.kind = "undo"
    <2>1. q.expected \in Nat /\ revision \in Nat /\ q.expected < revision /\ q.expected = revision
        BY <1>1, <1>3 DEF IInv, AnswersRecorded, TypeOK, Request
    <2> QED  BY <2>1
<1>4. q.kind \in {"turn", "undo"}
    BY <1>1 DEF Request
<1> QED  BY <1>2, <1>3, <1>4

\* An id that is not committed is not that of an answered turn.
LEMMA OtherTurns ==
    ASSUME IInv, NEW q \in requests, committed[q.id] = None
    PROVE  \A x \in answered : x[1].kind = "turn" => x[1].id # q.id
<1>1. \A r \in Reply, p \in Request : [request |-> p, reply |-> r] # None
    BY NoRecordAssumption
<1>2. \A x \in answered : x[1] \in Request /\ x[2] \in Reply
    BY DEF IInv, TypeOK
<1>3. \A x \in answered :
          x[1].kind = "turn" => committed[x[1].id] = [request |-> x[1], reply |-> x[2]]
    BY DEF IInv, AnswersRecorded
<1> QED  BY <1>1, <1>2, <1>3

\* The checkpoints that are kept are the newest ones, within the limit.
LEMMA KeptCheckpoints ==
    ASSUME NEW S, NEW s \in Seq(S), Len(s) <= Limit + 1
    PROVE  /\ Kept(s) \in Seq(S) /\ Len(Kept(s)) <= Limit
           /\ \A i \in DOMAIN Kept(s) : \E j \in DOMAIN s : Kept(s)[i] = s[j]
<1>1. Limit \in Nat \ {0} /\ Len(s) \in Nat
    BY FeedbackAssumption
<1>2. CASE Len(s) > Limit
    <2>1. SubSeq(s, 2, Len(s)) \in Seq(S) /\ Len(SubSeq(s, 2, Len(s))) = Len(s) - 1
        BY <1>1, <1>2
    <2>2. \A i \in 1..(Len(s) - 1) : SubSeq(s, 2, Len(s))[i] = s[i + 1] /\ i + 1 \in DOMAIN s
        BY <1>1, <1>2
    <2> QED  BY <1>1, <1>2, <2>1, <2>2 DEF Kept
<1>3. CASE ~(Len(s) > Limit)
    BY <1>1, <1>3 DEF Kept
<1> QED  BY <1>2, <1>3

\* Entering the next revision keeps the record of the states.
LEMMA AdvanceStep ==
    ASSUME IInv, NEW new \in State, Matching(new), Advance(new),
           \A i \in DOMAIN history' : Matching(history'[i])
    PROVE  /\ Grows /\ StatesRecorded' /\ states' \in Seq(State)
           /\ revision' = revision + 1 /\ revision' \in Nat \ {0} /\ state' \in State
           /\ states'[revision + 1] = new
<1>1. /\ revision \in Nat \ {0} /\ states \in Seq(State) /\ Len(states) = revision
      /\ \A i \in 1..revision : Matching(states[i])
    BY DEF IInv, TypeOK, StatesRecorded
<1>2. /\ states' = Append(states, new) /\ revision' = revision + 1 /\ state' = new
    BY DEF Advance
<1>3. /\ states' \in Seq(State) /\ Len(states') = revision + 1
      /\ \A i \in 1..revision : states'[i] = states[i]
      /\ states'[revision + 1] = new
    BY <1>1, <1>2
<1>4. \A i \in 1..(revision + 1) : Matching(states'[i])
    BY <1>1, <1>3
<1>5. StatesRecorded'
    BY <1>2, <1>3, <1>4 DEF StatesRecorded, Matching
<1> QED  BY <1>1, <1>2, <1>3, <1>5 DEF Grows

\* A step that leaves the session alone keeps its record.
LEMMA StayStep ==
    ASSUME IInv, UNCHANGED <<revision, state, history, states>>
    PROVE  Grows /\ StatesRecorded'
BY DEF IInv, TypeOK, StatesRecorded, Grows, Matching

\* Answering a repeated turn keeps the invariant.
LEMMA ReplayStep ==
    ASSUME IInv, NEW q \in requests, Replay(q)
    PROVE  IInv'
<1> DEFINE reply == committed[q.id].reply
<1>1. q \in Request /\ q.id \in Ids /\ committed[q.id] = [request |-> q, reply |-> reply]
    BY DEF IInv, TypeOK, Request, Replay
<1>2. reply \in Reply /\ Answer(q, reply) /\ UNCHANGED <<sessionVars, requests, page, states>>
    BY <1>1 DEF IInv, TypeOK, Replay
<1>3. Grows /\ StatesRecorded'
    BY <1>2, StayStep DEF sessionVars
<1>4. TypeOK'
    BY <1>2, AnswerTypes DEF IInv, TypeOK, sessionVars
<1>5. Tells(q, reply, revision', states')
    BY <1>1, <1>2 DEF IInv, AnswersRecorded, Truthful, Replay, sessionVars
<1>6. \A x \in answered : x[1] = q => x[2] = reply
    <2>1. ASSUME NEW x \in answered, x[1] = q PROVE x[2] = reply
        <3>1. committed[q.id] = [request |-> q, reply |-> x[2]]
            BY <2>1 DEF IInv, AnswersRecorded, Replay
        <3> QED  BY <3>1
    <2> QED  BY <2>1
<1>7. UNCHANGED committed /\ q.kind = "turn"
    BY <1>2 DEF Replay, sessionVars
<1> HIDE DEF reply
<1> QED  BY <1>1, <1>2, <1>3, <1>4, <1>5, <1>6, <1>7, Executed

\* Refusing a stale request keeps the invariant.
LEMMA RefuseStep ==
    ASSUME IInv, NEW q \in requests, Refuse(q)
    PROVE  IInv'
<1>1. PICK reply \in Refusals : Answer(q, reply)
    BY DEF Refuse, Refusal, Refusals
<1>2. UNCHANGED <<sessionVars, requests, page, states>>
    BY DEF Refuse
<1>3. Grows /\ StatesRecorded'
    BY <1>2, StayStep DEF sessionVars
<1>4. TypeOK'
    BY <1>1, <1>2, AnswerTypes DEF IInv, TypeOK, sessionVars
<1>5. UNCHANGED answered
    BY <1>1 DEF Answer
<1>6. AnswersRecorded' /\ AnswersStable'
    BY <1>2, <1>5 DEF IInv, AnswersRecorded, AnswersStable, Truthful, sessionVars
<1>7. PageRecorded' /\ PageShowsRevision' /\ (page.revision > 0)'
    BY <1>1, <1>2, <1>3, PageTold
<1> QED  BY <1>3, <1>4, <1>6, <1>7 DEF IInv

\* Answering without a change keeps the invariant.
LEMMA RespondStep ==
    ASSUME IInv, NEW q \in requests, Respond(q)
    PROVE  IInv'
<1>1. PICK status \in {"clarification", "proposal"} :
          LET reply == [status |-> status, revision |-> revision, state |-> state]
          IN  /\ committed' = [committed EXCEPT ![q.id] = [request |-> q, reply |-> reply]]
              /\ Answer(q, reply)
    BY DEF Respond
<1> DEFINE reply == [status |-> status, revision |-> revision, state |-> state]
<1>2. /\ q \in Request /\ q.id \in Ids /\ q.kind = "turn" /\ q.expected = revision
      /\ committed[q.id] = None
      /\ UNCHANGED <<revision, state, history, requests, page, states>>
    BY DEF Respond, Fresh, Outdated, IInv, TypeOK, Request
<1>3. reply \in Reply /\ reply.status # "applied" /\ reply.revision = revision /\ reply.state = state
    BY DEF IInv, TypeOK, Reply
<1> HIDE DEF reply
<1>4. Answer(q, reply) /\ committed' = [committed EXCEPT ![q.id] = [request |-> q, reply |-> reply]]
    BY <1>1 DEF reply
<1>5. Grows /\ StatesRecorded'
    BY <1>2, StayStep
<1>6. committed' \in [Ids -> {None} \cup [request : Request, reply : Reply]]
    BY <1>2, <1>3, <1>4 DEF IInv, TypeOK
<1>7. TypeOK'
    BY <1>2, <1>3, <1>4, <1>6, AnswerTypes DEF IInv, TypeOK
<1>8. Tells(q, reply, revision', states')
    BY <1>2, <1>3 DEF Tells, IInv, StatesRecorded, TypeOK
<1>9. \A x \in answered : x[1] # q
    BY <1>2, Unanswered
<1>10. \A x \in answered : x[1].kind = "turn" => x[1].id # q.id
    BY <1>2, OtherTurns
<1>11. \A id \in Ids : committed'[id] = IF id = q.id THEN [request |-> q, reply |-> reply]
                                        ELSE committed[id]
    BY <1>4 DEF IInv, TypeOK
<1>12. \A x \in answered : x[1].kind = "turn" => committed'[x[1].id] = committed[x[1].id]
    BY <1>10, <1>11 DEF IInv, TypeOK, Request
<1> QED  BY <1>2, <1>3, <1>4, <1>5, <1>7, <1>8, <1>9, <1>11, <1>12, Executed

\* Committing a turn keeps the invariant.
LEMMA CommitTurnStep ==
    ASSUME IInv, NEW q \in requests, NEW overrides \in Overrides, CommitTurn(q, overrides)
    PROVE  IInv'
<1> DEFINE new == [overrides |-> overrides, results |-> overrides, canUndo |-> TRUE]
           reply == [status |-> "applied", revision |-> revision + 1, state |-> new]
<1>1. /\ q \in Request /\ q.id \in Ids /\ q.kind = "turn" /\ q.expected = revision
      /\ committed[q.id] = None /\ revision \in Nat
    BY DEF CommitTurn, Fresh, Outdated, IInv, TypeOK, Request
<1>2. new \in State /\ Matching(new)
    BY DEF State, Matching
<1>3. reply \in Reply /\ reply.status = "applied" /\ reply.revision = revision + 1
      /\ reply.state = new
    BY <1>1, <1>2 DEF Reply
<1>4. /\ history' = Kept(Append(history, Checkpoint)) /\ Advance(new)
      /\ committed' = [committed EXCEPT ![q.id] = [request |-> q, reply |-> reply]]
      /\ Answer(q, reply) /\ UNCHANGED <<requests, page>>
    BY DEF CommitTurn
<1> HIDE DEF reply, new
<1>5. /\ history' \in Seq(Document) /\ Len(history') <= Limit
      /\ \A i \in DOMAIN history' : Matching(history'[i])
    <2>1. /\ history \in Seq(Document) /\ Len(history) <= Limit
          /\ Checkpoint \in Document /\ Matching(Checkpoint)
          /\ \A i \in DOMAIN history : Matching(history[i])
        <3>1. state \in State /\ state.overrides = state.results
            BY DEF IInv, TypeOK, StatesRecorded, Matching
        <3> QED  BY <3>1 DEF IInv, TypeOK, StatesRecorded, Checkpoint, Document, State, Matching
    <2> DEFINE s == Append(history, Checkpoint)
    <2>2. s \in Seq(Document) /\ Len(s) <= Limit + 1 /\ \A i \in DOMAIN s : Matching(s[i])
        BY <2>1, FeedbackAssumption
    <2> HIDE DEF s
    <2>3. /\ Kept(s) \in Seq(Document) /\ Len(Kept(s)) <= Limit
          /\ \A i \in DOMAIN Kept(s) : \E j \in DOMAIN s : Kept(s)[i] = s[j]
        BY <2>2, KeptCheckpoints
    <2>4. history' = Kept(s)
        BY <1>4 DEF s
    <2> QED  BY <2>2, <2>3, <2>4
<1>6. /\ Grows /\ StatesRecorded' /\ states' \in Seq(State)
      /\ revision' = revision + 1 /\ revision' \in Nat \ {0} /\ state' \in State
      /\ states'[revision + 1] = new
    BY <1>2, <1>4, <1>5, AdvanceStep
<1>7. committed' \in [Ids -> {None} \cup [request : Request, reply : Reply]]
    BY <1>1, <1>3, <1>4 DEF IInv, TypeOK
<1>8. TypeOK'
    BY <1>3, <1>4, <1>5, <1>6, <1>7, AnswerTypes DEF IInv, TypeOK
<1>9. Tells(q, reply, revision', states')
    BY <1>1, <1>3, <1>6 DEF Tells
<1>10. \A x \in answered : x[1] # q
    BY <1>1, Unanswered
<1>11. \A x \in answered : x[1].kind = "turn" => x[1].id # q.id
    BY <1>1, OtherTurns
<1>12. \A id \in Ids : committed'[id] = IF id = q.id THEN [request |-> q, reply |-> reply]
                                        ELSE committed[id]
    BY <1>4 DEF IInv, TypeOK
<1>13. \A x \in answered : x[1].kind = "turn" => committed'[x[1].id] = committed[x[1].id]
    BY <1>11, <1>12 DEF IInv, TypeOK, Request
<1> QED  BY <1>1, <1>3, <1>4, <1>6, <1>8, <1>9, <1>10, <1>12, <1>13, Executed

\* Refining the overrides of events keeps the invariant.
LEMMA RefineStep ==
    ASSUME IInv, NEW q \in requests, Refine(q)
    PROVE  IInv'
<1>0. PICK ids \in SUBSET (Events \cup Invented) : \E refinements \in [ids -> Texts] :
          CommitTurn(q, [e \in Events \cup Invented |->
                             IF e \in ids THEN refinements[e] ELSE state.overrides[e]])
    BY DEF Refine
<1>1. PICK refinements \in [ids -> Texts] :
          CommitTurn(q, [e \in Events \cup Invented |->
                             IF e \in ids THEN refinements[e] ELSE state.overrides[e]])
    BY <1>0
<1>2. state.overrides \in [Events \cup Invented -> Texts \cup {None}]
    BY DEF IInv, TypeOK, State, Overrides
<1>3. [e \in Events \cup Invented |->
           IF e \in ids THEN refinements[e] ELSE state.overrides[e]] \in Overrides
    BY <1>2 DEF Overrides
<1> QED  BY <1>1, <1>3, CommitTurnStep

\* Repairing an event keeps the invariant.
LEMMA RepairStep ==
    ASSUME IInv, NEW q \in requests, Repair(q)
    PROVE  IInv'
<1>1. PICK e \in Events : CommitTurn(q, [state.overrides EXCEPT ![e] = q.message])
    BY DEF Repair
<1>2. state.overrides \in Overrides /\ q.message \in Texts \cup {None}
    BY DEF IInv, TypeOK, State, Request
<1>3. [state.overrides EXCEPT ![e] = q.message] \in Overrides
    BY <1>2 DEF Overrides
<1> QED  BY <1>1, <1>3, CommitTurnStep

\* Undo keeps the invariant.
LEMMA UndoStep ==
    ASSUME IInv, NEW q \in requests, Undo(q)
    PROVE  IInv'
<1> DEFINE new == [overrides |-> Last.overrides, results |-> Last.results, canUndo |-> Rest # <<>>]
           reply == [status |-> "applied", revision |-> revision + 1, state |-> new]
<1>1. /\ q \in Request /\ q.kind = "undo" /\ q.expected = revision /\ history # <<>>
      /\ revision \in Nat
    BY DEF Undo, Restore, Outdated, IInv, TypeOK
<1>2. /\ history' = Rest /\ Advance(new) /\ Answer(q, reply)
      /\ UNCHANGED <<committed, requests, page>>
    BY DEF Undo, Restore
<1>3. /\ history \in Seq(Document) /\ Len(history) <= Limit
      /\ \A i \in DOMAIN history : Matching(history[i])
    BY DEF IInv, TypeOK, StatesRecorded
<1>4. Len(history) \in Nat \ {0} /\ Last \in Document /\ Matching(Last)
    BY <1>1, <1>3 DEF Last
<1>5. /\ Rest \in Seq(Document) /\ Len(Rest) = Len(history) - 1
      /\ \A i \in DOMAIN Rest : Rest[i] = history[i] /\ i \in DOMAIN history
    <2>1. Len(history) - 1 \in 0..Len(history)
        BY <1>4
    <2>2. /\ Rest \in Seq(Document) /\ Len(Rest) = Len(history) - 1
          /\ \A i \in 1..(Len(history) - 1) : Rest[i] = history[i]
        <3> DEFINE n == Len(history) - 1
        <3>1. n \in Nat /\ \A i \in 1..n : history[i] \in Document
            BY <1>3, <2>1
        <3> HIDE DEF n
        <3>2. /\ SubSeq(history, 1, n) \in Seq(Document)
              /\ Len(SubSeq(history, 1, n)) = (IF 1 <= n THEN n - 1 + 1 ELSE 0)
              /\ \A i \in 1..(n - 1 + 1) : SubSeq(history, 1, n)[i] = history[1 + i - 1]
            BY <3>1, SubSeqProperties
        <3>3. /\ Len(SubSeq(history, 1, n)) = n
              /\ \A i \in 1..n : SubSeq(history, 1, n)[i] = history[i]
            BY <3>1, <3>2
        <3> QED  BY <3>2, <3>3 DEF Rest, n
    <2> QED  BY <1>3, <1>4, <2>2
<1>6. new \in State /\ Matching(new)
    BY <1>4 DEF Document, State, Matching
<1>7. reply \in Reply /\ reply.status = "applied" /\ reply.revision = revision + 1
      /\ reply.state = new
    BY <1>1, <1>6 DEF Reply
<1> HIDE DEF reply, new
<1>8. \A i \in DOMAIN history' : Matching(history'[i])
    BY <1>2, <1>3, <1>5
<1>9. /\ Grows /\ StatesRecorded' /\ states' \in Seq(State)
      /\ revision' = revision + 1 /\ revision' \in Nat \ {0} /\ state' \in State
      /\ states'[revision + 1] = new
    BY <1>2, <1>6, <1>8, AdvanceStep
<1>10. history' \in Seq(Document) /\ Len(history') <= Limit
    BY <1>2, <1>3, <1>4, <1>5, FeedbackAssumption
<1>11. TypeOK'
    BY <1>2, <1>7, <1>9, <1>10, AnswerTypes DEF IInv, TypeOK
<1>12. Tells(q, reply, revision', states')
    BY <1>1, <1>7, <1>9 DEF Tells
<1>13. \A x \in answered : x[1] # q
    BY <1>1, Unanswered
<1>14. q.expected < revision' /\ q.kind # "turn" /\ UNCHANGED committed
    BY <1>1, <1>2, <1>9
<1> QED  BY <1>2, <1>7, <1>9, <1>11, <1>12, <1>13, <1>14, Executed

\* Whatever a request does keeps the invariant.
LEMMA ExecuteStep ==
    ASSUME IInv, NEW q \in requests, Execute(q)
    PROVE  IInv'
BY ReplayStep, RefuseStep, RespondStep, RefineStep, RepairStep, UndoStep DEF Execute

-----------------------------------------------------------------------------
(* The page and other callers.                                             *)

\* Steps outside the session leave what it recorded alone.
LEMMA SessionAlone ==
    ASSUME IInv, UNCHANGED <<sessionVars, states, answered>>
    PROVE  /\ Grows /\ StatesRecorded' /\ AnswersRecorded' /\ AnswersStable'
           /\ \A q, r : Tells(q, r, revision', states') <=> Tells(q, r, revision, states)
BY StayStep DEF IInv, AnswersRecorded, AnswersStable, Truthful, sessionVars

\* Sending a request from the page keeps the invariant.
LEMMA SendStep ==
    ASSUME IInv, NEW q \in Sendable, Send(q)
    PROVE  IInv'
<1>1. q \in Request /\ page.waits = None /\ q.expected = page.revision
    BY FeedbackAssumption DEF Sendable, Request, Send
<1>2. /\ requests' = requests \cup {q} /\ page' = [page EXCEPT !.waits = q]
      /\ UNCHANGED <<sessionVars, replies, ghostVars>>
    BY DEF Send
<1>3. /\ page' \in [revision : Nat, state : State, frames : Overrides, waits : requests' \cup {None}]
      /\ page'.waits = q /\ page'.revision = page.revision /\ page'.state = page.state
      /\ page'.frames = page.frames
    BY <1>2 DEF IInv, TypeOK
<1>4. TypeOK'
    BY <1>1, <1>2, <1>3 DEF IInv, TypeOK, sessionVars, ghostVars
<1>5. replies' \ Refusals = {}
    BY <1>1, <1>2 DEF IInv, PageRecorded
<1>6. PageRecorded' /\ PageShowsRevision' /\ (page.revision > 0)'
    BY <1>1, <1>2, <1>3, <1>5 DEF IInv, PageRecorded, PageShowsRevision, sessionVars, ghostVars
<1> QED  BY <1>2, <1>4, <1>6, SessionAlone DEF IInv, ghostVars

\* Requests from elsewhere keep the invariant.
LEMMA SendOtherStep ==
    ASSUME IInv, NEW q \in Sendable, SendOther(q)
    PROVE  IInv'
<1>1. q \in Request
    BY FeedbackAssumption DEF Sendable, Request
<1>2. requests' = requests \cup {q} /\ UNCHANGED <<sessionVars, replies, page, ghostVars>>
    BY DEF SendOther
<1>3. TypeOK'
    BY <1>1, <1>2 DEF IInv, TypeOK, sessionVars, ghostVars
<1>4. PageRecorded' /\ PageShowsRevision' /\ (page.revision > 0)'
    BY <1>2 DEF IInv, PageRecorded, PageShowsRevision, Truthful, sessionVars, ghostVars
<1> QED  BY <1>2, <1>3, <1>4, SessionAlone DEF IInv, ghostVars

\* The page stops waiting; it shows what it did, or what the reply told it.
LEMMA PageStep ==
    ASSUME IInv, UNCHANGED <<sessionVars, requests, states, answered>>,
           replies' = {}, page'.waits = None,
           page' \in [revision : Nat, state : State, frames : Overrides, waits : {None}],
           PageShowsRevision', page'.revision > 0
    PROVE  IInv'
<1>1. TypeOK'
    BY DEF IInv, TypeOK, sessionVars
<1>2. PageRecorded'
    BY DEF PageRecorded
<1> QED  BY <1>1, <1>2, SessionAlone DEF IInv

\* A refusal the page receives, or giving up, keeps the invariant.
LEMMA SilentStep ==
    ASSUME IInv, ReceiveRefusal \/ GiveUp
    PROVE  IInv'
<1>1. /\ replies' = {} /\ page' = Idle(page)
      /\ UNCHANGED <<sessionVars, requests, states, answered>>
    BY DEF ReceiveRefusal, GiveUp, ghostVars, IInv, TypeOK
<1>2. /\ page' \in [revision : Nat, state : State, frames : Overrides, waits : {None}]
      /\ page'.waits = None /\ page'.revision = page.revision /\ page'.state = page.state
      /\ page'.frames = page.frames
    BY <1>1 DEF IInv, TypeOK, Idle
<1>3. PageShowsRevision' /\ page'.revision > 0
    BY <1>1, <1>2 DEF IInv, PageShowsRevision, sessionVars
<1> QED  BY <1>1, <1>2, <1>3, PageStep

\* What a reply that reaches the page says about what it shows.
LEMMA ReplyShown ==
    ASSUME IInv, NEW reply \in replies \ Refusals
    PROVE  /\ reply \in Reply /\ page.waits \in Request /\ page.waits.expected = page.revision
           /\ reply.revision = IF reply.status = "applied" THEN page.revision + 1 ELSE page.revision
           /\ reply.revision \in 1..revision /\ reply.state = states[reply.revision]
           /\ page.revision \in Nat \ {0} /\ page.state = states[page.revision]
           /\ page.frames = page.state.results /\ revision \in Nat
BY DEF IInv, TypeOK, PageRecorded, PageShowsRevision, Truthful, Tells

\* Receiving the reply to a turn keeps the invariant.
LEMMA ReceiveTurnStep ==
    ASSUME IInv, ReceiveTurn
    PROVE  IInv'
<1>1. PICK reply \in replies \ Refusals :
          LET shown == IF reply.revision < page.revision \/ reply.status = "clarification"
                       THEN page
                       ELSE [page EXCEPT !.revision = reply.revision, !.state = reply.state]
          IN  page' = Idle(IF reply.status = "applied"
                           THEN [shown EXCEPT !.frames = reply.state.results] ELSE shown)
    BY DEF ReceiveTurn
<1>2. /\ replies' = {} /\ UNCHANGED <<sessionVars, requests, states, answered>>
    BY DEF ReceiveTurn, ghostVars, IInv, TypeOK
<1>3. page \in [revision : Nat, state : State, frames : Overrides, waits : requests \cup {None}]
    BY DEF IInv, TypeOK
<1>4. reply.state.results \in Overrides /\ reply.state \in State /\ reply.revision \in Nat
    BY ReplyShown DEF Reply, State
<1>5. CASE reply.status = "applied"
    <2>1. page' = Idle([[page EXCEPT !.revision = reply.revision, !.state = reply.state]
                            EXCEPT !.frames = reply.state.results])
        <3>1. ~(reply.revision < page.revision) /\ reply.status # "clarification"
            BY <1>5, ReplyShown
        <3> QED  BY <1>1, <1>5, <3>1
    <2>2. /\ page'.revision = reply.revision /\ page'.state = reply.state /\ page'.waits = None
          /\ page'.frames = reply.state.results
          /\ page' \in [revision : Nat, state : State, frames : Overrides, waits : {None}]
        BY <1>3, <1>4, <2>1 DEF Idle
    <2>3. PageShowsRevision' /\ page'.revision > 0
        BY <1>2, <2>2, ReplyShown DEF PageShowsRevision, sessionVars
    <2> QED  BY <1>2, <2>2, <2>3, PageStep
<1>6. CASE reply.status = "proposal"
    <2>1. page' = Idle([page EXCEPT !.revision = reply.revision, !.state = reply.state])
        BY <1>1, <1>6, ReplyShown
    <2>2. /\ page'.revision = reply.revision /\ page'.state = reply.state /\ page'.waits = None
          /\ page'.frames = page.frames
          /\ page' \in [revision : Nat, state : State, frames : Overrides, waits : {None}]
        BY <1>3, <1>4, <2>1 DEF Idle
    <2>3. PageShowsRevision' /\ page'.revision > 0
        BY <1>2, <1>6, <2>2, ReplyShown DEF PageShowsRevision, sessionVars
    <2> QED  BY <1>2, <2>2, <2>3, PageStep
<1>7. CASE reply.status = "clarification"
    <2>1. page' = Idle(page)
        BY <1>1, <1>7
    <2>2. /\ page'.revision = page.revision /\ page'.state = page.state /\ page'.waits = None
          /\ page'.frames = page.frames
          /\ page' \in [revision : Nat, state : State, frames : Overrides, waits : {None}]
        BY <1>3, <2>1 DEF Idle
    <2>3. PageShowsRevision' /\ page'.revision > 0
        BY <1>2, <2>2 DEF IInv, PageShowsRevision, sessionVars
    <2> QED  BY <1>2, <2>2, <2>3, PageStep
<1> QED  BY <1>5, <1>6, <1>7, ReplyShown DEF Reply

\* Receiving the reply to an undo keeps the invariant.
LEMMA ReceiveUndoStep ==
    ASSUME IInv, ReceiveUndo
    PROVE  IInv'
<1>1. PICK reply \in replies \ Refusals :
          page' = Idle([page EXCEPT !.revision = reply.revision, !.state = reply.state,
                                    !.frames = reply.state.results])
    BY DEF ReceiveUndo, ShowUndo
<1>2. /\ replies' = {} /\ UNCHANGED <<sessionVars, requests, states, answered>>
    BY DEF ReceiveUndo, ShowUndo, ghostVars, IInv, TypeOK
<1>3. page \in [revision : Nat, state : State, frames : Overrides, waits : requests \cup {None}]
    BY DEF IInv, TypeOK
<1>4. reply.state.results \in Overrides /\ reply.state \in State /\ reply.revision \in Nat
    BY ReplyShown DEF Reply, State
<1>5. /\ page'.revision = reply.revision /\ page'.state = reply.state /\ page'.waits = None
      /\ page'.frames = reply.state.results
      /\ page' \in [revision : Nat, state : State, frames : Overrides, waits : {None}]
    BY <1>1, <1>3, <1>4 DEF Idle
<1>6. PageShowsRevision' /\ page'.revision > 0
    BY <1>2, <1>5, ReplyShown DEF PageShowsRevision, sessionVars
<1> QED  BY <1>2, <1>5, <1>6, PageStep

\* The invariant is inductive.
LEMMA StepInv == IInv /\ [Next]_vars => IInv'
<1> SUFFICES ASSUME IInv, [Next]_vars PROVE IInv'
    OBVIOUS
<1>1. CASE UNCHANGED vars
    <2>1. TypeOK' /\ PageRecorded' /\ PageShowsRevision' /\ (page.revision > 0)'
        BY <1>1 DEF vars, sessionVars, ghostVars, IInv, TypeOK, PageRecorded, PageShowsRevision,
                    Truthful
    <2> QED  BY <1>1, <2>1, SessionAlone DEF IInv, vars, ghostVars
<1>2. ASSUME NEW q \in requests, Execute(q) PROVE IInv'
    BY <1>2, ExecuteStep
<1>3. ASSUME NEW q \in Sendable, Send(q) \/ SendOther(q) PROVE IInv'
    BY <1>3, SendStep, SendOtherStep
<1>4. CASE ReceiveRefusal \/ GiveUp
    BY <1>4, SilentStep
<1>5. CASE ReceiveTurn \/ ReceiveUndo
    BY <1>5, ReceiveTurnStep, ReceiveUndoStep
<1> QED  BY <1>1, <1>2, <1>3, <1>4, <1>5 DEF Next

\* The inductive invariant: every reply shows the state of the revision it names, and the
\* page knows the revision that its call names.
THEOREM InvHolds == Spec => []IInv
<1>1. IInv /\ [Next]_vars => IInv'
    BY StepInv
<1> QED  BY <1>1, InitInv, PTL DEF Spec

\* Type correctness for any events, texts and number of requests.
THEOREM TypeCorrect == Spec => []TypeOK
<1>1. IInv => TypeOK
    BY DEF IInv
<1> QED  BY <1>1, InvHolds, PTL

\* A request takes effect at most once and is always told the same.
THEOREM AnswersStayStable == Spec => []AnswersStable
<1>1. IInv => AnswersStable
    BY DEF IInv
<1> QED  BY <1>1, InvHolds, PTL

\* Results never belong to other overrides than those next to them.
THEOREM ResultsAlwaysMatch == Spec => []ResultsMatchOverrides
<1>1. IInv => ResultsMatchOverrides
    <2> SUFFICES ASSUME IInv PROVE ResultsMatchOverrides
        OBVIOUS
    <2>1. state.overrides = state.results
        BY DEF IInv, TypeOK, StatesRecorded, Matching
    <2>2. \A i \in DOMAIN history : history[i].overrides = history[i].results
        BY DEF IInv, StatesRecorded, Matching
    <2>3. \A x \in answered : x[2].state.overrides = x[2].state.results
        BY DEF IInv, StatesRecorded, AnswersRecorded, Truthful, Tells, Matching
    <2> QED  BY <2>1, <2>2, <2>3 DEF ResultsMatchOverrides
<1> QED  BY <1>1, InvHolds, PTL

\* The page shows the session as it was at the revision that it names.
THEOREM PageShowsItsRevision == Spec => []PageShowsRevision
<1>1. IInv => PageShowsRevision
    BY DEF IInv
<1> QED  BY <1>1, InvHolds, PTL

-----------------------------------------------------------------------------
(* The revision log.                                                       *)

\* A session starts as a revision log does.
LEMMA InitLog == Init => Log!Init
BY DEF Init, Log!Init, Checkpoint, Opened, Unrefined, Document, Overrides

\* The log drops its oldest checkpoint with Tail, the session with a slice.
LEMMA SameKept ==
    ASSUME NEW s \in Seq(Document)
    PROVE  Kept(s) = Log!Kept(s)
<1>1. CASE Len(s) > Limit
    <2>1. s # <<>>
        BY <1>1, FeedbackAssumption
    <2>2. Tail(s) = SubSeq(s, 2, Len(s))
        BY <2>1, TailIsSubSeq
    <2> QED  BY <1>1, <2>2 DEF Kept, Log!Kept
<1>2. CASE ~(Len(s) > Limit)
    BY <1>2 DEF Kept, Log!Kept
<1> QED  BY <1>1, <1>2

\* Every step is a step of the revision log or leaves it alone.
LEMMA StepLog == IInv /\ IInv' /\ [Next]_vars => [Log!Next]_Log!logVars
<1> SUFFICES ASSUME IInv, IInv', [Next]_vars PROVE [Log!Next]_Log!logVars
    OBVIOUS
<1>1. Checkpoint \in Document /\ Checkpoint' \in Document /\ history \in Seq(Document)
    BY DEF IInv, TypeOK, State, Document, Checkpoint
<1>2. CASE UNCHANGED <<revision, state, history>>
    BY <1>2 DEF Log!logVars, Checkpoint
<1>3. ASSUME NEW q \in requests, NEW overrides, CommitTurn(q, overrides)
      PROVE  [Log!Next]_Log!logVars
    <2>1. Append(history, Checkpoint) \in Seq(Document)
        BY <1>1
    <2>2. history' = Log!Kept(Append(history, Checkpoint)) /\ revision' = revision + 1
        BY <1>3, <2>1, SameKept DEF CommitTurn, Advance
    <2> QED  BY <1>1, <2>2 DEF Log!Next, Log!Commit
<1>4. ASSUME NEW q \in requests, Undo(q) PROVE [Log!Next]_Log!logVars
    <2>1. /\ history # <<>> /\ history' = SubSeq(history, 1, Len(history) - 1)
          /\ revision' = revision + 1
          /\ state' = [overrides |-> Last.overrides, results |-> Last.results, canUndo |-> Rest # <<>>]
        BY <1>4 DEF Undo, Restore, Advance, Rest
    <2>2. Last \in Document /\ Last = history[Len(history)]
        BY <1>1, <2>1 DEF Last
    <2>3. Checkpoint' = Last
        BY <2>1, <2>2 DEF Checkpoint, Document
    <2> QED  BY <2>1, <2>2, <2>3 DEF Log!Next, Log!Undo
<1>5. ASSUME NEW q \in requests, Execute(q) PROVE [Log!Next]_Log!logVars
    <2>1. CASE Replay(q) \/ Refuse(q) \/ Respond(q)
        BY <1>2, <2>1 DEF Replay, Refuse, Respond, sessionVars
    <2>2. CASE Refine(q)
        BY <1>3, <2>2 DEF Refine
    <2>3. CASE Repair(q)
        BY <1>3, <2>3 DEF Repair
    <2> QED  BY <1>4, <1>5, <2>1, <2>2, <2>3 DEF Execute
<1>6. CASE \E q \in Sendable : Send(q) \/ SendOther(q)
    BY <1>2, <1>6 DEF Send, SendOther, sessionVars
<1>7. CASE ReceiveRefusal \/ ReceiveTurn \/ ReceiveUndo \/ GiveUp
    BY <1>2, <1>7 DEF ReceiveRefusal, ReceiveTurn, ReceiveUndo, ShowUndo, GiveUp, sessionVars
<1>8. CASE UNCHANGED vars
    BY <1>2, <1>8 DEF vars, sessionVars
<1> QED  BY <1>5, <1>6, <1>7, <1>8 DEF Next

\* The feedback session implements the abstract revision log.
THEOREM SessionIsRevisionLog == Spec => LogSpec
<1>1. Init => Log!Init
    BY InitLog
<1>2. IInv /\ IInv' /\ [Next]_vars => [Log!Next]_Log!logVars
    BY StepLog
<1> QED  BY <1>1, <1>2, InvHolds, PTL DEF Spec, LogSpec, Log!Spec

-----------------------------------------------------------------------------
(* The remote inference gateway.                                           *)

Call == [pc : Steps, request : Requests \cup {Absent}, tried : SUBSET Endpoints,
         at : Endpoints \cup {Absent}, attempts : 0..MaxAttempts, error : Errors \cup {Absent},
         naming : BOOLEAN]

\* The types without the bounds of the counters, which follow from PlacesComeBack.
Typing ==
    /\ loaded \in [Endpoints -> BOOLEAN]
    /\ circuit \in [Endpoints -> Circuits]
    /\ permits \in [Endpoints -> Nat]
    /\ inflight \in [Endpoints -> Int]
    /\ named \in [Endpoints -> BOOLEAN]
    /\ call \in [Callers -> Call]

\* A call is at an endpoint exactly while it neither rests nor chooses one, a health
\* check does not fail over, and a retry is within the attempts.
CallShape(c) ==
    /\ call[c].at = Absent <=> call[c].pc \in {"idle", "pick"}
    /\ call[c].pc # "idle" =>
          /\ call[c].request \in Requests
          /\ call[c].request.kind = "readiness" => call[c].tried = Endpoints
    /\ call[c].pc = "backoff" => call[c].attempts < MaxAttempts

Shape == \A c \in Callers : CallShape(c)

GatewayInv == Typing /\ Shape /\ PlacesComeBack

Holders(e) == {c \in Callers : Holds(c, e)}
CountedAt(e) == {c \in Callers : Counted(c, e)}

-----------------------------------------------------------------------------

\* A set of callers that changes at most in c grows or shrinks by what c does.
LEMMA CountMoves ==
    ASSUME NEW S \in SUBSET Callers, NEW T \in SUBSET Callers, NEW c \in Callers,
           S \ {c} = T \ {c}
    PROVE  /\ Cardinality(S) \in Nat /\ Cardinality(T) \in Nat
           /\ (c \in S <=> c \in T) => Cardinality(T) = Cardinality(S)
           /\ c \notin S /\ c \in T => Cardinality(T) = Cardinality(S) + 1
           /\ c \in S /\ c \notin T => Cardinality(T) = Cardinality(S) - 1
<1>1. IsFiniteSet(S) /\ IsFiniteSet(T)
    BY FS_Subset, PoolAssumption
<1>2. Cardinality(S) \in Nat /\ Cardinality(T) \in Nat
    BY <1>1, FS_CardinalityType
<1>3. ASSUME c \in S <=> c \in T PROVE Cardinality(T) = Cardinality(S)
    <2>1. S = T  BY <1>3
    <2> QED  BY <2>1
<1>4. ASSUME c \notin S, c \in T PROVE Cardinality(T) = Cardinality(S) + 1
    <2>1. T = S \cup {c}  BY <1>4
    <2> QED  BY <2>1, <1>1, <1>4, FS_AddElement
<1>5. ASSUME c \in S, c \notin T PROVE Cardinality(T) = Cardinality(S) - 1
    <2>1. T = S \ {c}  BY <1>5
    <2> QED  BY <2>1, <1>1, <1>5, FS_RemoveElement
<1> QED  BY <1>2, <1>3, <1>4, <1>5

\* The breaker's operations stay within its states.
LEMMA BreakerTypes ==
    ASSUME NEW b \in Circuits
    PROVE  /\ AcquirePermission(b) \in Circuits
           /\ RecordSuccess(b) \in Circuits
           /\ RecordFailure(b) \in Circuits
           /\ \A error : Settled(b, error) \in Circuits
<1>1. AcquirePermission(b) \in Circuits
    BY DEF AcquirePermission, Circuits
<1>2. RecordSuccess(b) \in Circuits
    BY ConfigAssumption DEF RecordSuccess, Closed, Circuits
<1>3. RecordFailure(b) \in Circuits
    BY ConfigAssumption DEF RecordFailure, Circuits
<1> QED  BY <1>1, <1>2, <1>3 DEF Settled

-----------------------------------------------------------------------------
(* Types and the shape of calls.                                           *)

\* A thread that calls nothing yet.
LEMMA IdleCallType == IdleCall \in Call
<1>1. 0 \in 0..MaxAttempts /\ "idle" \in Steps /\ FALSE \in BOOLEAN
    BY ConfigAssumption DEF Steps
<1> QED  BY <1>1 DEF IdleCall, Call

\* The invariant of the gateway holds before any call.
LEMMA GatewayInitInv == GatewayInit => GatewayInv
<1> SUFFICES ASSUME GatewayInit PROVE GatewayInv
    OBVIOUS
<1>1. Typing
    <2>1. permits \in [Endpoints -> Nat] /\ inflight \in [Endpoints -> Int]
        BY ConfigAssumption DEF GatewayInit
    <2>2. circuit \in [Endpoints -> Circuits]
        BY ConfigAssumption DEF GatewayInit, Circuits, Closed
    <2>3. call \in [Callers -> Call]
        BY IdleCallType DEF GatewayInit
    <2>4. loaded \in [Endpoints -> BOOLEAN] /\ named \in [Endpoints -> BOOLEAN]
        BY DEF GatewayInit
    <2> QED  BY <2>1, <2>2, <2>3, <2>4 DEF Typing
<1>2. Shape
    BY DEF GatewayInit, Shape, CallShape, IdleCall
<1>3. PlacesComeBack
    <2>1. \A e \in Endpoints : Holders(e) = {} /\ CountedAt(e) = {}
        BY PoolAssumption DEF GatewayInit, Holders, CountedAt, Holds, Counted, IdleCall
    <2>2. Cardinality({}) = 0
        BY FS_EmptySet
    <2>3. \A e \in Endpoints : permits[e] = MaxConcurrency /\ inflight[e] = 0
        BY DEF GatewayInit
    <2> QED  BY <2>1, <2>2, <2>3, ConfigAssumption DEF PlacesComeBack, Holders, CountedAt
<1> QED  BY <1>1, <1>2, <1>3 DEF GatewayInv

\* One step of caller c leaves the other calls alone.
Alone(c) == \A d \in Callers \ {c} : call'[d] = call[d]

\* Places come back when a step moves them and the counts by what its caller does.
LEMMA PlacesMove ==
    ASSUME NEW c \in Callers, Alone(c), PlacesComeBack, Typing, Typing',
           \A e \in Endpoints :
               /\ (Holds(c, e) <=> Holds(c, e)') => permits'[e] = permits[e]
               /\ ~Holds(c, e) /\ Holds(c, e)' => permits'[e] = permits[e] - 1
               /\ Holds(c, e) /\ ~Holds(c, e)' => permits'[e] = permits[e] + 1
               /\ (Counted(c, e) <=> Counted(c, e)') => inflight'[e] = inflight[e]
               /\ ~Counted(c, e) /\ Counted(c, e)' => inflight'[e] = inflight[e] + 1
               /\ Counted(c, e) /\ ~Counted(c, e)' => inflight'[e] = inflight[e] - 1
    PROVE  PlacesComeBack'
<1> SUFFICES ASSUME NEW e \in Endpoints
             PROVE  /\ permits'[e] + Cardinality(Holders(e)') = MaxConcurrency
                    /\ inflight'[e] = Cardinality(CountedAt(e)')
    BY DEF PlacesComeBack, Holders, CountedAt
<1>1. /\ permits[e] + Cardinality(Holders(e)) = MaxConcurrency
      /\ inflight[e] = Cardinality(CountedAt(e))
    BY DEF PlacesComeBack, Holders, CountedAt
<1>2. /\ permits[e] \in Nat /\ permits'[e] \in Nat
      /\ inflight[e] \in Int /\ inflight'[e] \in Int
    BY DEF Typing
<1>3. permits'[e] + Cardinality(Holders(e)') = MaxConcurrency
    <2>1. Holders(e) \ {c} = Holders(e)' \ {c}
        BY DEF Holders, Holds, Alone
    <2>2. /\ c \in Holders(e) <=> Holds(c, e)
          /\ c \in Holders(e)' <=> Holds(c, e)'
        BY DEF Holders
    <2>3. Holders(e) \in SUBSET Callers /\ Holders(e)' \in SUBSET Callers
        BY DEF Holders
    <2> HIDE DEF Holders, Holds
    <2>4. /\ Cardinality(Holders(e)) \in Nat /\ Cardinality(Holders(e)') \in Nat
          /\ (Holds(c, e) <=> Holds(c, e)') => Cardinality(Holders(e)') = Cardinality(Holders(e))
          /\ ~Holds(c, e) /\ Holds(c, e)' => Cardinality(Holders(e)') = Cardinality(Holders(e)) + 1
          /\ Holds(c, e) /\ ~Holds(c, e)' => Cardinality(Holders(e)') = Cardinality(Holders(e)) - 1
        BY <2>1, <2>2, <2>3, CountMoves
    <2> QED  BY <1>1, <1>2, <2>4, ConfigAssumption
<1>4. inflight'[e] = Cardinality(CountedAt(e)')
    <2>1. CountedAt(e) \ {c} = CountedAt(e)' \ {c}
        BY DEF CountedAt, Counted, Alone
    <2>2. /\ c \in CountedAt(e) <=> Counted(c, e)
          /\ c \in CountedAt(e)' <=> Counted(c, e)'
        BY DEF CountedAt
    <2>3. CountedAt(e) \in SUBSET Callers /\ CountedAt(e)' \in SUBSET Callers
        BY DEF CountedAt
    <2>4. /\ Cardinality(CountedAt(e)) \in Nat /\ Cardinality(CountedAt(e)') \in Nat
          /\ (Counted(c, e) <=> Counted(c, e)') => Cardinality(CountedAt(e)') = Cardinality(CountedAt(e))
          /\ ~Counted(c, e) /\ Counted(c, e)' => Cardinality(CountedAt(e)') = Cardinality(CountedAt(e)) + 1
          /\ Counted(c, e) /\ ~Counted(c, e)' => Cardinality(CountedAt(e)') = Cardinality(CountedAt(e)) - 1
        BY <2>1, <2>2, <2>3, CountMoves
    <2> QED  BY <1>1, <1>2, <2>4
<1> QED  BY <1>3, <1>4

\* Going to another label, with or without an error, changes nothing else.
LEMMA GoesStep ==
    ASSUME NEW c \in Callers, NEW pc \in Steps, NEW error \in Errors \cup {Absent},
           call \in [Callers -> Call], Goes(c, pc, error)
    PROVE  /\ call' \in [Callers -> Call] /\ Alone(c)
           /\ call'[c].pc = pc /\ call'[c].error = error
           /\ call'[c].at = call[c].at /\ call'[c].request = call[c].request
           /\ call'[c].tried = call[c].tried /\ call'[c].attempts = call[c].attempts
BY DEF Goes, Call, Alone

\* When request() is over the call leaves the client, or makes its own request at last.
LEMMA ReturnsStep ==
    ASSUME NEW c \in Callers, NEW error \in Errors \cup {Absent}, Returns(c, error),
           call \in [Callers -> Call], named \in [Endpoints -> BOOLEAN], call[c].at \in Endpoints
    PROVE  /\ call' \in [Callers -> Call] /\ Alone(c) /\ named' \in [Endpoints -> BOOLEAN]
           /\ call'[c].pc \in {"enter", "unload"}
           /\ call'[c].at = call[c].at /\ call'[c].request = call[c].request
           /\ call'[c].tried = call[c].tried
<1>1. CASE call[c].naming
    <2>1. /\ call' = [call EXCEPT ![c].pc = "enter", ![c].naming = FALSE,
                                  ![c].attempts = 0, ![c].error = Absent]
          /\ named' = [named EXCEPT ![call[c].at] = TRUE]
        BY <1>1 DEF Returns
    <2>2. 0 \in 0..MaxAttempts /\ "enter" \in Steps
        BY ConfigAssumption DEF Steps
    <2>3. named' \in [Endpoints -> BOOLEAN]
        BY <2>1
    <2>4. call[c] \in Call /\ FALSE \in BOOLEAN
        OBVIOUS
    <2> DEFINE own == [call[c] EXCEPT !.pc = "enter", !.naming = FALSE, !.attempts = 0,
                                      !.error = Absent]
    <2>5. own \in Call
        BY <2>2, <2>4 DEF Call
    <2>6. own.pc = "enter" /\ own.at = call[c].at /\ own.request = call[c].request
          /\ own.tried = call[c].tried
        BY <2>4 DEF Call
    <2>7. call' = [call EXCEPT ![c] = own]
        BY <2>1, <2>4 DEF Call
    <2> HIDE DEF own
    <2> QED  BY <2>3, <2>5, <2>6, <2>7 DEF Alone
<1>2. CASE ~call[c].naming
    <2>1. Goes(c, "unload", error) /\ named' = named
        BY <1>2 DEF Returns
    <2> QED  BY <2>1, GoesStep DEF Steps
<1> QED  BY <1>1, <1>2

Holding == {"permission", "sent", "backoff", "leave"}

\* Shape and types carry over from what caller c's step leaves alone.
LEMMA StepClosed ==
    ASSUME GatewayInv, NEW c \in Callers, Alone(c), Typing', CallShape(c)', PlacesComeBack'
    PROVE  GatewayInv'
<1>1. \A d \in Callers : CallShape(d)'
    BY DEF GatewayInv, Shape, CallShape, Alone
<1> QED  BY <1>1 DEF GatewayInv, Shape

\* A step of a call that neither takes nor gives a place keeps the books.
LEMMA StepInside ==
    ASSUME GatewayInv, NEW c \in Callers, Alone(c), Typing', CallShape(c)',
           call'[c].at = call[c].at, call'[c].request = call[c].request,
           call[c].pc \in Holding <=> call'[c].pc \in Holding,
           UNCHANGED <<permits, inflight>>
    PROVE  GatewayInv'
<1>1. \A e \in Endpoints : /\ Holds(c, e) <=> Holds(c, e)'
                           /\ Counted(c, e) <=> Counted(c, e)'
    BY DEF Holds, Counted, Holding
<1>2. PlacesComeBack'
    BY <1>1, PlacesMove DEF GatewayInv
<1> QED  BY <1>2, StepClosed

\* What a call that is at an endpoint looks like.
LEMMA CallAt ==
    ASSUME GatewayInv, NEW c \in Callers, call[c].pc \notin {"idle", "pick"}
    PROVE  /\ call[c] \in Call /\ call[c].at \in Endpoints /\ call[c].at # Absent
           /\ call[c].request \in Requests
           /\ call[c].request.kind = "readiness" => call[c].tried = Endpoints
           /\ circuit[call[c].at] \in Circuits
<1>1. call[c] \in Call /\ CallShape(c)
    BY DEF GatewayInv, Typing, Shape
<1>2. call[c].at \in Endpoints
    BY <1>1 DEF Call, CallShape
<1> QED  BY <1>1, <1>2, PoolAssumption DEF CallShape, GatewayInv, Typing

\* A call that settles its outcome is on its way out.
LEMMA SettleStep ==
    ASSUME GatewayInv, NEW c \in Callers, call[c].pc \in {"sent", "backoff"},
           NEW error \in Errors \cup {Absent}, Settle(c, error),
           UNCHANGED <<loaded, permits, inflight, named>>
    PROVE  GatewayInv'
<1>1. call[c].at \in Endpoints /\ circuit[call[c].at] \in Circuits /\ call[c] \in Call
    BY CallAt
<1>2. circuit' \in [Endpoints -> Circuits]
    BY <1>1, BreakerTypes DEF Settle, GatewayInv, Typing
<1>3. /\ call' \in [Callers -> Call] /\ Alone(c) /\ call'[c].pc = "leave"
      /\ call'[c].at = call[c].at /\ call'[c].request = call[c].request
      /\ call'[c].tried = call[c].tried
    BY GoesStep DEF Settle, GatewayInv, Typing, Steps
<1>4. Typing'
    BY <1>2, <1>3 DEF GatewayInv, Typing
<1>5. CallShape(c)'
    BY <1>3, CallAt, PoolAssumption DEF CallShape
<1> QED  BY <1>3, <1>4, <1>5, StepInside DEF Holding

\* Looking for the name of the text model keeps the invariant.
LEMMA NameStep ==
    ASSUME GatewayInv, NEW c \in Callers, Name(c)
    PROVE  GatewayInv'
<1>1. /\ call[c].pc = "name" /\ call[c].at \in Endpoints /\ call[c].at # Absent
      /\ call[c].request \in Requests
      /\ call[c].request.kind = "readiness" => call[c].tried = Endpoints
    BY CallAt DEF Name, At
<1>2. /\ call' \in [Callers -> Call] /\ Alone(c) /\ call'[c].pc = "enter"
      /\ call'[c].at = call[c].at /\ call'[c].request = call[c].request
      /\ call'[c].tried = call[c].tried
    <2>1. PICK naming \in BOOLEAN : naming = ~named[call[c].at]
        BY <1>1 DEF GatewayInv, Typing
    <2>2. call' = [call EXCEPT ![c].pc = "enter", ![c].naming = naming]
        BY <2>1 DEF Name
    <2> QED  BY <2>2 DEF GatewayInv, Typing, Steps, Call, Alone
<1>3. Typing' /\ CallShape(c)'
    BY <1>1, <1>2 DEF Name, GatewayInv, Typing, CallShape
<1> QED  BY <1>1, <1>2, <1>3, StepInside DEF Name, Holding

\* Waiting for a place in the bulkhead keeps the invariant.
LEMMA EnterStep ==
    ASSUME GatewayInv, NEW c \in Callers, Enter(c)
    PROVE  GatewayInv'
<1> DEFINE e == call[c].at
<1>1. /\ call[c].pc = "enter" /\ e \in Endpoints /\ e # Absent /\ call[c].request \in Requests
      /\ call[c].request.kind = "readiness" => call[c].tried = Endpoints
    BY CallAt DEF Enter, At
<1>2. CASE /\ permits[e] > 0 /\ permits' = [permits EXCEPT ![e] = @ - 1]
           /\ Goes(c, "permission", Absent) /\ UNCHANGED named
    <2>1. /\ call' \in [Callers -> Call] /\ Alone(c) /\ call'[c].pc = "permission"
          /\ call'[c].at = e /\ call'[c].request = call[c].request
          /\ call'[c].tried = call[c].tried
        BY <1>2, GoesStep DEF GatewayInv, Typing, Steps
    <2>2. permits' \in [Endpoints -> Nat]
        BY <1>1, <1>2 DEF GatewayInv, Typing
    <2>3. Typing'
        BY <1>2, <2>1, <2>2 DEF Enter, GatewayInv, Typing
    <2>4. CallShape(c)'
        BY <1>1, <2>1 DEF CallShape
    <2>5. \A f \in Endpoints :
              /\ Counted(c, f) <=> Counted(c, f)'
              /\ inflight'[f] = inflight[f]
              /\ ~Holds(c, f) /\ (Holds(c, f)' <=> f = e)
              /\ permits'[f] = IF f = e THEN permits[f] - 1 ELSE permits[f]
        BY <1>1, <1>2, <2>1 DEF Enter, Holds, Counted, GatewayInv, Typing
    <2>6. PlacesComeBack'
        BY <2>1, <2>3, <2>5, PlacesMove DEF GatewayInv
    <2> QED  BY <2>1, <2>3, <2>4, <2>6, StepClosed
<1>3. CASE Returns(c, "final") /\ UNCHANGED permits
    <2>1. /\ call' \in [Callers -> Call] /\ Alone(c) /\ call'[c].pc \in {"enter", "unload"}
          /\ call'[c].at = e /\ call'[c].request = call[c].request
          /\ call'[c].tried = call[c].tried /\ named' \in [Endpoints -> BOOLEAN]
        BY <1>1, <1>3, ReturnsStep DEF GatewayInv, Typing, Errors
    <2>2. Typing' /\ CallShape(c)'
        BY <1>1, <1>3, <2>1 DEF Enter, GatewayInv, Typing, CallShape
    <2> QED  BY <1>1, <1>3, <2>1, <2>2, StepInside DEF Enter, Holding
<1> QED  BY <1>2, <1>3 DEF Enter

\* Asking the breaker keeps the invariant.
LEMMA PermissionStep ==
    ASSUME GatewayInv, NEW c \in Callers, Permission(c)
    PROVE  GatewayInv'
<1> DEFINE e == call[c].at
           b == circuit[e]
           asked == AcquirePermission(b)
<1>1. /\ call[c].pc = "permission" /\ e \in Endpoints /\ e # Absent /\ call[c].request \in Requests
      /\ call[c].request.kind = "readiness" => call[c].tried = Endpoints
      /\ b \in Circuits /\ call[c] \in Call
    BY CallAt DEF Permission, At
<1>2. asked \in Circuits /\ Settled(asked, "final") \in Circuits
    BY <1>1, BreakerTypes
<1>3. circuit' \in [Endpoints -> Circuits]
    <2>1. \E n \in Circuits : circuit' = [circuit EXCEPT ![e] = n]
        BY <1>2 DEF Permission
    <2> QED  BY <2>1 DEF GatewayInv, Typing
<1>4. CASE Goes(c, "leave", "final")
    <2>1. /\ call' \in [Callers -> Call] /\ Alone(c) /\ call'[c].pc = "leave"
          /\ call'[c].at = e /\ call'[c].request = call[c].request
          /\ call'[c].tried = call[c].tried
        BY <1>4, GoesStep DEF GatewayInv, Typing, Steps, Errors
    <2>2. Typing' /\ CallShape(c)'
        BY <1>1, <1>3, <2>1 DEF Permission, GatewayInv, Typing, CallShape
    <2> QED  BY <1>1, <2>1, <2>2, StepInside DEF Permission, Holding
<1>5. CASE call' = [call EXCEPT ![c].pc = "sent", ![c].attempts = 1]
    <2>1. /\ call' \in [Callers -> Call] /\ Alone(c) /\ call'[c].pc = "sent"
          /\ call'[c].at = e /\ call'[c].request = call[c].request
          /\ call'[c].tried = call[c].tried
        <3>1. MaxAttempts \in Nat \ {0} /\ 1 \in 0..MaxAttempts
            BY ConfigAssumption
        <3>2. call \in [Callers -> Call]
            BY DEF GatewayInv, Typing
        <3> QED  BY <1>5, <1>1, <3>1, <3>2 DEF Steps, Call, Alone
    <2>2. Typing' /\ CallShape(c)'
        BY <1>1, <1>3, <2>1 DEF Permission, GatewayInv, Typing, CallShape
    <2> QED  BY <1>1, <2>1, <2>2, StepInside DEF Permission, Holding
<1> QED  BY <1>4, <1>5 DEF Permission

\* An exchange with a server keeps the invariant.
LEMMA ExchangeStep ==
    ASSUME GatewayInv, NEW c \in Callers, Exchange(c)
    PROVE  GatewayInv'
<1>1. /\ call[c].pc = "sent" /\ call[c].at # Absent /\ call[c].request \in Requests
      /\ call[c].request.kind = "readiness" => call[c].tried = Endpoints
    BY CallAt DEF Exchange, At
<1>2. CASE \E error \in Errors \cup {Absent} : Settle(c, error)
    BY <1>1, <1>2, SettleStep DEF Exchange
<1>3. CASE Goes(c, "leave", "final") /\ UNCHANGED circuit
    <2>1. /\ call' \in [Callers -> Call] /\ Alone(c) /\ call'[c].pc = "leave"
          /\ call'[c].at = call[c].at /\ call'[c].request = call[c].request
          /\ call'[c].tried = call[c].tried
        BY <1>3, GoesStep DEF GatewayInv, Typing, Steps, Errors
    <2>2. Typing' /\ CallShape(c)'
        BY <1>1, <1>3, <2>1 DEF Exchange, GatewayInv, Typing, CallShape
    <2> QED  BY <1>1, <2>1, <2>2, StepInside DEF Exchange, Holding
<1>4. CASE /\ call[c].attempts < MaxAttempts
           /\ Goes(c, "backoff", "transient") /\ UNCHANGED circuit
    <2>1. /\ call' \in [Callers -> Call] /\ Alone(c) /\ call'[c].pc = "backoff"
          /\ call'[c].at = call[c].at /\ call'[c].request = call[c].request
          /\ call'[c].tried = call[c].tried /\ call'[c].attempts = call[c].attempts
        BY <1>4, GoesStep DEF GatewayInv, Typing, Steps, Errors
    <2>2. Typing' /\ CallShape(c)'
        BY <1>1, <1>4, <2>1 DEF Exchange, GatewayInv, Typing, CallShape
    <2> QED  BY <1>1, <2>1, <2>2, StepInside DEF Exchange, Holding
<1> QED  BY <1>2, <1>3, <1>4 DEF Exchange, Errors

\* A delay before a retry keeps the invariant.
LEMMA BackoffStep ==
    ASSUME GatewayInv, NEW c \in Callers, Backoff(c)
    PROVE  GatewayInv'
<1>1. /\ call[c].pc = "backoff" /\ call[c].at # Absent /\ call[c].request \in Requests
      /\ call[c].request.kind = "readiness" => call[c].tried = Endpoints
      /\ call[c] \in Call /\ call[c].attempts < MaxAttempts
    BY CallAt DEF Backoff, At, GatewayInv, Shape, CallShape
<1>2. CASE \E error \in Errors : Settle(c, error)
    BY <1>1, <1>2, SettleStep DEF Backoff
<1>3. CASE /\ call' = [call EXCEPT ![c].pc = "sent", ![c].attempts = @ + 1, ![c].error = Absent]
           /\ UNCHANGED circuit
    <2>1. /\ call' \in [Callers -> Call] /\ Alone(c) /\ call'[c].pc = "sent"
          /\ call'[c].at = call[c].at /\ call'[c].request = call[c].request
          /\ call'[c].tried = call[c].tried
        BY <1>3, <1>1, ConfigAssumption DEF GatewayInv, Typing, Steps, Call, Alone
    <2>2. Typing' /\ CallShape(c)'
        BY <1>1, <1>3, <2>1 DEF Backoff, GatewayInv, Typing, CallShape
    <2> QED  BY <1>1, <2>1, <2>2, StepInside DEF Backoff, Holding
<1> QED  BY <1>2, <1>3 DEF Backoff

\* Leaving the bulkhead keeps the invariant.
LEMMA LeaveStep ==
    ASSUME GatewayInv, NEW c \in Callers, Leave(c)
    PROVE  GatewayInv'
<1> DEFINE e == call[c].at
<1>1. /\ call[c].pc = "leave" /\ e \in Endpoints /\ e # Absent /\ call[c].request \in Requests
      /\ call[c].request.kind = "readiness" => call[c].tried = Endpoints
      /\ call[c] \in Call
    BY CallAt DEF Leave, At
<1>2. /\ call' \in [Callers -> Call] /\ Alone(c) /\ call'[c].pc \in {"enter", "unload"}
      /\ call'[c].at = e /\ call'[c].request = call[c].request
      /\ call'[c].tried = call[c].tried /\ named' \in [Endpoints -> BOOLEAN]
    <2>1. call[c].error \in Errors \cup {Absent}
        BY <1>1 DEF Call
    <2> QED  BY <1>1, <2>1, ReturnsStep DEF Leave, GatewayInv, Typing
<1>3. permits' \in [Endpoints -> Nat]
    BY <1>1 DEF Leave, GatewayInv, Typing
<1>4. Typing' /\ CallShape(c)'
    BY <1>1, <1>2, <1>3 DEF Leave, GatewayInv, Typing, CallShape
<1>5. \A f \in Endpoints :
          /\ Counted(c, f) <=> Counted(c, f)'
          /\ inflight'[f] = inflight[f]
          /\ (Holds(c, f) <=> f = e) /\ ~Holds(c, f)'
          /\ permits'[f] = IF f = e THEN permits[f] + 1 ELSE permits[f]
    BY <1>1, <1>2 DEF Leave, Holds, Counted, GatewayInv, Typing
<1>6. PlacesComeBack'
    BY <1>2, <1>4, <1>5, PlacesMove DEF GatewayInv
<1> QED  BY <1>2, <1>4, <1>6, StepClosed

-----------------------------------------------------------------------------
(* The pool.                                                               *)

\* A call that had no endpoint is counted at the one that is picked for it.
LEMMA PickStep ==
    ASSUME GatewayInv, NEW c \in Callers, call[c].at = Absent,
           NEW started \in Call, started.request \in Requests,
           started.request.kind = "readiness" => started.tried = Endpoints,
           Pick(c, started)
    PROVE  GatewayInv'
<1>1. PICK e \in Endpoints :
          /\ LeastBusy(started.tried, e)
          /\ inflight' = [inflight EXCEPT ![e] = @ + 1]
          /\ call' = [call EXCEPT ![c] =
                [started EXCEPT !.pc = IF started.request.kind = "text" THEN "name" ELSE "enter",
                                !.at = e, !.tried = @ \cup {e}, !.attempts = 0, !.error = Absent]]
    BY DEF Pick
<1>2. started.request.kind # "readiness"
    BY <1>1 DEF LeastBusy
<1>0. PICK pc \in {"name", "enter"} : pc = IF started.request.kind = "text" THEN "name" ELSE "enter"
    OBVIOUS
<1> DEFINE new == [started EXCEPT !.pc = pc, !.at = e, !.tried = @ \cup {e},
                                  !.attempts = 0, !.error = Absent]
<1>3. /\ new \in Call /\ new.pc \in {"name", "enter"} /\ new.at = e
      /\ new.request = started.request
    <2>1. 0 \in 0..MaxAttempts
        BY ConfigAssumption
    <2>2. e \in Endpoints /\ pc \in Steps
        BY DEF Steps
    <2> QED  BY <2>1, <2>2 DEF Call
<1>4. call' \in [Callers -> Call] /\ Alone(c) /\ call'[c] = new
    <2>1. call' = [call EXCEPT ![c] = new]
        BY <1>0, <1>1
    <2> QED  BY <1>3, <2>1 DEF GatewayInv, Typing, Alone
<1>5. inflight' \in [Endpoints -> Int]
    BY <1>1 DEF GatewayInv, Typing
<1>6. Typing'
    BY <1>4, <1>5 DEF Pick, GatewayInv, Typing
<1>7. e # Absent
    BY PoolAssumption
<1>8. CallShape(c)'
    BY <1>2, <1>3, <1>4, <1>7 DEF CallShape
<1> HIDE DEF new
<1>9. \A f \in Endpoints :
          /\ ~Holds(c, f) /\ ~Holds(c, f)'
          /\ permits'[f] = permits[f]
          /\ ~Counted(c, f) /\ (Counted(c, f)' <=> f = e)
          /\ inflight'[f] = IF f = e THEN inflight[f] + 1 ELSE inflight[f]
    BY <1>1, <1>2, <1>3, <1>4, PoolAssumption DEF Pick, Holds, Counted, GatewayInv, Typing
<1>10. PlacesComeBack'
    BY <1>4, <1>6, <1>9, PlacesMove DEF GatewayInv
<1> QED  BY <1>4, <1>6, <1>8, <1>10, StepClosed

\* A new call keeps the invariant.
LEMMA StartStep ==
    ASSUME GatewayInv, NEW c \in Callers, NEW r \in Requests, Start(c, r)
    PROVE  GatewayInv'
<1>1. call[c].at = Absent
    BY DEF Start, At, GatewayInv, Shape, CallShape
<1> DEFINE started == [IdleCall EXCEPT !.request = r]
<1>2. started \in Call /\ started.request = r
    BY IdleCallType DEF IdleCall, Call
<1> HIDE DEF started
<1>3. Pick(c, started) /\ r.kind # "readiness"
    BY DEF Start, started
<1> QED  BY <1>1, <1>2, <1>3, PickStep

\* Trying another server keeps the invariant.
LEMMA FailOverStep ==
    ASSUME GatewayInv, NEW c \in Callers, FailOver(c)
    PROVE  GatewayInv'
<1>1. /\ call[c] \in Call /\ call[c].at = Absent /\ call[c].request \in Requests
      /\ call[c].request.kind = "readiness" => call[c].tried = Endpoints
    BY DEF FailOver, At, GatewayInv, Typing, Shape, CallShape
<1> QED  BY <1>1, PickStep DEF FailOver

\* A health check keeps the invariant.
LEMMA CheckStep ==
    ASSUME GatewayInv, NEW c \in Callers, NEW r \in Requests, NEW e \in Endpoints, Check(c, r, e)
    PROVE  GatewayInv'
<1>1. call[c].at = Absent /\ e # Absent
    BY PoolAssumption DEF Check, At, GatewayInv, Shape, CallShape
<1> DEFINE new == [IdleCall EXCEPT !.pc = "enter", !.request = r, !.at = e, !.tried = Endpoints]
<1>2. /\ new \in Call /\ new.pc = "enter" /\ new.at = e /\ new.request = r
      /\ new.tried = Endpoints
    <2>1. 0 \in 0..MaxAttempts
        BY ConfigAssumption
    <2>2. "enter" \in Steps
        BY DEF Steps
    <2> QED  BY <2>1, <2>2 DEF IdleCall, Call
<1>3. call' \in [Callers -> Call] /\ Alone(c) /\ call'[c] = new
    BY <1>2 DEF Check, GatewayInv, Typing, Alone
<1>4. Typing' /\ CallShape(c)'
    BY <1>1, <1>2, <1>3 DEF Check, GatewayInv, Typing, CallShape
<1> HIDE DEF new
<1>5. \A f \in Endpoints :
          /\ ~Holds(c, f) /\ ~Holds(c, f)' /\ permits'[f] = permits[f]
          /\ ~Counted(c, f) /\ ~Counted(c, f)' /\ inflight'[f] = inflight[f]
    BY <1>1, <1>2, <1>3, PoolAssumption DEF Check, Holds, Counted
<1>6. PlacesComeBack'
    BY <1>3, <1>4, <1>5, PlacesMove DEF GatewayInv
<1> QED  BY <1>3, <1>4, <1>6, StepClosed

\* The end of a call in the pool keeps the invariant.
LEMMA UnloadStep ==
    ASSUME GatewayInv, NEW c \in Callers, Unload(c)
    PROVE  GatewayInv'
<1>1. /\ call[c].pc = "unload" /\ call[c].at \in Endpoints /\ call[c].request \in Requests
      /\ call[c].request.kind = "readiness" => call[c].tried = Endpoints
      /\ call[c] \in Call
    BY CallAt DEF Unload, At
<1>2. \E n \in Call :
          /\ call' = [call EXCEPT ![c] = n]
          /\ n.at = Absent
          /\ \/ n.pc = "idle"
             \/ /\ n.pc = "pick" /\ n.request = call[c].request /\ n.tried = call[c].tried
    <2>1. IdleCall \in Call /\ IdleCall.at = Absent /\ IdleCall.pc = "idle"
        BY ConfigAssumption DEF IdleCall, Call, Steps
    <2> DEFINE again == [call[c] EXCEPT !.pc = "pick", !.at = Absent]
    <2>2. /\ again \in Call /\ again.at = Absent /\ again.pc = "pick"
          /\ again.request = call[c].request /\ again.tried = call[c].tried
        BY <1>1 DEF Call, Steps
    <2>3. \/ call' = [call EXCEPT ![c] = again]
          \/ call' = [call EXCEPT ![c] = IdleCall]
        BY DEF Unload
    <2> HIDE DEF again
    <2> QED  BY <2>1, <2>2, <2>3
<1>3. /\ call' \in [Callers -> Call] /\ Alone(c) /\ call'[c].at = Absent
      /\ \/ call'[c].pc = "idle"
         \/ /\ call'[c].pc = "pick" /\ call'[c].request = call[c].request
            /\ call'[c].tried = call[c].tried
    BY <1>2 DEF GatewayInv, Typing, Alone
<1>4. inflight' \in [Endpoints -> Int]
    BY DEF Unload, GatewayInv, Typing
<1>5. Typing' /\ CallShape(c)'
    BY <1>1, <1>3, <1>4 DEF Unload, GatewayInv, Typing, CallShape
<1>6. \A f \in Endpoints :
          /\ ~Holds(c, f) /\ ~Holds(c, f)' /\ permits'[f] = permits[f]
          /\ ~Counted(c, f)'
          /\ inflight'[f] = IF Counted(c, f) THEN inflight[f] - 1 ELSE inflight[f]
    BY <1>1, <1>3, PoolAssumption DEF Unload, Holds, Counted
<1>7. PlacesComeBack'
    BY <1>3, <1>5, <1>6, PlacesMove DEF GatewayInv
<1> QED  BY <1>3, <1>5, <1>7, StepClosed

-----------------------------------------------------------------------------
(* Time and the servers.                                                   *)

\* The shape of calls and the books are about three variables only.
LEMMA BooksKept ==
    ASSUME GatewayInv, UNCHANGED <<permits, inflight, call>>
    PROVE  Shape' /\ PlacesComeBack'
<1>1. \A c \in Callers : CallShape(c)' <=> CallShape(c)
    BY DEF CallShape
<1>2. \A e \in Endpoints : Holders(e)' = Holders(e) /\ CountedAt(e)' = CountedAt(e)
    BY DEF Holders, CountedAt, Holds, Counted
<1>3. PlacesComeBack'
    BY <1>2 DEF GatewayInv, PlacesComeBack, Holders, CountedAt
<1> QED  BY <1>1, <1>3 DEF GatewayInv, Shape

\* A cooldown that passes, or a server that restarts, keeps the invariant.
LEMMA EnvironmentStep ==
    ASSUME GatewayInv, NEW e \in Endpoints, Cooldown(e) \/ Restart(e)
    PROVE  GatewayInv'
<1>1. circuit' \in [Endpoints -> Circuits] /\ loaded' \in [Endpoints -> BOOLEAN]
    <2>1. CASE Cooldown(e)
        BY <2>1 DEF Cooldown, GatewayInv, Typing, Circuits
    <2>2. CASE Restart(e)
        BY <2>2 DEF Restart, GatewayInv, Typing
    <2> QED  BY <2>1, <2>2
<1>2. UNCHANGED <<permits, inflight, named, call>>
    BY DEF Cooldown, Restart
<1> QED  BY <1>1, <1>2, BooksKept DEF GatewayInv, Typing

\* The invariant is inductive.
LEMMA GatewayStepInv == GatewayInv /\ [GatewayNext]_gatewayVars => GatewayInv'
<1> SUFFICES ASSUME GatewayInv, [GatewayNext]_gatewayVars PROVE GatewayInv'
    OBVIOUS
<1>1. CASE UNCHANGED gatewayVars
    BY <1>1, BooksKept DEF gatewayVars, GatewayInv, Typing
<1>2. ASSUME NEW c \in Callers, Proceed(c) PROVE GatewayInv'
    BY <1>2, FailOverStep, NameStep, EnterStep, PermissionStep, ExchangeStep, BackoffStep, LeaveStep,
       UnloadStep DEF Proceed
<1>3. ASSUME NEW c \in Callers, NEW r \in Requests, Start(c, r) PROVE GatewayInv'
    BY <1>3, StartStep
<1>4. ASSUME NEW c \in Callers, NEW r \in Requests, NEW e \in Endpoints, Check(c, r, e)
      PROVE  GatewayInv'
    BY <1>4, CheckStep
<1>5. ASSUME NEW e \in Endpoints, Cooldown(e) \/ Restart(e) PROVE GatewayInv'
    BY <1>5, EnvironmentStep
<1> QED  BY <1>1, <1>2, <1>3, <1>4, <1>5 DEF GatewayNext

\* The counters stay in their bounds because they agree with the calls.
LEMMA InvTypes == GatewayInv => GatewayTypeOK
<1> SUFFICES ASSUME GatewayInv PROVE GatewayTypeOK
    OBVIOUS
<1>1. ASSUME NEW e \in Endpoints
      PROVE  permits[e] \in 0..MaxConcurrency /\ inflight[e] \in 0..Cardinality(Callers)
    <2>1. Holders(e) \subseteq Callers /\ CountedAt(e) \subseteq Callers
        BY DEF Holders, CountedAt
    <2>2. /\ Cardinality(Holders(e)) \in Nat /\ Cardinality(CountedAt(e)) \in Nat
          /\ Cardinality(Callers) \in Nat
          /\ Cardinality(CountedAt(e)) <= Cardinality(Callers)
        BY <2>1, FS_Subset, FS_CardinalityType, PoolAssumption
    <2>3. /\ permits[e] + Cardinality(Holders(e)) = MaxConcurrency
          /\ inflight[e] = Cardinality(CountedAt(e))
        BY DEF GatewayInv, PlacesComeBack, Holders, CountedAt
    <2>4. permits[e] \in Nat /\ MaxConcurrency \in Nat
        BY ConfigAssumption DEF GatewayInv, Typing
    <2> QED  BY <2>2, <2>3, <2>4
<1>2. /\ permits \in [Endpoints -> 0..MaxConcurrency]
      /\ inflight \in [Endpoints -> 0..Cardinality(Callers)]
    BY <1>1 DEF GatewayInv, Typing
<1> QED  BY <1>2 DEF GatewayInv, Typing, GatewayTypeOK, Call

\* The inductive invariant: types, the shape of a call, and the books.
THEOREM GatewayInvHolds == GatewaySpec => []GatewayInv
<1>1. GatewayInit => GatewayInv
    BY GatewayInitInv
<1>2. GatewayInv /\ [GatewayNext]_gatewayVars => GatewayInv'
    BY GatewayStepInv
<1> QED  BY <1>1, <1>2, PTL DEF GatewaySpec

\* Type correctness for any number of callers, servers and attempts.
THEOREM GatewayTypeCorrect == GatewaySpec => []GatewayTypeOK
BY GatewayInvHolds, InvTypes, PTL

\* However a call leaves request(), its place and its count come back.
THEOREM PlacesAlwaysComeBack == GatewaySpec => []PlacesComeBack
<1>1. GatewayInv => PlacesComeBack
    BY DEF GatewayInv
<1> QED  BY <1>1, GatewayInvHolds, PTL

-----------------------------------------------------------------------------
(* The half-open probe.                                                    *)

\* A breaker that is probing has its probe on the way.
ProbeOnItsWay == \A e \in Endpoints : circuit[e].probing => \E c \in Callers : Admitted(c, e)

\* An answer other than the connection's own errors is never "protocol".
LEMMA NoProtocol ==
    ASSUME "protocol" \notin Faults, NEW e \in Endpoints, NEW r
    PROVE  "protocol" \notin Answers(e, r)
BY DEF Answers, TextAnswer, ImagesAnswer, DinoAnswer, OcrAnswer, BoundaryAnswer, AudioAnswer,
       ReadinessAnswer, Computed, Decoded

\* Settling an outcome ends the probe of its breaker, and no other.
LEMMA SettleProbe ==
    ASSUME GatewayInv, ProbeOnItsWay, NEW c \in Callers, call[c].pc \in {"sent", "backoff"},
           NEW error \in Errors \cup {Absent}, Settle(c, error)
    PROVE  ProbeOnItsWay'
<1>1. /\ call[c].at \in Endpoints /\ circuit[call[c].at] \in Circuits
      /\ Settled(circuit[call[c].at], error).probing = FALSE
    BY CallAt DEF Settled, RecordFailure, RecordSuccess, Closed
<1>2. Alone(c)
    BY GoesStep DEF Settle, GatewayInv, Typing, Steps
<1>3. \A e \in Endpoints : circuit'[e].probing => e # call[c].at /\ circuit[e].probing
    BY <1>1 DEF Settle, GatewayInv, Typing
<1>4. \A e \in Endpoints, d \in Callers :
          e # call[c].at /\ Admitted(d, e) => d # c /\ Admitted(d, e)'
    BY <1>2 DEF Admitted, Alone
<1> QED  BY <1>3, <1>4 DEF ProbeOnItsWay

\* Permission to probe is given to a call that then sends its request.
LEMMA PermissionProbe ==
    ASSUME GatewayInv, ProbeOnItsWay, NEW c \in Callers, Permission(c)
    PROVE  ProbeOnItsWay'
<1> DEFINE e == call[c].at
           b == circuit[e]
           asked == AcquirePermission(b)
<1>1. call[c].pc = "permission" /\ e \in Endpoints /\ b \in Circuits /\ call[c] \in Call
    BY CallAt DEF Permission, At
<1>2. \A d \in Callers \ {c} : call'[d] = call[d]
    BY DEF Permission, Goes, GatewayInv, Typing
<1>3. \A d \in Callers, f \in Endpoints : Admitted(d, f) => Admitted(d, f)'
    BY <1>1, <1>2 DEF Admitted
<1>4. CASE ~Permits(b) /\ circuit' = [circuit EXCEPT ![e] = asked]
    <2>1. asked.probing = b.probing
        BY <1>1, <1>4 DEF AcquirePermission, Permits, MayProbe, Circuits
    <2>2. \A f \in Endpoints : circuit'[f].probing => circuit[f].probing
        BY <1>1, <1>4, <2>1 DEF GatewayInv, Typing
    <2> QED  BY <1>3, <2>2 DEF ProbeOnItsWay
<1>5. CASE circuit' = [circuit EXCEPT ![e] = Settled(asked, "final")]
    <2>1. Settled(asked, "final").probing = FALSE
        BY DEF Settled, RecordSuccess, Closed
    <2>2. \A f \in Endpoints : circuit'[f].probing => circuit[f].probing
        BY <1>1, <1>5, <2>1 DEF GatewayInv, Typing
    <2> QED  BY <1>3, <2>2 DEF ProbeOnItsWay
<1>6. CASE /\ circuit' = [circuit EXCEPT ![e] = asked]
           /\ call' = [call EXCEPT ![c].pc = "sent", ![c].attempts = 1]
    <2>1. call'[c].pc = "sent" /\ call'[c].at = e
        BY <1>1, <1>6 DEF GatewayInv, Typing, Call
    <2>2. \A f \in Endpoints : f = e => Admitted(c, f)'
        BY <2>1 DEF Admitted
    <2>3. \A f \in Endpoints : circuit'[f].probing => f = e \/ circuit[f].probing
        BY <1>1, <1>6 DEF GatewayInv, Typing
    <2> QED  BY <1>3, <2>2, <2>3 DEF ProbeOnItsWay
<1> QED  BY <1>4, <1>5, <1>6 DEF Permission

\* A caller that is neither admitted before nor changes a breaker takes no probe away.
LEMMA OtherProbe ==
    ASSUME ProbeOnItsWay,
           \A e \in Endpoints : circuit'[e].probing => circuit[e].probing,
           \A c \in Callers, e \in Endpoints : Admitted(c, e) => Admitted(c, e)'
    PROVE  ProbeOnItsWay'
BY DEF ProbeOnItsWay

\* A probe in flight belongs to an admitted call, unless protocol errors escape.
LEMMA ProbeStep ==
    ASSUME "protocol" \notin Faults, GatewayInv, GatewayInv', ProbeOnItsWay, [GatewayNext]_gatewayVars
    PROVE  ProbeOnItsWay'
<1>1. CASE UNCHANGED gatewayVars
    BY <1>1 DEF gatewayVars, ProbeOnItsWay, Admitted
<1>2. ASSUME NEW c \in Callers, call[c].pc \notin {"sent", "backoff"}, Alone(c),
             UNCHANGED circuit
      PROVE  ProbeOnItsWay'
    <2>1. \A d \in Callers, e \in Endpoints : Admitted(d, e) => Admitted(d, e)'
        BY <1>2 DEF Admitted, Alone
    <2> QED  BY <1>2, <2>1, OtherProbe
<1>3. ASSUME NEW c \in Callers, NEW started, Pick(c, started), call[c].pc \in {"idle", "pick"}
      PROVE  ProbeOnItsWay'
    <2>1. Alone(c) /\ UNCHANGED circuit
        BY <1>3 DEF Pick, Alone, GatewayInv, Typing
    <2> QED  BY <1>2, <1>3, <2>1
<1>4. ASSUME NEW c \in Callers, NEW r \in Requests, Start(c, r) PROVE ProbeOnItsWay'
    BY <1>3, <1>4 DEF Start, At
<1>5. ASSUME NEW c \in Callers, NEW r \in Requests, NEW e \in Endpoints, Check(c, r, e)
      PROVE  ProbeOnItsWay'
    <2>1. Alone(c) /\ UNCHANGED circuit /\ call[c].pc = "idle"
        BY <1>5 DEF Check, At, Alone, GatewayInv, Typing
    <2> QED  BY <1>2, <2>1
<1>6. ASSUME NEW c \in Callers, Proceed(c) PROVE ProbeOnItsWay'
    <2>1. CASE FailOver(c)
        BY <1>3, <2>1 DEF FailOver, At
    <2>2. CASE Name(c) \/ Enter(c) \/ Leave(c) \/ Unload(c)
        <3>1. UNCHANGED circuit /\ call[c].pc \in {"name", "enter", "leave", "unload"}
            BY <2>2 DEF Name, Enter, Leave, Unload, At
        <3>2. Alone(c)
            BY <2>2 DEF Name, Enter, Leave, Returns, Unload, Goes, Alone, GatewayInv, Typing
        <3> QED  BY <1>2, <3>1, <3>2
    <2>3. CASE Permission(c)
        BY <2>3, PermissionProbe
    <2>4. CASE Exchange(c)
        <3>1. call[c].pc = "sent" /\ call[c].at \in Endpoints
            BY <2>4, CallAt DEF Exchange, At
        <3>2. "protocol" \notin Answers(call[c].at, Sent(c))
            BY <3>1, NoProtocol
        <3>3. CASE \E error \in Errors \cup {Absent} : Settle(c, error)
            BY <3>1, <3>3, SettleProbe
        <3>4. CASE Goes(c, "backoff", "transient") /\ UNCHANGED circuit
            <4>1. Alone(c) /\ call'[c].pc = "backoff" /\ call'[c].at = call[c].at
                BY <3>4, GoesStep DEF GatewayInv, Typing, Steps, Errors
            <4>2. \A d \in Callers, e \in Endpoints : Admitted(d, e) => Admitted(d, e)'
                BY <4>1 DEF Admitted, Alone
            <4> QED  BY <3>4, <4>2, OtherProbe
        <3> QED  BY <2>4, <3>2, <3>3, <3>4 DEF Exchange, Errors
    <2>5. CASE Backoff(c)
        <3>1. call[c].pc = "backoff" /\ call[c].at \in Endpoints
            BY <2>5, CallAt DEF Backoff, At
        <3>2. CASE \E error \in Errors : Settle(c, error)
            BY <3>1, <3>2, SettleProbe
        <3>3. CASE /\ call' = [call EXCEPT ![c].pc = "sent", ![c].attempts = @ + 1, ![c].error = Absent]
                   /\ UNCHANGED circuit
            <4>1. Alone(c) /\ call'[c].pc = "sent" /\ call'[c].at = call[c].at
                BY <3>3 DEF GatewayInv, Typing, Call, Alone
            <4>2. \A d \in Callers, e \in Endpoints : Admitted(d, e) => Admitted(d, e)'
                BY <4>1 DEF Admitted, Alone
            <4> QED  BY <3>3, <4>2, OtherProbe
        <3> QED  BY <2>5, <3>2, <3>3 DEF Backoff
    <2> QED  BY <1>6, <2>1, <2>2, <2>3, <2>4, <2>5 DEF Proceed
<1>7. ASSUME NEW e \in Endpoints, Cooldown(e) \/ Restart(e) PROVE ProbeOnItsWay'
    <2>1. \A f \in Endpoints : circuit'[f].probing = circuit[f].probing
        BY <1>7 DEF Cooldown, Restart, GatewayInv, Typing, Circuits
    <2>2. UNCHANGED call
        BY <1>7 DEF Cooldown, Restart
    <2>3. \A d \in Callers, f \in Endpoints : Admitted(d, f) => Admitted(d, f)'
        BY <2>2 DEF Admitted
    <2> QED  BY <2>1, <2>3, OtherProbe
<1> QED  BY <1>1, <1>4, <1>5, <1>6, <1>7 DEF GatewayNext

\* As long as httpx raises no error that request() does not classify, a breaker whose
\* cooldown has passed, and that no call occupies, admits the next call.
THEOREM ProbeIsAllowed ==
    ASSUME "protocol" \notin Faults
    PROVE  GatewaySpec => []ProbeAllowed
<1>1. GatewayInit => ProbeOnItsWay
    BY DEF GatewayInit, Closed, ProbeOnItsWay
<1>2. GatewayInv /\ GatewayInv' /\ ProbeOnItsWay /\ [GatewayNext]_gatewayVars => ProbeOnItsWay'
    BY ProbeStep
<1>3. GatewayInv /\ ProbeOnItsWay => ProbeAllowed
    BY DEF GatewayInv, Typing, Circuits, ProbeOnItsWay, ProbeAllowed, Permits, MayProbe
<1> QED  BY <1>1, <1>2, <1>3, GatewayInvHolds, PTL DEF GatewaySpec
=============================================================================
