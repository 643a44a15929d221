------------------------------ MODULE SearchProofs ------------------------------
(***************************************************************************)
(* The search API, the retrieval server behind it and the store of         *)
(* snapshots, for every set of threads, requests, builds and every room,   *)
(* from the inductive invariant SearchInv.                                 *)
(*                                                                         *)
(* Lemmas about lists and the order by depth give how the page of an AVS   *)
(* answer is spread.  Lemmas about sums, quantiles and calibrations give   *)
(* that the scores of a query are those of its events asked one by one, and*)
(* that transcripts which say nothing of a frame leave its scores alone.   *)
(***************************************************************************)
EXTENDS SearchService, SequenceTheorems, FiniteSetTheorems,
        WellFoundedInduction, TLAPS

-----------------------------------------------------------------------------
(* The snapshots a trail is opened on: the search API that makes them, the *)
(* retrieval server behind it and the store that keeps them.               *)

\* What the r-th load of the server answers the KIS request q.
Computed(r, q) == PlanTable[loads[r]][q]

Told(r, q) == [revision |-> r, rows |-> Computed(r, q).body.rows,
               evidence |-> Computed(r, q).body.evidence, config |-> Computed(r, q).body.config]

Kept(r, q) == [query |-> q, revision |-> r, config |-> Computed(r, q).body.config,
               rows |-> Computed(r, q).body.rows, evidence |-> Computed(r, q).body.evidence]

Told200(r) == {q \in Kis : Computed(r, q).status = 200}

\* Snapshots of what some load of the server answered.
FaithfulTo(r) == {Kept(r, q) : q \in Told200(r)}
Faithful == UNION {FaithfulTo(r) : r \in DOMAIN loads}
Entries == [id : Nat, expires : Nat, snapshot : Faithful]

SharedOK ==
    /\ scene \in Scenes
    /\ loads \in Seq(Builds)
    /\ up => loads # <<>>
    /\ now \in Nat
    /\ births \in Seq(Nat)
    /\ store \in Seq(Entries)

\* Rows that lie on the frames of the API's own corpus.
OnCorpus(rows) ==
    \A i \in DOMAIN rows : \A e \in DOMAIN rows[i].frames :
        LET f == rows[i].frames[e]
        IN  /\ f \in DOMAIN Corpus.video
            /\ Corpus.video[f] = rows[i].video
            /\ Corpus.idx[f] = rows[i].idx[e]
            /\ Corpus.time[f] = rows[i].time[e]

AnswerOK(answer) == answer # Absent /\ "rows" \in DOMAIN answer => OnCorpus(answer.rows)

\* A good KIS answer is that of the load it names; once it is in the way of
\* becoming a snapshot, its rows are good.
ReplyOK(c) ==
    /\ c.phase \in {"replied", "room"} /\ c.call \in Kis /\ c.reply.status = 200 =>
           \E r \in DOMAIN loads : c.call \in Told200(r) /\ c.reply.body = Told(r, c.call)
    /\ c.phase = "room" => /\ c.call \in Kis
                           /\ c.reply.status = 200
                           /\ Verdict(Corpus, c.reply.body.rows) = "good"

ConversationOK(c) ==
    /\ DOMAIN c = DOMAIN Idle
    /\ c.read \in Nat
    /\ c.full \in BOOLEAN
    /\ c.phase \in {"sent", "replied", "room"} => c.call \in Requests
    /\ ReplyOK(c)
    /\ c.phase = "held" => c.held \in Entries
    /\ AnswerOK(c.answer)

ConversationsOK ==
    /\ thread = [t \in Threads |-> thread[t]]
    /\ \A t \in Threads : ConversationOK(thread[t])

\* Puts that found room and have not used it yet.
Welcome == {t \in Threads : thread[t].phase = "room" /\ ~thread[t].full}

RoomKept == Len(store) + Cardinality(Welcome) <= Room + Cardinality(Threads) - 1

SearchInv == SharedOK /\ ConversationsOK /\ RoomKept

-----------------------------------------------------------------------------
(* Operators.                                                              *)

\* Tabulating a function leaves it as it is.
LEMMA TableIsItself ==
    ASSUME NEW f
    PROVE  Table(f) = f
BY DEF Table

\* A table of answers holds what the server computes (search_plan).
LEMMA PlanTableEntries ==
    ASSUME NEW b \in Builds, NEW q \in Kis
    PROVE  PlanTable[b][q] = PlanAnswer(BuildOf[b], RequestOf[q])
<1> DEFINE Answers(c) == [k \in Kis |-> PlanAnswer(BuildOf[c], RequestOf[k])]
<1>1. PlanTable = [c \in Builds |-> Answers(c)]
    <2>1. \A c : Table(Answers(c)) = Answers(c)
        BY TableIsItself
    <2>2. PlanTable = Table([c \in Builds |-> Table(Answers(c))])
        BY DEF PlanTable
    <2>3. [c \in Builds |-> Table(Answers(c))] = [c \in Builds |-> Answers(c)]
        <3> HIDE DEF Answers
        <3> QED  BY <2>1
    <2> HIDE DEF Answers
    <2> QED  BY <2>2, <2>3, TableIsItself
<1>2. PlanTable[b] = Answers(b)
    <2> HIDE DEF Answers
    <2> QED  BY <1>1
<1>3. Answers(b)[q] = PlanAnswer(BuildOf[b], RequestOf[q])
    OBVIOUS
<1> QED
    BY <1>2, <1>3

\* An answer without an error carries rows, evidence and settings.
LEMMA GoodPlanAnswer ==
    ASSUME NEW build, NEW q, PlanAnswer(build, q).status = 200
    PROVE  PlanAnswer(build, q) =
               [status |-> 200,
                body |-> [rows     |-> PlanAnswer(build, q).body.rows,
                          evidence |-> PlanAnswer(build, q).body.evidence,
                          config   |-> PlanAnswer(build, q).body.config]]
<1> DEFINE matrix == PlanMatrix(build, PlanOf(q), q.flags)
           videos == SplitVideos(build.x, matrix)
           verdict == Verdict(build.corpus, videos)
           rows == Ranked(build, videos, q.top)
           body == PlanBody(build, videos, rows)
<1>1. PlanAnswer(build, q) = IF matrix = Absent THEN Failed(400)
                             ELSE IF verdict = "good" THEN Answered(build, body)
                             ELSE Failed(HttpOf(verdict))
    BY DEF PlanAnswer, PlanScored, PlanRanked, Judged
<1>2. body = [rows |-> rows, evidence |-> Trimmed(videos, rows), config |-> Wire(build.d)]
    BY DEF PlanBody
<1> HIDE DEF matrix, videos, verdict, rows, body
<1>3. Failed(400).status # 200 /\ Failed(HttpOf(verdict)).status # 200
    BY DEF Failed, HttpOf
<1>4. PlanAnswer(build, q) = Answered(build, body)
    BY <1>1, <1>3
<1>5. Answered(build, body) = [status |-> 200, body |-> body]
    BY DEF Answered
<1> QED
    BY <1>2, <1>4, <1>5

\* The check of an answer against the corpus (validate_aligned_path) passes only
\* rows that lie on it.
LEMMA GoodRowsLieOnCorpus ==
    ASSUME NEW rows, Verdict(Corpus, rows) = "good"
    PROVE  OnCorpus(rows)
<1>1. Wrong(Corpus, rows) = {}
    BY DEF Verdict
<1>2. ASSUME NEW i \in DOMAIN rows, NEW e \in DOMAIN rows[i].frames
      PROVE  Canonical(Corpus, Identity(rows[i], e))
    <2> DEFINE places == UNION {{k} \X DOMAIN rows[k].frames : k \in DOMAIN rows}
    <2>1. <<i, e>> \in places
        OBVIOUS
    <2>2. Wrong(Corpus, rows) = {at \in places : ~Canonical(Corpus, Identity(rows[at[1]], at[2]))}
        BY DEF Wrong
    <2> HIDE DEF places
    <2>3. <<i, e>>[1] = i /\ <<i, e>>[2] = e
        OBVIOUS
    <2> QED
        BY <1>1, <2>1, <2>2, <2>3
<1> QED
    BY <1>2 DEF OnCorpus, Canonical, Identity

\* Taking one entry out of a store leaves the others.
LEMMA OneTakenOut ==
    ASSUME NEW S, NEW s \in Seq(S), NEW i \in DOMAIN s
    PROVE  RemoveAt(s, i) \in Seq(S) /\ Len(RemoveAt(s, i)) = Len(s) - 1
<1> DEFINE before == SubSeq(s, 1, i - 1)
           after == SubSeq(s, i + 1, Len(s))
<1>1. Len(s) \in Nat /\ i \in 1..Len(s) /\ \A j \in 1..Len(s) : s[j] \in S
    BY ElementOfSeq, LenProperties
<1>2. before \in Seq(S) /\ Len(before) = i - 1
    <2>1. /\ before \in Seq(S)
          /\ Len(before) = IF 1 <= i - 1 THEN i - 1 - 1 + 1 ELSE 0
        BY <1>1, SubSeqProperties
    <2> HIDE DEF before
    <2> QED  BY <1>1, <2>1
<1>3. after \in Seq(S) /\ Len(after) = Len(s) - i
    <2>1. /\ after \in Seq(S)
          /\ Len(after) = IF i + 1 <= Len(s) THEN Len(s) - (i + 1) + 1 ELSE 0
        BY <1>1, SubSeqProperties
    <2> HIDE DEF after
    <2> QED  BY <1>1, <2>1
<1>4. RemoveAt(s, i) = before \o after
    BY DEF RemoveAt
<1> HIDE DEF before, after
<1> QED
    BY <1>1, <1>2, <1>3, <1>4, ConcatProperties

-----------------------------------------------------------------------------
(* What a turn of one thread leaves as it is.                              *)

\* A turn changes the conversation of its thread alone.
LEMMA TurnFacts ==
    ASSUME ConversationsOK, NEW t \in Threads, NEW next, Turn(t, next)
    PROVE  /\ thread' = [u \in Threads |-> thread'[u]]
           /\ thread'[t] = next
           /\ \A u \in Threads \ {t} : thread'[u] = thread[u]
BY DEF ConversationsOK, Turn

\* What conversations are measured by depends on the loads and the corpus only.
LEMMA SameMeasures ==
    ASSUME UNCHANGED <<scene, loads>>
    PROVE  /\ Corpus' = Corpus
           /\ Entries' = Entries
           /\ \A r, q : Told(r, q)' = Told(r, q)
           /\ \A r : Told200(r)' = Told200(r)
           /\ \A rows : OnCorpus(rows)' = OnCorpus(rows)
<1>1. Corpus' = Corpus
    BY DEF Corpus
<1>2. \A r, q : Computed(r, q)' = Computed(r, q)
    BY DEF Computed
<1>3. \A r, q : Told(r, q)' = Told(r, q) /\ Kept(r, q)' = Kept(r, q)
    BY <1>2 DEF Told, Kept
<1>4. \A r : Told200(r)' = Told200(r)
    BY <1>2 DEF Told200, Kis
<1>5. Entries' = Entries
    <2>1. \A r : FaithfulTo(r)' = FaithfulTo(r)
        BY <1>3, <1>4 DEF FaithfulTo
    <2> QED
        BY <2>1 DEF Entries, Faithful
<1>6. \A rows : OnCorpus(rows)' = OnCorpus(rows)
    BY <1>1 DEF OnCorpus
<1> QED
    BY <1>1, <1>3, <1>4, <1>5, <1>6

\* A turn to a sound conversation leaves all of them sound.
LEMMA TurnKeepsConversations ==
    ASSUME ConversationsOK, NEW t \in Threads, NEW next, Turn(t, next), ConversationOK(next)
    PROVE  ConversationsOK'
<1>1. UNCHANGED <<scene, loads>>
    BY DEF Turn
<1>2. ASSUME NEW u \in Threads
      PROVE  ConversationOK(thread'[u])
    BY TurnFacts DEF ConversationsOK
<1>3. ASSUME NEW u \in Threads
      PROVE  ConversationOK(thread[u])'
    <2>0. ReplyOK(thread'[u])
        BY <1>2 DEF ConversationOK
    <2>1. ReplyOK(thread[u])'
        BY <1>1, <2>0 DEF ReplyOK, Told, Told200, Computed, Kis, Corpus
    <2>2. AnswerOK(thread[u].answer)'
        BY <1>1, <1>2, SameMeasures DEF ConversationOK, AnswerOK
    <2> QED
        BY <1>1, <1>2, <2>1, <2>2, SameMeasures DEF ConversationOK
<1> QED
    BY <1>3, TurnFacts DEF ConversationsOK

\* No more puts are on their way than there are threads.
LEMMA WelcomeFinite ==
    /\ IsFiniteSet(Welcome)
    /\ Cardinality(Welcome) \in Nat
    /\ Cardinality(Welcome) <= Cardinality(Threads)
    /\ Cardinality(Threads) \in Nat
BY ThreadsAssumption, FS_Subset, FS_CardinalityType DEF Welcome

\* A thread that ends in a step without room to fill does not add to those who have.
LEMMA TurnKeepsWelcome ==
    ASSUME ConversationsOK, NEW t \in Threads, NEW next, Turn(t, next),
           next.phase = "room" => next.full
    PROVE  Welcome' = Welcome \ {t}
BY TurnFacts DEF Welcome

\* A put that found room is on its way.
LEMMA TurnAddsWelcome ==
    ASSUME ConversationsOK, NEW t \in Threads, NEW next, Turn(t, next),
           next.phase = "room" /\ ~next.full
    PROVE  Welcome' = Welcome \cup {t}
BY TurnFacts DEF Welcome

\* Nobody gains room and the store does not grow.
LEMMA RoomStays ==
    ASSUME SharedOK, RoomKept, Len(store') \in Nat, Len(store') <= Len(store),
           NEW t, Welcome' = Welcome \ {t}
    PROVE  RoomKept'
<1>1. Cardinality(Welcome') <= Cardinality(Welcome) /\ Cardinality(Welcome') \in Nat
    <2>1. Welcome \ {t} \subseteq Welcome
        OBVIOUS
    <2>2. IsFiniteSet(Welcome \ {t}) /\ Cardinality(Welcome \ {t}) <= Cardinality(Welcome)
        BY <2>1, WelcomeFinite, FS_Subset
    <2> QED
        BY <2>2, FS_CardinalityType
<1>2. Len(store) \in Nat
    BY LenProperties DEF SharedOK
<1> QED
    BY <1>1, <1>2, WelcomeFinite, RoomAssumption DEF RoomKept

-----------------------------------------------------------------------------
(* The invariant at the start and through every step.                      *)

\* The invariant holds before any request.
LEMMA SearchStarts == SearchInit => SearchInv
<1> SUFFICES ASSUME SearchInit PROVE SearchInv
    OBVIOUS
<1> USE DEF SearchInit
<1>1. SharedOK
    BY EmptySeq DEF SharedOK
<1>2. ConversationsOK
    BY DEF ConversationsOK, ConversationOK, ReplyOK, AnswerOK, Idle
<1>3. RoomKept
    <2>1. Welcome = {}
        BY DEF Welcome, Idle
    <2>2. Len(store) = 0 /\ Cardinality(Welcome) = 0
        BY <2>1, EmptySeq, FS_EmptySet
    <2> QED
        BY <2>2, WelcomeFinite, RoomAssumption DEF RoomKept
<1> QED
    BY <1>1, <1>2, <1>3 DEF SearchInv

\* What is shared stays sound where nothing of it changes.
LEMMA SharedStays ==
    ASSUME SharedOK, UNCHANGED <<scene, loads, up, now, births, store>>
    PROVE  SharedOK'
BY SameMeasures DEF SharedOK

\* A step that only moves one thread on, into a conversation that is in order.
LEMMA OnlyThreadMoves ==
    ASSUME SearchInv, NEW t \in Threads, NEW next, Turn(t, next), UNCHANGED <<births, store>>,
           ConversationOK(next), next.phase = "room" => next.full
    PROVE  SearchInv'
<1>1. SharedOK'
    BY SharedStays DEF SearchInv, Turn
<1>2. ConversationsOK'
    BY TurnKeepsConversations DEF SearchInv
<1>3. RoomKept'
    <2>1. Welcome' = Welcome \ {t}
        BY TurnKeepsWelcome DEF SearchInv
    <2>2. Len(store') \in Nat /\ Len(store') <= Len(store)
        BY LenProperties DEF SearchInv, SharedOK
    <2> QED
        BY <2>1, <2>2, RoomStays DEF SearchInv
<1> QED
    BY <1>1, <1>2, <1>3 DEF SearchInv

\* A call that has ended is in order when its answer is.
LEMMA EndedInOrder ==
    ASSUME NEW q, NEW answer, AnswerOK(answer)
    PROVE  /\ ConversationOK([Idle EXCEPT !.call = q, !.answer = answer])
           /\ [Idle EXCEPT !.call = q, !.answer = answer].phase # "room"
<1> DEFINE next == [Idle EXCEPT !.call = q, !.answer = answer]
<1>1. /\ DOMAIN next = DOMAIN Idle
      /\ next.phase = "idle" /\ next.read \in Nat /\ next.full \in BOOLEAN /\ next.answer = answer
    BY DEF Idle
<1> HIDE DEF next
<1>2. ReplyOK(next) /\ AnswerOK(next.answer)
    BY <1>1 DEF ReplyOK
<1>3. ConversationOK(next) /\ next.phase # "room"
    BY <1>1, <1>2 DEF ConversationOK
<1> QED
    BY <1>3 DEF next

\* A failure is a sound answer.
LEMMA FailureInOrder == \A outcome : AnswerOK([outcome |-> outcome])
BY DEF AnswerOK

\* A call that fails keeps the invariant.
LEMMA CallFails ==
    ASSUME SearchInv, NEW t \in Threads, NEW q, NEW outcome, Fails(t, q, outcome),
           UNCHANGED <<births, store>>
    PROVE  SearchInv'
<1> DEFINE next == [Idle EXCEPT !.call = q, !.answer = [outcome |-> outcome]]
<1>1. Turn(t, next)
    BY DEF Fails, Ends
<1>2. ConversationOK(next) /\ next.phase # "room"
    BY EndedInOrder, FailureInOrder
<1> HIDE DEF next
<1> QED
    BY <1>1, <1>2, OnlyThreadMoves

\* A call that ends with a sound answer keeps the invariant.
LEMMA CallEnds ==
    ASSUME SearchInv, NEW t \in Threads, NEW q, NEW answer, Ends(t, q, answer),
           AnswerOK(answer), UNCHANGED <<births, store>>
    PROVE  SearchInv'
<1> DEFINE next == [Idle EXCEPT !.call = q, !.answer = answer]
<1>1. Turn(t, next)
    BY DEF Ends
<1>2. ConversationOK(next) /\ next.phase # "room"
    BY EndedInOrder
<1> HIDE DEF next
<1> QED
    BY <1>1, <1>2, OnlyThreadMoves

\* Asking the server keeps the invariant.
LEMMA AskStep == ASSUME SearchInv, NEW t \in Threads, Ask(t) PROVE SearchInv'
<1>1. PICK q \in scene.requests :
          \/ \E frames : Ends(t, q, [outcome |-> "done", frames |-> frames])
          \/ \E outcome : Fails(t, q, outcome)
          \/ Turn(t, [Idle EXCEPT !.phase = "sent", !.call = q])
    BY DEF Ask
<1>2. UNCHANGED <<births, store>>
    BY DEF Ask
<1>3. CASE \E frames : Ends(t, q, [outcome |-> "done", frames |-> frames])
    <2>1. \A frames : AnswerOK([outcome |-> "done", frames |-> frames])
        BY DEF AnswerOK
    <2> QED
        BY <1>2, <1>3, <2>1, CallEnds
<1>4. CASE \E outcome : Fails(t, q, outcome)
    BY <1>2, <1>4, CallFails
<1>5. CASE Turn(t, [Idle EXCEPT !.phase = "sent", !.call = q])
    <2> DEFINE next == [Idle EXCEPT !.phase = "sent", !.call = q]
    <2>1. q \in Requests
        BY ScenesAssumption DEF SearchInv, SharedOK
    <2>2. /\ DOMAIN next = DOMAIN Idle
          /\ next.phase = "sent" /\ next.call = q
          /\ next.read \in Nat /\ next.full \in BOOLEAN /\ next.answer = Absent
        BY DEF Idle
    <2> HIDE DEF next
    <2>4. ReplyOK(next) /\ AnswerOK(next.answer)
        BY <2>2 DEF ReplyOK, AnswerOK
    <2>5. ConversationOK(next) /\ next.phase # "room"
        BY <2>1, <2>2, <2>4 DEF ConversationOK
    <2>3. Turn(t, next)
        BY <1>5 DEF next
    <2> QED
        BY <1>2, <2>3, <2>5, OnlyThreadMoves
<1> QED
    BY <1>1, <1>3, <1>4, <1>5

\* The answer of a load names that load.
LEMMA AnswerNamesLoad ==
    ASSUME SharedOK, up, NEW q \in Kis, NEW down,
           Revised(q, ServerAnswer(loads[Len(loads)], q, down), Len(loads)).status = 200
    PROVE  /\ Len(loads) \in DOMAIN loads
           /\ q \in Told200(Len(loads))
           /\ Revised(q, ServerAnswer(loads[Len(loads)], q, down), Len(loads)).body
                  = Told(Len(loads), q)
<1> DEFINE r == Len(loads)
           reply == ServerAnswer(loads[r], q, down)
<1>1. r \in DOMAIN loads
    BY EmptySeq, LenProperties DEF SharedOK
<1>2. RequestOf[q].kind = "kis"
    BY DEF Kis
<1>3. reply = Computed(r, q)
    BY <1>2 DEF ServerAnswer, Computed
<1> HIDE DEF reply, r
<1>4. reply.status = 200
    BY <1>2 DEF Revised, reply, r
<1>5. Revised(q, reply, r).body = Told(r, q)
    BY <1>2, <1>3, <1>4 DEF Revised, Told
<1> QED
    BY <1>1, <1>3, <1>4, <1>5 DEF Told200, reply, r

\* The server's reply keeps the invariant.
LEMMA ServeStep == ASSUME SearchInv, NEW t \in Threads, Serve(t) PROVE SearchInv'
<1> DEFINE c == thread[t]
           q == c.call
           reply(down) == Revised(q, ServerAnswer(loads[Len(loads)], q, down), Len(loads))
<1>1. PICK down \in Outages : Turn(t, [c EXCEPT !.phase = "replied", !.reply = reply(down)])
    BY DEF Serve
<1>2. c.phase = "sent" /\ up /\ UNCHANGED <<births, store>>
    BY DEF Serve
<1>3. ConversationOK(c)
    BY DEF SearchInv, ConversationsOK
<1> DEFINE next == [c EXCEPT !.phase = "replied", !.reply = reply(down)]
<1>4. /\ DOMAIN next = DOMAIN Idle
      /\ next.phase = "replied" /\ next.call = q /\ next.reply = reply(down)
      /\ next.read = c.read /\ next.full = c.full /\ next.answer = c.answer
    <2> HIDE DEF c, reply
    <2> QED  BY <1>3 DEF ConversationOK, Idle
<1>5. Turn(t, next)
    BY <1>1
<1>6. ReplyOK(next)
    <2>1. q \in Kis /\ reply(down).status = 200 =>
              \E r \in DOMAIN loads : q \in Told200(r) /\ reply(down).body = Told(r, q)
        BY <1>2, AnswerNamesLoad DEF SearchInv
    <2> HIDE DEF next, q, reply, c
    <2> QED
        BY <1>4, <2>1 DEF ReplyOK
<1> HIDE DEF next, reply
<1>7. ConversationOK(next) /\ next.phase # "room"
    BY <1>2, <1>3, <1>4, <1>6 DEF ConversationOK
<1> QED
    BY <1>2, <1>5, <1>7, OnlyThreadMoves

\* A request that is lost keeps the invariant.
LEMMA LoseStep == ASSUME SearchInv, NEW t \in Threads, Lose(t) PROVE SearchInv'
BY CallFails DEF Lose

\* A conversation that found room is in order when its reply is good.
LEMMA RoomInOrder ==
    ASSUME SearchInv, NEW t \in Threads, thread[t].phase = "replied",
           thread[t].call \in Kis, thread[t].reply.status = 200,
           VerdictOn("kis", thread[t].reply.body) = "good"
    PROVE  ConversationOK([thread[t] EXCEPT !.phase = "room", !.read = now,
                                           !.full = Len(store) >= Room])
<1> DEFINE c == thread[t]
           next == [c EXCEPT !.phase = "room", !.read = now, !.full = Len(store) >= Room]
<1>1. ConversationOK(c)
    BY DEF SearchInv, ConversationsOK
<1>2. /\ DOMAIN next = DOMAIN Idle
      /\ next.phase = "room" /\ next.call = c.call /\ next.reply = c.reply
      /\ next.read = now /\ next.full \in BOOLEAN /\ next.answer = c.answer
    <2> HIDE DEF c
    <2> QED  BY <1>1 DEF ConversationOK, Idle
<1>3. Verdict(Corpus, c.reply.body.rows) = "good"
    BY DEF VerdictOn
<1> HIDE DEF next
<1>4. ReplyOK(next)
    BY <1>1, <1>2, <1>3 DEF ConversationOK, ReplyOK
<1>5. now \in Nat
    BY DEF SearchInv, SharedOK
<1>6. ConversationOK(next)
    BY <1>1, <1>2, <1>4, <1>5 DEF ConversationOK
<1> QED
    BY <1>6 DEF next

\* A thread that found room found less than Room entries.
LEMMA RoomFound ==
    ASSUME SearchInv, NEW t \in Threads, NEW next, Turn(t, next), UNCHANGED <<births, store>>,
           ConversationOK(next), next.phase = "room", next.full = (Len(store) >= Room)
    PROVE  SearchInv'
<1>1. CASE next.full
    BY <1>1, OnlyThreadMoves
<1>2. CASE ~next.full
    <2>1. SharedOK' /\ ConversationsOK'
        BY SharedStays, TurnKeepsConversations DEF SearchInv, Turn
    <2>2. Welcome' = Welcome \cup {t}
        BY <1>2, TurnAddsWelcome DEF SearchInv
    <2>3. Welcome \cup {t} \subseteq Threads
        BY DEF Welcome
    <2>4. Cardinality(Welcome') <= Cardinality(Threads) /\ Cardinality(Welcome') \in Nat
        BY <2>2, <2>3, ThreadsAssumption, FS_Subset, FS_CardinalityType
    <2>5. Len(store) \in Nat /\ Len(store) < Room
        <3>1. ~(Len(store) >= Room)
            BY <1>2, Zenon
        <3>2. Len(store) \in Nat
            BY LenProperties DEF SearchInv, SharedOK
        <3> QED
            BY <3>1, <3>2, RoomAssumption
    <2>6. RoomKept'
        BY <2>4, <2>5, WelcomeFinite, RoomAssumption DEF RoomKept
    <2> QED
        BY <2>1, <2>6 DEF SearchInv
<1> QED
    BY <1>1, <1>2

\* Judging a reply keeps the invariant.
LEMMA ReceiveStep == ASSUME SearchInv, NEW t \in Threads, Receive(t) PROVE SearchInv'
<1> DEFINE c == thread[t]
           q == RequestOf[c.call]
           next == [c EXCEPT !.phase = "room", !.read = now, !.full = Len(store) >= Room]
<1>1. \/ \E outcome : Fails(t, c.call, outcome)
      \/ \E frames : Ends(t, c.call, [outcome |-> "done", frames |-> frames])
      \/ /\ Verdict(Corpus, c.reply.body.rows) = "good"
         /\ Ends(t, c.call, [outcome |-> "done", rows |-> c.reply.body.rows])
      \/ /\ c.reply.status = 200 /\ q.kind = "kis"
         /\ VerdictOn(q.kind, c.reply.body) = "good"
         /\ Turn(t, next)
    BY DEF Receive
<1>2. c.phase = "replied" /\ UNCHANGED <<births, store>>
    BY DEF Receive
<1>3. CASE \E outcome : Fails(t, c.call, outcome)
    BY <1>2, <1>3, CallFails
<1>4. CASE \E frames : Ends(t, c.call, [outcome |-> "done", frames |-> frames])
    <2>1. \A frames : AnswerOK([outcome |-> "done", frames |-> frames])
        BY DEF AnswerOK
    <2> QED
        BY <1>2, <1>4, <2>1, CallEnds
<1>5. CASE /\ Verdict(Corpus, c.reply.body.rows) = "good"
           /\ Ends(t, c.call, [outcome |-> "done", rows |-> c.reply.body.rows])
    <2>1. OnCorpus(c.reply.body.rows)
        BY <1>5, GoodRowsLieOnCorpus
    <2>2. AnswerOK([outcome |-> "done", rows |-> c.reply.body.rows])
        BY <2>1 DEF AnswerOK
    <2> QED
        BY <1>2, <1>5, <2>2, CallEnds
<1>6. CASE /\ c.reply.status = 200 /\ q.kind = "kis"
           /\ VerdictOn(q.kind, c.reply.body) = "good"
           /\ Turn(t, next)
    <2>1. ConversationOK(c)
        BY DEF SearchInv, ConversationsOK
    <2>2. c.call \in Kis
        BY <1>2, <1>6, <2>1 DEF ConversationOK, Kis
    <2>3. ConversationOK(next)
        <3>1. VerdictOn("kis", c.reply.body) = "good"
            BY <1>6
        <3> QED
            BY <1>2, <1>6, <2>2, <3>1, RoomInOrder
    <2>4. next.phase = "room" /\ next.full = (Len(store) >= Room)
        <3> HIDE DEF c
        <3> QED  BY <2>1 DEF ConversationOK, Idle
    <2> HIDE DEF next
    <2> QED
        BY <1>2, <1>6, <2>3, <2>4, RoomFound
<1> QED
    BY <1>1, <1>3, <1>4, <1>5, <1>6

-----------------------------------------------------------------------------
(* Steps that change the snapshot store.                                   *)

\* The conversation of each thread is sound.
LEMMA ConversationOf ==
    ASSUME SearchInv, NEW t \in Threads
    PROVE  ConversationOK(thread[t])
BY DEF SearchInv, ConversationsOK

\* What a put that found room inserts is what the load it names computed.
LEMMA SnapshotFaithful ==
    ASSUME SearchInv, NEW t \in Threads, thread[t].phase = "room"
    PROVE  Snapshot(t) \in Faithful
<1> DEFINE c == thread[t]
<1>1. ReplyOK(c)
    BY ConversationOf DEF ConversationOK
<1>2. c.call \in Kis /\ c.reply.status = 200
    BY <1>1 DEF ReplyOK
<1>3. PICK r \in DOMAIN loads : c.call \in Told200(r) /\ c.reply.body = Told(r, c.call)
    BY <1>1, <1>2 DEF ReplyOK
<1>4. Snapshot(t) = Kept(r, c.call)
    BY <1>3 DEF Snapshot, RevisionOf, Told, Kept
<1>5. Kept(r, c.call) \in FaithfulTo(r)
    BY <1>3 DEF FaithfulTo
<1> QED
    BY <1>4, <1>5 DEF Faithful

\* Inserting a snapshot keeps the invariant.
LEMMA InsertStep ==
    ASSUME SearchInv, NEW t \in Threads, thread[t].phase = "room", ~thread[t].full,
           Insert(t, store)
    PROVE  SearchInv'
<1> DEFINE c == thread[t]
           entry == [id |-> Len(births) + 1, expires |-> c.read + Ttl, snapshot |-> Snapshot(t)]
           answer == [outcome |-> "done", rows |-> c.reply.body.rows,
                      snapshot |-> Len(births) + 1]
           next == [Idle EXCEPT !.call = c.call, !.answer = answer]
<1>1. /\ births' = Append(births, c.read)
      /\ store' = Append(store, entry)
      /\ Turn(t, next)
    BY DEF Insert, Ends
<1>2. ConversationOK(c)
    BY ConversationOf
<1>3. entry \in Entries
    <2>1. Len(births) + 1 \in Nat
        BY LenProperties DEF SearchInv, SharedOK
    <2>2. c.read + Ttl \in Nat
        BY <1>2, TtlAssumption DEF ConversationOK
    <2>3. Snapshot(t) \in Faithful
        BY SnapshotFaithful
    <2> QED
        BY <2>1, <2>2, <2>3 DEF Entries
<1> HIDE DEF entry
<1>4. AnswerOK(answer)
    <2>1. OnCorpus(c.reply.body.rows)
        BY <1>2, GoodRowsLieOnCorpus DEF ConversationOK, ReplyOK
    <2> QED
        BY <2>1 DEF AnswerOK
<1>5. ConversationOK(next) /\ next.phase # "room"
    <2> HIDE DEF answer
    <2> QED  BY <1>4, EndedInOrder
<1> HIDE DEF next
<1>6. ConversationsOK'
    BY <1>1, <1>5, TurnKeepsConversations DEF SearchInv
<1>7. /\ store \in Seq(Entries)
      /\ store' \in Seq(Entries) /\ Len(store') = Len(store) + 1 /\ Len(store) \in Nat
    BY <1>1, <1>3, AppendProperties, LenProperties DEF SearchInv, SharedOK
<1>8. SharedOK'
    <2>1. UNCHANGED <<scene, loads, up, now>>
        BY <1>1 DEF Turn
    <2>2. Entries' = Entries
        BY <2>1, SameMeasures
    <2>3. births' \in Seq(Nat)
        BY <1>1, <1>2, AppendProperties DEF SearchInv, SharedOK, ConversationOK
    <2> QED
        BY <1>7, <2>1, <2>2, <2>3 DEF SearchInv, SharedOK
<1>9. RoomKept'
    <2>1. Welcome' = Welcome \ {t}
        BY <1>1, <1>5, TurnKeepsWelcome DEF SearchInv
    <2>2. t \in Welcome
        BY DEF Welcome
    <2>3. Cardinality(Welcome') = Cardinality(Welcome) - 1
        BY <2>1, <2>2, WelcomeFinite, FS_RemoveElement
    <2> QED
        BY <1>7, <2>3, WelcomeFinite, RoomAssumption DEF SearchInv, RoomKept
<1> QED
    BY <1>6, <1>8, <1>9 DEF SearchInv

\* A step that keeps or shrinks the store and gives nobody room.
LEMMA StoreDoesNotGrow ==
    ASSUME SearchInv, NEW t \in Threads, NEW next, Turn(t, next), UNCHANGED births,
           store' \in Seq(Entries), Len(store') <= Len(store),
           ConversationOK(next), next.phase = "room" => next.full
    PROVE  SearchInv'
<1>1. UNCHANGED <<scene, loads, up, now, births>>
    BY DEF Turn
<1>2. SharedOK'
    <2>1. Entries' = Entries
        BY <1>1, SameMeasures
    <2> QED
        BY <1>1, <2>1 DEF SearchInv, SharedOK
<1>3. ConversationsOK'
    BY TurnKeepsConversations DEF SearchInv
<1>4. RoomKept'
    <2>1. Welcome' = Welcome \ {t}
        BY TurnKeepsWelcome DEF SearchInv
    <2>2. Len(store') \in Nat
        BY LenProperties
    <2> QED
        BY <2>1, <2>2, RoomStays DEF SearchInv
<1> QED
    BY <1>2, <1>3, <1>4 DEF SearchInv

\* Evicting the oldest snapshot keeps the invariant.
LEMMA EvictStep ==
    ASSUME SearchInv, NEW t \in Threads, thread[t].phase = "room", thread[t].full,
           store # <<>>, store' = Tail(store), UNCHANGED births,
           Turn(t, [thread[t] EXCEPT !.full = FALSE])
    PROVE  SearchInv'
<1> DEFINE c == thread[t]
           next == [c EXCEPT !.full = FALSE]
<1>1. ConversationOK(c)
    BY ConversationOf
<1>2. /\ DOMAIN next = DOMAIN Idle
      /\ next.phase = c.phase /\ ~next.full /\ next.full \in BOOLEAN
      /\ next.call = c.call /\ next.reply = c.reply /\ next.read = c.read /\ next.answer = c.answer
    <2> HIDE DEF c
    <2> QED  BY <1>1 DEF ConversationOK, Idle
<1>3. Turn(t, next)
    OBVIOUS
<1> HIDE DEF next
<1>4. ReplyOK(next)
    BY <1>1, <1>2 DEF ConversationOK, ReplyOK
<1>5. ConversationOK(next)
    BY <1>1, <1>2, <1>4 DEF ConversationOK
<1>6. ConversationsOK'
    BY <1>3, <1>5, TurnKeepsConversations DEF SearchInv
<1>7. store' \in Seq(Entries) /\ Len(store') = Len(store) - 1 /\ Len(store) \in Nat
    BY HeadTailProperties, LenProperties DEF SearchInv, SharedOK
<1>8. SharedOK'
    <2>1. UNCHANGED <<scene, loads, up, now, births>>
        BY <1>3 DEF Turn
    <2>2. Entries' = Entries
        BY <2>1, SameMeasures
    <2> QED
        BY <1>7, <2>1, <2>2 DEF SearchInv, SharedOK
<1>9. RoomKept'
    <2>1. Welcome' = Welcome \cup {t}
        BY <1>2, <1>3, TurnAddsWelcome DEF SearchInv
    <2>2. Cardinality(Welcome') <= Cardinality(Welcome) + 1 /\ Cardinality(Welcome') \in Nat
        <3> DEFINE W == Welcome
                   n == Cardinality(W)
        <3>1. IsFiniteSet(W) /\ n \in Nat
            BY WelcomeFinite
        <3> HIDE DEF W, n
        <3>2. IsFiniteSet(W \cup {t}) /\ Cardinality(W \cup {t}) \in {n, n + 1}
            BY <3>1, FS_AddElement DEF n
        <3>3. Cardinality(W \cup {t}) <= n + 1 /\ Cardinality(W \cup {t}) \in Nat
            BY <3>1, <3>2
        <3> QED
            BY <2>1, <3>3 DEF W, n
    <2> QED
        BY <1>7, <2>2, WelcomeFinite, RoomAssumption DEF SearchInv, RoomKept
<1> QED
    BY <1>6, <1>8, <1>9 DEF SearchInv

\* Every step of put() keeps the invariant.
LEMMA PutStep == ASSUME SearchInv, NEW t \in Threads, Put(t) PROVE SearchInv'
<1>1. thread[t].phase = "room"
    BY DEF Put
<1>2. CASE thread[t].full /\ store # <<>>
    BY <1>1, <1>2, EvictStep DEF Put, MustEvict
<1>3. CASE thread[t].full /\ store = <<>>
    BY <1>3, CallFails DEF Put, MustEvict
<1>4. CASE ~thread[t].full
    BY <1>1, <1>4, InsertStep DEF Put, MustEvict
<1> QED
    BY <1>2, <1>3, <1>4

\* A snapshot that is found is in the store, and may be taken out of it.
LEMMA PlaceIsInStore ==
    ASSUME SearchInv, NEW id, EntryOf(id) # {}
    PROVE  /\ PlaceOf(id) \in DOMAIN store
           /\ store[PlaceOf(id)] \in Entries
           /\ Without(id) \in Seq(Entries)
           /\ Len(Without(id)) = Len(store) - 1
           /\ Len(store) \in Nat
<1>1. PlaceOf(id) \in EntryOf(id)
    BY DEF PlaceOf
<1>2. PlaceOf(id) \in DOMAIN store /\ store \in Seq(Entries)
    BY <1>1 DEF EntryOf, SearchInv, SharedOK
<1> QED
    BY <1>2, OneTakenOut, ElementOfSeq, LenProperties DEF Without

\* Looking a snapshot up keeps the invariant.
LEMMA FindStep == ASSUME SearchInv, NEW t \in Threads, Find(t) PROVE SearchInv'
<1>1. PICK id \in DOMAIN births :
          \/ /\ EntryOf(id) # {}
             /\ Turn(t, [Idle EXCEPT !.phase = "held", !.held = store[PlaceOf(id)],
                                    !.read = now])
          \/ Turn(t, [Idle EXCEPT !.phase = "buried", !.held = [id |-> id], !.read = now])
          \/ Fails(t, Absent, "not found")
    BY DEF Find
<1>2. UNCHANGED <<births, store>>
    BY DEF Find
<1>3. now \in Nat
    BY DEF SearchInv, SharedOK
<1>4. ASSUME NEW phase \in {"held", "buried"}, NEW held, phase = "held" => held \in Entries,
             Turn(t, [Idle EXCEPT !.phase = phase, !.held = held, !.read = now])
      PROVE  SearchInv'
    <2> DEFINE next == [Idle EXCEPT !.phase = phase, !.held = held, !.read = now]
    <2>1. /\ DOMAIN next = DOMAIN Idle
          /\ next.phase = phase /\ next.held = held /\ next.read = now
          /\ next.full \in BOOLEAN /\ next.answer = Absent
        BY DEF Idle
    <2>2. Turn(t, next)
        BY <1>4
    <2> HIDE DEF next
    <2>3. ReplyOK(next) /\ AnswerOK(next.answer)
        BY <1>4, <2>1 DEF ReplyOK, AnswerOK
    <2>4. ConversationOK(next) /\ next.phase # "room"
        BY <1>3, <1>4, <2>1, <2>3 DEF ConversationOK
    <2> QED
        BY <1>2, <2>2, <2>4, OnlyThreadMoves
<1>5. CASE /\ EntryOf(id) # {}
           /\ Turn(t, [Idle EXCEPT !.phase = "held", !.held = store[PlaceOf(id)], !.read = now])
    BY <1>4, <1>5, PlaceIsInStore
<1>6. CASE Turn(t, [Idle EXCEPT !.phase = "buried", !.held = [id |-> id], !.read = now])
    BY <1>4, <1>6
<1>7. CASE Fails(t, Absent, "not found")
    BY <1>2, <1>7, CallFails
<1> QED
    BY <1>1, <1>5, <1>6, <1>7

\* Taking a snapshot, or burying one that has expired, keeps the invariant.
LEMMA TakeStep == ASSUME SearchInv, NEW t \in Threads, Take(t) PROVE SearchInv'
<1> DEFINE entry == thread[t].held
<1>1. entry \in Entries /\ UNCHANGED births
    BY ConversationOf DEF Take, ConversationOK
<1>2. CASE store' = store /\ Fails(t, Absent, "raised")
    BY <1>1, <1>2, CallFails
<1>3. CASE /\ EntryOf(entry.id) # {}
           /\ store' = Without(entry.id)
           /\ Fails(t, Absent, "expired")
    <2> DEFINE next == [Idle EXCEPT !.call = Absent, !.answer = [outcome |-> "expired"]]
    <2>1. Turn(t, next)
        BY <1>3 DEF Fails, Ends
    <2>2. ConversationOK(next) /\ next.phase # "room"
        BY EndedInOrder, FailureInOrder
    <2>3. store' \in Seq(Entries) /\ Len(store') <= Len(store)
        BY <1>3, PlaceIsInStore
    <2> HIDE DEF next
    <2> QED
        BY <1>1, <2>1, <2>2, <2>3, StoreDoesNotGrow
<1>4. CASE /\ EntryOf(entry.id) # {}
           /\ store' = Append(Without(entry.id), entry)
           /\ Ends(t, Absent, [outcome |-> "done", taken |-> entry, at |-> thread[t].read])
    <2> DEFINE answer == [outcome |-> "done", taken |-> entry, at |-> thread[t].read]
               next == [Idle EXCEPT !.call = Absent, !.answer = answer]
    <2>1. Turn(t, next)
        BY <1>4 DEF Ends
    <2>2. ConversationOK(next) /\ next.phase # "room"
        <3>1. AnswerOK(answer)
            BY DEF AnswerOK
        <3> HIDE DEF answer
        <3> QED  BY <3>1, EndedInOrder
    <2>3. store' \in Seq(Entries) /\ Len(store') <= Len(store)
        BY <1>1, <1>4, PlaceIsInStore, AppendProperties
    <2> HIDE DEF next
    <2> QED
        BY <1>1, <2>1, <2>2, <2>3, StoreDoesNotGrow
<1> QED
    BY <1>2, <1>3, <1>4 DEF Take

\* Touching the tombstone of a snapshot keeps the invariant.
LEMMA DigStep == ASSUME SearchInv, NEW t \in Threads, Dig(t) PROVE SearchInv'
<1>1. (\E outcome : Fails(t, Absent, outcome)) /\ UNCHANGED <<births, store>>
    BY DEF Dig
<1> QED
    BY <1>1, CallFails

-----------------------------------------------------------------------------
(* Steps of the server and the clock; the theorems.                        *)

\* What was computed stays computed: a load takes no earlier one's place.
LEMMA LoadsGrow ==
    ASSUME SharedOK, NEW b \in Builds, loads' = Append(loads, b), UNCHANGED scene
    PROVE  /\ loads' \in Seq(Builds) /\ loads' # <<>>
           /\ Corpus' = Corpus
           /\ \A r \in DOMAIN loads :
                  /\ r \in DOMAIN loads'
                  /\ \A q : Told(r, q)' = Told(r, q)
                  /\ Told200(r)' = Told200(r)
           /\ Entries \subseteq Entries'
<1>1. /\ loads \in Seq(Builds) /\ loads' \in Seq(Builds)
      /\ DOMAIN loads' = 1..(Len(loads) + 1) /\ DOMAIN loads = 1..Len(loads)
      /\ Len(loads) \in Nat
      /\ \A r \in DOMAIN loads : loads'[r] = loads[r]
    BY AppendProperties, LenProperties DEF SharedOK
<1>2. ASSUME NEW r \in DOMAIN loads
      PROVE  /\ r \in DOMAIN loads'
             /\ \A q : Computed(r, q)' = Computed(r, q)
    BY <1>1 DEF Computed
<1>3. ASSUME NEW r \in DOMAIN loads
      PROVE  /\ \A q : Told(r, q)' = Told(r, q) /\ Kept(r, q)' = Kept(r, q)
             /\ Told200(r)' = Told200(r)
    BY <1>2 DEF Told, Kept, Told200, Kis
<1>4. ASSUME NEW r \in DOMAIN loads
      PROVE  FaithfulTo(r)' = FaithfulTo(r)
    BY <1>3 DEF FaithfulTo
<1>5. Faithful \subseteq Faithful'
    BY <1>2, <1>4 DEF Faithful
<1>6. Entries \subseteq Entries'
    BY <1>5 DEF Entries
<1>7. Corpus' = Corpus
    BY DEF Corpus
<1>8. loads' # <<>>
    BY <1>1
<1> QED
    BY <1>1, <1>2, <1>3, <1>6, <1>7, <1>8

\* Loading artifacts keeps the invariant.
LEMMA LoadStep == SearchInv /\ Load => SearchInv'
<1> SUFFICES ASSUME SearchInv, Load PROVE SearchInv'
    OBVIOUS
<1> USE DEF Load
<1>1. PICK b \in scene.builds : loads' = Append(loads, b)
    OBVIOUS
<1>2. b \in Builds /\ SharedOK
    BY ScenesAssumption DEF SearchInv, SharedOK
<1>3. /\ loads' \in Seq(Builds) /\ loads' # <<>>
      /\ Corpus' = Corpus
      /\ \A r \in DOMAIN loads :
             /\ r \in DOMAIN loads'
             /\ \A q : Told(r, q)' = Told(r, q)
             /\ Told200(r)' = Told200(r)
      /\ Entries \subseteq Entries'
    BY <1>1, <1>2, LoadsGrow
<1>4. SharedOK'
    <2>1. store' \in Seq(Entries')
        BY <1>2, <1>3, SeqMonotonic DEF SharedOK
    <2> QED
        BY <1>2, <1>3, <2>1 DEF SharedOK
<1>5. ConversationsOK'
    <2>1. ASSUME NEW t \in Threads
          PROVE  ConversationOK(thread[t])'
        <3> PICK c : c = thread[t]
            OBVIOUS
        <3>1. ConversationOK(c) /\ thread'[t] = c
            BY ConversationOf
        <3>2. ReplyOK(c)'
            <4>1. \A rows : (Verdict(Corpus, rows) = "good")' <=> Verdict(Corpus, rows) = "good"
                BY <1>3
            <4> QED
                BY <1>3, <3>1, <4>1 DEF ConversationOK, ReplyOK, Kis
        <3>3. AnswerOK(c.answer)'
            BY <1>3, <3>1 DEF ConversationOK, AnswerOK, OnCorpus
        <3>4. ConversationOK(c)'
            BY <1>3, <3>1, <3>2, <3>3 DEF ConversationOK
        <3> QED
            BY <3>1, <3>4
    <2> QED
        BY <2>1 DEF SearchInv, ConversationsOK
<1>6. RoomKept'
    BY DEF SearchInv, RoomKept, Welcome
<1> QED
    BY <1>4, <1>5, <1>6 DEF SearchInv

\* Neither the threads nor what they are measured by change.
LEMMA NobodyMoves ==
    ASSUME SearchInv, UNCHANGED <<scene, loads, thread, store, births>>,
           up' => loads # <<>>, now' \in Nat
    PROVE  SearchInv'
<1>1. SharedOK'
    BY SameMeasures DEF SearchInv, SharedOK
<1>2. ConversationsOK'
    <2>1. ASSUME NEW t \in Threads
          PROVE  ConversationOK(thread[t])'
        <3>1. ConversationOK(thread[t]) /\ ReplyOK(thread[t]) /\ AnswerOK(thread[t].answer)
            BY ConversationOf DEF ConversationOK
        <3>2. ReplyOK(thread[t])'
            BY <3>1 DEF ReplyOK, Told, Told200, Computed, Kis, Corpus
        <3>3. AnswerOK(thread[t].answer)'
            BY <3>1, SameMeasures DEF AnswerOK
        <3> QED
            BY <3>1, <3>2, <3>3, SameMeasures DEF ConversationOK
    <2> QED
        BY <2>1 DEF SearchInv, ConversationsOK
<1>3. RoomKept'
    BY DEF SearchInv, RoomKept, Welcome
<1> QED
    BY <1>1, <1>2, <1>3 DEF SearchInv

\* The invariant is inductive.
LEMMA SearchContinues == SearchInv /\ [SearchNext]_searchVars => SearchInv'
<1> SUFFICES ASSUME SearchInv, [SearchNext]_searchVars PROVE SearchInv'
    OBVIOUS
<1>0. now \in Nat /\ (up => loads # <<>>)
    BY DEF SearchInv, SharedOK
<1>1. CASE Load
    BY <1>1, LoadStep
<1>2. CASE Stop
    BY <1>0, <1>2, NobodyMoves DEF Stop
<1>3. CASE Tick
    BY <1>0, <1>3, NobodyMoves DEF Tick
<1>4. ASSUME NEW t \in Threads, Call(t)
      PROVE  SearchInv'
    BY <1>4, AskStep, ServeStep, LoseStep, ReceiveStep, PutStep DEF Call
<1>5. ASSUME NEW t \in Threads, Read(t)
      PROVE  SearchInv'
    BY <1>5, FindStep, TakeStep, DigStep DEF Read
<1>6. CASE UNCHANGED searchVars
    BY <1>0, <1>6, NobodyMoves DEF searchVars
<1> QED
    BY <1>1, <1>2, <1>3, <1>4, <1>5, <1>6 DEF SearchNext

\* The inductive invariant of the search API, the retrieval server behind it and
\* the snapshot store they fill.
THEOREM SearchInvHolds == SearchSpec => []SearchInv
<1> QED
    BY SearchStarts, SearchContinues, PTL DEF SearchSpec

\* Every snapshot that EventTrail can open holds rows, evidence and settings of the
\* one load of the server it names (scoring_revision of RetrievalRuntime.search_plan).
THEOREM SnapshotsOfTheirRevision == SearchSpec => []SnapshotOfRevision
<1>1. SearchInv => SnapshotOfRevision
    <2> SUFFICES ASSUME SearchInv, NEW s \in Snapshots
                 PROVE  LET answer == PlanTable[loads[s.revision]][s.query]
                        IN  /\ answer.status = 200
                            /\ answer.body = [rows |-> s.rows, evidence |-> s.evidence,
                                              config |-> s.config]
        BY DEF SnapshotOfRevision
    <2>1. s \in Faithful
        <3>1. PICK i \in DOMAIN store : s = store[i].snapshot
            BY DEF Snapshots
        <3>2. store[i] \in Entries
            BY ElementOfSeq, LenProperties DEF SearchInv, SharedOK
        <3> QED
            BY <3>1, <3>2 DEF Entries
    <2>2. PICK r \in DOMAIN loads : s \in FaithfulTo(r)
        BY <2>1 DEF Faithful
    <2>3. PICK q \in Told200(r) : s = Kept(r, q)
        BY <2>2 DEF FaithfulTo
    <2>4. q \in Kis /\ loads[r] \in Builds
        BY <2>3, ElementOfSeq, LenProperties DEF Told200, SearchInv, SharedOK
    <2> DEFINE answer == PlanTable[loads[r]][q]
    <2>5. /\ answer.status = 200
          /\ s.query = q /\ s.revision = r /\ s.config = answer.body.config
          /\ s.rows = answer.body.rows /\ s.evidence = answer.body.evidence
        BY <2>3 DEF Told200, Kept, Computed
    <2>6. answer.body = [rows |-> answer.body.rows, evidence |-> answer.body.evidence,
                         config |-> answer.body.config]
        <3>1. answer = PlanAnswer(BuildOf[loads[r]], RequestOf[q])
            BY <2>4, PlanTableEntries
        <3> DEFINE build == BuildOf[loads[r]]
                   request == RequestOf[q]
        <3> HIDE DEF answer, build, request
        <3> QED
            BY <2>5, <3>1, GoodPlanAnswer DEF build, request
    <2> HIDE DEF answer
    <2>7. answer.body = [rows |-> s.rows, evidence |-> s.evidence, config |-> s.config]
        BY <2>5, <2>6
    <2> QED
        BY <2>5, <2>7 DEF answer
<1> QED
    BY <1>1, SearchInvHolds, PTL

\* Whatever rows a caller is shown lie on the frames of the API's own corpus
\* (validate_aligned_path), whichever server computed them.
THEOREM RowsStayCanonical == SearchSpec => []RowsCanonical
<1>1. SearchInv => RowsCanonical
    <2> SUFFICES ASSUME SearchInv, NEW t \in Threads PROVE AnswerOK(thread[t].answer)
        BY DEF RowsCanonical, AnswerOK, OnCorpus
    <2> QED
        BY ConversationOf DEF ConversationOK
<1> QED
    BY <1>1, SearchInvHolds, PTL

\* Unlocked puts exceed max_snapshots by less than the number of threads.
THEOREM StoreStaysNearlyBounded == SearchSpec => []NearlyBounded
<1>1. SearchInv => NearlyBounded
    <2> SUFFICES ASSUME SearchInv PROVE NearlyBounded
        OBVIOUS
    <2>1. Len(store) \in Nat
        BY LenProperties DEF SearchInv, SharedOK
    <2> QED
        BY <2>1, WelcomeFinite, RoomAssumption DEF SearchInv, RoomKept, NearlyBounded
<1> QED
    BY <1>1, SearchInvHolds, PTL

-----------------------------------------------------------------------------
(* The page of an AVS answer: lists, counting, and the order by depth.        *)

\* What holds of some number holds of a least one: the form in which these proofs
\* use induction.
LEMMA LeastNumber ==
    ASSUME NEW T \in SUBSET Nat, T # {}
    PROVE  \E n \in T : \A m \in T : n <= m
<1>1. PICK n \in T : \A m \in T : <<m, n>> \notin OpToRel(<, Nat)
    BY WFMin, NatLessThanWellFounded
<1>2. ASSUME NEW m \in T
      PROVE  ~(m < n)
    <2>1. m \in Nat /\ n \in Nat
        OBVIOUS
    <2>2. m < n => <<m, n>> \in OpToRel(<, Nat)
        BY <2>1 DEF OpToRel
    <2> QED
        BY <1>1, <2>2
<1>3. \A m \in T : n <= m
    BY <1>2
<1> QED
    BY <1>3

-----------------------------------------------------------------------------
(* The order of a page: each kept frame after those that come before it.   *)

\* Places without repetition, as many as elements, list every element once.
LEMMA ByPlaceLists ==
    ASSUME NEW S, IsFiniteSet(S), NEW place \in [S -> Nat],
           \A a \in S : place[a] < Cardinality(S),
           \A a, b \in S : place[a] = place[b] => a = b
    PROVE  /\ Cardinality(S) \in Nat
           /\ ByPlace(S, place) \in [1..Cardinality(S) -> S]
           /\ \A n \in 1..Cardinality(S) : place[ByPlace(S, place)[n]] = n - 1
           /\ \A a \in S : /\ place[a] + 1 \in 1..Cardinality(S)
                           /\ ByPlace(S, place)[place[a] + 1] = a
<1> DEFINE c == Cardinality(S)
           f == [a \in S |-> place[a] + 1]
<1>1. c \in Nat
    BY FS_CardinalityType
<1>2. IsFiniteSet(1..c) /\ Cardinality(1..c) = c
    <2> HIDE DEF c
    <2> QED  BY <1>1, FS_Interval
<1>3. f \in Injection(S, 1..c)
    <2>1. \A a \in S : place[a] + 1 \in 1..c
        BY <1>1
    <2>2. \A a, b \in S : place[a] + 1 = place[b] + 1 => a = b
        OBVIOUS
    <2> HIDE DEF c
    <2> QED  BY <2>1, <2>2 DEF Injection, IsInjective
<1>4. f \in Surjection(S, 1..c)
    <2> HIDE DEF f, c
    <2> QED  BY <1>2, <1>3, FS_Injection DEF c
<1>5. \A n \in 1..c : \E a \in S : place[a] = n - 1
    <2> HIDE DEF c
    <2> SUFFICES ASSUME NEW n \in 1..c
                 PROVE  \E a \in S : place[a] = n - 1
        OBVIOUS
    <2>1. PICK a \in S : f[a] = n
        BY <1>4 DEF Surjection
    <2> QED
        BY <2>1
<1>6. \A n \in 1..c : ByPlace(S, place)[n] \in S /\ place[ByPlace(S, place)[n]] = n - 1
    BY <1>5 DEF ByPlace
<1>7. ByPlace(S, place) = [n \in 1..c |-> CHOOSE a \in S : place[a] = n - 1]
    BY DEF ByPlace
<1> HIDE DEF c, f
<1>8. ByPlace(S, place) \in [1..c -> S]
    BY <1>6, <1>7
<1>9. ASSUME NEW a \in S
      PROVE  place[a] + 1 \in 1..c /\ ByPlace(S, place)[place[a] + 1] = a
    <2>1. place[a] + 1 \in 1..c
        BY <1>1 DEF c
    <2>2. place[ByPlace(S, place)[place[a] + 1]] = place[a]
        BY <1>6, <2>1
    <2> QED
        BY <1>6, <2>1, <2>2
<1> QED
    BY <1>1, <1>6, <1>8, <1>9 DEF c

\* A strict total order as a set of pairs, and the elements before each.
Orders(S, R) ==
    /\ \A a \in S : <<a, a>> \notin R
    /\ \A a, b, d \in S : <<a, b>> \in R /\ <<b, d>> \in R => <<a, d>> \in R
    /\ \A a, b \in S : a # b => <<a, b>> \in R \/ <<b, a>> \in R

Before(S, R, a) == {b \in S : <<b, a>> \in R}
Places(S, R) == [a \in S |-> Cardinality(Before(S, R, a))]

\* A place in an order is below the number of members, and above all earlier places.
LEMMA FewerBefore ==
    ASSUME NEW S, IsFiniteSet(S), NEW R, Orders(S, R), NEW a \in S
    PROVE  /\ Places(S, R)[a] \in Nat
           /\ Places(S, R)[a] < Cardinality(S)
           /\ \A b \in S : <<a, b>> \in R => Places(S, R)[a] < Places(S, R)[b]
<1>1. \A b \in S : Places(S, R)[b] = Cardinality(Before(S, R, b))
    BY DEF Places
<1>2. \A b \in S : /\ Before(S, R, b) \in SUBSET S
                   /\ b \in S \ Before(S, R, b)
    BY DEF Before, Orders
<1>3. \A b \in S : IsFiniteSet(Before(S, R, b)) /\ Cardinality(Before(S, R, b)) \in Nat
    BY <1>2, FS_Subset, FS_CardinalityType
<1>4. Cardinality(Before(S, R, a)) < Cardinality(S)
    <2>1. Before(S, R, a) # S
        BY <1>2
    <2>2. /\ Cardinality(Before(S, R, a)) <= Cardinality(S)
          /\ Cardinality(Before(S, R, a)) # Cardinality(S)
        BY <1>2, <2>1, FS_Subset
    <2> QED
        BY <1>3, <2>2, FS_CardinalityType
<1>5. ASSUME NEW b \in S, <<a, b>> \in R
      PROVE  Cardinality(Before(S, R, a)) < Cardinality(Before(S, R, b))
    <2>1. a \in Before(S, R, b) /\ a \notin Before(S, R, a)
        BY <1>5 DEF Before, Orders
    <2>2. Before(S, R, a) \in SUBSET Before(S, R, b)
        BY <1>5 DEF Before, Orders
    <2>3. /\ Cardinality(Before(S, R, a)) <= Cardinality(Before(S, R, b))
          /\ Cardinality(Before(S, R, a)) # Cardinality(Before(S, R, b))
        BY <1>3, <2>1, <2>2, FS_Subset
    <2> QED
        BY <1>3, <2>3
<1> QED
    BY <1>1, <1>3, <1>4, <1>5

\* The elements are listed by their order.
LEMMA ListedByOrder ==
    ASSUME NEW S, IsFiniteSet(S), NEW R, Orders(S, R)
    PROVE  LET order == ByPlace(S, Places(S, R))
           IN  /\ Cardinality(S) \in Nat
               /\ order \in [1..Cardinality(S) -> S]
               /\ \A a \in S : \E n \in 1..Cardinality(S) : order[n] = a
               /\ \A m, n \in 1..Cardinality(S) : m < n <=> <<order[m], order[n]>> \in R
<1> DEFINE place == Places(S, R)
           order == ByPlace(S, place)
           c == Cardinality(S)
<1>1. c \in Nat
    BY FS_CardinalityType
<1>2. \A a \in S : place[a] \in Nat /\ place[a] < c
    BY FewerBefore
<1>3. \A a, b \in S : <<a, b>> \in R => place[a] < place[b]
    BY FewerBefore
<1>4. place = [a \in S |-> place[a]]
    BY DEF Places
<1> HIDE DEF place
<1>5. \A a, b \in S : place[a] = place[b] => a = b
    <2> SUFFICES ASSUME NEW a \in S, NEW b \in S, place[a] = place[b], a # b
                 PROVE  FALSE
        OBVIOUS
    <2>1. <<a, b>> \in R \/ <<b, a>> \in R
        BY DEF Orders
    <2> QED
        BY <1>2, <1>3, <2>1
<1>6. \A a, b \in S : place[a] < place[b] => <<a, b>> \in R
    <2> SUFFICES ASSUME NEW a \in S, NEW b \in S, place[a] < place[b]
                 PROVE  <<a, b>> \in R
        OBVIOUS
    <2>1. a # b /\ <<b, a>> \notin R
        BY <1>2, <1>3
    <2> QED
        BY <2>1 DEF Orders
<1>7. place \in [S -> Nat]
    BY <1>2, <1>4
<1>8. /\ order \in [1..c -> S]
      /\ \A n \in 1..c : place[order[n]] = n - 1
      /\ \A a \in S : place[a] + 1 \in 1..c /\ order[place[a] + 1] = a
    BY <1>2, <1>5, <1>7, ByPlaceLists
<1> HIDE DEF order, c
<1>9. \A a \in S : \E n \in 1..c : order[n] = a
    BY <1>8
<1>10. ASSUME NEW m \in 1..c, NEW n \in 1..c
       PROVE  m < n <=> <<order[m], order[n]>> \in R
    <2>1. order[m] \in S /\ order[n] \in S /\ place[order[m]] = m - 1 /\ place[order[n]] = n - 1
        BY <1>8
    <2>2. m < n <=> place[order[m]] < place[order[n]]
        BY <2>1
    <2> QED
        BY <1>3, <1>6, <2>1, <2>2
<1> QED
    BY <1>1, <1>8, <1>9, <1>10 DEF order, c, place

-----------------------------------------------------------------------------
(* AVS pages: what is kept lies apart, and is shown level by level.        *)

Apart2(corpus, window, f, g) ==
    ~ /\ corpus.video[f] = corpus.video[g]
      /\ corpus.time[f] - corpus.time[g] \in -window..window

AllApart(corpus, window, frames) ==
    \A j \in 1..Len(frames) : \A i \in 1..(j - 1) : Apart2(corpus, window, frames[i], frames[j])

Keeping(corpus, frames, window, g, n) ==
    IF n = 0 THEN <<>>
    ELSE IF NearKept(corpus, g[n - 1], frames[n], window) THEN g[n - 1]
    ELSE Append(g[n - 1], frames[n])

IsKeeping(corpus, frames, window, g, m) ==
    g = [n \in 0..m |-> Keeping(corpus, frames, window, g, n)]

\* The loop over the ranked frames has a result after every number of them.
LEMMA KeepingExists ==
    ASSUME NEW corpus, NEW frames, NEW window, NEW k \in Nat
    PROVE  \E g : IsKeeping(corpus, frames, window, g, k)
<1> DEFINE Bad == {m \in Nat : ~ \E g : IsKeeping(corpus, frames, window, g, m)}
<1>1. SUFFICES ASSUME Bad # {}
               PROVE  FALSE
    OBVIOUS
<1>2. PICK m \in Bad : \A b \in Bad : m <= b
    <2>1. Bad \in SUBSET Nat
        OBVIOUS
    <2> HIDE DEF Bad
    <2> QED  BY <1>1, <2>1, LeastNumber
<1>3. CASE m = 0
    <2> DEFINE g == [n \in 0..0 |-> <<>>]
    <2>1. \A n \in 0..0 : Keeping(corpus, frames, window, g, n) = <<>>
        BY DEF Keeping
    <2>2. IsKeeping(corpus, frames, window, g, 0)
        BY <2>1 DEF IsKeeping
    <2> QED
        BY <1>3, <2>2
<1>4. CASE m > 0
    <2>1. m \in Nat /\ m - 1 \in Nat /\ m - 1 \notin Bad
        BY <1>2, <1>4
    <2>2. PICK g : IsKeeping(corpus, frames, window, g, m - 1)
        BY <2>1
    <2> DEFINE h == [n \in 0..m |-> Keeping(corpus, frames, window, g, n)]
    <2>3. ASSUME NEW n \in 0..(m - 1)
          PROVE  h[n] = g[n]
        <3>1. h[n] = Keeping(corpus, frames, window, g, n)
            BY <2>1
        <3> HIDE DEF h
        <3> QED  BY <2>2, <3>1 DEF IsKeeping
    <2>4. ASSUME NEW n \in 0..m
          PROVE  Keeping(corpus, frames, window, h, n) = Keeping(corpus, frames, window, g, n)
        <3>1. n # 0 => h[n - 1] = g[n - 1]
            BY <2>1, <2>3
        <3> HIDE DEF h
        <3> QED  BY <3>1 DEF Keeping
    <2>5. IsKeeping(corpus, frames, window, h, m)
        BY <2>4 DEF IsKeeping
    <2> QED
        BY <2>1, <2>5
<1> QED
    BY <1>2, <1>3, <1>4

\* Deduplication goes through the list and keeps frame by frame.
LEMMA DeduplicatedIsKept ==
    ASSUME NEW corpus, NEW frames, NEW window, Len(frames) \in Nat
    PROVE  \E g : /\ IsKeeping(corpus, frames, window, g, Len(frames))
                  /\ Deduplicated(corpus, frames, window) = g[Len(frames)]
<1> DEFINE g == CHOOSE g : IsKeeping(corpus, frames, window, g, Len(frames))
<1>1. IsKeeping(corpus, frames, window, g, Len(frames))
    BY KeepingExists
<1>2. Deduplicated(corpus, frames, window) = g[Len(frames)]
    BY DEF Deduplicated, IsKeeping, Keeping
<1> QED
    BY <1>1, <1>2

\* Frames of a corpus whose times are numbers.
Timed(corpus) == corpus.time \in [DOMAIN corpus.video -> Int]

\* A frame is appended only where nothing kept is near.
LEMMA AppendKeepsApart ==
    ASSUME NEW corpus, Timed(corpus), NEW window \in Int,
           NEW kept \in Seq(DOMAIN corpus.video), AllApart(corpus, window, kept),
           NEW f \in DOMAIN corpus.video, ~NearKept(corpus, kept, f, window)
    PROVE  /\ Append(kept, f) \in Seq(DOMAIN corpus.video)
           /\ AllApart(corpus, window, Append(kept, f))
<1> DEFINE more == Append(kept, f)
<1>1. /\ more \in Seq(DOMAIN corpus.video)
      /\ Len(kept) \in Nat /\ Len(more) = Len(kept) + 1
      /\ \A i \in 1..Len(kept) : more[i] = kept[i] /\ kept[i] \in DOMAIN corpus.video
      /\ more[Len(kept) + 1] = f
    BY AppendProperties, LenProperties, ElementOfSeq
<1>2. ASSUME NEW i \in 1..Len(kept)
      PROVE  Apart2(corpus, window, kept[i], f)
    <2>1. kept[i] \in ToSet(kept)
        BY <1>1, LenProperties DEF ToSet
    <2>2. corpus.time[f] \in Int /\ corpus.time[kept[i]] \in Int
        BY <1>1 DEF Timed
    <2>3. ~ /\ corpus.video[kept[i]] = corpus.video[f]
            /\ LET gap == corpus.time[f] - corpus.time[kept[i]]
               IN  (IF gap < 0 THEN -gap ELSE gap) <= window
        BY <2>1 DEF NearKept
    <2> QED
        BY <2>2, <2>3 DEF Apart2
<1> HIDE DEF more
<1>3. ASSUME NEW j \in 1..Len(more), NEW i \in 1..(j - 1)
      PROVE  Apart2(corpus, window, more[i], more[j])
    <2>1. CASE j = Len(kept) + 1
        BY <1>1, <1>2, <2>1
    <2>2. CASE j # Len(kept) + 1
        BY <1>1, <2>2 DEF AllApart
    <2> QED
        BY <2>1, <2>2
<1> QED
    BY <1>1, <1>3 DEF AllApart, more

\* What is kept lies in the corpus and apart (AvsCoverageSelector.order).
LEMMA DeduplicatedApart ==
    ASSUME NEW corpus, Timed(corpus), NEW window \in Int,
           NEW frames \in Seq(DOMAIN corpus.video)
    PROVE  /\ Deduplicated(corpus, frames, window) \in Seq(DOMAIN corpus.video)
           /\ AllApart(corpus, window, Deduplicated(corpus, frames, window))
<1> DEFINE L == Len(frames)
           Good(s) == s \in Seq(DOMAIN corpus.video) /\ AllApart(corpus, window, s)
<1>1. L \in Nat /\ \A n \in 1..L : frames[n] \in DOMAIN corpus.video
    BY LenProperties, ElementOfSeq
<1>2. PICK g : /\ IsKeeping(corpus, frames, window, g, L)
               /\ Deduplicated(corpus, frames, window) = g[L]
    BY <1>1, DeduplicatedIsKept
<1>3. \A n \in 0..L : g[n] = Keeping(corpus, frames, window, g, n)
    BY <1>2 DEF IsKeeping
<1> DEFINE Bad == {n \in 0..L : ~Good(g[n])}
<1>4. ASSUME Bad # {}
      PROVE  FALSE
    <2>1. PICK n \in Bad : \A b \in Bad : n <= b
        <3>1. Bad \in SUBSET Nat
            BY <1>1
        <3> HIDE DEF Bad
        <3> QED  BY <1>4, <3>1, LeastNumber
    <2>2. n \in 0..L /\ ~Good(g[n]) /\ g[n] = Keeping(corpus, frames, window, g, n)
        BY <1>3
    <2>3. CASE n = 0
        <3>1. g[n] = <<>>
            BY <2>2, <2>3 DEF Keeping
        <3>2. Good(<<>>)
            BY EmptySeq DEF AllApart
        <3> QED
            BY <2>2, <3>1, <3>2
    <2>4. CASE n # 0
        <3>1. n \in 1..L /\ n - 1 \in 0..L /\ n - 1 \notin Bad
            BY <1>1, <2>1, <2>2, <2>4
        <3>2. Good(g[n - 1])
            BY <3>1
        <3>3. CASE NearKept(corpus, g[n - 1], frames[n], window)
            BY <2>2, <2>4, <3>2, <3>3 DEF Keeping
        <3>4. CASE ~NearKept(corpus, g[n - 1], frames[n], window)
            <4>1. g[n] = Append(g[n - 1], frames[n])
                BY <2>2, <2>4, <3>4 DEF Keeping
            <4>2. frames[n] \in DOMAIN corpus.video
                BY <1>1, <3>1
            <4>3. Good(Append(g[n - 1], frames[n]))
                BY <3>2, <3>4, <4>2, AppendKeepsApart
            <4> QED
                BY <2>2, <4>1, <4>3
        <3> QED
            BY <3>3, <3>4
    <2> QED
        BY <2>3, <2>4
<1>5. Good(g[L])
    BY <1>1, <1>4
<1> QED
    BY <1>2, <1>5

\* A later frame of the same video lies deeper.
LEMMA DepthFacts ==
    ASSUME NEW corpus, NEW seq, NEW i \in Nat
    PROVE  /\ DepthOf(corpus, seq, i) \in Nat
           /\ \A h \in 1..(i - 1) : corpus.video[seq[h]] = corpus.video[seq[i]] =>
                  DepthOf(corpus, seq, h) < DepthOf(corpus, seq, i)
<1> DEFINE Same(n) == {h \in 1..(n - 1) : corpus.video[seq[h]] = corpus.video[seq[n]]}
<1>1. \A n : DepthOf(corpus, seq, n) = Cardinality(Same(n))
    BY DEF DepthOf
<1>2. \A n \in Nat : IsFiniteSet(Same(n)) /\ Cardinality(Same(n)) \in Nat
    <2> SUFFICES ASSUME NEW n \in Nat
                 PROVE  IsFiniteSet(Same(n)) /\ Cardinality(Same(n)) \in Nat
        OBVIOUS
    <2>1. IsFiniteSet(1..(n - 1))
        BY FS_Interval
    <2>2. Same(n) \in SUBSET (1..(n - 1))
        OBVIOUS
    <2> HIDE DEF Same
    <2> QED
        BY <2>1, <2>2, FS_Subset, FS_CardinalityType
<1>3. ASSUME NEW h \in 1..(i - 1), corpus.video[seq[h]] = corpus.video[seq[i]]
      PROVE  Cardinality(Same(h)) < Cardinality(Same(i))
    <2>1. Same(h) \in SUBSET Same(i)
        BY <1>3
    <2>2. h \in Same(i) /\ h \notin Same(h) /\ h \in Nat
        BY <1>3
    <2> HIDE DEF Same
    <2>3. /\ Cardinality(Same(h)) <= Cardinality(Same(i))
          /\ Cardinality(Same(h)) # Cardinality(Same(i))
        BY <1>2, <2>1, <2>2, FS_Subset
    <2> QED
        BY <1>2, <2>2, <2>3
<1> HIDE DEF Same
<1> QED
    BY <1>1, <1>2, <1>3

\* Level by level, and within a level by rank.
Levels(corpus, kept) ==
    {r \in (DOMAIN kept) \X (DOMAIN kept) :
        \/ DepthOf(corpus, kept, r[1]) < DepthOf(corpus, kept, r[2])
        \/ DepthOf(corpus, kept, r[1]) = DepthOf(corpus, kept, r[2]) /\ r[1] < r[2]}

\* A page is ordered by depth, then by place.
LEMMA LevelsAre ==
    ASSUME NEW corpus, NEW kept, NEW i \in DOMAIN kept, NEW j \in DOMAIN kept
    PROVE  <<i, j>> \in Levels(corpus, kept) <=>
               \/ DepthOf(corpus, kept, i) < DepthOf(corpus, kept, j)
               \/ DepthOf(corpus, kept, i) = DepthOf(corpus, kept, j) /\ i < j
BY DEF Levels

\* This is a strict order.
LEMMA LevelsOrder ==
    ASSUME NEW corpus, NEW S, NEW kept \in Seq(S)
    PROVE  Orders(DOMAIN kept, Levels(corpus, kept))
<1> DEFINE depth(i) == DepthOf(corpus, kept, i)
           R == Levels(corpus, kept)
           P == DOMAIN kept
<1>1. P = 1..Len(kept) /\ Len(kept) \in Nat
    BY LenProperties
<1>2. \A i \in P : i \in Nat /\ depth(i) \in Nat
    BY <1>1, DepthFacts
<1>3. \A i, j \in P : <<i, j>> \in R <=> depth(i) < depth(j) \/ (depth(i) = depth(j) /\ i < j)
    BY LevelsAre
<1> HIDE DEF depth, R, P
<1>4. \A i \in P : <<i, i>> \notin R
    BY <1>2, <1>3
<1>5. ASSUME NEW i \in P, NEW j \in P, NEW k \in P, <<i, j>> \in R, <<j, k>> \in R
      PROVE  <<i, k>> \in R
    BY <1>2, <1>3, <1>5
<1>6. ASSUME NEW i \in P, NEW j \in P, i # j
      PROVE  <<i, j>> \in R \/ <<j, i>> \in R
    BY <1>2, <1>3, <1>6
<1> QED
    BY <1>4, <1>5, <1>6 DEF Orders, P, R

ByLevel(corpus, kept) == ByPlace(DOMAIN kept, Places(DOMAIN kept, Levels(corpus, kept)))
Listed(corpus, kept) ==
    [n \in DOMAIN ByLevel(corpus, kept) |-> kept[ByLevel(corpus, kept)[n]]]

\* A page lists the deduplicated frames in that order.
LEMMA CoverageIsListed ==
    ASSUME NEW corpus, NEW frames, NEW window
    PROVE  CoverageOrder(corpus, frames, window)
               = Listed(corpus, Deduplicated(corpus, frames, window))
<1> DEFINE kept == Deduplicated(corpus, frames, window)
           P == DOMAIN kept
           Ahead(a) == {b \in P : \/ DepthOf(corpus, kept, b) < DepthOf(corpus, kept, a)
                                  \/ DepthOf(corpus, kept, b) = DepthOf(corpus, kept, a) /\ b < a}
           places == [a \in P |-> Cardinality(Ahead(a))]
<1>1. \A a \in P : Ahead(a) = Before(P, Levels(corpus, kept), a)
    <2> HIDE DEF kept
    <2> QED  BY LevelsAre DEF Before
<1>2. places = Places(P, Levels(corpus, kept))
    <2> HIDE DEF Ahead, P
    <2> QED  BY <1>1 DEF Places
<1>3. Table(places) = places
    <2> HIDE DEF places
    <2> QED  BY DEF Table
<1>4. CoverageOrder(corpus, frames, window) =
          [n \in DOMAIN ByPlace(P, Table(places)) |-> kept[ByPlace(P, Table(places))[n]]]
    BY DEF CoverageOrder, Arranged
<1> HIDE DEF places, kept
<1> QED
    BY <1>2, <1>3, <1>4 DEF kept, Listed, ByLevel

\* In the order of levels a frame has as many of its video before it as among
\* those kept.
LEMMA DepthInOrder ==
    ASSUME NEW corpus, NEW S, NEW kept \in Seq(S)
    PROVE  LET order == ByLevel(corpus, kept)
               shown == Listed(corpus, kept)
           IN  /\ order \in [1..Len(kept) -> 1..Len(kept)]
               /\ \A m, n \in 1..Len(kept) :
                      m < n <=> <<order[m], order[n]>> \in Levels(corpus, kept)
               /\ shown = [n \in 1..Len(kept) |-> kept[order[n]]]
               /\ \A n \in 1..Len(kept) :
                      DepthOf(corpus, shown, n) = DepthOf(corpus, kept, order[n])
<1> DEFINE K == Len(kept)
           order == ByLevel(corpus, kept)
           shown == Listed(corpus, kept)
           R == Levels(corpus, kept)
<1>1. K \in Nat /\ DOMAIN kept = 1..K
    BY LenProperties
<1>2. IsFiniteSet(1..K) /\ Cardinality(1..K) = K
    <2> HIDE DEF K
    <2> QED  BY <1>1, FS_Interval
<1>3. Orders(1..K, R)
    BY <1>1, LevelsOrder
<1>4. /\ order \in [1..K -> 1..K]
      /\ \A a \in 1..K : \E n \in 1..K : order[n] = a
      /\ \A m, n \in 1..K : m < n <=> <<order[m], order[n]>> \in R
    <2>1. order = ByPlace(1..K, Places(1..K, R))
        BY <1>1 DEF ByLevel
    <2> DEFINE listed == ByPlace(1..K, Places(1..K, R))
    <2> HIDE DEF K, R, order
    <2>2. /\ listed \in [1..K -> 1..K]
          /\ \A a \in 1..K : \E n \in 1..K : listed[n] = a
          /\ \A m, n \in 1..K : m < n <=> <<listed[m], listed[n]>> \in R
        BY <1>2, <1>3, ListedByOrder
    <2> HIDE DEF listed
    <2> QED  BY <2>1, <2>2 DEF listed
<1>0. shown = [n \in 1..K |-> kept[order[n]]]
    BY <1>4 DEF Listed
<1> HIDE DEF order, shown
<1>5. \A n \in 1..K : shown[n] = kept[order[n]]
    BY <1>0
<1>6. ASSUME NEW n \in 1..K
      PROVE  DepthOf(corpus, shown, n) = DepthOf(corpus, kept, order[n])
    <2> DEFINE p == order[n]
               A == {m \in 1..(n - 1) : corpus.video[shown[m]] = corpus.video[shown[n]]}
               B == {j \in 1..(p - 1) : corpus.video[kept[j]] = corpus.video[kept[p]]}
               f == [m \in A |-> order[m]]
    <2>1. p \in 1..K /\ n \in Nat /\ p \in Nat
        <3>1. p \in 1..K
            BY <1>4
        <3> HIDE DEF p, K
        <3> QED
            BY <1>1, <3>1
    <2>2. \A i, j \in 1..K : corpus.video[kept[i]] = corpus.video[kept[j]] =>
                                 (i < j <=> <<i, j>> \in R)
        <3> SUFFICES ASSUME NEW i \in 1..K, NEW j \in 1..K,
                            corpus.video[kept[i]] = corpus.video[kept[j]]
                     PROVE  i < j <=> <<i, j>> \in R
            OBVIOUS
        <3>1. i \in Nat /\ j \in Nat /\ i \in DOMAIN kept /\ j \in DOMAIN kept
            BY <1>1
        <3>2. DepthOf(corpus, kept, i) \in Nat /\ DepthOf(corpus, kept, j) \in Nat
            BY <3>1, DepthFacts
        <3>3. i < j => DepthOf(corpus, kept, i) < DepthOf(corpus, kept, j)
            BY <3>1, DepthFacts
        <3>4. j < i => DepthOf(corpus, kept, j) < DepthOf(corpus, kept, i)
            BY <3>1, DepthFacts
        <3> QED
            BY <3>1, <3>2, <3>3, <3>4, LevelsAre
    <2> HIDE DEF R
    <2>3. ASSUME NEW m \in A
          PROVE  order[m] \in B
        <3>1. m \in 1..K /\ m < n
            BY <1>1
        <3>2. corpus.video[kept[order[m]]] = corpus.video[kept[p]]
            BY <1>5, <3>1
        <3>3. order[m] \in 1..K /\ order[m] < p
            BY <1>4, <2>1, <2>2, <3>1, <3>2
        <3> QED
            BY <2>1, <3>2, <3>3
    <2>4. ASSUME NEW j \in B
          PROVE  \E m \in A : order[m] = j
        <3>1. j \in 1..K /\ j < p /\ corpus.video[kept[j]] = corpus.video[kept[p]]
            BY <1>1, <2>1
        <3>2. PICK m \in 1..K : order[m] = j
            BY <1>4, <3>1
        <3>3. m < n
            BY <1>4, <2>1, <2>2, <3>1, <3>2
        <3>4. m \in A
            BY <1>1, <1>5, <3>1, <3>2, <3>3
        <3> QED
            BY <3>2, <3>4
    <2>5. \A l, m \in A : order[l] = order[m] => l = m
        <3> SUFFICES ASSUME NEW l \in A, NEW m \in A, order[l] = order[m]
                     PROVE  l = m
            OBVIOUS
        <3>1. l \in 1..K /\ m \in 1..K
            BY <1>1
        <3>2. ~(l < m) /\ ~(m < l)
            BY <1>3, <1>4, <3>1 DEF Orders
        <3> QED
            BY <1>1, <3>1, <3>2
    <2>6. IsFiniteSet(A)
        <3>1. IsFiniteSet(1..(n - 1))
            BY <2>1, FS_Interval
        <3>2. A \in SUBSET (1..(n - 1))
            OBVIOUS
        <3> HIDE DEF A
        <3> QED  BY <3>1, <3>2, FS_Subset
    <2> HIDE DEF A, B
    <2>7. f \in Bijection(A, B)
        BY <2>3, <2>4, <2>5 DEF Bijection, Injection, Surjection, IsInjective
    <2>8. Cardinality(B) = Cardinality(A)
        BY <2>6, <2>7, FS_Bijection DEF ExistsBijection
    <2> QED
        BY <2>8 DEF DepthOf, A, B
<1> QED
    BY <1>0, <1>4, <1>6 DEF order, shown

\* The frames of an AVS page lie apart, level by level (AvsCoverageSelector.order).
LEMMA CoverageSpreads ==
    ASSUME NEW corpus, Timed(corpus), NEW window \in Int,
           NEW frames \in Seq(DOMAIN corpus.video)
    PROVE  LET shown == CoverageOrder(corpus, frames, window)
           IN  /\ shown \in Seq(DOMAIN corpus.video)
               /\ AllApart(corpus, window, shown)
               /\ \A j \in 1..Len(shown) : \A i \in 1..(j - 1) :
                      DepthOf(corpus, shown, i) <= DepthOf(corpus, shown, j)
<1> DEFINE F == DOMAIN corpus.video
           kept == Deduplicated(corpus, frames, window)
           K == Len(kept)
           order == ByLevel(corpus, kept)
           shown == CoverageOrder(corpus, frames, window)
<1>1. kept \in Seq(F) /\ AllApart(corpus, window, kept)
    BY DeduplicatedApart
<1>2. shown = Listed(corpus, kept)
    BY CoverageIsListed
<1> HIDE DEF kept, shown
<1>3. /\ order \in [1..K -> 1..K]
      /\ \A m, n \in 1..K : m < n <=> <<order[m], order[n]>> \in Levels(corpus, kept)
      /\ shown = [n \in 1..K |-> kept[order[n]]]
      /\ \A n \in 1..K : DepthOf(corpus, shown, n) = DepthOf(corpus, kept, order[n])
    BY <1>1, <1>2, DepthInOrder
<1> HIDE DEF order
<1>4. K \in Nat /\ DOMAIN kept = 1..K /\ \A i \in 1..K : kept[i] \in F
    BY <1>1, LenProperties, ElementOfSeq
<1>5. shown \in Seq(F) /\ Len(shown) = K
    <2>1. shown \in [1..K -> F]
        BY <1>3, <1>4
    <2> HIDE DEF K, F
    <2> QED  BY <1>4, <2>1, SeqDef, LenProperties
<1>6. ASSUME NEW j \in 1..K, NEW i \in 1..(j - 1)
      PROVE  /\ Apart2(corpus, window, shown[i], shown[j])
             /\ DepthOf(corpus, shown, i) <= DepthOf(corpus, shown, j)
    <2> DEFINE p == order[i]
               q == order[j]
    <2>1. i \in 1..K /\ i < j
        BY <1>4
    <2>2. p \in 1..K /\ q \in 1..K /\ <<p, q>> \in Levels(corpus, kept)
        BY <1>3, <2>1
    <2>3. DepthOf(corpus, kept, p) <= DepthOf(corpus, kept, q) /\ p # q
        <3>1. p \in DOMAIN kept /\ q \in DOMAIN kept /\ p \in Nat /\ q \in Nat
            BY <1>4, <2>2
        <3>2. DepthOf(corpus, kept, p) \in Nat /\ DepthOf(corpus, kept, q) \in Nat
            BY <3>1, DepthFacts
        <3> HIDE DEF p, q
        <3> QED
            BY <2>2, <3>1, <3>2, LevelsAre
    <2>4. Apart2(corpus, window, kept[p], kept[q])
        <3> HIDE DEF p, q
        <3>1. p \in Nat /\ q \in Nat
            BY <1>4, <2>2
        <3>2. corpus.time[kept[p]] \in Int /\ corpus.time[kept[q]] \in Int
            BY <1>4, <2>2 DEF Timed
        <3>3. CASE p < q
            BY <1>1, <2>2, <3>1, <3>3 DEF AllApart
        <3>4. CASE q < p
            <4>1. Apart2(corpus, window, kept[q], kept[p])
                BY <1>1, <2>2, <3>1, <3>4 DEF AllApart
            <4> QED
                BY <3>2, <4>1 DEF Apart2
        <3> QED
            BY <2>3, <3>1, <3>3, <3>4
    <2> QED
        BY <1>3, <2>1, <2>3, <2>4
<1> QED
    BY <1>5, <1>6 DEF AllApart, shown

\* The first rows of a list.
LEMMA FirstRowsOf ==
    ASSUME NEW S, NEW rows \in Seq(S), NEW n \in Nat
    PROVE  /\ FirstRows(rows, n) \in Seq(S)
           /\ Len(FirstRows(rows, n)) <= Len(rows)
           /\ \A i \in 1..Len(FirstRows(rows, n)) : FirstRows(rows, n)[i] = rows[i]
<1> DEFINE k == IF Len(rows) < n THEN Len(rows) ELSE n
           first == SubSeq(rows, 1, k)
<1>1. Len(rows) \in Nat /\ k \in Nat /\ k <= Len(rows)
    BY LenProperties
<1>2. FirstRows(rows, n) = first
    BY DEF FirstRows
<1> HIDE DEF k
<1>3. /\ first \in Seq(S)
      /\ Len(first) = IF 1 <= k THEN k - 1 + 1 ELSE 0
      /\ \A i \in 1..(k - 1 + 1) : first[i] = rows[1 + i - 1]
    BY <1>1, ElementOfSeq, SubSeqProperties
<1> HIDE DEF first
<1>4. Len(first) = k
    BY <1>1, <1>3
<1> QED
    BY <1>1, <1>2, <1>3, <1>4

\* So do the first of them.
LEMMA PageSpreads ==
    ASSUME NEW corpus, Timed(corpus), NEW window \in Int,
           NEW frames \in Seq(DOMAIN corpus.video), NEW n \in Nat
    PROVE  LET page == FirstRows(CoverageOrder(corpus, frames, window), n)
           IN  \A j \in DOMAIN page : \A i \in 1..(j - 1) :
                   /\ Apart2(corpus, window, page[i], page[j])
                   /\ DepthOf(corpus, page, i) <= DepthOf(corpus, page, j)
<1> DEFINE shown == CoverageOrder(corpus, frames, window)
           page == FirstRows(shown, n)
<1>1. /\ shown \in Seq(DOMAIN corpus.video)
      /\ AllApart(corpus, window, shown)
      /\ \A j \in 1..Len(shown) : \A i \in 1..(j - 1) :
             DepthOf(corpus, shown, i) <= DepthOf(corpus, shown, j)
    BY CoverageSpreads
<1> HIDE DEF shown
<1>2. /\ page \in Seq(DOMAIN corpus.video)
      /\ Len(page) <= Len(shown)
      /\ \A i \in 1..Len(page) : page[i] = shown[i]
    BY <1>1, FirstRowsOf
<1>3. DOMAIN page = 1..Len(page) /\ Len(page) \in Nat /\ Len(shown) \in Nat
    BY <1>1, <1>2, LenProperties
<1> HIDE DEF page
<1>4. ASSUME NEW j \in 1..Len(page)
      PROVE  DepthOf(corpus, page, j) = DepthOf(corpus, shown, j)
    <2>1. \A h \in 1..(j - 1) : page[h] = shown[h]
        BY <1>2, <1>3
    <2>2. page[j] = shown[j]
        BY <1>2
    <2>3. {h \in 1..(j - 1) : corpus.video[page[h]] = corpus.video[page[j]]}
              = {h \in 1..(j - 1) : corpus.video[shown[h]] = corpus.video[shown[j]]}
        BY <2>1, <2>2
    <2> QED
        BY <2>3 DEF DepthOf
<1>5. ASSUME NEW j \in 1..Len(page), NEW i \in 1..(j - 1)
      PROVE  /\ Apart2(corpus, window, page[i], page[j])
             /\ DepthOf(corpus, page, i) <= DepthOf(corpus, page, j)
    <2>1. i \in 1..Len(page) /\ j \in 1..Len(shown)
        BY <1>2, <1>3
    <2>2. /\ Apart2(corpus, window, shown[i], shown[j])
          /\ DepthOf(corpus, shown, i) <= DepthOf(corpus, shown, j)
        BY <1>1, <2>1 DEF AllApart
    <2> QED
        BY <1>2, <1>4, <2>1, <2>2
<1> QED
    BY <1>3, <1>5 DEF page, shown

-----------------------------------------------------------------------------
(* What a server finds for a text is a list.                               *)

IsList(s) == \E S : s \in Seq(S)

\* The values of a function on a finite set.
LEMMA FiniteValues ==
    ASSUME NEW D, IsFiniteSet(D), NEW f, f = [d \in D |-> f[d]]
    PROVE  IsFiniteSet({f[d] : d \in D})
<1>1. f \in Surjection(D, {f[d] : d \in D})
    BY DEF Surjection
<1> QED
    BY <1>1, FS_Surjection

\* Members sorted by place are a list.
LEMMA ByPlaceIsList ==
    ASSUME NEW S, IsFiniteSet(S), NEW place
    PROVE  IsList(ByPlace(S, place))
<1> DEFINE s == ByPlace(S, place)
           c == Cardinality(S)
           V == {s[i] : i \in 1..c}
<1>1. c \in Nat
    BY FS_CardinalityType
<1>2. s = [n \in 1..c |-> CHOOSE a \in S : place[a] = n - 1]
    BY DEF ByPlace
<1> HIDE DEF s, c
<1>3. s \in [1..c -> V]
    BY <1>2
<1> HIDE DEF V
<1>4. s \in Seq(V)
    BY <1>1, <1>3, SeqDef
<1> QED
    BY <1>4 DEF IsList, s

\* The start of a list is a list.
LEMMA FirstOfList ==
    ASSUME NEW s, IsList(s), NEW n \in Nat
    PROVE  IsList(FirstRows(s, n))
BY FirstRowsOf DEF IsList

\* The best frames of a row are a list.
LEMMA BestFirstIsList ==
    ASSUME NEW row, IsFiniteSet(DOMAIN row), NEW n \in Nat
    PROVE  IsList(FirstRows(BestFirst(row), n))
<1>1. IsList(BestFirst(row))
    BY ByPlaceIsList DEF BestFirst, Arranged
<1> QED
    BY <1>1, FirstOfList

\* A list has finitely many members.
LEMMA ListHasFiniteRange ==
    ASSUME NEW s, IsList(s)
    PROVE  IsFiniteSet(ToSet(s))
<1>1. PICK S : s \in Seq(S)
    BY DEF IsList
<1>2. DOMAIN s = 1..Len(s) /\ Len(s) \in Nat /\ s = [i \in DOMAIN s |-> s[i]]
    BY <1>1, LenProperties
<1>3. IsFiniteSet(DOMAIN s)
    BY <1>2, FS_Interval
<1> QED
    BY <1>2, <1>3, FiniteValues DEF ToSet

\* What the transcripts find is a list.
LEMMA SegmentHitsAreList ==
    ASSUME NEW x, NEW text, IsFiniteSet(Frames(x)), NEW n \in Nat
    PROVE  IsList(SegmentHits(x, text, n))
<1>1. \A s : Projected(x, s) \in SUBSET Frames(x)
    BY DEF Projected, NearestOf, Near, Inside
<1> DEFINE order == Arranged(x.segments, LAMBDA s, t :
                        \/ s.sim[text] > t.sim[text]
                        \/ /\ s.sim[text] = t.sim[text]
                           /\ s.video < t.video \/ (s.video = t.video /\ s.start < t.start))
           found == ToSet(FirstRows(order, n))
           covered == UNION {Projected(x, s) : s \in found}
           score == [f \in covered |->
                        Max({s.sim[text] : s \in {t \in found : f \in Projected(x, t)}})]
<1>2. SegmentHits(x, text, n) = FirstRows(BestFirst(score), n)
    BY DEF SegmentHits
<1> HIDE DEF found
<1>3. IsFiniteSet(DOMAIN score)
    <2>1. DOMAIN score = covered
        OBVIOUS
    <2>2. covered \in SUBSET Frames(x)
        BY <1>1
    <2> HIDE DEF score, covered
    <2> QED
        BY <2>1, <2>2, FS_Subset
<1> HIDE DEF score
<1> QED
    BY <1>2, <1>3, BestFirstIsList

\* Fused lists are a list.
LEMMA FusedIsList ==
    ASSUME NEW hits, hits = [source \in DOMAIN hits |-> hits[source]],
           IsFiniteSet(DOMAIN hits), \A source \in DOMAIN hits : IsList(hits[source]),
           NEW r, NEW n \in Nat, NEW configured
    PROVE  IsList(Fused(hits, r, n, configured))
<1> DEFINE pool == UNION {ToSet(hits[source]) : source \in DOMAIN hits}
           sets == [source \in DOMAIN hits |-> ToSet(hits[source])]
<1>1. IsFiniteSet(pool)
    <2>1. IsFiniteSet({sets[source] : source \in DOMAIN hits})
        <3>1. sets = [source \in DOMAIN hits |-> sets[source]]
            OBVIOUS
        <3> HIDE DEF sets
        <3> QED  BY <3>1, FiniteValues
    <2>2. {sets[source] : source \in DOMAIN hits} = {ToSet(hits[source]) : source \in DOMAIN hits}
        OBVIOUS
    <2>3. \A T \in {ToSet(hits[source]) : source \in DOMAIN hits} : IsFiniteSet(T)
        BY ListHasFiniteRange
    <2> QED
        BY <2>1, <2>2, <2>3, FS_UNION
<1>2. PICK place : Fused(hits, r, n, configured) = FirstRows(ByPlace(pool, place), n)
    BY DEF Fused, Arranged
<1> HIDE DEF pool
<1> QED
    BY <1>1, <1>2, ByPlaceIsList, FirstOfList

\* What a source finds is a list.
LEMMA HitsAreList ==
    ASSUME NEW x, NEW text, IsFiniteSet(Frames(x)),
           DOMAIN x.visual[text] = Frames(x),
           x.context # Absent => DOMAIN x.context[text] = Frames(x),
           NEW n \in Nat, NEW source \in {"visual", "context", "asr"},
           source = "context" => x.context # Absent
    PROVE  IsList(HitsOf(x, source, text, n))
<1>1. CASE source = "visual"
    BY <1>1, BestFirstIsList DEF HitsOf, DenseHits
<1>2. CASE source = "context"
    BY <1>2, BestFirstIsList DEF HitsOf, DenseHits
<1>3. CASE source = "asr"
    BY <1>3, SegmentHitsAreList DEF HitsOf
<1> QED
    BY <1>1, <1>2, <1>3

\* Joined lists have the members of both.
LEMMA RangeOfConcat ==
    ASSUME NEW S, NEW s \in Seq(S), NEW t \in Seq(S)
    PROVE  /\ s \o t \in Seq(S)
           /\ ToSet(s \o t) = ToSet(s) \cup ToSet(t)
           /\ Len(s \o t) = Len(s) + Len(t)
<1>1. /\ s \o t \in Seq(S) /\ Len(s \o t) = Len(s) + Len(t)
      /\ \A i \in 1..(Len(s) + Len(t)) :
             (s \o t)[i] = IF i <= Len(s) THEN s[i] ELSE t[i - Len(s)]
    BY ConcatProperties
<1>2. /\ Len(s) \in Nat /\ Len(t) \in Nat
      /\ DOMAIN s = 1..Len(s) /\ DOMAIN t = 1..Len(t) /\ DOMAIN (s \o t) = 1..Len(s \o t)
    BY <1>1, LenProperties
<1>3. ToSet(s \o t) \subseteq ToSet(s) \cup ToSet(t)
    BY <1>1, <1>2 DEF ToSet
<1>4. ToSet(s) \subseteq ToSet(s \o t)
    BY <1>1, <1>2 DEF ToSet
<1>5. ASSUME NEW i \in 1..Len(t)
      PROVE  t[i] \in ToSet(s \o t)
    <2>1. Len(s) + i \in 1..(Len(s) + Len(t)) /\ (s \o t)[Len(s) + i] = t[i]
        BY <1>1, <1>2
    <2> QED
        BY <1>1, <1>2, <2>1 DEF ToSet
<1> QED
    BY <1>1, <1>2, <1>3, <1>4, <1>5 DEF ToSet

\* The modalities a load can search.
LEMMA ModalitiesAre ==
    ASSUME NEW x
    PROVE  /\ ToSet(Modalities(x)) \subseteq {"visual", "context", "asr"}
           /\ "visual" \in ToSet(Modalities(x))
           /\ "context" \in ToSet(Modalities(x)) => x.context # Absent
<1> DEFINE v == <<"visual">>
           c == IF x.context # Absent THEN <<"context">> ELSE <<>>
           a == IF x.segments # Absent THEN <<"asr">> ELSE <<>>
           All == {"visual", "context", "asr"}
<1>0. /\ ToSet(<<>>) = {}
      /\ \A source : ToSet(<<source>>) = {source}
    BY DEF ToSet
<1>1. v \in Seq(All) /\ ToSet(v) = {"visual"}
    BY <1>0
<1>2. c \in Seq(All) /\ ToSet(c) \subseteq {"context"} /\ (x.context = Absent => ToSet(c) = {})
    <2>1. CASE x.context # Absent
        BY <1>0, <2>1
    <2>2. CASE x.context = Absent
        BY <1>0, <2>2, EmptySeq
    <2> QED
        BY <2>1, <2>2
<1>3. a \in Seq(All) /\ ToSet(a) \subseteq {"asr"}
    <2>1. CASE x.segments # Absent
        BY <1>0, <2>1
    <2>2. CASE x.segments = Absent
        BY <1>0, <2>2, EmptySeq
    <2> QED
        BY <2>1, <2>2
<1>4. Modalities(x) = v \o c \o a
    BY DEF Modalities
<1> HIDE DEF v, c, a, All
<1>5. v \o c \in Seq(All) /\ ToSet(v \o c) = ToSet(v) \cup ToSet(c)
    BY <1>1, <1>2, RangeOfConcat
<1>6. ToSet(Modalities(x)) = ToSet(v) \cup ToSet(c) \cup ToSet(a)
    <2> DEFINE vc == v \o c
    <2>1. vc \in Seq(All) /\ a \in Seq(All)
        BY <1>3, <1>5
    <2>2. Modalities(x) = vc \o a /\ ToSet(vc) = ToSet(v) \cup ToSet(c)
        BY <1>4, <1>5
    <2> HIDE DEF vc
    <2>3. ToSet(vc \o a) = ToSet(vc) \cup ToSet(a)
        BY <2>1, RangeOfConcat
    <2> QED
        BY <2>2, <2>3
<1> QED
    BY <1>1, <1>2, <1>3, <1>6

\* What a server finds for a text is a list.
LEMMA TextHitsAreList ==
    ASSUME NEW x, NEW text, IsFiniteSet(Frames(x)),
           DOMAIN x.visual[text] = Frames(x),
           x.context # Absent => DOMAIN x.context[text] = Frames(x),
           NEW n \in Nat, NEW r, NEW down, TextHits(x, r, text, n, down) # Absent
    PROVE  IsList(TextHits(x, r, text, n, down).frames)
<1> DEFINE jobs == Modalities(x)
           answered == ToSet(jobs) \ down
           hits == [source \in answered |-> HitsOf(x, source, text, n)]
           fused == [frames |-> Fused(hits, r, n, ToSet(jobs)), warnings |-> ToSet(jobs) \cap down]
           alone == [frames |-> hits["visual"], warnings |-> {}]
<1>1. answered \subseteq {"visual", "context", "asr"} /\ IsFiniteSet(answered)
    <2>1. answered \in SUBSET {"visual", "context", "asr"}
        BY ModalitiesAre
    <2>2. IsFiniteSet({"visual", "context", "asr"})
        <3>1. IsFiniteSet({"visual"} \cup {"context"})
            BY FS_Singleton, FS_Union
        <3>2. IsFiniteSet(({"visual"} \cup {"context"}) \cup {"asr"})
            BY <3>1, FS_Singleton, FS_Union
        <3>3. ({"visual"} \cup {"context"}) \cup {"asr"} = {"visual", "context", "asr"}
            OBVIOUS
        <3> QED
            BY <3>2, <3>3
    <2> HIDE DEF answered
    <2> QED  BY <2>1, <2>2, FS_Subset
<1>2. \A source \in answered : IsList(HitsOf(x, source, text, n))
    BY <1>1, HitsAreList, ModalitiesAre
<1>3. TextHits(x, r, text, n, down) =
          IF {EncoderOf(jobs[i]) : i \in DOMAIN jobs} \cap down # {} THEN Absent
          ELSE IF Len(jobs) = 1 THEN (IF "visual" \in down THEN Absent ELSE alone)
          ELSE IF RequiredFailed(jobs, r, down) THEN Absent ELSE fused
    BY DEF TextHits
<1>4. \/ TextHits(x, r, text, n, down) = alone /\ "visual" \notin down
      \/ TextHits(x, r, text, n, down) = fused
    <2> HIDE DEF alone, fused, jobs
    <2> QED  BY <1>3
<1>5. CASE TextHits(x, r, text, n, down) = alone /\ "visual" \notin down
    <2>1. "visual" \in answered
        BY <1>5, ModalitiesAre
    <2> HIDE DEF answered
    <2> QED  BY <1>2, <1>5, <2>1
<1>6. CASE TextHits(x, r, text, n, down) = fused
    <2>1. DOMAIN hits = answered /\ \A source \in answered : hits[source] = HitsOf(x, source, text, n)
        OBVIOUS
    <2>2. hits = [source \in DOMAIN hits |-> hits[source]]
        OBVIOUS
    <2> HIDE DEF hits, answered
    <2>3. IsList(Fused(hits, r, n, ToSet(jobs)))
        BY <1>1, <1>2, <2>1, <2>2, FusedIsList
    <2> QED
        BY <1>6, <2>3
<1> QED
    BY <1>4, <1>5, <1>6

\* A good answer to an AVS request lists frames.
LEMMA TextAnswerIsList ==
    ASSUME NEW b \in Builds, NEW q \in Text, NEW down \in Outages,
           ServerAnswer(b, q, down).status = 200
    PROVE  IsList(ServerAnswer(b, q, down).body.frames)
<1> DEFINE build == BuildOf[b]
           text == RequestOf[q].text
           found == TextHits(build.x, build.r, text, Avs.pool, down)
           Answers(k) == [d \in Outages |-> TextAnswer(build, RequestOf[k], d)]
           Tables(c) == [k \in Text |->
                            Table([d \in Outages |-> TextAnswer(BuildOf[c], RequestOf[k], d)])]
<1>1. RequestOf[q].kind = "avs" /\ q \in Requests
    BY DEF Text
<1>2. ServerAnswer(b, q, down) = TextTable[b][q][down]
    BY <1>1 DEF ServerAnswer
<1>3. TextTable[b][q][down] = TextAnswer(build, RequestOf[q], down)
    <2>1. TextTable = [c \in Builds |-> Table(Tables(c))]
        BY DEF TextTable, Table
    <2>2. TextTable[b] = Tables(b)
        <3> HIDE DEF Tables
        <3>1. TextTable[b] = Table(Tables(b))
            BY <2>1
        <3> QED  BY <3>1 DEF Table
    <2>3. Tables(b)[q] = Table(Answers(q))
        OBVIOUS
    <2>4. Table(Answers(q)) = Answers(q)
        BY DEF Table
    <2>5. Answers(q)[down] = TextAnswer(build, RequestOf[q], down)
        OBVIOUS
    <2> HIDE DEF Tables, Answers
    <2> QED  BY <2>2, <2>3, <2>4, <2>5
<1>4. TextAnswer(build, RequestOf[q], down) = FoundAnswer(build, found)
    BY DEF TextAnswer
<1> HIDE DEF found
<1>5. found # Absent /\ ServerAnswer(b, q, down).body = found
    BY <1>2, <1>3, <1>4 DEF FoundAnswer, Failed, Answered
<1>6. IsList(found.frames)
    BY <1>1, <1>5, TextHitsAreList, BuildsAssumption, AvsAssumption DEF found
<1> QED
    BY <1>5, <1>6

-----------------------------------------------------------------------------
(* What a page shows.                                                      *)

\* A good answer to an AVS request is a list; the page made of it lies apart.
PageOK(c) ==
    /\ c.phase = "replied" /\ c.call \in Text /\ c.reply.status = 200 => IsList(c.reply.body.frames)
    /\ c.call \in Text /\ c.answer # Absent /\ "frames" \in DOMAIN c.answer =>
           SpreadOut(c.answer.frames)

PagesOK == \A t \in Threads : PageOK(thread[t])

\* The page of a good answer (AvsCoverageSelector.order, search).
LEMMA PageIsSpread ==
    ASSUME scene \in Scenes, NEW frames, IsList(frames), ~Unknown(frames),
           NEW q \in Text
    PROVE  SpreadOut(Covering(RequestOf[q], frames))
<1> DEFINE page == Covering(RequestOf[q], frames)
           n == RequestOf[q].page
<1>1. Timed(Corpus)
    BY CorpusAssumption DEF Timed, Corpus, Frames
<1>2. Avs.window \in Int /\ n \in Nat
    BY AvsAssumption DEF Text
<1>3. frames \in Seq(DOMAIN Corpus.video)
    <2>1. PICK S : frames \in Seq(S)
        BY DEF IsList
    <2>2. Len(frames) \in Nat /\ frames = [i \in 1..Len(frames) |-> frames[i]]
        BY <2>1, LenProperties
    <2>3. \A i \in 1..Len(frames) : frames[i] \in DOMAIN Corpus.video
        BY <2>1, LenProperties DEF Unknown
    <2>4. frames \in [1..Len(frames) -> DOMAIN Corpus.video]
        BY <2>2, <2>3
    <2> QED
        BY <2>2, <2>4, SeqDef
<1>4. page = FirstRows(CoverageOrder(Corpus, frames, Avs.window), n)
    BY DEF Covering
<1> HIDE DEF page, n
<1>5. \A j \in DOMAIN page : \A i \in 1..(j - 1) :
          /\ Apart2(Corpus, Avs.window, page[i], page[j])
          /\ DepthOf(Corpus, page, i) <= DepthOf(Corpus, page, j)
    BY <1>1, <1>2, <1>3, <1>4, PageSpreads
<1> QED
    BY <1>5 DEF SpreadOut, CloseTo, Apart2, page

\* A turn to a sound page leaves all pages sound.
LEMMA TurnKeepsPages ==
    ASSUME ConversationsOK, PagesOK, NEW t \in Threads, NEW next, Turn(t, next), PageOK(next)
    PROVE  PagesOK'
<1>1. Corpus' = Corpus
    BY DEF Turn, Corpus
<1>2. ASSUME NEW u \in Threads
      PROVE  PageOK(thread[u])'
    <2>1. PageOK(thread'[u])
        BY TurnFacts DEF PagesOK
    <2> QED
        BY <1>1, <2>1 DEF PageOK, SpreadOut, CloseTo, IsList, Text
<1> QED
    BY <1>2 DEF PagesOK

\* A call that ends without frames, or with frames of another kind of request.
LEMMA EndKeepsPages ==
    ASSUME ConversationsOK, PagesOK, NEW t \in Threads, NEW q, NEW answer, Ends(t, q, answer),
           q \in Text /\ "frames" \in DOMAIN answer => SpreadOut(answer.frames)
    PROVE  PagesOK'
<1> DEFINE next == [Idle EXCEPT !.call = q, !.answer = answer]
<1>1. next.phase = "idle" /\ next.call = q /\ next.answer = answer
    BY DEF Idle
<1>2. Turn(t, next)
    BY DEF Ends
<1> HIDE DEF next
<1>3. PageOK(next)
    BY <1>1 DEF PageOK
<1> QED
    BY <1>2, <1>3, TurnKeepsPages

\* A failure leaves pages sound.
LEMMA FailureKeepsPages ==
    ASSUME ConversationsOK, PagesOK, NEW t \in Threads, NEW q, NEW outcome, Fails(t, q, outcome)
    PROVE  PagesOK'
BY EndKeepsPages DEF Fails

\* A call that goes on keeps what it was told.
LEMMA GoingOnKeepsPages ==
    ASSUME ConversationsOK, PagesOK, NEW t \in Threads, NEW next, Turn(t, next),
           next.phase # "replied", next.answer = Absent \/ (next.call = thread[t].call /\ next.answer = thread[t].answer)
    PROVE  PagesOK'
<1>1. PageOK(next)
    BY DEF PagesOK, PageOK
<1> QED
    BY <1>1, TurnKeepsPages

\* Asking the server leaves pages sound.
LEMMA AskKeepsPages == ASSUME SearchInv, PagesOK, NEW t \in Threads, Ask(t) PROVE PagesOK'
<1>1. ConversationsOK
    BY DEF SearchInv
<1>2. PICK q \in scene.requests :
          \/ /\ RequestOf[q].kind = "filter"
             /\ \E frames : Ends(t, q, [outcome |-> "done", frames |-> frames])
          \/ \E outcome : Fails(t, q, outcome)
          \/ Turn(t, [Idle EXCEPT !.phase = "sent", !.call = q])
    BY DEF Ask
<1>3. CASE /\ RequestOf[q].kind = "filter"
           /\ \E frames : Ends(t, q, [outcome |-> "done", frames |-> frames])
    <2>1. q \notin Text
        BY <1>3 DEF Text
    <2> QED
        BY <1>1, <1>3, <2>1, EndKeepsPages
<1>4. CASE \E outcome : Fails(t, q, outcome)
    BY <1>1, <1>4, FailureKeepsPages
<1>5. CASE Turn(t, [Idle EXCEPT !.phase = "sent", !.call = q])
    <2> DEFINE next == [Idle EXCEPT !.phase = "sent", !.call = q]
    <2>1. next.phase # "replied" /\ next.answer = Absent
        BY DEF Idle
    <2> HIDE DEF next
    <2> QED
        BY <1>1, <1>5, <2>1, GoingOnKeepsPages DEF next
<1> QED
    BY <1>2, <1>3, <1>4, <1>5

\* The server's reply is a list.
LEMMA ServeKeepsPages == ASSUME SearchInv, PagesOK, NEW t \in Threads, Serve(t) PROVE PagesOK'
<1> DEFINE c == thread[t]
           q == c.call
           b == loads[Len(loads)]
           reply(down) == Revised(q, ServerAnswer(b, q, down), Len(loads))
<1>1. PICK down \in Outages : Turn(t, [c EXCEPT !.phase = "replied", !.reply = reply(down)])
    BY DEF Serve
<1>2. ConversationOK(c) /\ PageOK(c) /\ ConversationsOK
    BY DEF SearchInv, ConversationsOK, PagesOK
<1>3. b \in Builds
    <2>1. loads \in Seq(Builds) /\ loads # <<>>
        BY DEF Serve, SearchInv, SharedOK
    <2> QED
        BY <2>1, EmptySeq, ElementOfSeq, LenProperties
<1> DEFINE next == [c EXCEPT !.phase = "replied", !.reply = reply(down)]
<1>4. next.call = q /\ next.reply = reply(down) /\ next.answer = c.answer
    <2> HIDE DEF c, reply
    <2> QED  BY <1>2 DEF ConversationOK, Idle
<1>5. Turn(t, next)
    BY <1>1
<1>6. q \in Text /\ reply(down).status = 200 => IsList(reply(down).body.frames)
    <2> SUFFICES ASSUME q \in Text, reply(down).status = 200
                 PROVE  IsList(reply(down).body.frames)
        OBVIOUS
    <2>1. reply(down) = ServerAnswer(b, q, down)
        BY DEF Text, Revised
    <2> HIDE DEF b, q, reply
    <2> QED
        BY <1>3, <2>1, TextAnswerIsList
<1> HIDE DEF next, reply, q
<1>7. PageOK(next)
    BY <1>2, <1>4, <1>6 DEF PageOK, q
<1> QED
    BY <1>2, <1>5, <1>7, TurnKeepsPages

\* The page made from it is spread out.
LEMMA ReceiveKeepsPages == ASSUME SearchInv, PagesOK, NEW t \in Threads, Receive(t) PROVE PagesOK'
<1> DEFINE c == thread[t]
           call == c.call
           body == c.reply.body
<1>1. ConversationOK(c) /\ PageOK(c) /\ ConversationsOK /\ scene \in Scenes
    BY DEF SearchInv, ConversationsOK, PagesOK, SharedOK
<1>2. c.phase = "replied" /\ call \in Requests
    BY <1>1 DEF Receive, ConversationOK
<1>3. \/ \E outcome : Fails(t, call, outcome)
      \/ /\ c.reply.status = 200 /\ RequestOf[call].kind = "avs" /\ ~Unknown(body.frames)
         /\ Ends(t, call, [outcome |-> "done", frames |-> Covering(RequestOf[call], body.frames)])
      \/ Ends(t, call, [outcome |-> "done", rows |-> body.rows])
      \/ Turn(t, [c EXCEPT !.phase = "room", !.read = now, !.full = Len(store) >= Room])
    BY DEF Receive
<1>4. CASE \E outcome : Fails(t, call, outcome)
    BY <1>1, <1>4, FailureKeepsPages
<1>5. CASE /\ c.reply.status = 200 /\ RequestOf[call].kind = "avs" /\ ~Unknown(body.frames)
           /\ Ends(t, call, [outcome |-> "done", frames |-> Covering(RequestOf[call], body.frames)])
    <2>1. call \in Text
        BY <1>2, <1>5 DEF Text
    <2>2. IsList(body.frames)
        BY <1>1, <1>2, <1>5, <2>1 DEF PageOK
    <2> HIDE DEF call, body
    <2>3. SpreadOut(Covering(RequestOf[call], body.frames))
        BY <1>1, <1>5, <2>1, <2>2, PageIsSpread
    <2> QED
        BY <1>1, <1>5, <2>3, EndKeepsPages
<1>6. CASE Ends(t, call, [outcome |-> "done", rows |-> body.rows])
    <2> DEFINE answer == [outcome |-> "done", rows |-> body.rows]
    <2>1. "frames" \notin DOMAIN answer
        OBVIOUS
    <2> HIDE DEF answer
    <2> QED
        BY <1>1, <1>6, <2>1, EndKeepsPages DEF answer
<1>7. CASE Turn(t, [c EXCEPT !.phase = "room", !.read = now, !.full = Len(store) >= Room])
    <2> DEFINE next == [c EXCEPT !.phase = "room", !.read = now, !.full = Len(store) >= Room]
    <2>1. next.phase = "room" /\ next.call = c.call /\ next.answer = c.answer
        <3> HIDE DEF c
        <3> QED  BY <1>1 DEF ConversationOK, Idle
    <2> HIDE DEF next
    <2> QED
        BY <1>1, <1>7, <2>1, GoingOnKeepsPages DEF next
<1> QED
    BY <1>3, <1>4, <1>5, <1>6, <1>7

\* Storing a snapshot leaves pages sound.
LEMMA PutKeepsPages == ASSUME SearchInv, PagesOK, NEW t \in Threads, Put(t) PROVE PagesOK'
<1> DEFINE c == thread[t]
<1>1. ConversationOK(c) /\ ConversationsOK /\ c.phase = "room"
    BY DEF SearchInv, ConversationsOK, Put
<1>2. CASE Turn(t, [c EXCEPT !.full = FALSE])
    <2> DEFINE next == [c EXCEPT !.full = FALSE]
    <2>1. next.phase = "room" /\ next.call = c.call /\ next.answer = c.answer
        <3> HIDE DEF c
        <3> QED  BY <1>1 DEF ConversationOK, Idle
    <2> HIDE DEF next
    <2> QED
        BY <1>1, <1>2, <2>1, GoingOnKeepsPages DEF next
<1>3. CASE Fails(t, c.call, "raised")
    BY <1>1, <1>3, FailureKeepsPages
<1>4. CASE Insert(t, store)
    <2> DEFINE answer == [outcome |-> "done", rows |-> c.reply.body.rows,
                          snapshot |-> Len(births) + 1]
    <2>1. "frames" \notin DOMAIN answer
        OBVIOUS
    <2>2. Ends(t, c.call, answer)
        BY <1>4 DEF Insert
    <2> HIDE DEF answer
    <2> QED
        BY <1>1, <2>1, <2>2, EndKeepsPages
<1> QED
    BY <1>2, <1>3, <1>4 DEF Put

\* Reading a snapshot leaves pages sound.
LEMMA ReadKeepsPages == ASSUME SearchInv, PagesOK, NEW t \in Threads, Read(t) PROVE PagesOK'
<1>1. ConversationsOK
    BY DEF SearchInv
<1>2. \/ \E phase \in {"held", "buried"} : \E held :
             Turn(t, [Idle EXCEPT !.phase = phase, !.held = held, !.read = now])
      \/ \E outcome : Fails(t, Absent, outcome)
      \/ \E entry, at : Ends(t, Absent, [outcome |-> "done", taken |-> entry, at |-> at])
    BY DEF Read, Find, Take, Dig
<1>3. CASE \E phase \in {"held", "buried"} : \E held :
               Turn(t, [Idle EXCEPT !.phase = phase, !.held = held, !.read = now])
    <2>1. PICK phase \in {"held", "buried"} : \E held :
              Turn(t, [Idle EXCEPT !.phase = phase, !.held = held, !.read = now])
        BY <1>3
    <2> PICK held : Turn(t, [Idle EXCEPT !.phase = phase, !.held = held, !.read = now])
        BY <2>1
    <2> DEFINE next == [Idle EXCEPT !.phase = phase, !.held = held, !.read = now]
    <2>2. next.phase # "replied" /\ next.answer = Absent
        BY DEF Idle
    <2> HIDE DEF next
    <2> QED
        BY <1>1, <2>1, <2>2, GoingOnKeepsPages DEF next
<1>4. CASE \E outcome : Fails(t, Absent, outcome)
    BY <1>1, <1>4, FailureKeepsPages
<1>5. CASE \E entry, at : Ends(t, Absent, [outcome |-> "done", taken |-> entry, at |-> at])
    <2>1. PICK entry, at : Ends(t, Absent, [outcome |-> "done", taken |-> entry, at |-> at])
        BY <1>5
    <2> DEFINE answer == [outcome |-> "done", taken |-> entry, at |-> at]
    <2>2. "frames" \notin DOMAIN answer
        OBVIOUS
    <2> HIDE DEF answer
    <2> QED
        BY <1>1, <2>1, <2>2, EndKeepsPages DEF answer
<1> QED
    BY <1>2, <1>3, <1>4, <1>5

\* Every step leaves pages sound.
LEMMA PagesStay == SearchInv /\ PagesOK /\ [SearchNext]_searchVars => PagesOK'
<1> SUFFICES ASSUME SearchInv, PagesOK, [SearchNext]_searchVars PROVE PagesOK'
    OBVIOUS
<1>1. CASE UNCHANGED <<scene, thread>>
    BY <1>1 DEF PagesOK, PageOK, SpreadOut, CloseTo, Corpus, IsList, Text
<1>2. CASE Load \/ Stop \/ Tick \/ UNCHANGED searchVars
    BY <1>1, <1>2 DEF Load, Stop, Tick, searchVars
<1>3. ASSUME NEW t \in Threads, Call(t)
      PROVE  PagesOK'
    <2>1. CASE Lose(t)
        BY <2>1, FailureKeepsPages DEF Lose, SearchInv
    <2> QED
        BY <1>3, <2>1, AskKeepsPages, ServeKeepsPages, ReceiveKeepsPages, PutKeepsPages DEF Call
<1>4. ASSUME NEW t \in Threads, Read(t)
      PROVE  PagesOK'
    BY <1>4, ReadKeepsPages
<1> QED
    BY <1>2, <1>3, <1>4 DEF SearchNext

\* Every AVS page lies apart and covers videos level by level, whatever the server
\* found and whichever modalities answered (AvsCoverageSelector.order).
THEOREM PagesStaySpread == SearchSpec => []AvsSpread
<1>1. SearchInit => PagesOK
    BY DEF SearchInit, PagesOK, PageOK, Idle
<1>2. PagesOK => AvsSpread
    BY DEF PagesOK, PageOK, AvsSpread
<1> QED
    BY <1>1, <1>2, SearchInvHolds, PagesStay, PTL DEF SearchSpec

-----------------------------------------------------------------------------
(* Sums.                                                                   *)

\* g adds up the values of f over every part of S, one chosen element at a time.
IsSum(f, S, g) ==
    g = [s \in SUBSET S |-> IF s = {} THEN 0
                            ELSE f[CHOOSE x \in s : TRUE] + g[s \ {CHOOSE x \in s : TRUE}]]

\* One element less is one less.
LEMMA OneLess ==
    ASSUME NEW S, IsFiniteSet(S), NEW s \in SUBSET S, NEW a \in s
    PROVE  /\ IsFiniteSet(s) /\ s \ {a} \in SUBSET S
           /\ Cardinality(s) \in Nat /\ Cardinality(s \ {a}) = Cardinality(s) - 1
           /\ Cardinality(s \ {a}) \in Nat /\ Cardinality(s) > 0
<1>1. IsFiniteSet(s)
    BY FS_Subset
<1>2. Cardinality(s) \in Nat /\ Cardinality(s \ {a}) \in Nat
    BY <1>1, FS_CardinalityType, FS_RemoveElement
<1>3. Cardinality(s \ {a}) = Cardinality(s) - 1
    BY <1>1, FS_RemoveElement
<1> QED
    BY <1>1, <1>2, <1>3

\* Such a g exists: the parts are handled by their size.
LEMMA SumExists ==
    ASSUME NEW S, IsFiniteSet(S), NEW f
    PROVE  \E g : IsSum(f, S, g)
<1> DEFINE Small(n) == {s \in SUBSET S : Cardinality(s) <= n}
           pick(s) == CHOOSE x \in s : TRUE
           value(s, g) == IF s = {} THEN 0 ELSE f[pick(s)] + g[s \ {pick(s)}]
           SumsTo(n, g) == g = [s \in Small(n) |-> value(s, g)]
           Bad == {n \in Nat : ~ \E g : SumsTo(n, g)}
<1>1. ASSUME NEW s \in SUBSET S, s # {}
      PROVE  /\ pick(s) \in s /\ s \ {pick(s)} \in SUBSET S
             /\ Cardinality(s) \in Nat /\ Cardinality(s) > 0
             /\ Cardinality(s \ {pick(s)}) = Cardinality(s) - 1
    <2>1. pick(s) \in s
        BY <1>1
    <2> HIDE DEF pick
    <2> QED
        BY <2>1, OneLess
<1>2. \A s \in SUBSET S : Cardinality(s) \in Nat
    BY FS_Subset, FS_CardinalityType
<1>3. Bad = {}
    <2>1. SUFFICES ASSUME Bad # {} PROVE FALSE
        OBVIOUS
    <2>2. PICK n \in Bad : \A m \in Bad : n <= m
        <3>1. Bad \in SUBSET Nat
            OBVIOUS
        <3> HIDE DEF Bad
        <3> QED  BY <2>1, <3>1, LeastNumber
    <2>3. n \in Nat
        OBVIOUS
    <2>4. CASE n = 0
        <3> DEFINE g == [s \in Small(0) |-> 0]
        <3>1. ASSUME NEW s \in Small(0) PROVE s = {}
            <4>1. s \in SUBSET S /\ Cardinality(s) <= 0
                OBVIOUS
            <4>2. s # {} => Cardinality(s) > 0
                BY <1>1, <4>1
            <4> HIDE DEF pick, Small
            <4> QED  BY <1>2, <4>1, <4>2
        <3>2. \A s \in Small(0) : value(s, g) = 0
            BY <3>1
        <3>3. SumsTo(0, g)
            BY <3>2
        <3> QED
            BY <2>4, <3>3
    <2>5. CASE n > 0
        <3>1. n - 1 \in Nat /\ n - 1 \notin Bad
            <4> HIDE DEF Bad
            <4> QED  BY <2>2, <2>3, <2>5
        <3>2. PICK g : SumsTo(n - 1, g)
            BY <3>1
        <3> DEFINE h == [s \in Small(n) |-> value(s, g)]
        <3>3. ASSUME NEW s \in Small(n - 1)
              PROVE  s \in Small(n) /\ h[s] = g[s]
            <4>1. s \in Small(n)
                BY <1>2, <2>3
            <4>2. h[s] = value(s, g)
                BY <4>1
            <4> HIDE DEF h, value
            <4>3. g[s] = value(s, g)
                BY <3>2, <3>3
            <4> QED
                BY <4>1, <4>2, <4>3
        <3>4. ASSUME NEW s \in Small(n)
              PROVE  value(s, h) = value(s, g)
            <4>1. CASE s = {}
                BY <4>1
            <4>2. CASE s # {}
                <5>1. s \ {pick(s)} \in Small(n - 1)
                    BY <1>1, <2>3, <4>2
                <5> HIDE DEF h, pick
                <5> QED
                    BY <3>3, <4>2, <5>1
            <4> QED
                BY <4>1, <4>2
        <3>5. SumsTo(n, h)
            <4> HIDE DEF value, Small
            <4> QED  BY <3>4
        <3> QED
            BY <2>2, <3>5
    <2> QED
        BY <2>3, <2>4, <2>5
<1>4. PICK g : SumsTo(Cardinality(S), g)
    BY <1>2, <1>3
<1>5. Small(Cardinality(S)) = SUBSET S
    <2>1. \A s \in SUBSET S : Cardinality(s) <= Cardinality(S)
        BY FS_Subset
    <2> QED
        BY <2>1
<1>6. IsSum(f, S, g)
    BY <1>4, <1>5 DEF IsSum
<1> QED
    BY <1>6

\* The fold of the model is the sum along any choice of elements.
LEMMA TotalIsSum ==
    ASSUME NEW S, IsFiniteSet(S), NEW f, DOMAIN f = S
    PROVE  \E g : IsSum(f, S, g) /\ Total(f) = g[S]
<1> DEFINE g == CHOOSE g : IsSum(f, S, g)
<1>1. IsSum(f, S, g)
    BY SumExists
<1>2. Total(f) = g[S]
    BY DEF Total, MapThenSumSet, MapThenFoldSet, IsSum
<1> QED
    BY <1>1, <1>2

\* Of some parts of S, one has the fewest elements.
LEMMA FewestElements ==
    ASSUME NEW S, IsFiniteSet(S), NEW T \in SUBSET SUBSET S, T # {}
    PROVE  \E s \in T : \A r \in T : Cardinality(s) <= Cardinality(r)
<1> DEFINE N == {Cardinality(r) : r \in T}
<1>1. N \in SUBSET Nat /\ N # {}
    BY FS_Subset, FS_CardinalityType
<1>2. PICK n \in N : \A m \in N : n <= m
    <2> HIDE DEF N
    <2> QED  BY <1>1, LeastNumber
<1> QED
    BY <1>2

\* It does not matter which element is taken out.
TakesOne(f, S, g) ==
    \A s \in SUBSET S : g[s] \in Int /\ \A a \in s : g[s] = f[a] + g[s \ {a}]

\* A sum may give up any one element first.
LEMMA SumTakesOne ==
    ASSUME NEW S, IsFiniteSet(S), NEW f \in [S -> Int], NEW g, IsSum(f, S, g)
    PROVE  TakesOne(f, S, g)
<1> DEFINE Good(s) == g[s] \in Int /\ \A a \in s : g[s] = f[a] + g[s \ {a}]
           Bad == {s \in SUBSET S : ~Good(s)}
<1>8. Bad = {} => TakesOne(f, S, g)
    BY DEF TakesOne
<1>1. SUFFICES ASSUME Bad # {} PROVE FALSE
    BY <1>8
<1>2. PICK s \in Bad : \A r \in Bad : Cardinality(s) <= Cardinality(r)
    <2>1. Bad \in SUBSET SUBSET S
        OBVIOUS
    <2> HIDE DEF Bad
    <2> QED  BY <1>1, <2>1, FewestElements
<1>3. s \in SUBSET S
    OBVIOUS
<1>4. ASSUME NEW a \in s
      PROVE  Good(s \ {a})
    <2>1. /\ s \ {a} \in SUBSET S
          /\ ~(Cardinality(s) <= Cardinality(s \ {a}))
        BY <1>3, OneLess
    <2> HIDE DEF Good
    <2> QED  BY <1>2, <2>1
<1>5. CASE s = {}
    <2>1. g[s] = 0
        BY <1>5 DEF IsSum
    <2> QED
        BY <1>5, <2>1
<1>6. CASE s # {}
    <2> DEFINE c == CHOOSE x \in s : TRUE
    <2>1. c \in s
        BY <1>6
    <2>2. g[s] = f[c] + g[s \ {c}]
        BY <1>3, <1>6 DEF IsSum
    <2> HIDE DEF c
    <2>3. g[s] \in Int
        <3>1. f[c] \in Int /\ g[s \ {c}] \in Int
            BY <1>3, <1>4, <2>1
        <3> QED
            BY <2>2, <3>1
    <2>4. ASSUME NEW a \in s
          PROVE  g[s] = f[a] + g[s \ {a}]
        <3>1. CASE a = c
            BY <2>2, <3>1
        <3>2. CASE a # c
            <4>1. a \in s \ {c} /\ c \in s \ {a}
                BY <2>1, <3>2
            <4>2. /\ g[s \ {c}] = f[a] + g[(s \ {c}) \ {a}]
                  /\ g[s \ {a}] = f[c] + g[(s \ {a}) \ {c}]
                BY <1>4, <2>1, <4>1
            <4>3. (s \ {c}) \ {a} = (s \ {a}) \ {c}
                OBVIOUS
            <4>4. g[(s \ {c}) \ {a}] \in Int
                <5>1. g[s \ {a}] \in Int /\ f[c] \in Int
                    BY <1>3, <1>4, <2>1
                <5>2. (s \ {c}) \ {a} \in SUBSET S /\ ~(Cardinality(s) <= Cardinality((s \ {c}) \ {a}))
                    <6>1. /\ s \ {c} \in SUBSET S
                          /\ Cardinality(s) \in Nat /\ Cardinality(s \ {c}) = Cardinality(s) - 1
                        BY <1>3, <2>1, OneLess
                    <6>2. Cardinality((s \ {c}) \ {a}) = Cardinality(s \ {c}) - 1
                        BY <4>1, <6>1, OneLess
                    <6> QED
                        BY <6>1, <6>2
                <5>3. Good((s \ {c}) \ {a})
                    <6> HIDE DEF Good
                    <6> QED  BY <1>2, <5>2
                <5> QED
                    BY <5>3
            <4>5. f[a] \in Int /\ f[c] \in Int
                BY <1>3, <2>1
            <4> DEFINE r == g[(s \ {c}) \ {a}]
            <4>6. g[s] = f[c] + (f[a] + r) /\ g[s \ {a}] = f[c] + r /\ r \in Int
                BY <2>2, <4>2, <4>3, <4>4
            <4> HIDE DEF r
            <4> QED
                BY <4>5, <4>6
        <3> QED
            BY <3>1, <3>2
    <2> QED
        BY <2>3, <2>4
<1> QED
    BY <1>5, <1>6

\* Sums over the same part of functions that agree on it are the same.
LEMMA SumAgrees ==
    ASSUME NEW S, IsFiniteSet(S), NEW f, NEW g, IsSum(f, S, g),
           NEW T, NEW h, NEW k, IsSum(h, T, k),
           NEW A, A \subseteq S, A \subseteq T, \A a \in A : f[a] = h[a]
    PROVE  g[A] = k[A]
<1> DEFINE Bad == {s \in SUBSET A : g[s] # k[s]}
<1>1. SUFFICES ASSUME Bad # {} PROVE FALSE
    OBVIOUS
<1>2. Bad \in SUBSET SUBSET S
    OBVIOUS
<1>3. PICK s \in Bad : \A r \in Bad : Cardinality(s) <= Cardinality(r)
    <2> HIDE DEF Bad
    <2> QED  BY <1>1, <1>2, FewestElements
<1>4. s \in SUBSET S /\ s \in SUBSET T /\ s \in SUBSET A /\ g[s] # k[s]
    OBVIOUS
<1>5. CASE s = {}
    BY <1>4, <1>5 DEF IsSum
<1>6. CASE s # {}
    <2> DEFINE c == CHOOSE x \in s : TRUE
    <2>1. c \in s
        BY <1>6
    <2>2. g[s] = f[c] + g[s \ {c}] /\ k[s] = h[c] + k[s \ {c}]
        BY <1>4, <1>6 DEF IsSum
    <2> HIDE DEF c
    <2>3. g[s \ {c}] = k[s \ {c}]
        <3>1. s \ {c} \in SUBSET A /\ ~(Cardinality(s) <= Cardinality(s \ {c}))
            BY <1>4, <2>1, OneLess
        <3> QED
            BY <1>3, <3>1
    <2> QED
        BY <1>4, <2>1, <2>2, <2>3
<1> QED
    BY <1>5, <1>6

\* A total is one of its values and the total of the others.
LEMMA TotalTakesOne ==
    ASSUME NEW S, IsFiniteSet(S), NEW f \in [S -> Int]
    PROVE  /\ Total(f) \in Int
           /\ S = {} => Total(f) = 0
           /\ \A a \in S : Total(f) = f[a] + Total([b \in S \ {a} |-> f[b]])
<1>1. PICK g : IsSum(f, S, g) /\ Total(f) = g[S]
    BY TotalIsSum
<1>2. \A s \in SUBSET S : g[s] \in Int /\ \A a \in s : g[s] = f[a] + g[s \ {a}]
    <2>1. IsSum(f, S, g)
        BY <1>1
    <2>2. TakesOne(f, S, g)
        BY <2>1, SumTakesOne
    <2> QED
        BY <2>2 DEF TakesOne
<1>3. ASSUME NEW a \in S
      PROVE  Total(f) = f[a] + Total([b \in S \ {a} |-> f[b]])
    <2> DEFINE h == [b \in S \ {a} |-> f[b]]
    <2>1. IsFiniteSet(S \ {a}) /\ DOMAIN h = S \ {a} /\ \A b \in S \ {a} : h[b] = f[b]
        BY FS_RemoveElement
    <2> HIDE DEF h
    <2>2. PICK k : IsSum(h, S \ {a}, k) /\ Total(h) = k[S \ {a}]
        BY <2>1, TotalIsSum
    <2>3. k[S \ {a}] = g[S \ {a}]
        BY <1>1, <2>1, <2>2, SumAgrees
    <2> QED
        BY <1>1, <1>2, <2>2, <2>3 DEF h
<1>4. S = {} => g[S] = 0
    BY <1>1 DEF IsSum
<1> QED
    BY <1>1, <1>2, <1>3, <1>4

\* Zeros add nothing.
LEMMA ZerosAddNothing ==
    ASSUME NEW S, IsFiniteSet(S), NEW f \in [S -> Int],
           NEW A \in SUBSET S, \A a \in S \ A : f[a] = 0
    PROVE  Total(f) = Total([a \in A |-> f[a]])
<1>1. PICK g : IsSum(f, S, g) /\ Total(f) = g[S]
    BY TotalIsSum
<1>2. \A s \in SUBSET S : g[s] \in Int /\ \A a \in s : g[s] = f[a] + g[s \ {a}]
    <2>1. IsSum(f, S, g)
        BY <1>1
    <2>2. TakesOne(f, S, g)
        BY <2>1, SumTakesOne
    <2> QED
        BY <2>2 DEF TakesOne
<1> DEFINE Bad == {s \in SUBSET S : A \subseteq s /\ g[s] # g[A]}
<1>3. Bad = {}
    <2>1. SUFFICES ASSUME Bad # {} PROVE FALSE
        OBVIOUS
    <2>2. PICK s \in Bad : \A r \in Bad : Cardinality(s) <= Cardinality(r)
        <3>1. Bad \in SUBSET SUBSET S
            OBVIOUS
        <3> HIDE DEF Bad
        <3> QED  BY <2>1, <3>1, FewestElements
    <2>3. PICK a \in s : a \notin A
        OBVIOUS
    <2>4. s \ {a} \in SUBSET S /\ ~(Cardinality(s) <= Cardinality(s \ {a}))
        BY OneLess
    <2>5. g[s \ {a}] = g[A]
        BY <2>2, <2>3, <2>4
    <2>6. g[s] = 0 + g[s \ {a}]
        BY <1>2, <2>3
    <2> QED
        BY <1>2, <2>4, <2>5, <2>6
<1>4. g[S] = g[A]
    BY <1>3
<1> DEFINE h == [a \in A |-> f[a]]
<1>5. IsFiniteSet(A) /\ DOMAIN h = A /\ \A a \in A : h[a] = f[a]
    BY FS_Subset
<1> HIDE DEF h
<1>6. PICK k : IsSum(h, A, k) /\ Total(h) = k[A]
    BY <1>5, TotalIsSum
<1>7. k[A] = g[A]
    BY <1>1, <1>5, <1>6, SumAgrees
<1> QED
    BY <1>1, <1>4, <1>6, <1>7 DEF h

-----------------------------------------------------------------------------
(* Calibration: the values of a component stay numbers.                     *)

\* A finite set of numbers has a highest and a lowest.
LEMMA FiniteExtremes ==
    ASSUME NEW S \in SUBSET Int, IsFiniteSet(S), S # {}
    PROVE  /\ Max(S) \in S /\ \A y \in S : y <= Max(S)
           /\ Min(S) \in S /\ \A y \in S : Min(S) <= y
<1> DEFINE R == {p \in S \X S : p[1] < p[2]}
           order == ByPlace(S, Places(S, R))
           c == Cardinality(S)
<1>1. \A a, b \in S : <<a, b>> \in R <=> a < b
    OBVIOUS
<1>2. Orders(S, R)
    <2> HIDE DEF R
    <2> QED  BY <1>1 DEF Orders
<1>3. /\ c \in Nat
      /\ order \in [1..c -> S]
      /\ \A a \in S : \E n \in 1..c : order[n] = a
      /\ \A m, n \in 1..c : m < n <=> <<order[m], order[n]>> \in R
    <2> HIDE DEF R
    <2> QED  BY <1>2, ListedByOrder
<1> HIDE DEF R, order, c
<1>4. 1 \in 1..c /\ c \in 1..c
    <2>1. PICK a \in S : TRUE
        OBVIOUS
    <2>2. PICK n \in 1..c : order[n] = a
        BY <1>3
    <2> QED
        BY <1>3, <2>2
<1>5. ASSUME NEW y \in S
      PROVE  order[1] <= y /\ y <= order[c]
    <2>1. PICK n \in 1..c : order[n] = y
        BY <1>3
    <2>2. n = 1 \/ 1 < n
        BY <1>3
    <2>3. n = c \/ n < c
        BY <1>3
    <2>4. order[1] \in Int /\ order[c] \in Int /\ y \in Int /\ order[1] \in S /\ order[c] \in S
        BY <1>3, <1>4
    <2>5. order[1] <= y
        <3>1. CASE n = 1
            BY <2>1, <2>4, <3>1
        <3>2. CASE 1 < n
            <4>1. <<order[1], y>> \in R
                BY <1>3, <1>4, <2>1, <3>2
            <4> QED
                BY <1>1, <2>4, <4>1
        <3> QED
            BY <2>2, <3>1, <3>2
    <2>6. y <= order[c]
        <3>1. CASE n = c
            BY <2>1, <2>4, <3>1
        <3>2. CASE n < c
            <4>1. <<y, order[c]>> \in R
                BY <1>3, <1>4, <2>1, <3>2
            <4> QED
                BY <1>1, <2>4, <4>1
        <3> QED
            BY <2>3, <3>1, <3>2
    <2> QED
        BY <2>5, <2>6
<1>6. order[1] \in S /\ order[c] \in S
    BY <1>3, <1>4
<1>7. \E x \in S : \A y \in S : x >= y
    BY <1>5, <1>6
<1>8. \E x \in S : \A y \in S : x <= y
    BY <1>5, <1>6
<1>9. Max(S) \in S /\ \A y \in S : Max(S) >= y
    BY <1>7 DEF Max
<1>10. Min(S) \in S /\ \A y \in S : Min(S) <= y
    BY <1>8 DEF Min
<1> QED
    BY <1>9, <1>10

\* A list of numbers from the lowest to the highest.
Ascending(values, n) ==
    /\ values \in [1..n -> Int]
    /\ \A i, j \in 1..n : i <= j => values[i] <= values[j]

\* Sorting lists the values in ascending order.
LEMMA SortedAscends ==
    ASSUME NEW S \in SUBSET Int, IsFiniteSet(S), NEW row, \A f \in S : row[f] \in Int
    PROVE  Cardinality(S) \in Nat /\ Ascending(Sorted(row, S), Cardinality(S))
<1> DEFINE R == {p \in S \X S : row[p[1]] < row[p[2]] \/ (row[p[1]] = row[p[2]] /\ p[1] < p[2])}
           order == ByPlace(S, Places(S, R))
           c == Cardinality(S)
<1>1. \A a, b \in S : <<a, b>> \in R <=> (row[a] < row[b] \/ (row[a] = row[b] /\ a < b))
    OBVIOUS
<1>2. Orders(S, R)
    <2> HIDE DEF R
    <2>1. \A a \in S : <<a, a>> \notin R
        BY <1>1
    <2>2. \A a, b, d \in S : <<a, b>> \in R /\ <<b, d>> \in R => <<a, d>> \in R
        BY <1>1
    <2>3. \A a, b \in S : a # b => <<a, b>> \in R \/ <<b, a>> \in R
        BY <1>1
    <2> QED  BY <2>1, <2>2, <2>3 DEF Orders
<1>3. /\ c \in Nat
      /\ order \in [1..c -> S]
      /\ \A m, n \in 1..c : m < n <=> <<order[m], order[n]>> \in R
    <2> HIDE DEF R
    <2> QED  BY <1>2, ListedByOrder
<1>4. Sorted(row, S) = [i \in DOMAIN order |-> row[order[i]]]
    <2>1. Places(S, R) = [a \in S |-> Cardinality({b \in S :
                              row[b] < row[a] \/ (row[b] = row[a] /\ b < a)})]
        <3>1. ASSUME NEW a \in S
              PROVE  Before(S, R, a) = {b \in S : row[b] < row[a] \/ (row[b] = row[a] /\ b < a)}
            <4> HIDE DEF R
            <4> QED  BY <1>1 DEF Before
        <3> HIDE DEF R
        <3> QED  BY <3>1 DEF Places
    <2>2. Arranged(S, LAMBDA f, g : row[f] < row[g] \/ (row[f] = row[g] /\ f < g)) = order
        BY <2>1 DEF Arranged, Table
    <2> QED
        BY <2>2 DEF Sorted
<1> HIDE DEF order, c
<1>5. \A i \in 1..c : order[i] \in S /\ row[order[i]] \in Int
    BY <1>3
<1>6. ASSUME NEW i \in 1..c, NEW j \in 1..c, i <= j
      PROVE  row[order[i]] <= row[order[j]]
    <2>1. i = j \/ i < j
        BY <1>3, <1>6
    <2>2. i < j => row[order[i]] < row[order[j]] \/ row[order[i]] = row[order[j]]
        <3> HIDE DEF R
        <3> QED  BY <1>1, <1>3, <1>5
    <2> QED
        BY <1>5, <2>1, <2>2
<1>7. Sorted(row, S) = [i \in 1..c |-> row[order[i]]]
    BY <1>3, <1>4
<1> QED
    BY <1>3, <1>5, <1>6, <1>7 DEF Ascending, c

\* A quantile is a number between its neighbours.
LEMMA PartOf ==
    ASSUME NEW d \in Nat, NEW r \in 0..99
    PROVE  (d * r) \div 100 \in Int /\ 0 <= (d * r) \div 100 /\ (d * r) \div 100 <= d
<1>1. 0 <= d * r /\ d * r <= d * 99 /\ d * r \in Int
    BY SMTT(30)
<1> QED
    BY <1>1, SMTT(30)

\* A share of a larger whole is no smaller.
LEMMA MorePart ==
    ASSUME NEW d \in Nat, NEW r \in 0..99, NEW t \in 0..99, r <= t
    PROVE  (d * r) \div 100 <= (d * t) \div 100
<1>1. d * r <= d * t /\ d * r \in Int /\ d * t \in Int
    BY SMTT(30)
<1> QED
    BY <1>1, SMTT(30)

Place(percent, n) == (percent * (n - 1)) \div 100 + 1
Rest(percent, n) == (percent * (n - 1)) % 100

\* The place of a quantile lies within the values.
LEMMA PlaceIn ==
    ASSUME NEW n \in Nat \ {0}, NEW percent \in 0..100
    PROVE  Place(percent, n) \in 1..n /\ Rest(percent, n) \in 0..99
<1>1. 0 <= percent * (n - 1) /\ percent * (n - 1) <= 100 * (n - 1) /\ percent * (n - 1) \in Int
    BY SMTT(30)
<1>2. percent * (n - 1) \in Nat
    BY <1>1
<1> DEFINE at == percent * (n - 1)
<1> HIDE DEF at
<1>3. at \in Nat /\ at <= 100 * (n - 1)
    BY <1>1, <1>2 DEF at
<1>4. at \div 100 \in Nat /\ at \div 100 <= n - 1 /\ at % 100 \in 0..99
    BY <1>3
<1> QED
    BY <1>4 DEF Place, Rest, at

\* A higher quantile has no earlier place.
LEMMA LaterPlace ==
    ASSUME NEW n \in Nat \ {0}, NEW p \in 0..100, NEW q \in 0..100, p <= q
    PROVE  /\ Place(p, n) <= Place(q, n)
           /\ Place(p, n) = Place(q, n) => Rest(p, n) <= Rest(q, n)
<1>1. 0 <= p * (n - 1) /\ p * (n - 1) <= q * (n - 1) /\ p * (n - 1) \in Int /\ q * (n - 1) \in Int
    BY SMTT(30)
<1> DEFINE a == p * (n - 1)
           b == q * (n - 1)
<1> HIDE DEF a, b
<1>2. a \in Nat /\ b \in Nat /\ a <= b
    BY <1>1 DEF a, b
<1>3. a \div 100 <= b \div 100
    BY <1>2
<1>4. a \div 100 = b \div 100 => a % 100 <= b % 100
    BY <1>2
<1>5. a \div 100 \in Int /\ b \div 100 \in Int
    BY <1>2
<1> QED
    BY <1>3, <1>4, <1>5 DEF Place, Rest, a, b

\* A quantile of finitely many numbers is a number between them.
LEMMA QuantileIs ==
    ASSUME NEW n \in Nat \ {0}, NEW values, Ascending(values, n), NEW percent \in 0..100
    PROVE  /\ Quantile(values, percent) = QuantileAt(values, Place(percent, n), Rest(percent, n))
           /\ Quantile(values, percent) \in Int
           /\ values[Place(percent, n)] <= Quantile(values, percent)
           /\ Place(percent, n) < n => Quantile(values, percent) <= values[Place(percent, n) + 1]
<1> DEFINE k == Place(percent, n)
           r == Rest(percent, n)
<1>1. Len(values) = n
    BY LenProperties, SeqDef DEF Ascending
<1>2. Quantile(values, percent) = QuantileAt(values, k, r)
    BY <1>1 DEF Quantile, Place, Rest
<1>3. k \in 1..n /\ r \in 0..99
    BY PlaceIn
<1> HIDE DEF k, r
<1>4. values[k] \in Int
    BY <1>3 DEF Ascending
<1>5. CASE k + 1 > n
    BY <1>1, <1>2, <1>3, <1>4, <1>5 DEF QuantileAt, k
<1>6. CASE ~(k + 1 > n)
    <2>1. k + 1 \in 1..n /\ k <= k + 1
        BY <1>3, <1>6
    <2>2. values[k + 1] \in Int /\ values[k] <= values[k + 1]
        BY <1>3, <2>1 DEF Ascending
    <2> DEFINE d == values[k + 1] - values[k]
    <2>3. d \in Nat /\ values[k + 1] = values[k] + d
        BY <1>4, <2>2
    <2>4. Quantile(values, percent) = values[k] + (d * r) \div 100
        BY <1>1, <1>2, <1>6 DEF QuantileAt
    <2> HIDE DEF d
    <2>5. (d * r) \div 100 \in Int /\ 0 <= (d * r) \div 100 /\ (d * r) \div 100 <= d
        BY <1>3, <2>3, PartOf
    <2> DEFINE part == (d * r) \div 100
    <2> HIDE DEF part
    <2>6. part \in Int /\ 0 <= part /\ part <= d /\ Quantile(values, percent) = values[k] + part
        BY <2>4, <2>5 DEF part
    <2> QED
        BY <1>2, <1>4, <2>3, <2>6 DEF k, r
<1> QED
    BY <1>5, <1>6

\* A higher quantile is no lower.
LEMMA QuantilesAscend ==
    ASSUME NEW n \in Nat \ {0}, NEW values, Ascending(values, n),
           NEW p \in 0..100, NEW q \in 0..100, p <= q
    PROVE  Quantile(values, p) <= Quantile(values, q)
<1> DEFINE k == Place(p, n)
           j == Place(q, n)
<1>1. k \in 1..n /\ j \in 1..n /\ Rest(p, n) \in 0..99 /\ Rest(q, n) \in 0..99
    BY PlaceIn
<1>2. k <= j /\ (k = j => Rest(p, n) <= Rest(q, n))
    BY LaterPlace
<1>3. /\ Quantile(values, p) = QuantileAt(values, k, Rest(p, n))
      /\ Quantile(values, p) \in Int
      /\ k < n => Quantile(values, p) <= values[k + 1]
    BY QuantileIs
<1>4. /\ Quantile(values, q) = QuantileAt(values, j, Rest(q, n))
      /\ Quantile(values, q) \in Int
      /\ values[j] <= Quantile(values, q)
    BY QuantileIs
<1> HIDE DEF k, j
<1>5. CASE k < j
    <2>1. k + 1 \in 1..n /\ k + 1 <= j /\ k < n
        BY <1>1, <1>5
    <2>2. values[k + 1] <= values[j] /\ values[k + 1] \in Int /\ values[j] \in Int
        BY <1>1, <2>1 DEF Ascending
    <2> QED
        BY <1>3, <1>4, <2>1, <2>2
<1>6. CASE k = j
    <2>1. CASE k + 1 > n
        <3>1. Len(values) = n
            BY LenProperties, SeqDef DEF Ascending
        <3> QED
            BY <1>3, <1>4, <1>6, <2>1, <3>1 DEF QuantileAt
    <2>2. CASE ~(k + 1 > n)
        <3>1. Len(values) = n
            BY LenProperties, SeqDef DEF Ascending
        <3>2. k + 1 \in 1..n /\ k <= k + 1
            BY <1>1, <2>2
        <3>3. values[k + 1] \in Int /\ values[k] \in Int /\ values[k] <= values[k + 1]
            BY <1>1, <3>2 DEF Ascending
        <3> DEFINE d == values[k + 1] - values[k]
                   a == (d * Rest(p, n)) \div 100
                   b == (d * Rest(q, n)) \div 100
        <3>4. d \in Nat
            BY <3>3
        <3>5. Quantile(values, p) = values[k] + a /\ Quantile(values, q) = values[k] + b
            BY <1>3, <1>4, <1>6, <2>2, <3>1 DEF QuantileAt
        <3> HIDE DEF d
        <3>6. a \in Int /\ b \in Int /\ a <= b
            BY <1>1, <1>2, <1>6, <3>4, PartOf, MorePart
        <3> HIDE DEF a, b
        <3> QED
            BY <3>3, <3>5, <3>6
    <2> QED
        BY <2>1, <2>2
<1> QED
    BY <1>1, <1>2, <1>5, <1>6

\* Settings of the fusion, as FusionAssumption has them.
Validated(c) ==
    /\ \A name \in Experts : c.base[name] \in Nat
    /\ {c.visualBoost, c.speechBoost, c.ocrBoost} \subseteq Nat
    /\ c.qLow \in 0..100 /\ c.qHigh \in 0..100
    /\ c.topPercent \in 1..100 /\ c.topMax \in Nat \ {0}

\* The extremes of two numbers.
LEMMA PairExtremes ==
    ASSUME NEW a \in Int, NEW b \in Int
    PROVE  /\ Max({a, b}) \in {a, b} /\ a <= Max({a, b}) /\ b <= Max({a, b})
           /\ Min({a, b}) \in {a, b} /\ Min({a, b}) <= a /\ Min({a, b}) <= b
<1>1. IsFiniteSet({a, b})
    <2>1. IsFiniteSet({} \cup {a})
        BY FS_EmptySet, FS_AddElement
    <2>2. IsFiniteSet(({} \cup {a}) \cup {b})
        BY <2>1, FS_AddElement
    <2>3. ({} \cup {a}) \cup {b} = {a, b}
        OBVIOUS
    <2> QED
        BY <2>2, <2>3
<1>2. {a, b} \in SUBSET Int /\ {a, b} # {}
    OBVIOUS
<1> QED
    BY <1>1, <1>2, FiniteExtremes

\* The number of top values is positive and no larger than there are values.
LEMMA TopCountIn ==
    ASSUME NEW n \in Nat \ {0}, NEW c, Validated(c)
    PROVE  TopCount(n, c) \in 1..n
<1> DEFINE share == (n * c.topPercent + 99) \div 100
           least == Min({share, c.topMax})
<1>1. c.topPercent \in 1..100 /\ c.topMax \in Nat \ {0}
    BY DEF Validated
<1>2. n * c.topPercent \in Int /\ 0 <= n * c.topPercent /\ n * c.topPercent <= n * 100
    BY <1>1, SMTT(30)
<1>3. share \in Int /\ share <= n
    <2> DEFINE m == n * c.topPercent
    <2> HIDE DEF m
    <2>1. m \in Int /\ 0 <= m /\ m <= n * 100
        BY <1>2 DEF m
    <2>2. (m + 99) \div 100 \in Int /\ (m + 99) \div 100 <= n
        BY <2>1
    <2> QED
        BY <2>2 DEF m
<1> HIDE DEF share
<1>4. least \in Int /\ least <= share
    <2>1. share \in Int /\ c.topMax \in Int
        BY <1>1, <1>3
    <2>2. Min({share, c.topMax}) \in {share, c.topMax} /\ Min({share, c.topMax}) <= share
        BY <2>1, PairExtremes
    <2> QED
        BY <2>1, <2>2
<1> HIDE DEF least
<1>5. Max({1, least}) \in {1, least} /\ 1 <= Max({1, least})
    BY <1>4, PairExtremes
<1>6. TopCount(n, c) = Max({1, least})
    BY DEF TopCount, least, share
<1> QED
    BY <1>3, <1>4, <1>5, <1>6

\* The mean of numbers is a number.
LEMMA MeanIsNumber ==
    ASSUME NEW n \in Nat \ {0}, NEW values \in [1..n -> Int], NEW k \in 1..n
    PROVE  MeanOfLast(values, k) \in Int
<1> DEFINE last == SubSeq(values, n - k + 1, n)
<1>1. values \in Seq(Int) /\ Len(values) = n
    BY LenProperties, SeqDef
<1>2. last \in Seq(Int)
    BY <1>1, SubSeqProperties
<1> HIDE DEF last
<1>3. last \in [1..Len(last) -> Int] /\ IsFiniteSet(1..Len(last))
    BY <1>2, LenProperties, FS_Interval
<1>4. Total(last) \in Int
    BY <1>3, TotalTakesOne
<1>5. MeanOfLast(values, k) = Total(last) \div k
    BY <1>1 DEF MeanOfLast, last
<1> QED
    BY <1>4, <1>5

\* So is the contrast of a row.
LEMMA ContrastIsNumber ==
    ASSUME NEW n \in Nat \ {0}, NEW values, Ascending(values, n), NEW c, Validated(c), Unit \in Int
    PROVE  Contrast(values, c) \in Int
<1> DEFINE above == MeanOfLast(values, TopCount(Len(values), c)) - Quantile(values, 50)
           spread == Quantile(values, 75) - Quantile(values, 25)
<1>1. values \in [1..n -> Int] /\ Len(values) = n
    BY LenProperties, SeqDef DEF Ascending
<1>2. above \in Int
    <2>1. TopCount(n, c) \in 1..n
        BY TopCountIn
    <2>2. MeanOfLast(values, TopCount(n, c)) \in Int
        BY <1>1, <2>1, MeanIsNumber
    <2>3. Quantile(values, 50) \in Int
        BY QuantileIs
    <2> QED
        BY <1>1, <2>2, <2>3
<1>3. spread \in Nat
    <2>1. Quantile(values, 75) \in Int /\ Quantile(values, 25) \in Int
        BY QuantileIs
    <2>2. Quantile(values, 25) <= Quantile(values, 75)
        BY QuantilesAscend
    <2> QED
        BY <2>1, <2>2
<1>4. Contrast(values, c) = Prominence(above, spread)
    BY DEF Contrast
<1> HIDE DEF above, spread
<1>5. CASE above <= 0
    BY <1>4, <1>5 DEF Prominence
<1>6. CASE ~(above <= 0)
    <2>1. above + spread \in Nat \ {0} /\ above * Unit \in Int
        BY <1>2, <1>3, <1>6
    <2> DEFINE p == above * Unit
               q == above + spread
    <2>2. Prominence(above, spread) = p \div q
        BY <1>6 DEF Prominence
    <2> HIDE DEF p, q
    <2> QED
        BY <1>4, <2>1, <2>2 DEF p, q
<1> QED
    BY <1>5, <1>6

IsRow(row, D) == row \in [D -> Int]
InNumbers(cal, D) == IsRow(cal.scores, D) /\ cal.reliability \in Int

\* A calibration by the fields it is made of.
LEMMA CalibratedIs ==
    ASSUME NEW D, NEW scores, IsRow(scores, D), NEW reliability \in Int
    PROVE  InNumbers(Calibrated(scores, reliability), D)
BY TableIsItself DEF Calibrated, InNumbers

\* The same score on every supported frame.
FlatRow(row, support) == [f \in DOMAIN row |-> IF f \in support THEN Unit ELSE 0]

\* A component that spans nothing has the same row for every event.
LEMMA FlatRows ==
    ASSUME NEW D, NEW row, IsRow(row, D), NEW support, Unit \in Int
    PROVE  IsRow(Silence(row), D) /\ IsRow(FlatRow(row, support), D)
BY DEF IsRow, Silence, On, FlatRow

\* And the same calibration.
LEMMA FlatCalibrations ==
    ASSUME NEW D, NEW row, IsRow(row, D), NEW support, Unit \in Int
    PROVE  /\ InNumbers(Calibrated(FlatRow(row, support), Unit), D)
           /\ InNumbers(Calibrated(Silence(row), Unit), D)
           /\ InNumbers(Calibrated(Silence(row), 0), D)
<1>1. IsRow(Silence(row), D) /\ IsRow(FlatRow(row, support), D)
    BY FlatRows
<1>2. 0 \in Int
    OBVIOUS
<1> QED
    BY <1>1, <1>2, CalibratedIs

\* A share of a span is a number.
LEMMA ShareIsNumber ==
    ASSUME NEW a \in Int, NEW low \in Int, NEW high \in Int, high > low, Unit \in Int
    PROVE  ((a - low) * Unit) \div (high - low) \in Int
<1> DEFINE p == (a - low) * Unit
           q == high - low
<1>1. p \in Int /\ q \in Nat \ {0}
    OBVIOUS
<1> HIDE DEF p, q
<1>2. p \div q \in Int
    BY <1>1
<1> QED
    BY <1>2 DEF p, q

\* Ranged scores are numbers at every frame.
LEMMA RangedIsRow ==
    ASSUME NEW D, NEW row, IsRow(row, D), NEW support,
           NEW low \in Int, NEW high \in Int, high > low, Unit \in Int
    PROVE  IsRow(Ranged(row, support, low, high), D)
<1>1. ASSUME NEW f \in D
      PROVE  ((Clipped(row[f], low, high) - low) * Unit) \div (high - low) \in Int
    <2>1. Clipped(row[f], low, high) \in Int
        BY DEF IsRow, Clipped
    <2> QED
        BY <2>1, ShareIsNumber
<1>2. Ranged(row, support, low, high) =
          [f \in D |-> IF f \in support
                       THEN ((Clipped(row[f], low, high) - low) * Unit) \div (high - low) ELSE 0]
    BY DEF Ranged, On, IsRow
<1> QED
    BY <1>1, <1>2 DEF IsRow

\* So are stretched scores.
LEMMA StretchIsRow ==
    ASSUME NEW D, NEW row, IsRow(row, D), NEW support,
           NEW low \in Int, NEW high \in Int, Unit \in Int
    PROVE  InNumbers(StretchedBetween(row, support, low, high), D)
<1>1. CASE high > low
    <2> DEFINE scores == [f \in D |-> IF f \in support
                                      THEN ((row[f] - low) * Unit) \div (high - low) ELSE 0]
    <2>1. ASSUME NEW f \in D
          PROVE  ((row[f] - low) * Unit) \div (high - low) \in Int
        <3>1. row[f] \in Int
            BY DEF IsRow
        <3> QED
            BY <1>1, <3>1, ShareIsNumber
    <2>2. StretchedBetween(row, support, low, high) = Calibrated(scores, Unit)
        BY <1>1 DEF StretchedBetween, On, IsRow
    <2>3. IsRow(scores, D)
        BY <2>1 DEF IsRow
    <2> HIDE DEF scores
    <2> QED
        BY <2>2, <2>3, CalibratedIs
<1>2. CASE ~(high > low)
    <2>1. \/ StretchedBetween(row, support, low, high) = Calibrated(FlatRow(row, support), Unit)
          \/ StretchedBetween(row, support, low, high) = Calibrated(Silence(row), 0)
        BY <1>2 DEF StretchedBetween, On, Full, FlatRow
    <2> QED
        BY <2>1, FlatCalibrations
<1> QED
    BY <1>1, <1>2

\* A component of one event.
LEMMA LoneIs ==
    ASSUME NEW D, NEW row, IsRow(row, D), NEW support, NEW name, Unit \in Int
    PROVE  InNumbers(Lone(name, row, support), D)
<1>1. \/ Lone(name, row, support) = Calibrated(FlatRow(row, support), Unit)
      \/ Lone(name, row, support) = Calibrated(Silence(row), Unit)
      \/ Lone(name, row, support) = Calibrated(Silence(row), 0)
    BY DEF Lone, On, Full, FlatRow
<1> QED
    BY <1>1, FlatCalibrations

\* The values a component spans, by its rows and coverage.
LEMMA SpannedIs ==
    ASSUME NEW D, NEW row, IsRow(row, D), NEW support \in SUBSET D, NEW name, Unit \in Int,
           NEW c, Validated(c), NEW n \in Nat \ {0}, NEW values, Ascending(values, n)
    PROVE  InNumbers(Spanned(name, row, support, values, c), D)
<1> DEFINE low == Quantile(values, c.qLow)
           high == Quantile(values, c.qHigh)
<1>1. low \in Int /\ high \in Int
    BY QuantileIs DEF Validated
<1>2. Spanned(name, row, support, values, c) = Between(name, row, support, values, low, high, c)
    BY DEF Spanned
<1> HIDE DEF low, high
<1>3. Reliability(values, low, high, c) \in Int
    BY ContrastIsNumber DEF Reliability
<1> DEFINE scores == IF high > low THEN Ranged(row, support, low, high)
                     ELSE IF name \in Bm25Names /\ Hit(row, support) THEN FlatRow(row, support)
                     ELSE Silence(row)
           reliability == IF name \in Bm25Names THEN (IF Hit(row, support) THEN Unit ELSE 0)
                          ELSE Reliability(values, low, high, c)
<1>4. IsRow(scores, D)
    BY <1>1, FlatRows, RangedIsRow
<1>5. reliability \in Int
    BY <1>3
<1>6. Between(name, row, support, values, low, high, c) = Calibrated(scores, reliability)
    BY DEF Between, On, Full, FlatRow
<1> HIDE DEF scores, reliability
<1> QED
    BY <1>2, <1>4, <1>5, <1>6, CalibratedIs

\* The support of a component is a set of its frames.
LEMMA SupportIn ==
    ASSUME NEW D, NEW row, IsRow(row, D), NEW component, NEW name,
           component.coverage = Absent \/ component.coverage \in SUBSET D
    PROVE  Support(name, component, row) \in SUBSET D
BY DEF Support, IsRow

\* Whatever a component says of the frames, its calibration is a number for each
\* (calibrate_bundle).
LEMMA CalibrationIsNumbers ==
    ASSUME NEW D \in SUBSET Int, IsFiniteSet(D), D # {}, NEW row, IsRow(row, D),
           NEW component, component.coverage = Absent \/ component.coverage \in SUBSET D,
           NEW name, NEW c, Validated(c), Unit \in Nat \ {0}
    PROVE  InNumbers(CalibrateRow(name, component, row, c), D)
<1> DEFINE support == Support(name, component, row)
           values == {row[f] : f \in D}
<1>1. support \in SUBSET D /\ IsFiniteSet(support) /\ DOMAIN row = D /\ row = [f \in D |-> row[f]]
    BY SupportIn, FS_Subset DEF IsRow
<1>2. \A f \in D : row[f] \in Int
    BY DEF IsRow
<1>3. \A T \in SUBSET D : T # {} => /\ Max({row[f] : f \in T}) \in Int
                                    /\ Min({row[f] : f \in T}) \in Int
    <2> SUFFICES ASSUME NEW T \in SUBSET D, T # {}
                 PROVE  Max({row[f] : f \in T}) \in Int /\ Min({row[f] : f \in T}) \in Int
        OBVIOUS
    <2>1. IsFiniteSet({row[f] : f \in T})
        <3>1. IsFiniteSet(T)
            BY FS_Subset
        <3> DEFINE part == [f \in T |-> row[f]]
        <3>2. IsFiniteSet({part[f] : f \in T})
            BY <3>1, FiniteValues
        <3> QED
            BY <3>2
    <2>2. {row[f] : f \in T} \in SUBSET Int /\ {row[f] : f \in T} # {}
        BY <1>2
    <2> QED
        BY <2>1, <2>2, FiniteExtremes
<1> HIDE DEF support
<1>4. CASE c.robust
    <2>1. CalibrateRow(name, component, row, c) = Robust(name, row, support, c)
        BY <1>4 DEF CalibrateRow, support
    <2>2. CASE SpreadOf(row) = 0 \/ support = {}
        BY <2>1, <2>2, FlatCalibrations DEF Robust
    <2>3. CASE ~(SpreadOf(row) = 0 \/ support = {}) /\ Cardinality(support) = 1
        BY <2>1, <2>3, LoneIs DEF Robust
    <2>4. CASE ~(SpreadOf(row) = 0 \/ support = {}) /\ Cardinality(support) # 1
        <3>1. Robust(name, row, support, c) = Spanned(name, row, support, Sorted(row, support), c)
            BY <2>4 DEF Robust
        <3>2. /\ Cardinality(support) \in Nat
              /\ Ascending(Sorted(row, support), Cardinality(support))
            BY <1>1, <1>2, SortedAscends
        <3>3. Cardinality(support) # 0
            BY <1>1, <2>4, FS_EmptySet
        <3> QED
            BY <1>1, <2>1, <3>1, <3>2, <3>3, SpannedIs
    <2> QED
        BY <2>2, <2>3, <2>4
<1>5. CASE ~c.robust /\ (component.coverage # Absent \/ name \in Bm25Names)
    <2>1. CalibrateRow(name, component, row, c) = Stretched(row, support)
        BY <1>5 DEF CalibrateRow, support
    <2>2. CASE support = {}
        BY <2>1, <2>2, FlatCalibrations DEF Stretched
    <2>3. CASE support # {}
        <3>1. Stretched(row, support) = StretchedBetween(row, support, Min({row[f] : f \in support}),
                                                         Max({row[f] : f \in support}))
            BY <2>3 DEF Stretched
        <3> QED
            BY <1>1, <1>3, <2>1, <2>3, <3>1, StretchIsRow
    <2> QED
        BY <2>2, <2>3
<1>6. CASE ~c.robust /\ ~(component.coverage # Absent \/ name \in Bm25Names)
    <2>1. CalibrateRow(name, component, row, c) =
              Calibrated(MinMax(row), IF SpreadOf(row) > 0 THEN Unit ELSE 0)
        BY <1>6 DEF CalibrateRow
    <2> DEFINE low == Min(values)
               high == Max(values)
    <2>2. low \in Int /\ high \in Int
        BY <1>3
    <2>3. \A f \in D : low <= row[f] /\ row[f] <= high
        <3>1. IsFiniteSet(values)
            BY <1>1, FiniteValues
        <3>2. values \in SUBSET Int /\ values # {}
            BY <1>2
        <3>3. \A y \in values : y <= Max(values) /\ Min(values) <= y
            <4> HIDE DEF values
            <4> QED  BY <3>1, <3>2, FiniteExtremes
        <3> QED
            BY <3>3
    <2>4. SpreadOf(row) = high - low
        BY <1>1 DEF SpreadOf
    <2>5. MinMax(row) = [f \in D |-> IF high - low = 0 THEN 0
                                     ELSE ((row[f] - low) * Unit) \div (high - low)]
        BY <1>1, <2>4 DEF MinMax
    <2> HIDE DEF low, high
    <2>6. ASSUME NEW f \in D, high - low # 0
          PROVE  ((row[f] - low) * Unit) \div (high - low) \in Int
        <3>1. high > low /\ row[f] \in Int
            BY <1>2, <2>2, <2>3, <2>6
        <3> QED
            BY <2>2, <3>1, ShareIsNumber
    <2>7. IsRow(MinMax(row), D)
        BY <2>5, <2>6 DEF IsRow
    <2> QED
        BY <2>1, <2>7, CalibratedIs
<1> QED
    BY <1>4, <1>5, <1>6

\* A calibration says something of every event.
LEMMA CalibratedDomain ==
    ASSUME NEW name, NEW component, NEW row, NEW c
    PROVE  DOMAIN CalibrateRow(name, component, row, c).scores = DOMAIN row
<1> DEFINE Fits(cal) == DOMAIN cal.scores = DOMAIN row
           support == Support(name, component, row)
<1>1. \A scores : DOMAIN scores = DOMAIN row => \A n : Fits(Calibrated(scores, n))
    BY TableIsItself DEF Calibrated
<1>2. DOMAIN Silence(row) = DOMAIN row /\ DOMAIN MinMax(row) = DOMAIN row
    BY DEF Silence, On, MinMax
<1>3. \A low, high : DOMAIN Ranged(row, support, low, high) = DOMAIN row
    BY DEF Ranged, On
<1>4. DOMAIN FlatRow(row, support) = DOMAIN row
    BY DEF FlatRow
<1>5. \A low, high : Fits(StretchedBetween(row, support, low, high))
    <2> SUFFICES ASSUME NEW low, NEW high PROVE Fits(StretchedBetween(row, support, low, high))
        OBVIOUS
    <2> DEFINE scores == [f \in DOMAIN row |-> IF f \in support
                             THEN ((row[f] - low) * Unit) \div (high - low) ELSE 0]
    <2>1. \/ StretchedBetween(row, support, low, high) = Calibrated(scores, Unit)
          \/ StretchedBetween(row, support, low, high) = Calibrated(FlatRow(row, support), Unit)
          \/ StretchedBetween(row, support, low, high) = Calibrated(Silence(row), 0)
        BY DEF StretchedBetween, On, Full, FlatRow
    <2>2. DOMAIN scores = DOMAIN row
        OBVIOUS
    <2> HIDE DEF scores, Fits, support
    <2> QED
        BY <1>1, <1>2, <1>4, <2>1, <2>2
<1>6. Fits(Lone(name, row, support))
    <2>1. \/ Lone(name, row, support) = Calibrated(FlatRow(row, support), Unit)
          \/ \E n : Lone(name, row, support) = Calibrated(Silence(row), n)
        BY DEF Lone, On, Full, FlatRow
    <2> HIDE DEF Fits, support
    <2> QED
        BY <1>1, <1>2, <1>4, <2>1
<1>7. \A values, low, high : Fits(Between(name, row, support, values, low, high, c))
    <2> SUFFICES ASSUME NEW values, NEW low, NEW high
                 PROVE  Fits(Between(name, row, support, values, low, high, c))
        OBVIOUS
    <2> DEFINE scores == IF high > low THEN Ranged(row, support, low, high)
                         ELSE IF name \in Bm25Names /\ Hit(row, support) THEN FlatRow(row, support)
                         ELSE Silence(row)
               n == IF name \in Bm25Names THEN (IF Hit(row, support) THEN Unit ELSE 0)
                    ELSE Reliability(values, low, high, c)
    <2>1. Between(name, row, support, values, low, high, c) = Calibrated(scores, n)
        BY DEF Between, On, Full, FlatRow
    <2> HIDE DEF support
    <2>2. DOMAIN scores = DOMAIN row
        BY <1>2, <1>3, <1>4
    <2> HIDE DEF scores, n, Fits
    <2> QED
        BY <1>1, <2>1, <2>2
<1> HIDE DEF Fits
<1>8. Fits(Calibrated(Silence(row), 0)) /\ \A n : Fits(Calibrated(MinMax(row), n))
    BY <1>1, <1>2
<1>9. Fits(Robust(name, row, support, c))
    <2> HIDE DEF support
    <2> QED  BY <1>6, <1>7, <1>8 DEF Robust, Spanned
<1>10. Fits(Stretched(row, support))
    <2> HIDE DEF support
    <2> QED  BY <1>5, <1>8 DEF Stretched
<1>11. Fits(CalibrateRow(name, component, row, c))
    BY <1>8, <1>9, <1>10 DEF CalibrateRow
<1> QED
    BY <1>11 DEF Fits

-----------------------------------------------------------------------------
(* Fusion: experts that weigh nothing on an event leave its scores alone.   *)

\* Four elements make a finite set.
LEMMA FourElements ==
    ASSUME NEW a, NEW b, NEW d, NEW e
    PROVE  IsFiniteSet({a, b, d, e})
<1>1. IsFiniteSet({} \cup {a})
    BY FS_EmptySet, FS_AddElement
<1>2. IsFiniteSet(({} \cup {a}) \cup {b})
    BY <1>1, FS_AddElement
<1>3. IsFiniteSet((({} \cup {a}) \cup {b}) \cup {d})
    BY <1>2, FS_AddElement
<1>4. IsFiniteSet(((({} \cup {a}) \cup {b}) \cup {d}) \cup {e})
    BY <1>3, FS_AddElement
<1>5. ((({} \cup {a}) \cup {b}) \cup {d}) \cup {e} = {a, b, d, e}
    OBVIOUS
<1> QED
    BY <1>4, <1>5

\* The names of the lexical experts.
LEMMA Bm25NamesAre ==
    /\ Bm25Names = {"bm25_title", "bm25_caption", "bm25_ocr", "bm25_asr"}
    /\ \A field \in Fields : Bm25Name(field) \in Bm25Names
    /\ \A g, h \in Fields : Bm25Name(g) = Bm25Name(h) => g = h
BY DEF Bm25Names, Bm25Name, Fields

\* There are finitely many experts.
LEMMA ExpertsFinite == IsFiniteSet(Experts)
<1>1. IsFiniteSet(Bm25Names)
    BY Bm25NamesAre, FourElements
<1>2. IsFiniteSet({"visual_dense", "context_dense", "asr_dense", "visual_image"})
    BY FourElements
<1> QED
    BY <1>1, <1>2, FS_Union DEF Experts

\* The rows of a bundle for its i-th event are scores of all frames D.
BundleOK(bundle, i, D) ==
    /\ DOMAIN bundle \subseteq Experts
    /\ \A name \in DOMAIN bundle :
          /\ IsRow(bundle[name].rows[i], D)
          /\ bundle[name].coverage = Absent \/ bundle[name].coverage \in SUBSET D

\* The bundle A says of its j-th event what B says of its i-th.
Within(A, j, B, i) ==
    /\ DOMAIN A \subseteq DOMAIN B
    /\ \A name \in DOMAIN A : /\ A[name].rows[j] = B[name].rows[i]
                              /\ A[name].coverage = B[name].coverage

CalOf(bundle, i, c) == [name \in DOMAIN bundle |-> Calibrate(name, bundle[name], i, c)]

WeightsOf(bundle, event, i, f, c) ==
    [name \in DOMAIN bundle |->
        WeightAt(name, bundle[name], event, CalOf(bundle, i, c)[name].reliability, f, c)]

\* What an event scores at a frame.
Mixed(bundle, event, i, c, f) ==
    Blended(CalOf(bundle, i, c), WeightsOf(bundle, event, i, f, c), f,
            Fallback(bundle, event, CalOf(bundle, i, c), f))

\* What a calibrated expert says of an event at a frame.
LEMMA CalOfIs ==
    ASSUME NEW D \in SUBSET Int, IsFiniteSet(D), D # {}, NEW bundle, NEW i, BundleOK(bundle, i, D),
           NEW c, Validated(c), Unit \in Nat \ {0}, NEW name \in DOMAIN bundle
    PROVE  InNumbers(CalOf(bundle, i, c)[name], D)
<1> DEFINE component == bundle[name]
           row == component.rows[i]
<1>1. IsRow(row, D) /\ (component.coverage = Absent \/ component.coverage \in SUBSET D)
    BY DEF BundleOK
<1>2. CalOf(bundle, i, c)[name] = CalibrateRow(name, component, row, c)
    BY DEF CalOf, Calibrate
<1> HIDE DEF component, row
<1> QED
    BY <1>1, <1>2, CalibrationIsNumbers

\* A fused row is what the event scores at each frame.
LEMMA FusedRowIs ==
    ASSUME NEW D, NEW bundle, NEW i, BundleOK(bundle, i, D), NEW c, DOMAIN bundle # {}, NEW event
    PROVE  FuseRow(bundle, event, i, c) = [f \in D |-> Mixed(bundle, event, i, c, f)]
<1> DEFINE cal == CalOf(bundle, i, c)
           some == CHOOSE name \in DOMAIN cal : TRUE
<1>1. DOMAIN cal = DOMAIN bundle
    BY DEF CalOf
<1>2. some \in DOMAIN bundle
    BY <1>1
<1>3. DOMAIN cal[some].scores = D
    <2>1. cal[some] = CalibrateRow(some, bundle[some], bundle[some].rows[i], c)
        BY <1>2 DEF CalOf, Calibrate
    <2>2. DOMAIN bundle[some].rows[i] = D
        BY <1>2 DEF BundleOK, IsRow
    <2> HIDE DEF cal, some
    <2> QED
        BY <2>1, <2>2, CalibratedDomain
<1>4. FuseRow(bundle, event, i, c) = Blend(bundle, event, cal, c)
    BY TableIsItself DEF FuseRow, CalOf
<1>5. Blend(bundle, event, cal, c) =
          [f \in DOMAIN cal[some].scores |->
              Blended(cal, [name \in DOMAIN cal |->
                               WeightAt(name, bundle[name], event, cal[name].reliability, f, c)],
                      f, Fallback(bundle, event, cal, f))]
    <2> HIDE DEF cal
    <2> QED  BY TableIsItself DEF Blend
<1> HIDE DEF some
<1> QED
    BY <1>1, <1>3, <1>4, <1>5 DEF Mixed, WeightsOf

\* A weight is a natural number.
LEMMA WeightIsNumber ==
    ASSUME NEW name \in Experts, NEW component, NEW event, NEW reliability \in Int, NEW f,
           NEW c, Validated(c), Unit \in Nat \ {0}
    PROVE  WeightAt(name, component, event, reliability, f, c) \in Int
<1>1. c.base[name] \in Nat /\ c.visualBoost \in Nat /\ c.speechBoost \in Nat /\ c.ocrBoost \in Nat
    BY DEF Validated
<1>2. Boost(name, event, c) \in Nat
    BY <1>1 DEF Boost
<1>3. c.base[name] * Boost(name, event, c) \in Int
    BY <1>1, <1>2
<1>4. Route(name, event, c) \in Int
    BY <1>1, <1>3 DEF Route
<1>5. (IF c.gating THEN reliability ELSE Unit) \in Int
    OBVIOUS
<1>6. Route(name, event, c) * (IF c.gating THEN reliability ELSE Unit) \in Int
    BY <1>4, <1>5
<1> QED
    BY <1>6 DEF WeightAt

\* An expert that weighs nothing here might as well not be there.
LEMMA MixedAlike ==
    ASSUME NEW D \in SUBSET Int, IsFiniteSet(D), NEW f \in D,
           NEW A, NEW j, NEW B, NEW i, BundleOK(B, i, D), Within(A, j, B, i),
           NEW c, Validated(c), Unit \in Nat \ {0}, NEW event,
           \A name \in DOMAIN B \ DOMAIN A : WeightsOf(B, event, i, f, c)[name] = 0,
           Fallback(B, event, CalOf(B, i, c), f) = Fallback(A, event, CalOf(A, j, c), f)
    PROVE  Mixed(B, event, i, c, f) = Mixed(A, event, j, c, f)
<1> DEFINE b == DOMAIN B
           a == DOMAIN A
           w == WeightsOf(B, event, i, f, c)
           s == [name \in b |-> CalOf(B, i, c)[name].scores[f]]
           t == [name \in b |-> w[name] * s[name]]
<1>1. a \in SUBSET b /\ b \in SUBSET Experts /\ IsFiniteSet(b)
    BY ExpertsFinite, FS_Subset DEF BundleOK, Within
<1>2. \A name \in b : InNumbers(CalOf(B, i, c)[name], D)
    BY CalOfIs
<1>3. w \in [b -> Int]
    <2>1. \A name \in b : WeightAt(name, B[name], event, CalOf(B, i, c)[name].reliability, f, c) \in Int
        BY <1>1, <1>2, WeightIsNumber DEF InNumbers
    <2> QED
        BY <2>1 DEF WeightsOf
<1>4. s \in [b -> Int]
    BY <1>2 DEF InNumbers, IsRow
<1>5. \A name \in a : CalOf(A, j, c)[name] = CalOf(B, i, c)[name]
    <2> SUFFICES ASSUME NEW name \in a PROVE CalOf(A, j, c)[name] = CalOf(B, i, c)[name]
        OBVIOUS
    <2>1. A[name].rows[j] = B[name].rows[i] /\ A[name].coverage = B[name].coverage /\ name \in b
        BY <1>1 DEF Within
    <2>2. CalibrateRow(name, A[name], A[name].rows[j], c) = CalibrateRow(name, B[name], B[name].rows[i], c)
        BY <2>1 DEF CalibrateRow, Support
    <2> QED
        BY <2>1, <2>2 DEF CalOf, Calibrate
<1>6. WeightsOf(A, event, j, f, c) = [name \in a |-> w[name]]
    <2>1. ASSUME NEW name \in a
          PROVE  WeightAt(name, A[name], event, CalOf(A, j, c)[name].reliability, f, c) = w[name]
        <3>1. A[name].coverage = B[name].coverage /\ name \in b
            BY <1>1 DEF Within
        <3> QED
            BY <1>5, <3>1 DEF WeightAt, WeightsOf
    <2> HIDE DEF w
    <2> QED
        BY <2>1 DEF WeightsOf
<1>7. Total(w) = Total(WeightsOf(A, event, j, f, c)) /\ Total(w) \in Int
    <2> HIDE DEF w, a, b
    <2>1. \A name \in b \ a : w[name] = 0
        BY DEF w, a, b
    <2> QED
        BY <1>1, <1>3, <1>6, <2>1, ZerosAddNothing, TotalTakesOne
<1>8. Total(t) = Total([name \in a |-> t[name]])
    <2>1. t \in [b -> Int]
        <3> HIDE DEF w, s
        <3> QED  BY <1>3, <1>4
    <2>2. \A name \in b \ a : t[name] = 0
        <3>1. \A name \in b \ a : w[name] = 0
            OBVIOUS
        <3> HIDE DEF w, s
        <3> QED  BY <1>4, <3>1
    <2> HIDE DEF t, a, b
    <2> QED
        BY <1>1, <2>1, <2>2, ZerosAddNothing
<1>9. [name \in a |-> t[name]] =
          [name \in DOMAIN WeightsOf(A, event, j, f, c) |->
              WeightsOf(A, event, j, f, c)[name] * CalOf(A, j, c)[name].scores[f]]
    <2> HIDE DEF w
    <2> QED  BY <1>1, <1>5, <1>6
<1>10. DOMAIN w = b /\ t = [name \in b |-> w[name] * CalOf(B, i, c)[name].scores[f]]
    <2> HIDE DEF w
    <2> QED  BY <1>3
<1>11. Blended(CalOf(B, i, c), w, f, Fallback(B, event, CalOf(B, i, c), f))
           = IF Total(w) > 0 THEN Total(t) \div Total(w) ELSE Fallback(B, event, CalOf(B, i, c), f)
    <2> HIDE DEF w, t
    <2> QED  BY <1>10 DEF Blended
<1> HIDE DEF w, t, s, a, b
<1> QED
    BY <1>7, <1>8, <1>9, <1>11 DEF Mixed, Blended, w

\* Two bundles with the same component have it calibrated alike.
LEMMA SameCalibration ==
    ASSUME NEW A, NEW j, NEW B, NEW i, Within(A, j, B, i), NEW c
    PROVE  \A name \in DOMAIN A : CalOf(A, j, c)[name] = CalOf(B, i, c)[name]
<1> SUFFICES ASSUME NEW name \in DOMAIN A PROVE CalOf(A, j, c)[name] = CalOf(B, i, c)[name]
    OBVIOUS
<1>1. A[name].rows[j] = B[name].rows[i] /\ A[name].coverage = B[name].coverage /\ name \in DOMAIN B
    BY DEF Within
<1>2. CalibrateRow(name, A[name], A[name].rows[j], c) = CalibrateRow(name, B[name], B[name].rows[i], c)
    BY <1>1 DEF CalibrateRow, Support
<1> QED
    BY <1>1, <1>2 DEF CalOf, Calibrate

\* Without any expert to ask, two bundles fall back to the same score.
LEMMA FallbackAlike ==
    ASSUME NEW A, NEW j, NEW B, NEW i, Within(A, j, B, i), NEW c, NEW event, NEW f,
           HasText(event) /\ "visual_dense" \in DOMAIN B => "visual_dense" \in DOMAIN A,
           HasImages(event) /\ "visual_image" \in DOMAIN B => "visual_image" \in DOMAIN A
    PROVE  Fallback(B, event, CalOf(B, i, c), f) = Fallback(A, event, CalOf(A, j, c), f)
<1>1. /\ "visual_dense" \in DOMAIN A => "visual_dense" \in DOMAIN B
      /\ "visual_image" \in DOMAIN A => "visual_image" \in DOMAIN B
    BY DEF Within
<1>2. /\ "visual_dense" \in DOMAIN A =>
             CalOf(A, j, c)["visual_dense"] = CalOf(B, i, c)["visual_dense"]
      /\ "visual_image" \in DOMAIN A =>
             CalOf(A, j, c)["visual_image"] = CalOf(B, i, c)["visual_image"]
    BY SameCalibration
<1> QED
    BY <1>1, <1>2 DEF Fallback

\* Bundles that both score an event score it alike at a frame where nothing that
\* only one of them has weighs anything.
Covers(A, B, event) ==
    /\ HasText(event) /\ "visual_dense" \in DOMAIN B => "visual_dense" \in DOMAIN A
    /\ HasImages(event) /\ "visual_image" \in DOMAIN B => "visual_image" \in DOMAIN A

\* Two bundles whose asked experts agree at a frame fuse to the same score there.
LEMMA FusedAlike ==
    ASSUME NEW D \in SUBSET Int, IsFiniteSet(D),
           NEW A, NEW j, NEW B, NEW i, BundleOK(B, i, D), Within(A, j, B, i), DOMAIN A # {},
           NEW c, Validated(c), Unit \in Nat \ {0}, NEW event, Covers(A, B, event)
    PROVE  /\ FuseRow(B, event, i, c) = [f \in D |-> FuseRow(B, event, i, c)[f]]
           /\ FuseRow(A, event, j, c) = [f \in D |-> FuseRow(A, event, j, c)[f]]
           /\ \A f \in D :
                 (\A name \in DOMAIN B \ DOMAIN A : WeightsOf(B, event, i, f, c)[name] = 0)
                 => FuseRow(B, event, i, c)[f] = FuseRow(A, event, j, c)[f]
<1>1. BundleOK(A, j, D) /\ DOMAIN B # {}
    BY DEF BundleOK, Within
<1>2. FuseRow(B, event, i, c) = [f \in D |-> Mixed(B, event, i, c, f)]
    BY <1>1, FusedRowIs
<1>3. FuseRow(A, event, j, c) = [f \in D |-> Mixed(A, event, j, c, f)]
    BY <1>1, FusedRowIs
<1>4. ASSUME NEW f \in D,
             \A name \in DOMAIN B \ DOMAIN A : WeightsOf(B, event, i, f, c)[name] = 0
      PROVE  Mixed(B, event, i, c, f) = Mixed(A, event, j, c, f)
    <2>1. Fallback(B, event, CalOf(B, i, c), f) = Fallback(A, event, CalOf(A, j, c), f)
        BY FallbackAlike DEF Covers
    <2> QED
        BY <1>4, <2>1, MixedAlike
<1> QED
    BY <1>2, <1>3, <1>4

-----------------------------------------------------------------------------
(* What the bundle of a plan says of each event.                            *)

\* Finitely many numbers are listed in ascending order.
LEMMA NumbersInOrder ==
    ASSUME NEW S \in SUBSET Int, IsFiniteSet(S)
    PROVE  /\ Cardinality(S) \in Nat
           /\ InOrder(S) \in [1..Cardinality(S) -> S]
           /\ \A a \in S : \E n \in 1..Cardinality(S) : InOrder(S)[n] = a
           /\ \A m, n \in 1..Cardinality(S) : m < n <=> InOrder(S)[m] < InOrder(S)[n]
<1> DEFINE R == {p \in S \X S : p[1] < p[2]}
           order == ByPlace(S, Places(S, R))
           c == Cardinality(S)
<1>1. \A a, b \in S : <<a, b>> \in R <=> a < b
    OBVIOUS
<1>2. Orders(S, R)
    <2> HIDE DEF R
    <2> QED  BY <1>1 DEF Orders
<1>3. /\ c \in Nat
      /\ order \in [1..c -> S]
      /\ \A a \in S : \E n \in 1..c : order[n] = a
      /\ \A m, n \in 1..c : m < n <=> <<order[m], order[n]>> \in R
    <2> HIDE DEF R
    <2> QED  BY <1>2, ListedByOrder
<1>4. InOrder(S) = order
    <2>1. Places(S, R) = [a \in S |-> Cardinality({b \in S : b < a})]
        <3>1. ASSUME NEW a \in S PROVE Before(S, R, a) = {b \in S : b < a}
            <4> HIDE DEF R
            <4> QED  BY <1>1 DEF Before
        <3> HIDE DEF R
        <3> QED  BY <3>1 DEF Places
    <2> HIDE DEF R
    <2> QED
        BY <2>1 DEF InOrder, Arranged, Table
<1> HIDE DEF order, c
<1>5. \A m, n \in 1..c : m < n <=> order[m] < order[n]
    <2>1. \A m \in 1..c : order[m] \in S
        BY <1>3
    <2> HIDE DEF R
    <2> QED
        BY <1>1, <1>3, <2>1
<1> QED
    BY <1>3, <1>4, <1>5 DEF c

Textual(plan) == {i \in DOMAIN plan : HasText(plan[i])}

\* The events with a text, in their order.
LEMMA TextRowsAre ==
    ASSUME NEW n \in Nat, NEW plan, DOMAIN plan = 1..n
    PROVE  LET rows == TextRows(plan)
               m == Cardinality(Textual(plan))
           IN  /\ m \in Nat
               /\ rows \in [1..m -> Textual(plan)]
               /\ \A i \in Textual(plan) : \E k \in 1..m : rows[k] = i
               /\ \A k, l \in 1..m : rows[k] = rows[l] => k = l
               /\ rows = <<>> <=> Textual(plan) = {}
<1> DEFINE S == Textual(plan)
           m == Cardinality(S)
           rows == InOrder(S)
<1>1. S \in SUBSET Int /\ IsFiniteSet(S)
    <2>1. S \in SUBSET 1..n
        BY DEF Textual
    <2>2. IsFiniteSet(1..n)
        BY FS_Interval
    <2> HIDE DEF S
    <2>3. IsFiniteSet(S)
        BY <2>1, <2>2, FS_Subset
    <2>4. 1..n \in SUBSET Int
        OBVIOUS
    <2> QED
        BY <2>1, <2>3, <2>4
<1>2. TextRows(plan) = rows
    BY DEF TextRows, InOrder, Textual
<1> HIDE DEF S
<1>3. /\ m \in Nat
      /\ rows \in [1..m -> S]
      /\ \A a \in S : \E k \in 1..m : rows[k] = a
      /\ \A k, l \in 1..m : k < l <=> rows[k] < rows[l]
    BY <1>1, NumbersInOrder
<1> HIDE DEF m, rows
<1>4. \A k, l \in 1..m : rows[k] = rows[l] => k = l
    <2> SUFFICES ASSUME NEW k \in 1..m, NEW l \in 1..m, rows[k] = rows[l] PROVE k = l
        OBVIOUS
    <2>1. rows[k] \in Int /\ rows[l] \in Int
        BY <1>1, <1>3
    <2>2. ~(rows[k] < rows[l]) /\ ~(rows[l] < rows[k])
        BY <2>1
    <2> QED
        BY <1>3, <2>2
<1>5. rows = <<>> <=> S = {}
    <2>1. ASSUME S = {} PROVE rows = <<>>
        <3>1. m = 0
            BY <2>1, FS_EmptySet DEF m
        <3>2. rows \in [{} -> S]
            BY <1>3, <3>1
        <3>3. <<>> \in [{} -> S]
            OBVIOUS
        <3> QED
            BY <3>2, <3>3
    <2>2. ASSUME rows = <<>> PROVE S = {}
        <3>1. DOMAIN rows = {} /\ DOMAIN rows = 1..m
            BY <1>3, <2>2
        <3> QED
            BY <1>3, <3>1
    <2> QED
        BY <2>1, <2>2
<1> QED
    BY <1>2, <1>3, <1>4, <1>5 DEF S, m

-----------------------------------------------------------------------------
(* The bundle of a plan: what its experts are asked, and say.               *)

DenseText(event, on) == IF on.dense THEN event.dense ELSE event.text
Bm25Text(event, on) == IF on.bm25 THEN event.bm25 ELSE event.text

\* Speech at the frames, for one text.
SpeechRow(x, text, interval) ==
    [f \in Frames(x) |-> BestSaid(text, {s \in x.segments : f \in Spoken(x, s, interval)})]

FieldOf(name) == CHOOSE field \in Fields : Bm25Name(field) = name
Bm25Row(x, event, on, field) ==
    x.bm25[field][IF field = "caption" THEN Bm25Text(event, on) ELSE event.text]

\* What an expert says of a text event.
TextRow(x, on, event, name, c) ==
    IF name = "visual_dense" THEN x.visual[DenseText(event, on)]
    ELSE IF name = "context_dense" THEN x.context[DenseText(event, on)]
    ELSE IF name = "asr_dense" THEN SpeechRow(x, DenseText(event, on), c.interval)
    ELSE Bm25Row(x, event, on, FieldOf(name))

TextNames(x, on) ==
    (IF on.dense THEN DenseNames(x) ELSE {}) \cup (IF on.bm25 THEN Bm25Names ELSE {})

MaskOf(x, name, c) == IF name = "asr_dense" THEN Coverage(x, c.interval) ELSE Absent

\* No dense expert has the name of a lexical one.
LEMMA NamesApart ==
    /\ \A name \in Bm25Names : name \notin {"visual_dense", "context_dense", "asr_dense", "visual_image"}
    /\ \A x : DenseNames(x) \subseteq {"visual_dense", "context_dense", "asr_dense"}
    /\ \A x : "visual_dense" \in DenseNames(x)
BY Bm25NamesAre DEF DenseNames

\* The dense components of the texts, by name.
LEMMA DenseComponentsAre ==
    ASSUME NEW x, NEW texts, NEW interval
    PROVE  /\ DOMAIN DenseComponents(x, texts, interval) = DenseNames(x)
           /\ \A name \in DenseNames(x) :
                 LET component == DenseComponents(x, texts, interval)[name]
                 IN  /\ component.coverage = IF name = "asr_dense" THEN Coverage(x, interval) ELSE Absent
                     /\ \A k \in DOMAIN texts : component.rows[k] =
                            IF name = "visual_dense" THEN x.visual[texts[k]]
                            ELSE IF name = "context_dense" THEN x.context[texts[k]]
                            ELSE SpeechRow(x, texts[k], interval)
<1>1. DOMAIN DenseComponents(x, texts, interval) = DenseNames(x)
    BY DEF DenseComponents
<1>2. ASSUME NEW name \in DenseNames(x)
      PROVE  LET component == DenseComponents(x, texts, interval)[name]
             IN  /\ component.coverage = IF name = "asr_dense" THEN Coverage(x, interval) ELSE Absent
                 /\ \A k \in DOMAIN texts : component.rows[k] =
                        IF name = "visual_dense" THEN x.visual[texts[k]]
                        ELSE IF name = "context_dense" THEN x.context[texts[k]]
                        ELSE SpeechRow(x, texts[k], interval)
    <2>1. name \in {"visual_dense", "context_dense", "asr_dense"}
        BY NamesApart
    <2>2. CASE name = "visual_dense"
        <3>1. DenseComponents(x, texts, interval)[name] = Component(Scores(x.visual, texts), Absent)
            BY <2>2 DEF DenseComponents
        <3> QED
            BY <2>2, <3>1 DEF Component, Scores
    <2>3. CASE name = "context_dense"
        <3>1. DenseComponents(x, texts, interval)[name] = Component(Scores(x.context, texts), Absent)
            BY <2>3 DEF DenseComponents
        <3> QED
            BY <2>3, <3>1 DEF Component, Scores
    <2>4. CASE name = "asr_dense"
        <3>1. DenseComponents(x, texts, interval)[name] =
                  Component(SpeechMasked(x, texts, interval), Coverage(x, interval))
            BY <2>4 DEF DenseComponents
        <3>2. \A k \in DOMAIN texts : SpeechMasked(x, texts, interval)[k] = SpeechRow(x, texts[k], interval)
            BY TableIsItself DEF SpeechMasked, SpeechRow
        <3> QED
            BY <2>4, <3>1, <3>2 DEF Component
    <2> QED
        BY <2>1, <2>2, <2>3, <2>4
<1> QED
    BY <1>1, <1>2

\* The lexical components of the texts, by name.
LEMMA Bm25ComponentsAre ==
    ASSUME NEW x, NEW originals, NEW captions, DOMAIN captions = DOMAIN originals
    PROVE  /\ DOMAIN Bm25Components(x, originals, captions) = Bm25Names
           /\ \A name \in Bm25Names :
                 LET component == Bm25Components(x, originals, captions)[name]
                 IN  /\ component.coverage = Absent
                     /\ \A k \in DOMAIN originals : component.rows[k] =
                            x.bm25[FieldOf(name)][IF FieldOf(name) = "caption" THEN captions[k]
                                                  ELSE originals[k]]
<1>1. DOMAIN Bm25Components(x, originals, captions) = Bm25Names
    BY DEF Bm25Components, Bm25Names
<1>2. ASSUME NEW name \in Bm25Names
      PROVE  Bm25Components(x, originals, captions)[name] =
                 Component(Bm25Rows(x, FieldOf(name), originals, captions), Absent)
    BY DEF Bm25Components, Bm25Names, FieldOf
<1>3. ASSUME NEW name \in Bm25Names, NEW k \in DOMAIN originals
      PROVE  Bm25Rows(x, FieldOf(name), originals, captions)[k] =
                 x.bm25[FieldOf(name)][IF FieldOf(name) = "caption" THEN captions[k] ELSE originals[k]]
    BY DEF Bm25Rows, Scores
<1> QED
    BY <1>1, <1>2, <1>3 DEF Component

\* What two bundles joined have under a name.
LEMMA JoinedIs ==
    ASSUME NEW f, NEW g
    PROVE  /\ DOMAIN Joined(f, g) = DOMAIN f \cup DOMAIN g
           /\ \A name \in DOMAIN f : Joined(f, g)[name] = f[name]
           /\ \A name \in DOMAIN g : name \notin DOMAIN f => Joined(f, g)[name] = g[name]
BY DEF Joined

\* The empty bundle names nothing.
LEMMA NothingJoined == DOMAIN <<>> = {}
OBVIOUS

\* The components of the texts that are asked of the indexes.
LEMMA TextBundleIs ==
    ASSUME NEW x, NEW events, NEW on, NEW c
    PROVE  /\ DOMAIN TextBundle(x, events, on, c) = TextNames(x, on)
           /\ \A name \in TextNames(x, on) :
                 LET component == TextBundle(x, events, on, c)[name]
                 IN  /\ component.coverage = MaskOf(x, name, c)
                     /\ \A k \in DOMAIN events :
                           component.rows[k] = TextRow(x, on, events[k], name, c)
<1> DEFINE originals == [k \in DOMAIN events |-> events[k].text]
           dense == [k \in DOMAIN events |-> DenseText(events[k], on)]
           captions == [k \in DOMAIN events |-> Bm25Text(events[k], on)]
           F == IF on.dense THEN DenseComponents(x, dense, c.interval) ELSE <<>>
           G == IF on.bm25 THEN Bm25Components(x, originals, captions) ELSE <<>>
<1>1. TextBundle(x, events, on, c) = Joined(F, G)
    BY DEF TextBundle, TextComponents, DenseText, Bm25Text
<1>2. DOMAIN F = IF on.dense THEN DenseNames(x) ELSE {}
    BY DenseComponentsAre, NothingJoined
<1>3. DOMAIN G = IF on.bm25 THEN Bm25Names ELSE {}
    BY Bm25ComponentsAre, NothingJoined
<1> HIDE DEF F, G
<1>4. /\ DOMAIN Joined(F, G) = DOMAIN F \cup DOMAIN G
      /\ \A name \in DOMAIN F : Joined(F, G)[name] = F[name]
      /\ \A name \in DOMAIN G : name \notin DOMAIN F => Joined(F, G)[name] = G[name]
    BY JoinedIs
<1>5. DOMAIN TextBundle(x, events, on, c) = TextNames(x, on)
    BY <1>1, <1>2, <1>3, <1>4 DEF TextNames
<1>6. ASSUME NEW name \in DOMAIN F
      PROVE  /\ F[name].coverage = MaskOf(x, name, c)
             /\ \A k \in DOMAIN events : F[name].rows[k] = TextRow(x, on, events[k], name, c)
    <2>1. on.dense /\ name \in DenseNames(x) /\ F[name] = DenseComponents(x, dense, c.interval)[name]
        BY <1>2 DEF F
    <2>2. name \in {"visual_dense", "context_dense", "asr_dense"}
        BY <2>1, NamesApart
    <2>3. DOMAIN dense = DOMAIN events /\ \A k \in DOMAIN events : dense[k] = DenseText(events[k], on)
        OBVIOUS
    <2> HIDE DEF dense
    <2>4. /\ F[name].coverage = IF name = "asr_dense" THEN Coverage(x, c.interval) ELSE Absent
          /\ \A k \in DOMAIN events : F[name].rows[k] =
                IF name = "visual_dense" THEN x.visual[dense[k]]
                ELSE IF name = "context_dense" THEN x.context[dense[k]]
                ELSE SpeechRow(x, dense[k], c.interval)
        BY <2>1, <2>3, DenseComponentsAre
    <2> QED
        BY <2>2, <2>3, <2>4 DEF MaskOf, TextRow
<1>7. ASSUME NEW name \in DOMAIN G
      PROVE  /\ name \notin DOMAIN F
             /\ G[name].coverage = MaskOf(x, name, c)
             /\ \A k \in DOMAIN events : G[name].rows[k] = TextRow(x, on, events[k], name, c)
    <2>1. on.bm25 /\ name \in Bm25Names /\ G[name] = Bm25Components(x, originals, captions)[name]
        BY <1>3 DEF G
    <2>2. name \notin {"visual_dense", "context_dense", "asr_dense"} /\ name \notin DenseNames(x)
        BY <2>1, NamesApart
    <2>3. /\ DOMAIN originals = DOMAIN events /\ DOMAIN captions = DOMAIN events
          /\ \A k \in DOMAIN events : /\ originals[k] = events[k].text
                                      /\ captions[k] = Bm25Text(events[k], on)
        OBVIOUS
    <2> HIDE DEF originals, captions
    <2>4. /\ G[name].coverage = Absent
          /\ \A k \in DOMAIN events : G[name].rows[k] =
                x.bm25[FieldOf(name)][IF FieldOf(name) = "caption" THEN captions[k] ELSE originals[k]]
        BY <2>1, <2>3, Bm25ComponentsAre
    <2>5. name \notin DOMAIN F
        BY <1>2, <2>2
    <2>6. G[name].coverage = MaskOf(x, name, c)
        BY <2>2, <2>4 DEF MaskOf
    <2>7. ASSUME NEW k \in DOMAIN events
          PROVE  G[name].rows[k] = TextRow(x, on, events[k], name, c)
        BY <2>2, <2>3, <2>4 DEF TextRow, Bm25Row
    <2> QED
        BY <2>5, <2>6, <2>7
<1>8. ASSUME NEW name \in TextNames(x, on)
      PROVE  /\ TextBundle(x, events, on, c)[name].coverage = MaskOf(x, name, c)
             /\ \A k \in DOMAIN events :
                   TextBundle(x, events, on, c)[name].rows[k] = TextRow(x, on, events[k], name, c)
    <2>1. name \in DOMAIN F \/ name \in DOMAIN G
        BY <1>2, <1>3 DEF TextNames
    <2>2. CASE name \in DOMAIN F
        <3>1. TextBundle(x, events, on, c)[name] = F[name]
            BY <1>1, <1>4, <2>2
        <3>2. /\ F[name].coverage = MaskOf(x, name, c)
              /\ \A k \in DOMAIN events : F[name].rows[k] = TextRow(x, on, events[k], name, c)
            BY <1>6, <2>2
        <3> QED
            BY <3>1, <3>2
    <2>3. CASE name \in DOMAIN G
        <3>1. TextBundle(x, events, on, c)[name] = G[name]
            BY <1>1, <1>7, <1>4, <2>3
        <3>2. /\ G[name].coverage = MaskOf(x, name, c)
              /\ \A k \in DOMAIN events : G[name].rows[k] = TextRow(x, on, events[k], name, c)
            BY <1>7, <2>3
        <3> QED
            BY <3>1, <3>2
    <2> QED
        BY <2>1, <2>2, <2>3
<1> QED
    BY <1>5, <1>8

Nothing(x) == [f \in Frames(x) |-> 0]
TextOrNothing(x, on, event, name, c) ==
    IF HasText(event) THEN TextRow(x, on, event, name, c) ELSE Nothing(x)

\* Scores of the distinct texts are handed out to the events that share them.
LEMMA ExpandedIs ==
    ASSUME NEW x, NEW text, NEW rows, NEW n
    PROVE  /\ DOMAIN Expanded(x, text, rows, n) = DOMAIN text
           /\ \A name \in DOMAIN text : Expanded(x, text, rows, n)[name] = ExpandRows(x, text[name], rows, n)
BY TableIsItself DEF Expanded

\* The rows of a component at their places among n events.
PutBack(expanded, x, component, rows, m, n) ==
    /\ expanded.coverage = component.coverage
    /\ \A k \in 1..m : rows[k] \in 1..n => expanded.rows[rows[k]] = component.rows[k]
    /\ \A i \in 1..n : (\A k \in 1..m : rows[k] # i) => expanded.rows[i] = Nothing(x)

\* So are the rows of a component.
LEMMA ExpandRowsIs ==
    ASSUME NEW x, NEW component, NEW m, NEW rows, DOMAIN rows = 1..m,
           \A k, l \in 1..m : rows[k] = rows[l] => k = l, NEW n
    PROVE  PutBack(ExpandRows(x, component, rows, n), x, component, rows, m, n)
<1>1. \A k \in 1..m : (CHOOSE l \in 1..m : rows[l] = rows[k]) = k
    OBVIOUS
<1> QED
    BY <1>1 DEF ExpandRows, Component, Nothing, PutBack

\* What a bundle says of the events of a plan.
Says(B, x, n, plan, on, image, c) ==
    /\ DOMAIN B = (IF Textual(plan) = {} THEN {} ELSE TextNames(x, on))
                  \cup (IF image = Absent THEN {} ELSE {"visual_image"})
    /\ Textual(plan) # {} => \A name \in TextNames(x, on) :
          /\ B[name].coverage = MaskOf(x, name, c)
          /\ \A i \in 1..n : B[name].rows[i] = TextOrNothing(x, on, plan[i], name, c)
    /\ image # Absent => B["visual_image"] = image

\* The whole bundle of a plan says of an event what its texts and images say.
LEMMA BundleIs ==
    ASSUME NEW x, NEW n \in Nat, NEW plan, DOMAIN plan = 1..n, Len(plan) = n,
           NEW flags, NEW image, NEW c
    PROVE  Says(Bundle(x, plan, flags, image, c), x, n, plan, Loaded(x, flags), image, c)
<1> DEFINE B == Bundle(x, plan, flags, image, c)
           on == Loaded(x, flags)
           rows == TextRows(plan)
           m == Cardinality(Textual(plan))
           events == [k \in DOMAIN rows |-> plan[rows[k]]]
           T == IF rows = <<>> THEN <<>> ELSE TextBundle(x, events, on, c)
           E == Expanded(x, T, rows, n)
           I == IF image = Absent THEN <<>> ELSE [visual_image |-> image]
<1>1. B = Joined(E, I)
    BY DEF Bundle
<1>2. /\ m \in Nat
      /\ rows \in [1..m -> Textual(plan)]
      /\ \A i \in Textual(plan) : \E k \in 1..m : rows[k] = i
      /\ \A k, l \in 1..m : rows[k] = rows[l] => k = l
      /\ rows = <<>> <=> Textual(plan) = {}
    BY TextRowsAre
<1> HIDE DEF on, rows, m
<1>3. DOMAIN T = IF Textual(plan) = {} THEN {} ELSE TextNames(x, on)
    BY <1>2, TextBundleIs, NothingJoined
<1>4. DOMAIN E = DOMAIN T /\ \A name \in DOMAIN T : E[name] = ExpandRows(x, T[name], rows, n)
    <2> HIDE DEF T
    <2> QED  BY ExpandedIs
<1>5. /\ DOMAIN I = IF image = Absent THEN {} ELSE {"visual_image"}
      /\ image # Absent => I["visual_image"] = image
    BY NothingJoined
<1> HIDE DEF B, E, I
<1>6. /\ DOMAIN B = DOMAIN E \cup DOMAIN I
      /\ \A name \in DOMAIN E : B[name] = E[name]
      /\ \A name \in DOMAIN I : name \notin DOMAIN E => B[name] = I[name]
    <2>1. /\ DOMAIN Joined(E, I) = DOMAIN E \cup DOMAIN I
          /\ \A name \in DOMAIN E : Joined(E, I)[name] = E[name]
          /\ \A name \in DOMAIN I : name \notin DOMAIN E => Joined(E, I)[name] = I[name]
        BY JoinedIs
    <2> QED
        BY <1>1, <2>1
<1>7. "visual_image" \notin TextNames(x, on)
    BY NamesApart DEF TextNames
<1>8. ASSUME Textual(plan) # {}, NEW name \in TextNames(x, on)
      PROVE  /\ B[name].coverage = MaskOf(x, name, c)
             /\ \A i \in 1..n : B[name].rows[i] = TextOrNothing(x, on, plan[i], name, c)
    <2> DEFINE component == TextBundle(x, events, on, c)[name]
    <2>1. T[name] = component /\ name \in DOMAIN T
        BY <1>2, <1>3, <1>8
    <2>2. B[name] = ExpandRows(x, component, rows, n)
        <3> HIDE DEF T, component
        <3> QED  BY <1>4, <1>6, <2>1
    <2>3. /\ component.coverage = MaskOf(x, name, c)
          /\ \A k \in DOMAIN events : component.rows[k] = TextRow(x, on, events[k], name, c)
        <3> HIDE DEF events
        <3> QED  BY <1>8, TextBundleIs
    <2>4. DOMAIN events = 1..m /\ \A k \in 1..m : events[k] = plan[rows[k]]
        BY <1>2
    <2> HIDE DEF component, events, T
    <2>5. /\ B[name].coverage = component.coverage
          /\ \A k \in 1..m : rows[k] \in 1..n => B[name].rows[rows[k]] = component.rows[k]
          /\ \A i \in 1..n : (\A k \in 1..m : rows[k] # i) => B[name].rows[i] = Nothing(x)
        <3>1. DOMAIN rows = 1..m /\ \A k, l \in 1..m : rows[k] = rows[l] => k = l
            BY <1>2
        <3>2. PutBack(ExpandRows(x, component, rows, n), x, component, rows, m, n)
            BY <3>1, ExpandRowsIs
        <3> QED
            BY <2>2, <3>2 DEF PutBack
    <2>6. ASSUME NEW i \in 1..n
          PROVE  B[name].rows[i] = TextOrNothing(x, on, plan[i], name, c)
        <3>1. CASE i \in Textual(plan)
            <4>1. PICK k \in 1..m : rows[k] = i
                BY <1>2, <3>1
            <4>2. B[name].rows[i] = component.rows[k]
                BY <2>5, <4>1
            <4>3. component.rows[k] = TextRow(x, on, plan[i], name, c)
                BY <2>3, <2>4, <4>1
            <4> QED
                BY <3>1, <4>2, <4>3 DEF Textual, TextOrNothing
        <3>2. CASE i \notin Textual(plan)
            <4>1. \A k \in 1..m : rows[k] # i
                BY <1>2, <3>2
            <4> QED
                BY <2>5, <3>2, <4>1 DEF Textual, TextOrNothing
        <3> QED
            BY <3>1, <3>2
    <2> QED
        BY <2>3, <2>5, <2>6
<1>9. image # Absent => B["visual_image"] = image
    <2> HIDE DEF T
    <2> QED  BY <1>3, <1>4, <1>5, <1>6, <1>7
<1>10. DOMAIN B = (IF Textual(plan) = {} THEN {} ELSE TextNames(x, on))
                  \cup (IF image = Absent THEN {} ELSE {"visual_image"})
    <2> HIDE DEF T
    <2> QED  BY <1>3, <1>4, <1>5, <1>6
<1> QED
    BY <1>8, <1>9, <1>10 DEF Says, B, on

-----------------------------------------------------------------------------
(* What a load says of the events of a query.                               *)

\* The plan of a query has an entry for every event.
LEMMA PlanIs ==
    ASSUME NEW q \in Kis
    PROVE  LET plan == PlanOf(RequestOf[q])
               n == Len(RequestOf[q].events)
           IN  /\ n \in Nat \ {0}
               /\ DOMAIN plan = 1..n
               /\ Len(plan) = n
               /\ \A i \in 1..n : plan[i] = PlanEvent(RequestOf[q].events[i], RequestOf[q].flags)
<1> DEFINE request == RequestOf[q]
           plan == PlanOf(request)
           n == Len(request.events)
<1>1. n \in Nat \ {0} /\ DOMAIN request.events = 1..n
    BY KisAssumption
<1>2. plan = [i \in 1..n |-> PlanEvent(request.events[i], request.flags)]
    BY <1>1 DEF PlanOf, BuildPlan
<1>3. Len(plan) = n
    <2> DEFINE S == {plan[i] : i \in 1..n}
    <2>1. plan \in [1..n -> S]
        BY <1>2
    <2> HIDE DEF S, plan, n
    <2>2. plan \in Seq(S)
        BY <1>1, <2>1, SeqDef
    <2> QED
        BY <1>1, <2>1, <2>2, LenProperties
<1> QED
    BY <1>1, <1>2, <1>3

\* A text event asks for texts of the query only.
LEMMA AskedTexts ==
    ASSUME NEW q \in Kis, NEW i \in DOMAIN RequestOf[q].events, NEW x
    PROVE  LET event == PlanOf(RequestOf[q])[i]
               on == Loaded(x, RequestOf[q].flags)
           IN  HasText(event) => {event.text, DenseText(event, on), Bm25Text(event, on)}
                                     \subseteq TextsOf(RequestOf[q])
<1> DEFINE request == RequestOf[q]
           e == request.events[i]
           asked == {e.text, e.translation, e.denseOverride, e.bm25Override} \ {Absent}
           event == PlanEvent(e, request.flags)
           on == Loaded(x, request.flags)
<1>1. asked \subseteq TextsOf(request)
    <2> DEFINE Asked(v) == {v.text, v.translation, v.denseOverride, v.bm25Override}
    <2>1. TextsOf(request) =
              (UNION {Asked(v) : v \in {request.events[k] : k \in DOMAIN request.events}}) \ {Absent}
        BY DEF TextsOf
    <2>2. e \in {request.events[k] : k \in DOMAIN request.events}
        OBVIOUS
    <2>3. asked = Asked(e) \ {Absent}
        OBVIOUS
    <2>4. Asked(e) \subseteq UNION {Asked(v) : v \in {request.events[k] : k \in DOMAIN request.events}}
        <3> DEFINE V == {request.events[k] : k \in DOMAIN request.events}
                   parts == {Asked(v) : v \in V}
        <3>1. Asked(e) \in parts
            <4> HIDE DEF Asked, V
            <4> QED  BY <2>2 DEF V
        <3> HIDE DEF parts, Asked
        <3>2. Asked(e) \subseteq UNION parts
            BY <3>1
        <3> QED
            BY <3>2 DEF parts
    <2> DEFINE all == UNION {Asked(v) : v \in {request.events[k] : k \in DOMAIN request.events}}
               mine == Asked(e)
    <2>5. mine \subseteq all
        BY <2>4
    <2>6. asked = mine \ {Absent}
        OBVIOUS
    <2>7. TextsOf(request) = all \ {Absent}
        <3> HIDE DEF Asked, mine, asked, event, on, e, request
        <3> QED  BY <2>1 DEF all
    <2> HIDE DEF all, mine, asked
    <2> QED
        BY <2>5, <2>6, <2>7
<1>2. PlanOf(request)[i] = event
    BY DEF PlanOf, BuildPlan
<1>3. event.text = e.text
    BY DEF PlanEvent
<1>4. on.dense => event.dense \in {e.denseOverride, e.translation, e.text}
                  /\ (e.text # Absent => event.dense # Absent)
    BY DEF PlanEvent, Loaded
<1>5. on.bm25 => event.bm25 \in {e.bm25Override, e.text}
                 /\ (e.text # Absent => event.bm25 # Absent)
    BY DEF PlanEvent, Loaded
<1> HIDE DEF event, on
<1>6. HasText(event) => {event.text, DenseText(event, on), Bm25Text(event, on)} \subseteq asked
    BY <1>3, <1>4, <1>5 DEF HasText, DenseText, Bm25Text
<1> QED
    BY <1>1, <1>2, <1>6 DEF on

\* A coverage mask is a set of frames.
LEMMA CoverageIn ==
    ASSUME NEW x, NEW interval
    PROVE  Coverage(x, interval) \subseteq Frames(x)
<1>1. \A s : Spoken(x, s, interval) \subseteq Frames(x)
    BY DEF Spoken, Projected, NearestOf, Near, Inside
<1> QED
    BY <1>1 DEF Coverage

\* What a load is made of.
LEMMA LoadIs ==
    ASSUME NEW b \in Builds
    PROVE  LET x == BuildOf[b].x
           IN  /\ IsFiniteSet(Frames(x)) /\ Frames(x) \in SUBSET Int
               /\ x.segments # Absent => IsFiniteSet(x.segments)
               /\ Unit \in Nat \ {0}
               /\ Validated(BuildOf[b].c)
<1>1. LET x == BuildOf[b].x
      IN  /\ IsFiniteSet(Frames(x)) /\ Frames(x) \subseteq Int
          /\ x.segments # Absent => IsFiniteSet(x.segments)
    BY LoadsAssumption
<1>2. Unit \in Nat \ {0} /\ Validated(BuildOf[b].c)
    BY FusionAssumption DEF Validated
<1> QED
    BY <1>1, <1>2

\* What is said at the frames is a number each.
LEMMA SpeechIsRow ==
    ASSUME NEW x, IsFiniteSet(x.segments), NEW text, \A s \in x.segments : s.sim[text] \in Int,
           NEW interval
    PROVE  IsRow(SpeechRow(x, text, interval), Frames(x))
<1>1. ASSUME NEW T \in SUBSET x.segments PROVE BestSaid(text, T) \in Int
    <2>1. CASE T = {}
        BY <2>1 DEF BestSaid
    <2>2. CASE T # {}
        <3> DEFINE sim == [s \in T |-> s.sim[text]]
        <3>1. IsFiniteSet({sim[s] : s \in T})
            <4>1. IsFiniteSet(T) /\ sim = [s \in T |-> sim[s]]
                BY FS_Subset
            <4> HIDE DEF sim
            <4> QED
                BY <4>1, FiniteValues
        <3>2. {sim[s] : s \in T} = {s.sim[text] : s \in T}
            OBVIOUS
        <3>3. {s.sim[text] : s \in T} \in SUBSET Int /\ {s.sim[text] : s \in T} # {}
            BY <2>2
        <3>4. Max({s.sim[text] : s \in T}) \in Int
            BY <3>1, <3>2, <3>3, FiniteExtremes
        <3> QED
            BY <2>2, <3>4 DEF BestSaid
    <2> QED
        BY <2>1, <2>2
<1> QED
    BY <1>1 DEF SpeechRow, IsRow

\* The name of a lexical expert has one field.
LEMMA FieldOfName ==
    ASSUME NEW name \in Bm25Names
    PROVE  FieldOf(name) \in Fields
BY DEF FieldOf, Bm25Names

\* Every expert scores every frame for the text of an event.
LEMMA TextRowIsRow ==
    ASSUME NEW b \in Builds, NEW q \in Kis, NEW i \in DOMAIN RequestOf[q].events,
           NEW name \in TextNames(BuildOf[b].x, Loaded(BuildOf[b].x, RequestOf[q].flags)), NEW c
    PROVE  LET x == BuildOf[b].x
               on == Loaded(x, RequestOf[q].flags)
           IN  IsRow(TextOrNothing(x, on, PlanOf(RequestOf[q])[i], name, c), Frames(x))
<1> DEFINE x == BuildOf[b].x
           request == RequestOf[q]
           on == Loaded(x, request.flags)
           event == PlanOf(request)[i]
           rows == [Frames(x) -> Int]
<1>1. CASE ~HasText(event)
    BY <1>1 DEF TextOrNothing, Nothing, IsRow
<1>2. CASE HasText(event)
    <2>1. \A text \in {event.text, DenseText(event, on), Bm25Text(event, on)} :
             /\ x.visual[text] \in rows
             /\ x.context # Absent => x.context[text] \in rows
             /\ x.segments # Absent => \A s \in x.segments : s.sim[text] \in Int
             /\ x.bm25 # Absent => \A field \in Fields : x.bm25[field][text] \in rows
        <3>1. {event.text, DenseText(event, on), Bm25Text(event, on)} \subseteq TextsOf(request)
            BY <1>2, AskedTexts
        <3> HIDE DEF event, on
        <3> QED
            BY <3>1, ScoresAssumption
    <2>2. on.bm25 => x.bm25 # Absent
        BY DEF Loaded
    <2>3. x.segments # Absent => IsFiniteSet(x.segments)
        BY LoadIs
    <2> HIDE DEF event, on, x, rows
    <2>4. name \in TextNames(x, on)
        BY DEF x, on
    <2> SUFFICES IsRow(TextRow(x, on, event, name, c), Frames(x))
        BY <1>2 DEF TextOrNothing, event, on, x
    <2>5. CASE name = "visual_dense"
        BY <2>1, <2>5 DEF TextRow, IsRow, rows
    <2>6. CASE name = "context_dense"
        <3>1. x.context # Absent
            BY <2>4, <2>6, NamesApart DEF TextNames, DenseNames
        <3> QED
            BY <2>1, <2>6, <3>1 DEF TextRow, IsRow, rows
    <2>7. CASE name = "asr_dense"
        <3>1. x.segments # Absent
            BY <2>4, <2>7, NamesApart DEF TextNames, DenseNames
        <3>2. IsRow(SpeechRow(x, DenseText(event, on), c.interval), Frames(x))
            BY <2>1, <2>3, <3>1, SpeechIsRow
        <3> QED
            BY <2>7, <3>2 DEF TextRow
    <2>8. CASE name \notin {"visual_dense", "context_dense", "asr_dense"}
        <3>1. name \in Bm25Names /\ on.bm25
            BY <2>4, <2>8, NamesApart DEF TextNames
        <3>2. FieldOf(name) \in Fields
            BY <3>1, FieldOfName
        <3>3. TextRow(x, on, event, name, c) = Bm25Row(x, event, on, FieldOf(name))
            BY <2>8 DEF TextRow
        <3>4. Bm25Row(x, event, on, FieldOf(name)) \in rows
            BY <2>1, <2>2, <3>1, <3>2 DEF Bm25Row
        <3> QED
            BY <3>3, <3>4 DEF IsRow, rows
    <2> QED
        BY <2>5, <2>6, <2>7, <2>8
<1> QED
    BY <1>1, <1>2

-----------------------------------------------------------------------------
(* Query images, and what the bundle of a query says of its events.         *)

ImageRow(x, images) ==
    [f \in Frames(x) |-> IF images = {} THEN 0 ELSE Max({x.visual[image][f] : image \in images})]

\* The image component of a plan.
LEMMA ImageIs ==
    ASSUME NEW build, NEW plan
    PROVE  LET image == ImageComponent(build.x, ImageRows(plan))
           IN  /\ PlanImage(build, plan) # Absent =>
                      /\ build.imageScorer
                      /\ \E i \in DOMAIN plan : HasImages(plan[i])
                      /\ PlanImage(build, plan) = image
               /\ build.imageScorer /\ (\E i \in DOMAIN plan : HasImages(plan[i])) =>
                      PlanImage(build, plan) = image
               /\ image.coverage = Absent
               /\ image.rows = [i \in DOMAIN plan |-> ImageRow(build.x, plan[i].images)]
<1>1. ImageComponent(build.x, ImageRows(plan)).rows = [i \in DOMAIN plan |-> ImageRow(build.x, plan[i].images)]
    BY DEF ImageComponent, ImageRows, Component, ImageRow
<1>2. ImageComponent(build.x, ImageRows(plan)).coverage = Absent
    BY DEF ImageComponent, Component
<1> QED
    BY <1>1, <1>2 DEF PlanImage

\* The events of a query, as the plan has them.
EventsIn(q) == {PlanOf(RequestOf[q])[i] : i \in DOMAIN RequestOf[q].events}

\* The images of an event score every frame.
LEMMA ImageRowIsRow ==
    ASSUME NEW b \in Builds, NEW q \in Kis, NEW event \in EventsIn(q)
    PROVE  IsRow(ImageRow(BuildOf[b].x, event.images), Frames(BuildOf[b].x))
<1> DEFINE x == BuildOf[b].x
           request == RequestOf[q]
           images == event.images
<1>1. PICK i \in DOMAIN request.events : event = PlanOf(request)[i]
    BY DEF EventsIn
<1>2. images = request.events[i].images
    BY <1>1 DEF PlanOf, BuildPlan, PlanEvent
<1>3. IsFiniteSet(images)
    BY <1>2, KisAssumption
<1>4. images \subseteq ImagesOf(request)
    BY <1>2 DEF ImagesOf
<1>5. \A image \in images : x.visual[image] \in [Frames(x) -> Int]
    BY <1>4, ScoresAssumption
<1> HIDE DEF images, x
<1>6. ASSUME NEW f \in Frames(x), images # {}
      PROVE  Max({x.visual[image][f] : image \in images}) \in Int
    <2> DEFINE v == [image \in images |-> x.visual[image][f]]
    <2>1. v \in [images -> Int]
        BY <1>5, <1>6
    <2>2. {v[image] : image \in images} = {x.visual[image][f] : image \in images}
        OBVIOUS
    <2>3. v = [image \in images |-> v[image]]
        OBVIOUS
    <2> HIDE DEF v
    <2>4. IsFiniteSet({v[image] : image \in images})
        BY <1>3, <2>3, FiniteValues
    <2>5. {v[image] : image \in images} \in SUBSET Int /\ {v[image] : image \in images} # {}
        BY <1>6, <2>1
    <2>6. Max({v[image] : image \in images}) \in Int
        BY <2>4, <2>5, FiniteExtremes
    <2> QED
        BY <2>2, <2>6
<1>7. IsRow(ImageRow(x, images), Frames(x))
    BY <1>6 DEF ImageRow, IsRow
<1> QED
    BY <1>7 DEF x, images

\* A plan over events of a query, as long as the query or of a single event.
PartOfPlan(plan, q, n) ==
    /\ n \in {1, Len(RequestOf[q].events)}
    /\ DOMAIN plan = 1..n /\ Len(plan) = n
    /\ \A i \in 1..n : plan[i] \in EventsIn(q)

\* An event of which images are asked alone shows the same images.
LEMMA ImageShown ==
    ASSUME NEW b \in Builds, NEW q \in Kis, NEW plan, NEW n, PartOfPlan(plan, q, n),
           BuildOf[b].imageScorer, \E i \in DOMAIN plan : HasImages(plan[i])
    PROVE  PlanImage(BuildOf[b], plan) # Absent
<1> DEFINE build == BuildOf[b]
           x == build.x
           image == ImageComponent(x, ImageRows(plan))
           rows == [i \in DOMAIN plan |-> ImageRow(x, plan[i].images)]
<1>1. PlanImage(build, plan) = image /\ image.coverage = Absent /\ image.rows = rows
    BY ImageIs
<1>2. image = [rows |-> image.rows, coverage |-> image.coverage]
    BY DEF ImageComponent, Component
<1>3. rows \in [1..n -> [Frames(x) -> Int]]
    <2>1. DOMAIN plan = 1..n
        BY DEF PartOfPlan
    <2>2. \A i \in 1..n : ImageRow(x, plan[i].images) \in [Frames(x) -> Int]
        BY ImageRowIsRow DEF PartOfPlan, IsRow
    <2> QED
        BY <2>1, <2>2
<1> HIDE DEF image, rows, x
<1>4. image \in [rows : [1..n -> [Frames(x) -> Int]], coverage : {Absent}]
    BY <1>1, <1>2, <1>3
<1>5. Absent \notin [rows : [1..n -> [Frames(x) -> Int]], coverage : {Absent}]
    BY AbsentAssumption DEF PartOfPlan, x
<1> QED
    BY <1>1, <1>4, <1>5

\* The bundle that score_plan fuses for a plan.
BundleOf(build, plan, flags) == Bundle(build.x, plan, flags, PlanImage(build, plan), build.c)

\* The bundle of a query says what its plan says, in numbers.
LEMMA BundleIsOK ==
    ASSUME NEW b \in Builds, NEW q \in Kis, NEW plan, NEW n \in Nat, PartOfPlan(plan, q, n),
           NEW i \in 1..n
    PROVE  BundleOK(BundleOf(BuildOf[b], plan, RequestOf[q].flags), i, Frames(BuildOf[b].x))
<1> DEFINE build == BuildOf[b]
           x == build.x
           c == build.c
           flags == RequestOf[q].flags
           on == Loaded(x, flags)
           image == PlanImage(build, plan)
           B == Bundle(x, plan, flags, image, c)
           D == Frames(x)
<1>1. /\ DOMAIN B = (IF Textual(plan) = {} THEN {} ELSE TextNames(x, on))
                    \cup (IF image = Absent THEN {} ELSE {"visual_image"})
      /\ Textual(plan) # {} => \A name \in TextNames(x, on) :
            /\ B[name].coverage = MaskOf(x, name, c)
            /\ B[name].rows[i] = TextOrNothing(x, on, plan[i], name, c)
      /\ image # Absent => B["visual_image"] = image
    <2>1. DOMAIN plan = 1..n /\ Len(plan) = n
        BY DEF PartOfPlan
    <2> HIDE DEF image, c, x, flags
    <2>2. Says(Bundle(x, plan, flags, image, c), x, n, plan, Loaded(x, flags), image, c)
        BY <2>1, BundleIs
    <2> QED
        BY <2>2 DEF Says
<1>2. TextNames(x, on) \subseteq Experts
    BY NamesApart DEF TextNames, Experts
<1>3. ASSUME NEW name \in TextNames(x, on) PROVE IsRow(TextOrNothing(x, on, plan[i], name, c), D)
    <2>1. PICK k \in DOMAIN RequestOf[q].events : plan[i] = PlanOf(RequestOf[q])[k]
        BY DEF PartOfPlan, EventsIn
    <2> QED
        BY <2>1, TextRowIsRow
<1>4. \A name : MaskOf(x, name, c) = Absent \/ MaskOf(x, name, c) \in SUBSET D
    BY CoverageIn DEF MaskOf
<1>5. image # Absent => image.coverage = Absent /\ IsRow(image.rows[i], D)
    <2> SUFFICES ASSUME image # Absent PROVE image.coverage = Absent /\ IsRow(image.rows[i], D)
        OBVIOUS
    <2>1. image.coverage = Absent /\ image.rows = [k \in DOMAIN plan |-> ImageRow(x, plan[k].images)]
        BY ImageIs
    <2>2. i \in DOMAIN plan /\ plan[i] \in EventsIn(q)
        BY DEF PartOfPlan
    <2>3. IsRow(ImageRow(x, plan[i].images), D)
        BY <2>2, ImageRowIsRow
    <2> HIDE DEF image
    <2> QED
        BY <2>1, <2>2, <2>3
<1> HIDE DEF image, B, on, x, c, D
<1>6. "visual_image" \in Experts
    BY DEF Experts
<1>7. ASSUME NEW name \in DOMAIN B
      PROVE  /\ name \in Experts
             /\ IsRow(B[name].rows[i], D)
             /\ B[name].coverage = Absent \/ B[name].coverage \in SUBSET D
    BY <1>1, <1>2, <1>3, <1>4, <1>5, <1>6
<1>8. BundleOK(B, i, D)
    BY <1>7 DEF BundleOK
<1> QED
    BY <1>8 DEF BundleOf, B, D, image, x, c

-----------------------------------------------------------------------------
(* Scores of a query: every event by itself, and without transcripts.       *)

\* An expert is not asked for a text or an image that the event does not have.
LEMMA Unasked ==
    ASSUME NEW name, NEW component, NEW event, NEW reliability \in Int, NEW f, NEW c, Unit \in Int,
           IF name = "visual_image" THEN ~HasImages(event) ELSE ~HasText(event)
    PROVE  WeightAt(name, component, event, reliability, f, c) = 0
<1>1. Route(name, event, c) = 0
    BY DEF Route
<1>2. (IF c.gating THEN reliability ELSE Unit) \in Int
    OBVIOUS
<1>3. Route(name, event, c) * (IF c.gating THEN reliability ELSE Unit) = 0
    BY <1>1, <1>2
<1> QED
    BY <1>3 DEF WeightAt

FusionOf(matrix, bundle, n, plan, c) ==
    /\ matrix = [i \in 1..n |-> FuseRow(bundle, plan[i], i, c)]
    /\ DOMAIN bundle # {}

\* A matrix that can be scored is the fusion of its bundle, which is not empty.
LEMMA ScoredIs ==
    ASSUME NEW build, NEW n \in Nat, NEW plan, DOMAIN plan = 1..n, Len(plan) = n, NEW flags,
           PlanMatrix(build, plan, flags) # Absent
    PROVE  FusionOf(PlanMatrix(build, plan, flags), BundleOf(build, plan, flags), n, plan, build.c)
<1> DEFINE x == build.x
           c == build.c
           on == Loaded(x, flags)
           image == PlanImage(build, plan)
           B == Bundle(x, plan, flags, image, c)
<1>1. PlanMatrix(build, plan, flags) = ScorePlan(x, plan, flags, image, c)
    BY DEF PlanMatrix
<1>2. PlanMatrix(build, plan, flags) = Fuse(B, plan, c)
    BY <1>1 DEF ScorePlan
<1>3. (TextRows(plan) # <<>> /\ (on.dense \/ on.bm25)) \/ image # Absent
    BY <1>1 DEF ScorePlan
<1>4. TextRows(plan) = <<>> <=> Textual(plan) = {}
    BY TextRowsAre
<1>5. on.dense \/ on.bm25 => TextNames(x, on) # {}
    BY NamesApart, Bm25NamesAre DEF TextNames
<1> HIDE DEF image, c, x
<1>6. Says(B, x, n, plan, on, image, c)
    BY BundleIs
<1> HIDE DEF B, on
<1>7. DOMAIN B # {}
    BY <1>3, <1>4, <1>5, <1>6 DEF Says
<1>8. Fuse(B, plan, c) = [i \in 1..n |-> FuseRow(B, plan[i], i, c)]
    BY TableIsItself DEF Fuse
<1> QED
    BY <1>2, <1>7, <1>8 DEF FusionOf, B, BundleOf, image, c, x

\* The plan of one event.
LEMMA PlanOfOne ==
    ASSUME NEW v
    PROVE  /\ DOMAIN <<v>> = 1..1 /\ Len(<<v>>) = 1 /\ <<v>>[1] = v
           /\ Textual(<<v>>) = {} <=> ~HasText(v)
BY DEF Textual

\* An event scores alone what it scores among the other events of its query.
LEMMA ScoredAlone ==
    ASSUME NEW b \in Builds, NEW q \in Kis, NEW e \in DOMAIN RequestOf[q].events
    PROVE  LET build == BuildOf[b]
               flags == RequestOf[q].flags
               plan == PlanOf(RequestOf[q])
               together == PlanMatrix(build, plan, flags)
               alone == PlanMatrix(build, <<plan[e]>>, flags)
           IN  together # Absent /\ alone # Absent => together[e] = alone[1]
<1> DEFINE build == BuildOf[b]
           x == build.x
           c == build.c
           D == Frames(x)
           flags == RequestOf[q].flags
           on == Loaded(x, flags)
           n == Len(RequestOf[q].events)
           plan == PlanOf(RequestOf[q])
           v == plan[e]
           one == <<v>>
           image == PlanImage(build, plan)
           sole == PlanImage(build, one)
           B == BundleOf(build, plan, flags)
           A == BundleOf(build, one, flags)
           together == PlanMatrix(build, plan, flags)
           alone == PlanMatrix(build, one, flags)
<1> SUFFICES ASSUME together # Absent, alone # Absent PROVE together[e] = alone[1]
    OBVIOUS
<1>1. /\ n \in Nat \ {0} /\ DOMAIN plan = 1..n /\ Len(plan) = n
      /\ DOMAIN RequestOf[q].events = 1..n
    BY PlanIs, KisAssumption
<1>2. e \in 1..n /\ v \in EventsIn(q)
    BY <1>1 DEF EventsIn
<1>3. /\ DOMAIN one = 1..1 /\ Len(one) = 1 /\ one[1] = v
      /\ Textual(one) = {} <=> ~HasText(v)
    <2> HIDE DEF v
    <2> QED  BY PlanOfOne
<1>4. PartOfPlan(plan, q, n) /\ PartOfPlan(one, q, 1)
    <2>1. PartOfPlan(plan, q, n)
        BY <1>1 DEF PartOfPlan, EventsIn
    <2> HIDE DEF one, v
    <2>2. PartOfPlan(one, q, 1)
        <3>1. \A i \in 1..1 : i = 1
            OBVIOUS
        <3> QED
            BY <1>2, <1>3, <3>1 DEF PartOfPlan
    <2> QED
        BY <2>1, <2>2
<1>5. e \in Textual(plan) <=> HasText(v)
    BY <1>1, <1>2 DEF Textual
<1>6. /\ D \in SUBSET Int /\ IsFiniteSet(D)
      /\ Unit \in Nat \ {0} /\ Validated(c)
    BY LoadIs
<1> HIDE DEF n, plan, v, one, flags
<1>7. Says(Bundle(x, plan, flags, image, c), x, n, plan, on, image, c)
    <2> HIDE DEF x, image, c
    <2> QED  BY <1>1, BundleIs
<1>8. Says(Bundle(x, one, flags, sole, c), x, 1, one, on, sole, c)
    <2> HIDE DEF x, sole, c
    <2> QED  BY <1>3, BundleIs
<1>9. Says(B, x, n, plan, on, image, c) /\ Says(A, x, 1, one, on, sole, c)
    BY <1>7, <1>8 DEF BundleOf
<1>10. BundleOK(B, e, D)
    <2> HIDE DEF B
    <2> QED  BY <1>1, <1>2, <1>4, BundleIsOK DEF B, flags
<1>11. together[e] = FuseRow(B, v, e, c) /\ DOMAIN B # {}
    <2>1. FusionOf(together, B, n, plan, c)
        BY <1>1, ScoredIs
    <2> HIDE DEF B, together, c
    <2> QED
        BY <1>2, <2>1 DEF FusionOf, v
<1>12. alone[1] = FuseRow(A, v, 1, c) /\ DOMAIN A # {}
    <2>1. FusionOf(alone, A, 1, one, c)
        BY <1>3, ScoredIs
    <2> HIDE DEF A, alone, c
    <2> QED
        BY <1>3, <2>1 DEF FusionOf
<1>13. /\ sole # Absent => build.imageScorer /\ HasImages(v)
       /\ build.imageScorer /\ HasImages(v) => image # Absent /\ sole # Absent
       /\ image # Absent => build.imageScorer
    <2>1. sole # Absent => build.imageScorer /\ \E i \in DOMAIN one : HasImages(one[i])
        BY ImageIs
    <2>2. (\E i \in DOMAIN one : HasImages(one[i])) <=> HasImages(v)
        BY <1>3
    <2>3. HasImages(v) => \E i \in DOMAIN plan : HasImages(plan[i])
        BY <1>1, <1>2 DEF v
    <2>4. build.imageScorer /\ (\E i \in DOMAIN plan : HasImages(plan[i])) => image # Absent
        BY <1>4, ImageShown
    <2>5. build.imageScorer /\ (\E i \in DOMAIN one : HasImages(one[i])) => sole # Absent
        BY <1>4, ImageShown
    <2>6. image # Absent => build.imageScorer
        BY ImageIs
    <2> HIDE DEF image, sole, build
    <2> QED
        BY <2>1, <2>2, <2>3, <2>4, <2>5, <2>6
<1>14. sole # Absent => image.rows[e] = sole.rows[1] /\ image.coverage = sole.coverage
    <2> SUFFICES ASSUME sole # Absent
                 PROVE  image.rows[e] = sole.rows[1] /\ image.coverage = sole.coverage
        OBVIOUS
    <2>1. /\ image.coverage = Absent
          /\ image.rows = [i \in DOMAIN plan |-> ImageRow(x, plan[i].images)]
        <3>1. image # Absent
            BY <1>13
        <3> QED
            BY <3>1, ImageIs
    <2>2. /\ sole.coverage = Absent
          /\ sole.rows = [i \in DOMAIN one |-> ImageRow(x, one[i].images)]
        BY ImageIs
    <2> HIDE DEF image, sole, x
    <2> QED
        BY <1>1, <1>2, <1>3, <2>1, <2>2 DEF v
<1>15. "visual_image" \notin TextNames(x, on)
    BY NamesApart DEF TextNames
<1> HIDE DEF A, B, image, sole, on, x, c, D, together, alone, build
<1>16. /\ DOMAIN A = (IF HasText(v) THEN TextNames(x, on) ELSE {})
                     \cup (IF sole # Absent THEN {"visual_image"} ELSE {})
       /\ HasText(v) => \A name \in TextNames(x, on) :
             /\ A[name].coverage = MaskOf(x, name, c)
             /\ A[name].rows[1] = TextOrNothing(x, on, v, name, c)
       /\ sole # Absent => A["visual_image"] = sole
    BY <1>3, <1>9 DEF Says
<1>17. /\ DOMAIN B \subseteq TextNames(x, on) \cup {"visual_image"}
       /\ HasText(v) => TextNames(x, on) \subseteq DOMAIN B
       /\ "visual_image" \in DOMAIN B <=> image # Absent
       /\ HasText(v) => \A name \in TextNames(x, on) :
             /\ B[name].coverage = MaskOf(x, name, c)
             /\ B[name].rows[e] = TextOrNothing(x, on, v, name, c)
       /\ image # Absent => B["visual_image"] = image
    BY <1>2, <1>5, <1>9, <1>15 DEF Says, v
<1>18. Within(A, 1, B, e)
    <2>1. DOMAIN A \subseteq DOMAIN B
        BY <1>13, <1>16, <1>17
    <2>2. ASSUME NEW name \in DOMAIN A
          PROVE  A[name].rows[1] = B[name].rows[e] /\ A[name].coverage = B[name].coverage
        <3>1. CASE name \in TextNames(x, on)
            BY <1>15, <1>16, <1>17, <2>2, <3>1
        <3>2. CASE name \notin TextNames(x, on)
            <4>1. name = "visual_image" /\ sole # Absent
                BY <1>16, <2>2, <3>2
            <4> QED
                BY <1>13, <1>14, <1>16, <1>17, <4>1
        <3> QED
            BY <3>1, <3>2
    <2> QED
        BY <2>1, <2>2 DEF Within
<1>19. Covers(A, B, v)
    <2>1. "visual_dense" # "visual_image"
        OBVIOUS
    <2> QED
        BY <1>13, <1>16, <1>17, <2>1 DEF Covers
<1>20. ASSUME NEW name \in DOMAIN B \ DOMAIN A
       PROVE  IF name = "visual_image" THEN ~HasImages(v) ELSE ~HasText(v)
    BY <1>13, <1>16, <1>17
<1>21. ASSUME NEW f \in D, NEW name \in DOMAIN B \ DOMAIN A
       PROVE  WeightsOf(B, v, e, f, c)[name] = 0
    <2>1. CalOf(B, e, c)[name].reliability \in Int
        BY <1>6, <1>10, CalOfIs DEF InNumbers
    <2> QED
        BY <1>6, <1>20, <2>1, Unasked DEF WeightsOf
<1>22. /\ FuseRow(B, v, e, c) = [f \in D |-> FuseRow(B, v, e, c)[f]]
       /\ FuseRow(A, v, 1, c) = [f \in D |-> FuseRow(A, v, 1, c)[f]]
       /\ \A f \in D :
             (\A name \in DOMAIN B \ DOMAIN A : WeightsOf(B, v, e, f, c)[name] = 0)
             => FuseRow(B, v, e, c)[f] = FuseRow(A, v, 1, c)[f]
    BY <1>6, <1>10, <1>12, <1>18, <1>19, FusedAlike
<1>23. \A f \in D : FuseRow(B, v, e, c)[f] = FuseRow(A, v, 1, c)[f]
    BY <1>21, <1>22
<1>24. FuseRow(B, v, e, c) = FuseRow(A, v, 1, c)
    BY <1>22, <1>23
<1> QED
    BY <1>11, <1>12, <1>24

\* The table of separate answers, by its entries.
LEMMA AloneTableEntries ==
    ASSUME NEW b \in Builds, NEW q \in Kis
    PROVE  AloneTable[b][q] = AskedAlone(BuildOf[b], RequestOf[q])
<1> DEFINE Answers(c) == [k \in Kis |-> AskedAlone(BuildOf[c], RequestOf[k])]
<1>1. AloneTable = [c \in Builds |-> Answers(c)]
    <2>1. \A c : Table(Answers(c)) = Answers(c)
        BY TableIsItself
    <2>2. AloneTable = Table([c \in Builds |-> Table(Answers(c))])
        BY DEF AloneTable
    <2>3. [c \in Builds |-> Table(Answers(c))] = [c \in Builds |-> Answers(c)]
        <3> HIDE DEF Answers
        <3> QED  BY <2>1
    <2> HIDE DEF Answers
    <2> QED  BY <2>2, <2>3, TableIsItself
<1>2. AloneTable[b] = Answers(b)
    <2> HIDE DEF Answers
    <2> QED  BY <1>1
<1>3. Answers(b)[q] = AskedAlone(BuildOf[b], RequestOf[q])
    OBVIOUS
<1> QED
    BY <1>2, <1>3

\* The table of answers without transcripts, by its entries.
LEMMA SilentTableEntries ==
    ASSUME NEW b \in Builds, NEW q \in Kis
    PROVE  SilentTable[b][q] = SilentAlike(BuildOf[b], RequestOf[q])
<1> DEFINE Answers(c) == [k \in Kis |-> SilentAlike(BuildOf[c], RequestOf[k])]
<1>1. SilentTable = [c \in Builds |-> Answers(c)]
    <2>1. \A c : Table(Answers(c)) = Answers(c)
        BY TableIsItself
    <2>2. SilentTable = Table([c \in Builds |-> Table(Answers(c))])
        BY DEF SilentTable
    <2>3. [c \in Builds |-> Table(Answers(c))] = [c \in Builds |-> Answers(c)]
        <3> HIDE DEF Answers
        <3> QED  BY <2>1
    <2> HIDE DEF Answers
    <2> QED  BY <2>2, <2>3, TableIsItself
<1>2. SilentTable[b] = Answers(b)
    <2> HIDE DEF Answers
    <2> QED  BY <1>1
<1>3. Answers(b)[q] = SilentAlike(BuildOf[b], RequestOf[q])
    OBVIOUS
<1> QED
    BY <1>2, <1>3

\* A good answer comes from a matrix.
LEMMA GoodAnswerHasMatrix ==
    ASSUME NEW build, NEW q, PlanAnswer(build, q).status = 200
    PROVE  PlanMatrix(build, PlanOf(q), q.flags) # Absent
<1> DEFINE matrix == PlanMatrix(build, PlanOf(q), q.flags)
<1>1. PlanAnswer(build, q) = PlanScored(build, matrix, q.top)
    BY DEF PlanAnswer
<1> HIDE DEF matrix
<1>2. matrix = Absent => PlanAnswer(build, q).status = 400
    BY <1>1 DEF PlanScored, Failed
<1> QED
    BY <1>2 DEF matrix

\* What a caller is told was computed by a load, for a query of its own.
LEMMA ToldByLoad ==
    ASSUME SearchInv, NEW t \in Threads, KisReplied(t)
    PROVE  LET b == BuildAndQuery(t)[1]
               q == BuildAndQuery(t)[2]
           IN  /\ b \in Builds /\ q \in Kis
               /\ PlanAnswer(BuildOf[b], RequestOf[q]).status = 200
<1> DEFINE c == thread[t]
<1>1. c.phase = "replied" /\ c.call \in Requests /\ c.reply.status = 200 /\ ReplyOK(c)
    BY DEF SearchInv, ConversationsOK, ConversationOK, KisReplied
<1>2. c.call \in Kis
    BY <1>1 DEF Kis, KisReplied
<1>3. PICK r \in DOMAIN loads : c.call \in Told200(r) /\ c.reply.body = Told(r, c.call)
    BY <1>1, <1>2 DEF ReplyOK
<1>4. c.reply.body.revision = r /\ Computed(r, c.call).status = 200
    BY <1>3 DEF Told, Told200
<1>5. loads[r] \in Builds
    BY ElementOfSeq, LenProperties DEF SearchInv, SharedOK
<1>6. BuildAndQuery(t)[1] = loads[r] /\ BuildAndQuery(t)[2] = c.call
    BY <1>4 DEF BuildAndQuery
<1>7. PlanAnswer(BuildOf[loads[r]], RequestOf[c.call]).status = 200
    BY <1>2, <1>4, <1>5, PlanTableEntries DEF Computed
<1> QED
    BY <1>2, <1>5, <1>6, <1>7

\* Every event of a query is scored as if it were the only one.
LEMMA AskedAloneHolds ==
    ASSUME NEW b \in Builds, NEW q \in Kis,
           PlanMatrix(BuildOf[b], PlanOf(RequestOf[q]), RequestOf[q].flags) # Absent
    PROVE  AskedAlone(BuildOf[b], RequestOf[q])
<1> DEFINE build == BuildOf[b]
           plan == PlanOf(RequestOf[q])
           flags == RequestOf[q].flags
           together == PlanMatrix(build, plan, flags)
           One(e) == PlanMatrix(build, <<plan[e]>>, flags)
           alone == [e \in DOMAIN plan |-> One(e)]
<1>1. DOMAIN plan = DOMAIN RequestOf[q].events
    BY PlanIs, KisAssumption
<1>2. \A e \in DOMAIN plan : One(e) # Absent => together[e] = One(e)[1]
    BY <1>1, ScoredAlone
<1> HIDE DEF One, together, plan
<1>3. RowsAlone(together, alone)
    BY <1>2 DEF RowsAlone
<1> QED
    BY <1>3 DEF AskedAlone, alone, One, together, plan

\* The other events of a query, their order and what they have do not touch the
\* scores of an event, whatever the artifacts and the settings (score_plan,
\* expand_component_rows).
THEOREM EventsStayIndependent == SearchSpec => []EventsIndependent
<1>1. SearchInv => EventsIndependent
    <2> SUFFICES ASSUME SearchInv, NEW t \in Threads, KisReplied(t)
                 PROVE  AloneTable[BuildAndQuery(t)[1]][BuildAndQuery(t)[2]]
        BY DEF EventsIndependent
    <2> DEFINE b == BuildAndQuery(t)[1]
               q == BuildAndQuery(t)[2]
    <2>1. b \in Builds /\ q \in Kis /\ PlanAnswer(BuildOf[b], RequestOf[q]).status = 200
        BY ToldByLoad
    <2> HIDE DEF b, q
    <2>2. PlanMatrix(BuildOf[b], PlanOf(RequestOf[q]), RequestOf[q].flags) # Absent
        BY <2>1, GoodAnswerHasMatrix
    <2>3. AskedAlone(BuildOf[b], RequestOf[q])
        BY <2>1, <2>2, AskedAloneHolds
    <2>4. AloneTable[b][q]
        BY <2>1, <2>3, AloneTableEntries
    <2> QED
        BY <2>4 DEF b, q
<1> QED
    BY <1>1, SearchInvHolds, PTL

\* A load without its transcripts.
Silenced(build) == [build EXCEPT !.x.segments = Absent]

\* A load without its transcripts is the same load otherwise.
LEMMA SilencedIs ==
    ASSUME NEW b \in Builds
    PROVE  LET build == BuildOf[b]
               deaf == Silenced(build)
           IN  /\ deaf.c = build.c /\ deaf.imageScorer = build.imageScorer
               /\ deaf.x.segments = Absent
               /\ deaf.x.video = build.x.video /\ deaf.x.dense = build.x.dense
               /\ deaf.x.visual = build.x.visual /\ deaf.x.context = build.x.context
               /\ deaf.x.bm25 = build.x.bm25
<1> DEFINE build == BuildOf[b]
           x == build.x
<1>1. build = [x |-> x, corpus |-> build.corpus, c |-> build.c, d |-> build.d,
               r |-> build.r, imageScorer |-> build.imageScorer,
               imageSearch |-> build.imageSearch, imageLimit |-> build.imageLimit]
    BY LoadsAssumption
<1>2. x = [video |-> x.video, idx |-> x.idx, time |-> x.time, dense |-> x.dense,
           visual |-> x.visual, context |-> x.context, segments |-> x.segments,
           bm25 |-> x.bm25, words |-> x.words, objects |-> x.objects]
    BY LoadsAssumption
<1> DEFINE y == [x EXCEPT !.segments = Absent]
<1>3. /\ y.segments = Absent /\ y.video = x.video /\ y.dense = x.dense
      /\ y.visual = x.visual /\ y.context = x.context /\ y.bm25 = x.bm25
    <2> HIDE DEF x
    <2> QED  BY <1>2
<1>4. /\ Silenced(build).c = build.c /\ Silenced(build).imageScorer = build.imageScorer
      /\ Silenced(build).x = y
    <2> HIDE DEF build
    <2> QED  BY <1>1 DEF Silenced
<1> HIDE DEF build, y
<1> QED
    BY <1>3, <1>4 DEF build

\* What the other experts say does not depend on the transcripts.
LEMMA OthersUnmoved ==
    ASSUME NEW x, NEW y,
           y.segments = Absent, y.video = x.video, y.dense = x.dense,
           y.visual = x.visual, y.context = x.context, y.bm25 = x.bm25, NEW flags
    PROVE  /\ Frames(y) = Frames(x)
           /\ Loaded(y, flags) = Loaded(x, flags)
           /\ \A on : TextNames(y, on) = TextNames(x, on) \ {"asr_dense"}
           /\ \A on, event, name, c : name # "asr_dense" =>
                 TextOrNothing(y, on, event, name, c) = TextOrNothing(x, on, event, name, c)
           /\ \A rows : ImageComponent(y, rows) = ImageComponent(x, rows)
<1>1. Frames(y) = Frames(x)
    BY DEF Frames
<1>2. Loaded(y, flags) = Loaded(x, flags)
    BY DEF Loaded
<1>3. DenseNames(y) = DenseNames(x) \ {"asr_dense"}
    BY DEF DenseNames
<1>4. "asr_dense" \notin Bm25Names
    BY NamesApart
<1>5. \A on : TextNames(y, on) = TextNames(x, on) \ {"asr_dense"}
    BY <1>3, <1>4 DEF TextNames
<1>6. \A on, event, name, c : name # "asr_dense" =>
         TextRow(y, on, event, name, c) = TextRow(x, on, event, name, c)
    BY DEF TextRow, Bm25Row
<1>7. \A on, event, name, c : name # "asr_dense" =>
         TextOrNothing(y, on, event, name, c) = TextOrNothing(x, on, event, name, c)
    BY <1>1, <1>6 DEF TextOrNothing, Nothing
<1>8. \A rows : ImageComponent(y, rows) = ImageComponent(x, rows)
    BY <1>1 DEF ImageComponent
<1> QED
    BY <1>1, <1>2, <1>5, <1>7, <1>8

\* Where nothing is said, an event scores as if there were no transcripts.
LEMMA ScoredDeaf ==
    ASSUME NEW b \in Builds, BuildOf[b].x.segments # Absent,
           NEW q \in Kis, NEW e \in DOMAIN RequestOf[q].events
    PROVE  LET build == BuildOf[b]
               flags == RequestOf[q].flags
               plan == PlanOf(RequestOf[q])
               heard == PlanMatrix(build, plan, flags)
               deaf == PlanMatrix(Silenced(build), plan, flags)
           IN  heard # Absent /\ deaf # Absent =>
                   /\ DOMAIN heard[e] = Frames(build.x)
                   /\ \A f \in Frames(build.x) \ Coverage(build.x, build.c.interval) :
                         heard[e][f] = deaf[e][f]
<1> DEFINE build == BuildOf[b]
           mute == Silenced(build)
           x == build.x
           y == mute.x
           c == build.c
           D == Frames(x)
           covered == Coverage(x, c.interval)
           flags == RequestOf[q].flags
           on == Loaded(x, flags)
           n == Len(RequestOf[q].events)
           plan == PlanOf(RequestOf[q])
           v == plan[e]
           image == PlanImage(build, plan)
           B == BundleOf(build, plan, flags)
           A == BundleOf(mute, plan, flags)
           heard == PlanMatrix(build, plan, flags)
           deaf == PlanMatrix(mute, plan, flags)
<1> SUFFICES ASSUME heard # Absent, deaf # Absent
             PROVE  /\ DOMAIN heard[e] = D
                    /\ \A f \in D \ covered : heard[e][f] = deaf[e][f]
    OBVIOUS
<1>1. /\ n \in Nat \ {0} /\ DOMAIN plan = 1..n /\ Len(plan) = n
      /\ DOMAIN RequestOf[q].events = 1..n
    BY PlanIs, KisAssumption
<1>2. e \in 1..n
    BY <1>1
<1>3. PartOfPlan(plan, q, n)
    BY <1>1 DEF PartOfPlan, EventsIn
<1>4. e \in Textual(plan) <=> HasText(v)
    BY <1>1, <1>2 DEF Textual
<1>5. /\ D \in SUBSET Int /\ IsFiniteSet(D)
      /\ Unit \in Nat \ {0} /\ Validated(c)
    BY LoadIs
<1>6. covered # Absent
    BY AbsentAssumption
<1>7. /\ mute.c = c /\ mute.imageScorer = build.imageScorer
      /\ y.segments = Absent /\ y.video = x.video /\ y.dense = x.dense
      /\ y.visual = x.visual /\ y.context = x.context /\ y.bm25 = x.bm25
    BY SilencedIs
<1> HIDE DEF mute
<1>8. /\ Frames(y) = D
      /\ Loaded(y, flags) = on
      /\ TextNames(y, on) = TextNames(x, on) \ {"asr_dense"}
      /\ \A event, name : name # "asr_dense" =>
            TextOrNothing(y, on, event, name, c) = TextOrNothing(x, on, event, name, c)
      /\ ImageComponent(y, ImageRows(plan)) = ImageComponent(x, ImageRows(plan))
    <2> HIDE DEF x, y, c, on, flags, plan
    <2>1. /\ Frames(y) = Frames(x)
          /\ Loaded(y, flags) = Loaded(x, flags)
          /\ \A o : TextNames(y, o) = TextNames(x, o) \ {"asr_dense"}
          /\ \A o, event, name, d : name # "asr_dense" =>
                TextOrNothing(y, o, event, name, d) = TextOrNothing(x, o, event, name, d)
          /\ \A rows : ImageComponent(y, rows) = ImageComponent(x, rows)
        BY <1>7, OthersUnmoved
    <2> QED
        BY <2>1 DEF on
<1>9. PlanImage(mute, plan) = image
    BY <1>7, <1>8 DEF PlanImage
<1> HIDE DEF n, plan, v, flags
<1>10. Says(B, x, n, plan, on, image, c)
    <2>1. Says(Bundle(x, plan, flags, image, c), x, n, plan, on, image, c)
        <3> HIDE DEF x, image, c
        <3> QED  BY <1>1, BundleIs
    <2> QED
        BY <2>1 DEF BundleOf
<1>11. Says(A, y, n, plan, on, image, c)
    <2>1. Says(Bundle(y, plan, flags, image, c), y, n, plan, Loaded(y, flags), image, c)
        <3> HIDE DEF y, image, c
        <3> QED  BY <1>1, BundleIs
    <2>2. A = Bundle(y, plan, flags, image, c)
        <3> HIDE DEF image, c
        <3> QED  BY <1>7, <1>9 DEF BundleOf
    <2> HIDE DEF A, y, image, c, on
    <2> QED
        BY <1>8, <2>1, <2>2
<1>12. BundleOK(B, e, D)
    <2> HIDE DEF B
    <2> QED  BY <1>1, <1>2, <1>3, BundleIsOK DEF B, flags
<1>13. heard[e] = FuseRow(B, v, e, c) /\ DOMAIN B # {}
    <2>1. FusionOf(heard, B, n, plan, c)
        BY <1>1, ScoredIs
    <2> HIDE DEF B, heard, c
    <2> QED
        BY <1>2, <2>1 DEF FusionOf, v
<1>14. deaf[e] = FuseRow(A, v, e, c) /\ DOMAIN A # {}
    <2>1. FusionOf(deaf, A, n, plan, mute.c)
        BY <1>1, ScoredIs
    <2> HIDE DEF A, deaf, c
    <2> QED
        BY <1>2, <1>7, <2>1 DEF FusionOf, v
<1>15. "visual_image" \notin TextNames(x, on)
    BY NamesApart DEF TextNames
<1> HIDE DEF A, B, image, on, x, y, c, D, heard, deaf, build, covered
<1>16. DOMAIN A = DOMAIN B \ {"asr_dense"}
    BY <1>8, <1>10, <1>11 DEF Says
<1>17. ASSUME NEW name \in DOMAIN A
       PROVE  A[name].rows[e] = B[name].rows[e] /\ A[name].coverage = B[name].coverage
    <2>1. CASE name = "visual_image"
        <3>1. image # Absent
            BY <1>8, <1>11, <1>15, <1>17, <2>1 DEF Says
        <3> QED
            BY <1>10, <1>11, <2>1, <3>1 DEF Says
    <2>2. CASE name # "visual_image"
        <3>1. /\ Textual(plan) # {} /\ name \in TextNames(y, on)
              /\ name \in TextNames(x, on) /\ name # "asr_dense"
            BY <1>8, <1>11, <1>17, <2>2 DEF Says
        <3>2. /\ A[name].coverage = MaskOf(y, name, c)
              /\ A[name].rows[e] = TextOrNothing(y, on, plan[e], name, c)
            BY <1>2, <1>11, <3>1 DEF Says
        <3>3. /\ B[name].coverage = MaskOf(x, name, c)
              /\ B[name].rows[e] = TextOrNothing(x, on, plan[e], name, c)
            BY <1>2, <1>10, <3>1 DEF Says
        <3>4. MaskOf(y, name, c) = MaskOf(x, name, c)
            BY <3>1 DEF MaskOf
        <3> QED
            BY <1>8, <3>1, <3>2, <3>3, <3>4
    <2> QED
        BY <2>1, <2>2
<1>18. Within(A, e, B, e)
    BY <1>16, <1>17 DEF Within
<1>19. Covers(A, B, v)
    BY <1>16 DEF Covers
<1>20. "asr_dense" \in DOMAIN B => B["asr_dense"].coverage = covered
    <2> SUFFICES ASSUME "asr_dense" \in DOMAIN B PROVE B["asr_dense"].coverage = covered
        OBVIOUS
    <2>1. Textual(plan) # {} /\ "asr_dense" \in TextNames(x, on)
        BY <1>10 DEF Says
    <2>2. B["asr_dense"].coverage = MaskOf(x, "asr_dense", c)
        BY <1>10, <2>1 DEF Says
    <2> QED
        BY <2>2 DEF MaskOf, covered
<1>21. ASSUME NEW f \in D \ covered, NEW name \in DOMAIN B \ DOMAIN A
       PROVE  WeightsOf(B, v, e, f, c)[name] = 0
    <2>1. name = "asr_dense" /\ B[name].coverage = covered
        BY <1>16, <1>20
    <2> QED
        BY <1>6, <2>1 DEF WeightsOf, WeightAt
<1>22. /\ FuseRow(B, v, e, c) = [f \in D |-> FuseRow(B, v, e, c)[f]]
       /\ FuseRow(A, v, e, c) = [f \in D |-> FuseRow(A, v, e, c)[f]]
       /\ \A f \in D :
             (\A name \in DOMAIN B \ DOMAIN A : WeightsOf(B, v, e, f, c)[name] = 0)
             => FuseRow(B, v, e, c)[f] = FuseRow(A, v, e, c)[f]
    BY <1>5, <1>12, <1>14, <1>18, <1>19, FusedAlike
<1>23. \A f \in D \ covered : FuseRow(B, v, e, c)[f] = FuseRow(A, v, e, c)[f]
    BY <1>21, <1>22
<1>24. DOMAIN FuseRow(B, v, e, c) = D
    BY <1>22
<1> QED
    BY <1>13, <1>14, <1>23, <1>24

\* Without transcripts, frames at which nothing is said keep their scores.
LEMMA SilentAlikeHolds ==
    ASSUME NEW b \in Builds, NEW q \in Kis
    PROVE  SilentAlike(BuildOf[b], RequestOf[q])
<1> DEFINE build == BuildOf[b]
           plan == PlanOf(RequestOf[q])
           flags == RequestOf[q].flags
           heard == PlanMatrix(build, plan, flags)
           deaf == PlanMatrix(Silenced(build), plan, flags)
           covered == Coverage(build.x, build.c.interval)
           D == Frames(build.x)
<1> SUFFICES ASSUME build.x.segments # Absent, heard # Absent, deaf # Absent
             PROVE  \A e \in DOMAIN heard : \A f \in DOMAIN heard[e] \ covered : heard[e][f] = deaf[e][f]
    <2> HIDE DEF heard, deaf, covered
    <2> QED  BY DEF SilentAlike, AlikeOutside, heard, deaf, covered, Silenced
<1>1. DOMAIN heard = DOMAIN RequestOf[q].events
    <2> DEFINE n == Len(RequestOf[q].events)
    <2>1. /\ n \in Nat \ {0} /\ DOMAIN plan = 1..n /\ Len(plan) = n
          /\ DOMAIN RequestOf[q].events = 1..n
        BY PlanIs, KisAssumption
    <2>2. FusionOf(heard, BundleOf(build, plan, flags), n, plan, build.c)
        <3> HIDE DEF n, plan, build
        <3> QED  BY <2>1, ScoredIs
    <2> HIDE DEF n, plan, build, heard
    <2> QED
        BY <2>1, <2>2 DEF FusionOf
<1>2. ASSUME NEW e \in DOMAIN RequestOf[q].events
      PROVE  DOMAIN heard[e] = D /\ \A f \in D \ covered : heard[e][f] = deaf[e][f]
    BY ScoredDeaf
<1> HIDE DEF heard, deaf, covered, D
<1> QED
    BY <1>1, <1>2

\* A frame at which nothing is said scores as if there were no transcripts at all
\* (coverage mask of fuse_profiles and of the calibration).
THEOREM CoverageStaysNeutral == SearchSpec => []CoverageNeutral
<1>1. SearchInv => CoverageNeutral
    <2> SUFFICES ASSUME SearchInv, NEW t \in Threads, KisReplied(t)
                 PROVE  SilentTable[BuildAndQuery(t)[1]][BuildAndQuery(t)[2]]
        BY DEF CoverageNeutral
    <2> DEFINE b == BuildAndQuery(t)[1]
               q == BuildAndQuery(t)[2]
    <2>1. b \in Builds /\ q \in Kis
        BY ToldByLoad
    <2> HIDE DEF b, q
    <2>2. SilentTable[b][q]
        BY <2>1, SilentTableEntries, SilentAlikeHolds
    <2> QED
        BY <2>2 DEF b, q
<1> QED
    BY <1>1, SearchInvHolds, PTL
=============================================================================
