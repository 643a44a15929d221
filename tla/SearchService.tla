----------------------------- MODULE SearchService -----------------------------
(***************************************************************************)
(* The search API and the retrieval server behind it: KIS, TRAKE, AVS,     *)
(* image and literal search, each a call of a request thread that goes     *)
(* over HTTP to a server which may be loaded anew, with other artifacts    *)
(* and settings, between any two steps; and the store of evidence          *)
(* snapshots that a KIS search fills and EventTrail reads, whose entries   *)
(* threads change without a lock.                                          *)
(*                                                                         *)
(* The i-th load of the server has scoring revision i; snapshots are       *)
(* numbered as they are made.  now counts the snapshot store's clock.      *)
(***************************************************************************)
EXTENDS FrameRetrieval

CONSTANTS
    Threads,        \* request threads of the API process
    Builds,         \* what a server can load: artifacts, its corpus, settings
    BuildOf,        \*   [x, corpus, c, d, r, imageScorer, imageSearch, imageLimit]
    CorpusOf,       \* canonical frames the API process can have loaded
    Requests,       \* what callers may ask
    RequestOf,      \*   by kind: "kis", "trake", "avs", "image", "filter"
    Outages,        \* sets of encoders and indexes that fail during a query
    Avs,            \* coverage policy: window, page, pool
    MaxEvents,      \* max_temporal_event_count
    ImageLimit,     \* image_max_upload_bytes of the API
    Ttl,            \* snapshot_ttl_seconds
    Room,           \* max_snapshots
    Scenes,         \* bound: what one behaviour uses, [corpus, builds, requests,
                    \*   calls, loads]: the last two limit how many there are
    MaxNow          \* bound: the clock

\* The API answers requests on a thread pool of fixed size.
ASSUME ThreadsAssumption == IsFiniteSet(Threads)
ASSUME RoomAssumption == Room \in Nat \ {0}
ASSUME TtlAssumption == Ttl \in Nat \ {0}
ASSUME ScenesAssumption ==
    \A s \in Scenes : s.builds \subseteq Builds /\ s.requests \subseteq Requests

\* Times are numbers; the limits of AVS are settings (AvsConfig) or validated
\* with the request.
ASSUME CorpusAssumption ==
    \A s \in Scenes : CorpusOf[s.corpus].time \in [Frames(CorpusOf[s.corpus]) -> Int]
ASSUME AvsAssumption ==
    /\ Avs.window \in Nat /\ Avs.pool \in Nat
    /\ \A q \in Requests : RequestOf[q].kind = "avs" => RequestOf[q].page \in Nat

\* A load has finitely many frames, and a vector for each (DenseIndex.load).
ASSUME BuildsAssumption ==
    \A b \in Builds, q \in Requests : RequestOf[q].kind = "avs" =>
        LET x == BuildOf[b].x
            text == RequestOf[q].text
        IN  /\ IsFiniteSet(Frames(x))
            /\ DOMAIN x.visual[text] = Frames(x)
            /\ x.context # Absent => DOMAIN x.context[text] = Frames(x)

VARIABLES scene, loads, up, thread, store, tombs, now, births, calls

searchVars == <<scene, loads, up, thread, store, tombs, now, births, calls>>

Corpus == CorpusOf[scene.corpus]
Kis == {q \in Requests : RequestOf[q].kind = "kis"}
Trake == {q \in Requests : RequestOf[q].kind = "trake"}
Text == {q \in Requests : RequestOf[q].kind = "avs"}
Image == {q \in Requests : RequestOf[q].kind = "image"}

\* What a KIS query asks the indexes: its texts and its images.
TextsOf(q) ==
    (UNION {{event.text, event.translation, event.denseOverride, event.bm25Override} :
               event \in {q.events[i] : i \in DOMAIN q.events}}) \ {Absent}
ImagesOf(q) == UNION {q.events[i].images : i \in DOMAIN q.events}

\* The request model lists at least one event, with finitely many images each, and
\* asks for at least one row (KisSearchRequest).
ASSUME KisAssumption ==
    \A q \in Kis :
        LET request == RequestOf[q]
        IN  /\ Len(request.events) \in Nat \ {0}
            /\ DOMAIN request.events = 1..Len(request.events)
            /\ \A i \in DOMAIN request.events : IsFiniteSet(request.events[i].images)
            /\ request.top \in Nat \ {0}

\* Artifacts are loaded whole: finitely many frames, numbered as they were
\* embedded, each with its video, place and time (DenseIndex.load).
ASSUME LoadsAssumption ==
    \A b \in Builds :
        LET build == BuildOf[b]
            x == build.x
        IN  /\ build = [x |-> x, corpus |-> build.corpus, c |-> build.c, d |-> build.d,
                        r |-> build.r, imageScorer |-> build.imageScorer,
                        imageSearch |-> build.imageSearch, imageLimit |-> build.imageLimit]
            /\ x = [video |-> x.video, idx |-> x.idx, time |-> x.time, dense |-> x.dense,
                    visual |-> x.visual, context |-> x.context, segments |-> x.segments,
                    bm25 |-> x.bm25, words |-> x.words, objects |-> x.objects]
            /\ IsFiniteSet(Frames(x)) /\ Frames(x) \subseteq Int
            /\ x.video \in [Frames(x) -> Int]
            /\ x.idx \in [Frames(x) -> Int]
            /\ x.time \in [Frames(x) -> Int]
            /\ x.segments # Absent => IsFiniteSet(x.segments)

\* Every index scores every frame for what a query asks it (score_subset).
ASSUME ScoresAssumption ==
    \A b \in Builds, q \in Kis :
        LET x == BuildOf[b].x
            rows == [Frames(x) -> Int]
        IN  /\ \A text \in TextsOf(RequestOf[q]) :
                  /\ x.visual[text] \in rows
                  /\ x.context # Absent => x.context[text] \in rows
                  /\ x.segments # Absent => \A s \in x.segments : s.sim[text] \in Int
                  /\ x.bm25 # Absent => \A field \in Fields : x.bm25[field][text] \in rows
            /\ \A image \in ImagesOf(RequestOf[q]) : x.visual[image] \in rows

\* None is neither the scores of an expert nor a coverage mask.
ASSUME AbsentAssumption ==
    \A b \in Builds :
        LET build == BuildOf[b]
            rows == [Frames(build.x) -> Int]
        IN  /\ build.x.segments # Absent => Coverage(build.x, build.c.interval) # Absent
            /\ \A q \in Kis : \A n \in {1, Len(RequestOf[q].events)} :
                   Absent \notin [rows : [1..n -> rows], coverage : {Absent}]

\* The validators of the settings (RobustCalibrationConfig, the fusion weights
\* and AlignmentConfig).
Experts == {"visual_dense", "context_dense", "asr_dense", "visual_image"} \cup Bm25Names

ASSUME FusionAssumption ==
    /\ Unit \in Nat \ {0}
    /\ \A b \in Builds :
          LET c == BuildOf[b].c
          IN  /\ \A name \in Experts : c.base[name] \in Nat
              /\ {c.visualBoost, c.speechBoost, c.ocrBoost} \subseteq Nat
              /\ c.qLow \in 0..100 /\ c.qHigh \in 0..100
              /\ c.topPercent \in 1..100 /\ c.topMax \in Nat \ {0}

ASSUME DecoderAssumption ==
    \A b \in Builds :
        LET d == BuildOf[b].d
        IN  /\ d = [gap |-> d.gap, power |-> d.power, delta |-> d.delta,
                    separation |-> d.separation, paths |-> d.paths, k |-> d.k,
                    weight |-> d.weight]
            /\ {d.gap, d.delta, d.separation} \subseteq Nat
            /\ d.power \in {1, 2}
            /\ d.paths \in Nat \ {0} /\ d.k \in Nat \ {0}

Idle == [phase |-> "idle", call |-> Absent, reply |-> Absent, read |-> 0, held |-> Absent,
         full |-> FALSE, answer |-> Absent]

SearchInit ==
    /\ scene \in Scenes
    /\ loads = <<>>
    /\ up = FALSE
    /\ thread = [t \in Threads |-> Idle]
    /\ store = <<>>
    /\ tombs = <<>>
    /\ now = 0
    /\ births = <<>>
    /\ calls = 0

-----------------------------------------------------------------------------
(* What a server answers; one table per kind of request.                   *)

Failed(status) == [status |-> status]
Answered(build, body) == [status |-> 200, body |-> body]

HttpOf(verdict) == IF verdict = "missing" THEN 500 ELSE 400

PlanOf(q) == BuildPlan(q.events, q.flags)

ImageRows(plan) == [i \in DOMAIN plan |-> plan[i].images]

PlanImage(build, plan) ==
    IF build.imageScorer /\ \E i \in DOMAIN plan : HasImages(plan[i])
    THEN ImageComponent(build.x, ImageRows(plan)) ELSE Absent

\* Mutant: the settings of the API process in place of the server's.
LocalSettings(d) == [gap |-> 0, power |-> 1, delta |-> 0, separation |-> 0]

\* Only these decoder settings travel.
Wire(d) == [gap |-> d.gap, power |-> d.power, delta |-> d.delta,
            separation |-> d.separation]

\* Scores of a whole corpus travel only for the videos of the rows.
Trimmed(videos, rows) ==
    LET shown == InOrder({k \in DOMAIN videos :
                             \E i \in DOMAIN rows : rows[i].video = videos[k].video})
    IN  [n \in DOMAIN shown |-> videos[shown[n]]]

Ranked(build, videos, top) == RankPaths(videos, build.d, top)

PlanMatrix(build, plan, flags) ==
    ScorePlan(build.x, plan, flags, PlanImage(build, plan), build.c)

Judged(build, videos, body, verdict) ==
    IF verdict = "good" THEN Answered(build, body) ELSE Failed(HttpOf(verdict))

PlanBody(build, videos, rows) ==
    [rows |-> rows, evidence |-> Trimmed(videos, rows), config |-> Wire(build.d)]

PlanRanked(build, videos, top) ==
    Judged(build, videos, PlanBody(build, videos, Ranked(build, videos, top)),
           Verdict(build.corpus, videos))

EventsRanked(build, videos, top) ==
    Judged(build, videos, [rows |-> Ranked(build, videos, top)],
           Verdict(build.corpus, videos))

PlanScored(build, matrix, top) ==
    IF matrix = Absent THEN Failed(400)
    ELSE PlanRanked(build, SplitVideos(build.x, matrix), top)

EventsScored(build, matrix, top) ==
    IF matrix = Absent THEN Failed(400)
    ELSE EventsRanked(build, SplitVideos(build.x, matrix), top)

PlanAnswer(build, q) == PlanScored(build, PlanMatrix(build, PlanOf(q), q.flags), q.top)

EventsAnswer(build, q) ==
    EventsScored(build, ScoreEvents(build.x, q.originals, q.retrieval, q.originals, q.flags,
                                    build.c), q.top)

ImageRowsOf(build, hits) == [rows |-> [i \in DOMAIN hits |-> OneFrame(build.x, hits[i])]]

ImageAnswer(build, q) ==
    IF q.size > build.imageLimit THEN Failed(413)
    ELSE IF ~build.imageSearch THEN Failed(500)
    ELSE IF ~q.readable THEN Failed(400)
    ELSE Answered(build, ImageRowsOf(build, ImageHits(build.x, q.image, q.top)))

FoundAnswer(build, found) == IF found = Absent THEN Failed(500) ELSE Answered(build, found)

TextAnswer(build, q, down) ==
    FoundAnswer(build, TextHits(build.x, build.r, q.text, Avs.pool, down))

PlanTable ==
    Table([b \in Builds |-> Table([q \in Kis |-> PlanAnswer(BuildOf[b], RequestOf[q])])])
EventsTable ==
    Table([b \in Builds |-> Table([q \in Trake |-> EventsAnswer(BuildOf[b], RequestOf[q])])])
ImageTable ==
    Table([b \in Builds |-> Table([q \in Image |-> ImageAnswer(BuildOf[b], RequestOf[q])])])
TextTable ==
    Table([b \in Builds |-> Table([q \in Text |->
        Table([down \in Outages |-> TextAnswer(BuildOf[b], RequestOf[q], down)])])])

ServerAnswer(b, q, down) ==
    CASE RequestOf[q].kind = "kis" -> PlanTable[b][q]
      [] RequestOf[q].kind = "trake" -> EventsTable[b][q]
      [] RequestOf[q].kind = "image" -> ImageTable[b][q]
      [] RequestOf[q].kind = "avs" -> TextTable[b][q][down]

-----------------------------------------------------------------------------
(* The server: a fresh runtime with a revision of its own, and its end.    *)

Load ==
    /\ ~up
    /\ Len(loads) < scene.loads
    /\ \E b \in scene.builds : loads' = Append(loads, b)
    /\ up' = TRUE
    /\ UNCHANGED <<scene, thread, store, tombs, now, births, calls>>

Stop ==
    /\ up
    /\ up' = FALSE
    /\ UNCHANGED <<scene, loads, thread, store, tombs, now, births, calls>>

-----------------------------------------------------------------------------
(* A search call: local checks, the HTTP exchange, the check of what came  *)
(* back against the API's own corpus.                                      *)

Turn(t, next) ==
    /\ thread' = [thread EXCEPT ![t] = next]
    /\ UNCHANGED <<scene, loads, up, now>>

Ends(t, q, answer) == Turn(t, [Idle EXCEPT !.call = q, !.answer = answer])
Fails(t, q, outcome) == Ends(t, q, [outcome |-> outcome])

\* What a request is refused for before anything is sent; "" when nothing.
Refused(q) ==
    CASE q.kind = "kis" ->
            IF Len(q.events) > MaxEvents THEN "raised"
            ELSE IF ~TextSourcesValid(PlanOf(q), q.flags) THEN "invalid" ELSE ""
      [] q.kind = "trake" -> IF Len(q.originals) > MaxEvents THEN "raised" ELSE ""
      [] q.kind = "avs" -> IF q.page > Avs.page THEN "invalid" ELSE ""
      [] q.kind = "image" -> IF ~q.media THEN "invalid"
                             ELSE IF q.size > ImageLimit THEN "large" ELSE ""
      [] q.kind = "filter" -> ""

\* Queries of another language are translated for Dense retrieval; when that
\* fails, the handler fails on a name it does not have.
Ask(t) ==
    /\ thread[t].phase = "idle"
    /\ calls < scene.calls
    /\ calls' = calls + 1
    /\ \E q \in scene.requests :
          LET request == RequestOf[q]
          IN  \/ /\ request.kind = "filter"
                 /\ Ends(t, q, [outcome |-> "done", frames |-> Page(Corpus, request)])
              \/ /\ request.kind = "kis" /\ request.foreign
                 /\ Fails(t, q, "raised")
              \/ /\ request.kind # "filter" /\ Refused(request) # ""
                 /\ Fails(t, q, Refused(request))
              \/ /\ request.kind # "filter" /\ Refused(request) = ""
                 /\ Turn(t, [Idle EXCEPT !.phase = "sent", !.call = q])
    /\ UNCHANGED <<store, tombs, births>>

\* A KIS answer names the runtime that computed it.
Revised(q, reply, revision) ==
    IF RequestOf[q].kind = "kis" /\ reply.status = 200
    THEN [status |-> 200,
          body |-> [revision |-> revision, rows |-> reply.body.rows,
                    evidence |-> reply.body.evidence, config |-> reply.body.config]]
    ELSE reply

Serve(t) ==
    /\ thread[t].phase = "sent"
    /\ up
    /\ \E down \in Outages :
          Turn(t, [thread[t] EXCEPT !.phase = "replied",
                       !.reply = Revised(thread[t].call,
                                     ServerAnswer(loads[Len(loads)], thread[t].call, down),
                                     Len(loads))])
    /\ UNCHANGED <<store, tombs, births, calls>>

\* No connection, no answer in time, or a runtime that is not ready.
Lose(t) ==
    /\ thread[t].phase \in {"sent", "replied"}
    /\ Fails(t, thread[t].call, "unavailable")
    /\ UNCHANGED <<store, tombs, births, calls>>

\* Error answers become the exceptions the routers know.
Outcome(kind, status) ==
    CASE status = 400 -> "invalid"
      [] status = 413 -> IF kind = "avs" THEN "gateway" ELSE "large"
      [] status = 500 -> "gateway"

Raised(verdict) == IF verdict = "missing" THEN "missing" ELSE "raised"

\* The evidence of a KIS answer is checked before its rows.
VerdictOn(kind, body) ==
    IF kind = "kis" /\ Verdict(Corpus, body.evidence) # "good"
    THEN Verdict(Corpus, body.evidence) ELSE Verdict(Corpus, body.rows)

Unknown(frames) == \E i \in DOMAIN frames : frames[i] \notin DOMAIN Corpus.video

Covering(q, frames) == FirstRows(CoverageOrder(Corpus, frames, Avs.window), q.page)

\* A refused answer ends the call; so do good TRAKE, AVS and image answers.
\* A good KIS answer is turned into a snapshot first.
Receive(t) ==
    LET call == thread[t].call
        q == RequestOf[call]
        reply == thread[t].reply
    IN  /\ thread[t].phase = "replied"
        /\ \/ /\ reply.status # 200
              /\ Fails(t, call, Outcome(q.kind, reply.status))
           \/ /\ reply.status = 200 /\ q.kind = "avs"
              /\ Unknown(reply.body.frames)
              /\ Fails(t, call, "missing")
           \/ /\ reply.status = 200 /\ q.kind = "avs"
              /\ ~Unknown(reply.body.frames)
              /\ Ends(t, call, [outcome |-> "done", frames |-> Covering(q, reply.body.frames)])
           \/ /\ reply.status = 200 /\ q.kind # "avs"
              /\ VerdictOn(q.kind, reply.body) # "good"
              /\ Fails(t, call, Raised(VerdictOn(q.kind, reply.body)))
           \/ /\ reply.status = 200 /\ q.kind \in {"trake", "image"}
              /\ Verdict(Corpus, reply.body.rows) = "good"
              /\ Ends(t, call, [outcome |-> "done", rows |-> reply.body.rows])
           \/ /\ reply.status = 200 /\ q.kind = "kis"
              /\ VerdictOn(q.kind, reply.body) = "good"
              /\ Turn(t, [thread[t] EXCEPT !.phase = "room", !.read = now,
                                          !.full = Len(store) >= Room])
        /\ UNCHANGED <<store, tombs, births, calls>>

-----------------------------------------------------------------------------
(* Putting a snapshot: the clock and the room are read, then an entry may  *)
(* be evicted, then the new one is added; other threads come between.      *)

\* Mutant: the revision the server has by now.
LatestRevision(body) == Len(loads)

RevisionOf(body) == body.revision

Snapshot(t) ==
    LET body == thread[t].reply.body
    IN  [query    |-> thread[t].call,
         revision |-> RevisionOf(body),
         config   |-> body.config,
         rows     |-> body.rows,
         evidence |-> body.evidence]

Insert(t, entries) ==
    /\ births' = Append(births, thread[t].read)
    /\ store' = Append(entries, [id |-> Len(births) + 1, expires |-> thread[t].read + Ttl,
                                 snapshot |-> Snapshot(t)])
    /\ Ends(t, thread[t].call, [outcome |-> "done", rows |-> thread[t].reply.body.rows,
                                snapshot |-> Len(births) + 1])

\* Mutant: a full store is not noticed.
NeverFull(t) == FALSE

MustEvict(t) == thread[t].full

\* A store that others emptied in the meantime makes popitem fail.
Put(t) ==
    /\ thread[t].phase = "room"
    /\ UNCHANGED <<tombs, calls>>
    /\ \/ /\ MustEvict(t) /\ store # <<>>
          /\ store' = Tail(store)
          /\ Turn(t, [thread[t] EXCEPT !.full = FALSE])
          /\ UNCHANGED births
       \/ /\ MustEvict(t) /\ store = <<>>
          /\ Fails(t, thread[t].call, "raised")
          /\ UNCHANGED <<store, births>>
       \/ ~MustEvict(t) /\ Insert(t, store)

-----------------------------------------------------------------------------
(* EventTrail reads a snapshot: found, then taken, dropped or refused.     *)

EntryOf(id) == {i \in DOMAIN store : store[i].id = id}
PlaceOf(id) == CHOOSE i \in EntryOf(id) : TRUE
Without(id) == RemoveAt(store, PlaceOf(id))

Find(t) ==
    /\ thread[t].phase = "idle"
    /\ calls < scene.calls
    /\ calls' = calls + 1
    /\ \E id \in DOMAIN births :
          \/ /\ EntryOf(id) # {}
             /\ Turn(t, [Idle EXCEPT !.phase = "held", !.held = store[PlaceOf(id)],
                                    !.read = now])
          \/ /\ EntryOf(id) = {} /\ id \in ToSet(tombs)
             /\ Turn(t, [Idle EXCEPT !.phase = "buried", !.held = [id |-> id], !.read = now])
          \/ /\ EntryOf(id) = {} /\ id \notin ToSet(tombs)
             /\ Fails(t, Absent, "not found")
    /\ UNCHANGED <<store, tombs, births>>

Buried(id) == Append(IF Len(tombs) >= Room THEN Tail(tombs) ELSE tombs, id)

\* An entry that another thread dropped since makes pop and move_to_end fail.
Take(t) ==
    LET entry == thread[t].held
        expired == thread[t].read >= entry.expires
    IN  /\ thread[t].phase = "held"
        /\ UNCHANGED <<births, calls>>
        /\ \/ /\ EntryOf(entry.id) = {}
              /\ Fails(t, Absent, "raised")
              /\ UNCHANGED <<store, tombs>>
           \/ /\ EntryOf(entry.id) # {} /\ expired
              /\ store' = Without(entry.id)
              /\ tombs' = Buried(entry.id)
              /\ Fails(t, Absent, "expired")
           \/ /\ EntryOf(entry.id) # {} /\ ~expired
              /\ store' = Append(Without(entry.id), entry)
              /\ Ends(t, Absent, [outcome |-> "done", taken |-> entry, at |-> thread[t].read])
              /\ UNCHANGED tombs

\* A tombstone is touched before the caller is told.
Dig(t) ==
    LET id == thread[t].held.id
        others == SelectSeq(tombs, LAMBDA other : other # id)
    IN  /\ thread[t].phase = "buried"
        /\ IF id \in ToSet(tombs)
           THEN tombs' = Append(others, id) /\ Fails(t, Absent, "expired")
           ELSE UNCHANGED tombs /\ Fails(t, Absent, "raised")
        /\ UNCHANGED <<store, births, calls>>

Tick ==
    /\ now < MaxNow
    /\ births # <<>>
    /\ now' = now + 1
    /\ UNCHANGED <<scene, loads, up, thread, store, tombs, births, calls>>

-----------------------------------------------------------------------------
Call(t) == Ask(t) \/ Serve(t) \/ Lose(t) \/ Receive(t) \/ Put(t)
Read(t) == Find(t) \/ Take(t) \/ Dig(t)

SearchNext == Load \/ Stop \/ Tick \/ \E t \in Threads : Call(t) \/ Read(t)

SearchSpec == SearchInit /\ [][SearchNext]_searchVars

-----------------------------------------------------------------------------
(* Properties.                                                             *)

Snapshots == {store[i].snapshot : i \in DOMAIN store}
FirstOf(rows, v) ==
    rows[CHOOSE i \in DOMAIN rows :
            rows[i].video = v /\ \A j \in 1..(i - 1) : rows[j].video # v]

\* What EventTrail decodes from a snapshot, with the settings kept in it, is
\* the path the search showed first for the video (decode_video_scores over
\* the evidence and decoder_config of create_evidence_snapshot).
SnapshotRedecodes ==
    \A s \in Snapshots : \A i \in DOMAIN s.evidence :
        LET video == s.evidence[i]
        IN  AlignVideo(video, s.config, 1)[1].frames = FirstOf(s.rows, video.video).frames

\* Rows, evidence and settings of a snapshot are those that the load of the
\* server it names computes for its query, whatever was loaded since
\* (scoring_revision of RetrievalRuntime.search_plan).
SnapshotOfRevision ==
    \A s \in Snapshots :
        LET answer == PlanTable[loads[s.revision]][s.query]
        IN  /\ answer.status = 200
            /\ answer.body = [rows |-> s.rows, evidence |-> s.evidence,
                              config |-> s.config]

\* Whatever rows a caller is shown lie on the frames the API itself serves:
\* id, video, place and time agree (validate_aligned_path).
RowsCanonical ==
    \A t \in Threads :
        LET answer == thread[t].answer
        IN  answer # Absent /\ "rows" \in DOMAIN answer =>
                \A i \in DOMAIN answer.rows : \A e \in DOMAIN answer.rows[i].frames :
                    LET f == answer.rows[i].frames[e]
                    IN  /\ f \in DOMAIN Corpus.video
                        /\ Corpus.video[f] = answer.rows[i].video
                        /\ Corpus.idx[f] = answer.rows[i].idx[e]
                        /\ Corpus.time[f] = answer.rows[i].time[e]

KisReplied(t) ==
    /\ thread[t].phase = "replied"
    /\ RequestOf[thread[t].call].kind = "kis"
    /\ thread[t].reply.status = 200

BuildAndQuery(t) == <<loads[thread[t].reply.body.revision], thread[t].call>>

\* The row of every event is what the event gets when it is asked alone.
RowsAlone(together, alone) ==
    \A e \in DOMAIN alone : alone[e] # Absent => together[e] = alone[e][1]

AskedAlone(build, q) ==
    LET plan == PlanOf(q)
    IN  RowsAlone(PlanMatrix(build, plan, q.flags),
                  [e \in DOMAIN plan |-> PlanMatrix(build, <<plan[e]>>, q.flags)])

AloneTable ==
    Table([b \in Builds |-> Table([q \in Kis |-> AskedAlone(BuildOf[b], RequestOf[q])])])

\* Neither the other events of a query, nor their order, nor which of them have
\* text or images change the scores of an event (expand_component_rows puts the
\* rows of the text events back in place).
EventsIndependent ==
    \A t \in Threads : KisReplied(t) =>
        AloneTable[BuildAndQuery(t)[1]][BuildAndQuery(t)[2]]

\* Frames without speech score as if there were no transcripts.
AlikeOutside(covered, heard, deaf) ==
    heard = Absent \/ deaf = Absent
    \/ \A e \in DOMAIN heard : \A f \in DOMAIN heard[e] \ covered : heard[e][f] = deaf[e][f]

SilentAlike(build, q) ==
    \/ build.x.segments = Absent
    \/ AlikeOutside(Coverage(build.x, build.c.interval), PlanMatrix(build, PlanOf(q), q.flags),
                    PlanMatrix([build EXCEPT !.x.segments = Absent], PlanOf(q), q.flags))

SilentTable ==
    Table([b \in Builds |-> Table([q \in Kis |-> SilentAlike(BuildOf[b], RequestOf[q])])])

\* What is said elsewhere does not move a frame at which nothing is said
\* (coverage mask of fuse_profiles and of the calibration).
CoverageNeutral ==
    \A t \in Threads : KisReplied(t) =>
        SilentTable[BuildAndQuery(t)[1]][BuildAndQuery(t)[2]]

\* All choices of one position per event in the order of score clusters.
Chains(video, prep) ==
    {path \in [EventsOf(video) -> Positions(video)] :
        \A e \in EventsOf(video) \ {1} : path[e - 1] <= prep.source[path[e]]}

ChainScore(video, prep, d, path) ==
    Total([e \in DOMAIN path |-> prep.rows[e][path[e]]])
        - d.gap * (video.time[path[Len(video.rows)]] - video.time[path[1]])

ChainScores(video, prep, d) ==
    {ChainScore(video, prep, d, path) : path \in Chains(video, prep)}

Highest(scores) == {n \in scores : \A m \in scores : m <= n}

BestScores(rows) == {rows[i].score : i \in DOMAIN rows \cap {1}}

\* Every frame a candidate, transitions of no weight.
Wide(build) == [build.d EXCEPT !.weight = 0, !.k = Cardinality(Frames(build.x))]

SameBestIn(build, video) ==
    LET best == Highest(ChainScores(video, Prepared(video, build.d), build.d))
    IN  /\ BestScores(AlignVideo(video, build.d, 1)) = best
        /\ BestScores(MotionGraph(build.x, <<>>, video, Wide(build), 1)) = best

SameBestOver(build, videos) ==
    /\ BestScores(RankMotionGraph(build.x, <<>>, videos, Wide(build), 1))
           = BestScores(RankPaths(videos, build.d, 1))
    /\ \A i \in DOMAIN videos : SameBestIn(build, videos[i])

SameBest(build, q) ==
    SameBestOver(build, SplitVideos(build.x, PlanMatrix(build, PlanOf(q), q.flags)))

BestTable ==
    Table([b \in Builds |-> Table([q \in Kis |->
        PlanTable[b][q].status = 200 => SameBest(BuildOf[b], RequestOf[q])])])

\* The static decoder finds the best chain of every video, or that there is
\* none; so does the motion graph when its candidates are all frames and
\* transitions weigh nothing (align_video, decode_motion_graph_video).
DecodersAgree ==
    \A t \in Threads : KisReplied(t) =>
        BestTable[BuildAndQuery(t)[1]][BuildAndQuery(t)[2]]

CloseTo(f, g) ==
    /\ Corpus.video[f] = Corpus.video[g]
    /\ Corpus.time[f] - Corpus.time[g] \in -Avs.window..Avs.window

SpreadOut(frames) ==
    \A j \in DOMAIN frames : \A i \in 1..(j - 1) :
        /\ ~CloseTo(frames[i], frames[j])
        /\ DepthOf(Corpus, frames, i) <= DepthOf(Corpus, frames, j)

\* No two frames of an AVS page lie within the window in one video, and a
\* frame comes after at most as many of its video as any later frame does
\* (AvsCoverageSelector.order).
AvsSpread ==
    \A t \in Threads :
        LET answer == thread[t].answer
        IN  thread[t].call \in Text /\ answer # Absent /\ "frames" \in DOMAIN answer =>
                SpreadOut(answer.frames)

\* Puts that overlap may each find room, and so exceed max_snapshots, but
\* only by as many as overlap.
NearlyBounded == Len(store) <= Room + Cardinality(Threads) - 1
=============================================================================
