# A verification of the HCMAI interactive video search system

The repository is an interactive video retrieval system for known-item search
competitions: a FastAPI backend (`src/src/hcmai`), a React page (`src/frontend`),
model servers and their client (`src/llm`), and batch jobs that prepare the
corpus (`src/offline`). This directory holds TLA+ models of it: what a component
does is translated from its source, TLC checks small instances, and TLAPS proves
the main results about the interactive sessions, the DRES calls, the gateway and the
publication of artifacts for every value of the constants.

- [The system](#the-system)
- [The modules](#the-modules)
- [The runs](#the-runs)
- [Fairness and refinement](#fairness-and-refinement)
- [What is proved](#what-is-proved)
- [Where the code and its documents disagree](#where-the-code-and-its-documents-disagree)
- [What is not modelled](#what-is-not-modelled)
- [What could come next](#what-could-come-next)

`PROJECT.json` lists the components, the runs, a mutant of the code for every
checked property, the source lines behind each definition, the hazards with the
properties that cover them, and the theorems.

## The system

Paths below are under `src/src/hcmai/` unless they start with another root.

```
 offline jobs ──publish──▶ artifacts ──load──▶ retrieval server ◀──HTTP── API process ◀── page
 (src/offline)             (files)             (retrieval/serving)           │   │
      │                                             │                        │   └─▶ DRES (external)
      └────────▶ model servers (src/llm) ◀── gateway ─┘                sessions, snapshots
```

### EventTrail: exploring one video (`event_trail/`)

After a search, the operator opens a *trail* on one result: an ordered list of
events of the query, each matched to a frame of one video. They constrain it
(anchor an event to a frame, reject frames, set a time window), and the path is
decoded again after each change.

| State | Where |
|---|---|
| constraints, current path, last valid path, checkpoints, revision, held frame, focus and listed alternatives | `EventTrailSession` (`models.py`) |
| sessions and tombstones in LRU order; per session a lock, `in_use` and the time of insertion | `EventTrailSessionStore` (`storage/session.py`) |
| evidence snapshots of searches | `EvidenceSnapshotStore` (`storage/snapshot.py`) |

*Operations.* `open`, `get`, `alternatives`, `act`, `close` of `service.py`; `act`
dispatches to eleven handlers of `actions/transitions.py`, which decode through
`TemporalConstraintDecoder`. Requests run in threads, each holding the session's
lock while it works.

*Hard.* Repair searches near a reference path that may violate the present
constraints. Rejection intervals are cut at integer midpoints. Alternatives come
from a second dynamic program, backward from the last event, which must mirror the
first one across score clusters and breaks ties the other way; they stay listed while
the constraints change. Undo crosses exhaustion.
The store counts users so that eviction and expiry spare sessions in use, across
every exception; a session may be closed while calls wait for it. Snapshots are
kept in a map without a lock.

*Correct when* an active trail shows the best admissible path and "exhausted" means none
is left; rejecting a listed alternative spares the others; the two dynamic programs that
decode and that list alternatives find what they promise under every mask; two requests
never build on the same revision; the store stays bounded, and its sessions leave it once.

### Query Hypothesis: editing the query (`kis/hypothesis/`)

A language model cuts the query into events that quote it; the operator splits,
merges, reorders, edits and adds events, and attaches images. Each event keeps
its text, the span of the query it came from and its origin. A session holds the
intent and at most 20 checkpoints; its store repeats the trail store's protocol
with other details (expiry by lookups only, tombstones unbounded). `preview`
shows the result of a mutation, `commit` makes it, `undo` pops a checkpoint; all
three are guarded by the revision.

*Hard.* Pydantic's `model_copy` runs no validator, so what `KISEvent` and
`KISIntent` demand rests on every mutation. Text is located by the leftmost
`find`. A merge trusts spans that edits and reorderings have detached from the
timeline. A read builds its answer after it released the lock.

*Correct when* texts, spans and origins agree in every timeline shown or
restorable; merging undoes splitting; updates are not lost between clients; a
session in use stays.

### Conversational feedback (`kis/feedback/`)

A message is turned by a language model into a clarification, a proposal, a
refinement of the retrieval texts, or the repair of one event; the last two
search again and commit. Sessions keep overrides, results, an evidence snapshot,
a transcript, checkpoints, and the answers given by request id, so that a turn
delivered again is answered again and not executed twice. The page
(`src/frontend/src/features/kis/feedbackSession.js` and its callers in
`SearchWorkspace.jsx`) keeps its own copy of the session and of the results.

*Hard.* Lost, repeated and late requests; a failure between the transcript and
the commit; answers that reach a page which has moved on.

*Correct when* a request takes effect once and is always answered the same;
results belong to the overrides in force; the page shows the revision it names.

### DRES sessions and submissions (`vbs/`, `api/routers/vbs.py`)

The evaluation server (DRES) is external. Each participant logs in and the token
is cached; calls that DRES rejects as unauthorised refresh it once, under the
participant's `asyncio.Lock`, and answers are never sent again on a rejected
token. When DRES refuses an answer because its task is not running, an
administrator's session selects and starts the task, and the answer is sent again.

*Hard.* Every `await` lets other calls in: a token read before may be evicted,
refreshed or disconnected after. A request that timed out may still be served.
Organisers and other participants switch tasks at any moment.

*Correct when* an answer is recorded at most once and what is said of it is true;
nobody is connected behind their back; every call ends.

### Remote inference (`src/llm/remote`, `src/llm/server`)

`InferencePool` sends a request to the least busy of several `InferenceGateway`s
and fails over. A gateway admits a bounded number of calls (bulkhead), refuses
them while its circuit breaker is open, retries transient errors within a
deadline and lets one half-open probe through after a cooldown. State: permits,
in-flight counts, breaker, probe.

*Hard.* A call leaves by success, refusal, a passed deadline, exhausted retries or
an error nobody catches; its place, its count and its probe must come back on each
way. Outcomes of calls admitted earlier arrive after the breaker changed.

*Correct when* places come back, an open circuit that cooled down admits a probe,
and a circuit closes once its server serves.

### Search (`retrieval/`, `orchestration/`, `temporal/`)

The API's five searches (KIS, TRAKE, AVS, image, literal filter) go over HTTP to a
retrieval server that has loaded indexes and settings. Evidence from dense
vectors, speech segments and BM25 fields is projected on frames, calibrated,
routed and fused; a dynamic program or a motion graph turns scores into paths. The
API checks what comes back against its own corpus; a KIS search leaves an evidence
snapshot that EventTrail decodes again later, in another process.

*Hard.* The server is loaded anew, with other artifacts or settings, between any two
steps. The two processes load their corpora and decoder settings on their own. Rows
of events with text and without share matrices. The snapshot store is changed by
threads that check before they pop.

*Correct when* what EventTrail decodes is what the search showed; rows lie on frames
the API serves; an event's scores do not depend on other events; components without
evidence weigh nothing; both decoders agree where their scores do.

### Preparation (`src/offline`, `retrieval/retriever/artifacts.py`)

A runner with a journal starts stages as processes of their own: embeddings,
captions, OCR, objects, transcripts, context, indexes. Each stage reuses what is
current, checkpoints its work, and publishes rows with a manifest by renaming
files. Identities (frame store, artifact version, model, settings) decide what is
reused and what may be joined.

*Hard.* A process dies between batches or renames and is started again, under other
settings, over a new frame store, or with another commit of a model. Some rows or
videos fail. Recoveries fail too.

*Correct when* a manifest states what its rows are; readers never see files of two
generations; contexts and indexes join evidence of one frame store; what is reused
is current; vectors stand at their frames.

## The modules

| Module | Models | How state and actions correspond |
|---|---|---|
| `TrailDecoder` | `event_trail/decoding/decoder.py`, `temporal/constraints.py`, what `temporal/dp.py` maximises | Constraints are a record of anchors, rejected frames and window. `Feasible(c)` is the set of paths the masks and the chronology of score clusters admit; `Decode(c)` a best one or `None`; `Repair` the search in the block around the event. `Alternatives` is the set of lists that `alternatives()` may return: any peaks the greedy loop may keep, each with any best path through it (`Previews`). |
| `TrailPrograms` | `align_video` and `align_video_conditioned` of `temporal/dp.py` under the masks of `temporal/constraints.py` | A session of `EventTrail` on a scored video: `DecodedRows` and `AlternativeRows` are what the two programs compute, step by step and ties included, under the constraints of the session. |
| `EventTrail` | the handlers of `actions/transitions.py`, `alternatives` of `service.py` | One variable per field of the session; one action per handler, whole, with its checkpoint, revision and selection. Refusals are the action's disabledness. |
| `SessionStore` | `storage/session.py` and the service's calls | `pc` says where each thread is: before the lookup, waiting for the slot, reading, writing, releasing, leaving. Each lock region is one step; the clock is read when the call begins, as the code does. |
| `QueryHypothesis` | `kis/hypothesis/mutations.py`, opening, commit and undo | A text is a sequence of pieces, the units at which events are split; `Find` is the leftmost `find`. One action per mutation. |
| `HypothesisStore` | `kis/hypothesis/store.py`, `service.py`, the router | Like `SessionStore`, with this store's expiry; a commit is two assignments, a read three, each a step. `shown` is what each client saw last. |
| `FeedbackSession` | `kis/feedback/service.py`, `store.py`, and the page | A call runs under the slot's lock and is one step. `requests` may be executed at any time and any number of times; `page` is the page's copy and the call it waits for. |
| `DresService` | `vbs/service.py`, `vbs/client.py`, the submit route | A call is at a `step`, with its outstanding request. DRES serves a request, fails it, or the client gives up, after which it may still be served (`late`). `RunTask` is anyone else's use of the evaluation. |
| `InferenceGateway` | `src/llm/remote`, the routes of `src/llm/server` | One step per lock region or HTTP exchange of a caller's thread; a text call may make two requests, as `embed_text` first asks a client for the name of its model. Time is kept as whether a circuit cools down and whether a deadline is found passed. |
| `EvidenceSources` | dense retrieval, segment projector, BM25 fields, literal filter | A loaded bundle of artifacts is a record; a matrix is a function from events and frames to scores. Encoders and lexical scores are tables. |
| `TemporalEvidence` | `retrieval/plan.py`, `retrieval/evidence/*` | The plan's text views, calibration, routing by cue words, coverage, fusion: operators on fixed-point numbers. |
| `TemporalDecoding` | `temporal/dp.py`, `temporal/transition_decoder.py`, `retriever/video_scores.py` | Both decoders as recurrences over positions and layers, the forward and the backward program under a mask, the ranking over videos, and the checks of rows against a corpus. |
| `FrameRetrieval` | `retrieval/retriever/*`, `workflows/avs.py`, image search | Best frames of each modality, RRF over the modalities that answered, AVS coverage order. |
| `SearchService` | `retrieval/serving/*`, `orchestration/*`, `storage/snapshot.py` | Threads at a step of a call; `Load` and `Stop` of the server in between. `put` and `get` of snapshots take several steps because nothing locks them. |
| `Enrichment` | what the stages share | Settings, frame store, model commits, the one running job, the journal of `pipeline/runner.py`. |
| `CaptionStage`, `OcrStage`, `ObjectStage`, `TranscriptStage`, `ContextStage`, `IndexStage` | `src/offline/enrichment/*`, `src/offline/embeddings`, `src/offline/indexes` | Each extends the one before and adds its artifacts as variables; a job is steps over batches, with its checkpoints, refusals and publication. |
| `Preparation` | `pipeline/runner.py` and all stages | The composition: stages in any order over one set of artifacts, and the changes between them. |
| `Publication` | `enrichment/bundle.py`, `transcripts/publication.py`, `retriever/artifacts.py` | The three protocols rename by rename; any operation may raise, any process may be interrupted or die. |
| `RevisionLog` | *abstract* | A revisioned document with undo. `EventTrail`, `QueryHypothesis` and `FeedbackSession` implement it. |
| `RevisionRegister` | *abstract* | Requests of concurrent clients take effect one at a time, guarded by revision. `SessionStore` and `HypothesisStore` implement it. |
| `*Proofs` | | theorems about the module of that name; `SearchProofs` has those of `SearchService` and of the modules it extends, `EventTrailProofs` those of `TrailDecoder` and what decoding and the snapshots have to do with each other, `RequestProofs` those of `FeedbackSession` and `InferenceGateway`, `OfflineProofs` those of `Publication` and `Preparation` |
| `MC*` | | constants of the small instances |

The models meet where the code does: `EventTrail` is what happens between
`reading` and `writing` of `SessionStore`, as `QueryHypothesis` is for
`HypothesisStore`, and the revision is all that the stores need to know of them;
`SearchService` evaluates the operators of the four search modules; `Preparation`
runs the stages over shared variables, and what it publishes in one step
`Publication` takes apart.

An operator whose comment starts with *Mutant* is no part of the model. It is a
plausible bug in the definition after it, and the property it is paired with in
`PROJECT.json` fails when it takes that definition's place.

Abstractions worth knowing:

- *Decoder.* One indexed frame per timestamp. `TrailDecoder`'s `Score` is an
  arbitrary integer per path, so nothing depends on how evidence is added up, and the
  session decodes to *a* best path and lists *some* best path through each peak: that
  the dynamic programs attain the maximum over `Feasible` is assumed there.
  `ProgramsAnswer` checks it of the recurrences, under the anchors, rejections and
  windows of every session that the run `event_trail` reaches, with scores that tie.
  `DecodersAgree` says it of the forward recurrence and the motion graph without
  constraints; it is checked by `search` and proved for all sizes.
- *Queries.* Whitespace and split points inside a piece are not told apart; images are sets.
- *Feedback.* What the language model answers is arbitrary. Results are known by the
  overrides they were searched with, so "the results belong to the overrides" is
  an equation. The slot's lock is taken for granted.
- *DRES.* One evaluation, and credentials for every user and the administrator.
- *Gateway.* Payloads are a kind and whether they are damaged. The cooldown ends at
  some time; a deadline may have passed wherever it is looked at.
- *Search.* Floats are fixed-point integers with `eps` zero, so ties and zero
  spreads are exact cases. Encoders, BM25 and image scores are tables.
- *Preparation.* A text is known by the settings and model commit that made it. The
  revision of a caption job is what was resolved when it began, the pinned one, the
  server's, or none when the server does not tell; which model made a caption
  after that is not known, as the server may be replaced under the job. A caption job
  may be told no frame store (a list of datasets need not name one) and then takes rows
  of any; OCR and objects are told the runner's.
  Frames, videos and settings are small sets; files are replaced in one step except
  in `Publication`, where contents are known by the publication that built them.

## The runs

Each finishes within five minutes with two workers.

| Run | Module, bounds | Question |
|---|---|---|
| `event_trail` | `TrailPrograms`: 3 events, 5 frames of which two share a cluster, equal scores, 2 revisions, windows of which one is reversed | Best paths, exact exhaustion, anchored selections and rejections after every mix of actions and stale lists; both dynamic programs under the constraints of every session |
| `session_store` | `SessionStore`: 2 threads, 2 sessions, capacity 1, TTL 1, 4 requests | Closing, eviction and expiry of busy sessions, linearisation, termination |
| `query_hypothesis` | `QueryHypothesis`: query `a b a`, two typed texts, one image, 2 checkpoints, 4 revisions | What validators demand of events, split and merge, undo |
| `hypothesis_store` | `HypothesisStore`: 2 clients, 2 sessions, capacity 1, 4 requests | No eviction in use, no lost update |
| `feedback_session` | `FeedbackSession`: 2 events, 1 text, 1 checkpoint, 3 requests | Requests once, results and overrides, the page |
| `dres` | `DresService`: connect, disconnect, read and log at once, or connect and submit with activation; 2 tasks, 3 tokens, 2 polls | Answers recorded and reported, tokens, termination |
| `activated_task_ran` | `DresService`: one activation and the organisers, 2 tasks; a violation | see below |
| `inference_gateway` | `InferenceGateway`: 2 threads, 2 servers, bulkhead 1, threshold 2, 2 attempts, texts, health checks and answers that break the contract | Places, probe, recovery |
| `probe_allowed` | `InferenceGateway`: 1 thread, 1 server, protocol errors; a violation | see below |
| `search` | `SearchService`: 5 frames in 2 videos, 7 builds of the server, 16 requests, 2 threads; four scenes of calls, loads and outages | Snapshots, identities, evidence, decoders, AVS order |
| `preparation` | `Preparation`: 2 frames, 2 frame stores, 3 settings, 2 videos, 1 death; eleven plans of 2 to 4 jobs | What manifests state, what is joined, what is reused |
| `publication` | `Publication`: 2 data files and a manifest, 3 publications, 2 faults, 2 deaths or interruptions, each protocol | Mixtures, losses, all or nothing |

*Why the bounds are enough.* Three events are the least in which one has events on
both sides, so that the conditioned path is joined from both programs, each of more
than one step; five frames leave each event a choice. Two frames in one cluster are the
only way an anchor order differs from time order, and equal scores the only way the two
programs differ. Two committed actions suffice to anchor or restrict and then to make
the trail infeasible, repair, release or undo, on a list computed at any of the three
revisions; longer sequences are what the proofs cover.
In the stores, a capacity of one makes every second session an eviction, two threads
are the least that race for a slot, and four requests let a session be opened, used
by two at once, and looked up after it expired. A query in which a piece repeats is
the least in which `find` can hit the wrong place. One checkpoint makes the second
commit forget the first. Three feedback requests allow one to be repeated after it
was undone, with another caller in between. In DRES three tokens allow the refresh of
a refresh. For the gateway, two servers allow a failover, a text may find its client with and
without a name, a bulkhead of one makes
the second thread a refusal, threshold and attempts of two tell the first failure
from the last. For search, one video has three frames, one of them embedded out of
order, so a position, an index and a row number all differ; the seven builds differ
in one aspect each (no speech and context, no lexical fields, other times, other
ids, the same with a corpus that disagrees); two calls overlap in a store with room
for one, and a third call meets what they left. For preparation, batches of one frame
let a death fall inside a job; two frame stores of the same ids and two settings of
one version are what identities could confuse; each plan holds the stages that read
each other's artifacts. Two data files are the least that can be mixed, three
publications let a stale backup meet a later one, and two faults let the recovery fail.

What stays the same for larger instances is what the theorems are about.

*Bounds and deadlock.* Requests, revisions, clocks, tokens, polls, publications,
jobs and loads are bounded by guards of the actions that consume them
(`MaxRequests`, `MaxRevision`, `MaxNow`, `Tokens`, `Polls`, `MaxPublications`,
`MaxStops`, the `jobs` of a plan, the `calls` and `loads` of a scene). Where they
stop the system, the configuration turns the deadlock check off; `event_trail`, the
DRES runs and the gateway runs keep it.

*Symmetry* is used in `feedback_session` for texts and events and in `search` for
threads. Both check invariants only.

## Fairness and refinement

`FairSpec` of `SessionStore` asks that a thread which can go on does (`WF` of each
thread's own steps): the operating system schedules threads and `threading` wakes
a waiter when a lock is free. It asks nothing of clients and the clock. Python's
locks are not queues, so one thread could lose every race against endless newcomers;
the bound on requests excludes that, and `CallsEnd` says that a call ends once
others stop arriving.

`DresService` asks that the event loop runs every task that can go on and that each
outstanding request is served or times out, which `httpx`'s timeouts see to.
`asyncio.Lock` is fair, and its queue is not modelled.

`InferenceGateway` asks that threads go on, that exchanges end (`httpx` again) and
that cooldowns pass. It asks nothing of the servers: `CircuitRecovers` has as its
hypothesis that the server comes to serve for good and that requests keep arriving
at the circuit. Everything else is checked without fairness.

*Refinement.* `LogSpec` (in `EventTrail` and `QueryHypothesis`, where runs check it,
and in `FeedbackSession`, where it is proved) maps document and checkpoints to
`RevisionLog`. `RegisterSpec` (in `SessionStore`, where a run checks it, and in
`HypothesisStore`, where it is proved) maps each client's call and answer to
`RevisionRegister`: a request takes effect in one step between its call and return.
What a `get` shows is no part of the register: the hypothesis store reads it without
the lock.

## What is proved

`tlapm` checks all proofs from the named assumptions of the modules, which say what
the code's settings and validators guarantee:

- trail: `TimesAssumption`, `ClusterAssumption` (a cluster starts no later than its
  frames), `ScoreAssumption` (a best path exists, as a video has finitely many
  frames), `EventCountAssumption`, `SettingsAssumption`, `WindowInputsAssumption`,
  `MaxRevisionAssumption`;
- stores: `StoreAssumption`, `ThreadsAssumption` (finitely many threads),
  `BoundAssumption`, `HypothesisAssumption`;
- queries: `QueryAssumption` (not empty), `TypedAssumption` (typed texts are not
  empty, which the request models demand), `LimitAssumption`, `MaxEventsAssumption`,
  `RevisionAssumption`;
- feedback: `FeedbackAssumption` (the keys of overrides are events or invented ids);
- DRES: `JobAssumption`, `KeysAssumption` (the administrator is no participant) and
  `PollsAssumption` (the code polls at least once);
- publication: `KindAssumption`, and `BoundAssumption` (at least one data file besides
  the manifest);
- preparation: `ConfigAssumption`, `CountAssumption`, `VideoAssumption` (finitely many
  videos; every frame has one), `SourceAssumption`, `ShardAssumption`, `WriteAssumption`,
  `PlanAssumption`;
- gateway: `PoolAssumption` (finitely many callers, at least one server),
  `ConfigAssumption`, `RequestAssumption`, `HostedAssumption`, `FaultAssumption`;
- search: `ThreadsAssumption` (finitely many), `RoomAssumption` and `TtlAssumption`
  (capacity and lifetime are positive), `ScenesAssumption` (what is searched is one of
  the declared corpora, builds and requests), `CorpusAssumption` (frame times are
  numbers), `AvsAssumption` (window, pool and page size are natural numbers),
  `BuildsAssumption` and `LoadsAssumption` (a load has finitely many frames, each with a
  video, a place, a time and a vector), `KisAssumption` (a query has at least one event
  and asks for at least one row, as its request model demands), `ScoresAssumption` (an
  index scores every frame for what it is asked), `FusionAssumption` and
  `DecoderAssumption` (what the validators of the fusion and alignment settings accept)
  and `AbsentAssumption` (Python's `None` is no row of scores);
- and that `None` is none of the values it is compared with (`NoneAssumption`,
  `SpanNoneAssumption`, `HypothesisNoneAssumption`, `DresNoneAssumption`, `NoRecordAssumption`, ...).

There is no bound on the number of events, frames, threads, sessions, clients,
servers, calls, files, failures, crashes, jobs or requests beyond what these say.

**Decoder** (`EventTrailProofs`). `Decode` is defined as a best admissible path; the
theorems of the trail are about what the handlers make of it. `ModeFramesDisjoint`: the
rejection intervals of any peaks are disjoint, whatever the midpoints round to.

**Trail** (`EventTrailProofs`). The invariants hold together but not one by one:
undo restores an old checkpoint, so each checkpoint must be as sound as the present,
and the bottom one must be the unconstrained trail. The inductive `Inv` is their
conjunction with `HistorySound`. The proof splits steps in three (`StepCases`):
listing alternatives, undo, and *commits*, all of which are shown to be
`SoundCommit`s; `CommitPreservesInv` then serves all nine committing handlers. The
step worth reading is `RepairIsBest`: a repair searches only a block of events around
the one repaired, but the path it starts from is among its candidates and, from the
first action on, already a best one; at revision 0, where the path comes from another
scorer, nothing is anchored and the block is the whole query. So repair loses nothing
against a full decode.

**Trail store** (`SessionStoreProofs`). `Inv` adds that pending ids are fresh
(`FreshIds`) and that a thread between acquire and release is the one the slot
names, with the revision it read still in place (`LockInv`). The maps, the counts
and the locks are treated by lemmas of their own, because most steps touch one of
them. `StoreIsRegister`: every request takes effect at one moment.

**Hypothesis store** (`HypothesisStoreProofs`). `BusySessionsStay` and
`UpdatesNotLost` become inductive with `Counts` (`in_use` is the number of calls that
hold or await the slot, which is why `put` may evict where it is zero), `Local` (what
a call knows: its lock, the revision it was checked against, the view it was given)
and `FreshIds`. `OthersLocal` shows once that a step of one client leaves the
knowledge of the others true; each action then has to show only its own.
`StoreIsRegister` adds that only mutations name a revision and that the intent of a
session nobody opened is at its start (`Expectations`); a call takes effect in the step
that answers it.

**DRES** (`DresServiceProofs`). Calls interleave at every `await`, so the invariant says
of each call by itself what it can be doing (`Local`), who holds the lock of a login and
what the session it refreshes is (`Locks`), and how its books stand (`Books`): nothing
was recorded and nothing is on its way; or one answer was recorded and the call was told
so or does not know; or one request that the client gave up on may still be served and
the call does not know. The last case is why `AnswersAccounted` is not inductive by
itself: an abandoned answer is recorded later, when its call may be at any step.
`LocksStep` and `ClientStep` carry the others' part of the invariant over a step of one
call. `ConnectsOnlyByConnect` needs that a refresh finds, under the participant's lock,
the token it replaces.

**Publication** (`OfflineProofs`). What an operator would put together from files and
backups (`Merged`) is the newest whole generation or, before there is one, has no manifest
(`Kept`), wherever a failure or a death leaves the files. That is not inductive either,
because a failing operation leads into the recovery loop with files half moved: `Phase`
says for each loop which files are where. It holds while the publication is `Sound`:
always for bundles; for directories until a recovery failed; for transcripts until a
recovery failed or a process died or was interrupted, after which a stale backup may be
put back over newer files. `Directories` holds without that proviso, since a directory
moves as a whole, so `NeverMixes` needs no condition for it. `NeverMixes` and
`NothingIsLost` follow from `Kept`, `EndsWithOldOrNew` from the last step of each loop.
The last one states an exception that is the code's: where the deletion of a directory's
backup failed part of the way, the directory is put back with the files that are left
(`PartOfOld`), and the proof is that no other generation gets in among them.

**Preparation** (`OfflineProofs`). None of the invariants of `Preparation` is inductive:
what is published is right because what the job had in hand was. `PreparationInv` adds
that, one part per stage: all rows of a caption job, those it took over too, are of the
settings and the frame store it was told, if any (`CaptionJob`); the context holds texts
of the frame store it is stamped with (`ContextOK`), which the index of contexts rests
on; a segment file and a manifest
that are both there were made together (`PairsBelong`, which a death between the two
renames keeps by leaving one of them away), and each video of a transcript job is still
to come, failed, or current (`TranscriptJob`); each vector of a build is that of its own
frame, and a build without failures has all frames but those of slices to come
(`VisualJob`). `Within` says once what a step of a stage leaves alone: settings, frame
store, and the record that the image index is good. So each stage's lemma
(`CaptionStep`, `TranscriptStep`, ...) is about its own artifacts, and `CaptionsStay`,
`TranscriptsStay` and `IndexesStay` carry the others over, over `Change` too, which
happens between jobs. `IndexesBelong` needs of the bundles of captions and texts only
what `Readable` checked, and of the context what the job that joined it checked.
`InOrderLists` shows that the work of a job lists each frame; `SlicesFacts` that the
slices cover the frames, whatever the shard size. The attempt to prove these found that
`Chunk`, as it was written, had no meaning for a last batch shorter than `BatchSize`,
where TLC happened to read it as intended; it is now defined for all lists. TLC checked
`PreparationInv` over all states of the run `preparation` before it was proved.

**Editing** (`QueryHypothesisProofs`). `EventsStayConsistent` is what
`KISEvent.validate_evidence` demands of every event, and that some event keeps a text; it
does not claim the cap on the number of events, which the code does not keep (below). It
rests on lemmas about the
text operators: a grounded text is the part of the query its span names
(`GroundProperties`), halves and merged events are valid whenever their sources are,
a replaced range keeps the others (`ReplaceProperties`), and a reordering is onto
because it is one-to-one on a finite set. `MergeAlwaysUndoesSplit`: from where the
first half was found, the leftmost occurrence of the second is where it was.

**Feedback** (`RequestProofs`). The three checked properties need one
invariant that ties every answer ever given to a log of the session's states: an
answer names a revision, and its state is the logged state of that revision
(`Truthful`); the page's only outstanding call named the revision the page shows.

**Gateway** (`RequestProofs`). A request for a model's name goes through the same steps
as the call it is made for, and leaves the call at the gate again (`ReturnsStep`).
`PlacesComeBack` is inductive with the types
and the shape of a call; `CountMoves` turns each step into a change of one caller's
membership. `ProbeIsAllowed` adds that a probe in flight belongs to an admitted call,
and holds under `"protocol" \notin Faults`: without that assumption it is false, as
the run `probe_allowed` shows.

**Search** (`SearchProofs`). `SearchInv` says what a conversation knows at each
step and what the shared store is. Loads are only ever appended, so what a load of
artifacts computed stays what it computed: a reply names the load that gave it
(`SharedOK`, `ConversationsOK`), whichever load the server has by the time the reply is
judged, stored or read back; and only rows that passed the check against the corpus go on
to be stored. `SnapshotsOfTheirRevision` and `RowsStayCanonical` follow. `put` reads the
store's length and appends in later steps, so the bound of the store is inductive only
together with the puts on their way: the length and the number of puts that found room
and have not used it yet are together at most `Room` and the threads less one
(`RoomKept`), from which `StoreStaysNearlyBounded`. TLC checked `SearchInv` over all
states of the run `search` before it was proved.

`PagesStaySpread` is about the AVS selector itself. `PagesOK` adds to the property that
the server's answer is a list (`TextAnswerIsList`, through each modality, the fusion and
the cut to the pool).
For any such list, the deduplication keeps frames apart that lie within the window
(`DeduplicatedApart`, over the length of the list), and ranking by depth and then by
place in that list puts every frame in a place of its own (`ListedByOrder`). A frame
then has as many frames of its video before it on the page as it had among those kept
(`DepthInOrder`: the two sets are the same size), so that depth never falls along the
page, and a prefix of a page is spread as the page is. Induction is used in the form
that a set of numbers has a least member (`LeastNumber`). For this proof the model says
`Arranged` by the ranks of the members and `Deduplicated` as a recursive function,
where it had a sort and a fold, of which nothing could be proved; the run `search` has
the states it had. `SearchService` and `InferenceGateway` call Python's
`None` `Absent`, because the `None` of a session is another value with assumptions of its
own.

**Scores** (`SearchProofs`). `EventsStayIndependent`: an event of a query is scored as if
it had been asked alone. `CoverageStaysNeutral`: transcripts that say nothing at a frame
leave its score as it is without them. Both compare two runs of the whole scoring, from
the texts through deduplication, calibration and weights to fusion. The first lemmas show
that a sum over a finite set is a number and may be taken in any order (`TotalTakesOne`),
that a quantile lies between the values it is a quantile of (`QuantileIs`), and so that a
calibration is made of numbers (`CalibratedIs`): a spread of zero is treated apart, as in
the code, so that nothing is divided by zero. Then `BundleIs` says which experts are asked
for a plan, and what each of them says of an event: what it says of the event's own texts,
since `ExpandedIs` hands the scores of the distinct texts back to the events they came
from, whatever texts other events add. `FusedAlike` is the step both theorems end with:
two bundles fuse to the same score at a frame when the experts that weigh anything there
agree. For the first they are the experts of the event, as those which its plan does not
ask weigh nothing (`WeightAt`); for the second, those without a coverage mask or with one
that holds the frame.

**Decoders** (`EventTrailProofs`). `SnapshotsRedecode`: for each video of a snapshot,
the stored evidence and settings decode to the path that the answer showed first of that
video, which is why a trail opens on what the operator saw. The matrix holds a number
for each event and frame, `SplitIs` gives each video its part of it, and a table of
paths is made layer by layer over the positions that a path reaches (`PathTableIs`). The
first row of a video is then the best endpoint of its table (`BestRowsAre`): it depends
neither on the separation nor on the limit, in which the answer, with several rows of a
video, and the trail, with one, differ; and everything it does depend on travels with
the snapshot. Whichever way rows are ranked, a video's best row comes before its others
(`RankedRedecodes`). `DecodersFindTheBest`: with motion weighing nothing and as many
candidates as frames, the static decoder and the lattice find the same best row, and no
chain of frames scores better. `LayersBest` is the usual argument for a dynamic program,
over the number of the layer: where a layer holds the best of *all* paths that end at
each position, so does the next one, because the time penalty of a path is the sum over
its steps (`TimeAdds`) and a source may be any position of an earlier cluster. A chain
needs as many clusters as there are events, so a query that is not `ready` has none
(`PreparedIs`, `FreeForIsFree`). `RankBest` and `BothBest` carry this to the ranked
rows.

For these proofs the model was restated without changing what it computes: `Total` for
sums, recursive functions instead of folds for clusters, tables and kept endpoints, layers
that hold the positions reached instead of a score of minus infinity for the others, a
lookup instead of string concatenation for the names of the lexical experts, and the
stable order of `VideoFrames` among equal indices. One thing was wrong and is
corrected: `Powered` squared the scores where the settings allow only powers up to one;
it takes the root now.

**Only model-checked**: liveness (`CallsEnd` twice, `CircuitRecovers`), which the
prover does not reach, and `ProgramsAnswer`, whose scores are those of the run's video:
`DecodersFindTheBest` proves the forward program without constraints, and nothing is
proved of the backward one. Every other property that a passing run checks is proved.

## Where the code and its documents disagree

Shown by a run:

- `activated_task_ran`: one activation, of task A, while the organisers run task B. It
  reads the status, RUNNING, which is B's (`vbs/service.py:260`); the organisers stop B
  and select A without starting it; the next request names A (`:266`), and the
  activation reports success (`:271`) for a task that never ran. The docstring (`:226`)
  says "ensure the specified task is actively RUNNING". The polls after a start (`:286`)
  likewise take any RUNNING status for the task's own, and succeed when they run out;
  TLC's shortest trace does not need them.
- `probe_allowed`: the circuit breaker allows "one half-open probe"
  (`src/llm/remote/resilience.py:64`); a probe that ends in an error which
  `gateway.py:151` does not catch never returns its permission, and the gateway then
  refuses every request.

Met while modelling, without a run:

*Sessions.* With a list of alternatives computed before the operator put a frame on the
event, choosing an alternative moves the anchor but not the frame held for submission
(`event_trail/actions/transitions.py:940`), while
`src/paper/sections/interactive_hypothesis.tex:93` says submissions use the frame selected
with Use. A listed alternative need not be what choosing it gives, although it is shown
"with its complete decoded path" to inspect "how choosing that occurrence affects the
remaining events" (`interactive_hypothesis.tex:70`): `event_trail/service.py:206` returns
the cached list whatever changed since, and on a fresh one ties are broken toward the
earliest successor (`temporal/dp.py:281`), in the decode that follows toward the latest
predecessor (`:183`). The cap on events that `KISIntent.validate_graph` checks
(`kis/models.py:217`) is passed by splitting and adding, which copy the intent without
validation (`kis/hypothesis/mutations.py:122`, `:275`). Merging adjacent spans brings back
text that an edit replaced (`kis/hypothesis/mutations.py:189`). `event_ids` of a
refinement is checked against the intent, the keys of `refinements` are not
(`kis/feedback/resolver.py:45`). `get` of a hypothesis may pair an older intent with a
newer revision (`kis/hypothesis/service.py:89`). The "bounded" hypothesis store
(`kis/hypothesis/store.py:1`) never drops a tombstone (`:97`). A feedback turn that fails
leaves its message in the transcript (`kis/feedback/service.py:163`); a page that lost an
answer keeps a stale revision that nothing refreshes (`SearchWorkspace.jsx:698`).

*Gateway.* The outcome of a call admitted before the circuit opened can close it or
extend its cooldown (`resilience.py:111`). A passed deadline counts as success. A
caller's own errors on the text and audio routes come back as 503 and count against
the server. The DINO and boundary routes look for models that no server loads.

*Search.* `_dense_projection` logs with a name it does not have, so a failing
translation is a `NameError`; the model raises. Optional sources tolerate a failing
index but not a failing text encoder. With a local retrieval service
`scoring_revision` is `None`, and `create_evidence_snapshot` raises. The revision is
drawn per load and does not cover the model servers' weights, nor does the key of
the embedding cache (`retriever/query_batch.py:57`). Artifacts that disagree with the
server's corpus are reported as an invalid query. A text event over image-only
evidence is scored zero in silence. EventTrail decodes rows of the motion graph with the
static decoder: the kind of decoder does not travel. Candidate pruning can leave a
video without a path that has one. Unlocked snapshots: `popitem` on an emptied store
and `pop` of a taken entry raise, and the room is exceeded by as many puts as overlap
(`NearlyBounded`).

*Preparation.* A caption checkpoint does not record what decides its texts: prompt,
decoding and image size are not compared on resume (`caption/generator.py:515`), nor
are `image_size` and confidence by OCR. An empty caption is stored as completed and
makes every later publication fail. The object detector's batches are never emptied
(`objects/generator.py:258`), so stores of several batches are refused (`:374`).
Transcripts publish over a stale backup and put it back when they fail
(`transcripts/publication.py:39`). A directory whose backup cannot be deleted to the end is
rolled back to what is left of it, where a comment says "so the previous complete bundle
remains usable" (`retriever/artifacts.py:78`). Ctrl-C during a publication of transcripts
skips the restoration and deletes the backups of what was replaced
(`transcripts/publication.py:50`), although the docstring (`:30`) says "roll back every
previous target on failure". After a death between renames,
bundles and directories are refused until somebody tidies up. Image vectors are
reused whatever model made them. Indexes compare the frame store when built, not when
served. The journal is read, changed and written without a lock.

## What is not modelled

`PROJECT.json` gives the reason per component. In short: the evaluation scripts
measure finished rankings; caches are transparent; the corpus, the catalogue and the
video origin are read-only; contracts, wiring and observability only validate,
assemble and count; model weights are input. The page's hooks for trails and
submissions hold presentation state over revisions and calls that are modelled.

Three hazards carry no property of their own: the unlocked read of a hypothesis, whose
answer no page turns into a mutation; the page hook's late alternatives, which belong to
that hook; and the reuse of a context, whose guard compares all that decides the content,
so that a property would only repeat it. No property demands of the code what the list
above says it does not do. In the modelled components, wording, logging, latency and
layout are left out, and so are these operations: `remove()` of the snapshot and
hypothesis stores (no caller), the feedback store's slot protocol, the interaction log,
the health and single-video routes of the retrieval server, `limit` of the transcript job,
and settings that change while a job runs.

## What could come next

1. `EventTrailPage`: `useEventTrail.js` over `EventTrail`'s revisions: generations,
   aborts, conflict refresh, focus requests. Property: alternatives shown belong to
   the revision shown.
2. The feedback store's slot protocol as a further implementation of
   `RevisionRegister`.
3. A proof of `ProgramsAnswer`: that the masked recurrences of `TemporalDecoding` attain
   the best of `TrailDecoder`'s `Feasible`, forward and joined at an event, for all sizes.
