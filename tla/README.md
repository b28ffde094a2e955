# Canary Alpha: a verification project in TLA+

Canary Alpha is a local server that reads what a screen-capture program
(Screenpipe) records, extracts text from it, computes embeddings, groups
activity into sessions and answers MCP clients about it. This directory holds
TLA+ modules of the parts whose correctness depends on order, failure and
concurrency, TLC configurations that model-check them, and TLAPS proofs about
them. Paths below are relative to the repository; line numbers are those of
the commit the modules were written from, and `PROJECT.json` (`map`) gives
them for every definition.

    tlc -config Services.cfg MCServices     # model-check one configuration
    tlapm ServicesProofs.tla                # check the proofs

## 1. The system

One Node process (`serve`) runs the transports, a poller, a cron scheduler and
a few timers in one event loop. `rebuild-index`, `config` commands and the npm
scripts run beside it as processes of their own, on the same home directory;
Screenpipe and its supervisor record into a database that the server reads and
also rewrites. Nothing but files and SQLite databases is shared between
processes; inside a process, everything that is read before an `await` may have
changed after it.

| Component (source under `src/src`) | State | Operations | What makes it hard | Module |
| --- | --- | --- | --- | --- |
| Runtime process registry, rebuild lock (`services/runtime-process-registry.ts`, `index.ts`) | a marker file per server, one lock file | register, list live records, acquire and release the lock, ensure it is not held, look for servers without a marker | processes, crashes between file calls, staleness judged by pid and then acted on by path | `RuntimeRegistry` |
| Status services (`bootstrap-status-service.ts`, `diagnostics/ingestion-observability-service.ts`) | none | report peers and the capture state | sweeps the registry while it asks | `StatusReport` |
| Embedding service, limiter, hash index (`work-activity/embedding-service.ts`, `retrieval/provider-factory.ts`) | content-hash cache, slots in use, waiters | embed, cache, acquire and hand over a slot | slots must come back on failure; a search shares them with indexing | `ModelCalls` |
| Summary worker, LLM client (`work-activity/summary/`, `llm/`) | summary columns of a session | choose a provider, ask, time out, degrade, write | pause read once; answers come late or never | `ModelCalls`, `DerivedData` |
| Indexing service and poller (`retrieval/indexing-service.ts`, `bootstrap/create-app.ts`) | checkpoint file with backlog offset; rows and vectors | `runOnce`: fetch, extract, embed, upsert, re-check, persist | partial failure, crash before the checkpoint, paging a source that grows, privacy changing during the run | `Indexing` |
| rebuild-index (`index.ts`) | the same | reset, then rounds of `runOnce` over the whole history | killed between resets and rounds | `Rebuild` |
| Session aggregator and store, cascade delete (`work-activity/sessions/`, `cascade-delete-coordinator.ts`) | rows, sessions, vectors | extend, close, flush, delete in two stores | replays; a run writes back what a cascade removed; readers flush too | `DerivedData`, `WorkHistory` |
| Line-delta deduplication (`work-activity/extraction/universal.ts`) | lines seen per context | preview, commit, roll back, hydrate | only frames that were indexed may commit | `LineDelta` |
| Find, recall, inspect (`work-activity/find/`, `recall/`, `inspect/`) | none | page, filter, group, summarise | rows and privacy state are read at different moments | `Reads` |
| Capture client (`capture/providers/screenpipe/http-client.ts`) | none; pages of an HTTP API | search and recent over two content types, merged | one offset for two queries of unequal length | `CaptureSearch` |
| Frame reader, maintenance, vacuum, trim (`maintenance-adapter.ts`, `frames-reader.ts`, `vacuum-init.ts`, `trim-service.ts`) | Screenpipe's database | sweep, reclaim, vacuum, delete by age or request | four writers, two of them another program's | `CaptureStore` |
| Text extraction, secure fields, context key (`strip-secure-ax-subtrees.ts`, `universal.ts`, `context-key.ts`) | none | cut secure subtrees, read the tree, derive the key | depths that are missing, two input forms | `FrameText`, `Extraction` |
| Privacy control and store (`services/privacy/`) | `privacy-state.json` | pause, resume, exclude, remove, delete-range, reconcile | read-modify-write across awaits, one temporary file name for all writers | `PrivacyControl` |
| Configuration (`config/`, `scripts/service-runtime-config.js`) | `config.yaml`, launchd's plist | edit from dashboard and CLI; settings of a service | a queue per process; settings copied at install | `Settings` |
| App-home migration (`config/app-home-migration.ts`, `scripts/app-home-migration.js`) | two directory names | move, rewrite, roll back | crash between renames, several starts at once | `AppHome` |
| Operator scripts (`scripts/`) | pid file, plist, launchd, onboarding marker | start, stop, up, down, resume | two terminals at once, reused pids, failing clean-up | `LocalStack` |
| Routines (`services/routines/`) | definitions, run history, cron tasks in memory | start, refresh, fire, append run | overlapping refreshes; history read-modify-write | `Routines` |
| Memory, file analysis, diagnostics, transports, dashboard UI | small or none | | | not modelled, see 9 |

How they interact:

    operators --scripts--> recorder, service            config.yaml --> settings of serve
                               |
    Screenpipe's database <--maintenance, trim, delete-range (cascade)------+
        |  search, frames                                                   v
        +--> Indexing --extraction, sessions, lines--> derived.db <--find, recall, inspect
                 |  ^ isBlocked per record                 ^ summaries
                 |  |                                      |
              embedding provider                    language model
                    privacy-state.json <-- privacy control, trim (tombstones)
    serve <--marker / rebuild-index.lock--> rebuild-index (resets vectors and checkpoint)

What each must get right:

* Registry: no server polls while the index is rebuilt; a live server can
  always be found; a dead process's files block nobody for ever.
* Indexing: whatever fails or dies in a run, each captured frame is eventually
  indexed, or was blocked, empty, or beyond the catch-up span.
* Privacy: a paused tick, a deleted range and an excluded application stay
  blocked, and the file is always whole; nothing leaves for a model in a pause.
* Derived layer: a deleted frame goes and stays gone; a frame counts once,
  however often it is replayed; what is told of a session is its own.
* Lines: a line is dropped as seen only if the frame it was seen in was stored.
* Reads: an answer was true at some moment of the request; a page is not
  skipped; blocks add up.
* Capture database: rewriting a tree loses none and doubles none; the derived
  layer hears of exactly what was deleted.
* Text: no word of a secure field is indexed, and no other word is lost.
* Routines: one task per definition, one run at a time, nothing sent in a pause.
* Operations: stop means stopped; an install is whole or undone; an edit, a
  record, an answer to a user is not lost.

`PROJECT.json` lists the hazards behind these, each at its line.

## 2. Modules

| Module | EXTENDS | Checked in | Proofs |
| --- | --- | --- | --- |
| `RuntimeRegistry`; `StatusReport` over it | | `MCServices` | `ServicesProofs` |
| `ModelCalls` | | `MCServices` | `ServicesProofs` |
| `Indexing`; `Rebuild` over it | | `MCIndexing`, `MCRebuild` | `IndexingProofs` |
| `DerivedData`, which implements `WorkHistory` | | `MCDerivedData`, `MCLineDelta` | `DerivedDataProofs` |
| `LineDelta` | `DerivedData` | `MCLineDelta` | `LineDeltaProofs` |
| `Reads` | `DerivedData` | `MCFrames` | `ReadsProofs` |
| `CaptureStore`, `CaptureSearch` | | `MCFrames` | `CaptureProofs` |
| `FrameText`; `Extraction` over it | | `MCFrames` | `CaptureProofs` |
| `PrivacyControl`, `Settings`, `AppHome`, `LocalStack` | | `MCOperations` | `OperationsProofs` |
| `Routines` | | `MCRoutines` | `RoutinesProofs` |

`MCServices`, `MCFrames`, `MCOperations` and `MCLineDelta` check several
modules in one run. Modules that share no variable are not interleaved there: a
variable `part`, chosen at the start, says which of them a behaviour moves, and
the others stay as they begin. That is exact, as no property speaks of two
parts, and it spares the product of their states.

Bounds are counters in guards (`MaxFaults`, `MaxRuns`, ...), so that a bounded
behaviour stops rather than being cut; a few constraints cut besides and are
named where they are used. Every bounded system stops, hence
`CHECK_DEADLOCK FALSE` throughout.

The runs, with the violated ones, which check what a document or comment of the
repository says and the code does not do:

| Run | Modules | Distinct states |
| --- | --- | --- |
| `services` | `RuntimeRegistry`, `StatusReport`, `ModelCalls` | 152,000, with liveness |
| `indexing_live` | `Indexing` | 317,000, with liveness |
| `rebuild` | `Rebuild`, `Indexing` | 2,054,000 |
| `lines` | `DerivedData`, `LineDelta`, `WorkHistory` | 1,179,000 |
| `frames` | `CaptureStore`, `CaptureSearch`, `Extraction`, `Reads` | 3,485,000 |
| `operations` | `PrivacyControl`, `Settings`, `AppHome`, `LocalStack` | 1,777,000 up to symmetry |
| `routines` | `Routines` | 1,443,000 up to symmetry |
| `capture_down`, `indexing_dropped`, `derived_write_back`, `lines_carried`, `paused_report` | as above | violated |

## 3. The server processes: RuntimeRegistry, StatusReport, ModelCalls

**RuntimeRegistry.** `lock` is the pid in `rebuild-index.lock`, `markers` the files
of `runtime-processes/`, `pc` each process's position, and `seen`, `todo`,
`liveSeen` what a process holds in memory between awaits. An action is one file
operation: `ReadLock`, `JudgeOwner`, `UnlinkStale` are the three awaits of
`ensureRebuildLockNotHeld`, which a rebuilder runs once and a server twice
(before and after `Register`). `LinkLock` is the `link(2)` of
`acquireRebuildLock`; `ListMarkers`, `OpenMarker`, `ScanDone` are the sweep in
`readLiveRecords`; `FindLegacy` looks for servers in the process list, and
`Decide` asks the managed endpoint: both can only make the rebuilder give up.
`Crash` may happen anywhere and leaves the files. Recycled pids (the recorded
start time tells them apart) and temporary files (their names carry the pid)
are left out.

**StatusReport** adds the status request of a running server: the database
(absent, unreadable, readable), the age of its newest frame, then two sweeps of
the registry, each of which removes the markers of the dead while servers come
and go. The recorder starts, stops and writes between any two steps.

**ModelCalls** has the two models a server calls. The limiter's `active` and
`waiting` are the private fields of `ConcurrencyLimitedEmbeddingProvider`; the
indexing batch runs a pool of calls through it and through the cache by content
hash, in which several may miss the same text at once, and searches compete for
the same places. A summary is asked for, the privacy state is read, the request
leaves, and headers, body, an error or the timer come in any order; the session
may be deleted in between. A restart ends all calls, perhaps with another
embedding model and a rebuild.

| Run | Bounds | Shows |
| --- | --- | --- |
| `services` | 2 servers and 2 rebuilders of which one is not started; 1 asking server; 4 frames of which two share a text and one has none, 1 search, a limit below the pool; 2 readers of 1 session; one failure, one restart, one pause | `ExclusionUnlessClobbered`: as long as nobody has unlinked a lock it did not judge, no server polls beside a rebuild and one process rebuilds; `PeersAreSeen`; `SlotsAccounted`; `VectorsAccounted`; `NoOutboundWhenPaused`; under fairness `EveryLaunchSettles`, `EveryCallServed`, `EverySummaryEnds` |
| `capture_down` (violated) | the same | `DownMeansNotRecording`, as `docs/guide/troubleshooting.md:229-231` reads: the recorder runs, and the status reports `process-down`, because nothing but this program's own servers registers |

Three processes are enough for every pairwise race of the handshake (server
against rebuilder, rebuilder against rebuilder, a sweep against a registering
server, a stale lock against two who judge it, each with a bystander); the proofs lift
the bound. With a limit of one and a pool of two there is always somebody to
wake, and a batch of four outlasts the pool.

Fairness: weak fairness of each process's steps, since the operating system
schedules running processes and file operations return; nobody has to launch,
kill or stop a process. Of the models, `CallsFairness` assumes that the embedding
provider answers or refuses each call. Nothing in the code makes it: `embed()` sets no
timeout. Of the language model it assumes nothing; its timer fires, which is why
`EverySummaryEnds` says something.

**Proved** (`ServicesProofs`), for any sets of servers and rebuilders
(they need not even be finite) under `ProcAssumption`: `TypeCorrect`,
`Discoverable` (a server that polls keeps its marker) and `ExclusionTheorem`. The
exclusion is not inductive. `IInv` strengthens it with
`Judged` (a process about to unlink has read an owner that has ended, and an
ended process does not come back), `LockHeld` (whoever is past `link` owns the
lock) and `Handshake`: if a server serves while a rebuilder is past its `link`,
then the server's marker is on the rebuilder's list or was already met alive.
That is the heart of the protocol: the server wrote its marker before its
second look at the lock, the rebuilder took the lock before it listed, so one of
them sees the other. `LockHeld` and `Handshake` are claimed only while
`clobbered` is false, and each step of them is shown under `~clobbered'`.

`PeersTheorem` is `[]PeersAreSeen`. Its invariant follows a
request through its two sweeps: every server that was registered when it began
and still is (`StillThere`) is either left to open or already found alive
(`Swept`), so a first sweep that finds nobody means that they have ended
(`Noticed`), for good (`PeersEnd`).

The same module proves, for any frames, searches, readers, limit and pool,
under `CallAssumption`, the three safety properties of `ModelCalls`, each by
an invariant of its own. `SlotsTheorem`: `Limited` says that `active` is the number
of callers out, that the queue is a permutation of those waiting, and that
nobody waits while `active` is below the limit; a release and an acquisition keep that,
whoever makes them. `VectorsTheorem`: `Batched` says that no call is out for a
frame the pool has not come to (`InHand`), that a frame it has passed has a
call out or a result made from its own text, or failed (`Owed`), and that the
cache gives a text no embedding but of that text (`Hashed`). `OutboundTheorem`:
`Asked` carries what a request saw of the pause to its answer.

`clobbered` does become true: after a crash, a process that judged the dead
owner's lock may unlink the next owner's (`runtime-process-registry.ts:292`), and
two rebuilds run, which `docs/architecture.md:86` excludes.

## 4. The index: Indexing and Rebuild

A frame is its position in the order of `compareRecords`; frames have distinct
capture ticks. `ckpt` is the checkpoint file: a position and a backlog
(`from`, `to`, `off`), `NoBacklog` standing for its absence. A run walks through
`pc`:

* `StartRecent`, `StartBacklog`: `fetchCandidateRecords`, with the three cases
  of `getBacklogProgress` (stored backlog, none needed, one to open), the
  window arithmetic (`SearchStart`, `FetchWindow`), the paging by `off` and
  `Eligible`. The source answers in the order `newestFirst` says: Screenpipe
  does not promise one, so both are checked.
* `Extract`: Step 1, per record, with the privacy state re-read for each.
* `Embed`: Step 2, all settled before anything is stored; `Upsert`: Step 3, one
  batch.
* `Recheck` and `ProcessRecord`: the loop over records deferred by privacy. The
  state is read once per pass.
* `Finish`: the failure ceiling, the choice of the checkpoint and the backlog
  persisted with it, or the throw that persists nothing.
* `Abort`: an exception elsewhere, or a crash and restart, at any `pc`.

`Tick` captures frames and `ChangePrivacy` flips what is blocked, between any
two of these. Ghosts: `waived` (frames the service means never to index:
blocked when the run persisted, or older than the catch-up span) and `dropped`
(failed frames the stored offset has passed). Texts and sessions, equal
timestamps and the poller's interval are abstracted; the ten start-up rounds of
the poller are runs like any other.

`Rebuild` puts `rebuild-index` over it: the reset of the vectors, that of the
checkpoint, then rounds that force one backlog over the whole history, each a
run of `Indexing`. It ends, throws or dies, and the server goes on from what it
finds.

| Run | Bounds | Shows |
| --- | --- | --- |
| `indexing_live` | 4 frames (one empty), one per run, a window of one tick, one failed or killed run | `OnlyTheOffsetDrops`: everything at or below the checkpoint is indexed, waived, still ahead in the stored backlog, or was dropped by its offset; `EveryFrameSettles` |
| `rebuild` | 3 frames (one empty), one rebuild; three configurations: keeping up with pages of two; gaps of three ticks paged singly newest first; gaps worked off in three batches oldest first; two failures where it keeps up, one elsewhere (constraint `SomeFaults`) | `RebuildRestores`: success means every frame captured before is back; `InterruptedRebuildSkipsNothing`: a rebuild that fails or dies, between the resets apart, leaves `OnlyTheOffsetDrops` true |
| `indexing_dropped` (violated) | 4 frames, 5 ticks, the two catching-up configurations | `NoFrameLeftBehind`, the comment at `indexing-service.ts:785` ("ensuring failed frames are retried"): once the offset of its backlog page is stored and a later page moves the checkpoint past it, a frame that failed is not fetched again |

The bounds cover a backlog of at least two pages with frames arriving between
them, a failure in the first and in a later page, a restart in every step, and
a window that the gap exceeds. The violated run shows that failing frames do get
dropped, so the last disjunct of `OnlyTheOffsetDrops` is no idle excuse.

Fairness: `WF_vars(RunStep)`. The poller's timer keeps starting runs and each
awaited call returns or fails. A provider that never answers is outside it: the
`polling` flag then keeps later runs from starting. Failures are bounded by
`MaxFaults`: a provider that fails for ever indexes nothing.

**Proved** (`IndexingProofs`), for any number of frames, any capture times and
any settings, under `FrameAssumption`, `SettingAssumption` and
`BoundAssumption`: `TypeCorrect`; `NothingSkipped`, which is
`[]OnlyTheOffsetDrops`; and `OnlyFailuresDrop`, that no frame at all is left
behind if embedding and storing never fail.

`OnlyTheOffsetDrops` looks at the checkpoint alone and is not inductive: while a run
is on, its frames live in the sets the run carries. `IInv` adds `SkipsNothing` (below
what a run has in hand, and below the checkpoint, nothing is left out but what
a later page will bring), `StoredOffset` (every frame a stored offset has passed is
covered), `CheckpointIndexed` (the frame the checkpoint names is settled),
`Progress` (what each step of a run leaves for the next) and `InTime` (a captured
frame's time has come, so a search window opened later cannot reach behind it).
`OnlyFailuresDrop` follows because `dropped` grows by failed frames only.

The same module proves `RebuildTheorem` and `InterruptedTheorem`, for any history
and any page size. `RInv` says where a rebuild is (`Phases`) and, in its
rounds, what the one forced backlog means (`Forcing`): it reaches from the first
frame to the last one captured before, what its offset has passed is restored, and
what it has not is in the hands of the run or ahead. From the second reset on this
is what `SkipsNothing` asks of a stored backlog, so the lemmas for the indexer's own
steps carry over; only between the two resets is nothing accounted for, hence
`halfReset`.

The re-check loop reads the privacy state once per pass and then awaits each
record it releases, so the refresh per frame that `docs/architecture.md:127`
describes holds for Step 1 only; `Recheck` models it as the code has it.

## 5. The derived layer: DerivedData, WorkHistory, LineDelta

**DerivedData.** `content`, `sessions` and `vectors` are the tables of the derived
database and the vector store. A `sessions` row keeps its context, its evidence
(frames, in the order they were appended; `started_at` and `ended_at` are those of
the first and the last), `active_seconds`, `is_open` and the summary. Calls on the
SQLite stores do not yield to the event loop, so an action runs from one real await
(file, HTTP, model) to the next, and four actors interleave:

* an indexing run: `StartRun` (with its flush), `Admit` (the privacy check, and
  the request for frame detail), `Store` (row and `HandleExtraction`),
  `EmbedAndUpsert`, `Finish`, or `Abort`;
* delete-range: `RequestDelete` (suppresses, for `last_1h`), `DeleteUpstream`,
  `CascadeRows` (one transaction), `CascadeVectors`, or `CascadeFails` and
  `Bury`, and later `Reconcile`;
* `AskSummary` and `WriteSummary`, with the model's answer between them;
* `Flush`, by recall and the status report.

`Restart` ends a run, a deletion and a summary wherever they are. Ghosts: `gone`
(deleted, and the request answered) and `late` (deleted while a run was already
past its privacy check for them). The run's paging and re-check (`Indexing`),
the run of privacy requests (`PrivacyControl`) and who writes a summary
(`ModelCalls`) are elsewhere. One deletion and one summary are under way at a time.

**WorkHistory** is what all this promises a reader, in four atomic steps: a frame
is recorded into the open session of its context or a new one; sessions are
closed; frames are forgotten with every session they are part of; something is
told of a session, from its own frames. `ImplementsHistory` says that
`DerivedData` implements it, with `content` for `kept` and what is told of each row
(`Told`) for `history`. A closed session does not grow or open again, no id is used
twice, and a late summary cannot reach a session it was not made for.

**LineDelta** extends `DerivedData`: its actions are those of the run conjoined
with what happens to text. A text is a set of lines. `rows[f]` is the
`extracted_text` stored for `f`, `seen` the deduplicator's active contexts,
`work` and `ops` those of the transaction under way. `Process` previews a frame,
`Commit` replays the accepted operations from the state before the run,
`StartLines` resets the contexts whose session the flush closes and hydrates
once per process, `Release` is the re-check for a frame whose application is no
longer excluded, and `Cascade` deletes the frames of a window in one step.
Ghosts: `erased` (rows a cascade deleted) and `irregular` (frames released late or
left by a run that did not accept them).

| Run | Bounds | Shows |
| --- | --- | --- |
| `lines` | 4 frames of 2 contexts with up to two lines, 3 ticks, one failure or restart, one deletion, one application that may be excluded; the first part, without lines, ends a tick earlier; in both the deletion is requested before anything fails | `DeletedStaysGone`: after the answer nothing of a deleted frame is found, recalled or summarised, even if the cascade failed, unless a run already had it; `SessionsContinuous`; `ImplementsHistory`; `LinesKept`: a line is left out of a stored frame only if a row of the same stretch of activity, no later than it, holds it; `OncePerSession`: a session's rows repeat no line |
| `derived_write_back` (violated) | 4 frames, 3 ticks | `CascadeCompleteness` (`cascade-delete-coordinator.ts:14`): the run that already had the frame writes it back |
| `lines_carried` (violated) | as `lines` | `SessionStandsAlone` (`universal.ts:473`): recall closes a session, the deduplicator does not hear of it, and the next session starts without the lines of its own frames |

Two frames share a tick and the editor's three are one, then two ticks apart
with a threshold of one, so frames extend, close, and replay into sessions. The
texts give each case one witness: a line shown again at once, a line
shown again after the threshold, a new line beside an old one, and the same line
in two contexts. One failure is enough for a replay, a tombstone or a restart, not
for two at once. A deletion that finds nothing upstream takes
`cascadeByTimestampRange`, which `RowsOf` models.

`LinesKept` says nothing of contexts a cascade has touched: the deduplicator is
not told, so a line whose only row was deleted is still dropped from the frames
that follow. `OncePerSession` leaves out sessions with an irregular frame. The lines
of such a frame are stored again when it comes back; it may be evidence of two
sessions; and where it broke the order, the frames after it may repeat a line of
those before it.

**Proved** (`DerivedDataProofs`), for any number of frames, any capture times,
contexts and thresholds, under `FrameAssumption` and `BoundAssumption`:
`TypeCorrect`; `EvidenceTheorem` (a session's evidence has its rows and its summary
tells only of it), `OneOpenTheorem` (a context has one open session) and
`ContinuityTheorem`, which is `[]SessionsContinuous`. `IInv` joins them as
`Sound(sessions, content, nextId)`, which also says that ids are unique and
below `nextId`, and adds `CallFits`: what a summary under way was told is still
evidence of the session it was asked for, and no later session takes its id.
Without it the write of a late answer is not covered, for the session
may have grown, closed or gone since. One lemma says for each way the table
changes (flush, extraction, deletion, summary) that a sound table stays sound.

`RefinementTheorem`, `Spec => ImplementsHistory`, follows from the same invariant: a flush is a `Close`, an extraction a `Record`, either deletion a
`Forget`, a summary a `Tell` (or nothing, if its session has gone), and every other
step a stutter. Soundness is what makes each true: `Told` tells sessions apart
because ids do; closing the session that ended last closes all open ones of the
context because there is one; a session touches no deleted frame exactly if all
its frames are still kept, because its evidence had its rows; and `CallFits` puts
the summary inside its session.

`DeletionTheorem` is `[]DeletedStaysGone`. `DeletionInv` says
that a deleted frame is out of the source, so that only a run that already had it
(`late`) can bring it back; that a deletion under way and every tombstone spans its
targets (`Covers`); how far the cascade has come (`Deleting`); and that what is left
of a deleted frame when the request is answered lies under a tombstone (`Hidden`). A
session that contains the frame is hidden with it because its frames are in
capture order, which is `SessionsContinuous`.

**Proved** (`LineDeltaProofs`), under the same assumptions and `TextAssumption`, for any
lines and exclusions: `LinesTheorem` (`LinesKept`) and `OnceTheorem` (`OncePerSession`).

An entry of the deduplicator is a claim that its lines are stored near the frame that
last updated it. `Backing` says that every claim is true: of what the contexts have
shown, behind the checkpoint; of the working contexts, with the frames of the run; and
of each operation, with those up to it. The last is what a partial commit needs. It
takes up only accepted operations, and one that was rejected blocks the later ones of
its context, so nothing that is taken up leans on a line that is not
(`CommitBacked`). A frame that is stored a second time may get a shorter row than
before: what it now leaves out is near it, hence near every frame that leaned on it
(`ProcessStep`, with `Longer` for joining stretches).

`OnceTheorem` needs the converse. An entry `Remembers` a session if it has the lines of
all its frames and is no older than they are, or if a frame has passed after which
nothing can extend it. `Transaction` states this along the replay of the run, from the
last operation of the session's context on. The frame that extends a session then finds
its lines (`SameKnown`), since evidence that came in order (`RegularRise`) is never ahead
of the entry. At the end of a run the replay is cut at the first failure; a session
without irregular frames has its last operation, and with it all earlier ones, among
the accepted (`OpenEnds`, `OpsInOrder`), so up to there the commit follows the run
(`CommitRemembers`). If the run fails, what is remembered is what was before it. After
a restart, `HydrateRemembers` finds the same in the rows of the open sessions:
`Accounted` says that whatever is stored ahead of the checkpoint is irregular, or of the
run under way.

## 6. The way of a frame: CaptureStore, CaptureSearch, FrameText, Reads

**CaptureStore** is Screenpipe's database under its four writers. A frame has a
tree as JSON (`json`), as rows of the elements table (`copies` counts how often)
or by reference to another frame (`ref`). `Record` and `Normalise` are the
recorder's, a sweep (`BeginSweep`, `CheckCandidate`, `NullJson`, `Convert`) judges a
frame in one statement and rewrites it in a later one, `VacuumInit` rewrites the file
while the recorder is stopped, `TrimStep` deletes by age in batches with a cascade after each, `EraseStep` is
delete-range with its elements, frames and one cascade at the end. A step is one
transaction; `DeleterFails` stops a deletion between two of them.

**CaptureSearch** is the paging of a window by two queries under one offset.

**FrameText** is what becomes of one frame: `Stripped` cuts secure subtrees, from
flat rows by depth, from nested trees by descent, from single records by their
parents; `Lines` walks what is left into domains; `ContextKey` completes a coarse
title. **Extraction** grows a frame row by row, so that TLC meets every tree of up
to three rows over the given roles and depths, in each form.

**Reads** puts find, recall and inspect over `DerivedData`, an action per await:
rows first (`CollectKeywordMatches` is the cursor loop, a page per step; the semantic
query is any choice of neighbours), then the privacy state, then one model call per
session to be summarised. `Flush` and the summaries of `DerivedData` happen only
where a read makes them happen.

| Run | Bounds | Shows |
| --- | --- | --- |
| `frames` | `CaptureStore`: 3 frames, two in a tick, one sweep, one deletion by age and by request, one failure. `CaptureSearch`: windows of 5, pages of 2, one failing query. Trees of 3 rows. `Reads`: 3 frames, two in a tick, one deletion, one failure, one request | `TreesSurviveSweeps`, `NoTreeTwice`, `CascadeHearsOfDeletions`; `UniformWindowReadOnce`; `SecureStaysOut`, `NothingElseLost`, `BodyKeepsItsSession`; `AnswersWereVisible`, `FindsNewest`, `BlocksReconcile` |

Five positions and pages of two give a full page, a short one and an offset in
between. Three rows are the least with a secure field, something below it and
something after it. Each property names what the code does not give:

* Only uniform windows are read once (`UniformWindowReadOnce`): a window with
  frames of both and of one kind of row can skip frames, as the offset
  advances by the merged page (`http-client.ts:395`).
* A deletion that fails after some batches has deleted frames whose ids nobody
  passes on (`orphaned`).
* A secure field without a depth counts as one of depth 0, and what follows is cut
  up to the next row of depth 0; inside another secure subtree it does not widen
  the cut. `normalizeWindowTitle`
  removes one marker from each end, so "file * — Edited" keeps a star
  (`context-key.ts:67-68`).
* find fails open when the privacy state cannot be read (`find-service.ts:338-345`),
  which `blind` excuses; inspect is not filtered at all. A row read
  under a tombstone that is resolved before the filter may be answered from, even if
  another deletion has removed it meanwhile (`released`; the run has one deletion, the
  proof any number).
* The key of a frame is only kept by one more row in its body (`BodyKeepsItsSession`) if
  its window is named and shown. Otherwise the title stands in for the window's line, and
  goes once a second root puts the roots under an `AXApplication`
  (`universal.ts:147-154`): with the title "chat" and a window further down, the key changes.
* Cutting secure fields loses nothing else (`NothingElseLost`) where every row gives its
  depth and none skips a level; a row without one cannot be told from a secure field's own.
* Evidence deleted while recall counts makes a block up to a second per frame
  longer.

* Trees are stored once as long as sweeps do not overlap (`NoTreeTwice`, checked with
  one sweeper). Nothing keeps them apart: the recorder's supervisor starts one every
  ten minutes and one at its end without looking for another
  (`screenpipe-safe-record.js:397`, `:418`), and `npm run maintain:run` may be run "at any
  time" (`docs/guide/operations.md:172`). With two sweepers TLC finds the tree stored
  twice: both list a frame that refers to one without accessibility rows; the first
  converts it and makes it its own owner; the second looks again in its transaction,
  but by the reference it listed (`maintenance-adapter.ts:214`), finds nothing and
  inserts the rows again.

In the model a summary of recall may be taken later, between two others that are
ready, than in the code, which takes it at once; that adds behaviours only.

**Proved** (`CaptureProofs`), for any number of frames, sweepers and failures, any
kinds of tree and any batches, under `StoreAssumption`: `TreesTheorem`
(`TreesSurviveSweeps`), `CascadeTheorem` (`CascadeHearsOfDeletions`) and `OnceTheorem`,
`StoreSpec /\ []SweepsApart => []NoTreeTwice`; for windows and pages of any size, under
`SearchAssumption`, `WindowTheorem` (`UniformWindowReadOnce`).

`StoreInv` says what a reference means while four writers change it (`RefsSound`: a
frame that refers elsewhere has no rows, one that refers to itself has rows or is
being deleted), how stale a sweep's copy of it can be (`CopiesOfRefs`: the frame refers
to the same one still, or was converted since), and that a tree without JSON, or about
to lose it, is `Safe`: in the table, or with what it refers to being deleted. One
lemma says that every step keeps safe trees safe (`SafeStays`, from `Gentle`), one that
what a sweep finds by its copy is safe (`FoundIsSafe`); the two together are why
nulling a tree in a later statement than the one that judged it loses nothing.
`Heard` adds to the cascade's property that the ids a pass has in hand are owed only
once its transaction is through: between selecting and deleting, the other deletion
may have taken them, and then it owes them. `RowsOnce` needs `SweepsApart`, as above.
`SearchInv` counts frames by age: those up to the offset have been returned, the page
in hand is the next `PageLimit` of them (`UniformPage`, `WindowSize`), and a short page
holds all that were left.

**Proved** (`CaptureProofs`), for trees of any size and depths and any kinds of node,
under `TreeAssumption`: `SecureTheorem` (`SecureStaysOut`), `NothingLostTheorem`
(`NothingElseLost`) and `BodyTheorem` (`BodyKeepsItsSession`). They need nothing of
the behaviour but `Seen`, what rows there are; the argument is about the tree.

Two functions run over the rows. `SecureDepth` stays at most the depth of a secure row
for all that is under it (`SecureIsCut`), and where the depths form a tree it is the
depth of a secure row above (`CutIsSecure`), so the cut is neither too short nor too
long. Records are blocked a level at a time, and `RowAbove`, that what is above a row
is its parent with what is above that, is why all of them are reached by the last round
(`SecureIsBlocked`). `LineageOf` says that rows kept with all that is above them keep
their place, and so their line, in the rebuilt tree. For `BodyTheorem` the frame is
compared with the one before its last row, operator by operator (`Sooner...`): every
row keeps its lineage, and if the last one made a second root, all the others are
under the window, below which they are counted anyway, so their lines stay the same
(`SoonerTrees`); the key is read from navigation and window lines alone
(`KeyContinues`).

**Proved** (`ReadsProofs`), under the assumptions of `DerivedData` and `ReadAssumption`:
`AnswersTheorem` (`AnswersWereVisible`), `FindsTheorem` (`FindsNewest`) and
`BlocksTheorem` (`BlocksReconcile`).

An answer is put together from reads at different times, so `AnswersWereVisible` is not
inductive: `Held` says what a request holds at each place it can have come to. Rows
read before the filter were shown (then they are in `witnessed`), are hidden now and
will be dropped, or were `released` (`RowsHeld`). A session that was listed may grow
meanwhile, but only by frames that are shown or `late`, since a visible session is shown
whole (`SessionsHeld`); the same of the sessions still to be summarised, and of what the
model under way was told (`SummariesHeld`). `Emptied` is why growth under a tombstone is
`late`: a window that was deleted has no frames at the source any more, so a run can only
store what it had in hand. The readers' steps on the layer are steps of `DerivedData` or
change none of its rows (`ReadersStep`), so its invariants hold here too.

For `FindsTheorem`, `Going` says of a scan after some pages that the cursor separates what
has been looked at from what has not, frame ids deciding within one timestamp, and that
it holds every match above it and has room for more. `PageStep`: one more page keeps
that with a lower cursor, or ends the scan with the newest `FindLimit` matches. As the
cursor falls with every page, the scan is over after `N + 1` of them. `Clocked` gives
the start: no row is newer than the time the scan begins at.

`BlocksTheorem` is a sum over sums: blocks, the sessions listed, and their evidence, which
counts the gap to the next frame that still has a row. `TotalSwapped` turns the table
round, so that each session is added up over its blocks, and each piece of evidence counts
in one (`SessionBlocks`). `CountsAtMost` goes along the evidence: what has been counted is at
most the time to the next frame with a row and a second per frame without one; with none
missing it is that exactly (`CountsExactly`). The rows are sound and not captured after the
clock because they were when they were listed (`BlocksListed`). A tick is a whole second;
the code floors the gaps between fractional times, which is left out.

## 7. Operations: PrivacyControl, Settings, AppHome, LocalStack

**PrivacyControl.** `state` is `privacy-state.json` and `tmp` its temporary file,
which all writers share. A request goes through `Call` (read), `Compute` (the
handler: `Pause`, `Resume`, `ExcludeApp`, `RemoveExcludedApp`, `DeleteRange`,
`Reconcile`), then `OpenTmp` (truncate), `Fill` and `RenameState`. A descriptor opened
before somebody else's rename follows the file: `fd` says where the bytes go.
`DeleteRange` goes on with `Delete` and, if the cascade fails, `Bury`, which reads
the file again and appends a tombstone; `RetentionFails` is the retention pass of
`trim-service.ts` arriving at the same point. `Blocked` is what
`indexing-service.ts` makes of a state.

Time is a clock of ticks; a frame is the tick it was captured at. Ghosts record
what users have been answered: `told` and `hidden` (a pause and the ticks it
covered), `deleted`, `wanted`, `buried`. A request that takes something back
ends the promise when it is made, and an answer promises nothing when such a
request is under way, or when it is given on a state that has been replaced
since it was read; so whatever is found missing was really promised. `lost`
becomes true when a write replaces a state other than the one it was computed
from: nothing serialises requests, so of two that overlap one can take back what
the other has confirmed, an exclusion for instance. With one temporary name for all
writers, a request that truncates it just before another renames it publishes a
partial file, `docs/architecture.md:64` notwithstanding.
`reconcileCascadeFailures` has no caller in `src/src`, although
`trim-service.ts:305` says it "retries on the next opportunity"; it is modelled
as a request that may come at any time.

**Settings.** `file` is `config.yaml`, `editor` what each writer has read, `queue` the
Mutex of each process: the dashboard's requests share one, each `config` command has
its own, hence `clobbered`. `service:start` copies settings into the plist
(`InstallPlist`), launchd gives them to every instance (`Bootstrap`, `Relaunch`) and
`StatusServer` works out from plist and file where that instance listens.

**AppHome.** A name leads to a directory; a starter goes through `Inspect`,
`CheckWriters`, `BackUp`, `Rename` (or the copy of a linked home), the rewriting of
paths, and `RollBack` or `Relink` when a step fails. The old program may run
meanwhile.

**LocalStack.** Operators run the commands of `scripts/` as jobs over one recorder
supervisor per pid, its Screenpipe, the service under launchd, the old service, the
pid file and the onboarding marker. A command's step is one file access, spawn or
`launchctl` call; supervisors crash, pids are reused, `launchctl` fails.

| Run | Bounds | Shows |
| --- | --- | --- |
| `operations` | 2 operators and 2 commands, 2 pids, one failure; 2 requests and a command, 2 edits, 2 starts; 2 starters, 3 starts, 2 failures; 2 clients and a retention pass, 3 privacy requests, 2 ticks, 1 application; operators and clients are interchangeable | `StoppedIsSilent`, `OneRecorder`, `ServiceAllOrNothing`, `NotOnboardedAgain`; `EditsKept`, `StatusFindsService`; `RecordsSurvive`, `StartsWhole`; `PauseHides`, `PromisesKeptUnlessLost` |
| `paused_report` (violated) | the same | `PausedReportIsTrue` (`docs/reference/tools.md:242`): pause, then delete-range `last_1h`, leaves `paused: true` with nothing blocked |

Three privacy requests are the least that let two overlap after a third has been
answered. Two commands at a time make every pairwise race of the scripts; where one
operator at a time is needed (`overlapped`), a property says so. A start that goes
through while another is at the move, or two that copy a linked home at once, can
end in a home without the records; `early` marks them, `late` an old program that ran
during a move, `interrupted` a move that stopped before its paths were rewritten,
which no later start makes good.

**Proved** (`OperationsProofs`). Of `PrivacyControl`, `PauseTheorem` and `PromisesTheorem`, for any
clients, retention passes, applications and clock, under `PrivacyAssumption`. The
properties look at the file; the invariant looks at what each writer is about to
store. As long as no write was lost, a writer whose copy is not outdated read the
state that is on disk, and what it has computed from it keeps every promise
(`Honours`), does not shorten a pause (`Carries`), and will hold what its own answer
promises (`Answers`). `Taken` says that what a request takes back is no promise from
the call on; without it `Resume` would break `Honours` while it is under way.

The other three have each an invariant of their own:

* `Settings`, for any writers, processes and edits of the fields
  (`EditAssumption`). `EditsTheorem`: a writer at work is the first of its
  process's queue (`Queued`), so another of that process cannot write under it, and
  its document agrees with the file in every field not marked stale (`InStep`); a
  write of another process marks the fields it changed. `StatusTheorem`: `Found`
  relates the plist, the environment of the instance under way and the file,
  through relaunches and edits.
* `AppHome`, for any number of starters. The initial homes are three cases that never
  mix (`HomeInv`): there was none (`Unborn`), a directory (`Renamed`) or a link
  (`Copied`). A renamed home is always under one of its two names, whatever
  races (`Elsewhere`), which is all `RecordsTheorem` needs; `StartsTheorem`
  needs that in an untroubled history nobody is still at the move once somebody is
  through (`Settled`). A linked home is kept by the original until the copy is
  whole, and the steps after that are taken in turn (`InTurn`), as long as no two
  were at the move at once.
* `LocalStack`, for any operators, pids and sequences of the eleven commands that
  `StackAssumption` names. `Ordered` ties a job to the place its command is
  at, and `Alone` says that without overlap there is one command. With these:
  `StoppedTheorem` from `Silent` (a Screenpipe has a watching supervisor or
  one that crashed, and the dead stay dead); `RecorderTheorem` from `Findable`
  (the supervisors alive are the one the pid file names, or the one whose pid is
  about to be written, or none where one is about to be started);
  `ServiceTheorem` from `Whole` (what `service:start` has in hand at each of its
  steps) and `Replaced`; `OnboardedTheorem` from `Signs` (a home that never had
  another name keeps the marker or the file unless `service:stop` took it, and a
  moved one is a sign itself).

## 8. Routines

`disk` holds a definition and a history per routine, `tmp` the temporary file
beside each, which all writers of that file share. `tasks` is the scheduler's
map, `armed` the cron tasks that are live in node-cron whether or not the map
still has them, `running` the no-overlap guard. Saving (`Save`, then the write's
`OpenTmp`, `Fill` and `SaveRenamed`) is followed by the caller's `refresh`:
`List`, an await, `RefreshApply`; `createApp` does not wait for `start`, so
`List` and `StartApply` of `Boot` interleave with it. A task that fires (`Fire`)
starts a run, which reads the definition again, asks whether capture is paused,
sends, and appends to the history by read, write and rename; the scheduler's
`finally` is `End`.

Two writers of one file can leave it torn: `Fill` puts a text over another's
bytes, and a descriptor opened before a rename follows the file (`Publish`).
A torn definition fails every listing until somebody saves it or removes it; a
torn history fails every append.

`stop` is not an action: it runs only when the process is about to exit, which
is `Restart`. `rebuild-index` also calls `createApp` and so has a scheduler of its
own while it runs; the module has one process. A listing takes its files at one
instant.

Ghosts: `raced` (a refresh was applied before start's listing), `muddled` (saves
overlapped, or a file was edited by hand), `contested` (two runs of a routine
were appending at once), `owed` (runs the scheduler is done with), `barred` (runs
that fired under a pause or for a disabled routine that nobody has enabled since).

| Run | Bounds | Shows |
| --- | --- | --- |
| `routines` | 1 routine, 2 valid schedules and an invalid one, 2 callers, 2 saves, 2 firings, one edit by hand, pause, failure or restart (constraint `OneMishap`); callers and valid schedules are interchangeable | `OneRunPerRoutine`; `BarredRunsSendNothing`; `ScheduledAsSaved` |

One routine is enough for the races, which are all between actors of one
routine, except that a torn definition fails the listing of all; the proofs have
any number.

What the properties leave out is what the code does not give. A refresh that is
applied before start's own listing leaves two live tasks of one name, of which the map
has one. Overlapping saves may leave the older definition scheduled, although
`routine-create` answers that the routine was picked up. A skipped run and the
run it yielded to read the same history, and one record is lost. A run under a
pause is recorded as `success`, with a template for its text, where
`docs/guide/routines.md:96` promises `skipped`.

**Proved** (`RoutinesProofs`), for any routines, callers, schedules and bounds,
under `RoutineAssumption`: `TypeCorrect`, `OneRunTheorem`, `HistoryTheorem` (a
history keeps every finished run unless two appended at once), `MappedTheorem` (the
map has exactly the live tasks, unless `raced`) and `BarredTheorem`. `IInv` adds to
the types `Placed` (who can be where, and that run ids are
handed out in order), `Dressed` (what a writer is about to write), `Busy` (the
guard knows exactly the routines under way), `Mapping` (until start has applied
its listing there is no task at all) and `Barred` (a barred run that has not
read its definition still finds it off or capture paused; past that, only a
pause lets it through to `CheckPause`, and that stops it). `HistoryTheorem` rests on `Kept`
beside it: while no two runs of a routine append at once, the one that does
carries every finished run, first in memory, then in a temporary file that is
whole when it is renamed. `ScheduledTheorem`, which is `[]ScheduledAsSaved`, needs more of an
untroubled history (`Tidied`): one caller is at work at a time, how far its save
has come (`Saving`), and each routine is in line with its task (`Current`) or its
refresh is under way (`Refreshing`). That one refresh is enough is the point:
it lists all routines and the others were in line already.

## 9. What is only model-checked, and what is not modelled

The type invariants of `RuntimeRegistry`, `Indexing`, `DerivedData` and `Routines` are
proved and not run again; the other proofs have theirs in the invariants above.
Out of the prover's reach, and so with TLC alone: liveness, since it needs `ENABLED`.
Induction over data is out of reach as a rule of inference; where a recursive function
is needed (`CollectKeywordMatches`, `SecureDepth`, `StripRecords`), the proof refutes the
least argument at which it would go wrong instead (`FromZero`), and shows so, too, that
the function exists (`Recursion`). `LineDelta`'s replays are such functions, and so is
the sum (`Total`) behind `BlocksReconcile`, whose laws `CountingUp` gives. Every safety
invariant a passing run checks is a theorem.

Seen while modelling, true of the modules as of the code, and without a run:

* A lag beyond `freshnessWindowMinutes * maxCatchUpBatches` leaves older frames out
  for good (`indexing-service.ts:203`); `waived` covers it.
* Frames with one timestamp are told apart by `>` on ids in one place and by
  `localeCompare` in another (`indexing-service.ts:221-245`); `Indexing` has distinct
  ticks.
* A resolved tombstone still keeps frames from being indexed
  (`indexing-service.ts:531`).
* The hash cache is keyed by the text alone: a rebuild after a change of embedding
  model reuses vectors of the old one (`hash-index.ts:57-59`). `VectorsAccounted` says
  so.
* A pause makes a template summary `ready`, and it is not replaced after the resume;
  two readers may let `degraded` overwrite `ready`. Nothing records the summary
  provider's health (`provider-health-registry.ts:11-14`).
* A resume in the millisecond of its pause suppresses nothing
  (`privacy-control-service.ts:195`).
* The dashboard and each `config` command have a Mutex of their own;
  `config-cli-service.ts:15-16` relies on a single writer, and nothing makes there be
  one. What another process takes back is `clobbered`.
* `docs/guide/troubleshooting.md:275` says re-running delete-range resolves a
  tombstone; nothing reconciles one.
* The status call bounds the inspection of the vector store by 250 ms, and not the
  query it makes before.
* `GenericHeuristicRule` is not wired.

Not modelled: the memory service (one file per scope, written as the privacy file
is), transports and the dashboard's API (request plumbing; a connection count that
brackets one call, `transports/http.ts:60`), file analysis (stateless), diagnostics
and recovery reports, rollups and formatting, the file-backed legacy vector store,
prompts, release and evaluation scripts, the dashboard's React code. They keep no
state of their own, or hand it to an external program. `PROJECT.json` gives the
reason for each component.
