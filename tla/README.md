# TLA+ specification of the weather map's data path

weather-map turns numerical forecasts (GFS, ICON) and radar observations (MRMS) into binary
artifacts that a browser draws. An ETL in `etl/weather_etl` runs as AWS Lambdas and Batch
jobs over an object store; a frontend in `frontend/src` reads manifests and payloads from that
store; `backend/weather_map_backend` serves a status document. Nothing in the ETL holds a lock:
its correctness rests on the *order* in which objects are written, on documents that are
written once, and on claims with an expiry in a DynamoDB table. That is what these modules
model, request by request.

All paths below are relative to `src/`.

## 1. The system: components, state, operations

| component | code | state it keeps | operations | module |
|---|---|---|---|---|
| run coordinator | `etl/weather_etl/state/runs/dynamo_coordinator.py` | one run id per dataset and cycle, with a TTL | create or reuse | `GfsIngest` |
| run snapshot | `state/runs/snapshots.py`, `config/product.py`, `state/runs/metadata.py` | `pipeline.json`, `catalog.json`, `run.json` of a run | create, ensure-or-load, load, verify | `RunSnapshot` |
| planning, claims, launch | `operations/plan_run.py`, `workers/claims/dynamo.py`, `workers/launch.py` | the claim of each frame | plan, acquire, submit, record complete | `FrameWork` |
| frame workers | `operations/run_frame.py` | payloads and success markers of each artifact of a frame | process one frame | `FrameWork` |
| ingest adapters | `adapters/aws/{gfs,icon,mrms}_ingest_lambda.py`, `operations/submit_*.py` | none of their own; the MRMS queue | notification, poll, operator submission | `GfsIngest`, `MrmsIngest`, `FrameWork` |
| sources | `sources/{icon,mrms,gfs}` | downloaded, decompressed and regridded files on the worker's disk | fetch, decompress, regrid, reuse | `SourceCache` |
| validation, run publication | `state/runs/validation.py`, `state/manifest/publish*.py`, `operations/publish_run.py`, `operations/validate_run.py` | `validation.json`, run manifest, public run manifest, publication marker | validate, publish a run | `PublishRun` |
| public view | `state/manifest/public_view.py`, `state/manifest/index.py` | cycle-current manifest, `latest` of each dataset, the index | promote, publish the index | `PublicView` |
| rolling observed view | `state/manifest/rolling_observed.py` | rolling payloads, `latest` of an observed dataset | rebuild the window | `RollingObserved` |
| scheduled publisher | `adapters/aws/publisher_lambda.py` | none | publish every target, every ten minutes | `PublishRun`, `PublicView`, `RollingObserved` |
| inspection and status | `state/inspection/*`, `operations/refresh_status.py` | the status document | inspect a dataset, write the status | `Inspection` |
| backend | `backend/weather_map_backend` | none | serve health | `Inspection` |
| frontend sync and timeline | `frontend/src/forecast/{sync,time}` | active request, applied key, applied and target time | scrub, play, load, apply, fail, retry | `ForecastSync` |
| frontend payload cache | `frontend/src/forecast/cache`, `artifacts/payload.ts` | memory tier, IndexedDB tier, buffer of updates, scope | read, write, switch scope, drain, evict | `PayloadCache` |
| artifact sync | `scripts/etl-sync-artifacts.py` | a local copy of index, manifests and payloads | copy one dataset or all | `ArtifactSync` |
| infrastructure | `infra/weather-etl/*.tf` | timeouts, retries, schedules, deployed configuration and image | deploy | environment actions and fairness |

The ETL's parts interact only through the store, the claim table and the coordinator table: a
submitter fixes the run id and the snapshot, plans frames from markers and claims, and starts
jobs; jobs load the snapshot, acquire source files, write payloads and markers; publishers read
markers and write manifests; the inspection reads all of it and writes one document for the
backend; the frontend and the artifact sync read the index, the latest manifests and payloads.

What is hard, and where: the list under `hazards` in `PROJECT.json`, one entry per line of code
where it bites. In short: a look and a write that are two requests
(`state/artifacts/repository.py:498`); a crash between the documents of one logical update; claims
that expire under a live job; messages that are delivered twice, dropped or given out in batches
that fail together; a submission that acts on markers it looked at before; overlapping
publishers; markers rewritten between the passes that read them; an inspection whose reads are
minutes apart; and, in the browser, effects and results that arrive after their request was
superseded, and caches that outlive the run they belong to.

What makes each component correct: a snapshot is one validated configuration and never changes
once complete; a cycle has one run; a frame is worked on by one job per lease, ends up complete,
and no notification of it is lost; a run is published only when complete and consistent, its
publication marker comes last, and a published run is final; the latest manifest and the index
catch up with what is published; a manifest a client holds is served; an outage is reported and
a report of one has a cause; the timeline shows the frame it names and never hangs; only the
active run is kept in the browser.

## 2. Modules

| module | models | environment |
|---|---|---|
| `RunSnapshot` | the three snapshot documents, all writers and readers | deploys of the configuration, crashes |
| `FrameWork` | claims, submissions, Batch jobs, payloads and markers of a run's frames | the schedule, notifications, operators, deploys of the image, time, failures |
| `GfsIngest` | notifications, coordinator, snapshot, claim and job of GFS frames | repeated notifications, faults, expiry, deploys |
| `MrmsIngest` | the MRMS queue, its batches and dead letters, snapshot, claim and job | redelivery, faults, deploys |
| `PublishRun` | validation report, two manifests and publication marker of a run | workers that (re)write markers, crashes |
| `PublicView` | current and latest manifests and the index | overlapping passes, operators and rolling datasets, runs being published |
| `RollingObserved` | the rolling window of observed frames, its payloads and `latest` | time, deploys, rewritten source payloads, crashes |
| `Inspection` | one refresh of the status document, and the health derived from it | runs that move, deploys, faults, unreadable markers |
| `ArtifactSync` | `etl-sync-artifacts.py`, command by command | a bucket that publishes and expires |
| `SourceCache` | the source files of frame jobs on one disk | transfers that end early, crashes |
| `ForecastSync` | timeline, playback, request effect, tracker, loads | the user, React's later effects, failed loads |
| `PayloadCache` | memory, update buffer, drain, the two IndexedDB stores | scopes, failed reads, a database that does not open, lost transactions, closed pages, other tabs |
| `WriteOnce` | abstract: a document that settles once | implemented by `RunSnapshot` and `PublishRun` |
| `RunSnapshot_proofs`, `FrameWork_proofs`, `PublishRun_proofs`, `PublicView_proofs`, `RollingObserved_proofs`, `Inspection_proofs` | theorems about the module they are named for | |
| `SourceIngest_proofs` | theorems about `GfsIngest`, `MrmsIngest` and their sum `MCSourceIngest` | |
| `Periphery_proofs` | theorems about `ArtifactSync`, `SourceCache`, `ForecastSync`, `PayloadCache` and the sum `MCPeriphery` | |
| `MC*` | instances for TLC | |

The modules meet at documents. `RunSnapshot`'s successful load is what `FrameWork`, `GfsIngest` and
`MrmsIngest` take as one step at the start of a submission or a job; `FrameWork` justifies
`PublishRun`'s environment: markers appear, are never removed, and may be written again with another
payload (`WriteMarker`). `PublicView` and `RollingObserved` take from `PublishRun` that a published
run stays published with its revision (`PublishedRunsAreFinal`). Components that share no state are
checked as a sum: a behaviour of `MCSourceIngest` is one of `GfsIngest` or of `MrmsIngest`, and a
behaviour of `MCPeriphery` is one of `Inspection`, `ArtifactSync`, `SourceCache`, `ForecastSync` or
`PayloadCache`; the variable `subject` says which, and the others rest.

### RunSnapshot

State: `source` is the deployed configuration, `docs` the three objects of the run, and for each
process `pc`, `mode`, `guarded` (inside the `try` of `ensure_or_load_run_snapshot`), `at` (the
current document), `wanted`, `seen`. Actions: `BeginEnsureOrLoad`, `BeginEnsure` and `BeginWorker`
are the entry points; `ReadSourcePipeline` and `ReadSourceCatalog` are `load_product_config`;
`CheckDocument` and `WriteDocument` are the two requests of `_write_json_once_or_same`; `Recover`
is the `except` clause; `LoadRun`, `LoadPipeline`, `LoadCatalog` are `load_run_snapshot`; `Deploy`
replaces one source object; `Crash` is the end of a Lambda. A document is its version, and a
digest is the pair of versions (taken collision free). `reads` and `loads` are history.
A pipeline and a catalog have to validate together (`Fits`, from the constant `Fitting`:
`config/product.py:111-143`): a submitter that reads one before a deploy and the other after it may
hold a torn pair, and raises a `SystemExit` like one that meets a conflict; a load validates the pair
again (`Loadable`). Each deployed document is written alone, so that the source itself may hold a
pair that does not fit for a while.

`SettlesOnce` is the refinement: with `proposed` the documents of the configurations that were read
and `settled` the documents once `run.json` exists (it is written last, see `RunDocumentIsLast`),
`RunSnapshot` implements `WriteOnce`.

### FrameWork

State: `claims`, `payloads`, `markers`, and for each submission the `stage` of each frame, its
`entry` (a poll, a notification or an operator; an operator records no completions), and its `age`,
the ticks since its `now`. `jobs` are Batch jobs with the artifact they are `at`, their `attempt`, and
what is left of the `lease` they were submitted under. Order in a submission is the order of the
code: all frames are planned, then complete ones are reported, then all claims are acquired, then
jobs are submitted (`Rank`, `Turn`). Time is relative, so that the state space stays finite: a claim
carries the ticks it has `left`, and `expires_at < now` becomes `left < -age`.

The `now` of a poll is the time of its EventBridge event (`icon_ingest_lambda.py:50-54`), and Lambda
delivers the event again when an invocation fails: `Crash` may keep the entry and the age of a
poll, which then waits for `Poll` while it grows older. An operator has no timeout
(`submit_aws_run.py:52`). So `MaxAge` and `ClaimTicks` are unrelated, and a claim may have run out
before it is written or before its job is submitted. `polled` says whether the schedule looks at
the run's cycle: it takes the newest one only (`icon_poll_cycle_count` is 1, `inputs.tf:155-158`), and
returns early while the sentinel files are not there (`submit_icon_ready.py:113-127`);
`TurnOfCycle` changes it at any time.

Bounds: `Jobs` slots, `MaxAge`, `MaxDeploys`, `MaxCrashes`, `MaxFailures`. What expired long ago is
kept at the first value that is expired for everybody (a claim at `Oldest`, a lease at -1). The job
id (`record_submission`) and the attempt number of a claim are reported and never tested, and left
out; so are invalid markers (the digest of a run is pinned, see `RunSnapshot`) and operator
submissions of a subset of the artifacts.

### PublishRun

State: the store's `markers`, `report`, `run_manifest`, `public_manifest`, `publication`; for each
publisher `pc`, `mode`, `goal` (what it collects markers or writes the manifest for), the markers
`taken`, the revision `seen`, `now` and the `manifest` it holds. `ReadReport` .. `WriteReport` are the
validation, `Gate` the publish gate, `ReadPublication` / `ReadRunManifest` the check for a published
run, done before a manifest is built and again after, and `WriteRunManifest`,
`CheckPublicManifest`, `WritePublicManifest`, `WritePublication` the commit. A manifest is its
content and the second it was built in; its revision is the content
(`state/manifest/revision.py:19-25` leaves `generated_at` out). `SettlesOnce` is the refinement: with
`proposed` the manifests that were built, and `settled` the public manifest once the publication
marker exists, `PublishRun` implements `WriteOnce`.

### PublicView

State: the runs `published`, the objects `current`, `latest` and `index`, and for each publisher its
`pc`, whether it is an operator's `publish-run` (`alone`), the target it is `at`, the latest
manifest it `found` and the `entries` read for the index. `BeginPass` and `BeginOperator` are the
entry points; `BeginRolling` is a rolling dataset, which rebuilds the same index after its own
latest (`rolling_observed.py:138-143`), from what it reads of the forecasts then; `VisitTarget`
passes over a run that is not published; `WriteCurrent`, `ReadLatest`, `WriteLatest`, `ReadIndex`,
`ReadEntry` and `WriteIndex` are the requests of `_publish_direct_latest_view` and `publish_index`
in the order of the code; `After` is the order of targets (datasets, cycles newest first, run ids).
`Fail` is a request that fails: the handler reports it and goes on with the next target; `Crash`
ends the publisher. A manifest is its cycle and run. Cycles are those within the scan of a pass, and
all submitted runs of a cycle are known to it. All runs share one configuration. `found` is history:
the code compares it at once.

### GfsIngest, MrmsIngest

For each invocation of the Lambda: the `object` or the `batch` of messages it works on, its `step`,
and the run it was given. `GfsIngest` has the coordinator's atomic `if_not_exists` (`Coordinate`),
`ensure_or_load_run_snapshot` with the filters of the pinned configuration (`EnsureSnapshot`),
`plan_run` (`Plan`: markers, then the claim), the claim, the Batch job and the record of it. A fault
(`Fail`) is an exception or a timeout anywhere: Lambda starts a GFS invocation again with its object
until `MaxAttempts`, while the messages of an MRMS batch go back to the queue together and are set
aside after `MaxReceives`. `MrmsIngest` creates snapshots only and raises when it meets another one.
`handled`, `orphaned`, `issued`, `expired` and `failed` are history. ICON is polled, and is
`FrameWork`.

### RollingObserved

State: `sources`, the configuration each published frame was made with; `store`, whether each source
and rolling payload is missing, as its manifest describes, or something else; `latest`; and for each
publisher the frames it has `seen`, the manifest it is `building`, the latest it `found` and the
payloads `todo`. `Begin`, `ReadSources`, `ReadLatest`, `CopyPayload`, `WriteLatest` are the order of
`publish_rolling_observed_latest`; the early returns (nothing in the window, metadata that cannot be
merged, a newer or equal latest) end a pass. `promised` is history: the paths that some rolling
manifest has named. A rolling path names the frame, hence two manifests that share a frame share
its payloads; the run id of a frame is a function of it.

### Inspection

`pass` is one run of `refresh_status`: the time is taken once, then the fast check of latest, the
publish history of the last cycles, latest again, the progress of candidate cycles and the lifecycle
of the target cycle are read, each read in a step of its own, while runs are pinned, marked,
validated, published and made latest, and configurations deployed. `Grace` is the 90th percentile of
the publish lags with its floor and cap; hours are numbers, lags tenths. The sorted list of lags is
the set of cycles that have one: `SortedLag(lagged, i)` is the least lag that more than `i` of them
do not exceed, which is the element of the list at `i`. Classification
(`StatusOf`) and health (`Health`) are pure. A faulty read raises, and leaves the former document
(`FailInspection`).

### ArtifactSync, SourceCache

`ArtifactSync`: `sync` is the invocation: copy the index, latest manifests, a run manifest, payloads,
then write the local index for what was copied; every aws command is a step, and may find that the
bucket has moved on. `SourceCache`: a file is absent, broken (a transfer that ended early without
an error) or whole; `job` is writing at most one temporary file, which is moved to its place
(`Replace`) or removed (`GiveUp`); bzip2 and gzip notice what is broken, GRIB files are not looked
at, which is why `CachedFilesAreWhole` leaves out GFS.

### ForecastSync, PayloadCache

`ForecastSync`: a dispatch (`RequestTime`, `ResetToNow`, `TogglePlay`, `PlaybackTick`) changes
`timeline` at once; the request effect (`Disable`, `Begin`) runs later with what the state is then,
and a load ends at any time (`ApplyWindows`, `FailRequest`, `DropLoad`). `tracker.active` decides
whether a result is still wanted. `Torn` is what is shown after `applyWindows` threw half way. What
a key that is the last applied one does not do (`begin` returns null) is part of `Begin`. The branch
of `useForecastRenderHost.ts:47-54` for a map that is taken away (no host, versions from the start)
is left out: today's `useMapLibre` takes a map away when it fails before its style has loaded, hence
before anything was shown, and when it is unmounted.

`PayloadCache`: every await is a step. `Call`, `Lookup`, `ReadMeta`, `Fetched` and `FetchFails` are
a read with its shared fetch; `pending` is the update buffer, `Drain` hands it to a turn of the
drain, which lists stale entries, lists metadata to evict, and commits to the two stores in two
transactions (`Commit`); `Lose` is a transaction that is lost, `Reload` a page that is closed.
IndexedDB reports no failure: a database that does not open, a record or a cursor that cannot be
read resolve with nothing or with what was read so far (`payloadIndexedDb.ts:41-53,79,109`). `Fault`
is such a failure, in each step that reads (`ListStale`, `ListMetadata`, `Lookup`, `ReadMeta`) or
opens (`Unopened`). `OtherTab` is a turn of another tab, which shares the database and may be of
another run. Two flags say what follows: `torn`, that the stores may contradict each other (one of
two transactions was lost, or metadata was made up beside what is there), which nothing repairs, and
`missed`, that payloads of other runs may have been left or put there, until a prune has listed
everything again. `PersistedIsOfTheScope` excepts both, and claims the limit only if nothing has
failed. Payloads have one size; how recently one was used is not kept, so that any of them may be
evicted; the buffer's limit of 64 MB is not reached.

## 3. Runs

Each `.cfg` gives the constants and the properties; the MC modules give values that a `.cfg` cannot
write, the sums, and constraints on the environment, each with its reason.

| run | question | bounds |
|---|---|---|
| `snapshot` | Is a loaded snapshot one configuration, settled once and for all, and does everybody get it? | 2 submitters, 2x2 documents of which one pair does not fit, 2 deploys, 1 crash |
| `snapshot_conflict` | Does a retry always get past an earlier attempt? **No.** | 2 submitters, 2x1 documents, 1 deploy, 1 crash |
| `frames` | Do claims exclude, do markers describe, is every frame completed? | 2 submitters, one of which only polls and in time, 2 job slots, 1 frame, 2 artifacts, 2 images, 2 attempts, claims of 1 tick, ages up to 2, one deploy or crash or failure; the deploy when a frame is half written, the schedule turns while nothing is under way and the frame is incomplete |
| `frames_duplicate` | Is a complete frame immutable? **No.** | 1 submitter, 2 job slots, 1 deploy |
| `ingest` | Has a cycle one run, is only what is pinned worked on, is no notification lost? | 2 invocations, 2 frames, 2 notifications (GFS) or messages (MRMS), batches of 2, 2 receives, 2 attempts; one fault, failed job, expired item and deploy each |
| `publish` | Is the publication atomic, consistent and final, and does it happen? | 2 publishers, 2 markers, 1 payload on 2 grids, 3 marker writes, 1 second, 1 crash |
| `publish_stuck` | Is a complete run always published? **No.** | 1 publisher, 1 marker, 1 crash |
| `public_view` | Do views show published runs only, when does latest go back, do they settle and catch up? | 2 publishers, both also rolling (one also an operator, the other with one fault), 2 datasets, 2 cycles, 1 run each |
| `public_view_repair` | Does the schedule select one run of a cycle? **No.** | 1 publisher, 1 cycle, 2 runs |
| `rolling` | Is every rolling manifest served, when does latest go back, does it catch up? | 2 publishers, 3 frames, 1 artifact, 1 deploy, 1 rewrite, 1 crash |
| `periphery` | Inspection, artifact sync, source files, frontend sync and cache, one at a time | see below |
| `client_probe` | Does the probe frame follow the selection? **No.** | 2 times, 2 views, 1 host, 2 loads, 3 events |

`periphery` has, by subject: `Inspection` 7 hours, 2 cycles of 2 hours, 2 configurations and 1 upset
(deploy, fault or bad marker); `ArtifactSync` 2 datasets of 2 runs and 1 expiry; `SourceCache` 2
parameters, one of which also needs the hour before, 2 hours and 3 jobs; `ForecastSync` 2 times, 2
views, 2 hosts, 2 loads at a time and 3 events; `PayloadCache` 2 scopes of 2 files, 2 readers, limits
of one payload, 3 reads and 1 fault (a failure, a closed page or a turn of another tab). TLC goes
no further once the stores are `torn` (`CONSTRAINT StoresAreWhole`): they stay torn, and the property
claims nothing of them any more. `MaxHour` ends before a cycle outside `Cycles` is due.

Why these are enough: every race of the protocols is between a look and a write of two processes,
hence two processes; a mixture needs two versions of a document, and a failure without a second
configuration one pair that does not fit; the claim protocol needs a submission that is in time, one
that is within its lease and one that is past it, hence a lease of one tick and an age of two;
rewriting needs every marker written and one of them again. A lost update of latest needs two
cycles, a stale index two writes of latest; a second dataset lets an index be stale in another
dataset than the publisher's own. A rolling window that loses a frame and gains one needs three
frames. A duplicate needs two notifications, a dead letter two receives, a batch that fails together
two messages. An eviction needs more files than the limit, and a late update of a former run two
scopes. Every invariant and action property of a passing run is proved without the bounds (section
5); the bounds matter for liveness.

Deadlock is checked in all runs but `ingest`, `periphery` and `client_probe`, where the bounds on
notifications, hours, jobs, reads and events let the system come to rest.

Every property of a passing run has a mutant: a definition next to the one it replaces, marked
"Faulty variant of", with a plausible bug (a check not made twice, a marker before its payload, a
deployed configuration instead of the pinned one, a file written in place), which violates it.

### Findings

* `snapshot_conflict` - a submitter that dies after `pipeline.json`, followed by a deploy, leaves a
  snapshot that `ensure_or_load_run_snapshot` can neither load nor create
  (`state/artifacts/repository.py:501`); the run id of the cycle is fixed, so that every retry fails.
* `frames_duplicate` - `run_frame_job` overwrites payloads and markers of a complete frame: an ICON
  claim lasts 900 s, its worker up to 14400 s, and nobody looks at markers again before writing.
* `publish_stuck` - a publisher that dies between the public manifest and the publication marker
  blocks the run: each later pass takes another `generated_at`, overwrites the run manifest and
  fails on the public one.
* `public_view_repair` - `_promote_latest_if_current` refuses older cycles only, and a pass refreshes
  the views for every published run of a cycle: with two of them, each pass turns latest, current
  and the index from one run to the other and back, and undoes what an operator promoted.
* `client_probe` - select another layer and the former one again before the first has loaded: the
  request tracker takes the second request for the one applied last and starts no load, but the
  probe frame is already cleared, and the timeline in flight
  (`frontend/src/forecast/sync/request/requestTracker.ts:31`).

### Behaviour the models show and no run is about

* `public_view` shows what the code does not prevent: latest may go back to an older cycle when two
  publishers overlap (`state/manifest/public_view.py:99` reads, `:114` writes). It is a lost update in
  every case (`LatestRegressesByLostUpdate`), and the next undisturbed pass repairs it
  (`ViewsCatchUp`, which assumes one published run per cycle, because of the finding above).
  `rolling` shows the same of the rolling latest (`RegressesByLostUpdate`, `LatestCatchesUp`).
* A failed submission needs no second configuration: one that reads `pipeline.json` before a deploy
  and `catalog.json` after it may hold a pair that does not validate, and raises.
  `OneConfigNeverFails` says that nobody fails otherwise, as long as one configuration was read.
* Claims exclude nobody when they are late: those of an event that Lambda delivers again after the
  900 s, or of an operator who has been at it for longer, have run out when they are written, and the
  next submission takes the frame. `LeaseExclusion` excepts exactly these.
* An ICON frame that is incomplete when the next cycle becomes the newest one, because its job
  failed for good or its claim outlived the poll that lost it, is never polled again
  (`icon_ingest_lambda.py:70-73` with a count of 1): the run stays incomplete until an operator
  submits it. `FramesComplete` therefore assumes that the schedule goes on looking at the cycle
  (`<>[]polled`).
* GFS frames are driven by notifications alone. A frame whose job failed for good, or whose claim
  was left by an invocation that died, is complete only if another notification comes:
  `FramesSettle` says just that, with both exceptions.
* After a failed load `togglePlay` has no effect: the tick is refused while the target is not the
  applied time. `resetToNow` claims a time as applied that nothing has loaded, and a scrub to a
  time whose load failed is not asked for again. `ShownIsAsked` and `InFlightIsBacked` name these as
  exceptions (`Withdrawn`, `Misclaimed`).
* `applyWindows` that throws half way leaves a picture of two times, which going back to the former
  time does not repair.
* `payload.ts:60` caches a payload before its size is compared with the manifest, so that a wrong one
  is found in the cache until it is evicted. Payloads whose metadata was lost with a torn
  transaction are never counted nor pruned. A prune that cannot list the metadata removes nothing and
  tells nobody: payloads of other runs stay until the run is switched or the page opened again.
* A GFS response that ends early stays on the worker's disk and is used by every later job there.

## 4. Fairness

`RunSnapshot`: weak fairness of each process's steps (a Lambda that runs proceeds or crashes) and
of `BeginEnsureOrLoad` (a notification is redelivered, a poll repeated). `FrameWork`: strong fairness
of the poll of each submitter (`submit_icon_ready.py` on `icon_ingest_schedule_expression`), since an
operator's or notification's submission in the same slot may disable it again and again; it
demands nothing while the schedule does not look at the cycle (`polled`), which nothing is assumed
of; weak fairness of submissions, jobs and the clock. This is ICON's schedule: for GFS there
are only notifications, and `FramesComplete` is not claimed there. `GfsIngest`: weak fairness of an
invocation's steps (Lambda runs it until it ends) and of Batch jobs; none of notifications.
`PublishRun` and `PublicView`: strong fairness of the scheduled pass
(`publisher_schedule_expression`), weak fairness of its steps. `RollingObserved`: weak fairness of
each publisher, which begins a pass again and again. `Inspection`, `ArtifactSync`, `SourceCache`,
`ForecastSync` and `PayloadCache` are checked for safety only. No fairness is assumed of deploys,
crashes, failures, expiries, operators, publications, workers' rewrites or users.

## 5. What is proved

With TLAPS, for any number of processes, frames, artifacts, markers, messages and versions, and any
bounds: every invariant and every action property that a passing run checks, and both refinements of
`WriteOnce`. Assumptions, each named in the module that declares the constants and evaluated by TLC:

* sizes are natural numbers, and the absent object is none of the documents (all modules; of the
  sums, `MrmsAssumption`, `CacheAssumption` and `ClientAssumption`);
* more run ids than expiries in `GfsIngest` (its bounds);
* `PolicyAssumption` of `Inspection`: the publish lag policy is ordered (`min_hours` 3,
  `fallback_hours` 9, `max_hours` 12, `state/inspection/status_document.py:46-49`) and the cycles
  that are looked at reach back further than `max_hours` (3 of 6 hours before the newest,
  `status_document.py:44`). The last two conjuncts are about the bounds: the first run is not
  published before its cycle begins, and `MaxHour` leaves no cycle out that an inspection could
  expect. Without it an alert could be about a cycle the model does not have.

* `RunSnapshot_proofs`: `SnapshotTypes`, `LoadsAreReads`, `RunDocumentCommits`,
  `SettledSnapshotIsFinal`, `FailuresNeedTwoConfigs`, and the refinement `SnapshotSettlesOnce`. The
  invariant says that what a process wants once it looks at documents was read as a whole and
  validates (`WantedWasRead`), hence also `run.json` (`RunDocumentWasRead`), and that the documents
  before the current one exist (`EarlierDocumentsExist`). `pipeline.json` and `catalog.json` on
  their own may mix; only the digest check ties them to `run.json`, which is why the invariant
  speaks of reads.
* `FrameWork_proofs`: `FrameWorkTypes`, `ClaimsExclude`, `PayloadsBeforeMarkers`,
  `DoneFramesAreFinal`. Exclusion is not inductive: it needs that a submission between acquire and
  submit still holds the claim, alone, as long as the lease it acquired is running (`Granted`,
  `GrantHeld`, `GrantUnique`, `GrantAlone`), and that a running lease *is* the claim (`LeaseHeld`).
  Nothing is assumed of how long a submission takes: a submission under way was started by something
  (`BusyHasEntry`), hence grows older with every tick, and its lease runs out with the claim.
* `SourceIngest_proofs`, GFS: `TypeCorrect`, `CyclesHaveOneRun`, `JobsArePinned`, `NothingIsLost`. The
  run ids of a cycle are counted against expiries (`RunsAreCounted`), everybody holds an id that was
  issued (`RunsAreIssued`); an invocation past the snapshot works on a selected frame
  (`WorkIsSelected`); and a claim is held for a frame in hand (`ReportsAreTrue`), which is what makes
  "claimed" a true answer for an invocation that did not submit.
* `SourceIngest_proofs`, MRMS: `MessagesAreAnswered`, and `DeletedMessagesAreAnswered` for the sum,
  by the same argument over batches: the messages of a batch that are worked on are settled
  (`MrmsMessagesAreSettled`), and settled frames stay so, because a snapshot stays and a submission
  ends in a job or is left behind.
* `PublishRun_proofs`: `PublishRunTypes`, `PublicationCommits`, `StoredManifestsAreServable`,
  `ConflictsNeedTwoManifests`, `PublishedRunsAreFinal`, and the refinement `PublicationsSettleOnce`.
  Every manifest anywhere was built (`ManifestsBuilt`), every built one is consistent
  (`BuiltConsistent`), documents come in order (`EarlierExist`), a publisher holds a manifest exactly
  where it commits one (`HoldsManifest`).
* `PublicView_proofs`: `PublicViewTypes`, `ViewsShowPublishedRuns`, `LatestRegressionsAreLostUpdates`,
  `SettledViewsAreFinal`. A publisher past the current manifest works on a published run whose
  cycle has one (`TargetPublished`), entries were latest manifests (`EntriesShown`), an index is
  complete when written (`EntriesRead`), and what a publisher found is not newer than its
  target (`FoundNotNewer`), so that a regression means that latest is no longer what it found.
* `RollingObserved_proofs`: `RollingTypes`, `RollingPromisesAreKept`,
  `RollingRegressionsAreLostUpdates`. A rolling payload, once as described, is never anything else:
  only a copy writes it, a copy is checked against the manifest, and all manifests describe one
  frame alike.
* `Inspection_proofs`: `TypeCorrect`, `OutagesAreNotSilent`, `AlarmsHaveACause`, `StagesAreKept`.
  Runs only gain what the inspection asks for (`WorldGrows`: publication, markers, reports, the
  latest manifest, the hour of last progress), so that what was read earlier in a pass is still true
  when the document is written. The estimated lag is within the policy whatever the history
  (`GraceWithin`, over `SortedLag` of any finite set of cycles), hence an expected cycle is due by
  `min_hours`, and the next one is not yet due by `max_hours` or has not begun (`ExpectedIsDue`):
  the first gives alarms their cause, the second makes "fresh" young. The expected cycle does not
  change under a pass, because the publication hours it was computed from do not (`GraceStays`). For
  the stages: facts are read in the order of the code (`FactsInOrder`), a fact read without a fault
  stays true (`FactsHold`), and the run keeps what a document said of it, so that no later read can
  show less (`StageHolds`).
* `Periphery_proofs`, sources: `SourcesAreWhole`. What is decompressed or regridded is whole because
  its tools fail on a broken input (`MadeOfWhole`, `WritesWhole`), and a regridded file lies beside
  the one it was made of (`RegriddedHasPlain`).
* `Periphery_proofs`, artifact sync: `SyncServes`. What the copied index names has been copied,
  dataset by dataset, before the index is written.
* `Periphery_proofs`, payload cache: `CacheIsOfTheScope`. A turn of the drain has updates of one run
  only (`TurnIsOfOneRun`), the stores agree unless they were torn (`StoresAgree`), metadata is made
  up for a former run's payload only when that is gone with the drain (`Forgotten`,
  `MadeUpIsHarmless`), the stores hold the active run from the last prune on, unless it missed
  something (`StoresAreOfTheScope`), and a turn that evicted leaves no more than the limit
  (`LimitIsEnforced`), which is an argument about cardinalities.
* `Periphery_proofs`, forecast sync: `ClientShowsWhatIsAsked`, `ClientFlightIsBacked`. The effect
  has seen the state or is about to (`SeenIsAnswered`), the tracker's active request is what was
  seen (`ActiveIsSeen`), what was applied last is what is shown (`AppliedIsShown`,
  `ProbeIsApplied`), and a timeline in flight has a request (`FlightIsForAnother`).

Each theorem about a part of a sum is stated twice: of the part's own specification, and, with the
prefix `Periphery` or of `IngestSpec`, of the sum that the run checks.

`SettledSnapshotIsFinal`, `DoneFramesAreFinal` and `PublishedRunsAreFinal` are of no run: the first
and the last are what `SettlesOnce` says of documents, the second is `FrameWork`'s promise that a
frame without work stays as it is.

Only model-checked: liveness (`OneConfigLoads`, `FramesComplete`, `FramesSettle`,
`OneManifestPublishes`, `ViewsCatchUp`, `LatestCatchesUp`), which is out of the prover's reach. The
findings are counterexamples of TLC.

## 6. Not modelled, and the plan

Not modelled:

* numerical processing and GRIB decoding: floating point, no concurrency;
* parsing of configuration documents and notifications, names and paths, formatting of reports:
  a document is its version, a notification is what it names;
* the command line, which dispatches to the operations modelled here, and its inspections of several
  runs of one cycle;
* the local backend and the file system store, which run one process;
* place probes (a value that is sampled again when the browser is idle), prefetching, interpolation
  between frames, latency smoothing, rendering, selection, settings and views of the frontend;
* shell scripts that call aws and terraform in a fixed order.

Abstractions to know of: all runs of `PublicView` share one configuration, whereas the code builds
the index with the one pinned in the run at hand (`adapters/aws/publisher_lambda.py:282`); snapshots
are one step in the ingest modules; the expiry of claims is at any time there, and timed in
`FrameWork`; the backend does not look at the age of the status document, and neither does a
property.

The plan, in order of importance:

1. A configuration per run in `PublicView`: which datasets and layers an index has.
2. The publisher's pass as one module: targets, rolling datasets and the status refresh in order.
3. `WriteOnce` for the rolling manifests: each one, once written, is a settled set of payloads.
