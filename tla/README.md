# ZolexAI in TLA+

A model of the generation platform in this repository: how a job is queued,
leased, worked on, reported, cancelled and recovered, how a browser asks for it
and follows it, how its media are stored, how a worker process behaves against an
API it cannot always reach, and what the video and music adapters do with a job.
Paths below are relative to the repository's root.

Contents: [the system](#the-system) · [what was hard](#what-is-hard-about-it) ·
[modules](#modules) · [runs](#runs) · [what the runs show](#what-the-runs-show) ·
[bounds](#bounds) · [fairness](#fairness) · [proofs](#proofs) ·
[divergences](#divergences-between-the-code-and-what-it-says) ·
[not modelled](#what-is-not-modelled) · [plan](#plan)

## The system

Three services: `apps/web` (Next.js), `apps/api` (FastAPI, stateless, N
instances) and `apps/worker` (pull-based GPU nodes, N instances). PostgreSQL
holds every job and is the queue; Redis carries wake-ups, live progress and
short-lived keys and may lose all of it; object storage holds media, moved by
presigned URLs that bypass the API.

| Component | State it keeps | Operations | Correct when |
|---|---|---|---|
| **Job lifecycle** `api/app/core/enums.py` | none: statuses, ranks, `can_transition` | the transition rule | terminal is terminal; a worker's report never moves back |
| **Job queue** `api/app/services/generation.py`, `repositories/generation.py`, `api/v1/internal.py` | `generation_jobs` (status, worker, lease token and expiry, attempts, progress, `last_event_seq`), `generation_events`, outputs | `create`, `claim_next`, `report_progress`, `complete`, `fail`, `cancel`, `append_event` | one holder per job; every lease charged; no more than `max_attempts`; a superseded worker changes nothing; the log dense and in agreement with the row; every job ends |
| **Lease reaper** `repositories/generation.py`, `api/app/main.py` | none | `requeue_expired_leases`, on a timer in every API process | finds every lease a dead worker left, whatever the size of a batch |
| **Event stream** `api/app/services/events.py`, `api/v1/generations.py`, `web/.../use-generation-stream.ts` | per connection `highest_seq`, subscription, age; per page the cached job and Last-Event-ID | `publish_event`, `stream_job_events`, `_replay_from_db`, `handle` | ids ascend; the replay joins the live feed without a gap; the page learns the outcome |
| **Worker runner** `worker/jobs/runner.py`, `core/client.py` | lease, last report, cancelled flag, current call | `run`, `_execute`, `_LeaseKeeper._loop`, `_send`, upload | a lost lease stops the render; a held one is not given up; completion implies a file |
| **Worker service** `worker/main.py` | identity, free slots, running tasks | `register`, `heartbeat_loop`, `claim_loop`, `shutdown` | a slot is released once; identity loss recovers; a stopped process ends, after its runs |
| **Queue doorbell** `api/app/services/queue.py` | one bounded Redis list | `notify_job_available`, `wake_workers`, `brpop` | a lost wake-up costs time only |
| **Worker registry** `api/app/repositories/worker.py` | `workers` rows, heartbeats | register, touch, `mark_stale_offline` | re-registering keeps the identity; staleness decides nothing |
| **Admission** `services/idempotency.py`, `services/rate_limit.py`, `api/v1/generations.py` | Redis key per (user, Idempotency-Key), request counter with a window; the unique index on jobs | `reserve`, `complete`, `release`, `check_request_rate`, `check_generation_concurrency` | one job per key; no more running jobs than the limit; a failed request frees its key |
| **Assets and storage** `services/storage.py`, `integrations/storage`, `api/v1/assets.py` | `assets` rows (pending, ready, failed), objects | `create_upload`, `confirm_upload`, `register_generated`, `list_for_user`, presign | a worker is given every input its job was accepted with; a walk of the library is complete |
| **Job workspace** `worker/jobs/workspace.py` | `job-<id>` directories | `job_workspace` | nothing is left behind by a run that is over |
| **Long-form orchestration** `worker/longform`, `worker/media/segments.py` | sections, boundaries, last frame, progress bands | `plan_segments`, `plan_chain_segments`, `render_chain`, `band_for`, `StageReporter` | sections tile the duration; no section beyond the ceiling; bands tile 15..85; each section continues the one before |
| **Director planning** `worker/director` | attempts, best draft, notes; the plan and its captions | `create_director_plan` over a list of providers, `compile_section_prompts` | the local planner asked before giving up; the user's lines kept; who left stays gone |
| **Music pipeline** `worker/music`, `worker/adapters/music.py` | writer chain, review rounds, provider polling | `FallbackLyricsWriter.write`, `acestep` polling | never a language nobody asked for, never an instrumental by accident; the best draft sung; takes as long as the song |
| **Adapters** `worker/adapters` | the render's process, sections, parts | `run`, `_render`, `_terminate_render` | no pass the model or its decoder cannot do; parts add up; a cancelled job ends |
| **Media tools** `worker/media` | none | ffmpeg wrappers | I/O only |
| **Workflow registry, schemas** `api/app/services/workflow_registry.py`, `schemas` | parsed YAML | loading, validation | what the form lets through is accepted |
| **Web application** `apps/web` | form values, tool on screen, selected job, hand-offs | switch, edit, Reuse, Extend, submit | no control in a state its tool rejects; Reuse asks for the same again |
| **API plumbing**, **Migrations and infrastructure** | configuration, sessions | | no protocol of their own |

Interactions. A create commits the row, rings the doorbell and publishes the
first event. A worker polls `claim`, gets a row's lease and presigned URLs,
stages inputs from storage, runs an adapter, and reports; every report is one
transaction under the row's lock, checked against the lease, followed by a
publish. A `_LeaseKeeper` task repeats the last report so that the lease does
not run out during a render. The reaper of every API process takes expired
leases back. The user's `cancel` writes the same row. The stream reads the
log and the Redis channel; the browser reads the stream.

### What is hard about it

* **Interleaving of transactions.** Claims (`SKIP LOCKED`), reports, reaper and
  cancel all write one row. `cancel` reads the row twice in one session and
  acts on what the first read saw.
* **Messages that outlive their sender.** A report may be handled after its
  client gave up, was killed, or lost the lease; it is also sent again after a
  broken connection.
* **Two tasks, one lease.** The keepalive and the adapter report over different
  connections, in any order.
* **Commit, then publish.** Nothing ties the two; other instances publish in
  between.
* **Batches and limits.** The reaper's batch, the stream's age, the attempt
  budget.
* **Tasks of one process.** The heartbeat replaces the identity the claim loop
  claims with; the claim loop's return ends the process under the drain.
* **Arithmetic with cliffs.** Passes have a ceiling, the decoder dies at some
  frame counts, crossfades eat sound, cuts are pulled to the music: each rule alone
  is easy, and they hold together only just.
* **Fallbacks.** Planners and writers are asked in order, with retries, repairs and
  a best draft kept, and must not change what the customer asked for.
* **Values carried about.** A form's values survive a change of tool, come back
  from an old job or arrive by a link; the API judges them by its own reading of
  the same definition.
* **Things that must happen in the end.** A job settles though workers die; a
  page learns the outcome though publishes fail; a lost lease frees the GPU; a
  queued job is served though bells get lost; a cancelled job and a stopped process
  end.

`PROJECT.json` lists each hazard at its line, with the properties that watch it.

## Modules

| Module | Models | Extends |
|---|---|---|
| `JobStatus` | `core/enums.py`: statuses, `_RANK`, `can_transition` | |
| `LeaseContract` | the abstract promise of a queue: waiting, held by one, tries counted, over, delivered or not | |
| `JobQueue` | every transaction that writes a job's row or log | `JobStatus`; refines `LeaseContract` |
| `EventStream` | publishing, streams and pages on top of the queue | `JobQueue` |
| `WorkerRunner` | worker processes, their two tasks and their client, as the only users of the queue's report actions | `JobQueue` |
| `Admission` | a user's submissions: Idempotency-Key, concurrency count, insert and commit | |
| `Assets` | rows and objects of uploads, confirmation, a generation's inputs and output, listing | |
| `WorkerService` | the worker process around its runs: identity, slots, doorbell, drain, directories | |
| `Timing` | arithmetic of lengths | |
| `Director` | planners, drafts, the plan and its captions | |
| `VideoRender` | the LTX adapter: sections, frame counts, the render's process, joining | `Timing` |
| `MusicRender` | the music adapter: writers, review, takes, the service | `Timing` |
| `Adapters` | the three together, as a worker runs them | `Director`, `VideoRender`, `MusicRender` |
| `RequestForm` | workflow definitions, the browser's form, the API's validation, lineage of extensions | |
| `JobQueue_proofs` | theorems about `JobQueue` | `JobQueue` |
| `WorkerRunner_proofs` | theorems about `WorkerRunner`, among them that it implements `JobQueue` | `WorkerRunner`, `JobQueue_proofs` |
| `Admission_proofs` | theorems about `Admission` | `Admission` |
| `Assets_proofs` | theorems about `Assets` | `Assets` |
| `WorkerService_proofs` | theorems about `WorkerService` | `WorkerService` |
| `EventStream_proofs` | theorems about `EventStream` | `EventStream`, `JobQueue_proofs` |
| `RequestForm_proofs` | theorems about `RequestForm` | `RequestForm` |
| `Adapters_proofs` | theorems about `Adapters` and its three parts | `Adapters` |
| `MC*` | constants for TLC | |

### JobQueue

`job[j]` is the row; `token` numbers the uuid4 a claim draws (two draws never
agree), `lease` is what a reader learns from `lease_expires_at`: NULL, in the
future, or past. `events[j]` are the log's rows. `grants`, `issued` and
`outputs` are history: leases committed, tokens drawn, completions that
attached an output.

One action is one transaction, with two exceptions where the code reads before
it holds the lock or writes after it:

* `ClaimLock` / `ClaimCommit` / `ClaimRollback`: the `SELECT ... FOR UPDATE SKIP
  LOCKED` and the commit of the route are apart, because presigning happens in
  between and because other transactions must be seen to skip or wait for the
  row. `Lockable(j)` is the lock: reports and cancels of a locked row wait,
  claims of others skip it, the reaper waits for every row its UPDATE touches.
* `CancelLoad` / `CancelCommit` / `CancelRollback`: the route reads the row
  without a lock to check the owner, `cancel` re-reads it `FOR UPDATE` in the
  same session, and SQLAlchemy's identity map keeps the attributes of the first
  read. So the terminal test, the event number and the list of changed columns
  come from the first read: `Cancelled(current, loaded)` writes the token and
  the expiry only if they were set *then*, and `SeqFree` (the unique index on
  `(job_id, seq)`) is what turns most races into a rollback.

`Progress`, `Complete` and `Fail` are `report_progress`, `complete` and `fail`,
each with `_lock_and_authorize` as its guard; a refused report changes nothing
and is not an action here. They range over *every* lease ever granted: the
worker is the environment, so a report may come late, twice, out of order or
not at all. `Reap` is `requeue_expired_leases` whole: one UPDATE over a batch of
at most `ReapLimit` expired rows that puts back those with attempts left, and
one that fails *every* expired row without attempts, neither writing an event.

Abstracted: request payloads, `completed_at`, error text, `stage_hint`,
event messages, users. `updated_at` and the worker's heartbeat decide nothing.

### EventStream

Every event a queue step appends becomes a member of `unpublished`; `Publish`
and `PublishFails` take its members in any order (two instances, a crash between
commit and publish, Redis down). `stream[v]` is the generator
`stream_job_events`: subscribe first (`Subscribe`), replay (`Replay`), relay
(`Relay`), stop at a terminal event or at `MAX_STREAM_SECONDS` (`MaxAge`).
`Disconnect` drops frames in flight and forgets the server's side. `page[v]` is
the hook and the query cache: `Open` fetches the job, `Receive` is `handle`.
`lost` and `carried` are history, for `NoGapAfterReplay`.

### WorkerRunner

`run[w]` is a run of `JobRunner`: its phase (`starting` for the first report,
`staging`, `rendering`, `uploading`, `completing`, `failing`), the lease, the
keepalive's last report, the cancelled flag, and at most one call of the
foreground and one of the keepalive. A call is a request on the wire and the
reply it has had. `wire` keeps requests whose caller has given up: they may still
be handled (`Handle`) or lost (`Lose`). `Resend` is `_send`'s retry after a
broken connection, which may leave the first copy on the wire. `ForeUnheard` and
`KeepUnheard` are `ApiUnavailable`. `object[j]` is the attempt whose file is
stored under the job's output key, which names the job and not the attempt.

Each worker has one slot here; several, and the directory two attempts of a job
share, are `WorkerService`'s. A claim is not retried, and `StartUnheard` is a claim
committed whose answer is lost.

### Admission

`key[k]` is what Redis holds under the user's key, `row` the user's committed
jobs, `req[c]` the submission on a connection. `create_generation` is cut where
another process can come between: `Reserve` (`SET NX`), `ReadHolder` (the GET of
its own that follows a lost one), `Refuse` and `Count` (the guards of `create`),
`Insert` (the flush in `create_job`, where the unique index speaks: it waits for
an uncommitted row with the key and fails on a committed one), `Commit`, `Record`
(`idempotency.complete`), `Release`. `CommitUnheard` is a commit that raised,
whether or not it took effect; `RedisFails` and `Crash` leave the key as it is, and
`KeyExpires` is its lifetime, an eviction or a flush. `JobEnds` stands for the
whole life of a job in `JobQueue`, of which only "active or not" is counted here.
`abandoned` is history: keys whose request could not say what became of it.

The handler `create` has for `IntegrityError` around the commit is not a step: the
index is not deferrable, so it fires at the flush before, outside the `try`.

### Assets

`row[a]` is the asset, `object[a]` what storage holds under its key. An upload is a
row, a presigned PUT the browser may use again and again (`Put`), and a
confirmation, which is cut where it waits: `ConfirmLoad` reads the row without a
lock, `ConfirmStat` looks at the object, `Accept` and `Refuse` write. `Refuse`
changes no row: `confirm_upload` marks the row failed and raises, and the raise
rolls the session back; the object it deleted stays deleted. `work` is one
generation: `CheckInputs` and `Submit` (inputs must be ready when it is asked for,
its own or inherited), `Claim` (what is not ready any more is dropped without a
word), `Stage`, `Rendered`, `UploadOutput`, each of the last three of which may fail
and send the job back to the queue (`TryAgain`; how often is `JobQueue`'s). The
lifetime of a signed link is not a number here: an upload may be refused as well as
succeed. `listing` walks the library by the cursor `(created_at, id)`; creation times
may be equal.

### WorkerService

`proc[w]` is the process of `main.py`: `pc` is where the claim loop is, `free` the
semaphore, `active` the tasks, `claim` a claim that was answered and is not a task
yet, `id` and `runner` the two identities, `beat` the heartbeat task, `drain` the
signal handler's task. `FirstRegistration`, `Heartbeat` and `HeartbeatRegisters`,
`ClaimRegisters` are the ways to a new identity; `Forget` is a row that is gone from
`workers`. `Acquire` takes a slot for a call; `NoWork`, `ClaimFailed` (whose claim may
have been committed all the same) and `ClaimRejected` give it back; `Spawn` hands it
to a task and `Without` returns it with the task. `wake` is the doorbell's list.
`Sigterm`, `Drained`, `DrainWindowCloses` and `ProcessEnds` are the shutdown,
`ProcessEnds` being `asyncio.run`'s cancellation of what is left; `Kill` takes the
process without its `finally` blocks. `files[w][j]` is the lease whose run made the
directory `job-<j>`: two attempts of one job on one worker share it, the second
removes what it finds, and either removes it on its way out; a killed process leaves
it, and nothing sweeps it. A run is one step (`RunEnds`, `RunFails`): what is inside
is `WorkerRunner`'s.

### Director

`Planning` records one `create_director_plan`: the chain of planners (`Chains` is
`default_providers`), the try, the notes for the repair and the best draft so far. A
draft is `Refused` (bad times, an unknown speaker, an exit contradicted), cut to the
speech its length holds (`Trimmed`, `_enforce_speech_budget`, where the quoted lines
of the idea are `Protected`), or held back as `Sparse` while a better one is asked
for; `Verdict` computes that once for each draft. `LookAtPicture` is the vision
request whose facts decide which claims survive. `Caption` is
`compile_section_prompts` for one section: who is introduced, what is said, who
leaves, who is still there. Times are half seconds, words are numbers, a line is a
sequence of them.

### VideoRender

Time is in ticks of 1/240 second. `Handler(job)` says for each kind of video
(generation, extension, restyle, transform, music video) the ceiling of a pass,
whether sections are continued and whether one soundtrack lies under all;
`PerPass`, `Asks`, `GridCeiling` and `Landings` are the deployment's limits by grid
and tier. `Plan` is `plan_segments`, or for a music video `plan_musical_boundaries`
over the onsets (`NextCut`, `Earliest`); a plan keeps exact cuts with a denominator. `FramesOf`,
`SafeFrameCount` and `RenderedFrames` are frames asked and rendered, and `Deadly` is
where the decoder was seen to die. The render is a process: `LaunchPass`, `Marker`
(a line of progress), `PollCancelled` (the loop that
reads its output looks at the flag), `CloseOutput` (its output ends, and only its exit is
waited for: *awaiting*), `Exit`, `Kill`, `KillLands`, `KillGraceRunsOut`. `gpu` says what is
on the card: `render`, whose leader (the `uv` that was launched) lives, and `stray`, what
outlived its leader (`LeaderDies`, or a kill whose grace ran out), which nobody signals
again. A leader found dead when the output ends is `FindExited`; how it exited is `Exited`,
with success or failure. `FinishPass` trims, `TakeFinalFrame` hands the last frame on,
`Assemble` joins the parts and validates the sum. `Reported` is the bar.

### MusicRender

`SongKinds`, `Wanted` and `TargetLines` are the plan; a `Sheet` is a sequence of blocks
of lines, a line what it says, its rhyme and the details it keeps, told by its place in
the sheet (`Places`). `Shape`, `Composed` and `LocalSheet` are the template writer,
`HostedSheets` what the hosted one may answer; `LocalDraft` and `HostedDrafts` are those
polished and reviewed; `Review`, `Acceptable`, `Score` and `Better` are the review, its
rates being counts of places, and `Drafted` keeps the best of the two rounds. A block
that polishing leaves empty stays in the sheet, where nothing counts it. `SkipWriter`, `HostedAnswers`, `HostedFails`, `LocalWrites` and
`NobodyWrites` are `FallbackLyricsWriter.write`. `TakeCount` and `Padded` are
`_plan_sections`; `StartTake`, `Submit`, `PollEnds`, `Fetch`, `Join` are the ACE-Step
service and the crossfades. `take` is the single file every take is downloaded to.

### Adapters

Runs the three as a worker does: a directed video waits in `directing` while Director
plans; one cancelled flag serves both; `Abort` is the runner's own cancellation of the
task (its time is up, or the process ends).

### RequestForm

`Loadable` is what the loader accepts of a definition file, `Starts` of a directory.
`DefaultValues`, `PreserveValues` (another tool's values carried over), `WithSource` (a
result handed over by a link), `ValuesFromJob` (Reuse), `FormIssues` and
`ToCreateInput` are `form.ts`; `Problems` is `validate_request` and `Lineage` is what
`create` attaches to an extension. `Follow` re-renders the workspace with another
tool, `Open` mounts it anew; the router is outside. A choice that is not made is
`None`. The two sliders are left out: every value they can take is accepted for every
workflow.

## Runs

| Run | Instance | Checks |
|---|---|---|
| `one_job` | 1 job, 2 workers, 2 cancel requests, 2 attempts; symmetric | `EveryGrantIsCharged`, `LeaseFollowsStatus`, `OutputIsFromLastLease`, `LogIsDense`, `LastEventTellsOutcome`, `LoggedOutcomeIsFinal`, `ForwardUnderOneLease`, `KeepsContract` |
| `fleet` | 2 jobs, 2 workers of which one serves only the newest job, 1 cancel, batch of 1, fairness | `EveryJobSettles` |
| `event_stream` | 1 job, 1 worker, 1 cancel, 1 page, fairness | `FramesAscend`, `NoGapAfterReplay`, `LoggedEndIsSeen` |
| `worker` | 1 job, 1 worker, 1 cancel, 2 stages, 2 tries, fairness | `RefusedReportMeansLost`, `CompletedHasObject`, `LostLeaseStopsWork` |
| `admission` | 3 connections, 1 key, limit 1, 4 jobs; symmetric | `OneJobPerKey`, `PendingIsOwned`, `OvershootIsBounded` |
| `assets` | 2 uploads and a result, 2 creation times, 2 confirmations at once, pages of 1; symmetric | `ClaimCarriesEveryInput`, `ListingIsComplete` |
| `service` | 1 process with 2 slots, 2 jobs, 2 attempts, 2 worker rows, fairness | `SlotsConserved`, `DirectoryHasRun`, `QueuedIsServed`, `StopEnds` |
| `adapters` | 9 drafts of a plan, 18 videos, 158 songs, 6 sheets; one faulty render; fairness | `AdaptersTypeOK`, `UserLinesSurvive`, `GoneAreGone`, `LocalIsAsked`, `DecoderSurvives`, `PlanIsWhole`, `BarNeverHeldBack`, `SungAsAsked`, `AcceptableIsShipped`, `SongIsWhole`, `CancelledEnds` |
| `form` | 5 catalogues of two tools, 3 edits, 2 or 3 jobs | `SubmittedIsAccepted`, `ControlsAreValid`, `ReuseAsksAgain`, `LineageIsWhole` |
| `stream_end` | as `event_stream` | violated, see [divergences](#divergences-between-the-code-and-what-it-says) |
| `object_overwritten` | 1 job, 2 workers, 2 attempts, 1 stage report | violated |
| `service_drain` | as `service`, without fairness | violated |

The type invariants of `JobQueue`, `WorkerRunner`, `Admission` and `Assets` are not
runs: they are proved. `CHECK_DEADLOCK FALSE` except for `Admission`, which never
stops: a system whose jobs are all finished, whose pages are closed or whose uploads
are used up stops, and is meant to.

### What the runs show

* **One holder, every lease charged** (`EveryGrantIsCharged`). `attempts` equals
  the number of leases handed out and never passes `max_attempts`, though the
  worker's own retry and the reaper's share the counter and a claim writes the
  count it read before it committed. Without the row lock two claims share one
  attempt, and the property fails.
* **No working row is invisible to the reaper** (`LeaseFollowsStatus`), so
  **every job settles** (`EveryJobSettles`) with only polling, timers and the
  clock: not one thing is assumed of a worker that has a job.
* **A superseded worker changes nothing** (`OutputIsFromLastLease`,
  `ForwardUnderOneLease`, `KeepsContract`). The rows implement `LeaseContract`:
  waiting, held, over, with a result delivered only from "held" to "over".
* **The log is the history of the row** (`LogIsDense`,
  `LastEventTellsOutcome`, `LoggedOutcomeIsFinal`). Numbers are dense even though
  `cancel` allocates from a stale read: the unique index is what makes that true.
  The exception is part of the statement: a job the reaper gives up on ends
  without an event. An outcome the log has is final.
* **A page sees ids ascend, loses nothing between replay and feed, and learns a
  logged outcome** (`FramesAscend`, `NoGapAfterReplay`, `LoggedEndIsSeen`), the
  last even when the terminal event was never published, because a stream that
  reaches its age closes and the browser resumes from its cursor.
* **A refusal in the foreground is always a lost lease**
  (`RefusedReportMeansLost`), retries and late copies included: repeating a
  status is legal and reports only move forward. The same is not true of the
  keepalive, see below.
* **A completed job has a file** (`CompletedHasObject`), though completions may
  be handled after their sender died.
* **A lost lease stops the render** (`LostLeaseStopsWork`), through any number of
  failed renewals.

* **One job per key** (`OneJobPerKey`), though `release` deletes whatever the key
  holds, Redis may forget it at any time and commits may be unheard; and nobody is
  told another key's job. The waiting of one insert for the other is what it rests
  on: an index that saw committed rows only would let two through.
* **No error path leaves a key behind** (`PendingIsOwned`): a key answers 409 only
  while its submission is handled, or because that one died or lost Redis.
* **The limit can be passed, by a known number** (`OvershootIsBounded`). The count
  and the insert are apart, so the limit is not exact; it is passed by fewer jobs
  than the submissions in flight at once, however many have been sent.

* **A worker gets what its job was accepted with** (`ClaimCarriesEveryInput`),
  although nothing locks an input: the only step that leads away from *ready* is the
  refusal of an oversized upload, and that one rolls itself back. A refusal that
  committed its mark would be found: two confirmations of one upload, the file put
  again in between, and an accepted job loses an input without a word. **A library
  read page by page is whole** (`ListingIsComplete`) with rows of equal age at a
  page's edge.
* **Slots are conserved** (`SlotsConserved`) through every way a claim can end, and
  **directories go with their runs** (`DirectoryHasRun`), a kill excepted.
* **A queued job is served** (`QueuedIsServed`) by a running worker that can execute
  it, though bells are lost and its own row may be forgotten; **a process told to stop
  ends** (`StopEnds`) though the API does not answer. That it ends too early is the
  third divergence below.
* **Director keeps the user's lines** (`UserLinesSurvive`): a draft that says them in lines
  of their own loses none of their words to the trim, even when the model broke a
  quotation into two events; and a plan that is rendered passes the parser's own test of
  them, which looks for the words in order from one mouth *or* for the characters anywhere
  in a line (see below: that is less than the words). **Who
  has left stays gone** (`GoneAreGone`) in any number of sections, for plans whose
  events do not overlap. **The local planner or writer is asked before anything fails
  for the hosted one** (`LocalIsAsked`).
* **No pass asks for what kills the decoder** (`DecoderSurvives`), rounding to the
  lattice included, and none is shorter than its section. **The plan is the whole video**
  (`PlanIsWhole`): windows tile it, none beyond the ceiling and none shorter than two
  seconds (or half a pass), in no more passes than even windows need, frames adding up to the soundtrack's; a cut pulled to the music never
  leaves a last window that is too long. **The bar is never held back**
  (`BarNeverHeldBack`): it shows what the last marker reported, and the last marker of a
  section leaves it where the next section begins, or at 85, so the slices of the bar meet
  for every number of sections.
* **A song is sung as asked** (`SungAsAsked`), **with the best draft**
  (`AcceptableIsShipped`), **in takes that add up** (`SongIsWhole`).
* **A cancelled job ends** (`CancelledEnds`), with a render that neither prints nor
  exits as well, and the process that was launched is then off the card. Nothing is assumed
  of the render, so the property has its one exception in it: a render that closed its
  output and lives on is awaited without a look at the flag, for as long as it lives.
* **The form and the API agree** (`SubmittedIsAccepted`): what the form sees no fault in
  is accepted, for every definition the loader lets through; **no control is stuck**
  (`ControlsAreValid`); **Reuse asks for the same again** (`ReuseAsksAgain`), without what
  the API attached; **an extension inherits the whole story** (`LineageIsWhole`).

### Bounds

* `MaxReports` bounds the event number at which progress reports are still
  accepted; a real run's reports are bounded by its adapter. Retries,
  completions and cancels are not bounded by it, so every other action can
  happen at every reachable row.
* `Full` (100 in the code) is 1 or 2: enough for a report below, at and above the
  current progress.
* `Reported` is two statuses with a rank between them, enough for a legal move, an
  illegal one and a repetition.
* `MaxAttempts` 2 distinguishes the first, the last and no further attempt; the
  worker and stream instances use 1, where what matters is one run.
* Two workers and two cancel requests are the least in which claims race, leases
  are superseded and stale reads meet each other; with one batch row and two
  jobs the reaper has a backlog it cannot take at once.
* `MaxWire` 2 lets a keepalive and a foreground report pass each other, or a
  request and its second copy.
* `Tries` is `_TRANSPORT_ATTEMPTS`; 2 has a first, a middle and a last try in one.

* `MaxJobs` in `admission` leaves room for one job past what the limit and the
  connections allow, so that a larger overshoot would be seen. Submissions have
  one key or none: nothing relates two keys of a user.

* `assets`: two uploads may be confirmed, put again and used against each other; two
  times give equal and different ages; pages of one put every row at an edge.
* `service`: with two slots one is free while the other works, and two attempts of a
  job overlap; `MaxRows` 2 is a first identity and another, `MaxWake` 1 a list that is
  trimmed at once. `MaxBoots` 1: a process that ended stays down in this run; what a
  process starts with does not depend on the one before, except the directories, which
  it does not look at.
* `adapters`: drafts of both characters with and without quotation or its characters in other
  words, overlong, sparse, with departures, and with events that cross a section's middle; videos below, at and
  beyond a pass on every grid, with lengths of uploaded files that divide into nothing;
  onsets that coincide with cuts and that do not; every genre and length the local
  writer is asked for, writers in every order, languages they have and have not, and
  one to five takes. One faulty render of a chain is enough to reach the validation.
* `form`: each catalogue pairs tools that differ in what the values of one mean to the
  other (a mode, a length, a level, an input of the same role and another kind). Three
  edits set what a request needs; three jobs, in the catalogue with the extender, are an
  original, an extension and an extension of that; two elsewhere are one to go on from.

No constraint cuts states off: the bounds are guards of actions, and named.

### Fairness

* `Fairness` (queue): clocks advance, each API process runs the reaper on a timer
  (`api/app/main.py`), an idle worker polls every `idle_poll_seconds`. A claim's
  commit has *strong* fairness because a claim may be rolled back and tried
  again; weak fairness would let it die every time. Users, and workers that hold
  a job, owe nothing.
* `StreamSpec`: the browser reconnects on its own, the server relays what it has
  and closes at its age. Replaying and receiving have strong fairness: the
  connection may drop arbitrarily often but not before every single frame.
* `RunnerFairness`: the keepalive's timer fires, every call ends
  (`request_timeout_seconds`), the adapter looks at the cancelled flag between
  units of work, and of the renewals of one run not all fail. Nothing is assumed
  of the length of the render, so the job's time budget is not what makes
  `LostLeaseStopsWork` true.
* `ServiceFairness`: what a process does by itself goes on, an API that is called again
  and again answers some of the calls (strong fairness of `ClaimAnswered` and
  `ClaimRejected`), a run is bounded by its timeout. Nothing is assumed of submissions,
  the reaper, Redis, signals, kills or reboots.
* `AdaptersSpec`: the adapter's own next step is taken, every request it makes having a
  timeout. Nothing is assumed of the render's process: it may never print, exit or die,
  and may close its output or lose its leader at any moment. That is why `CancelledEnds`
  cannot promise an end once the output is closed: `Exit` belongs to the process. The
  runner's timeout, which does end it, is a matter of hours and is not assumed either.
* `Assets` and `RequestForm` state safety only.

## Proofs

TLAPS proves these for every set of jobs, workers and requests and every value of
the bounds, from `QueueAssumption` (job ids are naturals in order of creation,
`MaxAttempts`, `ReapLimit` and `Full` are positive, `Reported` is a set of working
statuses, `Nobody` is no worker), for the workers `RunnerAssumption` (a run has at least
one stage and its stages do not go back: the runner reports *preparing* first,
`StageReporter.report` clamps what an adapter reports, and the harness and the mock go
in order), for streams `WatchAssumption` (each page watches one job), for admission
`AdmissionAssumption` (connections are finitely many and at least one), for media
`AssetsAssumption` (asset ids are naturals, the result is no upload, durations are
naturals), for the service `ServiceAssumption` (its limits are positive), for the
adapters `DirectorAssumption`, `VideoAssumption` and `MusicAssumption`, and for the
form `FormAssumption`. The three of the adapters say what a draft, a video and a song
are, and that there is something to ask for: a video has a length, a limit on a pass of
at least a second, and a delivery rate between ten and sixty, where `_delivery_fps` keeps
it; a song has a length; planners, drafts and sheets are as the parsers read them. `FormAssumption` says that definitions have the fields of
`WorkflowDefinition` and states three things the loader does not check and every file
in `workflow-definitions/` respects: a tool with a Director has lengths of its own, the
extender has a required `source_video` and lengths, and it does not ask for an
`identity_image`, the role the API attaches the first photograph under. Without them a
form without issues could be refused, or an upload be taken for the photograph.

| Theorem | States |
|---|---|
| `JobQueue_proofs!TypeCorrect` | `Spec => []TypeOK` |
| `JobQueue_proofs!GrantsAreCharged` | `Spec => []EveryGrantIsCharged` |
| `JobQueue_proofs!LeasesFollowStatus` | `Spec => []LeaseFollowsStatus` |
| `JobQueue_proofs!LeasesMoveForward` | `Spec => ForwardUnderOneLease` |
| `JobQueue_proofs!LogsAreDense` | `Spec => []LogIsDense` |
| `JobQueue_proofs!LogsTellOutcomes` | `Spec => []LastEventTellsOutcome` |
| `JobQueue_proofs!OutcomesAreFinal` | `Spec => LoggedOutcomeIsFinal` |
| `JobQueue_proofs!OutputsAreFromLastLeases` | `Spec => []OutputIsFromLastLease` |
| `JobQueue_proofs!QueueKeepsContract` | `Spec => KeepsContract`, that is, `JobQueue` implements `LeaseContract` |
| `WorkerRunner_proofs!RunnerTypeCorrect` | `RunnerSpec => []RunnerTypeOK` |
| `WorkerRunner_proofs!WorkersImplementQueue` | `RunnerSpec => Spec` |
| `WorkerRunner_proofs!RefusalsMeanLost` | `RunnerSpec => []RefusedReportMeansLost` |
| `WorkerRunner_proofs!CompletedJobsHaveObjects` | `RunnerSpec => []CompletedHasObject` |
| `EventStream_proofs!StreamTypeCorrect` | `StreamSpec => []StreamTypeOK` |
| `EventStream_proofs!FramesAlwaysAscend` | `StreamSpec => []FramesAscend` |
| `EventStream_proofs!NoGaps` | `StreamSpec => []NoGapAfterReplay` |
| `Admission_proofs!AdmissionTypeCorrect` | `Spec => []AdmissionTypeOK` |
| `Admission_proofs!KeysMakeOneJob` | `Spec => []OneJobPerKey` |
| `Admission_proofs!ReservationsAreOwned` | `Spec => []PendingIsOwned` |
| `Admission_proofs!OvershootsAreBounded` | `Spec => []OvershootIsBounded` |
| `Assets_proofs!AssetsTypeCorrect` | `AssetsSpec => []AssetsTypeOK` |
| `Assets_proofs!ClaimsCarryEveryInput` | `AssetsSpec => []ClaimCarriesEveryInput` |
| `Assets_proofs!ListingsAreComplete` | `AssetsSpec => []ListingIsComplete` |
| `WorkerService_proofs!SlotsAreConserved` | `ServiceSpec => []SlotsConserved` |
| `WorkerService_proofs!DirectoriesHaveRuns` | `ServiceSpec => []DirectoryHasRun` |
| `RequestForm_proofs!FormsAreAccepted` | `FormSpec => []SubmittedIsAccepted` |
| `RequestForm_proofs!ControlsStayValid` | `FormSpec => []ControlsAreValid` |
| `RequestForm_proofs!JobsAskAgain` | `FormSpec => []ReuseAsksAgain` |
| `RequestForm_proofs!LineagesAreWhole` | `FormSpec => []LineageIsWhole` |
| `Adapters_proofs!AdaptersTypeCorrect` | `AdaptersSpec => []AdaptersTypeOK` |
| `Adapters_proofs!TheLocalOneIsAsked` | `AdaptersSpec => []LocalIsAsked` |
| `Adapters_proofs!UserLinesAlwaysSurvive` | `AdaptersSpec => []UserLinesSurvive` |
| `Adapters_proofs!TheGoneStayGone` | `AdaptersSpec => []GoneAreGone` |
| `Adapters_proofs!DecodersSurvive` | `AdaptersSpec => []DecoderSurvives` |
| `Adapters_proofs!PlansAreWhole` | `AdaptersSpec => []PlanIsWhole` |
| `Adapters_proofs!BarsNeverHoldBack` | `AdaptersSpec => []BarNeverHeldBack` |
| `Adapters_proofs!SongsAreSungAsAsked` | `AdaptersSpec => []SungAsAsked` |
| `Adapters_proofs!SongsAreWhole` | `AdaptersSpec => []SongIsWhole`, if every song is `Joinable` |
| `Adapters_proofs!AcceptableIsAlwaysShipped` | `AdaptersSpec => []AcceptableIsShipped`, if the local sheets are acceptable (`LocalFits`) |

The last two have a hypothesis besides the assumptions, and `MCAdapters` assumes the same
of its 158 songs by name, so that TLC computes it.

* `Joinable`: a crossfade is at most half of a take, and a song is at most 255 takes long.
  `music_crossfade_seconds` has no bound in `core/config.py`, and with a fade as long as a
  take the padding never catches up with itself; so the theorem says for which deployments
  the count is right. The product's own figures (300 seconds, a fade of 1.5, no ceiling
  below 5) are well inside.
* `LocalFits`: what the template writer makes of a prompt with at most two details beside
  its subject is acceptable. That is a computation over the writer's bank of couplets, once
  for every genre and length, and TLC does it for seven genres at five lengths. What is
  proved is the rest: that nothing the hosted writer answers, before or after, loses it.

The argument for the queue has four layers, each an invariant on top of the ones before.

1. `TypeOK`, inductive by itself.
2. `LeaseInv`. `EveryGrantIsCharged` is not inductive: a claim writes
   `attempts + 1` from the row it *read*, so one needs that the row is still as
   it was read and still queued (`ClaimsHoldTheirRows`, what `FOR UPDATE` buys),
   and that a queued row has an attempt left (`LeaseFollowsStatus`).
   `LeaseFollowsStatus` in turn needs that a report which names a token in use
   names the last one drawn (`TokensAreDrawn`), and that a row which does not
   exist has nothing (`AbsentIsBlank`). Every action but the two halves of a
   claim changes rows in one way, `RowMove`, so `RowMovesKeepLeases` is proved
   once and cited by each.
3. `LogInv`. `cancel` numbers its event from a stale row. That the number is
   nevertheless the next one follows from `LogIsDense` together with
   `CancelsReadThePast`: what it read is at most the row's number now, and a
   smaller one is taken, which the unique index refuses. That no recorded
   outcome is overwritten follows from the same two and `TerminalEventIsLast`.
   `Moves` says what any step can make of one job, `NextMoves` proves it action
   by action, and every later theorem is a consequence of `Moves`.
4. `OutputIsFromLastLease`, then the refinement: `MovesKeepContract` maps each
   kind of move to a step of the contract, or to none.

For the workers, `RunnerTypeOK` is inductive together with the two invariants of
the queue, and `AuthorizedIsGranted` (a triple that passes `_lock_and_authorize`
is a lease that was handed out) makes every request the API accepts a report of
`JobQueue`. So the theorems above hold of the whole fleet.

`RefusedReportMeansLost` looks at a reply, and a reply is decided when the request is
handled, which may be after others of the same run. `RunnerInv` says what makes every
order harmless: while a lease is held, neither the job's status nor any request that
carries the lease is ahead of the stage the run has reached (`NothingIsAhead`), a call
says no more than its run (`SoundCall`), and stages ascend, so that the foreground's
report, first copy or second, is a legal move whenever it is handled. For a lease that is
gone there is nothing to show, because a token that was replaced never comes back
(`TokensAreDrawn`). `CompletedHasObject` is in it because a completion on the wire is only
sent after the upload (`SoundRequest`), and nothing takes an object from a job's key.

For streams, `StreamInv` relates four places an event can be in: behind the browser's
cursor, on the wire, in the channel of the feed, or not published yet. `FramesClimb` says
that the wire leads from the cursor to `highest_seq` strictly upwards, which gives
`FramesAscend`. `NoGapAfterReplay` needs to follow every event of the log
(`HasItsPlace`): it is in one of those places, unless the channel has missed it, and
subscribing *before* the replay is what leaves it no other. The replay itself is the log
in order: `InOrder` puts at place *i* the event with *i - 1* smaller numbers, and
`LogIsDense` (cited from the queue's proofs) says there is exactly one.

For admission, `OneJobPerKey` needs `InsertsAreFirst` (an insert that has flushed
has no rival, committed or not: the index) and `JobsAreNamed` (what Redis and the
handlers say of a job is so). `OvershootIsBounded` needs `WithinBudget`, which counts
a submission from its admission on: running jobs *and* admitted submissions together
stay below the limit plus the connections. `PendingIsOwned` is inductive over the
types.

For media, `ClaimCarriesEveryInput` says nothing of what happens before the claim.
`AssetsInv` adds `InputsStayReady`: from the request on, the inputs are ready. It is kept
because a row that is ready stays ready (`ReadyStays`, step by step), through
every attempt.
`ListingIsComplete` rests on `WalkInv`: what a walk has shown descends, and a row it owes
is shown or still beyond the cursor, which is the last row shown. `RanksFill` proves that
the rows of a finite set have the ranks 0, 1, ... without a gap by `(created_at, id)`, so
that a page cut off at `Limit` leaves exactly the older rows to the next one; with the
cursor on the time alone, two rows of equal age break it.

For the service, `SlotsConserved` is not inductive: a task that is started must be one
the process does not have, or one slot would stand for two tasks. `ServiceInv` adds
`Kept` (a claim that was heard is of a new task, the tasks are finitely many) and
`Charged` (no task has a token the queue has not handed out). A claim's token is above
the row's, and a row's token only grows (`Grows`), whoever claims, reaps, forgets or
fails it. Four lemmas then say how a process's slots move: not at all (`SameSlots`), back
with a call (`SlotReturns`), back with a task (`TaskReturns`) or with all the tasks the
drain gives up (`TasksReturn`). `DirectoryHasRun` follows from `FilesInv`, which adds that
a process that is down has no runs: a process that starts finds no directory that is
still somebody's.

For the form there are two layers.

1. `FormInv`: the form on screen is one of its tool (`FormOf`: every control holds what
   the tool offers, every input has a role the tool knows), and every job was made by a
   definition of the registry and, read back, asks for the same (`Made`). It is what
   `ControlsAreValid` and `ReuseAsksAgain` say, strengthened by the roles and types a
   control's validity is blind to; without them an input carried from another tool would
   be sent to one that rejects it. `SubmittedIsAccepted` is then a lemma about one form
   (that without `FormIssues` there are no `Problems`), rule by rule.
2. `LineageInv`, on top: every asset in a form or a job is an upload or the output of a
   job that completed (`AllFinished`), an extension's source comes from an earlier job
   (`Linked`), and it carries the story up to there (`Carries`). `LineageIsWhole` compares
   with `Story`, a recursive function over the jobs. That this function exists and
   satisfies its equation (`StoryExists`, `StoryIs`), and that a new job does not change the
   stories of the old (`SameStory`), is proved by the least job for which it fails, which
   needs no induction theorem.

TLC checks every part of `LeaseInv` and `LogInv` that a property states; the rest
(`ClaimsHoldTheirRows`, `TokensAreDrawn`, `AbsentIsBlank`, `TerminalEventIsLast`,
`CancelsReadThePast`) are proved with them.

For the adapters, a step is at most one step of each part (`StepsAreLocal`), so each part
has an invariant of its own, and `AdaptersInv` is the three with `PlansForOne`: Director
is at work only for a video that waits in `directing`, or a plan could reach a job that
has moved on.

* `DirectorInv`: the chain of planners is a suffix of the one it began as, and ends at the
  local planner (`ChainsEndLocal`); it is shortened only past a planner that was asked. So
  when nothing is left of it the local one was asked. The plans it keeps were made of
  drafts that were not refused (`Usable`), which is the first half of `UserLinesSurvive`.
* `MusicInv`: while writers are asked, the local one is still in the chain if it can write
  the language, so the chain cannot run out without words; a draft that is kept does not
  read as another language (`Singable`), through both rounds; and there is a take for
  every section asked for (`TakesArePositive`).
* `VideoInv`: while there are passes there is a plan that tiles the video (`Tiles`), the
  frames asked of a pass are the ones its section needs, and the bar is where the last
  marker put it, never beyond the slice of its section (`BarInBand`); `LastMarkEndsSlice` and
  `BandsMeet` say that the last marker reaches the end of its slice and that the next one
  begins there.

On top of these, each property about what planners and writers answer is a lemma about
their operators, and the invariant only carries it to the end of the job.

* `UserLinesSurvive`. A line that is part of the quotation is never trimmed, and the trim
  changes nothing but lines it silences (`TrimOnlySilences`). If consecutive lines of one
  speaker are the quotation, each of them is a piece of it, so all of them are protected
  (`LinesAreRuns`), and the same run of them is in the trimmed timeline (`QuotesSurvive`); silent events between them add no word, and clipping
  an event to the video's length does not touch its line (`SameLinesSayTheSame`). What is
  said up to an event is a recursive function; that it only grows (`Prefix`) is proved by
  the least event for which it does not.
* `GoneAreGone`. In a plan in sequence the section of an event is monotone in its index
  (`SectionsFollow`), and an exit is final (`DeparturesAreFinal`), because continuity
  refuses a character who acts after they left. So a character who left in a section is
  in none of the later casts (`GoneFrom`), and what the clock says of who is present after
  the last exit of a section is the cast without all of its exits (`GoneStayGone`).
* `SongIsWhole` (`CountInv`: the takes rendered are the takes counted). The loop of
  `_plan_sections` counts takes, pads for their crossfades and counts again. Every round
  at least halves the number of takes still missing (`GapHalves`), which is at most 255 at
  first, so eight rounds settle (`TakesSettle`) and the count satisfies its own
  equation: as few takes as will do (`FewestTakes`). Joined, they are as long as was asked
  for but for the floor of five hundredths under a fade (`JoinedIsWhole`).
* `AcceptableIsShipped` (`BestInv`: until its words are chosen, a song has no draft worth
  singing). A review has nothing to complain of only if no line is repeated, so that its
  rate of unique lines is one, and an acceptable draft scores three halves at least; one
  with a complaint scores one at most, and one with no complaint and too few rhymes less
  than three halves (`BelowTheMark`, `AcceptableWins`). That rates are rates (`Sound`) is
  proved of every sheet from the finiteness of its places (`ReviewsAreSound`), polished or
  not (`PolishedEnds`), hosted or composed (`ComposedIsSheet`). A consequence for the code:
  `unique_rate >= 0.7` in `LyricsReview.acceptable` decides nothing.

`VideoInv` rests on arithmetic for every length, music and rate. `PassesAreSafe`: the frame
count of every pass within its ceiling is beside the counts its decoder dies on, by cases
over the bands for each pipeline, grid and conditioning. `PlansTile`: even windows tile, and
so do cuts that follow the music, because every cut fits (`Fits`): it is not past its even
place, and leaves to the passes that remain no more than they can hold; `NextCutFits` shows
that the next one fits as well wherever `Earliest` lets the music pull it, and that no
window is left shorter than `MinimumWindow`: a music video of more than one pass has half
a pass for each of them at least. `AscendingIs`
then puts the cuts in order. `FramesAddUp`: the frames of the first sections add up to the
rounding of their common end, within half a frame, because each section's are the
difference of two roundings; `PlanIsWhole` claims it of videos at least as long as one frame,
since a section has one at least. Sums and cuts are recursive functions, which exist
and satisfy their equations by iteration (`IterationExists`); what holds of all their values
is proved by the least number for which it fails (`LeastNumber`, `UpTo`).

`RunnerInv`, `StreamInv`, `FilesInv`, `WalkInv`, `FormInv`, `LineageInv` and the four parts of
`AdaptersInv` were checked with TLC as invariants of the runs' instances before they were
proved.

Every safety property a run checks is proved. Only model-checked: the liveness properties
`EveryJobSettles`, `LoggedEndIsSeen`, `LostLeaseStopsWork`, `QueuedIsServed`, `StopEnds` and
`CancelledEnds`, which are outside what TLAPS proves (fairness, `ENABLED`), and `LocalFits`,
above.

## Divergences between the code and what it says

Three are runs that TLC must find violated, with a counterexample of a few steps.

| Run | What happens |
|---|---|
| `stream_end` | a job the reaper gives up on appends no event, so a page that follows it is never told. |
| `object_overwritten` | a worker whose lease ended during its upload writes over the object of the attempt that completed: the key names the job only. |
| `service_drain` | SIGTERM, with one slot free and one at work: the claim loop returns at once, `run`'s own `shutdown` sees that stopping is set and returns, and `asyncio.run` cancels the drain and the run. `main.py:182` says in-flight jobs finish. |

Noticed while modelling, and not kept as runs; the models contain each behaviour
unless it says otherwise.

* **Terminal is not quite terminal** (`generation.py:418`). `cancel` reads a working job;
  the reaper fails it without an event; `cancel` commits: *failed* becomes *cancelled*,
  where `core/enums.py:63` says nothing leaves a terminal status.
* **A cancelled row can keep its lease token** (`generation.py:424`): `cancel` read the
  row before it was claimed, so `lease_token = None` changes nothing. Harmless, because the
  status is tested first, but not what the docstring relies on.
* **Events can be skipped for good** (`events.py:180`): one whose publish failed or was
  overtaken is below the id the browser resumes from. `events.py:105` says an outage costs
  latency and never correctness.
* **A refused renewal need not mean a lost lease** (`runner.py:331`): a keepalive overtaken
  by the adapter's next report is an illegal transition, and the run stops.
* **A repeat can be answered 500** (`repositories/generation.py:66`): the unique index
  speaks at `create_job`'s flush, not at the commit `create` wraps.
* **Reports of a renewed identity are refused** (`main.py:99`): the heartbeat's
  registration changes `worker_id`, the claim loop's runner keeps the one it was made
  with, and the API refuses a report of a worker the lease does not name.
* **A first draft of a song can be lost to a refused second round** (`music.py:357`): the
  second round's `NoLyricsWriterAvailable` discards what the first wrote. And with one
  hosted writer outside a chain, `LyricsWriteFailed` is not caught and the job crashes.
* **Extend follows the page, not the result** (`ResultActions.tsx:14`): the strip can
  select a job of any tool, and what is offered is the page's. A hand-off that was
  applied is not applied again after a switch of tools (`CreatorWorkspace.tsx:120`).
* **A quote inside a longer line can be trimmed** (`plan.py:534`): the trim spares only
  lines that are part of a quote, so an overlong draft that speaks the quote with words of
  the planner's around it loses that line and is refused for the loss, although
  `plan.py:520` says lines the user wrote are never trimmed. `MCDrafts` holds such a draft.
* **A local planner outlives its job**: it is killed at its own timeout, not when the job
  is cancelled. **Overlapping events** let a departed character speak in a later section
  (`compiler.py:73`). An event that starts at the video's end is accepted and clipped to
  nothing, or to less; its exit then counts in the last section by its index and not by the
  clock, and the caption says both that the room is empty and that a character stays. TLC
  found it while the theorem about departures was being stated; `InSequence` asks for
  events that take time.
* **Eight rounds, not two or three** (`music.py:536`): a song of 300 seconds in takes of 5
  with the default fade goes round five times. The bound of eight is the one that holds,
  and only where a fade is at most half a take (`Joinable`).
* **A part of a wrong length can be delivered** when it passes the tolerance of the whole
  (`ltx.py:2847`).
* **A cancelled render may not be ended** (`ltx.py:2981`): one that closes its output and
  lives on is waited for without looking at the flag, where `ltx.py:2911` says cancellation
  is honoured within `_CANCEL_POLL_SECONDS`; the runner's own timeout ends it. It is the
  exception in `CancelledEnds`. And a child that outlives its `uv` leader is never killed:
  `_terminate_render` returns at once when the leader has exited (`ltx.py:3060`).
* **The exact test of the user's lines is not exact** (`plan.py:852`). `_require_user_dialogue`
  says the lines must appear "exactly" (`plan.py:819`), but a quotation found anywhere in a
  line's characters counts: "he left me" is in "she left me". `within` marks such lines,
  and `PlanSpeaks` accepts them.
* **An upload link can expire before the upload** (`internal.py:65`). The docstring says it
  must outlive the render; its lifetime is the render's ceiling and a grace, but nothing
  bounds what comes before the render (`runner.py:151`, inputs one after the other, with
  timeouts per operation only), and the grace (`config.py:98`) is the upload's own
  allowance. A refused upload sends the job back to the queue, here as well.
* **A sheet of tags counts as words** (`music/lyrics.py`): a hosted answer with section tags
  and no sung line is a sheet like any other, and `SungAsAsked` calls it sung.
* **A failing ffmpeg in onset detection fails the job** although the docstring calls the
  cuts a preference: `TimeoutError` is not the error it catches (not modelled).
* **Every take is written to `take-00.mp3`** (`acestep.py:373`); within the limits of the
  default configuration only one take is ever made.

## What is not modelled

* **The clock.** Leases expire at any moment; the durations that make expiry rare
  (keepalive interval against lease length) are not compared. The request-rate window is
  one of the reasons `Refuse` stands for: its INCR and EXPIRE go out as one transaction.
* **What a run, a row and a file are to each other's module.** `WorkerService` takes a run
  as one step, `WorkerRunner` a worker as one slot, `Assets` one generation. Each states
  what it assumes; only `WorkerRunner` is composed with `JobQueue` itself.
* **Listing of jobs, presentation, health, logging, configuration, sessions, migrations,
  scripts**: no protocol of their own.
* **The mock and harness adapters**: the first plays a script for tests, the second calls
  an external command whose protocol is the command's.
* **Text**: wording of prompts and captions, the vision model's and planner's language,
  the rhyme dictionaries and the syllable counts behind a line's `sound`.
* **ffmpeg**: filter graphs, masks, probing. The lengths that come of them are modelled,
  their pixels are not.
* **Links**: how long those for uploads last (an upload may be refused at any time), and
  those for playback and download; signatures of the local storage.
* **The form's sliders and its file validation**, and the router.

## Plan

Done, in the order it was written: `JobStatus`, `LeaseContract`, `JobQueue`,
`EventStream`, `WorkerRunner`, `Admission` and their proofs; `Assets` and
`WorkerService` with their proofs; `Timing`, `Director`, `VideoRender`, `MusicRender`,
`Adapters`; `RequestForm`.

Then the rest of the proofs about the protocols: `EventStream`, the reports of
`WorkerRunner`, the directories of `WorkerService`, the library of `Assets`, `RequestForm`.

Then proofs about the adapters: their types, `LocalIsAsked`, `SungAsAsked`,
`DecoderSurvives`, `PlanIsWhole`, `BarNeverHeldBack`; and
what their operators compute: `UserLinesSurvive`, `GoneAreGone`, `SongIsWhole`,
`AcceptableIsShipped`.

What is left is what the provers have no rule for: the liveness properties, and `LocalFits`
for every length a song can have.
