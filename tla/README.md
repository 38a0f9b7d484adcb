# Verification of autonomous-youtube-studio

The studio is a FastAPI process with PostgreSQL behind it. For every active
channel it picks a topic once a day, queues a *pipeline run* that writes, voices
and renders a video, inserts an *upload* row for it, publishes that upload on
YouTube at its scheduled time and cross-posts it to Instagram afterwards. Two
kinds of things must be right. Many short transactions of independent actors
(interval jobs, their HTTP twins, background tasks, dashboard requests,
watchdogs, a process that restarts) on the same few rows must add up to *one*
video per topic, *one* YouTube video per upload, *one* Short per channel and day,
*one* Reel per film, and an operator's decision must be final. And the chain of
fallbacks that turns a model's reply into a film (parse or take the raw text,
score or assume seventy, hear or guess the timing, draw or fetch a picture) must
not let through what each of its links would have stopped. That is what the
modules here are about.

Paths below are relative to `src/app/`.

## 1. Inventory

| Component | State | Operations | Interacts through | What is hard | What makes it correct |
|---|---|---|---|---|---|
| **Publishing**: `scheduler/scheduler.py`, `agents/upload_agent/service.py`, `api/services/publishing_service.py`, `api/services/upload_service.py` | row of `uploads`: `publish_status`, `status`, `youtube_video_id`, `retry_count`, `scheduled_at`; each session's ORM object; the tick's list | tick (list, re-fetch, guards, upload, retry, give up), `trigger_upload`, approve, reject, schedule, delete | the row, its lock, YouTube | stale lists and objects, two ticks at once, lost answers, failed commits, rollback that expires the object in use | one YouTube video per upload; PUBLISHED is true; decisions are never overwritten; every due upload is settled |
| **Pipeline runs**: `agents/pipeline_agent/service.py`, `api/services/pipeline_service.py` | row of `pipeline_runs`, topic status, upload reference, the task in memory | start, the stages, gates, retry loop, recovery, dashboard retry and delete, watchdog, startup reconciliation | the row; the topic; the upload row | a task nobody can stop, commits whose confirmation is lost, swallowed errors | at most one upload; complete only with it; bounded attempts; never RUNNING forever |
| **Daily automation**: `scheduler/automation_scheduler.py`, `api/services/channel_automation_service.py` | `channel_automation` row: status, `last_run_date`, `last_long_pipeline_date`, `cumulative_active_days`; the semaphore; runs of the channel | tick guard, list, per-channel task, start, pause, archive, reset | the row; runs (`PipelineService.start`) | tasks that wait and then use what was read before; midnight; start that clears the date; failures between two commits | one Short per date, the date counted once; a stop is kept; every active channel served; a Long when due |
| **Channel content**: all content tables; `channel_automation_service.py` (`reset_channel`), `video_service.py`, `analytics_service.py`, the agents' services | nine tables with foreign keys, unique columns and no ON DELETE rule; what each open transaction has written and locked | the stages of a run, uploads, deletion of videos and of uploads, thumbnails, renders, analytics, the hard reset | rows, their locks, YouTube | a reset that deletes while others insert; deadlock with a run; a run whose row is gone; a remote delete before a local one | an undisturbed reset wipes everything; no content without its run; PUBLISHED rows have their video |
| **Schema**: `database/migrations/`, `database/models/` | revision of the database, its tables and enum types, their rows | upgrade, downgrade, `create_all`, stamp | the start command runs `alembic upgrade head` | seventeen revisions that drop, recreate and retype tables; types that outlive their table; a step back; a database not made by migrations | head serves the models; upgrades succeed and keep rows |
| **Script, quality, SEO, voice**: `agents/long_script_agent/`, `quality_agent/`, `seo_agent/`, `voice_agent/`, `llm_providers/` | the reply, the script row, report, narration, the voice file, its timings file, the video row's status | generate, expand, score, gate, clean, speak, regenerate, delete; fall back to the next provider | stages of a run; the voice API | every link has a fallback; the voice API runs beside the render; the voice file is written before its rows | a reply that is not a script never reaches the voice; the script holds what it promises; the film shows the last take that has its rows |
| **Video**: `agents/video_agent/` | cards with their times, captions, the film, the `videos` row and its file | align, hear, time, illustrate, draw, assemble, encode | the voice file; pictures; the row | guessed and heard timings, transitions that overlap, a crash during a render of many minutes | what is on the screen is what is being said; the row describes the file |
| **Pictures**: `integrations/image_provider.py`, `pexels_provider.py`, `video_agent/image_cache_cleanup_bootstrap.py` | files by script and prompt, one lock per path; stock photos by query | search, generate, fall back, cache, remove after a render | the scene loop of concurrent renders | waiting for a lock of a task that fails, partial files, one film removing what another was handed | each picture once, whole, and for every scene; none left after the last render |
| **Instagram cross-posting, sweep and token**: `scheduler/instagram_scheduler.py`, `storage_cleanup_scheduler.py`, `instagram_token_watchdog.py` | `ig_scheduled_at`, posted, attempts; files by age; the stored token | tick, post, count; sweep; check, refresh | upload row, Graph API, files | no claim on the row; a sweep that reads and deletes apart; one check a day | one Reel per film; files kept while needed; the token never runs out |
| **Sessions**: `database/connection.py`, `database/repositories/base_repository.py` | transactions | flush of changed columns, refresh, rollback | every component | expiry, lost confirmations, READ COMMITTED | part of the above |
| **Peak times**: `agents/pipeline_agent/peak_scheduling.py` | none: a function of floor, zone and windows | compute `scheduled_at` | the pipeline's upload stage | weekends, local midnights, clock changes, malformed and skipped windows | the earliest peak time |
| **Upload call**: `integrations/youtube/uploader.py`, `client.py`, `auth.py` | token, session, offset, the open file | token, session, chunks, answers | the film's file, YouTube, `run_upload_for_video` | chunks stored in part, lost answers, a render that rewrites the file, calls repeated | returns only with its one whole video; always ends |
| Topics, RAG store, alerting watchdogs | | | | | section 6 |
| Dashboard, auth, websocket, chatbot, legacy workflows, configuration, logging, metrics | requests | rendering and plumbing | call the services above | none of the shared state is theirs | not modelled |

How they interact: the automation tick calls `PipelineService.start`, which
commits a PENDING run and spawns its task; the stages of the task write the
script, voice and video rows, the last one inserts the upload row (already
SCHEDULED when auto-publish is on) and completes the run; the publish tick finds
the upload when its time has come and schedules the cross-post, which the
Instagram tick finds later. All share the process, so a crash hits them
together; they share state through PostgreSQL and the storage directory only.
`POST /internal/tick/*` builds a *second* scheduler object and runs its tick next
to the interval job, so nothing of APScheduler's `max_instances` protects one
tick from another.

## 2. Modules

| Module | Models | State it keeps |
|---|---|---|
| `UploadStore` | the `uploads` row, `BaseRepository.update`, due query, transition table | none (operators) |
| `PublishScheduler` (EXTENDS `UploadStore`) | all writers of an upload row, YouTube as an external party | committed rows, row locks, each session's position and ORM object, tick lists, YouTube's videos |
| `UploadLifecycle` | abstract: what publishing promises | decision, taken, number of videos |
| `PublishSchedulerProofs` | theorems about `PublishScheduler`, the refinement of `UploadLifecycle` among them | |
| `PipelineRuns` | all writers of a run row and of the topic status | committed rows, tasks and their objects, the watchdog's and the dashboard's reads |
| `RunLifecycle` | abstract: what a run promises | status, live worker, upload made |
| `PipelineRunsProofs` | theorems about `PipelineRuns`, the refinement of `RunLifecycle` among them | |
| `DailyAutomation` | scheduler ticks, channel tasks, dashboard requests, the calendar | automation rows, PENDING and RUNNING runs, slots of the semaphore, tasks, requests |
| `ChannelProofs` | theorems about `DailyAutomation` and `ChannelContent` | |
| `OrmModels` | the mapped classes: foreign keys, columns, keys | none (operators) |
| `SchemaMigrations` (EXTENDS `OrmModels`) | the seventeen revisions, up and down; deploy, step back, `create_all`, stamp | revision, schema, enum types, tables with rows |
| `ChannelContent` (INSTANCE of `OrmModels`) | run, publisher, requests and hard reset on one channel's rows | committed rows, open transactions, the actors, YouTube |
| `ScriptGates` | parsing, QA, SEO and quality scores, cleaning | none (operators) |
| `ScriptProduction` (EXTENDS `ScriptGates`) | provider chain, long-script agent, gates, voice stage, voice API | the LLM call, script, report, narration, voice, film |
| `ScriptProductionProofs` | theorems about `ScriptProduction` | |
| `SceneTimeline` | alignment, Whisper matching, clip times, caption and karaoke bars | none (operators) |
| `VideoRender` (EXTENDS `SceneTimeline`) | one script's render, repeated, with crashes | cards, bars, film, row and file |
| `VideoRenderProofs` | theorems about `VideoRender` and the operators of `SceneTimeline` | |
| `SceneImages` | the scene loops of concurrent renders, image cache and locks, stock photos | files, lock queues, loops, mappings |
| `SceneImagesProofs` | theorems about `SceneImages` | |
| `CrossPosting` | film files, the sweep, the token, two Instagram ticks | rows, files, token, ticks |
| `UpkeepProofs` | theorems about `CrossPosting` and `SchemaMigrations` | |
| `PeakScheduling` | local time, windows, `compute_scheduled_at` | none (operators) |
| `TimedUpload` (EXTENDS `PeakScheduling`) | one upload: its time, then the calls of `upload_video` beside a render | plan, time, file, call, YouTube's session and videos |
| `UploadCall` | abstract: what one call of `upload_video` is taken for | outcome, video made, file disturbed |
| `TimedUploadProofs` | theorems about `TimedUpload` | |
| `MCPipelineRuns` | how many runs with how many failures | |
| `MCScriptProduction`, `MCVideoRender`, `MCTimedUpload` | the replies, sentences, zones and windows the runs use | |
| `MCSceneImages` (EXTENDS `SceneImages`, `SchemaMigrations`) | the films and scenes; the database is migrated first, then the application makes films | |

The rule all of them follow: *one action is what the program does between two
points at which somebody else's commit can come in between*, i.e. between two
`await`s that read or write the database or talk to another service. A flush and
a commit are separate actions where other sessions could notice. Where a
component is sequential (`SchemaMigrations`, `VideoRender`, the agents in
`ScriptProduction`), an action is a phase whose result the next one reads.

`ChannelContent` and `SchemaMigrations` name their initial states, steps and
specifications `InitContent`, `NextContent`, `ContentSpec` and `InitSchema`,
`NextSchema`, `SchemaSpec`: their theorems stand in modules that extend another
component too.

How the modules meet: `PipelineRuns` takes the outcome of a stage as an input;
`ScriptProduction`, `VideoRender` and `ChannelContent` are the insides of those
stages (text, film, rows). `VideoRender!Illustrate` takes the outcome of one
`SceneImages` loop, and of the renders of other films of the script meanwhile: pictures for
any of the scenes. `CrossPosting!Publishes` is the
commit of `PublishScheduler`, whose upload call is `UploadCall`, which `TimedUpload`
implements. `DailyAutomation!RunBegins` and `RunEnds` stand for
`PipelineRuns`. `ChannelContent` reads its foreign keys off `OrmModels`, whose
agreement with the migrated database `SchemaMigrations` checks.

### Sessions and transactions

* PostgreSQL at READ COMMITTED: a read returns committed rows, an UPDATE waits
  for the row lock (`Free`), which is held until commit or rollback.
* `BaseRepository.update` sets attributes, flushes and refreshes. The ORM emits
  only columns whose value *changed on the object*. `Flushed` (uploads), `Merged`
  (runs, automation) and `Counted` (cross-posts) do the same: a column that the
  object did not change comes from the row. This decides several properties: no
  publisher writes back the `publish_status` it read minutes ago.
* rollback expires objects. Reading an attribute of one afterwards raises
  `MissingGreenlet` under the async engine; the handlers that do so are modelled
  as raising (`Abort` in `PublishScheduler`, `escaped` in `PipelineRuns`).
* A commit whose confirmation is lost took effect *and* raised. It is `"ack"` in
  `PipelineRuns`, `DailyAutomation` and `CrossPosting`.
* `ChannelContent` adds what a reset meets: uncommitted rows are private, a new
  reference locks its parent, a second row for a unique parent waits for the
  first, constraints are checked at every statement (`Violates`), two
  transactions that wait for one another are a deadlock that PostgreSQL breaks
  by ending either (`DeadlockEndsRun`, `DeadlockEndsReset`).

### PublishScheduler

`TickList` is the short read session, `TickTake`/`TickFetch` the loop and the
re-fetch with its three guards, `TickFetchFails`, `TickRetry` and `TickGiveUp`
the retry path, `TickGuard` the idempotency branch. `Prepare`, `MarkUploading`,
`Answered`, `Refused`, `TimedOut`, `MarkFailed` and `Commit` are
`run_upload_for_video`, which a tick and `trigger_upload` share (`Publishers`).
`Abort` is what an exception after the re-fetch does to a tick: the handler rolls
back, touches the expired object and leaves the loop. Editors read and check in
one action and write in another, as the services do. Failures are drawn from
`Faults`; at most `MaxFaults` happen.

*Abstracted:* titles, descriptions and times (`due` is the set of uploads whose
time has come); notifications; the chunks of one YouTube call (`Answered`,
`Refused`, `TimedOut` are its outcomes; whether YouTube created the video is a
separate fact, `created`). The order of a tick's list is arbitrary, which
includes the order of the query.

### PipelineRuns

A run's task is a program counter over the stages `script`, `quality`, `seo`,
`voice`, `video`, `upload`, `finish`, plus the handler states of the retry loop
(`retryable`, `fatal`, `backoff`, `broken`, `escaped`). What a stage computes is
external here: it succeeds (`StageDone`), fails its gate (`GateFails`,
`RenderFails`) or raises (`StageRaises`). `old` says that `updated_at` is over
two hours back, which is what the watchdog looks for. `stuck` is what the
watchdog has read and not yet written. Topic statuses other than REJECTED and
PUBLISHED are one, `"open"`. After an exception it is left open which handler is
taken (`Raise` with a set): classification by exception type and text is data.

### DailyAutomation

Dates are kept as distances from the channel's today (`last`, `since`), so
`NewDay` ages them. A task computed *its* today when it began; `age` counts
midnights since. The day counter stops at `ShortsOnly` and `since` at `Interval`,
beyond which the code does not tell values apart; run counts stop at `MaxRuns`
and waiting tasks at `MaxWaiting`. `Take` is the semaphore, `Read` and `Overlap`
the early returns and the plan of the day, `CreateShort` and `CreateLong` topic
selection with `PipelineService.start`, `Final` the last update. Operators read
and write in two actions; the end of `reset_channel` is a third (`ResetWipes`).

*Over-approximations:* runs are counted, not identified, so a PENDING run whose
task died may still begin and RUNNING ones end in any order; the automation row
and the channel row are read in one action; at saturation of a count an
increment is dropped. `shorts`, `counted` and `excuses` are history variables,
kept for the channels in `Tallied` only.

### OrmModels and SchemaMigrations

A table is its foreign keys (column, parent, ON DELETE rule), the columns some
revision added after it was created, the type of its key, whether it has
secondary indexes, and which columns keep a server default. Each revision is an
operator from a database to the set of databases it can give, empty when
PostgreSQL or Alembic refuses (a table that exists, a NOT NULL column without a
default on a table with rows, a constraint dropped without a name, a parent
dropped before its children). `UpgradeTo` runs them one after the other in one
transaction, as `env.py` does; it is a recursive function over the revisions. The enum
types of the database are a variable of their own (`types`), and each revision a second
operator on them (`UpTypes`, `DownTypes`, walked by `TypesTo`); a command succeeds when both
walks do. `CreateTypes` is what `op.create_table` does for the enums of its columns: CREATE
TYPE without looking. `RestoreVoiceTypes` is the one revision that looks first; whether its
`create_type=False` is heeded depends on the SQLAlchemy installed (`requirements.txt` pins
none), hence the constant `CreateTypeHeeded`, and on what Alembic has created since the
command began, hence its argument `from`. `Deploy` may skip releases; `Use` puts a first row into one of five
`Tracked` tables, children only under parents. `CreateAll` and `Stamp` are the
development shortcut and the deployment guide's repair of it.

*Abstracted:* the labels of an enum type, the types of the initial revision (never
dropped), plain column types, names of indexes.

### ChannelContent

A row is its table, the rows it refers to and a status. Every actor has a
session; `work` is what its transaction has written (`One` row, or what it wrote
before with a newer statement laid `Over` it), `See` what it reads. `RunWrites` is what a stage
flushes, `RunBooks` its update of the run row with the commit, `RunRenders` and
`RunRenderEnds` the render's two commits, `RunHandles` the handler. `Takes`,
`Triggers` and `Answers` are the publisher. Requests are one step each where
they never wait after their first write, two where they talk to YouTube first
(`EverywhereAsks`, `EverywhereDeletes`; `FetchReads`, `FetchSaves`).
`reset_channel` is `ResetStarts`, `ResetReads`, `ResetYouTube`, one
`ResetDeletes` per table in `ResetOrder` (`next` is the statement it is at), and
`ResetCommits`; `raced` remembers
that somebody else wrote meanwhile.

*Abstracted:* one run and one request at a time; a statement that waits starts
over when the lock is free; lost commits and crashes are left to
`PublishScheduler` and `PipelineRuns`, the voice API to `ScriptProduction`. The
quality batch is not modelled.

### ScriptGates and ScriptProduction

A reply is its lines, call to action, claimed word count, the items promised by
hook and title and seen in the body, tags, hashtags and what the description
holds; a line is a model value. `Parsed` is `_parse_response` with its QA passes
in their order, `Longer` the choice after an expansion, the four `...Score`
operators the SEO gate's arithmetic, `QualityScore` the reading of an
evaluation, `Narration` the cleaning, `Without` the removal of sentences that leak
instructions. `ScriptProduction` runs them: every LLM call
goes through `chain`, the providers the factory wraps, with Groq's waits and
Gemini's three requests (`RateLimited`, `Refused`); `AttemptFailed` is the run's
own retry; `Speak` takes the first engine that works, overwrites the audio file and
writes the timings file, or not; `SaveVoice` is the transaction with the Voice and Video
rows that follows, `RowsLost` a crash or a failure in between, which leaves a take without
rows (`saved` is the last one with them); `GenerateVoice`, `RegenerateVoice`, `BatchVoice` and `DeleteVoice`
are the API; `BeginRender` and `EndRender` are all that matters of a render.

*Abstracted:* prompts and wording; which provider answers; the Short agent is the
one step that its code can take (section 7).

### SceneTimeline and VideoRender

Time is counted in ticks; a word is one beat long and narrow or wide. `AlignSentences`
is the word-count timing, `MatchSentence` the search for a sentence among the
words Whisper heard, carried from sentence to sentence by `Transcribe`, `FromSidecar` the
timings file, `StampedClips` and `ChainedClips` the two ways to lay out clips, `CaptionBar`
and `KaraokeLines` the two bars (the static one gets the first 200 letters only: `Clipped`, a
word that is cut is `Part`) with their greedy wraps (`Wrap`, `KaraokeWord`). `VideoRender` runs them in the
order of `run_for_script` with the patches `main.py` installs: `Heard` is what
Whisper may return (a word lost, misheard or split), `Save` and `Encode` are where
the row is committed and the file is written, `Die` may come at any time.

*Abstracted:* pixels, music, presenter, watermark, end card (`Decorate` may fail,
and changes no time); integer division where the code has floats, so bounds allow
one tick per card.

### SceneImages

Each film is a program counter in the scene loop. `queue[p]` is the asyncio lock
of a path: its head holds it, the others wait in order. `Enter` looks for the
file under the lock; `Answered`, `HfFails`, `TooMany`, `AskAgain` and
`PollinationsFails` are the providers; `Store` replaces the file, `StoreFails`
raises out of the loop. `Render` is the commit before the render with the render itself,
which blocks the event loop, and the removal of the script's cached pictures that
`image_cache_cleanup_bootstrap` hangs on it; `CommitFails` leaves without a render, and so
without the removal. `swept` is history: the pictures that a film was handed and that
another film's render removed. `CacheLeft` and `StockLeft` say what files a crash may
leave: the cache writes a temporary file and renames it, the stock photo is
written in place.

*Abstracted:* a stock query is the prompt; the size is one per script; writes are
synchronous and so atomic for the other tasks; a stock file of up to 1000 bytes
counts as absent, as the code treats it.

### CrossPosting

Days are the unit of time. `done` and `file` are the video's status and the age
of its file; `SweepReads` is `_protected_paths` (its two selects as one read),
`SweepDeletes` the walk. `Check` is the daily watchdog, `ManualRefresh` the
dashboard's button, `Regenerate` the notification's instructions at an idle
moment, `Crash` a restart, which skips a check. A tick lists due films, posts
them one by one, marks or counts each; two may overlap, which is a fault of its
own (`"overlap"`) since both must be running at once. `raced`, `late`, `excuses`
and `lapses` are history variables.

*Abstracted:* `Day` waits until the check has run and nothing is due (ticks are ten
minutes apart); `public_base_url` is set; a PUBLISHED row has a YouTube id; a
failed render is one that is not COMPLETE; the container protocol inside
one Graph API call.

### PeakScheduling and TimedUpload

Time is in half hours of UTC; a zone has an offset before and one after the moment
its clocks change. `ToUtc` is what `zoneinfo` does with a local time that is skipped
or comes twice; `Windows` is the validation with the fall-back to the defaults,
`ScheduledAt` the walk over four local days. `Insert` uses it as the pipeline's
upload stage does. `Begins` to `Returns` are `upload_video` with its helpers: the
size is read first, the token fetched, the session opened for that size, then the
file read chunk by chunk *as it is by then*. A file is a sequence of units, each of
the film it belongs to; `RenderTruncates`, `RenderAppends` and `RenderEnds` are a
repeated render that writes the same path (`{script_id}.mp4`). `Stores` and `Fits`
are YouTube's side: a chunk must begin where the stored bytes end, part of it may be
stored, the last byte makes the video. `GoesOn` ignores how much was stored, as the
code does, so that the next chunk does not fit and the call ends. `film` and `raced`
are history: the file when the call began, and whether it was written since.

*Abstracted:* a call that raised may be followed by another one, which includes
the scheduler's retries, ticks after a crash and manual repetitions; which failures
are retried is in `PublishScheduler`. Token, session and answers fail as a whole.
The channel's row is there. Writes before the first call are the choice of a file.

## 3. Runs

| Run | Instance | Question it answers |
|---|---|---|
| `publish_concurrent` | 1 upload, 2 ticks, 1 manual trigger, 1 editor, all 10 kinds of failure, 2 failures | `AtMostOneTransmit`: one session at a time talks to YouTube about an upload; `DecisionKept`: a publisher's commit does not write back an old decision |
| `publish_lifecycle` | 2 uploads, 1 tick, 1 editor, failures that lose neither an answer nor the commit after one | the scheduler implements `UploadLifecycle` (`ImplementsLifecycle`), so each video goes out once; `DueIsSettled` |
| `pipeline_runs` | 2 runs of a topic with 1 failure of any kind, or 1 run with up to 4; 2 retries | `CompleteHasUpload`; `OneUploadPerRun`; `RetryBudget`; the rows implement `RunLifecycle` (`ImplementsRunLifecycle`); `RunningEnds` |
| `automation` | 2 channels sharing 1 slot, 1 operator, 1 failure of any kind, 2 requests, unbounded days | `OncePerDay`; `StopKept`; `EveryActiveServed`; `LongComes` |
| `render_timeline` | sentences of 1, 4 and 6 words, at most 2; captions of 8 letters in lines of 3; 1 or 3 beats; rests 0 or 5; all modes; 2 renders | `CardsFollowVoice`, `EverySentenceSeen`, `NarrationKept`, `CaptionsHonest`, `HighlightKeepsUp`: what is seen is what is said; `CompleteMatchesFile` |
| `script_production` | 8 drafts, 3 expansions, 3 evaluations, 4 cleanings; 1 retry, 2 waits, 2 takes | `GivesUpLast`: a call fails only after every provider had its tries; `ScriptHonest`, `NarrationHonest`: promised counts, call to action, no leaked instructions; `GateStopsUnparsed`; `CompleteShowsSaved`: a COMPLETE film is not of an older take than the rows |
| `channel_content` | 1 run with a second attempt, the publisher, 1 request of any kind, a reset; up to 10 rows | `ResetEmpties`: an undisturbed reset leaves nothing; `NothingWithoutRun`: a run whose row is gone commits no script, report or voice |
| `content_delete` | 1 run, 1 request | *violated:* `PublishedIsLive` (section 7) |
| `cross_posting` | 1 film, 2 ticks, retention 1 day, delay 1, cap 2, token life 2, warning 1, 2 failures | `FilesNeeded`; `TokenAlive`; `ReelOnce`; `CrossPostSettles` |
| `scene_images` | 17 revisions, rows in 5 tables, `create_all` and stamp, `create_type=False` not heeded; then 2 films of one script with three scenes (one without prompt), 1 retry, full disk, failed commit and crash, 3 films begun | `HeadServesModels`: at head every mapped table has its columns, keys, delete rules and enum types; `OnlyKnownBlocks`: exactly when an upgrade cannot succeed; `StepBackIsUndone`; `AskedOnce`; `PicturesStay`: what a film was handed stays until a render of its script; `DiskFreed`: after the last render no picture is left; `ScenesIllustrated`; `FilmsGoOn` |
| `timed_upload` | 4 zones, 37 configurations, Shorts and Longs, every half hour of a week; films of up to 5 units in chunks of 2, 3 calls, 2 failures | `EarliestPeak`: the first peak time from the floor on, for a channel's own windows or the defaults; the uploader implements `UploadCall` (`ImplementsUploadCall`) |
| `highlight` | that of `render_timeline` | *violated:* `HighlightIsSpoken` |

### Bounds, and why they are enough

* One upload is enough for mutual exclusion: rows do not refer to one another; a
  second one matters only for what a failure does to the rest of a tick's list,
  hence two in `publish_lifecycle`. The theorems of section 5 cover any number.
* Two failures: one to reach a handler and one inside it. `pipeline_runs`
  takes four while there is one run, because two retries need three errors before the
  last attempt and one more in the bookkeeping; `MCPipelineRuns` lets a second run
  start only while at most one failure has happened.
* `MaxCopies` = 6 and `MaxRows` = 1: YouTube may accept more copies than the
  failures of a run can cause, and one row per video is inserted over time.
  Re-insertion after a delete is covered by the proofs.
* `automation`: `ShortsOnly` = `Interval` = 1 reach both sides of each boundary and
  days are unbounded. Two operators who disturb one another are covered by the
  theorems only.
* `scene_images` begins before the start command runs: the database is migrated while the
  application is down. There is no bound on these steps: every reachable pair of revision
  and schema is visited. The application then starts on the database of a first deployment
  and migrates nothing; pictures are files and do not depend on the schema, so one
  run answers both questions. The five tables with rows are those some revision drops,
  retypes or gives a NOT NULL column, and `uploads`, whose new columns have defaults.
  The theorems hold for either value of `CreateTypeHeeded`.
* `render_timeline`: a sentence shorter than a card's minimum, one of average length
  and one that wraps and is longer than what a caption shows; a rest longer than every tolerance; two sentences are the
  least with a transition. A second render is what can contradict a first row. `MinCard` 3,
  `Fade` 2, `MinShare` 6 and `Closing` 5 are the code's 0.5, 0.35, 1 and 0.8 seconds
  in ticks of about 0.175 s; the theorems hold for any of them with a fade shorter than
  a card.
* `script_production`: each draft, expansion and evaluation takes another branch of
  the parser and the gates (unparsed, overclaiming in one digit and in two, leaking, too
  short, correct).
* `channel_content`: the ten rows hold one of each table; two attempts
  make a retry reuse its rows; one request of each kind meets every stage.
* `cross_posting`: retention and delay of one day meet both sides of each
  comparison; the theorems hold for all of them.
* `scene_images`: two films of one script are what locks are for; a third start
  finds the files of a crashed process.
* `timed_upload`: the week's Sunday changes New York's clocks, in spring or in autumn,
  India's offset is not a whole hour, and the windows touch midnight, the skipped
  and the repeated hour. Five units are two whole chunks and a short one. Two
  failures spoil two of three calls.
* Deadlock is not checked in any run: with requests and failures used up and
  everything settled, the modelled system has nothing to do. `channel_content`
  models the database's own deadlocks as actions.
* Type invariants are theorems of `PublishScheduler`, `PipelineRuns`,
  `DailyAutomation`, `CrossPosting` and `SceneImages`, so no run repeats them; that of
  `TimedUpload` is a lemma of its refinement, and those of `ScriptProduction` and
  `VideoRender` are parts of the invariants of section 5.

## 4. Fairness

* Publishing: the interval job keeps firing and a started upload call ends
  (`WF` of the tick's and the publishers' steps): the HTTP client has timeouts and
  PostgreSQL grants a freed lock. A request an operator has begun is finished by
  the server; nobody is assumed to begin one.
* Runs: only the watchdog (part of the automation tick) and the passage of time
  are fair. Stages may hang forever; `RunningEnds` holds all the same.
* Automation: the tick fires, tasks take their steps, runs end (which `RunningEnds`
  shows of `PipelineRuns`), days go by. `Take` is strongly fair per channel because
  `asyncio.Semaphore` wakes waiters first-in first-out: a slot that becomes free
  infinitely often reaches everyone who waits.
* Cross-posting: days go by, the daily check and each begun tick take their steps
  (`WF`): APScheduler fires the interval jobs, Graph API calls have timeouts.
  Renders, publications, manual requests and failures are not fair.
* Pictures: each film's loop takes its steps (`WF`): provider calls have timeouts,
  the event loop runs every task, and an `asyncio.Lock` wakes its waiters in order
  (which is in the model, as the queue). Nobody is assumed to begin a film.

* Upload call: the steps of a call that has begun are taken (`WF_vars(CallStep)`): the
  HTTP client's timeout is thirty seconds, reading a file does not block. Ticks, renders
  and failures are not fair.

The other modules state no fairness and no liveness property: their runs are about
safety only.

## 5. Proofs

`PublishSchedulerProofs` proves, for any sets of uploads, ticks, triggers and editors
and any numbers of retries, copies, rows and failures:

| Theorem | Says |
|---|---|
| `TypeCorrect` | `Spec => []TypeOK` |
| `InductiveInvariant` | `Spec => []IInv` |
| `UploadingIsInvisible` | no committed row ever says UPLOADING |
| `TransmitExclusion` | at most one session talks to YouTube about an upload |
| `PublishedIsTrue` | PUBLISHED only if YouTube created a video |
| `CommitKeepsDecision` | a publisher's commit keeps `publish_status` |
| `Refinement` | `OneAtATime` gives `Spec => ImplementsLifecycle` |

Assumptions: `StoreAssumption` (there is an upload; the bounds are natural numbers,
copies and rows positive) and `SessionAssumption` (the kinds of sessions are
disjoint, `NoOne` is none of them).

None of the four safety properties is inductive as it stands. `IInv` adds:

* `TypeInv`: types, and that the retry handler is reached only while the *listed*
  `retry_count` is below the limit; without it the counter's range would not be
  kept, since the handler writes the list's value plus one over whatever the row says.
* `LockInv`: a row lock is held by a publisher that is inside `run_upload_for_video`
  for that very upload, and whoever is sending or committing holds it. Mutual
  exclusion is a corollary.
* `StatusInv`: UPLOADING has been overwritten in the object before the commit.
* `AcceptedInv`: not only rows, also every object in memory that mentions a video
  is right about it, including objects of a tick that is about to promote
  the status without uploading.
* `DecisionInv`: the lock holder's object has the committed decision, because the
  refresh came after the lock and nobody else can write since.

Each part has an `Init` and a `Step` lemma; a step lemma has one step per action.

`OneAtATime` (at most one tick and one operator, no manual request; no answer lost or
garbled, no commit that fails, no crash) is what `UploadLifecycle` needs and the code does
not guarantee: with two publishers, or an answer lost, the same upload becomes a second
video (section 7), and the refinement is false. Everything else that can fail may fail,
for any number of uploads, retries and rows. `SerialInv` adds to `IInv`:

* `RowInv`: an upload without a row is a draft and nobody has its lock; the holder of a
  lock has read the row it locks, not an earlier one of the same video.
* `VideoInv`: a video YouTube made is in the row, or the tick is about to commit it; an
  upload that is being prepared or sent has none. This is what forbids the second video.
* `EditInv`: what an operator's request has checked still holds when it writes; the tick
  never changes a decision (`DecisionInv`), and there is no second operator.

Each step is then a step of `UploadLifecycle` (a decision, taking an upload, making the
video, the delete) or leaves what an operator sees (`Stage`, `Taken`, the videos).

`PipelineRunsProofs` proves, for any non-empty sets of runs and topics and any
numbers of retries and failures (`RunAssumption`):

| Theorem | Says |
|---|---|
| `TypeCorrect` | `Spec => []TypeOK` |
| `OneUpload` | a run makes at most one Upload row |
| `CompleteIsTrue` | COMPLETE and PUBLISHED only with an upload |
| `BudgetKept` | the stages are entered at most `max_retries + 1` times |
| `Refinement` | `Spec => ImplementsRunLifecycle` |

The inductive invariant is `RunInv`:

* `TypeInv`: types, and that the bookkeeping of a retry is reached only below the
  limit and nobody moves `retry_count` in between.
* `UploadInv`: the number of Upload rows is exactly what `upload_id` says, since
  both are one commit; the stage `finish` is reached only with the upload, which
  is why COMPLETE cannot be written without it.
* `BudgetInv`: `retry_count + 1` bounds the attempts, and an attempt that is
  about to begin has been counted *before*: that inequality is strict by one in
  `queued` and `begin`, and a lost count leads to `broken`, from where no attempt
  begins.

Twenty-one of the twenty-five actions leave all of this alone; `CalmStep` says so once
(`Calm`), `CalmInv` draws the conclusion, and only `Begin`, `Attach`, `Finish`
and `Backoff` have a lemma of their own.

The refinement needs `ReadInv` besides: what the watchdog and the dashboard have
read was past PENDING, and no row goes back. Without it a late write could fail
a run that waits without a worker, which `RunLifecycle` forbids. `RefinesStep`
maps each action: `Begin` and `Backoff` to `Work`, gates, render, give-up,
recovery, watchdog and restart to `Fail`, `RetryWrites` to `Replace` or `Queue`,
and the rest to the action of the same meaning or to a stutter. That no row goes
back (`PassedStays`) is proved of the *abstract* step and carried down.

`ChannelProofs` proves of `DailyAutomation`, for any sets of channels, schedulers and
operators and any bounds (`AutomationAssumption`):

| Theorem | Says |
|---|---|
| `TypeCorrect` | `Spec => []TypeOK` |
| `StopsAreKept` | `Spec => StopKept`, for any number of slots and schedulers at once |
| `OneShortPerDate` | `OneSlot` gives `Spec => []OncePerDay` |
| `DateCountedOnce` | `OneSlot` gives `Spec => []DayCountedOnce` |

`OneSlot` (one slot of the semaphore, the process's own scheduler object) is what
the deployment configures, and the two theorems are false without it: two passes
over one channel would both read yesterday's date. `PassInv` is inductive under it:
the date of the channel being worked on is not today's; a channel's Shorts
are bounded by its excuses, plus one if the date is already today's, plus one while a
pass stands between the run's commit and the date's; the counted dates by the first
two alone.

Of `ChannelContent` it proves, for any numbers of rows, requests and attempts:

| Theorem | Says |
|---|---|
| `ReferencesHold` | committed rows, and what any open transaction sees, refer only to rows of the right table that are there |
| `NothingIsAddedWithoutRun` | `ContentSpec => NothingWithoutRun` |
| `ResetLeavesNothing` | `ContentSpec => ResetEmpties` |

The inductive invariant is `ContentInv`:

* `StoreInv` is about the database alone. A statement is checked against what *its own*
  session sees, so that each transaction is `Sound` by itself does not yet make
  the rows sound after two commits. The locks do: what two sessions have written is
  `Apart` (no row written by both, no row deleted by one that the other refers to
  anew), because a new reference and a delete wait for one another (`WaitsFor`).
  `FlushKeepsStore`, `CommitKeepsStore` and `RollbackKeepsStore` are proved once, for any
  writes; an action only has to show that what it writes is well-formed.
* `IdInv`: the ids that the run and a request remember across transactions
  are of the kind they are for (`Kind`), whether or not the row is still there; ids
  are never given twice.
* `PlaceInv` says who has a transaction open where, `FormInv` which fields the program's
  variables have.

With them `NothingIsAddedWithoutRun` is about one commit: a transaction that adds a script,
a report or a voice also updates the run's row, and that row is there, or the update raises.
`ResetInv` carries `ResetLeavesNothing`: as long as nobody else has written, the lists the
reset read are still all the rows of their tables, nobody has a transaction open,
and the statements up to `next` (`NextInv`, `FirstInv`) have deleted exactly the tables
before it in `ResetOrder`. What remains to be seen is that none of them can fail: whatever
refers to a row of a later table is in an earlier one.

`UpkeepProofs` proves of `CrossPosting`, for any films, any finite set of ticks, any
retention, delay, retry cap, token life and warning window (`CrossPostingAssumption`):

| Theorem | Says |
|---|---|
| `TypeCorrect` | `Spec => []TypeOK` |
| `TokenStaysAlive` | `TokenInv`: while the token lives, its age is at most `Life - Warn` ahead of the days on which a renewal failed |
| `FilesStay` | `MediaInv`: the sweep's list spares what is waiting unless it changed in between; a pending post's file is young enough to last |
| `PostedOnce` | `ReelInv`: Reels, plus the ticks that hold the film, plus one if it is still open, are at most the excuses plus one |

`ReelInv` counts ticks by the cardinality of two sets; `PlaceInv` says that a tick
does not hold a film twice. A new tick may hold a film another one holds
only at the price of an excuse (`"overlap"`), which is how the bound survives
`TickLists`.

Of `SchemaMigrations` it proves, for any tracked tables, with and without `create_all`
and whether or not `create_type=False` is heeded (`MigrationAssumption`):

| Theorem | Says |
|---|---|
| `HeadServes` | `SchemaSpec => []HeadServesModels` |
| `BlocksAreKnown` | `SchemaSpec => []OnlyKnownBlocks` |
| `StepsBackAreUndone` | `SchemaSpec => StepBackIsUndone` |

The run visits every reachable schema for one choice of tables with rows; the theorems hold
for all of them, and their proofs say *why* the chain works. `RefsAt`, `ColsAt`, `KeyAt`,
`IndexesAt` and `DefaultsAt` give the shape of a table at a revision (`Shaped`), `Native` and
`Extra` the tables that are there or may be. `UpStep` and `DownStep` say what a revision
makes, drops and changes, and one lemma for each migration shows that it does just that.
Two invariants follow:

* `ServedInv`, of *every* database: the enum types and the tables of the revision are there
  with its foreign keys, its key type, at least its columns, and no column the models lack.
  A database made by `create_all` has columns of later revisions already, and then a
  plain ADD COLUMN is refused; hence "at least", and the stamp at 13, after which every
  revision either asks for the column first or builds its tables anew.
* `BuiltInv`, of a database that only migrations built: exactly the tables and the
  enum types of its revision, exactly as shaped, but for what a step back may leave (the
  voices types below 3292438b4131 and the chat tables).

Both are kept by `Deploy`, since `UpgradeTo` is walked by induction over the
revisions (`ChainInduction`, after `ClimbsExist` has shown that the recursive function is
one). `BlocksAreKnown` needs the other direction too: the `Accepted...` lemmas say when a
statement is *not* refused, and from `Shaped` each revision's statements are accepted,
except at the four places the property names (`TypesReach` and `TypesStop` for the types). For `StepsBackAreUndone`, `DownStep` and
`Shaped` give the shape after the step, the upgrade gives `Shaped` of the revision above,
and two databases of one shape and the same tables have the same schema. The revisions
1, 2 and 12 cannot be stepped back over at all: a `drop_constraint(None)` or a table left
out of the `drop_table` calls makes their downgrades fail, which the proof needs (`BuiltDown`).

`SceneImagesProofs` proves, for any films, scripts, scenes and retries
(`ImagesAssumption`):

| Theorem | Says |
|---|---|
| `TypeCorrect` | `Spec => []TypeOK`, no cached file torn among it |
| `AskedOnly` | a picture is asked for by one film, and not when it is cached |
| `HandedPicturesStay` | what a film was handed is whole and stays the file at its path, unless another film's render removed it |
| `PicturesRemoved` | without a failure, pictures are cached only of scripts of which a film is being made |
| `PassedScenesIllustrated` | a passed scene has a picture exactly if it has a prompt |

`LineInv` says that the queue of each path holds exactly the films that stand in its
line, each once, and that a served film is its head and the file absent; three facts
about queues (joining, leaving, the head) are lemmas over sequences, and `LineShape`
splits the actions by what they do to a line: none, one joins, the head leaves.
`PictureInv` follows since only a served film writes a file and only one that is
absent, and since a render that removes a file notes it for every film that was handed it.

`TimedUploadProofs` proves, for any zones, windows, chunk and film sizes, failures and
numbers of calls (`TimedUploadAssumption`):

| Theorem | Says |
|---|---|
| `Refinement` | `Spec => Call!Init /\ [][Call!Next]_Call!vars`: the steps of `upload_video` are those of `UploadCall` |
| `FirstPeak` | `Spec => []EarliestPeak` |

`FilmInv` carries it: while nobody writes the file, the file is the film, what YouTube has
stored is a prefix of it and the chunk under way is what follows the offset. An accepted
chunk, however much of it is stored, leaves a prefix (`StoredPrefix`, `StoredFilm`),
and a prefix of full length is the film; that is the only place where a video is made.

`FirstPeak` is about arithmetic: that the walk over four local days with the windows of
each finds the first peak time from the floor on, although local days begin and end at a
time that the zone's clocks may skip or repeat. `ClocksAssumption` is what it needs of a
zone: clocks change by at most an hour, and by an hour only on the hour. `TimeInv` says
that the time was computed from the plan the upload has. `FirstDay` finds the first
window that is open or still to open, on the floor's own day or the next; `ClockChange`
says which clock times lie between the floor and the moment the clock shows a given hour,
including the hour that comes twice.

`ScriptProductionProofs` proves, for any replies (`RepliesAssumption`: they can be read as
sentences and counts), keys, modes, waits, retries and takes:

| Theorem | Says |
|---|---|
| `GivesUp` | `Spec => []GivesUpLast`, for every chain the factory builds |
| `ScriptsHonest` | `Spec => []ScriptHonest` |
| `UnparsedStopped` | `UnparsedBest < MinSeo` gives `Spec => GateStopsUnparsed` |
| `NarrationsHonest` | `Spec => []NarrationHonest` |
| `FilmsFresh` | `Spec => []CompleteShowsSaved` |

`MinSeo` is 60 by default. The theorem says what it stops: a raw text stored as a script
has its topic's title for title and description, and gets at most 43 points and those for
the hashtags in it (`UnparsedBest`, `UnparsedScore`). Six hashtags in a topic's title give
58 points, ten or more 68: for such a topic the default is *not* enough, and a raw text can
reach the voice, since the quality gate lets it pass when its evaluation does not parse
either. From 69 on no topic can do that. The invariants:

* `CallInv`: every provider before the one that is asked has used up its tries, none after
  it has been asked.
* `ScriptInv`: the draft that waits for its expansion, and the script in every stage that
  reads it, keeps what `_finalise_script` established, or never parsed and then has the
  defaults; the expansion of an honest draft is honest whichever of the two is longer.
* `NarrationInv`: what is spoken leaks nothing and is at most thirty percent longer than the
  script, by the model's cleaning or by the fall-back, of *this* script.
* `FilmInv`: a render under way has read the last take unless one was spoken since, and no
  take older than the rows is in a COMPLETE film, whichever takes lost theirs.

`VideoRenderProofs` proves, for any sentences, storyboards, voices, widths, beats and
numbers of runs (`TimelineAssumption`, `RenderAssumption`, `ScriptAssumption`; of the times
only that a fade is shorter than the shortest card):

| Theorem | Says |
|---|---|
| `RowMatchesFile` | `Spec => []CompleteMatchesFile` |
| `Captions` | `Spec => []CaptionsHonest` |
| `FollowsVoice` | `Spec => []CardsFollowVoice` |
| `SentencesSeen` | `Spec => []EverySentenceSeen` |
| `NarrationWhole` | `Spec => []NarrationKept` |
| `HighlightInTime` | `Spec => []HighlightKeepsUp` |

* `RowInv`: while a run renders, the row says GENERATING, since it was committed before.
* `VoiceInv`: the voice lasts as long as its words, with a lead and a rest.
* `CardInv`: the cards are those of the script's sentences in their order, first without
  stamps and then all with one; when Whisper heard every word (`exact`), a card begins and
  ends with its own words.
* `FilmInv`: the film was laid out from the cards as they are, for a voice that was loaded or not.

Most of the work is in the operators: `Transcribe` finds each sentence after the one
before and therefore stamps in ascending order, on exactly its words when none was misheard;
`StampedClips` and `ChainedClips` lay clips that meet or overlap by a fade, so
that there is a card on top at any time; the two wraps keep the words and their order.

*Only model-checked:* liveness (`DueIsSettled`, `RunningEnds`, `EveryActiveServed`,
`LongComes`, `CrossPostSettles`, `FilmsGoOn`) and, of `ImplementsUploadCall`, that a call
always ends (the fairness of `UploadCall`): they are out of the prover's reach. Every other
property of the passing runs is stated by a theorem.

*Induction.* The library's induction theorems take an operator, which the prover cannot
instantiate. The modules about text, times and revisions use a theorem about sets instead
(`SetInduction`, `ChainInduction`: a set of numbers with 0 and every successor holds them all), which follows
from the well-foundedness of finite sets, and one about functions
(`Recursion`): a function defined step by step has the values its definition says.
With them a recursive function such as `Without`, `Total`, `Wrap` or
`Transcribe` can be reasoned about. What remains out of reach is recursion hidden in an
operator that takes an operator (`FoldSeq`, `SelectSeq`): `ScriptGates` and
`ScriptProduction` use `SelectSeq` once each, and no theorem depends on its value.

## 6. Not modelled, and why

* **YouTube metadata, comments, thumbnails**: no state depends on them.
* **Topics**: creation and de-duplication depend on a model's text; selection is a
  query by score. `DailyAutomation` takes "one found" or "none" as input.
* **RAG store, chatbot, knowledge base**: FAISS and SQLite kept in step under one
  lock; results only enrich prompts.
* **Health and YouTube-token watchdogs**: they read and send alerts, nothing else.
* **Research, moderation, storyboard and thumbnail agents**: their rows are in
  `ChannelContent`; their content is free text or a picture.
* **Short agent**: its only LLM call raises (section 7), so what follows it is never
  reached; that run fails at its first stage.
* **Dashboard, web, auth, websocket**: requests that call modelled services.
* **Legacy workflows** (`workflows/`): no route uses them.
* **Configuration, logging, metrics, storage helpers**: constants and output.
* PENDING rows whose task died are never picked up again: startup reconciles
  RUNNING rows only. Nothing promises otherwise, so it is no property.

## 7. Where the code and its text disagree

`PROJECT.json` holds two disagreements as findings, each with the run that shows it.

* `content_delete`: `delete_video_everywhere` deletes the video on YouTube, then its
  row; the row cannot go while `pipeline_runs.upload_id` refers to it, so it stays and
  says PUBLISHED.
* `highlight`: the "currently-spoken word is highlighted" (`renderer.py:856-858`), but a
  word's interval ends with the next word's end (`service.py:641-646`), and a clip that
  fades in is ahead by the fade (`renderer.py:889`). `HighlightKeepsUp` bounds both.

Four more concern a property that holds, which says nothing where the text is wrong:

* *Malformed windows* give the default windows (`Windows`; `peak_scheduling.py:113`), not the
  flat delay of the docstring (7-11, 24-26) and of the warnings (96-98, 103-105).
  `EarliestPeak` leaves such channels out.
* *A window that the clocks skip* gives the moment of the change, which is outside it, though
  a test's text says "within the configured local window"
  (`test_peak_scheduling.py:226-227`). `EarliestPeak` excepts it by name.
* *Counts*: "Enforce count honesty" (`long_script_agent/agent.py:354`) covers counts
  of one digit: "15 tips" of four items stays (389-402, 424-438), in the hook and in the
  title. `ScriptHonest` says what is enforced.
* *Restored voices*: looking before creating the enum types is called "safe on any fresh or
  partially-migrated database" (`20260702_125238_restore_voice_table.py:24-25`); the
  `create_table` after it issues CREATE TYPE again, as the next revision's comment says of
  its own (`20260703_000000:52-59`), so an upgrade from one of the three revisions before
  it is refused (unless SQLAlchemy heeds `create_type=False`). `OnlyKnownBlocks` names it.

The others met while modelling, which the models follow:

*Publishing and runs.* A transient YouTube error expires the object the handler reads
next, and the tick leaves the other due uploads for the next one. A lost answer, a commit
that fails after it or a crash in between means a second upload of the same video. So does,
without any failure, a tick that fetched its upload while another one was sending it (the
guards cannot see UPLOADING, and after the wait for the lock nothing is read again), or a manual
request that read its row before the tick published it: it resets status and id. A rejection between the re-fetch and the
send is not honoured. A run failed by the watchdog or the dashboard is completed by its
task when that ends. `run` "does NOT re-raise", but raises when its row is gone.

*Automation.* The single-VM guard is read once per tick, not per channel. With
`low_ram_mode` a channel never gets a Long. The Short agent calls
`generate(system_prompt=, user_prompt=)` (`agents/short_script_agent/agent.py:146`),
which `llm_providers/base.py:28-34` does not take: a `TypeError`.

*Peak times and the upload call.* The horizon of 48 hours is never reached, since
every day has a window.
A resumable session is never resumed: every repetition starts a new one. A
render during the upload puts a mixture of two films on YouTube, or ends the call.

*Channel content.* `reset_channel` says of the YouTube deletes "and COMMIT immediately
after" (`channel_automation_service.py:199-200`); no commit is there. A reset during a
publish leaves a video on YouTube without a row. One duplicate row in a batch of
thumbnails loses the batch. Voice requests beside the voice stage fail the run
on the unique column.

*Schema.* The step back over `add_voice_table` leaves its enum types, and the upgrade that
follows fails at CREATE TYPE (`20260629_121840_add_voice_table.py:47-50`).

*Script and gates.* An evaluation that does not parse counts as 70; an overall score
of 0 counts as absent; a claimed word count is trusted. A script the SEO gate rejects stays
APPROVED, so the batch voices it. The pattern for leaked instructions "link in the
description" also drops a call to action. "At least 7 inline #hashtags" is missed when
tags come without `#`. Groq's "the pipeline never sees a rate-limit error" ends with
its last wait. A mock voice is COMPLETE; a timings file may be that of an older take. The audio file is
overwritten before its rows are saved, so a failure between leaves a take beside a COMPLETE
film of the one before.

*Video.* A narration of over 200 letters is cut, even in a word, before the static bar wraps
it (`renderer.py:261`), and the cut has no ellipsis. The karaoke highlight goes out when the last word of a sentence ends within a fade. A crossfade shortens the film by 0.35 s per transition, against
the narration. Karaoke without Whisper's words shows no caption. Before the first
stamp the film is black. A crash during a render leaves the row GENERATING.
`str(script_type)` is `"ScriptType.LONG"`, never `"long"`, so the low-memory caps on
long films do not apply, and the voice stage gives the row of a Long the size of a
Short.

*Pictures.* A render removes all pictures of its script, also those another film of it was
handed (`image_cache_cleanup_bootstrap.py:22`), whose cards then fall back to plain ones; a
film that fails before its render leaves its own. A gradient, the last resort, is cached
like a picture.
Pollinations is asked "sequentially to avoid 429s" (`image_provider.py:306`), but the
lock covers only the building of the URL. An empty answer of Hugging Face skips
Pollinations. A stock photo is written in place: one cut off beyond 1000 bytes is
served for ever; its cache key ignores the orientation.

*Instagram.* A regenerated token in `.env` is ignored while the stored file exists.
Manual uploads are never cross-posted. The file of a pending post is not protected
from the sweep, so a retention shorter than the delay loses it. Three failures in
half an hour end a cross-post for good. The daily jobs start over with the process.

## 8. Plan

Done: publishing with its abstract specification, proofs and proved refinement; pipeline
runs with theirs; daily automation with proofs; schema and channel content with proofs;
script production and render with proofs; pictures with proofs; cross-posting, sweep and
token with proofs; peak times, proved, and the resumable upload with its proved refinement.

Left: the RAG store's two files and the alert cooldown, as far as they carry control of
their own.
