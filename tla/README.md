# Verification of the translation platform

The platform watches a translation marketplace for jobs, translates documents
with language models, and lets users review the result. This directory holds
TLA+ models of the parts where several processes work on the same data, the
TLC runs that check them on small instances, and TLAPS proofs of what matters
most for instances of any size. Paths are relative to the repository; `B/`
stands for `src/backend/internal/` and `W/` for
`src/backend/cmd/translation-worker/`.

1. [The system](#1-the-system): inventory of the components
2. [The modules](#2-the-modules): which models what, and how it corresponds to the code
3. [The runs](#3-the-runs): questions, bounds, fairness, results
4. [The proofs](#4-the-proofs)
5. [What the code does differently from its documentation](#5-disagreements)
6. [Outside the models](#6-outside-the-models)
7. [Plan](#7-plan)

## 1. The system

Four kinds of process share one PostgreSQL database and one Redis:

    browser --HTTP/WebSocket--> Go API server --SQL-----> PostgreSQL
                                  |    |
                marketplace <--RSS/WS  +--Redis--> job queue, job data, pub/sub
                                                       |
                                    Python translation workers (1..n)
    Stripe, LemonSqueezy --webhooks--> Go API server

Each HTTP request is a goroutine of its own. Almost nothing runs in a database
transaction or a Redis script: an operation is a sequence of statements, and
other requests, the workers and failures come in between any two of them. That
is what the models are about.

### Components with state

**Job queue** (`W/job_queue/`, consumer in `W/main.py`). State, all in Redis:
three sorted sets `trans:queue:<priority>`, `trans:job:<id>`,
`trans:state:<id>`, `trans:checkpoint:<id>`. Operations: enqueue, dequeue,
set_state, get_state, checkpoints, progress, cancel, fail, cleanup. Workers
poll; any process may cancel, fail, checkpoint or clean up. Hard: set_state is
three commands, dequeue removes a job before it is done with it, the record is
read, modified and written by several processes, workers crash. Correct when a
job goes to one worker, once; its state says who has it and only moves forward;
and it ends up settled.

**Translation jobs API** (`B/handlers/translation.go`, `B/models/translation.go`).
State: `translation_jobs`, `translation_segments`, and per job a Redis hash and
list shared with the worker's `SegmentStore`. Operations: create, get (which
synchronises rows from Redis), approve, reject, edit a segment, delete. Hard:
every handler decides on a row it loaded several statements earlier. Correct
when decisions and edits survive later synchronisations, deleted jobs stay
deleted, and the counters agree with the segments.

**Watcher** (`B/watcher/`, `B/handlers/watcher.go`). State: the manager's map of
instances under a mutex, `watcher_config` and `watcher_state` rows, the Redis set
of seen jobs, per instance an LRU cache per monitor, a channel and three
goroutines. Operations: start, stop, status, change of configuration, RSS polls,
WebSocket notices, processing of a job. Hard: stopping does not wait, so
instances overlap; a bounded channel; errors between recording a job and
announcing it; restarts of the server. Correct when a job is announced once, in
the configured range, and a stopped watcher ends.

**Stripe billing** (`B/handlers/billing.go`, `B/models/payment_transaction.go`).
State: `payment_transactions`, `billing_events`. Operations: checkout, status
poll, webhook. Hard: at-least-once webhooks in any order, polls beside them, a
read and a Save without a transaction. Correct when no event is applied twice,
and a payment is recorded neither early nor never.

**LemonSqueezy billing** (`B/handlers/lemonsqueezy.go`). State: `subscriptions`,
`billing_events`. Operations: a webhook handler per kind of event. Hard: as
above; the subscription handlers look an event up but never store it. Correct
when a cancelled subscription is not revived by a late event.

**One-time tokens** (`B/service/token_service.go`, magic link, password reset,
e-mail verification). State: three token tables, the user's row. Operations:
create (DELETE of the unused ones, INSERT), validate, mark used. Hard: validate
and mark are separate statements. Correct when a token works once and only the
latest one works.

**Sessions** (`B/auth/`, `B/middleware/`, `B/handlers/auth.go`). State: refresh
tokens and the blocklist in Redis, the user's row. Operations: login, refresh,
logout, account removal. Hard: refresh racing logout; Redis unavailable. Correct
when a logged-out token is not accepted again.

**WebSocket gateway** (`B/handlers/websocket.go`). State: tickets in Redis, a
subscription and two goroutines per connection. Hard: HGETALL and DEL of a
ticket are separate; the forwarding goroutine may block on a full channel.
Correct when a ticket admits one connection and goroutines end with it.

**OAuth linking** (`B/oauth/`). State: state parameters, linked accounts. Hard:
two callbacks at once. Correct when an external account is linked to one user.

**Rate limiting** (`B/middleware/ratelimit.go`). State: a window per client in
Redis, a fallback in memory. Correct when no window admits more than its limit.

**Document parsers** (`W/parsers/`, drivers in `W/main.py` and `W/review/`). No
state of their own, but three views of one file: what parse reads, what a job or
the command line translates, what render writes over a copy of the file. Hard:
parser and renderer number paragraphs, cells, shapes and pages separately. Correct
when no text is overlooked and each translation lands where its source stood.

**Review workflow** (`W/review/workflow.py`, `models.py`, `judge.py`,
`flagging.py`, `multimodel.py`, `metrics.py`, `exporter.py`). State: a job and its
segments in the worker's memory, metrics. Operations: ask the models, one after
the other or in threads, judge, flag, check the style, score, approve, export.
Hard: failures come back as texts, and flags are set in two places and counted in
three. Correct when failures are flagged, figures agree with segments and nothing
is approved on its own that should not be.

**Glossary** (`W/glossary/`). State: entries and compound terms. Operations: load
and merge files, match a text in four passes. Hard: passes share what they found.
Correct when each term is proposed once and no literal occurrence is missed.

**Model pool and batching** (`W/review/llm/pool.py`, `batch.py`, the providers).
State: providers in a fixed order, their semaphores and statistics, the tasks of a
batch on one event loop. Operations: generate, generate_batch, add, remove, reset.
Hard: other threads change the pool while tasks hold its objects; retries and
cooldowns. Correct when the limits hold, answers land where their prompts stood
and a batch ends.

**Translation cache** (`W/cache/`). State: one file or Redis key per request key,
statistics. Operations: get, set, translate through it, warm, invalidate, clean up.
Hard: nothing locks the files. Correct when a hit is the translation asked for, and
a fresh one.

**Plugin registry** (`W/plugins/`). State: infos by name, categories, instances.
Operations: discover, initialise, shut down, look up by extension. Hard: names meet
and plugins change between discoveries. Correct when what serves is alive.

**Folder watcher** (`W/watcher/folder_watcher.py`). State: entries per file, a scan
thread, an observer thread, a lock. Operations: start, stop, scan, move. Hard: files
that still grow, vanish or come again; two scan threads after a restart. Correct
when a file is handed over once, and not before it has stopped growing.

### Components without state of their own

Style checks, the style guide, page layout, server wiring, single-statement admin handlers, e-mail, password hashing,
localisation and validation, database migrations, deployment files and the
frontend's components. `PROJECT.json` lists them with their files. Of the
frontend only the reconnecting socket hook (`use-watcher-websocket.ts`) has a
protocol worth a model; it is in the plan.

## 2. The modules

| Module | Models | Proofs |
|---|---|---|
| `JobHandout` | abstract: a submitted job is handed to one worker, once | |
| `JobQueue` | `JobManager` and `QueueConsumer`, implements `JobHandout` | `JobQueueProofs` |
| `TranslationReview` | the translation jobs API with the worker's `SegmentStore` | `TranslationReviewProofs` |
| `Watcher` | manager, monitors and job processor of one user | `WatcherProofs` |
| `StripeBilling` | one Stripe checkout session | `StripeBillingProofs` |
| `FolderWatcher` | the watched folder: files, observer, scan threads, clients | `WorkerServicesProofs` |
| `TranslationCache` | the cache on files or Redis, several callers | `WorkerServicesProofs` |
| `PluginRegistry` | discovery and life of plugins | `WorkerServicesProofs` |
| `ProviderPool` | the pool of model providers and a batch through it | `WorkerServicesProofs` |
| `Documents` | a file through parser, job or translation, and renderer | `WorkerDocumentsProofs` |
| `SequenceParts` | filtering and sorting a list, said by places; used by `Documents` | `SequencePartsProofs` |
| `ReviewWorkflow` | the segments of one job through models, judge, flags and export | `ReviewWorkflowProofs` |
| `GlossaryMatching` | loading and matching of glossaries | |

`MC<Module>` gives `<Module>`'s constants their values for TLC; `MCWorkerServices` and `MCWorkerDocuments` hold
several modules at once (see section 3). A definition
headed "Faulty variant" is not part of the model: it is the preceding or next
definition with a plausible bug, kept to see that a property notices it.

All modules cut the code at the same places. A Redis command, a database
statement, a channel operation and a call of another service is a step; what
happens between two of them is local and belongs to the step before or after. A
process is a program counter (`pc`) and the local variables that live across a
step. A failing command, a crash, an expiry is an action or an alternative of the
step it can hit, counted in `trouble`. Counters named `Max...` bound the environment
(calls, retries, failures), never the code.

### JobQueue

| Code | Model |
|---|---|
| sorted sets, state, record and checkpoint keys | `queue`, `score`, `stateKey`, `jobKey`, `ckptKeys` |
| `QueueConsumer.active_jobs`, `running` | `active`, `running` |
| `enqueue`'s pipeline (one transaction) | `Enqueue` |
| `dequeue` polling three priorities with `zpopmin` | `Loop`, `PollEmpty`, `Pop`, by `level` |
| `_get_job`: GET, then set_state, then the stale record is written back | `GetJob`, `SetState` and its three steps, `Assign` |
| `set_state`: SET state, GET job, SET job | `WriteState`, `ReadRecord`, `WriteRecord` |
| `_process_job` and its error path | `Begin`, `Translate`, `Release` |
| `cancel_job`, `fail_job`, `save_checkpoint`, `cleanup_old_jobs` | `CancelJob`, `FailJob`, `SaveCheckpoint`, `CleanupOldJob` of `Clients` |
| signals, crashes, supervisor, errors, TTLs | `Stop`, `Crash`, `Restart`, `RedisError`, `Abandon`, `Expire` |

Every read-modify-write of a record goes through the same steps, with `task`
saying what it does; `data` and `jobData` are the copies of the record held
between them. `marks` and `popper` are history: what disturbed the job and who
took it. The refinement of `JobHandout` maps a job in a sorted set to `waiting`,
a popped one to `given`, and the worker's `cur` to `hand`.

redis-py's `zpopmin` returns a list of pairs. The code unpacks one pair and its
tests mock one, so the model pops a pair; with the real client `dequeue` raises
on the first job, which ends the process. That, like every exception of
`dequeue` and `_get_job`, is the model's `Crash`.

### TranslationReview

| Code | Model |
|---|---|
| `translation_jobs` row, `translation_segments` rows | `row`, `rows` |
| hash and list of the job in Redis | `hash`, `list` |
| a request's goroutine: handler, next statement, locals | `kind`, `pc`, `loc` |
| `createJobLogic` | `CreateJob` by statement (`create`), `CreateFails` |
| `getJobLogic`, `syncJobStatusFromRedis`, `syncSegmentsFromRedis` | `Get` ... `PutCounts` |
| approve and reject | `Decide`, `PutDecision`, `TellWorker` |
| `updateSegmentLogic`, `deleteJobLogic` | `Edit...`, `Delete...` |
| a database statement or Redis command of a request that fails | `StatementFails` |
| the worker's workflow and `SegmentStore.store` | `WorkerStep` |

`before[r]` records which requests had been answered when r arrived, which is
what a user can rely on. `StatementFails` is an action of its own because a failure
changes no shared state, whatever statement it hits; what differs is how the request
goes on. Approve, reject, edit and the DELETE of the job answer 500, with what their
earlier statements wrote left in place (`AnswersError`). All other errors are ignored:
most end the synchronisation or skip a command (`EndsAnyway`, `GoesOn`), but a failing
SELECT of the segments leaves some or none of them known, a failing INSERT or UPDATE
leaves its segment out, and a failing count leaves zeroes that are put into the job.
`outcome[r]` records what the properties have to know of it: whether r could read the
rows (`misread`), failed to count them or to put its counts (`miscounted`), or put
counts at all (`counted`). GORM's migration creates the segments' foreign key with
`ON DELETE CASCADE` and no soft delete, hence `DeleteJob`. Nothing in the
repository takes jobs from the list `user:<id>:trans:queue` that
`createJobLogic` pushes to, and the worker names its jobs itself; that some
consumer carries the job to a worker under the same id is an assumption of the
model (`WorkerTake`, external).

### Watcher

| Code | Model |
|---|---|
| manager's map, mutex, `Running` | `current`, `lock`, `running` |
| rows of configuration and state | `config`, `dbStatus`, `found` |
| Redis set of seen jobs | `seen` |
| instance i: context, channel, three goroutines | `cancelled`, `jobChan[i]`, `rss[i]`, `ws[i]`, `loop[i]` |
| `LRUCache.Add` | `Add` on `seenIDs` |
| `StartWatcher`, `StopWatcher`, `UpdateStatus` under the mutex | `Start`, `Stop`, `PutStatus`, `PublishEvent` |
| `Fetch`, `connectAndMonitor`, `handleJobAvailable` | `Fetch`, `FetchItem`, `FetchPanics`, `SendItem`; `Connect` ... `SendNotice` |
| `runWatcher`'s select and `ProcessJob` | `Select`, `Check`, `Load`, `Record`, `Count`, `Publish` |

Users are independent (map entry, rows and keys are per user), so one is
enough. Instances are numbered and old ones keep running until they notice
their context. A Redis command may or may not have reached the server when its
context is cancelled (`inFlight`), and a command may be carried out while its reply
is lost (`ReplyLost`): an SADD then records a job that `ProcessJob` gives up, and a
PUBLISH, which go-redis repeats, reaches the user twice. `FetchPanics` is an item with
neither GUID nor link nor date (`rss.go:291`). `Silence` is a read that timed out: the code
continues, but the WebSocket library keeps a connection's first read error,
so that the monitor hears nothing any more and ends in a panic it recovers from,
without a reconnection.

### StripeBilling

| Code | Model |
|---|---|
| `payment_transactions` row, `billing_events` | `row`, `events` |
| a request's goroutine | `req[p]`: kind, next statement, event, `next` and `existing` |
| `applyGatewayState`, `upsertTransaction` | `Apply`; `Find`, `Save` with `Merge` |
| webhook: look-up, record, load, upsert, answer | `Check`, `Record`, `Load`, `Find`, `Save`, `Reply` |
| status poll: load, Stripe, upsert, answer | `Load`, `AskGateway`, `Find`, `Save`, `Reply` |
| Stripe (external) | `Pay`, `Complete`, `Expire`, `Deliver`, `Duplicate` |

A snapshot is a pair of status and payment status; Stripe always sends both, so
one value stands for them. `Init` also starts from a session that Stripe knows
and this database does not. `cut`, `stale` and `applied` are history: events
whose request ended between their record and their Save, whether a Save
overwrote a row it had not read, and how often an event reached the row.

### FolderWatcher

| Code | Model |
|---|---|
| a file of the folder: there, size, complete | `disk[f]`, `Write`, `Settle`, `Vanish` (environment) |
| `FolderWatcherHandler._files`, its lock | `entry[f]`, `lock` |
| `on_created`, `_register_file` | `OnCreated` with `Register` |
| `get_ready_files`, `_check_stability`, `remove_file` | `GetReadyFiles` with `Checked`, `Untrack` |
| `start`, `stop`, `_scan_loop` | `StartWatcher`, `StopWatcher`, `ScanLoop` |
| `_process_ready_file`, `move_to_translated` | `Deliver`, `Return`, `MoveFile` |
| `scan` | `Look`, `ScanRegister`, `ScanCollect`, `ScanReturn` |

A thread is a program counter and its batch of ready files; thread 0 is a client
that calls `scan`. The lock is not reentrant, and `_check_stability` takes it again
when a file has vanished: the model keeps it held, by the thread that now waits for
itself. `credit` is history: arrivals of a file less the times it was handed over.

### TranslationCache

| Code | Model |
|---|---|
| a file or Redis key: absent, whole, half written | `cell[k]`, with the number of the file behind the name |
| `generate_key` | `GenerateKey`: stripped text, model, glossary |
| `get_or_translate`, `retrieve`, `store`, `warm` | `GetOrTranslate`, `Get`, `Hit`, `Miss`, `TranslateText`, `AnswerCaller`, `Warm` |
| `FileCacheBackend.get`: look, compare, unlink by name | `Get`, `GetRaises` (Redis, or a letter cut in two, which `get` does not catch), `UnlinkExpired` |
| `FileCacheBackend.set`: open and truncate, write, close | `OpenFile`, `WriteFile`, `WriteFails` |
| invalidate, clear, cleanup_expired, reset_stats | `Invalidate`, `Clear`, `ClearFile`, `CleanupExpired`, `Sweep`, `ResetStats` |

Two writers of one open file overwrite each other from the start, and what the
longer one wrote beyond the shorter remains (`Overwritten`): such a file is no JSON
and is a miss. Redis replaces a value in one command.

### PluginRegistry

`files` holds the classes of each plugin file, `infos` the registry's objects in the
order they were made, `plugins`, `category` and `instances` what the dictionaries
point to. `Discover` is one action: the registry is used by one thread, and what
matters is how long sequences of discover, initialise and shut down fit together.
`ReplaceFile` is whoever installs plugins.

### ProviderPool

| Code | Model |
|---|---|
| `_providers`, `_semaphores`, `_stats`, `_provider_order` | `member`, `order`, `pstats`; semaphores and statistics are objects with numbers |
| `generate` of one task: select, acquire, call, retry, back off | `SelectProvider`, `UseProvider`, `Acquire`, `RequestAgain`, `CallAnswers`, `CallFails`, `AfterError`, `Wake` |
| `generate_batch`, its semaphore and `gather` | `GenerateBatch`, `Slots`, `Enter`, `GatherEnds`, `Responses`, `Assembled` |
| add, remove, the two resets, cooldowns | `AddProvider`, `RemoveProvider`, `ForgetOrder`, `ResetPoolStats`, `ResetCooldowns`, `CooldownEnds` |
| `translate_texts_chunked` | `Chunks`, `ParseJsonArray`, `ChunkResult` |

A task that does not await runs on without another task in between (`Loop`), while
operators of the pool are other threads. An object that was replaced lives on for
the tasks that hold it, hence the numbers. `AnswersCounted` adds the successes of all
statistics, old and new, as the number of pairs of a statistics object and one of its
successes.

### Documents

| Code | Model |
|---|---|
| `parse` of the four parsers | `Parse` with `DocxSegments`, `XlsxSegments`, `PptxSegments`, `PdfSegments`; `ParseFails` |
| `SegmentExtractor.extract` | `Extract` |
| the document command's translations | `NeedsTranslation`, `TranslateSegment` |
| `render` of the four parsers | `Render` with `RenderDocx` ... `RenderPdf` |

A text is named by the place it came from, so that a rendered item shows not just
whether it was translated but whose translation it shows. `Keeping` is a comprehension
with a condition, `SortedByKey` Python's stable `sorted` (both of `SequenceParts`).
Positions of shapes and lines start at 1, since 0 stands for the frame of a group, which
has none; only a DOCX has headers, and it always has a body.

A DOCX cell is the set of the paragraphs with its positions in `grid`: python-docx gives a
merged cell at each position it takes up, with all of its paragraphs each time
(`CellParagraphs`), and a position is the name that `_create_paragraph_segments` gives a
paragraph of the cell, column letter and row, in any table. `within` says what surrounds an
item that the parsers reach in another way or not at all: a group, whose frames they find
without a position, or a table of a slide and a table inside a cell, which they do not look
into (`Hidden`). `long` is what `_get_presentation_title` asks of a title. A translation may
be empty, which the renderers of DOCX and PDF treat in their own ways.

### ReviewWorkflow

| Code | Model |
|---|---|
| a deployment: driver, models, judge, checker, mode, thresholds | `setup` |
| `MultiModelTranslator.translate`, sequential or parallel | `Ask`, `Answer`, `Gathered`, `Candidate`; `SortedByModel` is Python's stable sort |
| `TranslationJudge.judge` and its fallbacks | `Judgement`, `LlmJudge`, `ParsedReply`, `FallbackJudge` |
| `flag_segment`, style check, `record_flag` | `JudgeAndFlag` with `FlagReason`, `StyleReason`, `Recorded` |
| `update_metrics`, `calculate_score`, end of `process_job` | `Finish` with `Counted`, `Published` |
| `export_job`, `process_and_export`, approve, reject | `Export`, `AutoApprove`, `NeedsReview`, `Approve`, `Reject` |
| the command line's two ways to translate a document | `RenderReviewed`; `Translate`, `MapOrder`, `Replace`, `ReplaceRaises` |

Confidences and scores are percentages, whole numbers; a judge's figure is used as it
comes, in and out of range, negative ones included. A reply of NaN is left out: it passes
every comparison with a threshold. The threshold of blocking mode is at least 1: the code's
is 0.70, and the tests set it between 0.8 and 0.95. `should_block_output` uses the threshold
of the engine, which need not be that of the job (`engine`, `ShouldBlock`). An exception
without a message is no error to `run_simple_document_workflow`: it goes on with `None` for
a translation, over which the style checker raises (`ReplaceRaises`).

### GlossaryMatching

`LoadFile` and `LoadRaises` take one file each; `Merged` is the dictionary that a file is
written into: the place of the first term of a source, the value of the last. `Match` is
`match`. Every pass but one appends what it finds unless its source was seen, so it is said
by what it tries, in its order (`TokensTried` where there are tokens, `TextTried` and
`VariantsTried` in plain text, `CompoundsTried` and `FuzzyTried`), of which `FirstOfEach`
keeps the first of each source. The fuzzy pass over tokens looks at what was seen to choose
an entry; `FuzzyTokens` goes from token to token. A fuzzy match is as sure as the pair is
alike, at 80 % of the likeness: pairs are unlike, `Alike` or `Closer`. Whether the tokenizer gives tokens, none,
or is not there is part of the request.

## 3. The runs

Safety runs check invariants and action properties of `Spec`; liveness runs
check `FairSpec`. Runs that stop when the environment's budget is used up say
`CHECK_DEADLOCK FALSE`: a queue without jobs, a user without requests and a
stopped watcher are proper ends. The last column gives the distinct states of the
runs that pass.

| Run | Question | Instance | States |
|---|---|---|---|
| `jobqueue` | one worker per job, states that only move forward, records that agree with them, no leftover capacity, the hand-out of `JobHandout` | 2 jobs, 2 workers, 1 call or fault; and 1 job, 1 worker, 2 clients, 2 calls, 1 fault | 2.3 M |
| `jobqueue_liveness` | is every job taken and settled? | 2 jobs, 2 workers, 1 fault, delays, a clock | 435 k |
| `jobqueue_terminal` | are terminal states final? (no) | 1 job, 1 worker, 1 call | - |
| `jobqueue_resume` | is a checkpointed job resumed after a crash? (no) | 1 job, 2 workers, 1 crash | - |
| `translation` | what a request may not undo once it was answered, no decision before the last segment, duplicate rows, exact counts | 3 requests of any kind over 1 segment, 2 over 2, 1 failure before the third | 3.6 M |
| `translation_final` | is a decision final? (no) | 3 requests, 1 segment | - |
| `watcher_restarts` | overlapping instances, errors, a changed range | 2 instances, 1 feed item; and 1 instance, 2 items, a cache of 1; 2 ranges, 1 fault | 5.2 M |
| `watcher_liveness` | are matches announced, do stopped instances end? | 1 instance, 1 item, 1 notice, channel of 1 | 13 k |
| `watcher_restarted` | is a running watcher monitoring? (not after a restart) | 1 instance, 1 crash | - |
| `billing_payment` | events once, never ahead of Stripe, no payment forgotten | 2 requests at a time, 2 polls, 1 duplicate, 1 failure | 265 k |
| `worker_services` | folder: handed once and in the end; cache: own and fresh entries; plugins: live parsers, a bad file hides no other; pool: limits, counts, order, end | see below | 371 k |
| `worker_documents` | parsers: no text overlooked or moved; review: failures flagged, figures agree; glossary: each term once, none missed | see below | 535 k |

Runs that ask several questions of one module do so over one instance, or over
two shapes of it: `jobqueue` is the union of an instance with two jobs and one with
two clients (`MCJobQueueShapes`), `translation` bounds the requests by the number of
segments and has the failure before the third request, which shows what the first two
left (`FittingSpec`; the proofs need neither bound), and `watcher_restarts` has a second
feed item, which evicts the first from the monitor's cache, while one instance runs
(`ShapedSpec` of `MCWatcher`). The two `worker_` runs put modules that share no state side
by side: in a behaviour one of them moves, which one is chosen at the start (`part`),
and the others rest in an initial state. Nothing of their product is explored, and
every property is checked on all states of its own module.

**Why the bounds are enough.** What goes wrong here goes wrong between two
actors on one object, or by one fault in the middle of an operation. Hence two
of the actors that race (workers, clients, requests, instances), one object, and
a second object only where a property relates objects (active jobs, order of
priorities, counts of segments). A third request is needed where two that
overlap are judged by a later one. One fault reaches every place a fault can hit;
two would hit independent operations, except for a crash on top of an error,
which ends the same way. `MaxClock` is 1 where something expires or is delayed and
0 otherwise. Capacities (channel, LRU cache, `max_concurrent`) are 1 so that they
are full at once; the code treats 100 and 1000 alike. Requests, jobs and workers
are interchangeable, and symmetry is used in safety runs only.

In `worker_services` one file that is written twice meets two starts, so that an old
scan thread overlaps a new one, and one client; two callers with two calls each share
three cache requests, one of them with blanks and one with another glossary, and a
clock that passes the time to live; two plugin files each take four contents in
turn (another kind of plugin under the same name, a missing dependency, one whose
check raises, a class that is none); two prompts go to two providers of different
kinds with one slot each, two failures to a cooldown and two tries. Two prompts
make one of them wait; a third would wait the same way. In `worker_documents`
every file of up to three paragraphs with up to two tables, two sheets of two cells, slides
of two shapes or pages of two blocks passes through five configurations. Tables have up
to three positions (`GridSize`): a cell of two of them, two paragraphs in one cell, a table
inside a cell, and two tables that share a position. The interesting items (none, Japanese,
other, formula, number, zero, long, in a group, in a table) all meet in pairs, and an item depends on the ones before it only
through their number. Two segments and every combination of text, reply and
deployment suffice for the review since segments meet only in sums and counts; three
glossary files are needed for a later file to win over one before a broken one.

**Fairness.** *JobQueue*: a worker's loop and an operation once begun go on (weak
fairness); nothing obliges anyone to call, to crash or to restart a worker, so
`EveryJobTaken` excuses the case that all workers are down, and `EveryJobSettled`
a job hit by a fault, since nothing takes it up again. *Watcher*: the Go scheduler
runs every goroutine that can run (weak fairness). A `select` chooses uniformly
among its ready cases, so a case that is ready again and again is chosen
eventually: strong fairness of the send on the channel and of the `ctx.Done`
cases. Without it a monitor could forever prefer its timer to its end.
*StripeBilling*: the server goes on with every request and Stripe repeats an
event until it is acknowledged (weak fairness of both; slots are finite only in
the model, and free up because polls and duplicates are bounded). Stripe gives up
after some days; the model's failures are finite, so that never decides.
*FolderWatcher*: every thread that can run runs, a file a program writes is one
day complete, and watchdog delivers its event (weak fairness). *ProviderPool*: an
`asyncio.Semaphore` wakes its waiters in order and a cooldown passes, so a task that
can go on again and again does (strong fairness of each task's steps), and
`gather` returns once it can.

**What the properties say**, beyond their comments in the modules:

- A property that is a conjunction of named parts (`RecordsIntact`, `AnswersRespected`,
  `BatchSound`, `TextsKeepTheirPlaces`, ...) asks one question of several places; the
  comments of the parts say what each promises, and for each part there is a faulty
  variant that breaks it.
- Several properties excuse what the code really does not prevent, by name:
  `marks`, `stale`, `cut`, `trouble`. Each excuse is the narrowest TLC accepts. They
  are the list of what can be lost: a job whose worker crashed; an announcement
  whose PUBLISH failed; `processed_at` overwritten by a Save of a stale copy; a
  webhook that ended between its record and its Save, whose retry Stripe gets
  acknowledged as a duplicate.
- `TotalExact` allows the counter to exceed the announcements by one job per
  stopped instance, the one it had counted when it was stopped.
- `EditsRespected` protects an edit that was answered before a request arrived.
  `DecisionRespected` says that a request that changes a decided status was under way
  when some decision of that kind was taken: with five requests, one that arrived after
  a first approval can undo a second one, once a stale synchronisation has undone the
  first. What overlapping requests do to each other is not promised,
  and `translation_final` shows that it is not so.
- `RowsUniqueUnlessOverlapping` allows two rows for a segment from synchronisations
  that overlapped, and from one whose SELECT failed: both happen. `CountsExact` says
  nothing while requests overlap or fail to count. It is about what comes after: once a
  synchronisation that nobody overlapped has put its counts, they are those of the rows
  there are, duplicates included, and requests in sequence keep them so.
- The properties of `Documents` say by their premises where a text or a translation is lost
  or moves: in a presentation without a short text on its first slide (outside groups and
  tables), in tables of slides and tables inside cells, after an empty paragraph, in tables
  and headers, in groups, under another frame at the same position, and where a translation
  is empty. Segments share an id where a merged DOCX names paragraphs for their cell: two
  paragraphs of one cell, or cells of two tables at the same place. `TextsInPlace` and `BatchEnds` leave out batches that
  LM Studio answered in and the empty pool, `HandedOncePerArrival` counts each
  registration of a file as an arrival. Section 5 lists what these premises stand for.

## 4. The proofs

TLC settles small instances; these theorems hold for all values of the constants
that satisfy the modules' assumptions.

**JobQueueProofs** (from `JobQueueAssumption`: ids are not `None`, workers are not
clients, bounds are naturals; and `AbsentAssumption`: `None`, an absent key, is not a
record, as in Redis):

- `TypeCorrect`: `Spec => []TypeOK`
- `OneWorker`: `Spec => []OneWorkerPerJob`
- `ActiveStateWorker`: `Spec => []ActiveStateNamesWorker`
- `HandoutRefined`: `Spec => ImplementsHandout`, the refinement of `JobHandout`
- `CourseHolds`: `Spec => []CourseInv`
- `RecordsCorrect`: `Spec => []RecordsIntact`
- `NothingLeft`: `Spec => []NothingLeftBehind`
- `MovesForward`: `Spec => StateMovesForward`

None of these is inductive alone. Whether two workers hold a job depends on
`popper`, and what `set_state` writes on what the worker carries to it. The
inductive invariant adds what a program counter says about the variables:
`WorkerInv` (a worker between pop and release has a job, it is the one that
popped it, and its snapshot is a record), `ClientInv` (a client only writes
terminal states), `DataInv` (what a read-modify-write has read is a record) and
`QueueInv` (a queued job is in one set and was never popped). There is a lemma per
action, with a step per conjunct. The refinement takes the steps one by one:
`Enqueue` is `Submit`, `Pop` is `Give`, everything that clears `cur` is `LetGo`, the
rest stutters.

The last four are about the keys of one job while others write to them, and need
`CourseInv` on top of `IInv`. `FreshInv` says that nothing is known of a job before it
is enqueued, `MarksInv` that whoever can spoil a job has marked it, from the moment its
call arrives: a client that is past its first command still has writes to come. Under
those marks, `WaitingInv` keeps a waiting job as it was enqueued, including the copies
clients hold of its record; `RankInv` bounds the state by the place of the worker, with
`Reached`; `AgreementInv` says at each place of the worker what the two keys of an
untouched job have in common, also while the worker carries the stale record of
`_get_job`; `StrandedInv` says that a job which is closed before a worker begins has a
terminal state or none, so that the worker which then skips it leaves nothing behind.
The step of `WriteRecord` is the longest: what it writes was read two steps ago.

**WatcherProofs** (from `WatcherAssumption`: feed and notices are disjoint, rewards
and limits are naturals, capacities positive; any feed, any number of instances):

- `TypeCorrect`: `Spec => []TypeOK`
- `NeverOrphaned`: `Spec => []NoOrphanWatcher`
- `AnnouncedOnce`: `Spec => []PublishedOnce`
- `NotForgotten`: `Spec => []RecordedIsAnnounced`
- `RangeRespected`: `Spec => ConfigRespected`
- `TotalRight`: `Spec => []TotalExact`

`PublishedOnce` is the hard one: the pipeline looks a job up and records it later,
without a lock, and two instances may do so at once. `OnceInv` says why it holds:
whoever may still announce a job (`MayAnnounce`: past the look-up and not cancelled,
or cancelled with its PUBLISH on the way) is the only one, and the job has not been
announced. `CheckStep` uses both halves: a second instance that is not cancelled
does not exist (`LifeInv`, hence `NoOrphanWatcher`), and a cancelled one whose PUBLISH
is on the way has recorded the job, so the look-up would have hit. `LifeInv` also
keeps instances that have not been started out of the way, and `FreshInv` carries
the filter's verdict from `Load` to `Publish`. `QuietStep` disposes of everything the
monitors and the status do.

`TotalExact` counts: the announcements are the pairs of a job and one of its
announcements, so that one more is one more element of a set. It bounds what was counted
and not announced by the stopped instances, but an instance that is stopped does not
miss its job at once: it may still announce it, and it may be stopped before it counts.
`TotalInv` therefore splits the stopped instances into those that may yet count or
announce (`Due`) and the others (`Spent`), and lets only the latter have missed a job;
each action moves at most one instance across, and pays for it.

**StripeBillingProofs** (from `BillingAssumption`: bounds are naturals; any set
of requests):

- `TypeCorrect`: `Spec => []TypeOK`
- `EventsAppliedOnce`: `Spec => []AppliedOnce`
- `NeverAheadOfStripe`: `Spec => []PaidAtStripe`
- `ToldIsRecorded`: `Spec => []PaidIsRecorded`

The properties speak of the row, but a request may have read anything before and
write it now. The invariant therefore follows the values on their way:
`WebhookInv` (an event past its record is in `billing_events` and is what the
request is about to write), `OnceInv` (an event has one request on its way to the
row, or has been written, not both), `SnapshotInv` (no copy in any request's
hands is ahead of Stripe), `StampInv` (whoever read `processed_at`, or is about to
tell of it, leaves it set or lost to a stale Save) and `EventInv` (a recorded
payment is stamped, lost or on its way). `SavedStep` is the heart: it shows that a
Save keeps all of them.

**TranslationReviewProofs** (from `TranslationReviewAssumption`: a file has at least
one segment, bounds are naturals; and `NoneAssumption`: `None` is no job; any set of
requests):

- `ReviewTypeCorrect`: `Spec => []TypeOK`
- `DecidedOnceDelivered`: `Spec => []DecidedJobTranslated`
- `DeletionStays`: `Spec => DeletedJobStaysDeleted`
- `AnswersStand`: `Spec => AnswersRespected`
- `SegmentsCounted`: `Spec => []SegmentsAccounted`

A status travels from the worker's last store over the hash, a request's copy of the
job and the row to another request's copy and back. `FinalInv` holds all five of them:
whoever speaks of a finished translation does so after every segment was delivered.
`EditsInv` says that an answered edit is noted in the row, and in the copy of whoever
loads the row later, which is what `Overwrite` asks. `DecisionInv` is about whoever is
going to write the status: a decision that stands then is not one that had been answered
when the request arrived, since it would have been refused. `StatementStep`, `ArriveStep`
and `OutsideStep` reduce a request's statement, its arrival, and a step of the worker or
of the creation to what the step changes; each action has a lemma that cites one of them.

`SegmentsAccounted` has two halves, each with an invariant on top of `ReviewInv`. Whether
a synchronisation inserts a row is settled by what it read long before: `UniqueInv` says
that a request in its loop has no row of its own for the segments still to do, and that it
misread or knows of every row whose inserter had been answered when it arrived.
`CountedFrom(R)` says that the counts are right where the requests `R` came one after the
other and none of them miscounted: `Account` has, at each statement of the one at work,
which of the two counts are right and what it has counted. `CountInv` asserts it from the
first request on (`Arrived`) and from every synchronisation that ran alone (`Since`); one
lemma, `CountedOn`, carries any such `R` over a step, because whoever is at work belongs to
it (`AloneCovers`). A failing statement either leaves the counts as they are or is one that
miscounts (`FailureAccount`). That an edit leaves the number of rows alone needs
`UniqueInv`: rows are told apart by segment and inserter.

**ReviewWorkflowProofs** (from the assumptions of `ReviewWorkflow`; any deployment, any
number of providers and segments, any answers in any order):

- `InvHolds`: `ReviewSpec => []ReviewInv`
- `TypesHold`: `ReviewSpec => []ReviewTypeOK`
- `AnswersNotMixed`: `ReviewSpec => []AnswersToldApart`
- `DecisionsInformed`: `ReviewSpec => []DecisionInformed`

`AnswersInv` says that each answer so far stands under the model that gave it or, on the
two ways that keep a list, where its source is; `SortPlaces` is what a stable sort by model does to
that. `SegmentsInv` relates a segment of the job to its flag, its reason and what the judge
said, `FiguresInv` the metrics to the segments. `BestOf` and `LeastOf`, by induction over
numbers, say that the best of a list exists, which is what the fallback of the judge picks.

**SequencePartsProofs** (no assumptions; used by the two modules below): what `Keeping`,
`SortedByKey`, the library's `FlattenSeq` and the numbering of a finite set return.
`FlattenedPlaces` and `OriginsByPlace` say where the pieces of a flattened list are and from
which piece, at which place, each of its members comes; `KeepingPicks` that a filter returns
an increasing choice of places, `Picks`; `SortedByKeySorts` that sorting gives a permutation, in the order of the
keys. The library's flattening is a recursive function; that it exists, and its places, are
proved from a least counterexample, a set of numbers with a least element, since induction
over an operator is out of reach.

**WorkerDocumentsProofs** (from `DocumentAssumption`: a file is of one of the four formats,
its parts are sequences of items, only a DOCX has headers, and nothing in a sheet, on a page or
in the body of a DOCX is inside a table; any files and configurations, grids of any size):

- `DocumentsHold`: `DocSpec => []DocIInv`
- `DocumentsTyped`: `DocSpec => []DocTypeOK`
- `AllTextsSegmented`: `DocSpec => []TextsSegmented`
- `AllTextsInPlace`: `DocSpec => []TextsKeepTheirPlaces`

The properties speak of the end of the way, the invariant of what a segment is before. Each
parser is a chain of flattening, filtering, numbering or sorting, and a lemma after each link
says from which place of the file every member comes and that no place is missing: `PartTexts`
for slides and pages, `SheetSegments` for sheets, `CellParagraphsRight`, `TableInfosRight`,
`PartInfosRight` and `AllInfos` for a DOCX, in which each paragraph of a cell is listed once for
each position of the cell (`ListedOnce`), told apart by the place and the position. `PartByPart`
puts sheets, slides and pages together: ids that name their part keep the parts apart.
`DocxRight`, `XlsxRight`, `PptxRight` and `PdfRight` are what the four parsers make, and
`ParsedWell` what the invariant keeps of it: typed segments with texts, ids apart, `Covers` (each
text is in a segment, or in as many as its cell has positions), and per format what its renderer
counts on: `CellByCell`, `FrameByFrame`, `OnlyPages`, and `Leading`, that a paragraph before which
none was skipped has its own number. Translating changes a state alone (`TranslatedWell`);
`Pending` relates the states to what is still to do, so that at `Render` exactly the Japanese
segments are translated. `XlsxRendered`, `DocxRendered`, `FramesKeepTheirTexts` and `PdfRendered`
then find, for each item, the segment its renderer takes. The ids of a merged DOCX are apart
when no two paragraphs of its tables have a position in common (`CellNamesApart`): entries of
one name then come from one paragraph, which is listed there once (`GroupedRight`).

**WorkerDocumentsProofs, the glossary and all parts together** (from `GlossaryAssumption`: files
have terms with sources, texts are sequences of tokens; any files, texts, domains and pairs of
similar words; for the last theorem also the assumptions of the other parts and
`RestingDeployment`, that the review at rest is in a deployment that is one of them):

- `GlossaryTypeCorrect`: `GlossarySpec => []GlossaryTypeOK`
- `TermsApplied`: `GlossarySpec => []GlossaryApplied`
- `WorkerDocumentsTyped`: `DocumentsSpec => []DocumentsTypeOK`

`GlossaryInv` has three parts. `GlossaryTyped` says that no two entries share a source and none
is empty. `ReadInto` follows the loading: of the files read so far, each source has an entry,
the last one of the last file that has it; a file that is missing changes nothing, so what lies
before and after it does not matter. `Answered` is what `Match` leaves. That a term is proposed
once follows from `FirstOfEach`, and for the fuzzy pass, a recursive function, from an induction
over the tokens; the filter by domain and the sort move matches and make none. That a term
which stands in the text is not missed is the converse: its own pass tries it, and whatever was
proposed before it under the same source is the same entry, since entries are told apart; this
needs that the passes by tokens and by text are before the compounds. A word of a token stands
in the text (`TokenWithin`), which is why only a source that stands there is certain.

**WorkerServicesProofs, the folder watcher and the cache** (from `CacheAssumption`: sizes and bounds are naturals, the TTL is
positive; and `FolderAssumption`: finitely many files, bounds are naturals; any set of
clients and requests, either backend):

- `CacheTypeCorrect`: `CacheSpec => []CacheTypeOK`
- `CacheAnswersRight`: `CacheSpec => AnswersRight`
- `FolderTypeCorrect`: `FolderSpec => []FolderTypeOK`
- `OncePerArrival`: `FolderSpec => []HandedOncePerArrival`

What a hit answers is what some writer carried to the file several steps before, over
a file that others truncate, overwrite and unlink meanwhile. `CacheInv` follows the
entry: `Carries` says that a client between `translate_func` and the write has a
whole entry of its own request's key, `Stored` that an entry under a key that can be
read is one of that key and not of the future. `OverwrittenStored` is the step two
writers of one file meet in: what is left can be read only if it is the last text.
That a hit is fresh is a fact about `Get` alone (`GetFresh`); `NoNewHit` disposes of
the other actions.

The credit of a file in the folder is its registrations less its hand-outs, and a thread
may carry a batch over a stop, a start and a scan. `Enough` says that the credit pays for
every thread that still holds the file and for the entry while it is stabilizing.
`EnoughStep` reduces each action to what its one thread and the entries give up;
`HoldersChange` is the counting behind it. `BatchOnce` shows that a batch names a file
once, which `Deliver` needs: what it takes off the batch must not come again in the
rest. The lock matters in `GetReadyFilesStep`: reading `stabilizing` and writing
`ready` is one step, so a file goes into one batch.

**WorkerServicesProofs, the pool** (from `PoolAssumption`: finitely many providers, sizes and limits
are positive; any kinds of provider, number of texts, chunk size and retries):

- `PoolHolds`: `PoolSpec => []PoolInv`
- `BatchesSound`: `PoolSpec => []BatchSound`
- `PoolTyped`: `PoolSpec => []PoolTypeOK`

A task holds the semaphore and the statistics it found, and an operator may replace
either meanwhile. `LimitsInv` therefore counts the users of every semaphore ever made,
and `CountInv` the successes of every statistics object, including those no provider has
any more: with `AnswersInv`, an answer stands at its prompt exactly when its task is done
and counted. For the texts, `ChunkBounds` is the arithmetic of the slices, the last one
shorter, `ChunkResultIs` says that a chunk gives back as many texts as it had, translated
or not, and `FlattenedPlaces` where the pieces are after they were put together.

`PoolTyped` needs two invariants of its own. `TurnsInv` relates the order of turns to the
members: an added provider goes to its end, a selected one moves there, and a removed one
leaves it a step after it left the members. `AttemptsInv` bounds the attempts of a task.

**WorkerServicesProofs, the plugins and all services together** (from `PluginAssumption`: finitely many plugin files, each with
a sequence of classes, bounds are naturals; any names and extensions; and for the last
theorem the assumptions of all four services):

- `LookupsHold`: `PluginSpec => LookupsRight`
- `PluginsTyped`: `PluginSpec => []PluginTypeOK`
- `ServicesTyped`: `ServicesSpec => []ServicesTypeOK`

`LookupsRight` speaks of what a look-up finds; `PluginInv` says which objects it can
find. `OneEach` is what keeps a shutdown from ending somebody else's parser: two infos
never share an instance. `InstancesRight` has the instance of an info live and its
dependencies met, for infos that were replaced as well. That no plugin is hidden rests on
`FirstNamedExists`: in any order of the files there is a first class of each name, a
least pair of turn and place. `ServicesBesideEachOther` says that a behaviour of the four
services together is a behaviour of each.

The inductive invariants were checked by TLC before they were relied on.

**Model-checked only.** Liveness (`EveryJobTaken`, `EveryJobSettled`,
`MatchAnnounced`, `StoppedEnds`, `PaymentRecorded`, `QuietFileHanded`, `BatchEnds`)
needs fairness, hence ENABLED, which the prover does not handle. Every invariant and every
action property of the passing runs is a theorem. No module declares a RECURSIVE operator.

## 5. Disagreements

Between the code and what is written about it; each is a run with a
counterexample, but for the notes at the end.

- **Terminal states are overwritten** (`jobqueue_terminal`). `job.py:40` says "no
  further transitions possible"; `cancel_job` only writes the state, and the worker
  that holds the job writes the next one over it.
- **Checkpoints are never loaded** (`jobqueue_resume`). `manager.py:341` promises
  resumption after a crash; a popped job is in no queue, and `load_checkpoint` is
  called by tests alone.
- **Decisions are overwritten** (`translation_final`). A `GetJob` that loaded the
  job before its approval writes the older status over it, and of two opposite
  decisions that overlap both are answered 200 and the second stays.
- **A running watcher does not monitor** (`watcher_restarted`). After a restart of
  the server the status in the database is still `running`, and nothing starts the
  watchers again; `watcher-system.md:63` says "Actively monitoring and matching".

Notes without a run:

- `manager.py:128` calls `delay_seconds` "Delay before job becomes available";
  `dequeue` takes the lowest score whatever the time, so a delay only orders jobs.
- `StripeBilling`'s excuses `stale` and `cut` are losses a user would notice: a
  status poll repairs the second as long as the page is open, and nothing repairs
  the first but another poll or event. `payment_status` itself can go back from
  paid to unpaid when an older snapshot is applied late; `processed_at` cannot.
- `syncSegmentsFromRedis` looks at no error: when its SELECT fails (`translation.go:624`)
  it inserts every segment again, when its count fails (693) the job shows no segments,
  and a lost INSERT or UPDATE (674, 676, 697) stays unnoticed until the next `GetJob`.
  The duplicates stay for good, and an edit by a user reaches only one of them.
  `updateSegmentLogic` answers 500 after the segment was changed when the count or the
  job's UPDATE fails (510, 517); `has_user_edits` is then not set, and the next
  synchronisation overwrites the edit.
- A silent WebSocket ends its monitor without a reconnection (`Silence`).
- In `lemonsqueezy.go:175-188` the subscription handlers look for a stored event but
  store none, while `billing-configuration.md:63` says that stored ids prevent
  multiple updates. That belongs to a module of the plan.
- **Documents.** A translated DOCX shifts: the renderer counts the empty paragraphs
  that the parser skipped, so each translation stands as many paragraphs too early
  as there were empty ones before it. Texts of tables and headers are translated and
  never written (`docx_parser.py` looks them up as `table_1_A1`, a name parse never
  gives); in merge mode the whole text goes into the first paragraph. `W/README.md:12`
  and `docx_parser.py:5` promise that the format is preserved. A deck whose first
  slide has no text of less than 100 characters outside groups and tables is lost as a
  whole: the title falls back to `prs.core`, which does not exist. Tables on slides,
  tables inside cells and text boxes of a DOCX are never parsed. Paragraphs of one cell,
  and cells of different tables, share an id in merge mode. A DOCX paragraph whose
  translation is empty keeps its source. Frames inside groups keep their source and get a
  new box, and frames at one position overwrite each other. A PDF page without text
  is dropped from the result, and the source text is not covered; the merge sorts
  from the bottom up although its comment says "top to bottom", which the renderer,
  also from the bottom up, undoes. Numbers of a sheet come back as strings.
- **Review.** A third model never wins: its name ends in a letter, `int` fails and the
  first candidate is taken. `process_and_export` calls `approve_job` without the job
  and ends in a TypeError once a job may be approved on its own; `create_judge`
  passes an argument the judge does not take; `approve_job` approves a job in any
  status with a warning. The judge's confidence is not bounded. On the command line an
  exception without a message is counted as a translation and replaces the source by `None`.
- **Glossary.** fugashi's `parse` returns a string, so the tokenizer finds no tokens at
  all, and the fallback meant for that (`matcher.py:199`) waits for an exception
  that was swallowed below it. Function words that the first pass skips come back in
  the fuzzy one.
- **Cache.** The default time to live is 2.5 days where its comment says 30;
  `invalidate_by_prefix` deletes nothing on files; `backend.py:169` says the time is
  not looked at on reading, and it is.
- **Folder watcher.** Its looks at a size need not be consecutive (line 77 says they
  are): a changed size is remembered but an old count may be left. The status
  `DETECTED` is never set.
- **Plugins.** The shipped parsers name `python-docx` and `python-pptx` as
  dependencies, which `find_spec` never finds under these names.
- **Pool.** An empty pool gives the batch a semaphore of 0, and it waits for ever. When
  one task fails `gather` raises while the others go on. LM Studio's second
  `generate_async` has no body and hides the first: it answers None, and the answers
  after it move up by one.
- **Job API.** A job whose HSET or LPUSH fails stays `pending` and cannot be deleted;
  a worker that fails never tells the hash.

## 6. Outside the models

- **Formats**: the bytes of documents, prompts, JSON, feeds and pages; fonts and
  styles; wording of responses; logging. The files of a document are sequences of
  items with a text, a position and, in tables of a DOCX, the positions of their cell.
- **Data a property does not tell apart**: texts of segments are "empty, clean,
  flagged, edited"; plans, amounts and e-mail addresses of payments are left out;
  progress percentages and timestamps other than "set".
- **Redis and PostgreSQL** are taken to be atomic per command and durable. Loss of
  Redis data is modelled only as expiry.
- **Time** is modelled where the code compares it: enqueue's delay and the cleanup's
  age. Time-outs are choices that may happen at any moment.
- **Stripe** is modelled by what the handlers rely on: a session's states, webhooks
  at least once, retried until a 200. `async_payment_failed` carries a snapshot
  that is already there and is left out. The mock gateway, which pays whenever it is
  asked, is for development only.
- `_cleanup_completed_jobs` of the consumer is modelled (`Tidy`); `_enforce_lru_limit`
  is not, since a worker that takes one job at a time never holds 1000.
- `StopAll` and the manager's `UpdateConfig` of the watcher, and `JobManager` methods
  that only read, have no caller or no effect.
- The similarity of two words, a judge's verdict, the findings of the style checker
  and the answers of models are chosen by the environment. What computes them
  (`difflib`, `W/audit/`, `W/style_guide/`, `W/nlp/`) is left out, as are plain text
  and Markdown files, speaker notes and the batch and async variants of the review,
  which have no caller in the worker.
- `W/layout/` measures and copies boxes; nothing in the worker calls it.
- Components of section 1 without a module: see the plan.

## 7. Plan

Written, in this order: `JobQueue` (with `JobHandout`), `TranslationReview`,
`Watcher`, `StripeBilling` (the processes around Redis and PostgreSQL), then what a
worker does by itself: `FolderWatcher`, `TranslationCache`, `PluginRegistry`,
`ProviderPool`, `Documents`, `ReviewWorkflow`, `GlossaryMatching`.

Next modules, in order, each beside `StripeBilling` in a run of several parts:

1. `LemonSqueezy`: subscription events, retried and reordered, and what they do to
   the user's plan. Abstract specification: the plan follows the newest event.
2. `OneTimeTokens`: creation, validation and use of a token by concurrent requests,
   for the three kinds of token, and the WebSocket tickets, which have the same form.
   Abstract specification: a token is consumed at most once.
3. `Sessions`: refresh, logout, account removal, with Redis failing.
4. `RateLimit`, `OAuthLinking`: one window, one row each.

Theorems, in order:

1. An invariant and an action property for each of the modules above. `Enough` and
   `EnoughStep` of the folder watcher are the pattern for `OneTimeTokens`: a token consumed
   at most once is a credit paid out once.
2. The liveness properties as far as they are safety: that in a state where a job waits, a
   file is quiet or a batch has prompts left, some step of the program is possible and none
   of the others takes it away. The fairness that makes it happen stays with TLC.
