# Imga AI: TLA+ specifications

Imga AI analyses customer comments. A tenant uploads a file of comments, a
worker classifies them chunk by chunk (an LLM or a local model), writes a review
per row and opens tickets for the ones that need work; dashboards, reports and
e-mails are built on top. This directory holds TLA+ models of the parts of the
system where concurrency, crashes, retries and ordering decide whether it is
right, TLC runs on small instances, and TLAPS proofs for all instances.

Paths below are relative to `src/packages/imga-api/src/imga_api` unless they
name another package.

## The system

Processes: the API (FastAPI, one asyncio loop, an in-process APScheduler), the
arq worker (`workers/arq_worker.py`: at most two tasks, cron ticks), PostgreSQL
(READ COMMITTED, no version columns, row locks in two places only), Redis
(arq's queue and results, hints and progress messages).

| Component | State it keeps | Operations | Talks to | Hard because |
|---|---|---|---|---|
| Batch job row (`services/batch_service.py`, `routes/tenant_batch.py`) | status, counters, checkpoint, retry count | create, cancel, retry, mark_processing, mark_completed, mark_failed, apply_progress | API requests and workers write the same row | unlocked read-modify-write by up to three parties |
| Dispatch (`workers/scheduler.py`, `workers/arq_worker.py`) | arq task records, scheduler triggers | enqueue, fall back to the API process, deliver, restart, recover orphans | API, Redis, worker | deduplication by task id, duplicates after a refused enqueue, redelivery |
| Batch worker (`workers/batch_analyzer.py`) | per process: tenant locks, semaphores, chunk tasks, pipeline pool | serial loop, parallel loop, chunk = analysis + reviews transaction + progress transaction | job row, reviews, tickets, Redis | crash between two commits, out-of-order chunks, cancel and timeout of tasks |
| Re-analysis (`workers/reanalyzer.py`) | the same job row | like the batch worker, over stored reviews | job row, reviews | shares dispatch and retry with uploads |
| Tickets (`services/ticket_service.py`, `ticket_state_machine.py`) | ticket state, timestamps, timeline | create, transition, assign, quick resolve | worker (opens), API, SLA scan | concurrent transitions |
| E-mail outbox, SLA scan (`workers/email_outbox_worker.py`) | outbox rows | dispatch tick, breach tick | SMTP, tickets | overlapping ticks, crash between SMTP and commit |
| Intake (`services/review_service.py`, the row loop of the batch worker) | reviews, tickets, a run's set of texts | record_and_decide, promote | analyze requests, batch worker, tickets | duplicate lookup and promotion read unlocked rows, a user's own requests overlap; parallel chunks share a set no rollback undoes; resume |
| Files of uploads and reports (`workers/cleanup.py`, `workers/report_generator.py`, `routes/tenant_reports.py`) | files, report rows, a keep list in memory | upload, attempt, retry; generate, render, delete; a sweep after each start | scheduler of the API, job rows | rows and files change in different steps; the API may die between them |
| Root-cause tracking (`services/root_cause_autogen.py`) | a Redis set per tenant, an error key | mark enqueued, started, finished | batch worker, arq task, UI | marks race the task they describe |
| LLM key rotation (`imga-core: llm/key_rotation.py`) | key priorities, health | pick, fall through, exhaust | providers | limits and failures in any order |
| Twitter fetch | progress and an in-flight guard in Redis | start, progress, finish | Redis, batch job | ends in an ordinary batch job |
| Scheduled briefings (`workers/scheduled_briefings.py`) | next run of each schedule | a tick every five minutes | database, LLM | lists what is due once and advances the schedule only after generating |
| Classification, parsing, analytics, CRUD, web client | none across requests | pure or single-transaction | | not protocol code |

What makes each of the first components right:

- Job row: a completed job accounts for every row of the file; the checkpoint a
  retry starts after never passes an unprocessed row; counters agree with what
  was written; a job that was dispatched settles.
- Dispatch: no attempt is swallowed by deduplication; a redelivered attempt does
  not process chunks twice.
- Worker: when a job is marked completed, no task still writes for it; a failed
  task cannot leave a hole in a completed job; memory is bounded; a model
  instance is used by one chunk at a time.
- Tickets: the state moves along the transition graph; the timestamps and the
  timeline fit the state.
- Outbox: a pending mail is eventually sent or failed, within its attempts; at
  most one breach mail per ticket; a ticket past its SLA is reported.
- Re-analysis: people's corrections stand; a retry leaves no candidate out.
- Intake: one ticket per text and window, and one promotion per review, as far
  as requests can know of each other; reviews and tickets point at each other; a
  copy is stored for a text that is stored, unless the run's own parallel chunks
  rolled it back.
- Files: a file is there as long as a row promises it, and a start removes what
  no row promises any more; a report in progress belongs to a task.
- Root-cause tracking: the hint goes away once nothing is generating.

`PROJECT.json` lists every component with its status and every hazard at its
line.

## Modules

| Module | Models |
|---|---|
| `RowAccounting` | abstract: what an upload job promises about its rows |
| `BatchJob` | the job row, the API requests, dispatch, delivery, a run's own transitions of the row, faults, restart and recovery |
| `BatchSerial` | extends it with the serial chunk loop; specification, fairness, properties; implements `RowAccounting` |
| `BatchParallel` | extends it with the parallel loop (producer, semaphore, chunk tasks, pipelines); specification, properties; its first attempt implements `RowAccounting` |
| `Reanalysis` | extends it with the walk over stored reviews, the candidate list, and people's corrections meanwhile |
| `Intake` | reviews and tickets: analyze requests, the chunks of a batch's runs, serial or parallel, the duplicate lookup, promotion |
| `EmailOutbox` | outbox rows, overlapping runs of the dispatch tick and of the SLA scan, SMTP, crashes |
| `Tickets` | one ticket, its timeline, and concurrent transition, quick-resolve and assign requests |
| `Cleanup` | ages of files and rows, and what the reaper does to a file |
| `Reports` | extends it with report rows, the task that renders one, deletion, crash and recovery |
| `UploadFiles` | extends it with upload jobs and their files, attempts, retries and the sweep of each start with its keep list |
| `PromisedFiles` | abstract: what a directory of files owes to the rows that name them |
| `JobFiles` | composes `Reports` and `UploadFiles` in one API process with one clock; fairness; implements `PromisedFiles` twice |
| `MCBatchSerial`, `MCBatchParallel`, `MCReanalysis`, `MCIntake`, `MCEmailOutbox`, `MCTickets`, `MCJobFiles` | the instances TLC checks |
| `BatchJobProofs`, `BatchSerialProofs`, `BatchParallelProofs`, `ReanalysisProofs`, `IntakeProofs`, `EmailOutboxProofs`, `TicketsProofs`, `JobFilesProofs` | theorems |

The groups do not share state. Where they touch: the batch worker opens tickets
(`Init` of `Tickets`, `TicketOpened` of `EmailOutbox`, `RowDecided` of `Intake`),
the SLA scan reads a ticket's state (`TicketMoves`), and the transitions of a job,
with their races in `BatchJob`, are one step each in `UploadFiles`.

### State and steps

The batch job. `job` is the committed row. Every service call reads the row and flushes changed
columns in one READ COMMITTED transaction without a lock, so it is two steps:
`CancelRead`/`CancelWrite`, `RetryRead`/`RetryWrite`, `StartRead`/`StartWrite`,
`CompleteRead`/`CompleteWrite`, `FailRead`/`FailWrite`, `ProgressRead`/
`ProgressWrite`, `RecoverRead`/`RecoverWrite`. The write stores values computed
from the row as it was read and leaves the other columns as they are now, which
is what an UPDATE of the changed columns does; the row lock that UPDATE takes
lasts to the commit right after it.

`run[r]` is the coroutine of `process_batch_job` for one dispatch: one per
attempt in the worker (arq's task id carries the attempt) and one in the API
process (APScheduler's id does not). `Holding`/`LockFree` are the tenant lock,
which is in the process's memory: runs of one process exclude each other, runs
of different processes do not. The global semaphore admits two and there is one
job, so it never blocks here. The query for the tenant comes before both locks
and the `try`: if it raises, the run ends and the row stays as it is (`Stall`). `arq` is what Redis knows of each task id (`none`,
`queued`, `done`; a task in execution stays `queued` so that a crash redelivers
it); `sched` is the trigger in the API's scheduler; `up` is each process's
state; `req` is the API requests in progress. A cancel removes the trigger
`batch-{id}`, which is an upload's; a re-analysis was scheduled under another id
and keeps its trigger (`Kind`, `Unschedule`). The recovery of a restarted worker
may find the job and fail to record it, which is logged and swallowed
(`RecoverFails`, under `RecoveryMayFail`).

The unit of data is a chunk: `reviews[c]` counts how often the chunk's reviews
transaction committed and `errored` holds the chunks whose rows were counted as
failed. The checkpoint, a row number in the code, is the chunk that ends there.

In `BatchParallel`, `task[r][c]` is the asyncio task of a chunk, with the
pipeline it was given and the columns it has read for its progress write. An
asyncio task cancelled inside a transaction rolls it back; one that has
committed stays. `ProducerStall` distinguishes where the 4 h timeout hits:
inside `gather` the chunk tasks are cancelled with it, inside `asyncio.wait` or a
query they live on. Only the worker runs jobs here: a refused enqueue, and with it
the run in the API process, is in `BatchSerial` and `Reanalysis` alone.

Abstracted: what a row is classified as, tickets, quality flags, deduplication
within a file, NPS, audit and decision logs, progress messages, the snapshot
and root-cause follow-ups of a completed job.

Re-analysis. `review[c]` says who decided a review's values and whether
`overrides_applied` has the trace of a person's correction, or the stamp of a
stored correction the text matched; the candidate query leaves out both.
`work[r]` is what a run holds: its list, the review in hand and the row as the
write transaction read it. The checkpoint is an index into the list
(`Position`), which each attempt queries anew. `RewriteRead`/`RewriteCommit` are
the write transaction, without a lock; `Correct` locks the row and is one step.
`done`, `corrected`, `firm` and `departures` are history; `departures` counts how
often a processed review left the candidate list.

Intake. A request is a transaction whose decision (`AnalyzeDecide`,
`PromoteRead`) reads what is committed, and whose rows join the tables at its
commit (`AnalyzeCommit`, `PromoteCommit`). A request stands for a click, not for
a user: any of them may overlap, two of one user too. A chunk of a run is a
transaction of its own, named `<<run, chunk>>`: `BatchRow` is one turn of its
row loop (`RowCopied`, `RowDecided`, `RowFails`), `BatchCommit` its commit,
`ProgressRead`/`ProgressWrite` the progress transaction, `ChunkFails` its
rollback. With the serial loop a chunk begins when the one before it is done;
with the parallel one (`Parallel`) chunks interleave row by row, commit and roll
back on their own, and share the run's set of texts, `seen`: no rollback undoes
it, and the next run starts with none (`RunEnds`). What outlives a run is chosen
there (`Survivors`): nothing after a crash; the tasks of earlier runs; the run's
own too, under `ProducerMayFail`, because a producer whose parser or cancel
query raises leaves its tasks to themselves. Model, automation mode and
thresholds are one choice per row, to skip or not. `knew` is history: which
tickets were committed when a ticket was decided on, so that the properties can
tell requests that overlap from requests that follow each other; `undone` is
what rollbacks took.

Files. An age is counted in ticks and stops one past the retention, beyond which
nothing distinguishes ages. `task[r]` is the report's task in the scheduler's
memory, from the request that is about to submit it to the transaction that
records its end; rendering leaves a file before the row says so, or a part of
one. A deletion is three steps: it reads the path, deletes the row, unlinks. A
sweep is two: the keep list, and the walk. There is one sweep per start of the
API (`reapDue`, `sweep`), 30 s later, since `schedule_cleanup` adds its 24 h job
with `next_run_time=None`, which APScheduler takes as paused; if the keep list
cannot be read, that start sweeps no uploads (`ListFails`). A crash of the API
drops tasks, requests and sweeps; the worker of uploads goes on. The start marks
generating reports failed, except those whose marking the database refuses
(`lost` in `ReportRestart`); a tenant query that raises leaves a report queued
(`LookupFails`).

The outbox. `outbox` is the committed table; a row is named after its ticket, or
after its ticket and a number, since nothing in the schema stops a second breach
row. `due` lists the pending rows whose `next_attempt_at` has
passed, in that order, which is the order the tick takes them in; `BackoffEnds`
is the passing of time. `tick[d]` is a run of `email_outbox_tick`: it lists ids
(`DispatchScan`), and for each one reads the row (`ReadRow`), talks to the SMTP
server (`SendAccepted`, `SendRaises`; an exception may hide an acceptance), and
commits (`RecordSent`, `RecordFailure`, or `RecordRaises` if the commit fails).
Two runs overlap because twenty rows at up to thirty seconds each take longer
than the two minutes between ticks, and the worker runs two tasks at a time.
`scan[s]` is a run of `sla_breach_tick`: the query, then per ticket the second
NOT EXISTS (`BreachCheck`) and the insert (`BreachInsert`). `tries`, `accepted`
and `contested` are history: what was sent, what the server took, and which rows
two ticks have had in hand at once.

Tickets. `ticket` is the committed row with its assignee, whether it has a
cancellation reason, and the timestamps something goes by: absent, inside the
tenant's window (`fresh`) or past it (`old`). A request reads the row and
validates (`TransitionRead`, `QuickResolveRead`, `AssignRead`), and later writes
(`TransitionWrite`, ...): an UPDATE of the columns that differ from the row as it
was read, so a column set to NULL is only written if it was not NULL then
(`Cleared`). `Check` is the table's CHECK constraint, which refuses the UPDATE if
the row it yields breaks it. The timeline is in commit order; the API lists it
by `occurred_at`, which is taken before the read. Left out: claimed_at,
last_state_change_at and the audit and assignment histories, which no operation
of tickets reads. No auto-close worker exists yet; the move only it or a
super-admin may make (pending to closed) is a super-admin's here.

### Properties and runs

| Run | Instance | Shows |
|---|---|---|
| `serial` | 3 chunks, 2 retries, one API request at a time, the worker may crash or raise twice | `CompletedCoversAllRows`, `ResumeSkipsNothing`, `CountersMatchCheckpoint`, `ReworkIsOneChunk`, the refinement `ImplementsAccounting`, and `Settles` under fairness |
| `parallel` | 5 chunks, 2 at a time, first attempt, two faults, timeouts | `FirstAttemptCoversAllRows`, `FirstAttemptWritesOnce`, `CompletionIsQuiet`, `InFlightBounded`, `CheckpointGapsBounded`, `CountersNeverAhead` |
| `parallel_resume` | 3 chunks, one crash | fails: `FailedJobResumable` |
| `parallel_pipelines` | 3 chunks, no fault | fails: `PipelinesNotShared` |
| `reanalysis` | 2 reviews, one retry, both processes after a refused enqueue; the LLM may give up; people correct the first, a stored correction matches the second | `FirmCorrectionsStand`, `SkipsBoundedByDepartures`, `CompletedBoundedByDepartures` |
| `reanalysis_retry` | the same in the worker alone | fails: `RetryLeavesNothingOut` |
| `intake` | a file of two equal texts in two chunks at once, two runs, two requests, two instants | `MintedOnce`, `LinksAgree`, `PromotedOnce`, `CopiesHaveOriginal`, `LinksStay` |
| `job_files` | one report, one upload, retention of one tick, two crashes | `DownloadableUntilExpiry`, `GeneratingIsOwned`, `RetryFindsFile`, the refinement `KeepsPromises`; under fairness `StartSweepsStaleFiles`, `ReportSettles` |
| `outbox` | 1 ticket (two mails), two dispatch ticks at once, one scan, 2 attempts, 1 row per tick, one fault | `SentWasAccepted`, `SendsBounded`, `OneBreachMailPerTicket` for one scan at a time, `FinalStays`; under fairness `EveryMailSettles`, `LateTicketIsReported` |
| `breach_overlap` | 1 ticket, two scans at once, no fault | fails: `OneBreachMailPerTicket` |
| `tickets` | an analyst and an admin who is a super-admin too, 6 timeline rows | `TimersFitState`, `TimelineEndsAtState`, `CancelledLeavesByUncancel` |
| `ticket_race` | the same | fails: `StateFollowsGraph` |

Bounds. Three chunks give a first, a middle and a last one, so that a run can
stop before, at and after a checkpoint; two retries make two resumed attempts and
let a cancelled attempt still run while the next waits for its lock; two faults
allow a crash during the recovery from another. Five chunks are one more than
the drain threshold of the parallel loop at two at a time (2 * 2), so the
producer drains, goes on, and drains again. The parallel properties speak of the
first attempt; later attempts start from a checkpoint that `parallel_resume`
shows may be wrong. `MaxAttempt`, `MaxFaults`, `NChunks` and `Users` are the only
bounds there; TLC explores their instances completely. In `serial` the recovery
may fail to record what it found; in `parallel` it may not, because a redelivery
then runs the first attempt a second time, over rows it has written already: the
properties of first attempts are about a recovery that records.

In `reanalysis`, two reviews and one retry are the least with which a processed
review can leave the list before another; `Correctable` bounds which reviews
people correct. Crashes, exceptions and timeouts are left to the theorems, which
hold for any number of them and any reviews; here a run ends early by a cancel or
the LLM. In `intake`,
two equal rows in two parallel chunks give an original and a copy whose
transactions commit or roll back in any order, on either side of a resume; two
requests are two users, or one who clicks twice. `MaxNow` bounds the clock, and a window of zero
ticks still tells the same instant from the next; `MaxEnds` is the number of
runs that fail or die, after which the last one is left to finish. A producer
that fails alone (`ProducerMayFail`) is left to the theorems, which hold with it,
as is the serial loop (`Parallel = FALSE`). In `job_files`, a retention of one
tick has ages inside, at and past the cutoff; reports meet only at the tenant's
lock, and the theorems hold for any number of them.

In `outbox`, two attempts stand for five (a first that is retried and a last that
gives up) and a limit of one row for twenty, so that two mails already compete
for a tick; `MaxFaults` bounds crashes and failed commits, and
`MaxBreaches` leaves room for one breach row more than is promised. In `tickets`, six
timeline rows are enough to open, resolve, close and reopen a ticket with a
second request in between at any point; `MaxEvents` cuts the writes off there.

Deadlock checking is off where the system may stop (a job that has settled, with
its retries used up, a bound reached) and on in `job_files`.

Fairness. `BatchSerial!Fairness`: a run that can step does (asyncio runs ready
coroutines, the tenant lock has no other holder in these models), a queued task
is delivered, a fired trigger is taken, a request that has begun ends, a dead
process is restarted by its container and recovers. Cancels, retries, exceptions
and crashes are never obliged to happen. Analysis is assumed to return: the
providers have timeouts.

`Settles` needs three conditions, and each of them is a fact about the code:
no run that ends and leaves the row as it is (`StallsHappen = FALSE`: the tenant
query before the `try` raises and the job stays queued; `mark_failed` raises and
is logged, or a timeout passes `except Exception`, and it stays processing until
the next worker restart); no API crash between the commit and the enqueue
(nothing re-dispatches a queued row); and no two overlapping retries (see below).
A recovery that fails to record does no harm to it: the task is still in Redis
and is delivered again.

`EmailOutbox!Fairness`: cron fires for ever and a tick
that has begun goes on, since SMTP has a timeout; time passes. Nothing obliges a
send to succeed, a ticket to be opened, to move or to grow late, or a fault to
happen. SMTP is taken to be configured; without it the tick returns at once.

`JobFiles!Fairness`: a submitted task runs, the one sweep that a start schedules
takes place (30 s later, with an hour of grace, if the process lives so long), the
API is restarted. Nothing sweeps a second time while the process is up. Time is
not obliged to pass, nor a user to generate, delete, cancel or retry, nor the worker to do
anything. `StartSweepsStaleFiles` therefore speaks of files that are past the
retention when the API is down; of a file that grows old under a running process
nothing is claimed, because nothing removes it.

What the failing runs show:

- `FailedJobResumable`: in the parallel loop chunk 2 commits its progress,
  checkpoint included, while chunk 1 is still in analysis. A crash (or chunk 1
  raising) now leaves a failed job whose checkpoint covers a chunk nobody
  processed; the retry filters its rows out. How many it may lose is bounded:
  fewer than twice the concurrency (`CheckpointGapsBounded`, proved).
- `PipelinesNotShared`: chunks finish out of order, so the pipeline at index
  modulo pool size may still be busy.
- `RetryLeavesNothingOut`: the first review is processed and leaves the candidate
  list; the attempt fails; the retry's list starts with the second review, which
  its index skips, and the job completes. It takes such a departure: without
  one nothing is left out, and with some at most as many reviews
  (`NothingLeftOut`, `CompletedBounded`).
- `OneBreachMailPerTicket`: two overlapping scans both find no breach row and
  both insert one; the second NOT EXISTS narrows the race and does not close it.
- `StateFollowsGraph`: a request that validated open to cancelled writes it over
  a ticket that another request has resolved in the meantime. Overlapping moves
  are the only way off the graph (`FollowsGraphAlone`).

Seen on the way, without a run:

- `quick_resolve` is documented for open tickets only, but its first transition is as well
  allowed from pending_customer and, inside the regression window, from resolved
  (`QuickResolveRead`).
- `SendsBounded` and `FinalStays` have to except `contested` rows: there two ticks
  send the same mail, and the slower one's failure may turn sent into failed.
- Two overlapping retries compute the same attempt number from an unlocked read;
  if the first one's task has ended when the second commits, the second
  dispatch is dropped by arq's deduplication and the job stays queued.
- Transactions that overlap may mint two tickets for one text, or promote a review twice,
  also those of one user who clicks twice: nothing serialises a user's requests
  (`services/review_service.py:359-366`). The second ticket then has a review
  that points elsewhere. The window slides: a duplicate linked now extends it for
  the next one.
- With parallel chunks, which is the default, a copy can be stored whose original
  another chunk rolls back: the set of texts is shared
  (`workers/batch_analyzer.py:1367-1370`). `tests/test_batch_dedup.py:42-49` of
  the API package expects one full review per text. The retry may store it, if it
  gets to the original's chunk; the copy stays a copy.
- The daily sweep never runs: `schedule_cleanup` says "at startup once ... plus
  daily thereafter" (`workers/scheduler.py:113-116`; also `main.py:171`,
  `workers/cleanup.py:1`, `settings.py:92`) and adds the 24 h job with
  `next_run_time=None` (`workers/scheduler.py:146-153`), which pauses it. Files go
  at the next start of the API only.
- A task whose tenant query raises leaves its job, or its report, queued for ever
  (`workers/batch_analyzer.py:273`, `workers/report_generator.py:132`).
- The keep list of the sweep names queued, processing and failed jobs; a
  cancelled job can be retried too, and its file may be gone by then.
- The reports route documents that cleanup clears `file_path`; nothing does, and
  the download finds the file missing on disk.
- A queued report is never taken up again after a restart of the API.

Every property of a passing run has a mutant beside the definition it mutates
(named in `PROJECT.json`): a plausible bug such as an off-by-one resume filter,
a dropped lock, a cancel that breaks out of the loop instead of returning, a
task id without the attempt, a restart without recovery, a gather whose
exceptions are ignored, a send whose exception is swallowed, a CHECK that holds
one way only, a keep list without the failed jobs, a sweep that goes by the rows, a set of texts
that outlives its run. TLC finds each property
violated by its mutant.

## Proofs

Every theorem assumes only the named `ASSUME` of its module (constants are
numbers, sets and Booleans of the right kind), and holds for all their values;
the theorems that assume more say so in their statement: `CountersExact` and
`ReworkBounded` that no enqueue is refused, those about a first attempt of
`BatchParallel` that the recovery records what it finds (`~ RecoveryMayFail`), `OneBreachMail` that scans do not overlap,
`FollowsGraphAlone` and `TimelineConnected` that moves of the ticket do not
(`[]MovesAlone`), `FirstAttemptImplements` that nobody has retried. The last three
are about behaviours of the same `Spec`, and each assumption fails in a run. Each module has one inductive invariant, `IInv`,
theorem or lemma `Inductive`.

`BatchJobProofs` has the lemmas about `BatchJob` that the two worker modules
share: its steps keep the job typed, move a run only along the control points
outside the loop, and complete only a job whose run is past its loop.

`BatchSerialProofs`, for every number of chunks, attempts, requests and
faults, any set of crashing processes, with timeouts and refused enqueues:
`TypeCorrect` (`TypeOK`), `NoRowLost` (`CompletedCoversAllRows`), `NoRowSkipped`
(`ResumeSkipsNothing`) and `Implements` (`Spec => ImplementsAccounting`).

None of the row properties is inductive: a completed status is written by a run
that left the loop long ago. `IInv` adds `RunInv`, what each run in the loop
knows: every chunk before the one it is at is accounted for, by whichever run;
once written, its own chunk is accounted for; a run about to complete knows it
of all chunks. The argument rests on one lemma, `AccountedStays`: nothing takes
back a committed review or a counted failure. So the tenant lock is not needed
for these results, and the proof does not use it. The refinement maps a chunk to a
row: from `IInv` every step accounts for a row, moves the checkpoint to a good
place (forth, or back by a stale write), completes, reopens or stutters.

Two more theorems of `BatchSerialProofs` do need the lock: `CountersExact`
(`CountersMatchCheckpoint`) and `ReworkBounded` (`ReworkIsOneChunk`). They assume
`~ RedisMayFail`, that is, that every enqueue reaches the worker alone, since two
processes do not share their locks. `OneRun` then holds: one run at a time is
past the lock, it is at the chunk after the checkpoint, and the row it has read
is the row as it still is; `Counted` follows from it step by step.

`BatchParallelProofs`, for every file, concurrency above one, number of
attempts and requests, with crashes and timeouts, in the worker: `TypeCorrect`, `MemoryBounded`
(`InFlightBounded`) and, for a recovery that records, `QuietCompletion` (`CompletionIsQuiet`), `FirstAttemptCovers`
(`FirstAttemptCoversAllRows`), `FirstAttemptWrites` (`FirstAttemptWritesOnce`).
`RunInv` ties what a run keeps of its tasks to where it is; `First` holds until
a retry is committed and says what the status (`StatusInv`), the producer
(`LoopInv`) and each task (`TaskInv`) tell about the chunks: a chunk behind the
producer is accounted for, or a task that will say so at the gather still has
it. A failed task counts among those (`Pending`): its exception reaches the
gather, which is why the job is not completed over it.

`FirstAttemptImplements` says that until a retry is committed the parallel loop
is the `RowAccounting` the serial loop implements, with chunks accounted for in
any order. The first attempt resumes after no row, so the abstract checkpoint is
0: the stored one is the column the theorem cannot rely on. How wrong that one can
be is `GapsBounded` (`CheckpointGapsBounded`). Its invariant `GapInv` names the last
chunk `t` that was given a task (`Last(t)`): neither checkpoint nor task is past
it, and fewer than twice the concurrency of chunks below it are missing. When a
chunk is given a task, every chunk before it is accounted for or in flight
(`LoopInv`), and fewer than twice the concurrency are in flight (`RunInv`); from then on the
missing only get fewer (`MissingShrinks`), and a checkpoint lower than `t` has
no more below it. In the run, one below the bound is reached.

`NeverAhead` (`CountersNeverAhead`) is what is left of "counts are deltas" when
two chunks write sums computed from the same row. `CountInv` says that the
counters of the row, and of what each task has read and is about to add to, are
covered (`Covers`) by the chunks stored, given up, or either (`Told`). Those sets
only grow (`ToldGrows`), and a task adds one for a chunk that is not in them yet
(`TaskReports`): a lost delta leaves a counter behind, never ahead.

`ReanalysisProofs`: `TypeCorrect` and `CorrectionsStand`
(`FirmCorrectionsStand`). `IInv` adds that a run in the loop has a list, and
that a firm correction is on nobody's list (`FirmInv`): the candidate query
leaves it out for good, because `Rewritten` keeps its trace.

What a retry skips: `SkipsBounded` (`SkipsBoundedByDepartures`), `CompletedBounded`
(`CompletedBoundedByDepartures`) and `NothingLeftOut` (`RetryLeavesNothingOut`
as long as `departures = 0`). `SkipInv` compares indices with departures: an unprocessed review is on the
candidate list, and of an index into a list, the checkpoint or a run's, the
unprocessed reviews it has passed are at most the departures so far (`Behind`).
A departure moves each of them down by one, which is what the count pays for;
one position holds one review (`Positions`), so an index that advances over a
processed review passes no other. The count is of departures, not of reviews
that have left: a stale rewrite can put a corrected review back on the list, from which it
leaves a second time, and TLC shows at four reviews and two retries that two
unprocessed ones are then skipped on account of one.

`IntakeProofs`, for any requests, texts, file, runs, window and clock, serial and
parallel, with producers that fail alone: `TypeCorrect`, `LinksStand`
(`LinksAgree`), `MintsOnce` (`MintedOnce`), `PromotesOnce` (`PromotedOnce`),
`LinkKept` (`LinksStay`) and `CopiesAreCopies` (`CopiesHaveOriginal`). The
invariant speaks of the `Pool`: the committed reviews and the `Pending` ones, those of the
open chunks and those requests are about to commit. Its ids are unique
(`Unique`), each row fits its decision (`Fits`): a duplicate's ticket is there
and has its text. `Apart` is what the duplicate lookup achieves: a ticket
known when another of its text was minted is a window older; it says nothing of
tickets that were pending then, which is the overlap the properties except.
`RunOnce` is what the shared set achieves: a run decides on a text once,
in whichever chunk. An action adds a row to the pool, commits pending rows, drops
them, or promotes a stored one, and there is one lemma for each about the tables;
what is left for an action are its own ids and sets.

For the copies, `CopyInv` says that a text in a run's set is stored, failed, held by an open
chunk of the run, or undone by it. With the parallel loop that is all; with the
serial one `InOrder` adds that one chunk is at work at a time and none after a
rollback, so that a copy is only committed with its original stored.

`EmailOutboxProofs`, for any tickets, ticks, attempts, limit per tick and faults:
`TypeCorrect`, `SentTruly` (`SentWasAccepted`), `TriesBounded` (`SendsBounded`),
`FinalRowsStay` (`FinalStays`), and `OneBreachMail` (`OneBreachMailPerTicket`) from
the assumption that scans do not overlap (`Scans` has one element at most). `CleanInv` is the core: a row that is not contested is in the
hands of at most one tick, which knows its attempts, and its tries exceed its
attempts by the faults at most, or by one more while a try is not recorded yet.

`TicketsProofs` proves about `Tickets`, for any sets of users (roles may
overlap), any number of requests in progress and a timeline of any length, from
`TicketAssumption` alone: `TypeCorrect` (`TypeOK`, the CHECK constraint
included), `TimersStay` (`TimersFitState`), `TimelineAgrees`
(`TimelineEndsAtState`), `UncancelOnly` (`Spec => CancelledLeavesByUncancel`).
The first three are almost inductive; the last needs what a request in flight
knows of the row it read (`ReqInv`): the row obeyed the CHECK constraint, and
the move was allowed on it. The lemma behind all of them is `MovedRow`: whatever
row a stale request's UPDATE meets, the row it makes is in the requested state
with the timestamp that state needs, and loses a cancellation reason only if the
request reopens a ticket that it had itself read with one. So an UPDATE that
takes a ticket out of cancelled either is refused by the CHECK constraint, or
comes from a request that read the ticket as cancelled and passed the role and
window guards of the uncancel.

`FollowsGraphAlone` (`StateFollowsGraph`) and `TimelineConnected` (each transition
of the timeline starts in the state the one before it ended in) are what the
race of `ticket_race` destroys. They assume `MovesAlone`, that between the read
and the write of a move no other move is in progress; assignments may overlap
with anything. `SeenInv` then says that a moving request's row still has the state it read.

`JobFilesProofs`, for any reports, uploads, retention and number of crashes:
`TypeCorrect`, `ReportsStayDownloadable` (`DownloadableUntilExpiry`), `ReportsAreOwned`
(`GeneratingIsOwned`), `RetryHasItsFile` (`RetryFindsFile`). A report's part of
`IInv` (`Sound`) is that its file is never older than its row while a task or a
completed row promises it; an upload's (`Kept`) is that a list in a sweep's hands still
names every job that needs its file, or the file is young, which is where a
tick not passing during a sweep is used.

`Implements` (`KeepsPromises`) has both directories implement `PromisedFiles`: a file is promised only
once it is there, goes only after the promise is over, and a promise that is over is
not made again. The abstract module has no clock, task or crash; a tick that
expires reports, a deletion, a cancel and a sweep are all its `LetGo`, for the
items they concern together. That a sweep is one is `Sound` and `Kept` again.

Only model-checked: liveness (`Settles`, `EveryMailSettles`, `LateTicketIsReported`,
`StartSweepsStaleFiles`, `ReportSettles`), which is outside what TLAPS can prove. Every
invariant, action property and refinement of a passing run is proved. Only
proved: that `BatchParallel` and `Reanalysis` are well typed, and the theorems above that assume more
than a run does.

## What is left

The parallel loop with retries: a retry that clears the cancel flag of a run
that has dropped chunks, checkpoints with gaps (`parallel_resume` shows one), a
terminal status written over a newer one. Several worker containers, whose
startup recovery fails each other's jobs. The marks of root-cause generation,
the rotation of LLM keys, the Twitter fetch and the briefing tick.

## Not modelled

Classification and parsing (data, not protocol), analytics and insights
(read-only queries), tenants, users, invitations and configuration
(single-transaction CRUD under row-level security), authentication, the briefing tick
(one generation per due schedule, repeated if the tick is overtaken or dies before it
advances the schedule), Twitter fetches (a smaller variant of the job lifecycle), webhooks,
migrations, the web client: most of the code by lines, and most of it without
state that outlives a request. Within the modelled components: two worker
containers (compose deploys one), a change of chunk size between attempts,
rows within a chunk outside `Intake`; comments, listings and the
customer-inbound timestamp of tickets; soft deletion of reviews; what reports
contain.
