---------------------------- MODULE BatchParallel ----------------------------
(***************************************************************************)
(* The parallel chunk loop of the arq worker (_run_chunks_parallel): a     *)
(* producer coroutine creates a task per chunk, at most 2 *                *)
(* ChunkConcurrency of them unfinished, and the tasks take turns on a      *)
(* semaphore of ChunkConcurrency, each on one pipeline of the pool.        *)
(* Progress transactions of several chunks interleave.                     *)
(***************************************************************************)
EXTENDS BatchJob

CONSTANT ChunkConcurrency

ASSUME ParallelAssumption == ChunkConcurrency \in Nat \ {0, 1}

VARIABLES
    task,       \* the task of each chunk of each run
    reviews,    \* how often each chunk's reviews were committed
    errored     \* chunks whose rows were counted as failed

vars == <<jobVars, task, reviews, errored>>
chunkVars == <<task, reviews, errored>>

NoTask  == [pc |-> "none", pipe |-> 0, ok |-> TRUE, seen |-> NoProgress]
NoTasks == [c \in Chunks |-> NoTask]

Init ==
    /\ JobInit
    /\ task = [r \in Attempts |-> NoTasks]
    /\ reviews = [c \in Chunks |-> 0]
    /\ errored = {}

Accounted(c) == reviews[c] > 0 \/ c \in errored

Working  == {"infer", "progress", "commit"}
Finished == {"done", "failed"}

\* The tasks the producer has created and not yet collected.
InFlight(r) == {c \in Chunks : task[r][c].pc \in {"queued"} \cup Working \cup Finished}

Quiet == \A r \in Attempts, c \in Chunks : task[r][c].pc \notin {"queued"} \cup Working

WorkingTasks == {rc \in Attempts \X Chunks : task[rc[1]][rc[2]].pc \in Working}

\* Task cancellation: an open transaction rolls back, a committed one stays.
Cancelled(tasks) ==
    [c \in Chunks |-> IF tasks[c].pc \in {"queued"} \cup Working
                      THEN [NoTask EXCEPT !.pc = "collected"] ELSE tasks[c]]

Collected(tasks) ==
    [c \in Chunks |-> IF tasks[c].pc \in Finished
                      THEN [NoTask EXCEPT !.pc = "collected"] ELSE tasks[c]]

-----------------------------------------------------------------------------
(* The producer.                                                           *)

\* pool[chunk_index % len(pool)], chunk_index counting the run's chunks.
Pipeline(r) == Cardinality({c \in Chunks : task[r][c].pc # "none"}) % ChunkConcurrency

\* Mutant: the threshold is tested before the new task is added.
DrainLate(r) == Cardinality(InFlight(r)) >= 2 * ChunkConcurrency

Drain(r) == Cardinality(InFlight(r)) + 1 >= 2 * ChunkConcurrency

Produce(r) ==
    /\ run[r].pc = "loop" /\ run[r].next \in Chunks
    /\ job.status # "cancelled"
    /\ task' = [task EXCEPT ![r][run[r].next] =
                    [NoTask EXCEPT !.pc = "queued", !.pipe = Pipeline(r)]]
    /\ run' = [run EXCEPT ![r].next = @ + 1, ![r].pc = IF Drain(r) THEN "drain" ELSE "loop"]
    /\ UNCHANGED <<job, arq, sched, up, req, faults, reviews, errored>>

\* The cancel flag is seen: every task in flight is cancelled and awaited.
ProduceCancelled(r) ==
    /\ run[r].pc = "loop" /\ run[r].next \in Chunks
    /\ job.status = "cancelled"
    /\ task' = [task EXCEPT ![r] = Collected(Cancelled(@))]
    /\ Goto(r, "aftercheck")
    /\ UNCHANGED <<job, arq, sched, up, req, faults, reviews, errored>>

\* Mutant: the failed task's siblings are dropped and its exception is too.
DrainGoesOn(r) ==
    /\ run[r].pc = "drain"
    /\ \E c \in Chunks : task[r][c].pc \in Finished
    /\ task' = [task EXCEPT ![r] = IF \E c \in Chunks : @[c].pc = "failed"
                                   THEN Collected(Cancelled(@)) ELSE Collected(@)]
    /\ Goto(r, "loop")
    /\ UNCHANGED <<job, arq, sched, up, req, faults, reviews, errored>>

\* asyncio.wait(FIRST_COMPLETED): one failed task takes the others with it.
DrainTasks(r) ==
    /\ run[r].pc = "drain"
    /\ \E c \in Chunks : task[r][c].pc \in Finished
    /\ IF \E c \in Chunks : task[r][c].pc = "failed"
       THEN /\ task' = [task EXCEPT ![r] = Collected(Cancelled(@))]
            /\ Goto(r, "fail")
       ELSE /\ task' = [task EXCEPT ![r] = Collected(@)]
            /\ Goto(r, "loop")
    /\ UNCHANGED <<job, arq, sched, up, req, faults, reviews, errored>>

LoopEnds(r) ==
    /\ run[r].pc = "loop" /\ run[r].next > NChunks
    /\ Goto(r, "gather")
    /\ UNCHANGED <<job, arq, sched, up, req, faults, chunkVars>>

\* Mutants of the final gather: its exceptions are not looked at; or it
\* returns with the first finished task.
GatherIgnoresErrors(r) ==
    /\ run[r].pc = "gather"
    /\ \A c \in InFlight(r) : task[r][c].pc \in Finished
    /\ Goto(r, "aftercheck")
    /\ task' = [task EXCEPT ![r] = Collected(@)]
    /\ UNCHANGED <<job, arq, sched, up, req, faults, reviews, errored>>

GatherFirst(r) ==
    /\ run[r].pc = "gather"
    /\ InFlight(r) # {} => \E c \in InFlight(r) : task[r][c].pc \in Finished
    /\ Goto(r, IF \E c \in Chunks : task[r][c].pc = "failed" THEN "fail" ELSE "aftercheck")
    /\ task' = [task EXCEPT ![r] = Collected(@)]
    /\ UNCHANGED <<job, arq, sched, up, req, faults, reviews, errored>>

\* gather(return_exceptions=True) waits for every task.
Gather(r) ==
    /\ run[r].pc = "gather"
    /\ \A c \in InFlight(r) : task[r][c].pc \in Finished
    /\ Goto(r, IF \E c \in Chunks : task[r][c].pc = "failed" THEN "fail" ELSE "aftercheck")
    /\ task' = [task EXCEPT ![r] = Collected(@)]
    /\ UNCHANGED <<job, arq, sched, up, req, faults, reviews, errored>>

\* _run_job asks once more before mark_completed.
AfterCheck(r) ==
    /\ run[r].pc = "aftercheck"
    /\ \/ job.status = "cancelled" /\ Return(r)
       \/ job.status # "cancelled" /\ Goto(r, "complete") /\ UNCHANGED arq
    /\ UNCHANGED <<job, sched, up, req, faults, chunkVars>>

-----------------------------------------------------------------------------
(* A chunk task: _bounded_chunk around _process_chunk.                     *)

SetTask(r, c, pc) == task' = [task EXCEPT ![r][c].pc = pc]

\* asyncio.Semaphore is FIFO.  The flag is read inside the semaphore; a
\* cancelled job's chunk returns without a word to the producer.
TaskStart(r, c) ==
    /\ task[r][c].pc = "queued"
    /\ Cardinality(WorkingTasks) < ChunkConcurrency
    /\ \A d \in Chunks : d < c => task[r][d].pc # "queued"
    /\ SetTask(r, c, IF job.status = "cancelled" THEN "done" ELSE "infer")
    /\ UNCHANGED <<jobVars, reviews, errored>>

TaskPersist(r, c) ==
    /\ task[r][c].pc = "infer"
    /\ reviews' = [reviews EXCEPT ![c] = @ + 1]
    /\ SetTask(r, c, "progress")
    /\ UNCHANGED <<jobVars, errored>>

TaskInferenceFails(r, c) ==
    /\ task[r][c].pc = "infer"
    /\ Fault
    /\ task' = [task EXCEPT ![r][c].pc = "progress", ![r][c].ok = FALSE]
    /\ UNCHANGED <<job, arq, sched, up, run, req, reviews, errored>>

TaskProgressRead(r, c) ==
    /\ task[r][c].pc = "progress"
    /\ task' = [task EXCEPT ![r][c].pc = "commit", ![r][c].seen = job.progress]
    /\ UNCHANGED <<jobVars, reviews, errored>>

TaskProgressWrite(r, c) ==
    /\ task[r][c].pc = "commit"
    /\ LET t == task[r][c]
       IN  /\ job' = [job EXCEPT !.progress = ApplyProgress(@, t.seen, c, t.ok)]
           /\ errored' = IF t.ok THEN errored ELSE errored \cup {c}
    /\ task' = [task EXCEPT ![r][c] = [NoTask EXCEPT !.pc = "done"]]
    /\ UNCHANGED <<arq, sched, up, run, req, faults, reviews>>

\* An exception out of _process_chunk; its open transaction rolls back.
TaskAbort(r, c) ==
    /\ task[r][c].pc \in Working
    /\ Fault
    /\ task' = [task EXCEPT ![r][c] = [NoTask EXCEPT !.pc = "failed"]]
    /\ UNCHANGED <<job, arq, sched, up, run, req, reviews, errored>>

TaskStep(r, c) ==
    \/ TaskStart(r, c) \/ TaskPersist(r, c) \/ TaskInferenceFails(r, c)
    \/ TaskProgressRead(r, c) \/ TaskProgressWrite(r, c) \/ TaskAbort(r, c)

-----------------------------------------------------------------------------
(* Faults, with what they do to the tasks.                                 *)

\* An exception in the producer itself (reading the file, the cancel query)
\* leaves its tasks running; while it waits on them only they can raise.
ProducerAbort(r) ==
    /\ run[r].pc \notin {"drain", "gather"}
    /\ Abort(r)
    /\ UNCHANGED chunkVars

\* Cancelling a coroutine inside gather cancels the gathered tasks, inside
\* asyncio.wait or a query it does not.
ProducerStall(r) ==
    /\ Stall(r)
    /\ task' = IF run[r].pc = "gather"
               THEN [task EXCEPT ![r] = Collected(Cancelled(@))] ELSE task
    /\ UNCHANGED <<reviews, errored>>

WorkerCrash ==
    /\ Crash("worker")
    /\ task' = [r \in Attempts |-> NoTasks]
    /\ UNCHANGED <<reviews, errored>>

Next ==
    \/ \E u \in Users :
        (CancelRead(u) \/ RetryRead(u) \/ ApiWrite(u)) /\ UNCHANGED chunkVars
    \/ \E r \in Attempts :
        \/ (Deliver(r) \/ JobStep(r)) /\ UNCHANGED chunkVars
        \/ Produce(r) \/ ProduceCancelled(r) \/ DrainTasks(r) \/ LoopEnds(r)
        \/ Gather(r) \/ AfterCheck(r) \/ ProducerAbort(r) \/ ProducerStall(r)
        \/ \E c \in Chunks : TaskStep(r, c)
    \/ WorkerCrash
    \/ (Restart("worker") \/ RecoverRead \/ RecoverWrite \/ RecoverFails) /\ UNCHANGED chunkVars

Spec == Init /\ [][Next]_vars

-----------------------------------------------------------------------------
(* Properties.                                                             *)

LoopPcs == {"drain", "gather", "aftercheck"}

TypeOK ==
    /\ JobTypeOver(LoopPcs) /\ ~sched
    /\ task \in [Attempts -> [Chunks ->
            [pc : {"none", "queued", "collected"} \cup Working \cup Finished,
             pipe : 0..ChunkConcurrency - 1, ok : BOOLEAN, seen : Progress]]]
    /\ reviews \in [Chunks -> Nat]
    /\ errored \subseteq Chunks

\* "Rows processed up to the checkpoint are permanent, Retry goes on from
\* there" (BertFallbackDisabledError in _process_chunk; retry_job): a failed
\* job's checkpoint, once its tasks are gone, has no unprocessed row below
\* it.  True of the serial
\* loop (BatchSerial, ResumeSkipsNothing).
FailedJobResumable ==
    job.status = "failed" /\ Quiet => \A c \in 1..job.progress.ckpt : Accounted(c)

\* What has been left out below a checkpoint.
MissingBelow(n) == {c \in Chunks : c < n /\ ~ Accounted(c)}

\* How far FailedJobResumable may fail: a first attempt's checkpoint has fewer
\* unprocessed chunks below it than the producer may have in flight, whatever
\* was cancelled, raised, timed out or crashed, so no retry of it leaves out
\* more than that (_run_chunks_parallel, apply_progress).
CheckpointGapsBounded ==
    job.retries = 0 =>
        Cardinality(MissingBelow(job.progress.ckpt)) < 2 * ChunkConcurrency

\* "Counts are deltas" added to the row as it was read (BatchProgress,
\* apply_progress), so parallel chunks may lose each other's.  They never add up
\* to too much: a first attempt reports no more chunks as succeeded, failed or
\* processed than have been stored, given up, or either.
CountersNeverAhead ==
    job.retries = 0 =>
        /\ job.progress.succeeded <= Cardinality({c \in Chunks : reviews[c] > 0})
        /\ job.progress.failed <= Cardinality(errored)
        /\ job.progress.processed <= Cardinality({c \in Chunks : Accounted(c)})

\* A job that completes at its first attempt left no row out: no chunk that
\* a cancelled or failed sibling made the producer drop is missing
\* (_run_chunks_parallel and the check before mark_completed).
FirstAttemptCoversAllRows ==
    job.retries = 0 /\ job.status = "completed" => \A c \in Chunks : Accounted(c)

\* A chunk's reviews are written once by the first attempt, also when arq
\* redelivers the task of a crashed worker (recover_orphans, StartRead): the
\* recovery has failed the row by then.  When its mark_failed raises and is
\* only logged (RecoveryMayFail), the redelivered task resumes a row still in
\* processing, and neither this nor FirstAttemptCoversAllRows holds.
FirstAttemptWritesOnce == job.retries = 0 => \A c \in Chunks : reviews[c] <= 1

\* A job completed at its first attempt is complete: no chunk task is still
\* writing behind it, and its tasks have all been collected.
CompletionIsQuiet ==
    job.retries = 0 /\ job.status = "completed" =>
        \A r \in Attempts : InFlight(r) = {}

\* The parsed rows held in memory are bounded: the producer never has more
\* than twice the concurrency in flight, whatever finished or failed since.
InFlightBounded ==
    \A r \in Attempts : Cardinality(InFlight(r)) <= 2 * ChunkConcurrency

\* "two chunks never share a pipeline at the same time" (_select_pipeline).
PipelinesNotShared ==
    \A x, y \in WorkingTasks :
        x # y => task[x[1]][x[2]].pipe # task[y[1]][y[2]].pipe
=============================================================================
