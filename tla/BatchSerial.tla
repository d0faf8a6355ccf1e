----------------------------- MODULE BatchSerial -----------------------------
(***************************************************************************)
(* The serial chunk loop of _run_job (chunk_concurrency = 1: the API       *)
(* process always, the arq worker when configured so): before each chunk   *)
(* the cancel flag is read, then the chunk is analysed, its reviews are    *)
(* committed in one transaction and its progress in another.               *)
(***************************************************************************)
EXTENDS BatchJob

VARIABLES
    reviews,    \* how often each chunk's reviews were committed
    errored     \* chunks whose rows were counted as failed

vars == <<jobVars, reviews, errored>>

Init ==
    /\ JobInit
    /\ reviews = [c \in Chunks |-> 0]
    /\ errored = {}

Accounted(c) == reviews[c] > 0 \/ c \in errored

\* Mutant: a cancelled job breaks out of the loop and goes on to complete.
NextChunkBreaks(r) ==
    /\ run[r].pc = "loop" /\ run[r].next \in Chunks
    /\ Goto(r, IF job.status = "cancelled" THEN "complete" ELSE "infer")
    /\ UNCHANGED <<job, arq, sched, up, req, faults, reviews, errored>>

\* The next chunk exists: _is_cancelled is asked, and a cancelled job ends.
NextChunk(r) ==
    /\ run[r].pc = "loop" /\ run[r].next \in Chunks
    /\ \/ job.status = "cancelled" /\ Return(r)
       \/ job.status # "cancelled" /\ Goto(r, "infer") /\ UNCHANGED arq
    /\ UNCHANGED <<job, sched, up, req, faults, reviews, errored>>

\* No chunk is left: completion follows with no further look at the flag.
LoopEnds(r) ==
    /\ run[r].pc = "loop" /\ run[r].next > NChunks
    /\ Goto(r, "complete")
    /\ UNCHANGED <<job, arq, sched, up, req, faults, reviews, errored>>

\* _process_chunk: analysis succeeded and the chunk's reviews commit.
Persist(r) ==
    /\ run[r].pc = "infer"
    /\ reviews' = [reviews EXCEPT ![run[r].next] = @ + 1]
    /\ run' = [run EXCEPT ![r].pc = "progress", ![r].ok = TRUE]
    /\ UNCHANGED <<job, arq, sched, up, req, faults, errored>>

\* Analysis raised: the chunk's rows count as failed and the job goes on.
InferenceFails(r) ==
    /\ run[r].pc = "infer"
    /\ run' = [run EXCEPT ![r].pc = "progress", ![r].ok = FALSE]
    /\ UNCHANGED <<job, arq, sched, up, req, faults, reviews, errored>>

\* _commit_progress.
ProgressRead(r) ==
    /\ run[r].pc = "progress"
    /\ run' = [run EXCEPT ![r].pc = "commit", ![r].seen = job.progress]
    /\ UNCHANGED <<job, arq, sched, up, req, faults, reviews, errored>>

ProgressWrite(r) ==
    /\ run[r].pc = "commit"
    /\ LET c == run[r].next
       IN  /\ job' = [job EXCEPT !.progress = ApplyProgress(@, run[r].seen, c, run[r].ok)]
           /\ errored' = IF run[r].ok THEN errored ELSE errored \cup {c}
           /\ run' = [run EXCEPT ![r] = RunAt("loop", c + 1)]
    /\ UNCHANGED <<arq, sched, up, req, faults, reviews>>

ChunkStep(r) ==
    \/ NextChunk(r) \/ LoopEnds(r) \/ Persist(r) \/ InferenceFails(r)
    \/ ProgressRead(r) \/ ProgressWrite(r)

RunStep(r) ==
    \/ JobStep(r) /\ UNCHANGED <<reviews, errored>>
    \/ ChunkStep(r)

Next ==
    \/ JobNext /\ UNCHANGED <<reviews, errored>>
    \/ \E r \in Runs : ChunkStep(r)

Spec == Init /\ [][Next]_vars

\* What the processes get done on their own: a worker takes deliveries and
\* its coroutines advance, a dead process is restarted by its container, and
\* an API request that has begun ends.  Nobody is obliged to cancel or retry.
Fairness ==
    /\ \A r \in Runs : WF_vars(RunStep(r))
    /\ \A a \in Attempts : WF_vars(Deliver(a) /\ UNCHANGED <<reviews, errored>>)
    /\ WF_vars((FireInProcess \/ SkipInProcess) /\ UNCHANGED <<reviews, errored>>)
    /\ \A u \in Users : WF_vars(ApiWrite(u) /\ UNCHANGED <<reviews, errored>>)
    /\ WF_vars(((\E p \in Procs : Restart(p)) \/ RecoverRead \/ RecoverWrite)
                 /\ UNCHANGED <<reviews, errored>>)

FairSpec == Spec /\ Fairness
-----------------------------------------------------------------------------
(* Properties.                                                             *)

LoopPcs == {"infer", "progress", "commit"}

TypeOK ==
    /\ JobTypeOver(LoopPcs)
    /\ reviews \in [Chunks -> Nat]
    /\ errored \subseteq Chunks

\* A completed job left no row out: each was written as a review or counted
\* as failed, whatever was cancelled, retried, crashed or run twice on the
\* way (_run_job, mark_completed, retry_job, recover_orphans).
CompletedCoversAllRows ==
    job.status = "completed" => \A c \in Chunks : Accounted(c)

\* The checkpoint a retry resumes after never passes an unprocessed row
\* (last_checkpoint_row, apply_progress and the resume filter of _run_job).
ResumeSkipsNothing == \A c \in 1..job.progress.ckpt : Accounted(c)

\* With one process and its tenant lock, the row counters count every row
\* up to the checkpoint once, however often the job was resumed, and agree
\* with what was written (apply_progress, retry_job).
CountersMatchCheckpoint ==
    LET p == job.progress
    IN  /\ p.processed = p.ckpt
        /\ p.succeeded + p.failed = p.processed
        /\ Cardinality(errored) = p.failed

\* With one process, an interrupted run leaves reviews of at most one chunk
\* beyond the checkpoint, so a retry repeats the analysis of that chunk only
\* (the reviews and the progress of a chunk commit separately).
ReworkIsOneChunk == \A c \in Chunks : c > job.progress.ckpt + 1 => reviews[c] = 0

\* The serial loop implements RowAccounting: no step takes back an accounted
\* row, stores a checkpoint past one that is not, or completes the job
\* early, in whatever order commits of requests, runs and recovery land
\* (_run_job, apply_progress, mark_completed).
Accounting == INSTANCE RowAccounting WITH
    N          <- NChunks,
    accounted  <- {c \in Chunks : Accounted(c)},
    checkpoint <- job.progress.ckpt,
    completed  <- job.status = "completed"

ImplementsAccounting == Accounting!Spec

\* A job that is queued or processing settles: no dispatch is swallowed by
\* arq's task-id deduplication, no crash leaves it processing for ever, not
\* even when recovery's mark_failed raises, as arq delivers the task again
\* (enqueue_batch_job, recover_orphans).  It does not when a run ends leaving
\* the row as it is (StallsHappen: process_batch_job reads the tenant before
\* its try), when the API dies between the commit and the enqueue (Crashers),
\* or when two requests write over each other's retry (Users).
Settles == job.status \in {"queued", "processing"}
             ~> job.status \in {"completed", "failed", "cancelled"}
=============================================================================
