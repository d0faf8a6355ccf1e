------------------------------ MODULE BatchJob ------------------------------
(***************************************************************************)
(* One upload job: its row in analyze_batch_jobs, the API requests that    *)
(* cancel and retry it, its dispatch (arq queue, or the API process's own  *)
(* scheduler when Redis refuses the enqueue), and the part of a worker run *)
(* that does not depend on how chunks are driven: taking the tenant lock,  *)
(* claiming the row, completing or failing it, dying, and recovering after *)
(* a restart.  BatchSerial and BatchParallel EXTEND it with the two chunk  *)
(* loops of _run_job.                                                      *)
(*                                                                         *)
(* Every service call is session.get followed by a flush of the changed    *)
(* columns in one READ COMMITTED transaction with no row lock, so each is  *)
(* two steps here: a read that keeps the row it saw, and a write that      *)
(* stores values computed from it.  The unit of data is a chunk of rows.   *)
(***************************************************************************)
EXTENDS Integers, FiniteSets

CONSTANTS
    NChunks,        \* chunks of the uploaded file
    MaxAttempt,     \* bound on retry_count
    Users,          \* concurrent API requests
    InProc,         \* the run dispatched to the API process's scheduler
    MaxJobs,        \* WorkerSettings.max_jobs
    Crashers,       \* processes that may crash
    RedisMayFail,   \* whether enqueue_job may raise
    StallsHappen,   \* whether a run may end leaving the row as it is (Stall)
    RecoveryMayFail,\* whether the recovery's mark_failed may raise
    Kind,           \* which job it is: an upload's, or a re-analysis
    MaxFaults       \* bound on crashes, exceptions and stalls together

ASSUME BatchAssumption ==
    /\ NChunks \in Nat \ {0}
    /\ MaxAttempt \in Nat
    /\ MaxFaults \in Nat
    /\ InProc \notin Int
    /\ {RedisMayFail, StallsHappen, RecoveryMayFail} \subseteq BOOLEAN
    /\ Kind \in {"upload", "reanalysis"}

VARIABLES
    job,        \* the committed row
    arq,        \* arq's record of each attempt's task id
    sched,      \* a date-trigger for the job sits in the API's scheduler
    up,         \* what each process is doing
    run,        \* the coroutine process_batch_job of each dispatch
    req,        \* the API requests
    faults      \* crashes, exceptions and stalls so far (bounded)

jobVars == <<job, arq, sched, up, run, req, faults>>

Attempts == 0..MaxAttempt
Runs     == Attempts \cup {InProc}
Procs    == {"worker", "api"}
Chunks   == 1..NChunks

Status   == {"queued", "processing", "completed", "failed", "cancelled"}
Progress == [ckpt : 0..NChunks, processed : Nat, succeeded : Nat, failed : Nat]
Row      == [status : Status, retries : Attempts, progress : Progress]

Request  == [pc : {"idle", "cancel", "unschedule", "retry", "dispatch"},
             attempt : Attempts]

NoProgress == [ckpt |-> 0, processed |-> 0, succeeded |-> 0, failed |-> 0]

\* The row create_job commits.
NewRow == [status |-> "queued", retries |-> 0, progress |-> NoProgress]

\* A run keeps the chunk it is at, that chunk's outcome, and the columns it
\* has read for a pending write; a request keeps its attempt number.
RunAt(pc, c) == [pc |-> pc, next |-> c, ok |-> TRUE, seen |-> NoProgress]
NoRun == RunAt("idle", 0)
NoReq == [pc |-> "idle", attempt |-> 0]

Proc(r) == IF r = InProc THEN "api" ELSE "worker"

\* Mutant: process_batch_job without its locks.
LockFreeAlways(p) == TRUE

\* process_batch_job holds the tenant's lock from before its first read of
\* the row until it returns; the lock lives in the process's memory.
Holding(r)  == run[r].pc \notin {"idle", "wait"}
LockFree(p) == \A q \in Runs : Proc(q) = p => ~Holding(q)

\* arq keeps the result of a finished task, so its id is not reused.
Returned(r) == IF r \in Attempts THEN [arq EXCEPT ![r] = "done"] ELSE arq

Goto(r, pc) == run' = [run EXCEPT ![r].pc = pc]

\* process_batch_job returns and both locks are released.
Return(r) == run' = [run EXCEPT ![r] = NoRun] /\ arq' = Returned(r)

\* Mutant: the resume filter is off by one past a checkpoint.
ResumeAtSkipping(row) == row.progress.ckpt + (IF row.progress.ckpt > 0 THEN 2 ELSE 1)

\* The chunk loop of _run_job starts at the row after the checkpoint.
ResumeAt(row) == row.progress.ckpt + 1

Fault == faults < MaxFaults /\ faults' = faults + 1

JobInit ==
    /\ job = NewRow
    /\ arq = [a \in Attempts |-> "none"]
    /\ sched = FALSE
    /\ up = [p \in Procs |-> "up"]
    /\ run = [r \in Runs |-> NoRun]
    /\ faults = 0
    \* the upload request has committed the row and not yet dispatched it
    /\ \E u \in Users :
        req = [v \in Users |-> [pc |-> IF v = u THEN "dispatch" ELSE "idle",
                                attempt |-> 0]]

-----------------------------------------------------------------------------
(* The API: DELETE /{job_id}, POST /{job_id}/retry, enqueue_batch_job.     *)

CancelRead(u) ==
    /\ req[u].pc = "idle"
    /\ job.status \in {"queued", "processing"}
    /\ req' = [req EXCEPT ![u].pc = "cancel"]
    /\ UNCHANGED <<job, arq, sched, up, run, faults>>

CancelWrite(u) ==
    /\ req[u].pc = "cancel"
    /\ job' = [job EXCEPT !.status = "cancelled"]
    /\ req' = [req EXCEPT ![u].pc = "unschedule"]
    /\ UNCHANGED <<arq, sched, up, run, faults>>

\* The route removes the trigger batch-{id}; a re-analysis was scheduled as
\* reanalyze-{id} and stays.
Unschedule(u) ==
    /\ req[u].pc = "unschedule"
    /\ sched' = (sched /\ Kind = "reanalysis")
    /\ req' = [req EXCEPT ![u] = NoReq]
    /\ UNCHANGED <<job, arq, up, run, faults>>

RetryRead(u) ==
    /\ req[u].pc = "idle"
    /\ job.status \in {"failed", "cancelled"}
    /\ job.retries < MaxAttempt
    /\ req' = [req EXCEPT ![u] = [pc |-> "retry", attempt |-> job.retries + 1]]
    /\ UNCHANGED <<job, arq, sched, up, run, faults>>

RetryWrite(u) ==
    /\ req[u].pc = "retry"
    /\ job' = [job EXCEPT !.status = "queued", !.retries = req[u].attempt]
    /\ req' = [req EXCEPT ![u].pc = "dispatch"]
    /\ UNCHANGED <<arq, sched, up, run, faults>>

\* Mutant: every attempt of a job reuses one arq task id.
TaskIdPerJob(attempt) == 0

\* The arq task id of a dispatch: batch:{id}, or batch:{id}:r{n} for retry n.
TaskId(attempt) == attempt

\* arq drops an enqueue whose task id it still knows (enqueue_job is None);
\* the API then returns without falling back to its own scheduler.
Dispatch(u) ==
    /\ req[u].pc = "dispatch"
    /\ LET id == TaskId(req[u].attempt)
       IN  arq' = IF arq[id] = "none" THEN [arq EXCEPT ![id] = "queued"] ELSE arq
    /\ req' = [req EXCEPT ![u] = NoReq]
    /\ UNCHANGED <<job, sched, up, run, faults>>

\* enqueue_job raised (having reached Redis or not): run it in the API process.
DispatchInProcess(u) ==
    /\ RedisMayFail
    /\ req[u].pc = "dispatch"
    /\ sched' = TRUE
    /\ LET id == TaskId(req[u].attempt)
       IN  arq' \in {arq, [arq EXCEPT ![id] = IF @ = "none" THEN "queued" ELSE @]}
    /\ req' = [req EXCEPT ![u] = NoReq]
    /\ UNCHANGED <<job, up, run, faults>>

-----------------------------------------------------------------------------
(* Delivery: a dispatch becomes a coroutine waiting for its locks.         *)

Deliver(a) ==
    /\ up["worker"] = "up"
    /\ arq[a] = "queued"
    /\ run[a].pc = "idle"
    /\ Cardinality({b \in Attempts : run[b].pc # "idle"}) < MaxJobs
    /\ Goto(a, "wait")
    /\ UNCHANGED <<job, arq, sched, up, req, faults>>

FireInProcess ==
    /\ sched /\ up["api"] = "up"
    /\ sched' = FALSE
    /\ run[InProc].pc = "idle" /\ Goto(InProc, "wait")
    /\ UNCHANGED <<job, arq, up, req, faults>>

\* max_instances = 1: a trigger that fires while the job's previous
\* coroutine still runs is skipped.
SkipInProcess ==
    /\ sched /\ up["api"] = "up"
    /\ run[InProc].pc # "idle"
    /\ sched' = FALSE
    /\ UNCHANGED <<job, arq, up, run, req, faults>>

-----------------------------------------------------------------------------
(* A run's own transitions of the row.                                     *)

\* mark_processing reads the row under the locks.  A row that is no longer
\* queued comes back untouched, and one already in processing is run.
StartRead(r) ==
    /\ run[r].pc = "wait"
    /\ LockFree(Proc(r))
    /\ \/ /\ job.status \in {"queued", "processing"}
          /\ run' = [run EXCEPT ![r].pc = IF job.status = "queued" THEN "start" ELSE "loop",
                                ![r].next = ResumeAt(job)]
          /\ UNCHANGED arq
       \/ job.status \notin {"queued", "processing"} /\ Return(r)
    /\ UNCHANGED <<job, sched, up, req, faults>>

StartWrite(r) ==
    /\ run[r].pc = "start"
    /\ job' = [job EXCEPT !.status = "processing"]
    /\ Goto(r, "loop")
    /\ UNCHANGED <<arq, sched, up, req, faults>>

\* mark_completed.
CompleteRead(r) ==
    /\ run[r].pc = "complete"
    /\ \/ job.status \in {"completed", "failed", "cancelled"} /\ Return(r)
       \/ job.status \in {"queued", "processing"}
          /\ Goto(r, "completing") /\ UNCHANGED arq
    /\ UNCHANGED <<job, sched, up, req, faults>>

CompleteWrite(r) ==
    /\ run[r].pc = "completing"
    /\ job' = [job EXCEPT !.status = "completed"]
    /\ Return(r)
    /\ UNCHANGED <<sched, up, req, faults>>

\* _record_catastrophic_failure, mark_failed.
FailRead(r) ==
    /\ run[r].pc = "fail"
    /\ \/ job.status \in {"completed", "cancelled"} /\ Return(r)
       \/ job.status \notin {"completed", "cancelled"}
          /\ Goto(r, "failing") /\ UNCHANGED arq
    /\ UNCHANGED <<job, sched, up, req, faults>>

FailWrite(r) ==
    /\ run[r].pc = "failing"
    /\ job' = [job EXCEPT !.status = "failed"]
    /\ Return(r)
    /\ UNCHANGED <<sched, up, req, faults>>

-----------------------------------------------------------------------------
(* Faults of a run, and of a process.                                      *)

\* An exception leaves _run_job (setup, database, BertFallbackDisabled);
\* its open transaction rolls back.
Abort(r) ==
    /\ Holding(r) /\ run[r].pc \notin {"fail", "failing"}
    /\ Fault
    /\ Goto(r, "fail")
    /\ UNCHANGED <<job, arq, sched, up, req>>

\* The run ends and leaves the row as it is: the query for the tenant, before
\* the locks and the try, raised; or mark_failed itself raised and was logged;
\* or arq's job_timeout cancelled the task (a CancelledError passes the
\* "except Exception" of process_batch_job).  arq does not run it again.
Stall(r) ==
    /\ StallsHappen
    /\ \/ run[r].pc \in {"wait", "fail", "failing"}
       \/ r \in Attempts /\ run[r].pc # "idle"
    /\ Fault
    /\ Return(r)
    /\ UNCHANGED <<job, sched, up, req>>

\* The process dies: its coroutines and locks vanish, and with the API its
\* scheduler and requests.  arq keeps what was not finished.
Crash(p) ==
    /\ p \in Crashers /\ up[p] # "down"
    /\ Fault
    /\ up' = [up EXCEPT ![p] = "down"]
    /\ run' = [r \in Runs |-> IF Proc(r) = p THEN NoRun ELSE run[r]]
    /\ sched' = (sched /\ p # "api")
    /\ req' = IF p = "api" THEN [u \in Users |-> NoReq] ELSE req
    /\ UNCHANGED <<job, arq>>

\* Mutant: a restarted worker takes deliveries without recovering orphans.
RestartNoRecovery(p) ==
    /\ up[p] = "down"
    /\ up' = [up EXCEPT ![p] = "up"]
    /\ UNCHANGED <<job, arq, sched, run, req, faults>>

\* With Redis wired only the worker recovers orphans at startup: it lists
\* the rows in processing ...
Restart(p) ==
    /\ up[p] = "down"
    /\ up' = [up EXCEPT ![p] =
                IF p = "worker" /\ job.status = "processing" THEN "recover" ELSE "up"]
    /\ UNCHANGED <<job, arq, sched, run, req, faults>>

\* ... and marks each of them failed, a transaction each.
RecoverRead ==
    /\ up["worker"] = "recover"
    /\ up' = [up EXCEPT !["worker"] =
                IF job.status \in {"completed", "cancelled"} THEN "up" ELSE "recovering"]
    /\ UNCHANGED <<job, arq, sched, run, req, faults>>

RecoverWrite ==
    /\ up["worker"] = "recovering"
    /\ job' = [job EXCEPT !.status = "failed"]
    /\ up' = [up EXCEPT !["worker"] = "up"]
    /\ UNCHANGED <<arq, sched, run, req, faults>>

\* mark_failed raised: it is logged, the row stays in processing, and the
\* worker goes on to its deliveries.
RecoverFails ==
    /\ RecoveryMayFail
    /\ up["worker"] \in {"recover", "recovering"}
    /\ Fault
    /\ up' = [up EXCEPT !["worker"] = "up"]
    /\ UNCHANGED <<job, arq, sched, run, req>>

-----------------------------------------------------------------------------
\* Every step above; what the chunk loops keep of their own is left alone.
JobStep(r) ==
    \/ StartRead(r) \/ StartWrite(r)
    \/ CompleteRead(r) \/ CompleteWrite(r)
    \/ FailRead(r) \/ FailWrite(r)

ApiWrite(u) == CancelWrite(u) \/ Unschedule(u) \/ RetryWrite(u) \/ Dispatch(u)

JobNext ==
    \/ \E u \in Users : CancelRead(u) \/ RetryRead(u) \/ ApiWrite(u) \/ DispatchInProcess(u)
    \/ \E a \in Attempts : Deliver(a)
    \/ FireInProcess \/ SkipInProcess
    \/ \E r \in Runs : JobStep(r) \/ Abort(r) \/ Stall(r)
    \/ \E p \in Procs : Crash(p) \/ Restart(p)
    \/ RecoverRead \/ RecoverWrite \/ RecoverFails

\* Mutants of apply_progress: the checkpoint one row too far, or only moved
\* by chunks without an error; a failed chunk counted as a success too.
ApplyProgressAhead(row, seen, chunk, ok) ==
    [ckpt      |-> IF chunk > seen.ckpt THEN chunk + 1 ELSE row.ckpt,
     processed |-> seen.processed + 1,
     succeeded |-> IF ok THEN seen.succeeded + 1 ELSE row.succeeded,
     failed    |-> IF ok THEN row.failed ELSE seen.failed + 1]

ApplyProgressOnSuccess(row, seen, chunk, ok) ==
    [ckpt      |-> IF ok /\ chunk > seen.ckpt THEN chunk ELSE row.ckpt,
     processed |-> seen.processed + 1,
     succeeded |-> IF ok THEN seen.succeeded + 1 ELSE row.succeeded,
     failed    |-> IF ok THEN row.failed ELSE seen.failed + 1]

ApplyProgressBoth(row, seen, chunk, ok) ==
    [ckpt      |-> IF chunk > seen.ckpt THEN chunk ELSE row.ckpt,
     processed |-> seen.processed + 1,
     succeeded |-> seen.succeeded + 1,
     failed    |-> IF ok THEN row.failed ELSE seen.failed + 1]

\* apply_progress: deltas and the checkpoint are computed from the row as
\* read; a column the deltas leave unchanged is not in the UPDATE.
ApplyProgress(row, seen, chunk, ok) ==
    [ckpt      |-> IF chunk > seen.ckpt THEN chunk ELSE row.ckpt,
     processed |-> seen.processed + 1,
     succeeded |-> IF ok THEN seen.succeeded + 1 ELSE row.succeeded,
     failed    |-> IF ok THEN row.failed ELSE seen.failed + 1]

-----------------------------------------------------------------------------
\* The type of the job's state; pcs are the control points a loop adds.
RunStateOver(pcs) ==
    [pc : {"idle", "wait", "start", "loop", "complete", "completing", "fail", "failing"}
            \cup pcs,
     next : 0..NChunks + 1, ok : BOOLEAN, seen : Progress]

JobTypeOver(pcs) ==
    /\ job \in Row
    /\ arq \in [Attempts -> {"none", "queued", "done"}]
    /\ sched \in BOOLEAN
    /\ up \in [Procs -> {"up", "down", "recover", "recovering"}]
    /\ run \in [Runs -> RunStateOver(pcs)]
    /\ req \in [Users -> Request]
    /\ faults \in 0..MaxFaults
=============================================================================
