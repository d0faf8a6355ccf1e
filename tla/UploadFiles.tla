---------------------------- MODULE UploadFiles ----------------------------
(***************************************************************************)
(* The files of upload jobs: the upload request writes the file, then the  *)
(* row; every attempt of the worker opens it; a retry needs it again; and  *)
(* the sweep of each start removes old files, except those of the jobs a   *)
(* list names that it has read before.                                     *)
(*                                                                         *)
(* The transitions of a job are one step each here: their races are the    *)
(* subject of BatchJob.  RunFails is also a worker that has died.          *)
(***************************************************************************)
EXTENDS Cleanup

CONSTANT Upload

VARIABLES
    job,        \* the status of the job's row
    open,       \* the jobs with a run that has opened the file
    ufile,      \* the uploaded file
    keep,       \* what a sweep has read from the keep list provider
    stopped,    \* the jobs that have been cancelled
    sweep       \* the sweep of this start: to come, or given up

uploadVars == <<job, open, ufile, keep, stopped, sweep>>

JobStatus ==
    {"none", "posting", "refused", "queued", "processing", "completed", "failed", "cancelled"}

UploadInit ==
    /\ job = [u \in Upload |-> "none"]
    /\ open = {}
    /\ ufile = [u \in Upload |-> Absent]
    /\ keep = Absent
    /\ stopped = {}
    /\ sweep = "due"

Set(u, status) == job' = [job EXCEPT ![u] = status]

-----------------------------------------------------------------------------
(* The upload request.                                                     *)

Receive(u) ==
    /\ job[u] = "none"
    /\ Set(u, "posting")
    /\ ufile' = [ufile EXCEPT ![u] = 0]
    /\ UNCHANGED <<open, keep, stopped, sweep>>

\* A file that fails a check is removed; a database error leaves it behind.
Refuse(u) ==
    /\ job[u] = "posting"
    /\ Set(u, "refused")
    /\ \/ ufile' = [ufile EXCEPT ![u] = Absent]
       \/ UNCHANGED ufile
    /\ UNCHANGED <<open, keep, stopped, sweep>>

Accept(u) ==
    /\ job[u] = "posting"
    /\ Set(u, "queued")
    /\ UNCHANGED <<open, ufile, keep, stopped, sweep>>

Cancel(u) ==
    /\ job[u] \in {"queued", "processing"}
    /\ Set(u, "cancelled")
    /\ stopped' = stopped \cup {u}
    /\ UNCHANGED <<open, ufile, keep, sweep>>

Retry(u) ==
    /\ job[u] \in {"failed", "cancelled"}
    /\ Set(u, "queued")
    /\ UNCHANGED <<open, ufile, keep, stopped, sweep>>

-----------------------------------------------------------------------------
(* A run of the worker.                                                    *)

\* It waits for the tenant's lock, which an earlier run may hold.
Start(u) ==
    /\ job[u] = "queued" /\ u \notin open
    /\ Set(u, "processing")
    /\ UNCHANGED <<open, ufile, keep, stopped, sweep>>

Open(u) ==
    /\ job[u] = "processing" /\ ufile[u] # Absent
    /\ u \notin open
    /\ open' = open \cup {u}
    /\ UNCHANGED <<job, ufile, keep, stopped, sweep>>

\* "upload file missing"
Missing(u) ==
    /\ job[u] = "processing" /\ ufile[u] = Absent
    /\ u \notin open
    /\ Set(u, "failed")
    /\ UNCHANGED <<open, ufile, keep, stopped, sweep>>

\* A job that was cancelled and retried under its run is completed all the same.
Complete(u) ==
    /\ job[u] \in {"queued", "processing"} /\ u \in open
    /\ Set(u, "completed")
    /\ open' = open \ {u}
    /\ UNCHANGED <<ufile, keep, stopped, sweep>>

RunFails(u) ==
    /\ job[u] = "processing" \/ (job[u] = "queued" /\ u \in open)
    /\ Set(u, "failed")
    /\ open' = open \ {u}
    /\ UNCHANGED <<ufile, keep, stopped, sweep>>

\* A run finds its job cancelled, or its process is gone.
Leave(u) ==
    /\ u \in open /\ job[u] # "processing"
    /\ open' = open \ {u}
    /\ UNCHANGED <<job, ufile, keep, stopped, sweep>>

-----------------------------------------------------------------------------
(* The sweep, once after each start: the keep list is read, its session    *)
(* closes, and the files are walked without a pause.                       *)

\* Mutant: the list before the incident of 2026-08-19.
ListKeptRunning ==
    /\ sweep = "due" /\ keep = Absent
    /\ keep' = {u \in Upload : job[u] \in {"queued", "processing"}}
    /\ UNCHANGED <<job, open, ufile, stopped, sweep>>

ListKept ==
    /\ sweep = "due" /\ keep = Absent
    /\ keep' = {u \in Upload : job[u] \in {"queued", "processing", "failed"}}
    /\ UNCHANGED <<job, open, ufile, stopped, sweep>>

\* The list cannot be read: nothing is swept, and nothing sweeps later.
ListFails ==
    /\ sweep = "due" /\ keep = Absent
    /\ sweep' = "missed"
    /\ UNCHANGED <<job, open, ufile, keep, stopped>>

ReapUploads ==
    /\ keep # Absent
    /\ ufile' = [u \in Upload |-> IF u \in keep THEN ufile[u] ELSE Reaped(ufile[u])]
    /\ keep' = Absent
    /\ sweep' = "none"
    /\ UNCHANGED <<job, open, stopped>>

\* The API dies: an upload under way has left its file, a sweep its list.
UploadCrash ==
    /\ job' = [u \in Upload |-> IF job[u] = "posting" THEN "refused" ELSE job[u]]
    /\ keep' = Absent
    /\ sweep' = "none"
    /\ UNCHANGED <<open, ufile, stopped>>

\* The start schedules its sweep.
UploadRestart ==
    /\ sweep' = "due"
    /\ UNCHANGED <<job, open, ufile, keep, stopped>>

UploadTick ==
    /\ ufile' = [u \in Upload |-> Aged(ufile[u])]
    /\ UNCHANGED <<job, open, keep, stopped, sweep>>

RequestStep ==
    \/ \E u \in Upload :
           Receive(u) \/ Refuse(u) \/ Accept(u) \/ Cancel(u) \/ Retry(u)
    \/ ListKept \/ ListFails
    \/ ReapUploads

RunStep ==
    \E u \in Upload :
        Start(u) \/ Open(u) \/ Missing(u) \/ Complete(u) \/ RunFails(u) \/ Leave(u)
-----------------------------------------------------------------------------
(* Properties.                                                             *)

UploadTypeOK ==
    /\ job \in [Upload -> JobStatus] /\ ufile \in [Upload -> File]
    /\ open \subseteq Upload /\ stopped \subseteq Upload
    /\ keep \in (SUBSET Upload) \cup {Absent}
    /\ sweep \in {"none", "due", "missed"}

\* "Files of jobs that are not terminal are kept in spite of the retention, or
\* 'Retry' would be left without its file" (_batch_keep_paths): a job that waits,
\* runs or has failed has its file, whatever its age and whenever the list was
\* read.  A job that has once been cancelled is on no list until it is retried,
\* and may find its file gone.
RetryFindsFile ==
    \A u \in Upload \ stopped :
        job[u] \in {"queued", "processing", "failed"} => ufile[u] # Absent
=============================================================================
