------------------------------ MODULE Reports ------------------------------
(***************************************************************************)
(* Excel and CSV reports: a request queues a row, a task of the API's own  *)
(* scheduler renders the file, a user downloads it until it expires and    *)
(* may delete it at any time, and a sweep after each start of the process  *)
(* removes old files.                                                      *)
(*                                                                         *)
(* Everything runs in the one API process; a crash loses its tasks, which  *)
(* are kept in memory.  Rendering is synchronous, so nothing else of the   *)
(* process runs meanwhile, but it ends in a file on disk and not yet in    *)
(* the row.  The reports are those of one tenant, whose lock they share.   *)
(***************************************************************************)
EXTENDS Cleanup

CONSTANT Report

VARIABLES
    api,        \* "up" or "down"
    row,        \* the report_jobs row: its status and its age
    task,       \* where the scheduler's task of the report stands
    rfile,      \* the file of the report
    deleting,   \* where a DELETE request stands, and the path it has read
    unrecorded, \* reports whose failure the database refused to record
    reapDue     \* the sweep of this start is still to come

reportVars == <<api, row, task, rfile, deleting, unrecorded, reapDue>>

Status == {"none", "queued", "generating", "completed", "failed", "deleted"}

Row == [status : Status, age : Ages]

\* "posting" is the request between its commit and submit_report_job.
Task == {"none", "posting", "waiting", "rendering", "finishing", "failing"}

Delete == [pc : {"none", "read", "unlink"}, path : BOOLEAN]

NoDelete == [pc |-> "none", path |-> FALSE]

ReportInit ==
    /\ api = "up"
    /\ row = [r \in Report |-> [status |-> "none", age |-> 0]]
    /\ task = [r \in Report |-> "none"]
    /\ rfile = [r \in Report |-> Absent]
    /\ deleting = [r \in Report |-> NoDelete]
    /\ unrecorded = {}
    /\ reapDue = TRUE

Exists(r) == row[r].status \notin {"none", "deleted"}

SetStatus(r, status) == row' = [row EXCEPT ![r].status = status]
SetTask(r, step) == task' = [task EXCEPT ![r] = step]

\* The task of r holds its tenant's lock from its first step to its last.
LockFree(r) ==
    \A s \in Report \ {r} : task[s] \notin {"rendering", "finishing", "failing"}

-----------------------------------------------------------------------------
(* generate_report: the row is committed, then the task is submitted.      *)

Generate(r) ==
    /\ api = "up" /\ row[r].status = "none"
    /\ row' = [row EXCEPT ![r] = [status |-> "queued", age |-> 0]]
    /\ SetTask(r, "posting")
    /\ UNCHANGED <<api, rfile, deleting, unrecorded, reapDue>>

Submit(r) ==
    /\ task[r] = "posting"
    /\ SetTask(r, "waiting")
    /\ UNCHANGED <<api, row, rfile, deleting, unrecorded, reapDue>>

-----------------------------------------------------------------------------
(* generate_report_job.                                                    *)

\* The query for the tenant, before the lock and the try, raises: the task
\* ends, and the row stays queued.
LookupFails(r) ==
    /\ task[r] = "waiting"
    /\ SetTask(r, "none")
    /\ UNCHANGED <<api, row, rfile, deleting, unrecorded, reapDue>>

\* mark_generating, if the row is still there; a database error fails the job.
Begin(r) ==
    /\ task[r] = "waiting" /\ LockFree(r)
    /\ \/ /\ row[r].status = "queued"
          /\ SetStatus(r, "generating") /\ SetTask(r, "rendering")
       \/ /\ row[r].status = "queued"
          /\ SetTask(r, "failing") /\ UNCHANGED row
       \/ /\ row[r].status # "queued"
          /\ SetTask(r, "none") /\ UNCHANGED row
    /\ UNCHANGED <<api, rfile, deleting, unrecorded, reapDue>>

\* The file is written, in whole or in part, or not reached.
Render(r) ==
    /\ task[r] = "rendering"
    /\ \/ SetTask(r, "finishing") /\ rfile' = [rfile EXCEPT ![r] = 0]
       \/ SetTask(r, "failing") /\ rfile' = [rfile EXCEPT ![r] = 0]
       \/ SetTask(r, "failing") /\ UNCHANGED rfile
    /\ UNCHANGED <<api, row, deleting, unrecorded, reapDue>>

\* Mutant: mark_completed does not look at the status of the row.
FinishAnyRow(r) ==
    /\ task[r] = "finishing"
    /\ \/ SetStatus(r, "completed") /\ SetTask(r, "none")
       \/ SetTask(r, "failing") /\ UNCHANGED row
    /\ UNCHANGED <<api, rfile, deleting, unrecorded, reapDue>>

\* mark_completed, which raises when the row has been deleted.
Finish(r) ==
    /\ task[r] = "finishing"
    /\ \/ /\ row[r].status = "generating"
          /\ SetStatus(r, "completed") /\ SetTask(r, "none")
       \/ SetTask(r, "failing") /\ UNCHANGED row
    /\ UNCHANGED <<api, rfile, deleting, unrecorded, reapDue>>

\* _mark_failed: a final status stays, and so does a row that is gone.
Fail(r) ==
    /\ task[r] = "failing"
    /\ SetTask(r, "none")
    /\ row' = [row EXCEPT ![r].status = IF @ \in {"queued", "generating"} THEN "failed" ELSE @]
    /\ UNCHANGED <<api, rfile, deleting, unrecorded, reapDue>>

\* It meets a database error of its own: nothing records the failure.
FailUnrecorded(r) ==
    /\ task[r] = "failing"
    /\ SetTask(r, "none")
    /\ unrecorded' = unrecorded \cup {r}
    /\ UNCHANGED <<api, row, rfile, deleting, reapDue>>

TaskStep(r) ==
    \/ LookupFails(r) \/ Begin(r) \/ Render(r)
    \/ Finish(r) \/ Fail(r) \/ FailUnrecorded(r)

-----------------------------------------------------------------------------
(* delete_report: the row goes in one transaction, the file it had after.  *)

DeleteRead(r) ==
    /\ api = "up" /\ Exists(r) /\ deleting[r].pc = "none"
    /\ deleting' = [deleting EXCEPT ![r] =
                       [pc |-> "read", path |-> row[r].status = "completed"]]
    /\ UNCHANGED <<api, row, task, rfile, unrecorded, reapDue>>

DeleteCommit(r) ==
    /\ deleting[r].pc = "read"
    /\ SetStatus(r, "deleted")
    /\ deleting' = [deleting EXCEPT ![r].pc = "unlink"]
    /\ UNCHANGED <<api, task, rfile, unrecorded, reapDue>>

DeleteUnlink(r) ==
    /\ deleting[r].pc = "unlink"
    /\ rfile' = IF deleting[r].path THEN [rfile EXCEPT ![r] = Absent] ELSE rfile
    /\ deleting' = [deleting EXCEPT ![r] = NoDelete]
    /\ UNCHANGED <<api, row, task, unrecorded, reapDue>>

-----------------------------------------------------------------------------
(* The reaper of the reports directory has no keep list.  schedule_cleanup *)
(* adds its daily job with next_run_time = None, which leaves it paused    *)
(* for good; what runs is the one job it adds for 30 s after the start.    *)

\* Mutant: it goes by the rows, and never meets a file whose row is gone.
ReapListedReports ==
    /\ api = "up" /\ reapDue
    /\ reapDue' = FALSE
    /\ rfile' = [r \in Report |-> IF Exists(r) THEN Reaped(rfile[r]) ELSE rfile[r]]
    /\ UNCHANGED <<api, row, task, deleting, unrecorded>>

ReapReports ==
    /\ api = "up" /\ reapDue
    /\ reapDue' = FALSE
    /\ rfile' = [r \in Report |-> Reaped(rfile[r])]
    /\ UNCHANGED <<api, row, task, deleting, unrecorded>>

\* The process dies: whatever it had in memory is gone.
ReportCrash ==
    /\ api = "up"
    /\ api' = "down"
    /\ task' = [r \in Report |-> "none"]
    /\ deleting' = [r \in Report |-> NoDelete]
    /\ reapDue' = FALSE
    /\ UNCHANGED <<row, rfile, unrecorded>>

\* Mutant: the start of the process does not look for orphans.
ReportRestartOnly ==
    /\ api = "down"
    /\ api' = "up" /\ reapDue' = TRUE
    /\ unrecorded' = {}
    /\ UNCHANGED <<row, task, rfile, deleting>>

\* recover_report_orphans marks the rows it finds in generating failed, before
\* the process takes requests; a mark_failed that raises is logged, and that
\* row is left as it was.  The start schedules its sweep.
ReportRestart ==
    /\ api = "down"
    /\ api' = "up" /\ reapDue' = TRUE
    /\ \E lost \in SUBSET {r \in Report : row[r].status = "generating"} :
           /\ row' = [r \in Report |->
                         IF row[r].status = "generating" /\ r \notin lost
                         THEN [row[r] EXCEPT !.status = "failed"] ELSE row[r]]
           /\ unrecorded' = lost
    /\ UNCHANGED <<task, rfile, deleting>>

ReportTick ==
    /\ row' = [r \in Report |-> IF Exists(r) THEN [row[r] EXCEPT !.age = Aged(@)] ELSE row[r]]
    /\ rfile' = [r \in Report |-> Aged(rfile[r])]
    /\ UNCHANGED <<api, task, deleting, unrecorded, reapDue>>

ReportStep ==
    \/ \E r \in Report :
           \/ Generate(r) \/ Submit(r) \/ TaskStep(r)
           \/ DeleteRead(r) \/ DeleteCommit(r) \/ DeleteUnlink(r)
    \/ ReapReports
-----------------------------------------------------------------------------
(* Properties.                                                             *)

ReportTypeOK ==
    /\ api \in {"up", "down"}
    /\ row \in [Report -> Row] /\ task \in [Report -> Task]
    /\ rfile \in [Report -> File] /\ deleting \in [Report -> Delete]
    /\ unrecorded \subseteq Report /\ reapDue \in BOOLEAN

\* A completed report can be downloaded until it expires: expires_at counts
\* from the request and the reaper's cutoff from the file, which two clocks and
\* two comparisons have to agree on (download_report, reap_stale_uploads).
DownloadableUntilExpiry ==
    \A r \in Report :
        row[r].status = "completed" /\ ~Past(row[r].age) => rfile[r] # Absent

\* "generating: worker holds tenant lock" (models/report_job.py): no report is
\* left in progress by a task that failed, by a deletion that crossed it or by
\* a process that died, except when the database refused to record its failure,
\* at the end of the task or at the start that found it.
GeneratingIsOwned ==
    \A r \in Report :
        row[r].status = "generating" /\ api = "up" => task[r] # "none" \/ r \in unrecorded
=============================================================================
