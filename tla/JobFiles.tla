------------------------------ MODULE JobFiles ------------------------------
(***************************************************************************)
(* The two directories of the API process together: reports and uploads    *)
(* share the process, whose crash ends requests, tasks and sweeps alike,   *)
(* and the clock that ages files and rows.  The worker of upload jobs is   *)
(* another process and goes on while the API is down.                      *)
(*                                                                         *)
(* A tick is of the order of the retention, hours: an upload request ends  *)
(* within one, and a start's sweep, due after 30 s and dropped when it is  *)
(* an hour late, comes before the next.                                    *)
(***************************************************************************)
EXTENDS Reports, UploadFiles

CONSTANT MaxCrashes     \* bound on the crashes of the API

ASSUME JobFilesAssumption == MaxCrashes \in Nat

VARIABLE crashes

vars == <<reportVars, uploadVars, crashes>>

Init ==
    /\ ReportInit
    /\ UploadInit
    /\ crashes = 0

ReportsMove == ReportStep /\ UNCHANGED <<uploadVars, crashes>>

RequestsMove == api = "up" /\ RequestStep /\ UNCHANGED <<reportVars, crashes>>

RunsMove == RunStep /\ UNCHANGED <<reportVars, crashes>>

Tick ==
    /\ ~reapDue /\ sweep # "due" /\ \A u \in Upload : job[u] # "posting"
    /\ ReportTick /\ UploadTick
    /\ UNCHANGED crashes

Crash ==
    /\ crashes < MaxCrashes
    /\ ReportCrash /\ UploadCrash
    /\ crashes' = crashes + 1

Restart ==
    /\ ReportRestart /\ UploadRestart
    /\ UNCHANGED crashes

Next == ReportsMove \/ RequestsMove \/ RunsMove \/ Tick \/ Crash \/ Restart

Spec == Init /\ [][Next]_vars

\* The scheduler runs what was submitted to it and the one sweep each start
\* schedules, within its grace time of an hour, and a dead process is restarted.
\* Nothing sweeps again while the process is up, and nobody is obliged to ask.
Fairness ==
    /\ \A r \in Report : WF_vars(ReportsMove /\ TaskStep(r))
    /\ WF_vars(ReportsMove /\ ReapReports)
    /\ WF_vars(RequestsMove /\ (ListKept \/ ListFails))
    /\ WF_vars(RequestsMove /\ ReapUploads)
    /\ WF_vars(Restart)

FairSpec == Spec /\ Fairness
-----------------------------------------------------------------------------
(* What the two directories promise.  A report's file is promised while    *)
(* download_report serves it; an upload's while its job may run or be      *)
(* retried, up to the first cancel.                                        *)

ReportPromises == INSTANCE PromisedFiles WITH
    Item     <- Report,
    stored   <- {r \in Report : rfile[r] # Absent},
    promised <- {r \in Report : row[r].status = "completed" /\ ~Past(row[r].age)},
    over     <- {r \in Report : \/ row[r].status \in {"failed", "deleted"}
                                \/ row[r].status # "none" /\ Past(row[r].age)}

UploadPromises == INSTANCE PromisedFiles WITH
    Item     <- Upload,
    stored   <- {u \in Upload : ufile[u] # Absent},
    promised <- {u \in Upload \ stopped : job[u] \in {"queued", "processing", "failed"}},
    over     <- {u \in Upload : u \in stopped \/ job[u] \in {"refused", "completed"}}
-----------------------------------------------------------------------------
(* Properties.                                                             *)

TypeOK == ReportTypeOK /\ UploadTypeOK /\ crashes \in Nat

\* A start cleans up what the previous run of the process left behind
\* (schedule_cleanup): a file past the retention of 24 hours when the API is
\* down is gone after the next start that lives long enough for its sweep, also
\* of reports deleted while they were rendered and of tasks that died after
\* writing; an upload's too, once no job can ask for it again, unless the keep
\* list cannot be read.  Of a file that grows old under a running process
\* nothing is claimed: the daily sweep does not run.
StartSweepsStaleFiles ==
    /\ \A r \in Report :
           api = "down" /\ rfile[r] # Absent /\ Past(rfile[r]) ~> rfile[r] = Absent
    /\ \A u \in Upload :
           api = "down" /\ job[u] \in {"completed", "refused"} /\ ufile[u] # Absent /\ Past(ufile[u])
               ~> ufile[u] = Absent \/ sweep = "missed"

\* A report in progress gets a final status or is deleted, even if the API dies
\* meanwhile, unless the database refuses to record its failure.
ReportSettles ==
    \A r \in Report :
        (row[r].status = "generating")
            ~> (row[r].status # "generating" \/ r \in unrecorded)

\* The directories keep their promises whatever ages, crashes, is deleted or
\* swept: a row offers its file once, with the file there, and until the row
\* itself ends the offer; nothing that has expired, failed, been deleted or
\* completed comes back (generate_report_job, delete_report, cleanup.py).
KeepsPromises == ReportPromises!Spec /\ UploadPromises!Spec
=============================================================================
