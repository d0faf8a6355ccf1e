--------------------------- MODULE JobFilesProofs ---------------------------
(***************************************************************************)
(* Proofs about JobFiles, for any number of reports and uploads, any       *)
(* retention and any number of crashes: its type, that a completed report  *)
(* is there until it expires, that a report in progress has a task, and    *)
(* that a retry finds its file unless the job was cancelled.  Reports and  *)
(* uploads have an invariant each; a step of one leaves the other's alone. *)
(***************************************************************************)
EXTENDS JobFiles, TLAPS

\* What a report's task, its deletion and its ages owe to each other.
Sound(r) ==
    /\ task[r] \in {"posting", "waiting"} => row[r].status \in {"queued", "deleted"}
    /\ deleting[r].pc = "unlink" => row[r].status = "deleted"
    /\ row[r].status = "generating" /\ api = "up" => task[r] # "none" \/ r \in unrecorded
    /\ (row[r].status = "completed" \/ (task[r] = "finishing" /\ row[r].status = "generating"))
           /\ ~Past(row[r].age)
       => rfile[r] # Absent /\ rfile[r] <= row[r].age

ReportInv == ReportTypeOK /\ \A r \in Report : Sound(r)

Active(u) == job[u] \in {"queued", "processing", "failed"}

\* What a sweep under way, whose list may be old, owes to each upload.
Kept(u) ==
    /\ job[u] = "posting" => ufile[u] = 0
    /\ job[u] = "cancelled" => u \in stopped
    /\ Active(u) /\ u \notin stopped => ufile[u] # Absent
    /\ Active(u) /\ u \notin stopped /\ keep # Absent => u \in keep \/ ufile[u] = 0

UploadInv == UploadTypeOK /\ (keep # Absent => sweep = "due") /\ \A u \in Upload : Kept(u)

IInv == ReportInv /\ UploadInv /\ crashes \in Nat

USE CleanupAssumption

-----------------------------------------------------------------------------
(* Ages.                                                                   *)

\* An age that has not passed the retention after a tick grew by one.
LEMMA AgedAge ==
    ASSUME NEW age \in Ages
    PROVE  /\ Aged(age) \in Ages
           /\ ~Past(Aged(age)) => ~Past(age) /\ Aged(age) = age + 1
BY DEF Ages, Aged, Past

\* A tick keeps a file a file, and neither makes one nor removes it.
LEMMA AgedFile ==
    ASSUME NEW file \in File
    PROVE  /\ Aged(file) \in File
           /\ (Aged(file) = Absent) <=> (file = Absent)
<1>1. CASE file = Absent
  BY <1>1 DEF Aged, File
<1>2. CASE file # Absent
  <2>1. file \in Ages
    BY <1>2 DEF File
  <2>2. Aged(file) \in Ages
    BY <2>1, AgedAge
  <2> QED
    BY <1>2, <2>2 DEF Ages, File
<1> QED
  BY <1>1, <1>2

\* The reaper leaves a file or nothing, and whatever is not past the retention.
LEMMA ReapedFile ==
    ASSUME NEW file \in File
    PROVE  /\ Reaped(file) \in File
           /\ file # Absent /\ ~Past(file) => Reaped(file) = file
BY DEF Reaped, File

-----------------------------------------------------------------------------
(* Reports.                                                                *)

\* What SetStatus and SetTask may store.
LEMMA StatusAndTaskTyped ==
    ASSUME ReportTypeOK, NEW r \in Report
    PROVE  /\ \A s \in Status : [row EXCEPT ![r].status = s] \in [Report -> Row]
           /\ \A t \in Task : [task EXCEPT ![r] = t] \in [Report -> Task]
<1>1. ASSUME NEW s \in Status PROVE [row EXCEPT ![r].status = s] \in [Report -> Row]
  <2>1. row \in [Report -> Row] /\ row[r] \in Row
    BY DEF ReportTypeOK
  <2>2. [row[r] EXCEPT !.status = s] \in Row
    BY <2>1 DEF Row
  <2> QED
    BY <2>1, <2>2
<1>2. ASSUME NEW t \in Task PROVE [task EXCEPT ![r] = t] \in [Report -> Task]
  BY DEF ReportTypeOK
<1> QED
  BY <1>1, <1>2

\* A step of one report leaves the invariant of the others alone.
LEMMA OtherReports ==
    ASSUME ReportInv, NEW r \in Report, ReportTypeOK', Sound(r)', api' = api,
           \A s \in Report \ {r} :
               /\ row'[s] = row[s] /\ task'[s] = task[s]
               /\ rfile'[s] = rfile[s] /\ deleting'[s] = deleting[s]
               /\ s \in unrecorded => s \in unrecorded'
    PROVE  ReportInv'
<1>1. ASSUME NEW s \in Report \ {r} PROVE Sound(s)'
  BY <1>1 DEF ReportInv, Sound
<1> QED
  BY <1>1 DEF ReportInv

\* A step of one report's request, task or deletion keeps the invariant.
LEMMA OneReportStep ==
    ASSUME ReportInv, NEW r \in Report,
           \/ Generate(r) \/ Submit(r) \/ TaskStep(r)
           \/ DeleteRead(r) \/ DeleteCommit(r) \/ DeleteUnlink(r)
    PROVE  ReportInv'
<1> USE DEF ReportTypeOK, Row, Status, Task, Delete, SetStatus, SetTask
<1>a. 0 \in Ages /\ 0 \in File /\ Absent \in File
  BY DEF Ages, File
<1>b. /\ ReportTypeOK /\ Sound(r)
      /\ row[r] \in Row /\ row[r].age \in Nat
  BY DEF ReportInv, Ages
<1>1. CASE Generate(r)
  <2>1. ReportTypeOK'
    BY <1>1, <1>a, <1>b DEF Generate
  <2>2. Sound(r)'
    BY <1>1, <1>a, <1>b DEF Generate, Sound, Past
  <2> QED
    BY <1>1, <1>b, <2>1, <2>2, OtherReports DEF Generate
<1>2. CASE Submit(r)
  <2>1. ReportTypeOK'
    BY <1>2, <1>a, <1>b DEF Submit
  <2>2. Sound(r)'
    BY <1>2, <1>a, <1>b DEF Submit, Sound
  <2> QED
    BY <1>2, <1>b, <2>1, <2>2, OtherReports DEF Submit
<1>3. CASE Begin(r)
  <2>1. ReportTypeOK'
    <3>1. row' \in [Report -> Row]
      <4>1. row' = row \/ row' = [row EXCEPT ![r].status = "generating"]
        BY <1>3 DEF Begin
      <4>2. [row EXCEPT ![r].status = "generating"] \in [Report -> Row]
        BY <1>b, StatusAndTaskTyped, Zenon
      <4> QED
        BY <1>b, <4>1, <4>2, Zenon
    <3>2. task' \in [Report -> Task]
      BY <1>3, <1>b, StatusAndTaskTyped DEF Begin
    <3> QED
      BY <1>3, <1>b, <3>1, <3>2 DEF Begin
  <2>2. Sound(r)'
    BY <1>3, <1>a, <1>b DEF Begin, Sound
  <2> QED
    BY <1>3, <1>b, <2>1, <2>2, OtherReports DEF Begin
<1>4. CASE Render(r)
  <2>1. ReportTypeOK'
    <3>1. task' \in [Report -> Task]
      BY <1>4, <1>b, StatusAndTaskTyped DEF Render
    <3>2. rfile' \in [Report -> File]
      BY <1>4, <1>a, <1>b DEF Render
    <3> QED
      BY <1>4, <1>b, <3>1, <3>2 DEF Render
  <2>2. Sound(r)'
    BY <1>4, <1>a, <1>b DEF Render, Sound, Ages
  <2> QED
    BY <1>4, <1>b, <2>1, <2>2, OtherReports DEF Render
<1>5. CASE Finish(r)
  <2>1. ReportTypeOK'
    <3>1. row' \in [Report -> Row]
      <4>1. row' = row \/ row' = [row EXCEPT ![r].status = "completed"]
        BY <1>5 DEF Finish
      <4>2. [row EXCEPT ![r].status = "completed"] \in [Report -> Row]
        BY <1>b, StatusAndTaskTyped, Zenon
      <4> QED
        BY <1>b, <4>1, <4>2, Zenon
    <3>2. task' \in [Report -> Task]
      BY <1>5, <1>b, StatusAndTaskTyped DEF Finish
    <3> QED
      BY <1>5, <1>b, <3>1, <3>2 DEF Finish
  <2>2. Sound(r)'
    BY <1>5, <1>a, <1>b DEF Finish, Sound
  <2> QED
    BY <1>5, <1>b, <2>1, <2>2, OtherReports DEF Finish
<1>6. CASE Fail(r)
  <2>1. ReportTypeOK'
    BY <1>6, <1>a, <1>b DEF Fail
  <2>2. Sound(r)'
    BY <1>6, <1>a, <1>b DEF Fail, Sound
  <2> QED
    BY <1>6, <1>b, <2>1, <2>2, OtherReports DEF Fail
<1>11. CASE LookupFails(r)
  <2>1. ReportTypeOK'
    BY <1>11, <1>a, <1>b DEF LookupFails
  <2>2. Sound(r)'
    BY <1>11, <1>a, <1>b DEF LookupFails, Sound
  <2> QED
    BY <1>11, <1>b, <2>1, <2>2, OtherReports DEF LookupFails
<1>7. CASE FailUnrecorded(r)
  <2>1. ReportTypeOK'
    BY <1>7, <1>a, <1>b DEF FailUnrecorded
  <2>2. Sound(r)'
    BY <1>7, <1>a, <1>b DEF FailUnrecorded, Sound
  <2> QED
    BY <1>7, <1>b, <2>1, <2>2, OtherReports DEF FailUnrecorded
<1>8. CASE DeleteRead(r)
  <2>1. ReportTypeOK'
    BY <1>8, <1>a, <1>b DEF DeleteRead
  <2>2. Sound(r)'
    BY <1>8, <1>a, <1>b DEF DeleteRead, Sound
  <2> QED
    BY <1>8, <1>b, <2>1, <2>2, OtherReports DEF DeleteRead
<1>9. CASE DeleteCommit(r)
  <2>1. ReportTypeOK'
    BY <1>9, <1>a, <1>b DEF DeleteCommit
  <2>2. Sound(r)'
    BY <1>9, <1>a, <1>b DEF DeleteCommit, Sound
  <2> QED
    BY <1>9, <1>b, <2>1, <2>2, OtherReports DEF DeleteCommit
<1>10. CASE DeleteUnlink(r)
  <2>1. ReportTypeOK'
    BY <1>10, <1>a, <1>b DEF DeleteUnlink, NoDelete
  <2>2. Sound(r)'
    BY <1>10, <1>a, <1>b DEF DeleteUnlink, Sound, NoDelete
  <2> QED
    BY <1>10, <1>b, <2>1, <2>2, OtherReports DEF DeleteUnlink
<1> QED
  BY <1>1, <1>2, <1>3, <1>4, <1>5, <1>6, <1>7, <1>8, <1>9, <1>10, <1>11 DEF TaskStep

\* A sweep takes no file of a report that can still be downloaded.
LEMMA ReapReportsStep ==
    ASSUME ReportInv, ReapReports
    PROVE  ReportInv'
<1> USE DEF ReportInv, ReportTypeOK, ReapReports
<1>1. \A r \in Report : rfile'[r] \in File
  BY ReapedFile
<1>2. ReportTypeOK'
  BY <1>1
<1>3. ASSUME NEW r \in Report PROVE Sound(r)'
  <2>1. row[r].age \in Ages
    BY DEF Row
  <2>2. rfile[r] \in File /\ rfile'[r] = Reaped(rfile[r])
    OBVIOUS
  <2>3. ASSUME rfile[r] # Absent, rfile[r] <= row[r].age, ~Past(row[r].age)
        PROVE  rfile'[r] = rfile[r]
    <3>1. ~Past(rfile[r])
      BY <2>1, <2>2, <2>3 DEF Past, Ages, File
    <3> QED
      BY <2>2, <2>3, <3>1, ReapedFile
  <2> QED
    BY <2>3 DEF Sound
<1> QED
  BY <1>2, <1>3

LEMMA ReportTickStep ==
    ASSUME ReportInv, ReportTick
    PROVE  ReportInv'
<1> USE DEF ReportInv, ReportTypeOK, ReportTick
<1>1. ASSUME NEW r \in Report
      PROVE  /\ row'[r] \in Row /\ row'[r].status = row[r].status
             /\ Exists(r) => row'[r].age = Aged(row[r].age)
             /\ rfile'[r] = Aged(rfile[r]) /\ rfile'[r] \in File
  <2>1. row[r] \in Row /\ row[r].age \in Ages /\ rfile[r] \in File
    BY DEF Row
  <2>2. Aged(row[r].age) \in Ages /\ Aged(rfile[r]) \in File
    BY <2>1, AgedAge, AgedFile
  <2> QED
    BY <2>1, <2>2 DEF Row
<1>2. ReportTypeOK'
  BY <1>1
<1>3. ASSUME NEW r \in Report PROVE Sound(r)'
  <2>1. row[r].age \in Ages /\ rfile[r] \in File
    BY DEF Row
  <2>2. ASSUME row[r].status \in {"completed", "generating"}, ~Past(row'[r].age),
               ~Past(row[r].age) => rfile[r] # Absent /\ rfile[r] <= row[r].age
        PROVE  rfile'[r] # Absent /\ rfile'[r] <= row'[r].age
    <3>1. row'[r].age = Aged(row[r].age)
      BY <1>1, <2>2 DEF Exists
    <3>2. ~Past(row[r].age) /\ row'[r].age = row[r].age + 1
      BY <2>1, <2>2, <3>1, AgedAge
    <3>3. rfile[r] \in Ages /\ rfile[r] <= row[r].age
      BY <2>1, <2>2, <3>2 DEF File
    <3>4. rfile'[r] # Absent /\ rfile'[r] = Aged(rfile[r])
      BY <1>1, <2>1, <2>2, <3>2, AgedFile
    <3> QED
      BY <2>1, <3>2, <3>3, <3>4 DEF Aged, Ages
  <2> QED
    BY <1>1, <2>2 DEF Sound
<1> QED
  BY <1>2, <1>3

\* The process ends, and starts again.
LEMMA ReportCrashStep ==
    ASSUME ReportInv, ReportCrash \/ ReportRestart
    PROVE  ReportInv'
<1> USE DEF ReportInv, ReportTypeOK
<1>1. CASE ReportCrash
  BY <1>1 DEF ReportCrash, Sound, NoDelete, Task, Delete
<1>2. CASE ReportRestart
  <2>0. PICK lost \in SUBSET {r \in Report : row[r].status = "generating"} :
           /\ row' = [r \in Report |->
                         IF row[r].status = "generating" /\ r \notin lost
                         THEN [row[r] EXCEPT !.status = "failed"] ELSE row[r]]
           /\ unrecorded' = lost
    BY <1>2 DEF ReportRestart
  <2>1. ASSUME NEW r \in Report
        PROVE  /\ row'[r] \in Row /\ row'[r].age = row[r].age
               /\ row'[r].status = "generating" => r \in unrecorded'
               /\ row[r].status # "generating" => row'[r].status = row[r].status
               /\ row[r].status = "generating" => row'[r].status \in {"failed", "generating"}
    BY <2>0 DEF Row, Status
  <2>2. ReportTypeOK'
    BY <1>2, <2>0, <2>1 DEF ReportRestart
  <2>3. ASSUME NEW r \in Report PROVE Sound(r)'
    BY <1>2, <2>1 DEF ReportRestart, Sound
  <2> QED
    BY <2>2, <2>3
<1> QED
  BY <1>1, <1>2

LEMMA ReportKept ==
    ASSUME ReportInv, ReportStep \/ ReportTick \/ ReportCrash \/ ReportRestart
                      \/ UNCHANGED reportVars
    PROVE  ReportInv'
<1>1. CASE UNCHANGED reportVars
  BY <1>1 DEF reportVars, ReportInv, ReportTypeOK, Sound
<1> QED
  BY <1>1, OneReportStep, ReapReportsStep, ReportTickStep, ReportCrashStep DEF ReportStep

-----------------------------------------------------------------------------
(* Uploads.                                                                *)

LEMMA RequestKept ==
    ASSUME UploadInv, RequestStep
    PROVE  UploadInv'
<1> USE DEF UploadInv, UploadTypeOK, JobStatus, Set
<1>a. 0 \in Ages /\ 0 \in File /\ Absent \in File
  BY DEF Ages, File
<1>1. ASSUME NEW u \in Upload,
             Receive(u) \/ Refuse(u) \/ Accept(u) \/ Cancel(u) \/ Retry(u)
      PROVE  UploadInv'
  <2>1. CASE Receive(u)
    BY <2>1, <1>a DEF Receive, Kept, Active
  <2>2. CASE Refuse(u)
    BY <2>2, <1>a DEF Refuse, Kept, Active
  <2>3. CASE Accept(u)
    BY <2>3 DEF Accept, Kept, Active
  <2>4. CASE Cancel(u)
    BY <2>4 DEF Cancel, Kept, Active
  <2>5. CASE Retry(u)
    BY <2>5 DEF Retry, Kept, Active
  <2> QED
    BY <1>1, <2>1, <2>2, <2>3, <2>4, <2>5
<1>2. CASE ListKept \/ ListFails
  BY <1>2 DEF ListKept, ListFails, Kept, Active
<1>3. CASE ReapUploads
  <2>1. \A u \in Upload : ufile'[u] = IF u \in keep THEN ufile[u] ELSE Reaped(ufile[u])
    BY <1>3 DEF ReapUploads
  <2>2. \A u \in Upload : Reaped(ufile[u]) \in File
    BY ReapedFile
  <2>3. UploadTypeOK'
    <3>1. ufile' \in [Upload -> File]
      BY <1>3, <2>1, <2>2 DEF ReapUploads
    <3>2. keep' = Absent /\ sweep' = "none"
      BY <1>3 DEF ReapUploads
    <3> QED
      BY <1>3, <3>1, <3>2 DEF ReapUploads
  <2>4. ASSUME NEW u \in Upload, ufile[u] = 0 PROVE ufile'[u] = 0
    BY <2>1, <2>4 DEF Reaped, Past
  <2>5. ASSUME NEW u \in Upload PROVE Kept(u)'
    BY <1>3, <2>1, <2>4 DEF ReapUploads, Kept, Active
  <2>6. keep' = Absent
    BY <1>3 DEF ReapUploads
  <2> QED
    BY <2>3, <2>5, <2>6
<1> QED
  BY <1>1, <1>2, <1>3 DEF RequestStep

LEMMA RunKept ==
    ASSUME UploadInv, RunStep
    PROVE  UploadInv'
<1> USE DEF UploadInv, UploadTypeOK, JobStatus, Set
<1> PICK u \in Upload :
        Start(u) \/ Open(u) \/ Missing(u) \/ Complete(u) \/ RunFails(u) \/ Leave(u)
  BY DEF RunStep
<1>1. CASE Start(u)
  BY <1>1 DEF Start, Kept, Active
<1>2. CASE Open(u)
  BY <1>2 DEF Open, Kept, Active
<1>3. CASE Missing(u)
  BY <1>3 DEF Missing, Kept, Active
<1>4. CASE Complete(u)
  BY <1>4 DEF Complete, Kept, Active
<1>5. CASE RunFails(u)
  BY <1>5 DEF RunFails, Kept, Active
<1>6. CASE Leave(u)
  BY <1>6 DEF Leave, Kept, Active
<1> QED
  BY <1>1, <1>2, <1>3, <1>4, <1>5, <1>6

LEMMA UploadKept ==
    ASSUME UploadInv,
           \/ RequestStep \/ RunStep \/ UploadCrash \/ UNCHANGED uploadVars
           \/ UploadRestart
           \/ (UploadTick /\ sweep # "due" /\ \A u \in Upload : job[u] # "posting")
    PROVE  UploadInv'
<1>1. CASE UNCHANGED uploadVars
  BY <1>1 DEF uploadVars, UploadInv, UploadTypeOK, Kept, Active
<1>2. CASE UploadCrash
  <2>1. keep' = Absent /\ sweep' = "none"
    BY <1>2 DEF UploadCrash
  <2>2. \A u \in Upload : job[u] \in JobStatus /\ job'[u] \in JobStatus
    BY <1>2 DEF UploadCrash, UploadInv, UploadTypeOK, JobStatus
  <2>3. UploadTypeOK'
    BY <1>2, <2>1, <2>2 DEF UploadCrash, UploadInv, UploadTypeOK
  <2>4. ASSUME NEW u \in Upload PROVE Kept(u)'
    BY <1>2 DEF UploadCrash, UploadInv, UploadTypeOK, Kept, Active
  <2> QED
    BY <2>1, <2>3, <2>4 DEF UploadInv
<1>4. CASE UploadRestart
  BY <1>4 DEF UploadRestart, UploadInv, UploadTypeOK, Kept, Active
<1>3. CASE UploadTick /\ sweep # "due" /\ \A u \in Upload : job[u] # "posting"
  <2>1. \A u \in Upload :
           ufile'[u] \in File /\ ((ufile'[u] = Absent) <=> (ufile[u] = Absent))
    BY <1>3, AgedFile DEF UploadTick, UploadInv, UploadTypeOK
  <2>2. UploadTypeOK'
    BY <1>3, <2>1 DEF UploadTick, UploadInv, UploadTypeOK
  <2>3. ASSUME NEW u \in Upload PROVE Kept(u)'
    BY <1>3, <2>1 DEF UploadTick, UploadInv, Kept, Active
  <2> QED
    BY <1>3, <2>2, <2>3 DEF UploadTick, UploadInv
<1> QED
  BY <1>1, <1>2, <1>3, <1>4, RequestKept, RunKept

-----------------------------------------------------------------------------
(* The two together.                                                       *)

LEMMA InitInv == Init => IInv
<1> SUFFICES ASSUME Init PROVE IInv
  OBVIOUS
<1>1. 0 \in Ages /\ Absent \in File
  BY DEF Ages, File
<1>2. ReportInv
  BY <1>1 DEF Init, ReportInit, ReportInv, ReportTypeOK, Sound, Row, Status, Task, Delete, NoDelete
<1>3. UploadInv
  <2>1. keep \in (SUBSET Upload) \cup {Absent}
    BY DEF Init, UploadInit
  <2>2. UploadTypeOK
    BY <1>1, <2>1 DEF Init, UploadInit, UploadTypeOK, JobStatus
  <2> QED
    BY <2>2 DEF Init, UploadInit, UploadInv, Kept, Active
<1> QED
  BY <1>2, <1>3 DEF Init, IInv

LEMMA NextInv == IInv /\ [Next]_vars => IInv'
<1> SUFFICES ASSUME IInv, [Next]_vars PROVE IInv'
  OBVIOUS
<1> USE JobFilesAssumption DEF IInv
<1>1. CASE ReportsMove
  BY <1>1, ReportKept, UploadKept DEF ReportsMove
<1>2. CASE RequestsMove
  BY <1>2, ReportKept, UploadKept DEF RequestsMove
<1>3. CASE RunsMove
  BY <1>3, ReportKept, UploadKept DEF RunsMove
<1>4. CASE Tick
  BY <1>4, ReportKept, UploadKept DEF Tick
<1>5. CASE Crash
  BY <1>5, ReportKept, UploadKept DEF Crash
<1>6. CASE Restart
  BY <1>6, ReportKept, UploadKept DEF Restart
<1>7. CASE UNCHANGED vars
  BY <1>7, ReportKept, UploadKept DEF vars
<1> QED
  BY <1>1, <1>2, <1>3, <1>4, <1>5, <1>6, <1>7 DEF Next

\* The invariant of the two directories is inductive.
THEOREM Inductive == Spec => []IInv
BY InitInv, NextInv, PTL DEF Spec

\* Reports, uploads, their files and their requests keep their types.
THEOREM TypeCorrect == Spec => []TypeOK
<1>1. IInv => TypeOK
  BY DEF IInv, ReportInv, UploadInv, TypeOK
<1> QED
  BY <1>1, Inductive, PTL

\* For every retention: the two clocks of a report, its row's and its file's,
\* never make the reaper remove what download_report would still serve.
THEOREM ReportsStayDownloadable == Spec => []DownloadableUntilExpiry
<1>1. IInv => DownloadableUntilExpiry
  BY DEF IInv, ReportInv, Sound, DownloadableUntilExpiry
<1> QED
  BY <1>1, Inductive, PTL

\* No crash, deletion or error leaves a report in progress without a task once
\* the process is up again, unless the database refused to record it.
THEOREM ReportsAreOwned == Spec => []GeneratingIsOwned
<1>1. IInv => GeneratingIsOwned
  BY DEF IInv, ReportInv, Sound, GeneratingIsOwned
<1> QED
  BY <1>1, Inductive, PTL

\* However late a sweep comes after the list it reads, it takes no file of a
\* job that waits, runs or has failed and was never cancelled.
THEOREM RetryHasItsFile == Spec => []RetryFindsFile
<1>1. IInv => RetryFindsFile
  BY DEF IInv, UploadInv, Kept, Active, RetryFindsFile
<1> QED
  BY <1>1, Inductive, PTL
-----------------------------------------------------------------------------
(* The promises of the two directories, by item.                           *)

Offered(r) == row[r].status = "completed" /\ ~Past(row[r].age)

Ended(r) == \/ row[r].status \in {"failed", "deleted"}
            \/ row[r].status # "none" /\ Past(row[r].age)

Needed(u) == u \notin stopped /\ Active(u)

Spent(u) == u \in stopped \/ job[u] \in {"refused", "completed"}

\* No report's promise is new, none ends without being over, what is over stays
\* so, and no file is new.
ReportsLetGo ==
    \A r \in Report :
        /\ rfile'[r] # Absent => rfile[r] # Absent
        /\ Offered(r)' => Offered(r)
        /\ Offered(r) => Offered(r)' \/ Ended(r)'
        /\ Ended(r) => Ended(r)'

UploadsLetGo ==
    \A u \in Upload :
        /\ ufile'[u] # Absent => ufile[u] # Absent
        /\ Needed(u)' => Needed(u)
        /\ Needed(u) => Needed(u)' \/ Spent(u)'
        /\ Spent(u) => Spent(u)'

LEMMA ReportsLetGoStep ==
    ASSUME IInv', ReportsLetGo
    PROVE  ReportPromises!Next
<1> PICK ended \in SUBSET Report : ended = {r \in Report : Ended(r)'}
  OBVIOUS
<1> PICK gone \in SUBSET Report : gone = {r \in Report : rfile[r] # Absent /\ rfile'[r] = Absent}
  OBVIOUS
<1>1. ASSUME NEW r \in Report, Offered(r)' PROVE rfile'[r] # Absent /\ ~ Ended(r)'
  BY <1>1 DEF IInv, ReportInv, Sound, Offered, Ended
<1>2. ReportPromises!LetGo(ended, gone)
  BY <1>1 DEF ReportPromises!LetGo, ReportsLetGo, Offered, Ended
<1> QED
  BY <1>2 DEF ReportPromises!Next

LEMMA UploadsLetGoStep ==
    ASSUME IInv', UploadsLetGo
    PROVE  UploadPromises!Next
<1> PICK ended \in SUBSET Upload : ended = {u \in Upload : Spent(u)'}
  OBVIOUS
<1> PICK gone \in SUBSET Upload : gone = {u \in Upload : ufile[u] # Absent /\ ufile'[u] = Absent}
  OBVIOUS
<1>1. ASSUME NEW u \in Upload, Needed(u)' PROVE ufile'[u] # Absent /\ ~ Spent(u)'
  BY <1>1 DEF IInv, UploadInv, Kept, Needed, Spent, Active
<1>2. UploadPromises!LetGo(ended, gone)
  BY <1>1 DEF UploadPromises!LetGo, UploadsLetGo, Needed, Spent, Active
<1> QED
  BY <1>2 DEF UploadPromises!Next

LEMMA InitPromises == Init => ReportPromises!Init /\ UploadPromises!Init
BY DEF Init, ReportInit, UploadInit, ReportPromises!Init, UploadPromises!Init

-----------------------------------------------------------------------------
LEMMA OneReportPromises ==
    ASSUME IInv, IInv', NEW r \in Report,
           \/ Generate(r) \/ Submit(r) \/ TaskStep(r)
           \/ DeleteRead(r) \/ DeleteCommit(r) \/ DeleteUnlink(r)
    PROVE  ReportPromises!Next
<1>0. /\ ReportTypeOK /\ Sound(r) /\ Sound(r)'
      /\ row[r] \in Row
  BY DEF IInv, ReportInv, ReportTypeOK
<1> USE <1>0 DEF ReportTypeOK, Row, SetStatus, SetTask
<1>1. CASE Generate(r)
  BY <1>1, ReportsLetGoStep DEF Generate, ReportsLetGo, Offered, Ended
<1>2. CASE Submit(r) \/ LookupFails(r) \/ FailUnrecorded(r) \/ DeleteRead(r)
  BY <1>2, ReportsLetGoStep
     DEF Submit, LookupFails, FailUnrecorded, DeleteRead, ReportsLetGo, Offered, Ended
<1>3. CASE Begin(r)
  BY <1>3, ReportsLetGoStep DEF Begin, ReportsLetGo, Offered, Ended
<1>4. CASE Render(r)
  <2>1. CASE rfile' = rfile
    BY <1>4, <2>1, ReportsLetGoStep DEF Render, ReportsLetGo, Offered, Ended
  <2>2. CASE rfile' = [rfile EXCEPT ![r] = 0]
    <3>1. row' = row /\ 0 # Absent
      BY <1>4 DEF Render
    <3>2. ReportPromises!Write(r)
      BY <2>2, <3>1 DEF ReportPromises!Write
    <3> QED
      BY <3>2 DEF ReportPromises!Next
  <2> QED
    BY <1>4, <2>1, <2>2 DEF Render
<1>5. CASE Finish(r)
  <2>1. CASE row' = row
    BY <1>5, <2>1, ReportsLetGoStep DEF Finish, ReportsLetGo, Offered, Ended
  <2>2. CASE row[r].status = "generating" /\ row' = [row EXCEPT ![r].status = "completed"]
    <3>1. rfile' = rfile
      BY <1>5 DEF Finish
    <3>2. CASE Past(row[r].age)
      BY <2>2, <3>1, <3>2, ReportsLetGoStep DEF ReportsLetGo, Offered, Ended
    <3>3. CASE ~ Past(row[r].age)
      <4>1. rfile[r] # Absent
        BY <1>5, <2>2, <3>3 DEF Finish, Sound
      <4>2. /\ row'[r].status = "completed" /\ row'[r].age = row[r].age
            /\ \A s \in Report \ {r} : row'[s] = row[s]
        BY <2>2
      <4>3. {s \in Report : row'[s].status = "completed" /\ ~Past(row'[s].age)}
              = {s \in Report : row[s].status = "completed" /\ ~Past(row[s].age)} \cup {r}
        BY <2>2, <3>3, <4>2
      <4>4. ReportPromises!Promise(r)
        <5>1. UNCHANGED {s \in Report : \/ row[s].status \in {"failed", "deleted"}
                                        \/ row[s].status # "none" /\ Past(row[s].age)}
          BY <2>2, <3>3, <4>2
        <5> QED
          BY <2>2, <3>1, <3>3, <4>1, <4>3, <5>1 DEF ReportPromises!Promise
      <4> QED
        BY <4>4 DEF ReportPromises!Next
    <3> QED
      BY <3>2, <3>3
  <2> QED
    BY <1>5, <2>1, <2>2 DEF Finish
<1>6. CASE Fail(r)
  BY <1>6, ReportsLetGoStep DEF Fail, ReportsLetGo, Offered, Ended
<1>7. CASE DeleteCommit(r)
  BY <1>7, ReportsLetGoStep DEF DeleteCommit, ReportsLetGo, Offered, Ended
<1>8. CASE DeleteUnlink(r)
  BY <1>8, ReportsLetGoStep DEF DeleteUnlink, ReportsLetGo, Offered, Ended
<1> QED
  BY <1>1, <1>2, <1>3, <1>4, <1>5, <1>6, <1>7, <1>8 DEF TaskStep

LEMMA ReportPromisesStep ==
    ASSUME IInv, IInv', ReportStep \/ ReportTick \/ ReportCrash \/ ReportRestart
                        \/ UNCHANGED reportVars
    PROVE  [ReportPromises!Next]_(ReportPromises!promiseVars)
<1>0. ReportTypeOK
  BY DEF IInv, ReportInv
<1>1. CASE \E r \in Report :
               \/ Generate(r) \/ Submit(r) \/ TaskStep(r)
               \/ DeleteRead(r) \/ DeleteCommit(r) \/ DeleteUnlink(r)
  BY <1>1, OneReportPromises
<1>2. CASE ReapReports
  <2>1. row' = row /\ \A r \in Report : rfile'[r] # Absent => rfile[r] # Absent
    BY <1>2 DEF ReapReports, Reaped
  <2> QED
    BY <2>1, ReportsLetGoStep DEF ReportsLetGo, Offered, Ended
<1>3. CASE ReportTick
  <2>1. ASSUME NEW r \in Report
        PROVE  /\ row'[r].status = row[r].status
               /\ Past(row[r].age) => Past(row'[r].age)
               /\ rfile'[r] # Absent => rfile[r] # Absent
    <3>1. row[r] \in Row /\ row[r].age \in Ages /\ rfile[r] \in File
      BY <1>0 DEF ReportTypeOK, Row
    <3> QED
      BY <1>3, <3>1, AgedAge, AgedFile DEF ReportTick, Row
  <2>2. ASSUME NEW r \in Report, ~Past(row[r].age), Past(row'[r].age)
        PROVE  Exists(r)
    BY <1>0, <1>3, <2>2 DEF ReportTick
  <2> QED
    BY <2>1, <2>2, ReportsLetGoStep DEF ReportsLetGo, Offered, Ended, Exists
<1>4. CASE ReportCrash
  BY <1>4, ReportsLetGoStep DEF ReportCrash, ReportsLetGo, Offered, Ended
<1>5. CASE ReportRestart
  <2> PICK lost \in SUBSET {r \in Report : row[r].status = "generating"} :
          row' = [r \in Report |->
                     IF row[r].status = "generating" /\ r \notin lost
                     THEN [row[r] EXCEPT !.status = "failed"] ELSE row[r]]
    BY <1>5 DEF ReportRestart
  <2>1. ASSUME NEW r \in Report
        PROVE  /\ row'[r].age = row[r].age
               /\ \/ row'[r].status = row[r].status
                  \/ row[r].status = "generating" /\ row'[r].status = "failed"
    <3>1. row[r] \in Row
      BY <1>0 DEF ReportTypeOK
    <3>2. \/ row'[r] = row[r]
          \/ row[r].status = "generating" /\ row'[r] = [row[r] EXCEPT !.status = "failed"]
      OBVIOUS
    <3> QED
      BY <3>1, <3>2 DEF Row
  <2> QED
    BY <1>5, <2>1, ReportsLetGoStep DEF ReportRestart, ReportsLetGo, Offered, Ended
<1>6. CASE UNCHANGED reportVars
  BY <1>6 DEF reportVars, ReportPromises!promiseVars
<1> QED
  BY <1>1, <1>2, <1>3, <1>4, <1>5, <1>6 DEF ReportStep

LEMMA RequestPromises ==
    ASSUME IInv, IInv', RequestStep
    PROVE  UploadPromises!Next
<1>0. UploadTypeOK /\ \A u \in Upload : Kept(u)
  BY DEF IInv, UploadInv
<1> USE <1>0 DEF UploadTypeOK, Set
<1>1. ASSUME NEW u \in Upload, Receive(u) PROVE UploadPromises!Next
  <2>1. /\ stopped' = stopped /\ ufile' = [ufile EXCEPT ![u] = 0] /\ 0 # Absent
        /\ job' = [job EXCEPT ![u] = "posting"] /\ job[u] = "none"
    BY <1>1 DEF Receive
  <2>2. UploadPromises!Write(u)
    BY <2>1 DEF UploadPromises!Write
  <2> QED
    BY <2>2 DEF UploadPromises!Next
<1>2. ASSUME NEW u \in Upload, Accept(u) PROVE UploadPromises!Next
  <2>1. /\ stopped' = stopped /\ ufile' = ufile /\ ufile[u] = 0 /\ 0 # Absent
        /\ job' = [job EXCEPT ![u] = "queued"] /\ job[u] = "posting"
    BY <1>2 DEF Accept, Kept
  <2>2. CASE u \in stopped
    BY <2>1, <2>2, UploadsLetGoStep DEF UploadsLetGo, Needed, Spent, Active
  <2>3. CASE u \notin stopped
    <3>1. UploadPromises!Promise(u)
      BY <2>1, <2>3 DEF UploadPromises!Promise
    <3> QED
      BY <3>1 DEF UploadPromises!Next
  <2> QED
    BY <2>2, <2>3
<1>3. ASSUME NEW u \in Upload, Refuse(u) PROVE UploadPromises!Next
  BY <1>3, UploadsLetGoStep DEF Refuse, UploadsLetGo, Needed, Spent, Active
<1>4. ASSUME NEW u \in Upload, Cancel(u) PROVE UploadPromises!Next
  BY <1>4, UploadsLetGoStep DEF Cancel, UploadsLetGo, Needed, Spent, Active
<1>5. ASSUME NEW u \in Upload, Retry(u) PROVE UploadPromises!Next
  BY <1>5, UploadsLetGoStep DEF Retry, Kept, UploadsLetGo, Needed, Spent, Active
<1>6. CASE ListKept \/ ListFails
  BY <1>6, UploadsLetGoStep DEF ListKept, ListFails, UploadsLetGo, Needed, Spent, Active
<1>7. CASE ReapUploads
  <2>1. /\ job' = job /\ stopped' = stopped
        /\ \A u \in Upload : ufile'[u] # Absent => ufile[u] # Absent
    BY <1>7 DEF ReapUploads, Reaped
  <2> QED
    BY <2>1, UploadsLetGoStep DEF UploadsLetGo, Needed, Spent, Active
<1> QED
  BY <1>1, <1>2, <1>3, <1>4, <1>5, <1>6, <1>7 DEF RequestStep

LEMMA RunPromises ==
    ASSUME IInv, IInv', RunStep
    PROVE  UploadPromises!Next
<1>0. UploadTypeOK
  BY DEF IInv, UploadInv
<1> USE <1>0 DEF UploadTypeOK, Set
<1> PICK u \in Upload :
        Start(u) \/ Open(u) \/ Missing(u) \/ Complete(u) \/ RunFails(u) \/ Leave(u)
  BY DEF RunStep
<1>1. CASE Start(u) \/ Missing(u) \/ RunFails(u)
  BY <1>1, UploadsLetGoStep DEF Start, Missing, RunFails, UploadsLetGo, Needed, Spent, Active
<1>2. CASE Open(u) \/ Leave(u)
  BY <1>2, UploadsLetGoStep DEF Open, Leave, UploadsLetGo, Needed, Spent, Active
<1>3. CASE Complete(u)
  BY <1>3, UploadsLetGoStep DEF Complete, UploadsLetGo, Needed, Spent, Active
<1> QED
  BY <1>1, <1>2, <1>3

LEMMA UploadPromisesStep ==
    ASSUME IInv, IInv',
           \/ RequestStep \/ RunStep \/ UploadCrash \/ UploadRestart \/ UploadTick
           \/ UNCHANGED uploadVars
    PROVE  [UploadPromises!Next]_(UploadPromises!promiseVars)
<1>0. UploadTypeOK
  BY DEF IInv, UploadInv
<1>1. CASE UploadCrash
  BY <1>0, <1>1, UploadsLetGoStep DEF UploadTypeOK, UploadCrash, UploadsLetGo, Needed, Spent, Active
<1>2. CASE UploadTick
  <2>1. \A u \in Upload : ufile'[u] # Absent => ufile[u] # Absent
    BY <1>0, <1>2, AgedFile DEF UploadTypeOK, UploadTick
  <2> QED
    BY <1>2, <2>1, UploadsLetGoStep DEF UploadTick, UploadsLetGo, Needed, Spent, Active
<1>3. CASE UNCHANGED uploadVars
  BY <1>3 DEF uploadVars, UploadPromises!promiseVars
<1>4. CASE UploadRestart
  BY <1>4 DEF UploadRestart, UploadPromises!promiseVars
<1> QED
  BY <1>1, <1>2, <1>3, <1>4, RequestPromises, RunPromises

LEMMA NextPromises ==
    ASSUME IInv, IInv', [Next]_vars
    PROVE  /\ [ReportPromises!Next]_(ReportPromises!promiseVars)
           /\ [UploadPromises!Next]_(UploadPromises!promiseVars)
<1>1. CASE ReportsMove
  BY <1>1, ReportPromisesStep, UploadPromisesStep DEF ReportsMove
<1>2. CASE RequestsMove
  BY <1>2, ReportPromisesStep, UploadPromisesStep DEF RequestsMove
<1>3. CASE RunsMove
  BY <1>3, ReportPromisesStep, UploadPromisesStep DEF RunsMove
<1>4. CASE Tick
  BY <1>4, ReportPromisesStep, UploadPromisesStep DEF Tick
<1>5. CASE Crash
  BY <1>5, ReportPromisesStep, UploadPromisesStep DEF Crash
<1>6. CASE Restart
  BY <1>6, ReportPromisesStep, UploadPromisesStep DEF Restart
<1>7. CASE UNCHANGED vars
  BY <1>7, ReportPromisesStep, UploadPromisesStep DEF vars
<1> QED
  BY <1>1, <1>2, <1>3, <1>4, <1>5, <1>6, <1>7 DEF Next

\* For any reports, uploads, retention and crashes, the rows, tasks, deletions,
\* requests, runs and sweeps of the two directories implement the promises of
\* PromisedFiles: a file is offered once, with the file there, and it stays until
\* the offer has ended.
THEOREM Implements == Spec => KeepsPromises
BY InitPromises, NextPromises, Inductive, PTL
   DEF Spec, KeepsPromises, ReportPromises!Spec, UploadPromises!Spec
=============================================================================
