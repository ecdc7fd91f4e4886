----------------------------- MODULE UpdateDialog -----------------------------
(***************************************************************************)
(* The update dialog of a page                                             *)
(* (src/frontend/src/components/UpdateStatus.tsx): the check and the       *)
(* status asked for when the page loads, starting and cancelling an        *)
(* update, the poll that follows it across the restart of the backend, and *)
(* the acknowledgement that is kept in localStorage.                       *)
(*                                                                         *)
(* The job of the backend (UpdateTransaction has its phases) is here its   *)
(* number and whether it can be cancelled, is committing or has ended.     *)
(* Every request can fail: the backend is stopped and started again while  *)
(* a version is switched.                                                  *)
(***************************************************************************)
EXTENDS Naturals

CONSTANT MaxJobs  \* bound: update jobs

ASSUME DialogAssumption == MaxJobs \in Nat \ {0}

VARIABLES
  job,            \* the last job of the backend
  mount,          \* the requests of the page load: "asked", "read", "settled"
  mountStatus,    \* the status they have brought
  canUpdate, noticeOpen,
  starting,       \* startUpdate: "no", "sent", "made", "refused"
  newJob,         \* the job it has made
  progressOpen,
  updateStatus,
  poll,           \* the poll of the open dialog: "off", "due", "out", "read"
  polled,         \* the status it has read
  ack,            \* UPDATE_ACK_KEY in localStorage; 0 is none
  mine,           \* the job this page has started (history variable)
  kept,           \* the job whose status the page load brought (history variable)
  late,           \* the notice came over a start or an open dialog (history variable)
  cut             \* a status was cut off (history variable)

dialogVars == <<job, mount, mountStatus, canUpdate, noticeOpen, starting, newJob,
                progressOpen, updateStatus, poll, polled, ack, mine, kept, late, cut>>
mountVars == <<mount, mountStatus, kept>>
startVars == <<starting, newJob, mine>>
pollVars == <<poll, polled>>
historyVars == <<late, cut>>

Running == {"cancellable", "committing"}
Ended == {"completed", "failed", "cancelled"}

\* A status is that of a job; before any there is none, and a body that is cut off reads
\* as an object without fields.
JobStatuses == [id : 0..MaxJobs, phase : {"idle"} \cup Running \cup Ended]
NoStatus == [id |-> 0, phase |-> "null"]
CutStatus == [id |-> 0, phase |-> "undefined"]
Status == JobStatuses \cup {NoStatus, CutStatus}
updateFinished == updateStatus.phase \in Ended

DialogInit ==
  /\ job \in {[id |-> 0, phase |-> "idle"]} \cup [id : {1}, phase : Running \cup Ended]
  /\ mount = "asked" /\ mountStatus = NoStatus /\ kept = 0
  /\ canUpdate = FALSE /\ noticeOpen = FALSE
  /\ starting = "no" /\ newJob = 0 /\ mine = 0
  /\ progressOpen = FALSE /\ updateStatus = NoStatus
  /\ poll = "off" /\ polled = NoStatus
  /\ ack = 0 /\ late = FALSE /\ cut = FALSE

-----------------------------------------------------------------------------
(* The backend, as the page sees it *)

JobMoves ==
  /\ \/ job.phase = "cancellable" /\ job' = [job EXCEPT !.phase = "committing"]
     \/ job.phase \in Running /\ job' = [job EXCEPT !.phase = "failed"]
     \/ job.phase = "committing" /\ job' = [job EXCEPT !.phase = "completed"]
  /\ UNCHANGED <<mountVars, canUpdate, noticeOpen, startVars, progressOpen,
                 updateStatus, pollVars, ack, historyVars>>

-----------------------------------------------------------------------------
(* The page load *)

Openness(open) ==
  /\ progressOpen' = open
  \* the poll belongs to the open dialog: it starts when it opens, and only then
  /\ poll' = IF ~open THEN "off" ELSE IF progressOpen THEN poll ELSE "due"
  /\ polled' = IF open THEN polled ELSE NoStatus

MountRead ==
  /\ mount = "asked" /\ mount' = "read"
  /\ \/ mountStatus' = job /\ UNCHANGED cut
     \/ mountStatus' = NoStatus /\ UNCHANGED cut
     \/ mountStatus' = CutStatus /\ cut' = TRUE
  /\ UNCHANGED <<job, kept, canUpdate, noticeOpen, startVars, progressOpen,
                 updateStatus, pollVars, ack, late>>

Busy == progressOpen \/ starting # "no"

\* applyCheckResult: whether there is an update that can be installed, and a notice.  Bound:
\* one that is late is the last one before the page loads again.
applyCheckResult ==
  /\ ~late
  /\ canUpdate' \in BOOLEAN
  /\ noticeOpen' \in {noticeOpen, TRUE}
  /\ late' = (late \/ Busy)

\* Slip: only a job that runs is taken up again.
MountSettlesRunning ==
  /\ mount = "read" /\ mount' = "settled" /\ mountStatus' = NoStatus
  /\ kept' = mountStatus.id
  /\ applyCheckResult
  /\ IF mountStatus.phase \in Running
     THEN /\ updateStatus' = mountStatus /\ Openness(TRUE)
     ELSE UNCHANGED <<updateStatus, progressOpen, pollVars>>
  /\ UNCHANGED <<job, startVars, ack, cut>>

\* When both requests are over: a job that runs, or that ended and was not acknowledged.
MountSettles ==
  /\ mount = "read" /\ mount' = "settled" /\ mountStatus' = NoStatus
  /\ kept' = mountStatus.id
  /\ LET acknowledged == mountStatus.id = 0 \/ mountStatus.id = ack \/ mountStatus.phase = "idle"
         takenUp == mountStatus.phase \in Running \/ ~acknowledged
     IN  /\ canUpdate' \in BOOLEAN
         /\ IF takenUp
            THEN updateStatus' = mountStatus /\ noticeOpen' = FALSE /\ Openness(TRUE)
            ELSE /\ noticeOpen' \in {noticeOpen, TRUE}
                 /\ UNCHANGED <<updateStatus, progressOpen, pollVars>>
  /\ late' = (late \/ Busy)
  /\ UNCHANGED <<job, startVars, ack, cut>>

\* onCheckUpdate, when its answer is there.
onCheckUpdate ==
  /\ applyCheckResult
  /\ UNCHANGED <<job, mountVars, startVars, progressOpen, updateStatus, pollVars,
                 ack, cut>>

-----------------------------------------------------------------------------
(* Starting, following and cancelling *)

\* The button, or the notice over whatever is open.  A second start next to one that is
\* pending is left out.
UpdateOffered == canUpdate /\ starting = "no" /\ (noticeOpen \/ ~progressOpen)

onUpdate ==
  /\ UpdateOffered
  /\ starting' = "sent" /\ noticeOpen' = FALSE /\ updateStatus' = NoStatus
  /\ UNCHANGED <<job, mountVars, canUpdate, newJob, mine, progressOpen, pollVars,
                 ack, historyVars>>

\* The backend makes one job at a time.
StartHandled ==
  /\ starting = "sent"
  /\ IF job.phase \in Running \/ job.id = MaxJobs
     THEN starting' = "refused" /\ UNCHANGED <<job, newJob>>
     ELSE /\ job' = [id |-> job.id + 1, phase |-> "cancellable"]
          /\ starting' = "made" /\ newJob' = job.id + 1
  /\ UNCHANGED <<mountVars, canUpdate, noticeOpen, mine, progressOpen, updateStatus,
                 pollVars, ack, historyVars>>

StartAnswered ==
  /\ starting = "made" /\ starting' = "no" /\ mine' = newJob /\ newJob' = 0
  /\ ack' = 0
  /\ updateStatus' = [id |-> newJob, phase |-> "cancellable"] /\ Openness(TRUE)
  /\ UNCHANGED <<job, mountVars, canUpdate, noticeOpen, historyVars>>

StartFailed ==
  /\ starting # "no" /\ starting' = "no" /\ newJob' = 0 /\ Openness(FALSE)
  /\ UNCHANGED <<job, mountVars, canUpdate, noticeOpen, mine, updateStatus,
                 ack, historyVars>>

PollSent ==
  /\ poll = "due" /\ poll' = "out"
  /\ UNCHANGED <<job, mountVars, canUpdate, noticeOpen, startVars, progressOpen,
                 updateStatus, polled, ack, historyVars>>

PollRead ==
  /\ poll = "out" /\ poll' = "read"
  /\ polled' \in {job, CutStatus} /\ cut' = (cut \/ polled' = CutStatus)
  /\ UNCHANGED <<job, mountVars, canUpdate, noticeOpen, startVars, progressOpen,
                 updateStatus, ack, late>>

\* What was read is shown; the next poll is due as long as the job runs.
PollArrives ==
  /\ poll = "read" /\ updateStatus' = polled
  /\ poll' = IF polled.phase \in Running THEN "due" ELSE "off"
  /\ polled' = NoStatus
  /\ UNCHANGED <<job, mountVars, canUpdate, noticeOpen, startVars, progressOpen,
                 ack, historyVars>>

\* Slip: a poll that fails is the last one.
PollGivesUp ==
  /\ poll \in {"out", "read"} /\ poll' = "off" /\ polled' = NoStatus
  /\ UNCHANGED <<job, mountVars, canUpdate, noticeOpen, startVars, progressOpen,
                 updateStatus, ack, historyVars>>

\* A poll that fails or takes more than 3 s is repeated.
PollFails ==
  /\ poll \in {"out", "read"} /\ poll' = "due" /\ polled' = NoStatus
  /\ UNCHANGED <<job, mountVars, canUpdate, noticeOpen, startVars, progressOpen,
                 updateStatus, ack, historyVars>>

\* The buttons of the dialog: one to cancel as long as the status shown can be cancelled,
\* one to close it when the status is an end.
CancelOffered == progressOpen /\ updateStatus.phase = "cancellable"
CloseOffered == progressOpen /\ updateFinished

\* The backend looks at the job's own phase.
onCancelUpdate ==
  /\ CancelOffered
  /\ job.id = updateStatus.id /\ job.phase = "cancellable"
  /\ job' = [job EXCEPT !.phase = "cancelled"]
  /\ UNCHANGED <<mountVars, canUpdate, noticeOpen, startVars, progressOpen,
                 updateStatus, pollVars, ack, historyVars>>

PageLoads ==
  /\ mount' = "asked" /\ mountStatus' = NoStatus /\ kept' = 0
  /\ canUpdate' = FALSE /\ noticeOpen' = FALSE
  /\ starting' = "no" /\ newJob' = 0 /\ mine' = 0
  /\ progressOpen' = FALSE /\ updateStatus' = NoStatus
  /\ poll' = "off" /\ polled' = NoStatus
  /\ late' = FALSE /\ cut' = FALSE

\* The dialog closes on an end only; after a new version the page loads again.
closeProgress ==
  /\ CloseOffered /\ ack' = updateStatus.id
  /\ IF updateStatus.phase = "completed" THEN PageLoads
     ELSE /\ Openness(FALSE)
          /\ UNCHANGED <<mountVars, canUpdate, noticeOpen, startVars, updateStatus, historyVars>>
  /\ UNCHANGED job

\* The button that shows the notice again, and closing it.
showNotice ==
  /\ \/ noticeOpen /\ noticeOpen' = FALSE /\ UNCHANGED late
     \/ ~noticeOpen /\ ~progressOpen /\ noticeOpen' = TRUE /\ late' = (late \/ Busy)
  /\ UNCHANGED <<job, mountVars, canUpdate, startVars, progressOpen, updateStatus,
                 pollVars, ack, cut>>

PageReload == PageLoads /\ UNCHANGED <<job, ack>>

DialogNext ==
  \/ JobMoves \/ MountRead \/ MountSettles \/ onCheckUpdate
  \/ onUpdate \/ StartHandled \/ StartAnswered \/ StartFailed
  \/ PollSent \/ PollRead \/ PollArrives \/ PollFails
  \/ onCancelUpdate \/ closeProgress \/ showNotice \/ PageReload

DialogSpec == DialogInit /\ [][DialogNext]_dialogVars

-----------------------------------------------------------------------------
(* Properties *)

DialogTypeOK ==
  /\ job \in JobStatuses
  /\ mount \in {"asked", "read", "settled"} /\ mountStatus \in Status
  /\ canUpdate \in BOOLEAN /\ noticeOpen \in BOOLEAN
  /\ starting \in {"no", "sent", "made", "refused"}
  /\ newJob \in 0..MaxJobs /\ mine \in 0..MaxJobs /\ kept \in 0..MaxJobs /\ ack \in 0..MaxJobs
  /\ progressOpen \in BOOLEAN /\ updateStatus \in Status
  /\ poll \in {"off", "due", "out", "read"} /\ polled \in Status
  /\ late \in BOOLEAN /\ cut \in BOOLEAN

\* A job this page has started is followed as long as it runs, through every restart of
\* the backend: the dialog is open and another poll is to come
\* (UpdateStatus.tsx:151, :156).  A notice that comes over the start or the dialog, and a
\* status that is cut off, are the exceptions the code has.
StartedIsFollowed ==
  mine # 0 /\ ~late /\ ~cut /\ job.id = mine /\ job.phase \in Running =>
    progressOpen /\ poll # "off"

\* The end of a job that a page load finds is on the screen until it is acknowledged,
\* whatever happened to the page that started it (UpdateStatus.tsx:124, :271).
EndIsShownUntilAcknowledged ==
  mount = "settled" /\ kept # 0 /\ ~late => progressOpen \/ ack >= kept
=============================================================================
