--------------------------- MODULE UpdateTransaction ---------------------------
(***************************************************************************)
(* The V3 update transaction of one installation: the elevated worker that *)
(* switches the runtime (scripts/lifecycle_v3/Worker.ps1), the two ways an  *)
(* interrupted worker is undone (the stable launcher and the boot task,    *)
(* both of which run Recover.ps1), and the backend that starts updates and *)
(* reports on them (app/backend/lifecycle_v3.py).                          *)
(*                                                                         *)
(* One worker step is one durable effect: a file replaced, a directory     *)
(* moved, a task registered, a backend started or stopped.  A worker may   *)
(* be killed between any two steps, a step may throw, the machine may      *)
(* reboot.  A version is a number, compared the way releases are.          *)
(***************************************************************************)
EXTENDS Naturals

CONSTANTS Jobs,        \* update jobs, numbered in the order they are created
          Versions,    \* released runtimes, a greater number is a later release
          NoOne,       \* the value of the lifecycle mutex when it is free
          MaxFaults,   \* bound: operations that throw
          MaxCrashes   \* bound: killed processes and reboots

None == 0
Callers == {"launcher", "task"}
Recoverers == Callers \X Jobs
Workers == {"worker"} \X Jobs

ASSUME ConstantsOK == /\ Jobs \subseteq Nat \ {None}
                      /\ Versions \subseteq Nat \ {None}
                      /\ NoOne \notin Workers \union Recoverers
                      /\ MaxFaults \in Nat
                      /\ MaxCrashes \in Nat

VARIABLES
  \* the installation directory
  pointer,    \* installation.json: the active and previous runtime, the generation
  tree,       \* what runtime/<version> holds: nothing, a verified tree, remains of one
  loader,     \* the runtime the deployed Cadence loader belongs to
  record,     \* the runtime whose deployment the Cadence state and ownership files record
  \* .recovery/<job> and the boot task
  hasBefore,  \* installation-before.json exists; its content is meta[j]
  desc,       \* outcome in transaction.json, or "none" when there is no such file
  snap,       \* cadence_snapshot: where it lies and what it holds
  task,       \* the boot task is registered
  due,        \* boot tasks the scheduler will still run in this boot
  armed,      \* jobs whose armed_boot_id is the current boot
  \* the job files and the transaction journals
  target, phase, rolled, needs, journal, latest,
  \* the workers
  pc, way, meta, made, halted,
  \* the processes around them
  mutex,      \* holder of the lifecycle mutex
  rpc,        \* control state of each run of Recover.ps1
  lpc,        \* control state of the launcher
  running,    \* runtimes whose backend is running
  poll,       \* an update_status call between reading the job and writing it
  faults, crashes

install == <<pointer, tree, loader, record>>
guards  == <<hasBefore, desc, snap, task, due, armed>>
report  == <<phase, rolled, needs>>
jobs    == <<target, report, journal, latest>>
locals  == <<way, meta, made, halted>>
others  == <<rpc, lpc>>
budget  == <<faults, crashes>>
vars    == <<install, guards, jobs, pc, locals, mutex, others, running, poll, budget>>

Pointers == [active : Versions, previous : Versions \union {None}, gen : Nat]
Snapshots == [place : {"nowhere", "temp", "protected"},
              loader : Versions \union {None}, record : Versions \union {None}]
NoSnapshot == [place |-> "nowhere", loader |-> None, record |-> None]
NoPoll == [rt |-> None, job |-> None, saw |-> "none"]
Phases == {"none", "awaiting", "working", "completed", "failed"}

\* Control states of a worker in the order of the script, then the ones that only an
\* undo ("quit" to "revive") or any failure ("remove", "report") passes through.
PreCommit  == {"place", "guard", "arm", "snap", "move", "register", "stop", "commit"}
PostCommit == {"load", "record", "serve", "outcome", "finish"}
Undoing    == {"quit", "repoint", "reload", "rerecord", "revive", "remove"}
Leaving    == {"clear", "drop", "unlink", "report", "report_failed"}
Locked     == PreCommit \union PostCommit \union Undoing \union Leaving
WorkerPCs  == Locked \union {"none", "start", "read", "dead"}
RecoverLocked == {"q_pointer", "q_loader", "q_record", "q_remove", "q_task", "q_snap",
                  "q_before", "q_desc", "q_report", "c_task", "c_drop", "c_report"}
RecoverPCs == RecoverLocked \union {"idle", "wait"}

TypeOK ==
  /\ pointer \in Pointers
  /\ tree \in [Versions -> {"absent", "intact", "partial"}]
  /\ loader \in Versions \union {None}
  /\ record \in Versions \union {None}
  /\ hasBefore \in [Jobs -> BOOLEAN]
  /\ desc \in [Jobs -> {"none", "pending", "completed"}]
  /\ snap \in [Jobs -> Snapshots]
  /\ task \in [Jobs -> BOOLEAN]
  /\ due \subseteq Jobs
  /\ armed \subseteq Jobs
  /\ target \in [Jobs -> Versions \union {None}]
  /\ phase \in [Jobs -> Phases]
  /\ rolled \in [Jobs -> BOOLEAN]
  /\ needs \in [Jobs -> BOOLEAN]
  /\ journal \in [Jobs -> {"none", "open", "completed", "rolled_back"}]
  /\ latest \in Jobs \union {None}
  /\ pc \in [Jobs -> WorkerPCs]
  /\ way \in [Jobs -> {"forward", "abort", "undo"}]
  /\ meta \in [Jobs -> Pointers]
  /\ made \in [Jobs -> BOOLEAN]
  /\ halted \in [Jobs -> BOOLEAN]
  /\ mutex \in Workers \union Recoverers \union {NoOne}
  /\ rpc \in [Recoverers -> RecoverPCs]
  /\ lpc \in {"idle", "clear"}
  /\ running \subseteq Versions
  /\ poll \in [rt : Versions \union {None}, job : Jobs \union {None}, saw : Phases]
  /\ faults \in 0..MaxFaults
  /\ crashes \in 0..MaxCrashes

(***************************************************************************)
(* A fresh installation, with or without a previous runtime and with or     *)
(* without the Cadence integration, its backend running, no update yet.     *)
(***************************************************************************)
Init ==
  /\ \E v \in Versions, p \in Versions \union {None} :
       /\ p < v
       /\ pointer = [active |-> v, previous |-> p, gen |-> 1]
       /\ tree = [w \in Versions |-> IF w \in {v, p} THEN "intact" ELSE "absent"]
       /\ loader \in {v, None}
       /\ record = loader
       /\ running = {v}
       /\ meta = [j \in Jobs |-> pointer]
  /\ hasBefore = [j \in Jobs |-> FALSE]
  /\ desc = [j \in Jobs |-> "none"]
  /\ snap = [j \in Jobs |-> NoSnapshot]
  /\ task = [j \in Jobs |-> FALSE]
  /\ due = {}
  /\ armed = {}
  /\ target = [j \in Jobs |-> None]
  /\ phase = [j \in Jobs |-> "none"]
  /\ rolled = [j \in Jobs |-> FALSE]
  /\ needs = [j \in Jobs |-> FALSE]
  /\ journal = [j \in Jobs |-> "none"]
  /\ latest = None
  /\ pc = [j \in Jobs |-> "none"]
  /\ way = [j \in Jobs |-> "forward"]
  /\ made = [j \in Jobs |-> FALSE]
  /\ halted = [j \in Jobs |-> FALSE]
  /\ mutex = NoOne
  /\ rpc = [r \in Recoverers |-> "idle"]
  /\ lpc = "idle"
  /\ poll = NoPoll
  /\ faults = 0
  /\ crashes = 0

-----------------------------------------------------------------------------
(* Helpers *)

Goto(j, p) == pc' = [pc EXCEPT ![j] = p]
SetJob(j, ph, r, n) == /\ phase' = [phase EXCEPT ![j] = ph]
                       /\ rolled' = [rolled EXCEPT ![j] = r]
                       /\ needs' = [needs EXCEPT ![j] = n]
Working(j) == SetJob(j, "working", rolled[j], needs[j])
SetJournal(j, x) == journal' = [journal EXCEPT ![j] = x]

\* Slips of the kind the properties are meant to catch are kept next to what they change.
\* Slip: a process that ends keeps the mutex.
ExitLocked(j) == Goto(j, "dead") /\ UNCHANGED mutex

\* The worker process ends; its mutex is released, or abandoned and then acquired by
\* the next one that waits for it, which amounts to the same.
Exit(j) == /\ Goto(j, "dead")
           /\ mutex' = IF mutex = <<"worker", j>> THEN NoOne ELSE mutex
Dead(j) == pc[j] \in {"none", "dead"}

Terminal == {"completed", "failed"}

\* A call of update_status dies with the backend that serves it.
PollWithout(v) == IF poll.rt = v THEN NoPoll ELSE poll

\* Restore-HwAgentCadenceDeploymentTransaction deletes the deployed loader and copies
\* back the one under entry_root, the absolute path the snapshot was taken at.
RestoredLoader(s) == IF s.place = "temp" THEN s.loader ELSE None

DropSnapshot(j) == snap' = [snap EXCEPT ![j] = IF @.place = "protected" THEN NoSnapshot ELSE @]

\* Remove-Item -Recurse on a runtime: what a running backend holds open stays behind.
Removed(v) == IF v \in running THEN "partial" ELSE "absent"
MayRemove(j) == made[j] /\ meta[j].previous # target[j] /\ tree[target[j]] # "absent"

\* The metadata Commit-RuntimePointer writes.
Committed(j) == [active |-> target[j], previous |-> meta[j].active, gen |-> meta[j].gen + 1]

-----------------------------------------------------------------------------
(* The backend: starting an update and reporting on the latest one *)

\* run_update, up to the launch of the elevated worker: only the active runtime may
\* start one, only towards a later release, only when the latest job has ended and
\* needs no recovery.  Download and staging touch nothing modelled here.
RunUpdate(j, v) ==
  /\ pointer.active \in running
  /\ tree[pointer.active] = "intact"
  /\ v > pointer.active
  /\ latest # None => phase[latest] \in Terminal /\ ~needs[latest]
  /\ pc[j] = "none" /\ \A k \in Jobs : k < j => pc[k] # "none"
  /\ latest' = j
  /\ target' = [target EXCEPT ![j] = v]
  /\ SetJob(j, "awaiting", FALSE, FALSE)
  /\ Goto(j, "start")
  /\ UNCHANGED <<install, guards, journal, locals, mutex, others, running, poll, budget>>

\* update_status, first half: a backend reads a job whose worker should be running.
PollRead(rt) ==
  /\ poll = NoPoll
  /\ rt \in running
  /\ latest # None
  /\ phase[latest] \in {"awaiting", "working"}
  /\ poll' = [rt |-> rt, job |-> latest, saw |-> phase[latest]]
  /\ UNCHANGED <<install, guards, jobs, pc, locals, mutex, others, running, budget>>

\* update_status, second half: the worker's process is looked up after the read, and a
\* dead one turns the job into a failure.  A failure called safe also deletes the
\* transaction directory and the journal in it.
PollDecide ==
  /\ poll # NoPoll
  /\ poll' = NoPoll
  /\ LET j == poll.job
         safe == \/ poll.saw = "awaiting"
                 \/ pointer.active = poll.rt /\ tree[poll.rt] = "intact"
     IN IF Dead(j)
        THEN /\ SetJob(j, "failed", safe, ~safe)
             /\ latest' = j
             /\ IF safe THEN SetJournal(j, "none") ELSE UNCHANGED journal
        ELSE UNCHANGED <<report, journal, latest>>
  /\ UNCHANGED <<install, guards, target, pc, locals, mutex, others, running, budget>>

-----------------------------------------------------------------------------
(* The worker, step by step *)

\* The metadata is read, and the old tree checked, before the mutex is taken; a worker
\* that stops here ends without a word.
WorkerRead(j) ==
  /\ pc[j] = "start"
  /\ IF target[j] # pointer.active /\ tree[pointer.active] = "intact"
     THEN /\ Goto(j, "read")
          /\ meta' = [meta EXCEPT ![j] = pointer]
     ELSE Goto(j, "dead") /\ UNCHANGED meta
  /\ UNCHANGED <<install, guards, jobs, way, made, halted, mutex, others, running, poll, budget>>

\* Slip: the result of the wait for the mutex is not looked at.
WorkerEnterAnyway(j) ==
  /\ pc[j] = "read"
  /\ mutex' = <<"worker", j>>
  /\ Working(j)
  /\ Goto(j, "place")
  /\ SetJournal(j, "open")
  /\ UNCHANGED <<install, guards, target, latest, locals, others, running, poll, budget>>

\* The mutex is tried without waiting; the first progress report acknowledges the job.
WorkerEnter(j) ==
  /\ pc[j] = "read"
  /\ IF mutex = NoOne
     THEN /\ mutex' = <<"worker", j>>
          /\ Working(j)
          /\ Goto(j, "place")
     ELSE /\ SetJob(j, "failed", TRUE, FALSE)
          /\ Goto(j, "dead")
          /\ UNCHANGED mutex
  /\ SetJournal(j, "open")
  /\ UNCHANGED <<install, guards, target, latest, locals, others, running, poll, budget>>

Abort(j) == Goto(j, "remove") /\ way' = [way EXCEPT ![j] = "abort"]

\* A verified tree of the requested identity is reused; remains of one are refused.
WorkerPlace(j) ==
  /\ pc[j] = "place"
  /\ \/ tree[target[j]] = "intact" /\ Goto(j, "guard") /\ UNCHANGED <<tree, made, way>>
     \/ /\ tree[target[j]] = "absent"
        /\ tree' = [tree EXCEPT ![target[j]] = "intact"]
        /\ made' = [made EXCEPT ![j] = TRUE]
        /\ Goto(j, "guard")
        /\ UNCHANGED way
     \/ tree[target[j]] = "partial" /\ Abort(j) /\ UNCHANGED <<tree, made>>
  /\ UNCHANGED <<pointer, loader, record, guards, jobs, meta, halted, mutex, others, running,
                 poll, budget>>

\* Slip: the saved metadata is not written before the transaction is armed.
WorkerGuardLater(j) ==
  /\ pc[j] = "guard"
  /\ Goto(j, "arm")
  /\ UNCHANGED <<install, guards, jobs, locals, mutex, others, running, poll, budget>>

\* Slip: the descriptor is only written when the update ends.
WorkerGuardUnarmed(j) ==
  /\ pc[j] = "guard"
  /\ hasBefore' = [hasBefore EXCEPT ![j] = TRUE]
  /\ Goto(j, "snap")
  /\ UNCHANGED <<install, desc, snap, task, due, armed, jobs, locals, mutex, others, running,
                 poll, budget>>

WorkerGuard(j) ==
  /\ pc[j] = "guard"
  /\ hasBefore' = [hasBefore EXCEPT ![j] = TRUE]
  /\ Goto(j, "arm")
  /\ UNCHANGED <<install, desc, snap, task, due, armed, jobs, locals, mutex, others, running,
                 poll, budget>>

WorkerArm(j) ==
  /\ pc[j] = "arm"
  /\ desc' = [desc EXCEPT ![j] = "pending"]
  /\ armed' = armed \union {j}
  /\ Goto(j, "snap")
  /\ UNCHANGED <<install, hasBefore, snap, task, due, jobs, locals, mutex, others, running,
                 poll, budget>>

\* Initialize-CadenceSnapshot, with the scripts of the old runtime and only when the
\* integration is recorded: the snapshot is taken under the temporary directory ...
WorkerSnap(j) ==
  /\ pc[j] = "snap"
  /\ \/ /\ tree[meta[j].active] # "absent"
        /\ record # None
        /\ snap' = [snap EXCEPT ![j] = [place |-> "temp", loader |-> loader, record |-> record]]
        /\ Goto(j, "move")
        /\ UNCHANGED way
     \/ tree[meta[j].active] # "absent" /\ record = None /\ Goto(j, "register") /\ UNCHANGED <<snap, way>>
     \/ tree[meta[j].active] # "intact" /\ Abort(j) /\ UNCHANGED snap
  /\ UNCHANGED <<install, hasBefore, desc, task, due, armed, jobs, meta, made, halted, mutex,
                 others, running, poll, budget>>

\* ... and then moved into the protected directory, where recovery will look for it.
WorkerMove(j) ==
  /\ pc[j] = "move"
  /\ snap' = [snap EXCEPT ![j].place = "protected"]
  /\ Goto(j, "register")
  /\ UNCHANGED <<install, hasBefore, desc, task, due, armed, jobs, locals, mutex, others, running,
                 poll, budget>>

\* Slip: a registration that fails is not noticed.
WorkerRegisterUnnoticed(j) ==
  /\ pc[j] = "register"
  /\ Goto(j, "stop")
  /\ UNCHANGED <<install, guards, jobs, locals, mutex, others, running, poll, budget>>

\* The scheduler may run a new boot trigger in the current boot.
WorkerRegister(j) ==
  /\ pc[j] = "register"
  /\ task' = [task EXCEPT ![j] = TRUE]
  /\ due' \in {due, due \union {j}}
  /\ Goto(j, "stop")
  /\ UNCHANGED <<install, hasBefore, desc, snap, armed, jobs, locals, mutex, others, running,
                 poll, budget>>

WorkerStop(j) ==
  /\ pc[j] = "stop"
  /\ running' = running \ {meta[j].active}
  /\ poll' = PollWithout(meta[j].active)
  /\ halted' = [halted EXCEPT ![j] = TRUE]
  /\ Goto(j, "commit")
  /\ UNCHANGED <<install, guards, jobs, way, meta, made, mutex, others, budget>>

WorkerCommit(j) ==
  /\ pc[j] = "commit"
  /\ pointer' = Committed(j)
  /\ Goto(j, "load")
  /\ UNCHANGED <<tree, loader, record, guards, jobs, locals, mutex, others, running, poll, budget>>

\* Deploy-NewCadenceIntegration: the loader first, then the ownership and state files.
WorkerLoad(j) ==
  /\ pc[j] = "load"
  /\ IF snap[j].place = "protected"
     THEN loader' = target[j] /\ Goto(j, "record")
     ELSE UNCHANGED loader /\ Goto(j, "serve")
  /\ UNCHANGED <<pointer, tree, record, guards, jobs, locals, mutex, others, running, poll, budget>>

WorkerRecord(j) ==
  /\ pc[j] = "record"
  /\ record' = target[j]
  /\ Goto(j, "serve")
  /\ UNCHANGED <<pointer, tree, loader, guards, jobs, locals, mutex, others, running, poll, budget>>

WorkerServe(j) ==
  /\ pc[j] = "serve"
  /\ running' = running \union {target[j]}
  /\ Goto(j, "outcome")
  /\ UNCHANGED <<install, guards, jobs, locals, mutex, others, poll, budget>>

\* Slip: the descriptor stays pending after the switch is over.
WorkerOutcomeForgotten(j) ==
  /\ pc[j] = "outcome"
  /\ Goto(j, "finish")
  /\ UNCHANGED <<install, guards, jobs, locals, mutex, others, running, poll, budget>>

WorkerOutcome(j) ==
  /\ pc[j] = "outcome"
  /\ desc' = [desc EXCEPT ![j] = "completed"]
  /\ Goto(j, "finish")
  /\ UNCHANGED <<install, hasBefore, snap, task, due, armed, jobs, locals, mutex, others, running,
                 poll, budget>>

WorkerFinish(j) ==
  /\ pc[j] = "finish"
  /\ SetJournal(j, "completed")
  /\ SetJob(j, "completed", FALSE, needs[j])
  /\ Goto(j, "clear")
  /\ UNCHANGED <<install, guards, target, latest, locals, mutex, others, running, poll, budget>>

\* Clear-RecoveryRegistration and Complete-ProtectedRecovery, on every way out.
WorkerClear(j) ==
  /\ pc[j] = "clear"
  /\ task' = [task EXCEPT ![j] = FALSE]
  /\ due' = due \ {j}
  /\ Goto(j, "drop")
  /\ UNCHANGED <<install, hasBefore, desc, snap, armed, jobs, locals, mutex, others, running,
                 poll, budget>>

WorkerDrop(j) ==
  /\ pc[j] = "drop"
  /\ DropSnapshot(j)
  /\ hasBefore' = [hasBefore EXCEPT ![j] = FALSE]
  /\ Goto(j, "unlink")
  /\ UNCHANGED <<install, desc, task, due, armed, jobs, locals, mutex, others, running, poll, budget>>

WorkerUnlink(j) ==
  /\ pc[j] = "unlink"
  /\ desc' = [desc EXCEPT ![j] = "none"]
  /\ armed' = armed \ {j}
  /\ IF way[j] = "forward" THEN Exit(j) ELSE Goto(j, "report") /\ UNCHANGED mutex
  /\ UNCHANGED <<install, hasBefore, snap, task, due, jobs, locals, others, running, poll, budget>>

\* Undoing a committed pointer: the new backend, the pointer, Cadence, the old backend.
WorkerQuit(j) ==
  /\ pc[j] = "quit"
  /\ running' = running \ {target[j]}
  /\ poll' = PollWithout(target[j])
  /\ Goto(j, "repoint")
  /\ UNCHANGED <<install, guards, jobs, locals, mutex, others, budget>>

\* Slip: the restored metadata gets a generation of its own.
WorkerRepointAnew(j) ==
  /\ pc[j] = "repoint"
  /\ pointer' = [meta[j] EXCEPT !.gen = @ + 2]
  /\ Goto(j, IF snap[j].place = "protected" THEN "reload" ELSE "revive")
  /\ UNCHANGED <<tree, loader, record, guards, jobs, locals, mutex, others, running, poll, budget>>

WorkerRepoint(j) ==
  /\ pc[j] = "repoint"
  /\ pointer' = meta[j]
  /\ Goto(j, IF snap[j].place = "protected" THEN "reload" ELSE "revive")
  /\ UNCHANGED <<tree, loader, record, guards, jobs, locals, mutex, others, running, poll, budget>>

WorkerReload(j) ==
  /\ pc[j] = "reload"
  /\ loader' = RestoredLoader(snap[j])
  /\ Goto(j, "rerecord")
  /\ UNCHANGED <<pointer, tree, record, guards, jobs, locals, mutex, others, running, poll, budget>>

WorkerRerecord(j) ==
  /\ pc[j] = "rerecord"
  /\ record' = snap[j].record
  /\ Goto(j, "revive")
  /\ UNCHANGED <<pointer, tree, loader, guards, jobs, locals, mutex, others, running, poll, budget>>

\* Starting the old backend again, after an undo or after an abort that had stopped it;
\* a damaged old runtime may fail to start.
WorkerRevive(j) ==
  /\ pc[j] = "revive"
  /\ \/ /\ tree[meta[j].active] # "absent"
        /\ running' = running \union {meta[j].active}
        /\ Goto(j, IF way[j] = "undo" THEN "remove" ELSE "clear")
     \/ tree[meta[j].active] # "intact" /\ Goto(j, "report_failed") /\ UNCHANGED running
  /\ UNCHANGED <<install, guards, jobs, locals, mutex, others, poll, budget>>

AfterRemove(j) == IF way[j] = "abort" /\ halted[j] THEN "revive" ELSE "clear"

WorkerRemove(j) ==
  /\ pc[j] = "remove"
  /\ tree' = IF MayRemove(j) THEN [tree EXCEPT ![target[j]] = Removed(target[j])] ELSE tree
  /\ Goto(j, AfterRemove(j))
  /\ UNCHANGED <<pointer, loader, record, guards, jobs, locals, mutex, others, running, poll, budget>>

\* Slip: the phase of the journal is written into the job.
WorkerReportJournalPhase(j) ==
  /\ pc[j] = "report"
  /\ SetJournal(j, IF way[j] = "undo" THEN "rolled_back" ELSE "open")
  /\ SetJob(j, IF way[j] = "undo" THEN "rolled_back" ELSE "failed", TRUE, FALSE)
  /\ Exit(j)
  /\ UNCHANGED <<install, guards, target, latest, locals, others, running, poll, budget>>

WorkerReport(j) ==
  /\ pc[j] = "report"
  /\ SetJournal(j, IF way[j] = "undo" THEN "rolled_back" ELSE "open")
  /\ SetJob(j, "failed", TRUE, FALSE)
  /\ Exit(j)
  /\ UNCHANGED <<install, guards, target, latest, locals, others, running, poll, budget>>

WorkerReportFailed(j) ==
  /\ pc[j] = "report_failed"
  /\ SetJournal(j, "open")
  /\ SetJob(j, "failed", FALSE, TRUE)
  /\ Exit(j)
  /\ UNCHANGED <<install, guards, target, latest, locals, others, running, poll, budget>>

\* A step of the script throws.  Before the pointer is written the failure path drops
\* the new runtime, after it the update is undone; an undo that throws gives up, and the
\* clean-up steps swallow what they throw.
WorkerThrow(j) ==
  /\ faults < MaxFaults
  /\ faults' = faults + 1
  /\ \/ pc[j] \in PreCommit /\ Abort(j) /\ UNCHANGED <<tree, mutex, journal>>
     \/ /\ pc[j] \in PostCommit
        /\ Goto(j, "quit")
        /\ way' = [way EXCEPT ![j] = "undo"]
        /\ UNCHANGED <<tree, mutex, journal>>
     \/ /\ pc[j] \in Undoing \ {"remove"}
        /\ Goto(j, "report_failed")
        /\ UNCHANGED <<tree, way, mutex, journal>>
     \/ /\ pc[j] = "remove" /\ MayRemove(j)
        /\ tree' = [tree EXCEPT ![target[j]] = "partial"]
        /\ Goto(j, AfterRemove(j))
        /\ UNCHANGED <<way, mutex, journal>>
     \/ /\ pc[j] \in {"clear", "drop", "unlink"}
        /\ IF way[j] = "forward" THEN Exit(j) ELSE Goto(j, "report") /\ UNCHANGED mutex
        /\ UNCHANGED <<tree, way, journal>>
     \/ /\ pc[j] = "report" /\ way[j] = "undo"
        /\ Goto(j, "report_failed")
        /\ UNCHANGED <<tree, way, mutex, journal>>
     \/ /\ pc[j] = "report"
        /\ SetJournal(j, IF way[j] = "undo" THEN "rolled_back" ELSE "open")
        /\ Exit(j)
        /\ UNCHANGED <<tree, way>>
     \/ /\ pc[j] = "report_failed"
        /\ SetJournal(j, "open")
        /\ Exit(j)
        /\ UNCHANGED <<tree, way>>
  /\ UNCHANGED <<pointer, loader, record, guards, target, report, latest, meta, made, halted,
                 others, running, poll, crashes>>

\* The worker is killed; one killed while it deletes a runtime leaves remains of it.
WorkerKill(j) ==
  /\ crashes < MaxCrashes
  /\ ~Dead(j)
  /\ crashes' = crashes + 1
  /\ Exit(j)
  /\ \/ UNCHANGED tree
     \/ /\ pc[j] = "remove" /\ MayRemove(j)
        /\ tree' = [tree EXCEPT ![target[j]] = "partial"]
  /\ UNCHANGED <<pointer, loader, record, guards, jobs, locals, others, running, poll, faults>>

-----------------------------------------------------------------------------
(* The boot task and the launcher *)

\* Every process ends; the scheduler will run each registered task in the new boot,
\* which is the boot of no armed job.
Reboot ==
  /\ crashes < MaxCrashes
  /\ crashes' = crashes + 1
  /\ pc' = [j \in Jobs |-> IF pc[j] = "none" THEN "none" ELSE "dead"]
  /\ rpc' = [r \in Recoverers |-> "idle"]
  /\ mutex' = NoOne
  /\ lpc' = "idle"
  /\ running' = {}
  /\ poll' = NoPoll
  /\ due' = {j \in Jobs : task[j]}
  /\ armed' = {}
  /\ UNCHANGED <<install, hasBefore, desc, snap, task, jobs, locals, faults>>

\* Slip: only pending transactions are looked for.
ScriptSourcesOfPending(j) == IF desc[j] = "completed" THEN {} ELSE {meta[j].active}

\* Recover.ps1 is taken from the runtime the descriptor names; one of which only remains
\* are left may or may not have the script.
ScriptSources(j) == IF desc[j] = "completed" THEN {target[j], meta[j].active} ELSE {meta[j].active}
MayRecover(j) == desc[j] # "none" /\ \E v \in ScriptSources(j) : tree[v] # "absent"
MustRecover(j) == desc[j] # "none" /\ \E v \in ScriptSources(j) : tree[v] = "intact"

StartRecover(c, j) == /\ rpc[<<c, j>>] = "idle"
                      /\ rpc' = [rpc EXCEPT ![<<c, j>>] = "wait"]

\* Resume.ps1, the action of the boot task.
TaskRun(j) ==
  /\ j \in due
  /\ due' = due \ {j}
  /\ \/ j \notin armed /\ MayRecover(j) /\ StartRecover("task", j)
     \/ (j \in armed \/ ~MustRecover(j)) /\ UNCHANGED rpc
  /\ UNCHANGED <<install, hasBefore, desc, snap, task, armed, jobs, pc, locals, mutex, lpc,
                 running, poll, budget>>

\* The launcher recovers every job it finds before it starts the active runtime.
LauncherScan ==
  /\ lpc = "idle"
  /\ \A j \in Jobs : rpc[<<"launcher", j>>] = "idle"
  /\ \/ \E j \in Jobs : MayRecover(j) /\ StartRecover("launcher", j) /\ UNCHANGED lpc
     \/ (\A j \in Jobs : ~MustRecover(j)) /\ lpc' = "clear" /\ UNCHANGED rpc
  /\ UNCHANGED <<install, guards, jobs, pc, locals, mutex, running, poll, budget>>

\* It refuses an active runtime that is missing or damaged.
Launch ==
  /\ lpc = "clear"
  /\ lpc' = "idle"
  /\ running' = IF tree[pointer.active] = "intact" THEN running \union {pointer.active}
                ELSE running
  /\ UNCHANGED <<install, guards, jobs, pc, locals, mutex, rpc, poll, budget>>

-----------------------------------------------------------------------------
(* Recover.ps1 for one job, under the mutex it waits up to 30 s for *)

RGoto(c, j, p) == rpc' = [rpc EXCEPT ![<<c, j>>] = p]

\* Ends a run that holds the mutex.
RecoverLeave(c, j) == RGoto(c, j, "idle") /\ mutex' = NoOne

RecoverTimeout(c, j) ==
  /\ rpc[<<c, j>>] = "wait"
  /\ mutex # NoOne
  /\ RGoto(c, j, "idle")
  /\ UNCHANGED <<install, guards, jobs, pc, locals, mutex, lpc, running, poll, budget>>

\* The directory is gone: an ended transaction was recovered by somebody else, and its
\* task may go; any other is an error.  A directory without a descriptor is an error too.
Ended(j) == ~hasBefore[j] /\ journal[j] \in {"completed", "rolled_back"}
RecoverNothing(c, j) ==
  /\ rpc[<<c, j>>] = "wait"
  /\ mutex = NoOne
  /\ desc[j] = "none"
  /\ task' = IF Ended(j) THEN [task EXCEPT ![j] = FALSE] ELSE task
  /\ due' = IF Ended(j) THEN due \ {j} ELSE due
  /\ RGoto(c, j, "idle")
  /\ UNCHANGED <<install, hasBefore, desc, snap, armed, jobs, pc, locals, mutex, lpc, running,
                 poll, budget>>

\* A pending transaction is undone only from the metadata it saved, only with a sound old
\* runtime, and only when installation.json is as it was, or as its worker left it.
Undoable(j) == /\ hasBefore[j]
               /\ tree[meta[j].active] = "intact"
               /\ pointer \in {meta[j], Committed(j)}

\* Slip: a pending transaction is taken for one that never reached installation.json.
RecoverEnterUncommitted(c, j) ==
  /\ rpc[<<c, j>>] = "wait"
  /\ mutex = NoOne
  /\ desc[j] # "none"
  /\ RGoto(c, j, IF desc[j] = "completed" THEN "c_task" ELSE "q_loader")
  /\ mutex' = <<c, j>>
  /\ UNCHANGED <<install, guards, jobs, pc, locals, lpc, running, poll, budget>>

RecoverEnter(c, j) ==
  /\ rpc[<<c, j>>] = "wait"
  /\ mutex = NoOne
  /\ \/ /\ desc[j] = "completed"
        /\ RGoto(c, j, "c_task")
        /\ mutex' = <<c, j>>
     \/ /\ desc[j] = "pending"
        /\ Undoable(j)
        /\ RGoto(c, j, IF pointer = Committed(j) THEN "q_pointer" ELSE "q_loader")
        /\ mutex' = <<c, j>>
     \/ /\ desc[j] = "pending"
        /\ ~Undoable(j)
        /\ RGoto(c, j, "idle")
        /\ UNCHANGED mutex
  /\ UNCHANGED <<install, guards, jobs, pc, locals, lpc, running, poll, budget>>

RecoverPointer(c, j) ==
  /\ rpc[<<c, j>>] = "q_pointer"
  /\ pointer' = meta[j]
  /\ RGoto(c, j, "q_loader")
  /\ UNCHANGED <<tree, loader, record, guards, jobs, pc, locals, mutex, lpc, running, poll, budget>>

RecoverLoader(c, j) ==
  /\ rpc[<<c, j>>] = "q_loader"
  /\ IF snap[j].place = "protected"
     THEN loader' = RestoredLoader(snap[j]) /\ RGoto(c, j, "q_record")
     ELSE UNCHANGED loader /\ RGoto(c, j, "q_remove")
  /\ UNCHANGED <<pointer, tree, record, guards, jobs, pc, locals, mutex, lpc, running, poll,
                 budget>>

RecoverRecord(c, j) ==
  /\ rpc[<<c, j>>] = "q_record"
  /\ record' = snap[j].record
  /\ RGoto(c, j, "q_remove")
  /\ UNCHANGED <<pointer, tree, loader, guards, jobs, pc, locals, mutex, lpc, running, poll, budget>>

RecoverRemove(c, j) ==
  /\ rpc[<<c, j>>] = "q_remove"
  /\ tree' = IF MayRemove(j) THEN [tree EXCEPT ![target[j]] = Removed(target[j])] ELSE tree
  /\ RGoto(c, j, "q_task")
  /\ UNCHANGED <<pointer, loader, record, guards, jobs, pc, locals, mutex, lpc, running, poll,
                 budget>>

RecoverTask(c, j) ==
  /\ rpc[<<c, j>>] \in {"q_task", "c_task"}
  /\ task' = [task EXCEPT ![j] = FALSE]
  /\ due' = due \ {j}
  /\ RGoto(c, j, IF rpc[<<c, j>>] = "q_task" THEN "q_snap" ELSE "c_drop")
  /\ UNCHANGED <<install, hasBefore, desc, snap, armed, jobs, pc, locals, mutex, lpc, running, poll,
                 budget>>

RecoverSnap(c, j) ==
  /\ rpc[<<c, j>>] = "q_snap"
  /\ DropSnapshot(j)
  /\ RGoto(c, j, "q_before")
  /\ UNCHANGED <<install, hasBefore, desc, task, due, armed, jobs, pc, locals, mutex, lpc, running,
                 poll, budget>>

\* Remove-Item -Recurse on the protected directory: installation-before.json comes before
\* transaction.json.
RecoverBefore(c, j) ==
  /\ rpc[<<c, j>>] = "q_before"
  /\ hasBefore' = [hasBefore EXCEPT ![j] = FALSE]
  /\ RGoto(c, j, "q_desc")
  /\ UNCHANGED <<install, desc, snap, task, due, armed, jobs, pc, locals, mutex, lpc, running, poll,
                 budget>>

RecoverDesc(c, j) ==
  /\ rpc[<<c, j>>] = "q_desc"
  /\ desc' = [desc EXCEPT ![j] = "none"]
  /\ armed' = armed \ {j}
  /\ RGoto(c, j, "q_report")
  /\ UNCHANGED <<install, hasBefore, snap, task, due, jobs, pc, locals, mutex, lpc, running, poll,
                 budget>>

RecoverDrop(c, j) ==
  /\ rpc[<<c, j>>] = "c_drop"
  /\ DropSnapshot(j)
  /\ hasBefore' = [hasBefore EXCEPT ![j] = FALSE]
  /\ desc' = [desc EXCEPT ![j] = "none"]
  /\ armed' = armed \ {j}
  /\ RGoto(c, j, "c_report")
  /\ UNCHANGED <<install, task, due, jobs, pc, locals, mutex, lpc, running, poll, budget>>

RecoverReport(c, j) ==
  /\ \/ /\ rpc[<<c, j>>] = "q_report"
        /\ SetJournal(j, "rolled_back")
        /\ SetJob(j, "failed", TRUE, FALSE)
     \/ /\ rpc[<<c, j>>] = "c_report"
        /\ SetJournal(j, "completed")
        /\ SetJob(j, "completed", FALSE, FALSE)
  /\ RecoverLeave(c, j)
  /\ UNCHANGED <<install, guards, target, latest, pc, locals, lpc, running, poll, budget>>

\* A step throws: only the removal of the runtime goes on after what it threw.
RecoverThrow(c, j) ==
  /\ faults < MaxFaults
  /\ faults' = faults + 1
  /\ rpc[<<c, j>>] \in RecoverLocked
  /\ IF rpc[<<c, j>>] = "q_remove"
     THEN /\ RGoto(c, j, "q_task")
          /\ tree' = IF MayRemove(j) THEN [tree EXCEPT ![target[j]] = "partial"] ELSE tree
          /\ UNCHANGED mutex
     ELSE RecoverLeave(c, j) /\ UNCHANGED tree
  /\ UNCHANGED <<pointer, loader, record, guards, jobs, pc, locals, lpc, running, poll, crashes>>

RecoverKill(c, j) ==
  /\ crashes < MaxCrashes
  /\ crashes' = crashes + 1
  /\ rpc[<<c, j>>] \in RecoverLocked
  /\ RecoverLeave(c, j)
  /\ \/ UNCHANGED tree
     \/ /\ rpc[<<c, j>>] = "q_remove" /\ MayRemove(j)
        /\ tree' = [tree EXCEPT ![target[j]] = "partial"]
  /\ UNCHANGED <<pointer, loader, record, guards, jobs, pc, locals, lpc, running, poll, faults>>

-----------------------------------------------------------------------------
(* The system *)

WorkerStep(j) ==
  \/ WorkerRead(j) \/ WorkerEnter(j) \/ WorkerPlace(j) \/ WorkerGuard(j) \/ WorkerArm(j)
  \/ WorkerSnap(j) \/ WorkerMove(j) \/ WorkerRegister(j) \/ WorkerStop(j) \/ WorkerCommit(j)
  \/ WorkerLoad(j) \/ WorkerRecord(j) \/ WorkerServe(j) \/ WorkerOutcome(j) \/ WorkerFinish(j)
  \/ WorkerClear(j) \/ WorkerDrop(j) \/ WorkerUnlink(j)
  \/ WorkerQuit(j) \/ WorkerRepoint(j) \/ WorkerReload(j) \/ WorkerRerecord(j)
  \/ WorkerRevive(j) \/ WorkerRemove(j) \/ WorkerReport(j) \/ WorkerReportFailed(j)

RecoverStep(c, j) ==
  \/ RecoverTimeout(c, j) \/ RecoverNothing(c, j) \/ RecoverEnter(c, j) \/ RecoverPointer(c, j)
  \/ RecoverLoader(c, j) \/ RecoverRecord(c, j) \/ RecoverRemove(c, j) \/ RecoverTask(c, j)
  \/ RecoverSnap(c, j) \/ RecoverBefore(c, j) \/ RecoverDesc(c, j) \/ RecoverDrop(c, j) \/ RecoverReport(c, j)

Environment ==
  \/ \E j \in Jobs : WorkerThrow(j) \/ WorkerKill(j)
  \/ \E c \in Callers, j \in Jobs : RecoverThrow(c, j) \/ RecoverKill(c, j)
  \/ Reboot

Backend ==
  \/ \E j \in Jobs, v \in Versions : RunUpdate(j, v)
  \/ \E rt \in Versions : PollRead(rt)
  \/ PollDecide

Next ==
  \/ Backend
  \/ \E j \in Jobs : WorkerStep(j) \/ TaskRun(j)
  \/ LauncherScan \/ Launch
  \/ \E c \in Callers, j \in Jobs : RecoverStep(c, j)
  \/ Environment

Spec == Init /\ [][Next]_vars

\* A process that runs keeps running; the scheduler runs what is due; the user opens the
\* platform again.  Nobody has to start an update, and nothing has to fail.
Fairness ==
  /\ \A j \in Jobs : WF_vars(WorkerStep(j)) /\ WF_vars(TaskRun(j))
  /\ \A c \in Callers, j \in Jobs : WF_vars(RecoverStep(c, j))
  /\ WF_vars(LauncherScan) /\ WF_vars(Launch)

FairSpec == Spec /\ Fairness

-----------------------------------------------------------------------------
(* Safety *)

\* Nobody works on the installation without the lifecycle mutex, so two workers, or a
\* worker and a recovery, never do so at once (Enter-HwV3LifecycleMutex in both scripts).
LockHeld ==
  /\ \A j \in Jobs : pc[j] \in Locked => mutex = <<"worker", j>>
  /\ \A c \in Callers, j \in Jobs : rpc[<<c, j>>] \in RecoverLocked => mutex = <<c, j>>

\* From the switch until the update is over or undone, a crash finds everything recovery
\* needs: the saved metadata, the descriptor, the boot task, and an installation.json that
\* is what the worker wrote (Worker.ps1 arms recovery before it switches).
Covered(j) == hasBefore[j] /\ desc[j] # "none"
ProtectedAt(j) ==
  /\ pc[j] \in PostCommit => pointer = Committed(j)
  /\ pc[j] \in PostCommit \union {"quit", "repoint", "reload", "rerecord"} =>
       Covered(j) /\ task[j]
CommitIsProtected == \A j \in Jobs : ProtectedAt(j)

\* The switch itself, installation.json and the Cadence deployment, is touched by the job
\* that holds the mutex only, and only while all that undoes it is on disk.
SwitchIsCovered ==
  [][<<pointer, loader, record>>' # <<pointer, loader, record>> =>
       \E j \in Jobs : Covered(j) /\ mutex \in ({"worker"} \union Callers) \X {j}]_vars

\* installation.json goes from what a job read to what the job writes, by its worker, or
\* back, and in no other way.
PointerMoves ==
  [][pointer' # pointer =>
       \E j \in Jobs :
         \/ pc[j] = "commit" /\ pointer = meta[j] /\ pointer' = Committed(j)
         \/ pointer = Committed(j) /\ pointer' = meta[j]]_vars

\* The platform always has a verified runtime to start.
ActiveIntact == tree[pointer.active] = "intact"

\* What RuntimeSwitch promises of an installation is what its updates do to it, from the
\* reading of installation.json until no process works on the transaction and none is
\* left pending for recovery (Worker.ps1 and Recover.ps1 as one).
UnderWay(j) == \/ pc[j] \in {"read"} \union PreCommit \union PostCommit \union Undoing
               \/ desc[j] = "pending"
SoundRuntimes == {v \in Versions : tree[v] = "intact"}
Ends(j) == [from |-> meta[j], to |-> Committed(j)]
OpenUpdates == {Ends(j) : j \in {k \in Jobs : UnderWay(k)}}
Runtime == INSTANCE RuntimeSwitch WITH sound <- SoundRuntimes, open <- OpenUpdates
SwitchesRuntime == Runtime!Spec

\* An update that ended is over for good: nothing takes the installation back behind a
\* completed update (docs/ROLLBACK.md: a committed update is kept).
CompletedUpdateSurvives ==
  \A j \in Jobs : phase[j] = "completed" => pointer.gen > meta[j].gen

\* What the user is told: an update reported as rolled back left the installation on the
\* metadata it started from, or there was none to restore.
Quiet(j) == Dead(j) /\ \A c \in Callers : rpc[<<c, j>>] = "idle"

RolledBackReportIsTrue ==
  \A j \in Jobs : Quiet(j) /\ phase[j] = "failed" /\ rolled[j] => pointer # Committed(j)

\* A pending transaction nobody is working on can be undone.
RecoveryCanRun ==
  \A j \in Jobs : mutex = NoOne /\ desc[j] = "pending" => Undoable(j)

\* After an update that failed and says it was rolled back, the Cadence loader is the one
\* of the active runtime, as it was before.
LoaderRestored ==
  \A j \in Jobs : Quiet(j) /\ desc[j] = "none" /\ phase[j] = "failed" /\ rolled[j] =>
    loader = record

-----------------------------------------------------------------------------
(* The inductive invariant behind LockHeld, CommitIsProtected and SwitchIsCovered *)

\* A worker knows where it is going, and what protects its transaction grows in the
\* order of the script.
ArmedAt(j) ==
  /\ pc[j] # "none" => target[j] \in Versions
  /\ pc[j] = "arm" => hasBefore[j]
  /\ pc[j] \in {"snap", "move", "register"} => Covered(j)
  /\ pc[j] \in {"stop", "commit"} => Covered(j) /\ task[j]
ArmedInOrder == \A j \in Jobs : ArmedAt(j)

\* A recovery that has begun to undo finds the transaction until it removes it.
UndoIsCovered ==
  \A c \in Callers, j \in Jobs :
    rpc[<<c, j>>] \in {"q_pointer", "q_loader", "q_record", "q_remove", "q_task", "q_snap",
                      "q_before"} => Covered(j)

\* All of it: no step breaks it, whatever the constants are.
IInv == TypeOK /\ LockHeld /\ CommitIsProtected /\ ArmedInOrder /\ UndoIsCovered

-----------------------------------------------------------------------------
(* The hypothesis under which several updates of an installation are safe *)

\* Updates follow each other: run_update means to keep it so, by refusing a new update
\* until the latest has ended (app/backend/lifecycle_v3.py), but it does not always.
InTurn == \A j, k \in Jobs : UnderWay(j) /\ UnderWay(k) => j = k

-----------------------------------------------------------------------------
(* Liveness *)

LockReleased == mutex # NoOne ~> mutex = NoOne

\* An interrupted update is undone or cleaned up the next time the platform starts.
InterruptedUpdateIsResolved ==
  \A j \in Jobs : (desc[j] # "none" /\ pc[j] = "dead") ~> desc[j] = "none"
=============================================================================
