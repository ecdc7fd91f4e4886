# Verification of the Insta360_HW platform

TLA+ models of the parts of this repository that can lose an installation, a decision or a
result: the update and the Setup transactions of a versioned Windows installation with what
interrupts and what repairs them, and the page, whose tools, drafts, sessions and dialogs must
stay true to what they are of while requests are late, lost, refused or answered out of order.
The modules are checked with TLC on small instances; the properties that hold for every value of
the constants and within the prover's reach are proved with TLAPS.

## 1. Inventory

The platform is a local web application (FastAPI backend, React frontend) for hardware
engineers, installed under a directory with versioned runtimes, `runtime/<version>+<revision>`,
and one pointer file, `installation.json`. A stable launcher starts the runtime the pointer
names. It also deploys a Tcl loader into the Cadence tools of the machine, which open the page
with a Capture export in its address.

| Component | State it keeps | Operations | Talks to | What is hard |
|---|---|---|---|---|
| V3 update backend (`lifecycle_v3*.py`) | job files, `latest.json`, threads and worker pids in memory | check, run, cancel, status | worker (process, job file, handoff file) | a job file written by two processes; a status decision made on stale reads; acknowledgement against a 20 s timeout |
| V3 worker (`Worker.ps1`) | journal, runtime tree, `.recovery/<job>`, boot task, pointer, Cadence deployment | some twenty durable steps, an undo and an abort | lifecycle mutex, backends, recovery | kill or throw between any two steps |
| V3 recovery (`Recover.ps1`, `Resume.ps1`) | none of its own | undo or clean up one job | mutex, launcher, task scheduler | runs twice, concurrently, half done before, against a pointer that moved |
| Launcher (`Insta360_HW.cs`) | its own mutex | recover, then start the active runtime | recovery, backend | must neither skip a pending transaction nor hang on one |
| Cadence deployment transaction (`TclScripts.ps1`) | loader files, state and ownership files, snapshot | start, restore, complete | worker, setup | several files that must agree; a snapshot that is moved |
| V3 setup (`Install.ps1`, `SetupRecover.ps1`, `Uninstall.ps1`) | setup journal, backup of the runtime and of the launcher, pointer | install, reinstall, repair, recover, uninstall | mutex, Cadence, worker leftovers | intent and outcome flags of a journal; a recovery that is itself interrupted |
| BOM wizard (`BomProcessWizard.tsx`) | stage, export, results, choices, spinners | upload, process, decide, review risks, deliver, clear, reload, launch | tools API, workspace storage, address bar | an answer applied with the variables its handler closed over; effects that send requests |
| Workspace storage (`toolWorkspace.ts`) | one draft per tool and tab, a pending write, one entry in localStorage | change, debounce, write, reset, mount, migrate | every pane, other tabs | a write that fires after a reset or next to another tab; a size limit |
| Placement review (`PlacementReview.tsx`) | a resolution per group, filter and pages | seed, move, choose, edit, adopt | wizard, `bom_domain.py`, `bom_classify.py` | a resolution the page counts as complete and the backend refuses; a decision lost by a reload |
| Conflict review (`bomConflictChoices.ts`) | a choice per conflicting code | choose, adopt, merge in bulk, submit | wizard, `bom_process.py` | deciding what was not decided; rounds of at most 50 conflicts |
| Tool panes (compare, netlist, single network, risk, legacy, SMT view) | sources, a result, a spinner | choose, swap, clear, run, confirm, review, reload | tools API, storage | an answer that replaces a later one; a confirmation of something else |
| API client (`client.ts`, `security.py`) | one session request shared by all calls | session, call, renew, retry | backend, restarts | what is retried must not have been executed; several calls refused at once |
| Update dialog (`UpdateStatus.tsx`) | last known status, dialogs, poll, acknowledgement | check, start, poll, cancel, close, reload | update backend, across its restart | following a job over a restart; not hiding its end |
| App shell: the service (`App.tsx`) | count of failed probes, shown status | load, probe, reconnect | health endpoint, launcher | answers that settle in any order |
| App shell: plugins and history (`App.tsx`, `ScriptManager.tsx`, `HistoryView.tsx`) | two lists, their warnings | load, refresh, mount, delete, run | catalog API | lists changed in place, requests that cross, partial failures |
| Result kernels (`summary.ts`, `businessResultGroups.ts`, `grouping.ts`, `spatialIndex.ts`) | none | group findings, group rows, find placements | panes | grouping by two keys in any order; borders of the grid |
| Board canvas, status and home pages | view state | drawing | - | display only |
| V2 lifecycle (`lifecycle_update.py`, `scripts/lifecycle`) | old journals | superseded, read for migration | setup | - |
| Tool jobs (`services/jobs.py`) | job records on disk, worker threads, cancel events | create, transition, cancel, start, restart recovery | repositories, tools | cancellation against completion, restart in the middle |
| Repositories (`repositories/*.py`) | SQLite tables, asset files | store, link, prune, migrate | jobs, history | files and rows that must agree |
| Reconnect and health (`reconnect_protocol.py`, `health.py`) | tokens, identity | probe, reconnect | launcher, page | answer of the wrong backend |
| API, uploads, plugins, logging, diagnostics | request state, configuration | - | all | little |
| BOM, netlist, placement tools and parsers | none | pure computations on files | wizard, panes | data, not control |
| Cadence Tcl tools | - | open the page with an export | wizard | run inside the host application |
| Release pipeline (`scripts/release`) | bundle, receipts, OTA branch | build, verify, publish | git | sequential, run by a person |

What makes each correct, briefly. *Update*: at every instant, whatever is killed, either the
old or the new installation can be started; a completed update stays; an interrupted one is
undone; the user is told what really happened. *Setup*: the same, for a journal that lives in
the state directory. *Cadence*: the deployed loader belongs to the runtime the record names.
*Launcher*: it starts a verified runtime or says why it does not. *Wizard and reviews*: a result,
a report and a decision belong to the export they are shown with; what the page lets through the
backend accepts; nobody waits for a request that is not there. *Storage*: what was last shown is
what is stored, and a reset stays one. *Panes*: results in the order of their requests. *Client*:
at most one execution of a call. *Dialog and shell*: a running job is followed, its end is shown,
the service is shown as it is. *Tool jobs*: a terminal job stays terminal, a cancelled one does
not publish a result.

The hazards found in the survey, each at its line, are in `PROJECT.json`, with the property that
covers it or the reason there is none. Section 6 lists smaller ones that no module covers.

## 2. Modules

| Module | What it is |
|---|---|
| `UpdateTransaction`, `RuntimeSwitch` | worker, recovery, boot task, launcher and the reporting backend of V3 updates, and the abstract switch of a runtime they implement |
| `SetupTransaction` | Setup, the recovery of interrupted Setups, the launcher that runs it, an update in between |
| `BomWizard` | the stages of the BOM wizard and every request it has in flight |
| `ToolWorkspace`, `DraftStore` | the stored workspace of a pane in several tabs, and the abstract store it implements |
| `PlacementReview` | the decisions about what is placed, next to what the backend accepts |
| `ConflictReview` | the decisions about conflicting part variants, asked in rounds |
| `ToolPanes` | the six panes that run one tool |
| `ApiClient` | session, refusal and retry of the page's calls |
| `UpdateDialog` | the dialog that starts and follows an update |
| `AppShell` | whether the page takes the service for running |
| `PlatformLists` | the lists of plugins and runs on the page |
| `FrontendKernels` | the pure functions behind tables and board, next to what they promise |
| `MCUpdateTransaction`, `MCSetupTransaction`, `MCConflictReview`, `MCFrontend` | the small sets for TLC; the last puts the parts of the page into one run |
| `UpdateTransactionProofs`, `SetupTransactionProofs`, `BomWizardProofs`, `ToolWorkspaceProofs`, `ToolPanesProofs`, `SetupUndoProofs`, `ServiceProofs`, `ReviewProofs` | theorems: each about the module it is named after, `SetupUndoProofs` about what Setup undoes, `ServiceProofs` about client, dialog and shell, `ReviewProofs` about the two reviews and the lists |

Slips. In every module, definitions marked `Slip:` are plausible mistakes next to the step they
change (a dropped guard, a missing write, a swapped order). No action uses them; each property is
known to fail when its slip replaces the step.

### UpdateTransaction

State. `pointer` is `installation.json`; `tree[v]` what `runtime/v` holds (nothing, a verified
tree, remains); `loader` the runtime whose loader is deployed and `record` the one the Cadence
state and ownership files name. `hasBefore[j]`, `desc[j]` and `snap[j]` are the three things in
`.recovery/<j>`: `installation-before.json`, `transaction.json` (its `outcome`) and
`cadence_snapshot`. `task[j]` is the registered boot task, `due` the boot tasks the scheduler
will still run in this boot, `armed` the jobs armed in this boot. `phase`, `rolled`, `needs`,
`journal`, `latest` are what the job file, the journal and `latest.json` say. The rest is control:
`pc[j]` the next step of the worker, `rpc[<<c, j>>]` that of a run of `Recover.ps1` for `j` started
by `c`, `lpc` the launcher, `poll` an `update_status` call between its read and its write,
`mutex` the holder of the lifecycle mutex, `running` the runtimes whose backend runs.

Actions. One per durable effect, in the order of the script:

* `RunUpdate`, `PollRead`, `PollDecide`: the backend. A poll is two steps because the job is read
  before the worker's process is looked up; the lookup, the check of the pointer and the write
  are one.
* `WorkerRead` (before the mutex, as in the code), `WorkerEnter`, `WorkerPlace`, `WorkerGuard`,
  `WorkerArm`, `WorkerSnap`, `WorkerMove`, `WorkerRegister`, `WorkerStop`, `WorkerCommit`,
  `WorkerLoad`, `WorkerRecord`, `WorkerServe`, `WorkerOutcome`, `WorkerFinish`, `WorkerClear`,
  `WorkerDrop`, `WorkerUnlink`.
* the undo after a committed pointer: `WorkerQuit`, `WorkerRepoint`, `WorkerReload`,
  `WorkerRerecord`, `WorkerRevive`, `WorkerRemove`, then the clean-up and `WorkerReport`; the abort
  before it: `WorkerRemove`, `WorkerRevive` (only if the backend was stopped), clean-up, report.
* `WorkerThrow`: any step throws, with the `catch` it lands in; `WorkerKill`: the process ends
  between two steps, or in the middle of deleting a tree; `Reboot`: everything ends, registered
  tasks become due.
* `TaskRun` (`Resume.ps1` with its boot check), `LauncherScan` (recover before launch), `Launch`.
* `Recover*`: one run of `Recover.ps1 -JobId`, from the wait for the mutex to the report, with its
  refusals, its throws and its own kill.

Abstractions. Versions are numbers ordered like releases, so that the same release is the same
number. Several Cadence directories are one loader. Download, verification and staging happen
before `start` and touch nothing modelled. The journal and the job file of a final report are one
step (both are only read by reports). The removal of a *completed* transaction is one step, its
halves cannot be told apart by any later decision. `.recovery` is protected, nobody else writes
it. The two callers of `Recover.ps1` both pass `-NoRestart`, so it starts and stops no backend.

`RuntimeSwitch` says what all this promises an installation: it names one sound runtime, and the one
update that is open moves it from the metadata it read to the metadata it writes, and back, and
spoils its own new runtime only while the installation is on the old one. The mapping takes a job
to its two ends (`Ends`) from `WorkerRead` until no process works on it and no transaction of it is
pending (`UnderWay`); which trees are intact is what is sound; mutex, saved files, boot tasks, reports
and who undoes are internal.

### SetupTransaction

State. `pointer`, `tree`, `loader`, `running` as above, but `tree[v]` is also `damaged` (what Repair and
Reinstall are for), and `launcher` is the release of the stable launcher. For each Setup `s`:
`dir[s]` its directory in `lifecycle/v3/setup`, `outcome[s]` and `journal[s]` what its
`journal.json` says, `saved[s]` its `launcher-before.exe`, `stash[s]` the runtime it moved aside,
`shot[s]` its Cadence snapshot. `mem[s]` holds the same flags as the journal, in the variables of
the running script: the difference between the two is what a kill loses. `pc[s]` is its next step,
`rpc[p]`, `todo[p]` and `at[p]` a run of `SetupRecover.ps1` by `p`, the launcher or a Setup, over the
directories it found. `skip` says whether Setup is run with `-SkipCadence`.

Actions. `Begin` (with the recovery of what earlier Setups left), `Create` and `NoteInitialized`
before the mutex, `Enter` or `TimeOut`, `Read` (of `installation.json`, under the mutex; it may throw like any
step, with nothing remembered), then the steps of `Install.ps1` in order: `Prepare` (which
action it really is, or a refusal), `SaveLauncher`, `Place` (a new runtime, a reused one or a
replaced one), `MoveAside`, `MoveIn`, `StopOld`, `Snapshot`, `ReplaceLauncher`, `Commit`, `Deploy`, `Serve`,
`Finish`, `Clean`, `Unlink`, `Drop`, and a `Note...` wherever the script writes its journal between two
effects. `Undo*` is the catch block, `Recover*` is `SetupRecover.ps1`, `Scan` and `Launch` the
launcher. `Throw`, `RecoverThrow`, `Kill` and `KillLauncher` may happen anywhere. `UpdateBegin` and
`UpdateEnd` stand for a whole update from within the platform, which holds the same mutex; how it
works inside is `UpdateTransaction`.

`before[s]` is history: the installation when `s` took the mutex, whether it got it (`taken`) and whether it
has read `installation.json` (`read`). It is forgotten when the
directory of `s` is deleted and when an update completes, which makes a new installation. Left out:
the incoming copy of the payload, V2 installations, the registry, progress and logs.

### The page

All modules of the page share one way of modelling it. A request is an element of the state from
the click that sends it to the answer; what its continuation closed over is in the request, so an
answer is applied with old variables when the code does so. A failed, timed out or aborted request
is an action of its own. A React effect runs before the next event: it is part of the action that
triggers it. A reload restores what was stored and leaves every request to be answered to
nobody. The backend is whatever gives an answer of a kind the page distinguishes; where a property
compares the two, what the backend does is modelled from its Python source.

**`BomWizard`** (`BomProcessWizard.tsx`). `stage` is the screen, `sp` the export on it; `extras`,
`choices` and `placed` say for which export materials were entered, conflicts and placements were
decided; `pres` and `rres` are the results of the run and of the risk review with their spinners
`running` and `rrun`; `modal` is the confirmation dialog with the arguments it closed over,
`uploads` and `calls` are the requests in flight, `saved` the workspace in localStorage and `url` the
address bar. One action per handler: `Upload`, `Uploaded`, `UploadFailed`, `EditExtras`,
`StartProcessing`, `ProcessAnswer` (with the three kinds of answers), `DecidePlacement`,
`DecideConflict`, `ApplyPlacementReview`, `SubmitConflictChoices`, `AskFirstVariant` and its two
answers, `BackToReview`, `EnterRisk`, `RiskAnswer`, `EnterDelivery`, `BackToProcess`, `ClearWorkflow`,
`ResetFromDelivery`, `Persist`, `Mount` (`Reload`, `Launch`). `Show` is what the two effects that send
requests do after a change of state. `overlapped` is history: two uploads have been out at once,
which the code allows and which mixes two exports (see the hazards).

**`ToolWorkspace`** (`toolWorkspace.ts`). Per tab: the draft on the screen, whether its effect is due,
the pending write and `suppress` (the flag of a reset); shared: the entry in localStorage, which may
also be of an older version or foreign. `SetWorkspace`, `Effect`, `Fire` (with the fallbacks for a
draft too large, not serializable or over the quota), `Reset`, `MountTab` (with the migration).
`DraftStore` says what this promises a pane: the entry is a draft that is on a screen when it is
kept, or its light form, and a tab opens on what is kept or anew. The mapping takes each tab to the
draft it shows; timers and flags are internal.

**`PlacementReview`** (`PlacementReview.tsx`, and of the backend what `bom_domain.py` and
`bom_classify.py` refuse). `decided` holds a resolution per group: zone, exclusion, role, subtype,
code, name, source; `filter`, `pages`, `active` are the view, since the buttons offered depend on it;
`offer` is what the dialog of "adopt all" closed over. A text is empty, blank, usable or a
placeholder. Name, model and description are one field, because any of them will do. Of a group the
backend sends what the row holds and what it suggests: the page fills a form from both
(`inferredCode`, `inferredName`), `apply_resolutions` looks at the row and the suggested code only
(`backendAccepts`).

**`ConflictReview`** (`bomConflictChoices.ts`, the buttons of the wizard, `bom_process.py`). `asked`
are the conflicts on the screen, `chosen` all choices, `sent` the choices in a request, `variants` and
`recommended` what the last run found and what it recommends with high confidence; `settled`, `touched`
and `leftOver` (recommendations adopted in an earlier run) are history. A choice is one of the five forms the code normalizes, older numbers included.
`Limit` stands for the 50 conflicts of one answer. `ProcessAgain` is a second run after other
placement decisions, with other conflicts, other recommendations and the same choices.

**`ToolPanes`** (the six panes). `sources` per slot, `outcome` with the number of its run, `spinning`,
`requests`, `lastPaths` (the comparison keeps the uploaded paths for a confirmation), `board` (the
stored board of the SMT view, fetched again on a reload), `view` (filter and finding of a review).
Each pane is its own disjunct with its own handlers; sending, answering and clearing are shared.

**`ApiClient`** (`client.ts`, `security.py`). A token is the number of the backend's start. `session` is
the shared request, `fetched` and `carried` what became of each, `call[c]` where a caller's call is.
`Lose` is the timeout, the abort and the broken connection at any point, with the backend executing
the call or not. The wrappers of the endpoints differ only in their paths and are left out.

**`UpdateDialog`** (`UpdateStatus.tsx`). The backend is its last job; `mount` the two requests of the
page load, `starting` and `newJob` a start, `poll` and `polled` the poll of the open dialog, `ack` the
acknowledgement in localStorage. `CutStatus` is the empty status an unreadable body becomes. `late`
and `cut` are history: a notice that came over a start or the dialog, and a status that was cut, are
the two ways in which the code lets go of a job. What the job itself does is `UpdateTransaction`.

**`AppShell`** (`App.tsx`). The health of the page load settles late, because it waits for the
catalog; the interval and the reconnection share one probe, whose end also continues the one that
waits for it (`Continue`).

**`PlatformLists`** (`App.tsx`, `ScriptManager.tsx`, `HistoryView.tsx`). The catalog asks for both lists at
once, every other request for one; the parts of the catalog arrive one by one and settle together,
plugins with the capabilities as their fallback. A body that is cut, or times out, is read as `{}` by
`apiCall` (`client.ts:122`): the request settles fulfilled and the list comes empty (`Cut`), as it does from
capabilities cut that way (`bare`). What the page has given up may still be done by the backend
(`givenUp`, `HandledLate`). `mixed` and `doubtful` are history: a list is mixed while requests of it that have been
out together are not over, and doubtful from then, or from a lost answer or a cut body, until one
request fetches it while it is not mixed.

**`FrontendKernels`**. `groupFindingsByRecord`, `groupByBusinessOutcome`, `placementGroupsFor`,
`groupSmtItems` and the grid of `spatialIndex.ts` as operators, computed as the code does, with the two
results the backend sends next to them and the page prefers, the number of blocking records and the
placement groups (`bom_semantics/diff.py`), next to what they promise: one group per record with its worst
severity, a partition of the rows, the same groups on both sides, every placement in the box and none outside.
The state is the input.

## 3. Runs

| Run | Instance | Question | Result |
|---|---|---|---|
| `upd_two` | 2 jobs, 3 versions, 1 throw, 1 crash | `LockHeld`, `CommitIsProtected`, `SwitchIsCovered` | hold (1.4 million states) |
| `upd_crash` | 1 job, 1 crash, fair | `CompletedUpdateSurvives`, `RecoveryCanRun`, `LockReleased`, `InterruptedUpdateIsResolved` | hold |
| `upd_fault` | 1 job, 1 throw, 2 crashes | `IInv`, `ActiveIntact`, `SwitchesRuntime` | hold |
| `upd_orphan` | 2 jobs, 1 crash | `CompletedUpdateSurvives` | violated |
| `upd_poll` | 1 job, no failure at all | `RolledBackReportIsTrue` | violated |
| `upd_halfremoved` | 1 job, 2 crashes | `RecoveryCanRun` | violated |
| `upd_loader` | 1 job, 1 crash | `LoaderRestored` | violated |
| `setup_one` | 1 Setup with 1 throw, 1 kill and 1 update, or 2 in a row with 1 kill | `TypeOK`, `LockHeld`, `SetupUndone`, `RecoveryUndone`, `CrashIsRecoverable`, `OldRuntimeKept`, `CompletedSetupStays` | hold (920 thousand states, up to symmetry) |
| `setup_timeout` | 1 Setup, 1 update, no failure | `FailedSetupIsUndone` | violated |
| `setup_snapshot` | 1 Setup, 1 kill | `InterruptedSetupIsRecoverable` | violated |
| `ui` | each part of the page by itself | the 23 properties below | hold (510 thousand states) |
| `conflict_bulk` | 2 conflicts, one asked at a time | `DecidedIsNotAskedAgain` | violated |

The properties of `ui`:

| Module | Property | In words |
|---|---|---|
| `MCFrontend` | `FrontendTypeOK` | the part that runs is well typed |
| `BomWizard` | `ResultOfSource`, `ReportOfResult`, `DecisionsOfSource` | what is shown, and what a run carries, is of the export on the screen |
| | `NoDeadEnd` | a spinner has its request, a page its content |
| `ToolWorkspace` | `StorageKeepsDrafts` | it implements `DraftStore` |
| | `ResetSticks`, `QuietTabIsStored` | a reset stays one; what was last shown is stored |
| `PlacementReview` | `CompleteIsAccepted` | what the page counts as complete the backend accepts, but for a suggested name that was cleared |
| | `ReloadKeepsDecisions`, `DecidedStays` | seeding again changes no decision; a group leaves its zone only by an act on it |
| `ConflictReview` | `SentCoversAsked`, `LowConfidenceIsManual` | a request decides all that was asked; adopting decides no conflict that is uncertain in the run that asks |
| `ToolPanes` | `AnswersInOrder`, `ConfirmsWhatIsShown` | no answer replaces a later one; what is confirmed is what was shown |
| `ApiClient` | `ExecutedOnce`, `RefusedTwiceByAnother` | a call is executed at most once; refused twice only by two backends |
| `UpdateDialog` | `StartedIsFollowed`, `EndIsShownUntilAcknowledged` | a running job is followed; its end is shown until it is acknowledged |
| `AppShell` | `OfflineAfterTwoFailures`, `OnlineAgain` | what is shown is what the last probes say; a service that is back is shown again |
| `PlatformLists` | `ListsAreCurrent` | a list is that of the backend, or the warning names it, or it is in doubt and not yet fetched alone |
| `FrontendKernels` | `KernelsMatch` | grouping and grid compute what they promise, and what the backend has counted and grouped agrees |

**Bounds, update.** Three versions are enough for an active runtime, a retained previous one and a
target; two jobs for everything one transaction can do to another. A crash is a killed worker, a
killed recovery or a reboot: one reaches every interruption, two the interruption of a recovery,
three only repeat the second. A throw is any failing operation; one throw and one crash reach the
failing undo. The violated runs use the smallest bounds that show them; the same properties hold
below these bounds, which is what `upd_crash` and `upd_fault` check, so each pair says exactly what
the property depends on.

**Bounds, Setup.** Two releases are an installed one and a later or an earlier one, and the same; one
throw and one kill reach a kill in the catch block and a throw in a recovery, the update is there
because it is what makes a Setup wait. The constraint `MCScope` keeps two scenarios in one run: a
single Setup with everything that can go wrong, and what a second Setup does to what a killed first
one left, with one request for each action (`MCSome`). `MaxOpen` is 1: Setups run one after the other.
With two at once the promises about the undo fail together, because the one that waits too long
undoes without the mutex, which is `setup_timeout` again; `LockHeld` and `CrashIsRecoverable` do not, and
are proved for any number of them. `CrashIsRecoverable` stops at the Cadence snapshot because of `setup_snapshot`; with
`skip`, where there is no snapshot, it and `RecoveryUndone` cover every later step too.

**Bounds, page.** The parts of the page share no state: every tool has its own key in localStorage, a
response reaches only the component that sent the request, and of the shared session a component
sees only whether its call was answered, which the modules leave open. So `MCFrontend` chooses one part at the start (`unit`) and explores its behaviours
alone; the others stay in an initial state. Two of everything that can be confused: exports (`Files`),
tabs, callers, backend starts, conflicts, plugins, groups, findings of a review. `MaxMade` = 2 runs of
the wizard: one whose answer is out while the other is shown; the invariants were also checked with
3 and 4. `MaxAsked` is 4, twice for each caller, which is all the code can ask for. `MaxRuns` = 2 requests of a
pane, `MaxJobs` = 2 (one from before the page, one from it), `MaxPolls` 3 for the 30 attempts of the
reconnection, `MaxSlow` 2 probes answered too late in a row, which is what makes a running service
look gone, `MaxClicks` = 2 actions on the lists besides the load of the page, with no plugin mounted before it.
`Recommendable` = {3}: the first of two conflicts may be one of high confidence, and may be so in one run and not in
the other. `PageSize` = 1 makes a second page with two
groups. `Offered...` are what the user tries in the placement review: both zones, the roles, exclusions,
texts and filters that decide differently. In `conflict_bulk` the limit is 1 of 2 for 50 of 51.

`CHECK_DEADLOCK FALSE`: once all Setups have ended and there is no launcher left, nothing needs to
happen; of the page, a user who does nothing more and bounds that are used up stop a part for good.
The runs of `UpdateTransaction` check deadlock.

What the violations show:

* `upd_orphan`: worker 1 dies after arming and before the switch. `update_status` sees the pointer
  unchanged, reports a safe failure and allows the next update; the transaction of job 1 stays in
  `.recovery`. Job 2 installs the same release and completes. The launcher then finds job 1, whose
  "committed" metadata equals the actual one, and takes the completed update back.
* `upd_poll`: the worker has started the backend of the new runtime, with the job at
  `verifying_runtime`. That backend reads the job; the worker completes and exits; the poll finds its
  process gone and `installation.json` naming the very runtime it runs from, which it takes for
  "unchanged", and writes "failed, nothing changed" over "completed". A poll of the old backend cannot: it is
  stopped before the switch.
* `upd_halfremoved`: a recovery is killed between deleting `installation-before.json` and
  `transaction.json`. Every later recovery refuses the rest, so the launcher never starts the
  platform again.
* `upd_loader`: the Cadence snapshot remembers where it was taken, is moved, and is later looked
  for where it was; restoring it deletes the deployed loader and brings nothing back.
* `setup_timeout`: an update holds the mutex for longer than 30 s. The waiting Setup throws inside its
  `try` block, before it has read `installation.json`; its catch block concludes that there was none
  and deletes it, while the update works on it. With `MaxFaults` = 1 and no update at all TLC finds a second way:
  reading the file throws under the mutex (`Contract.ps1:396`), and the file that could not be read is
  deleted. `SetupUndone` and `RecoveryUndone` say so (`Found`): everything else is restored then too.
* `setup_snapshot`: the Cadence snapshot of a Setup lies below the temporary directory, recovery accepts
  one below the state root. From the snapshot to the end every kill leaves a journal that is always
  refused, and the launcher and every later Setup stop there. The tests of these kills run with
  `-SkipCadence`.
* `conflict_bulk`: the backend lists 50 conflicts. The user decides them; the rest is asked in a second
  round, and is merged there into the first candidates. `applyFirstVariantMerge` builds its choices
  from the conflicts on the screen and the request replaces all earlier ones, so the decisions of
  the first round are gone and asked again.

**Fairness.** `UpdateTransaction` (`FairSpec`): a worker and a run of `Recover.ps1` that can step, do;
the scheduler runs a due task; the launcher is opened again. Nothing obliges anybody to start an
update, to poll, to fail or to reboot. Opening the platform again is an assumption on the user, and
the promise of docs/UPDATE.md:14 is about exactly that moment. Weak fairness suffices: who waits for
the mutex leaves the queue after 30 s (`RecoverTimeout`) and the launcher starts another run.
`AppShell` (`ShellFairness`): the interval of 5 s fires, and a probe ends, by its answer or its timeout
of 3 s. Neither the page load nor the user nor the service has to do anything. The other modules
state safety only.

## 4. Proofs

What the eight modules named `...Proofs` prove holds for every value of the constants, under the named
assumption that the module they are about makes of them (`ConstantsOK`, `WorkspaceAssumption`,
`ApiAssumption`, `DialogAssumption`, `ShellAssumption`, `PlacementAssumption`, `ConflictAssumption`,
`ListsAssumption`; the wizard and the panes need none). Bounds are constants too, so nothing proved
depends on them, but for the hypotheses without which the theorem is false:

* `MaxOpen = 1` in `SetupUndoProofs`: Setups run one after the other, any number of them and with updates
  in between. With two at once, `setup_timeout` shows what the catch block without the mutex does.
* `InTurn` in the second half of `UpdateTransactionProofs`: updates follow each other, any number of
  them, next to polls, recoveries, launches and reboots. `ActiveIntact`, `PointerMoves` and
  `SwitchesRuntime` need no more: any number of throws and crashes. `run_update` means to keep updates
  in turn, by refusing one until the latest has ended, but does not always. A crash before the
  switch is reported as a safe failure with the transaction still pending (`upd_orphan`). A throw in
  the clean-up of an abort leaves one pending in the same way. And without any failure, a poll that
  read an ended job writes it back late as the latest (`lifecycle_v3.py:726`), so that a third
  update may start while the second one works. A single update is always in turn: `OneUpdateSwitches`
  has no such hypothesis.
* `MaxFaults = 0` for `CompletedUpdateSurvives`: with `MaxFaults = 1` in `upd_crash` TLC finds it violated.
  The descriptor says `completed` (`Worker.ps1:377`), writing the journal or the job throws, the catch
  block restores `installation.json` and leaves the descriptor; a worker killed in that undo is
  recovered as completed, "the verified runtime remains active" (`Recover.ps1:151`), on the old runtime.
* `MaxCrashes <= 1` besides for `RecoveryCanRun`: with two kills it is false (`upd_halfremoved`).

`PlacementAssumption` is the only one that says something of data: the backend proposes a shield only
with a forced review (`bom_classify.py:976`) and knows no type of it but the cover (`:1174`), a
suggested code is not spaces, and what was decided before was validated when it was written
(`bom_domain.py:220`). `ConflictAssumption` asks for at least one variant of each code; what a run
recommends is any variant it has, and none where there is no conflict.

| Module | Theorem | Property |
|---|---|---|
| `UpdateTransactionProofs` | `Invariance`, `TypeCorrect`, `MutualExclusion`, `CommitProtection`, `SwitchCovered` | `IInv`, `TypeOK`, `LockHeld`, `CommitIsProtected`, `SwitchIsCovered` |
| | `ActiveRuntimeIntact`, `PointerMovesAsSaid`, `SwitchImplemented` (updates in turn) | `ActiveIntact`, `PointerMoves`, `SwitchesRuntime` |
| | `OneUpdateSwitches` (a single update) | the same three |
| | `CompletedUpdateIsKept`, `PendingUpdateIsUndoable` (in turn, and no throw) | `CompletedUpdateSurvives`, `RecoveryCanRun` |
| `SetupTransactionProofs` | `SetupExclusion`, `SetupTypes`, `SetupJournalKept` | `LockHeld`, `TypeOK`, `CrashIsRecoverable` |
| `SetupUndoProofs` | `SetupKeepsOldRuntime`, `SetupUndoes`, `RecoveryUndoes`, `CompletedSetupIsKept` | `OldRuntimeKept`, `SetupUndone`, `RecoveryUndone`, `CompletedSetupStays` |
| `BomWizardProofs` | `SomebodyAnswers`, `ResultFits`, `ReportFits`, `DecisionsFit` | `NoDeadEnd`, `ResultOfSource`, `ReportOfResult`, `DecisionsOfSource` |
| `ToolWorkspaceProofs` | `StoreImplemented`, `ResetLeavesNothing`, `QuietIsStored` | `StorageKeepsDrafts`, `ResetSticks`, `QuietTabIsStored` |
| `ToolPanesProofs` | `InOrder`, `ConfirmedIsShown` | `AnswersInOrder`, `ConfirmsWhatIsShown` |
| `ServiceProofs` | `ExecutionOnce`, `RefusalTwice` | `ExecutedOnce`, `RefusedTwiceByAnother` |
| | `StartFollowed`, `EndShown` | `StartedIsFollowed`, `EndIsShownUntilAcknowledged` |
| | `ShownOffline` | `OfflineAfterTwoFailures` |
| `ReviewProofs` | `CompleteAccepted`, `ReloadKept`, `DecidedKept` | `CompleteIsAccepted`, `ReloadKeepsDecisions`, `DecidedStays` |
| | `SentCovers`, `LowConfidenceLeft` | `SentCoversAsked`, `LowConfidenceIsManual` |
| | `ListsCurrent` | `ListsAreCurrent` |

The arguments:

* *Update.* `CommitIsProtected` is not inductive: a worker that has not committed must already have
  armed everything, in the order of the script (`ArmedInOrder`); a recovery that restores the pointer
  must still find the transaction (`UndoIsCovered`); and both need that nobody else touches these
  files meanwhile, which is `LockHeld`. The proof first shows two frames, what a worker step and
  what a recovery step of job `j` leave alone (`WorkerFrame`, `RecoverFrame`): the files of another job
  are never touched, the pointer and the mutex only by who holds it. With them the steps of another
  job are one argument instead of fifty.
* *Updates in turn.* Every step of job `j` has one of a few effects on the runtimes (`WorkerEffect`,
  `RecoverEffect`) and leaves every runtime but its own target alone (`OtherRuntimes`); with `InTurn` only
  one job has effects at all. What is pending is in order (`PendingInOrder`): what is being undone is
  pending, and a job that has not begun has nothing pending. `UpdateIsSound` is the invariant on top: the
  installation names an intact runtime, and of the update under way (`SoundEnds`) it is on one of
  two ends; the old runtime is always intact, the new one from its placement to the switch and
  while it is the active one; whoever deletes the new runtime does so on the old metadata. A step
  that throws or is killed only ever damages the runtime that is not active. The refinement
  (`EffectRefines`) is then one case per effect. `PointerMoves` says the same of `installation.json` alone,
  but also that only the step `WorkerCommit` switches it; no run checks it by itself. `KeptWhenOver`: without a throw a worker undoes
  nothing after the switch, a recovery undoes only what is pending, and what is completed has a
  generation the installation has passed and is no longer pending, also when the worker completes
  between the scan of the launcher and the recovery it starts. `LaterFollows`: an update that is
  under way next to a completed one read a later generation, so its undo does not reach back behind
  it. `PendingIsWhole`: without a throw a transaction stays pending only behind a crash, so the
  recovery of it is not killed between the saved metadata and the descriptor if there is no second
  one. TLC checked the refinement, `PendingInOrder`, `KeptWhenOver` and `LaterFollows` with two jobs before
  they were proved, restricted to the states in turn.
* *Setup.* Every step is one of a few kinds, told by what it does to the steps of the scripts and to
  the mutex (`Moved`, `Ends`, `RMoved`, `REnds`, `Looks`, `Apart`), and only the kinds are argued about. What
  `LockHeld` needs besides the types is `RecoversFirst`: a Setup whose recovery is running is nowhere
  else, so the mutex that recovery frees is not one it works under itself. `LockHeld` covers the catch
  block of a Setup that has entered, and leaves out that of one that timed out, which runs without the
  mutex. `CrashIsRecoverable` needs
  what the notes of a Setup and its journal say of each other before and after the mutex (`Waited`,
  `Kept`).
* *Setup, undone.* `UndoInv` has four parts. `AloneInv`: one Setup at a time works next to no directory
  but its own, because its recovery has met every other one (`RecoverSeesAll`), and what a Setup
  remembers of the installation was taken under the mutex (`Taken`). `Live`: at every step of a
  Setup, tree, pointer, launcher and loader are what it found but for what its notes say it did, and
  the journal lags the notes by one thing at most; so the catch block undoes from the notes alone.
  `Disk`: what is on disk is enough to undo without them, whichever step was the last; it follows from
  `Live` when the Setup is killed, and a recovery, killed itself and run again, keeps it.
  `Repaired`: what a recovery has passed is back. `Done` says the same of a completed Setup: the new
  runtime is active and only the clean-up is left. `LiveTree` is where `intend` before `move` matters, and
  `stash` is what makes an unwritten `moved` harmless.
* *Wizard.* `NoDeadEnd` is inductive by itself, and its proof found what small bounds had hidden: with
  overlapping uploads the risk stage can lie behind an open dialog, whose request then meets the
  effect of that stage. `SendProcess` models that, and the property holds with it. The other three
  need `OneExport`: unless uploads overlapped, what is on the screen and what is saved each fit one
  export (`DraftsFit`), a request in flight was sent from the stage and for the export on the screen
  (`InFlight`), and a dialog closed over what is still there (`DialogFits`).
* *Workspace.* A pending write is of the draft its tab shows (`PendingIsCurrent`); a reset leaves neither
  an entry nor a pending write nor an effect that makes one (`ResetIsClean`); its flag lasts no longer
  than that effect (`FlagIsDue`). With the first, every step is a step of `DraftStore` or none
  (`StepRefines`): `Fire` keeps what is on the screen.
* *Panes.* One request at a time (`OneRequest`), numbered as sent (`Numbered`), and the paths the
  comparison keeps are those of its request or of its result (`PathsKept`). The forty steps of the six
  panes are of seven kinds, and each kind keeps the invariant.
* *Client.* The tokens a call meets are ordered in time (`TokensInOrder`): the second try awaits a
  session asked for after the refusal. A call is executed only where its state says it ended
  (`ExecutedAtTheEnd`), and only a refused one is sent again.
* *Dialog.* Two dialogs never show at once unless a notice came late (`OneAtATime`); jobs are
  numbered in order (`JobsInOrder`), so what is shown of the followed job, or comes with a poll, says
  that it runs (`FollowedIsShown`); the dialog is closed only on an end as new as the one the page
  load found (`KeptIsShown`).
* *Shell.* The count of failures and the shown status change together; the first question of a
  reconnection, whose failure shows the service as gone whatever the count, is only asked while it
  is shown as gone already (`AskedOffline`).

* *Placement.* Every decision fits its group (`Fits`): a placed part has no exclusion, a bracket is not
  excluded and a cover not placed, and a shield without a type is one the group has none for either.
  Seeding, moving and each control of the form keep that, and the backend, which adds a type or an
  exclusion where one is missing, accepts what fits and is complete, unless the suggested name was cleared, and
  then it does not (`FitsAccepted`). The dialog of
  "adopt all" offers what it was computed from as long as it is open (`PlacementInv`).
* *Conflicts.* Whether a choice decides its conflict hangs on the number of variants alone
  (`CompleteKept`), which does not change while a request is out; every button submits choices that
  decide all that is asked (`SentMade`). A run that is repeated makes `leftOver` of what was adopted before it.
* *Lists.* Two requests of one list, one given up by the page included, are out only while it is mixed
  (`Alone`), and a mixed list is in doubt. For a list that is not in doubt, what a request brings is what the
  backend has, because nothing but a request changes the backend (`Holds`), and a run is deleted
  from a list that was current at the click. An answer closes the list with that (`Closed`), a fetch takes the
  doubt away only when nothing else is out (`Undoubted`), anything sent opens the list (`Opened`). The proof showed that `BackendDoes` left open what a
  deletion does to the mounted plugins: `CASE` arms that overlap may be taken in any order, though TLC
  takes the first. Here and elsewhere they are alternatives in order now.

Only model-checked. `KernelsMatch`: the kernels are folds and
recursion over data, whose induction is out of reach of the prover. `FrontendTypeOK`, which is about the
composition for TLC only. Liveness (`InterruptedUpdateIsResolved`, `LockReleased`, `OnlineAgain`) under
fairness, which is out of the prover's reach too.

## 5. Plan

Done, in this order: the update transaction with its runs and theorems; the Setup transaction; the
page, first the wizard and its storage with the refinement, then reviews, panes, client, dialog,
shell, lists and kernels; the proofs about them; the update as a refinement of `RuntimeSwitch`, and
its theorems for any number of updates in turn.

What would come next:

1. `UpdatePreparation` (`_prepare_update`, `_wait_for_worker_ack`, `cancel_update`): threads, the
   cancel event, the acknowledgement race, the handoff file and reused pids.
2. `UpdateContract`: what the whole lifecycle promises about pointer and report, with
   `UpdateTransaction` below it and the job of `UpdateDialog` above it.
3. `PersistentJobs` (`services/jobs.py`) over an abstract job life cycle it implements; then its
   store in `runs_repository.py`.
4. The worker of `UpdateTransaction` in place of the abstract update of `SetupTransaction`: a Setup that
   was killed, an update to the same release, then the recovery of the Setup.

## 6. Not modelled

* *Preparation of an update* (download, staging, acknowledgement, cancellation), *tool jobs* and their
  *repositories*: stateful and worth it, see the plan. The page runs its tools through
  `/api/tools/<id>`, not through the jobs.
* *Uninstall*, the *Setup front end*, the *V2 lifecycle*: sequential, or superseded.
* *Parsers, BOM semantics, netlist, placement and network tools*: functions of files; what they
  refuse or ask back is in the reviews, the rest has no state to interleave.
* *Board canvas, reference list, viewport, home and status pages*: they draw what the modelled parts
  bring. In the modelled files: texts, tables, hover and zoom; drag and drop, which makes the same
  move as the buttons; installing and detaching the Cadence integration (`UpdateStatus.tsx:276-333`);
  details of a run; upload progress.
* *API routing, plugin discovery, logging, diagnostics, Cadence Tcl tools, release scripts*: reasons
  with each component in `PROJECT.json`.

Hazards read in the code and covered by no module, besides those listed without a property in
`PROJECT.json`: a cancellation accepted on a phase read before the worker is launched
(`lifecycle_v3.py:628`); `recovery_required` cleared only by a recovery of its own job (`:593`); a reused
process id that keeps a dead worker alive (`:718`); `Recover.ps1:85` without a job id, which stops at
the first job it cannot undo; `launcherExisted` read before the mutex (`Install.ps1:346`); an older
Setup undone after a newer one (`SetupRecover.ps1:121`).

Where a property makes an exception, the code does too, and nothing in the repository promises
otherwise. Each is a condition in the property itself, kept as narrow as it can be:

* two uploads at once (`overlapped`, `BomProcessWizard.tsx:161`);
* an answer after clearing or swapping (`BomComparePane.tsx:514`, `NetlistComparePane.tsx:84`);
* lists that are in doubt (`doubtful`): requests that were out together (`HistoryView.tsx:41`), done after
  the page gave them up, lost, or cut and read as empty without a warning (`client.ts:122`,
  `App.tsx:175`), until the list is fetched alone;
* a suggested name the user has cleared (`SuggestionCleared`): the page counts it
  (`PlacementReview.tsx:278`), the backend refuses the run (`bom_classify.py:1518-1525`);
* a recommendation adopted in an earlier run, of a conflict that is uncertain in the new one (`leftOver`,
  `bom_process.py:975`);
* findings that name no record (`nameless`): the header counts one for each code (`diff.py:937`), the
  page shows one group for all;
* a notice over a start (`UpdateStatus.tsx:106`, `:114`) and a status that is cut and reads as an empty one
  (`UpdateStatus.tsx:149`);
* an `installation.json` that Setup could not read (`Found`, `Install.ps1:602`), see `setup_timeout`.
