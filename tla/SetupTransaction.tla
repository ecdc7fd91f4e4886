-------------------------- MODULE SetupTransaction --------------------------
(***************************************************************************)
(* Setup (Install.ps1) writing one release into an installation, and the    *)
(* recovery of interrupted setups (SetupRecover.ps1), which the launcher    *)
(* and every later Setup run first.  A setup keeps what it would need to    *)
(* undo itself in lifecycle/v3/setup/<id>: the journal and the saved        *)
(* launcher; the runtime it replaces is moved aside, and the Cadence        *)
(* deployment is saved below the temporary directory.                       *)
(*                                                                          *)
(* Several Setups, the launcher and an update worker share one installation *)
(* and one mutex.  A release is its version; the incoming copy of the       *)
(* payload, progress and logs are left out.                                 *)
(***************************************************************************)
EXTENDS Naturals, FiniteSets

CONSTANTS Setups,      \* runs of Setup
          Requests,    \* what Setup is asked for: an action and the release it carries
          Versions,    \* released runtimes, a greater number is a later release
          Launcher, Updater,   \* the launcher; the worker of an update
          NoOne,       \* the value of the lifecycle mutex when it is free
          MaxFaults,   \* bound: operations that throw
          MaxCrashes,  \* bound: killed processes
          MaxUpdates,  \* bound: updates from within the platform
          MaxOpen      \* bound: Setups that run at once

None == 0
Procs == Setups \union {Launcher}
Actions == {"Install", "Upgrade", "Repair", "Reinstall"}

ASSUME ConstantsOK == /\ Versions \subseteq Nat \ {None}
                      /\ Requests \subseteq Actions \X Versions
                      /\ {Launcher, Updater, NoOne} \cap Setups = {}
                      /\ Launcher # Updater /\ Launcher # NoOne /\ Updater # NoOne
                      /\ MaxFaults \in Nat /\ MaxCrashes \in Nat /\ MaxUpdates \in Nat
                      /\ MaxOpen \in Nat

VARIABLES
  skip,       \* Setup is run with -SkipCadence
  \* the installation
  pointer,    \* installation.json, or NoPointer
  tree,       \* what runtime/<version> holds
  launcher,   \* the release the stable launcher is from
  loader,     \* the runtime the deployed Cadence loader belongs to
  running,    \* the runtime whose backend is running
  \* lifecycle/v3/setup/<id> and what it refers to
  dir,        \* the directory exists
  outcome,    \* of journal.json, "none" when there is no such file
  journal,    \* the notes in journal.json
  saved,      \* launcher-before.exe: the release it is from
  stash,      \* <runtime>.<id>.backup: what the directory moved aside holds
  shot,       \* the Cadence snapshot below the temporary directory
  \* each Setup
  pc, action, target, mem, ran,
  \* recovery, run by the launcher or by a Setup
  rpc, todo, at,
  mutex,
  from,       \* the runtime the running update started from
  faults, crashes, updates,
  before      \* history: the installation when a Setup took the mutex, and when it read it

install == <<pointer, tree, launcher, loader>>
paper   == <<dir, outcome, journal>>
files   == <<paper, saved, stash, shot>>
request == <<action, target, ran>>
locals  == <<request, mem>>
rec     == <<rpc, todo, at>>
given   == <<skip, faults, crashes, updates>>
\* What most steps of Setup, and most of recovery, do not touch.
others  == <<rec, mutex, from, given, before>>
elsewhere == <<pc, locals, todo, at, mutex, from, given, before>>
vars    == <<install, running, files, pc, locals, rec, mutex, from, given, before>>

Seen(taken, read) == [taken |-> taken, read |-> read, pointer |-> pointer, tree |-> tree,
                      launcher |-> launcher, loader |-> loader]

NoPointer == [active |-> None, previous |-> None]
Nothing == [taken |-> FALSE, read |-> FALSE, pointer |-> NoPointer, tree |-> [w \in Versions |-> "absent"],
            launcher |-> None, loader |-> None]
Pointers == [active : Versions \union {None}, previous : Versions \union {None}]
Contents == {"absent", "intact", "damaged"}
Installations == [taken : BOOLEAN, read : BOOLEAN, pointer : Pointers, tree : [Versions -> Contents],
                  launcher : Versions \union {None}, loader : Versions \union {None}]
\* What Write-SetupTransaction writes besides the outcome; mem holds the same variables.
Notes == [old : Versions \union {None}, new : Versions \union {None}, original : Pointers,
          existed : BOOLEAN, created : BOOLEAN, intent : BOOLEAN, moved : BOOLEAN,
          replaced : BOOLEAN, committing : BOOLEAN, committed : BOOLEAN,
          healthy : BOOLEAN, snap : BOOLEAN, oldExisted : BOOLEAN]
NoNotes == [old |-> None, new |-> None, original |-> NoPointer,
            existed |-> FALSE, created |-> FALSE, intent |-> FALSE, moved |-> FALSE,
            replaced |-> FALSE, committing |-> FALSE, committed |-> FALSE,
            healthy |-> FALSE, snap |-> FALSE, oldExisted |-> FALSE]

Forward  == {"read", "prepare", "save", "place", "move", "moved", "movein", "ready", "stop", "snap",
             "launcher", "replaced", "intend", "commit", "committed", "deploy", "serve", "finish"}
Cleaning == {"clean", "unlink", "drop"}
Undoing  == {"u_stop", "u_pointer", "u_launcher", "u_loader", "u_remove", "u_back",
             "u_start", "u_unlink", "u_drop"}
Ended    == {"done", "failed", "dead"}
SetupPCs == {"none", "recover", "create", "note", "enter"} \union Forward \union Cleaning
              \union Undoing \union Ended
RecoverLocked == {"pick", "stop", "remove", "back", "pointer", "launcher", "cadence",
                  "stash", "unlink", "drop"}
RecoverPCs == RecoverLocked \union {"idle", "wait", "clear"}

\* Every variable keeps its type; outcome[s] is one of the two Write-SetupTransaction knows.
TypeOK ==
  /\ skip \in BOOLEAN
  /\ pointer \in Pointers
  /\ tree \in [Versions -> Contents]
  /\ {launcher, loader, running, from} \subseteq Versions \union {None}
  /\ dir \in [Setups -> BOOLEAN]
  /\ outcome \in [Setups -> {"none", "pending", "completed"}]
  /\ journal \in [Setups -> Notes]
  /\ saved \in [Setups -> Versions \union {None}]
  /\ stash \in [Setups -> Contents]
  /\ shot \in [Setups -> Versions \union {None}]
  /\ pc \in [Setups -> SetupPCs]
  /\ action \in [Setups -> Actions]
  /\ target \in [Setups -> Versions \union {None}]
  /\ mem \in [Setups -> Notes]
  /\ ran \in [Setups -> BOOLEAN]
  /\ rpc \in [Procs -> RecoverPCs]
  /\ todo \in [Procs -> SUBSET Setups]
  /\ at \in [Procs -> Setups \union {NoOne}]
  /\ mutex \in Procs \union {Updater, NoOne}
  /\ faults \in 0..MaxFaults /\ crashes \in 0..MaxCrashes /\ updates \in 0..MaxUpdates
  /\ before \in [Setups -> Installations]

(***************************************************************************)
(* A machine without the platform, or with one release installed by an      *)
(* earlier Setup or update: running or not, its runtime as it was shipped,  *)
(* or damaged or deleted since (what Repair and Reinstall are for).         *)
(***************************************************************************)
Init ==
  /\ skip \in BOOLEAN
  /\ \/ /\ pointer = NoPointer
        /\ launcher = None /\ loader = None /\ running = None
        /\ tree = [w \in Versions |-> "absent"]
     \/ \E v \in Versions, c \in Contents :
          /\ pointer = [active |-> v, previous |-> None]
          /\ launcher = v
          /\ loader \in {v, None}
          /\ running \in IF c = "intact" THEN {v, None} ELSE {None}
          /\ tree = [w \in Versions |-> IF w = v THEN c ELSE "absent"]
  /\ dir = [s \in Setups |-> FALSE]
  /\ outcome = [s \in Setups |-> "none"]
  /\ journal = [s \in Setups |-> NoNotes]
  /\ saved = [s \in Setups |-> None]
  /\ stash = [s \in Setups |-> "absent"]
  /\ shot = [s \in Setups |-> None]
  /\ pc = [s \in Setups |-> "none"]
  /\ action = [s \in Setups |-> "Install"]
  /\ target = [s \in Setups |-> None]
  /\ mem = [s \in Setups |-> NoNotes]
  /\ ran = [s \in Setups |-> FALSE]
  /\ rpc = [p \in Procs |-> "idle"]
  /\ todo = [p \in Procs |-> {}]
  /\ at = [p \in Procs |-> NoOne]
  /\ mutex = NoOne
  /\ from = None
  /\ faults = 0 /\ crashes = 0 /\ updates = 0
  /\ before = [s \in Setups |-> Nothing]

-----------------------------------------------------------------------------
(* Helpers *)

Goto(s, p) == pc' = [pc EXCEPT ![s] = p]
Go(s, x, y) == pc[s] = x /\ Goto(s, y)
Keep(s, m) == mem' = [mem EXCEPT ![s] = m]
Open == {s \in Setups : pc[s] \notin {"none"} \union Ended}

\* The process ends: its variables are gone, the mutex it held is free, or abandoned and
\* taken over by the next one, which amounts to the same.
Forget(s) == /\ Keep(s, NoNotes)
             /\ action' = [action EXCEPT ![s] = "Install"]
             /\ target' = [target EXCEPT ![s] = None]
             /\ ran' = [ran EXCEPT ![s] = FALSE]
Leave(s, p) == /\ Goto(s, p)
               /\ mutex' = IF mutex = s THEN NoOne ELSE mutex
               /\ Forget(s)

\* Write-SetupTransaction, pending: the notes in memory become the notes on disk.
\* Write-HwV3JsonAtomic creates the directory if it is gone.
Write(s, m) == /\ Keep(s, m)
               /\ journal' = [journal EXCEPT ![s] = m]
               /\ outcome' = [outcome EXCEPT ![s] = "pending"]
               /\ dir' = [dir EXCEPT ![s] = TRUE]

\* A step that does nothing but write the journal.
Note(s, x, y, m) == /\ Go(s, x, y)
                    /\ Write(s, m)
                    /\ UNCHANGED <<install, running, saved, stash, shot, request, others>>

SetTree(v, c) == tree' = [tree EXCEPT ![v] = c]
SetStash(s, c) == stash' = [stash EXCEPT ![s] = c]

\* Stop-HwV3Service stops the backend of one runtime and no other.
Stopped(v) == IF running = v THEN None ELSE running

-----------------------------------------------------------------------------
(* Setup: before the mutex *)

\* Install.ps1 is started; when there is a directory of an earlier setup it first runs
\* SetupRecover.ps1.
Begin(s) ==
  /\ pc[s] = "none"
  /\ Cardinality(Open) < MaxOpen
  /\ \E r \in Requests : /\ action' = [action EXCEPT ![s] = r[1]]
                         /\ target' = [target EXCEPT ![s] = r[2]]
  /\ LET pending == \E t \in Setups : dir[t]
     IN /\ ran' = [ran EXCEPT ![s] = pending]
        /\ Goto(s, IF pending THEN "recover" ELSE "create")
        /\ rpc' = [rpc EXCEPT ![s] = IF pending THEN "wait" ELSE "idle"]
  /\ UNCHANGED <<install, running, files, mem, todo, at, mutex, from, given, before>>

\* The directory is made, and the launcher looked for, before the mutex is taken.
Create(s) ==
  /\ Go(s, "create", "note")
  /\ dir' = [dir EXCEPT ![s] = TRUE]
  /\ Keep(s, [NoNotes EXCEPT !.new = target[s], !.existed = launcher # None])
  /\ UNCHANGED <<install, running, outcome, journal, saved, stash, shot, request, others>>

\* The first journal, phase "initialized".
NoteInitialized(s) == Note(s, "note", "enter", mem[s])

\* Slip: the mutex is not waited for.
EnterAnyway(s) ==
  /\ Go(s, "enter", "read")
  /\ mutex' = s
  /\ before' = [before EXCEPT ![s] = Seen(TRUE, FALSE)]
  /\ UNCHANGED <<install, running, files, locals, rec, from, given>>

Enter(s) ==
  /\ Go(s, "enter", "read")
  /\ mutex = NoOne
  /\ mutex' = s
  /\ before' = [before EXCEPT ![s] = Seen(TRUE, FALSE)]
  /\ UNCHANGED <<install, running, files, locals, rec, from, given>>

\* installation.json is read, under the mutex; a file that cannot be read, or does not say
\* what it must, is an exception (Throw) with originalMetadata still null.
Read(s) ==
  LET o == pointer.active
  IN /\ Go(s, "read", "prepare")
     /\ Keep(s, [mem[s] EXCEPT !.original = pointer, !.old = o,
                               !.oldExisted = o # None /\ tree[o] # "absent"])
     /\ before' = [before EXCEPT ![s] = Seen(TRUE, TRUE)]
     /\ UNCHANGED <<install, running, files, request, rec, mutex, from, given>>

\* Another operation holds the mutex for 30 seconds: an exception inside the try block.
TimeOut(s) ==
  /\ Go(s, "enter", "u_stop")
  /\ mutex # NoOne
  /\ before' = [before EXCEPT ![s] = Seen(FALSE, FALSE)]
  /\ UNCHANGED <<install, running, files, locals, rec, mutex, from, given>>

-----------------------------------------------------------------------------
(* Setup: under the mutex *)

\* The version of the active runtime is in its manifest; without one it is what
\* installation.json or the registry last said, if anything.
OldVersions(s) ==
  LET o == mem[s].old
  IN IF o = None THEN {[missing |-> FALSE, version |-> None]}
     ELSE [missing : {FALSE}, version : IF tree[o] # "absent" THEN {o} ELSE {}] \union
          [missing : {TRUE}, version : IF tree[o] # "intact" THEN {None} \union {w \in Versions : w <= o}
                                                             ELSE {}]

\* What Setup was asked to do, once the version it finds is known.
Resolved(s, w) ==
  IF ran[s] /\ action[s] \in {"Repair", "Reinstall"} /\ w # None /\ target[s] > w
  THEN "Upgrade" ELSE action[s]

Refused(s, a, found) ==
  \/ a = "Install" /\ mem[s].original # NoPointer
  \/ a = "Upgrade" /\ found.version # None /\ target[s] <= found.version
  \/ /\ a \in {"Repair", "Reinstall"}
     /\ ~found.missing /\ found.version # None /\ target[s] # found.version

\* A request that does not fit what is installed is refused, which is an exception too.
Prepare(s) ==
  /\ pc[s] = "prepare"
  /\ \E found \in OldVersions(s) :
       LET a == Resolved(s, found.version)
       IN IF Refused(s, a, found)
          THEN /\ Goto(s, "u_stop")
               /\ action' = [action EXCEPT ![s] = a]
               /\ UNCHANGED <<mem, journal, outcome, dir>>
          ELSE /\ Goto(s, "save")
               /\ action' = [action EXCEPT ![s] =
                               IF a = "Repair" /\ found.missing THEN "Reinstall" ELSE a]
               /\ Write(s, mem[s])
  /\ UNCHANGED <<install, running, saved, stash, shot, target, ran, rec, mutex, from, given,
                 before>>

\* Slip: the journal promises a saved launcher whether or not there is one yet.
SaveLauncherLater(s) ==
  /\ Go(s, "save", "place")
  /\ Write(s, [mem[s] EXCEPT !.replaced = TRUE])
  /\ UNCHANGED <<install, running, saved, stash, shot, request, others>>

\* The launcher is saved into the directory; one that has gone since Create is an error.
SaveLauncher(s) ==
  /\ pc[s] = "save"
  /\ IF mem[s].existed /\ launcher = None
     THEN Goto(s, "u_stop") /\ UNCHANGED saved
     ELSE /\ Goto(s, "place")
          /\ saved' = [saved EXCEPT ![s] = IF mem[s].existed THEN launcher ELSE None]
  /\ UNCHANGED <<install, running, dir, outcome, journal, stash, shot, locals, others>>

\* The verified copy becomes runtime/<version>.  A directory that is there already is
\* reused if it is the same, moved aside by Repair and Reinstall, an error otherwise.
Place(s) ==
  LET n == target[s]
      o == mem[s].old
      replace == /\ action[s] \in {"Repair", "Reinstall"}
                 /\ ~(action[s] = "Repair" /\ tree[n] = "intact")
  IN /\ pc[s] = "place"
     /\ \/ /\ tree[n] = "absent"
           /\ SetTree(n, "intact")
           /\ Keep(s, [mem[s] EXCEPT !.created = TRUE])
           /\ Goto(s, "ready")
           /\ UNCHANGED <<running, paper>>
        \/ /\ tree[n] # "absent" /\ replace
           /\ running' = IF o = None THEN running ELSE Stopped(o)
           /\ Write(s, [mem[s] EXCEPT !.intent = TRUE, !.healthy = o # None /\ running = o])
           /\ Goto(s, "move")
           /\ UNCHANGED tree
        \/ /\ tree[n] # "absent" /\ ~replace
           /\ Goto(s, IF tree[n] = "intact" THEN "ready" ELSE "u_stop")
           /\ UNCHANGED <<tree, mem, running, paper>>
     /\ UNCHANGED <<pointer, launcher, loader, saved, stash, shot, request, others>>

\* Slip: a stale backup is looked for after the move and not before it.
MoveAsideForgotten(s) ==
  /\ Go(s, "move", "moved")
  /\ running # target[s]
  /\ SetTree(target[s], "absent")
  /\ Keep(s, [mem[s] EXCEPT !.moved = TRUE])
  /\ UNCHANGED <<pointer, launcher, loader, running, files, request, others>>

\* A runtime that serves cannot be moved.
MoveAside(s) ==
  LET n == target[s]
  IN /\ pc[s] = "move"
     /\ IF running = n
        THEN Goto(s, "u_stop") /\ UNCHANGED <<tree, stash, mem>>
        ELSE /\ SetStash(s, tree[n])
             /\ SetTree(n, "absent")
             /\ Keep(s, [mem[s] EXCEPT !.moved = TRUE])
             /\ Goto(s, "moved")
     /\ UNCHANGED <<pointer, launcher, loader, running, paper, saved, shot, request, others>>

NoteMoved(s) == Note(s, "moved", "movein", mem[s])

MoveIn(s) ==
  /\ Go(s, "movein", "ready")
  /\ SetTree(target[s], "intact")
  /\ Keep(s, [mem[s] EXCEPT !.created = TRUE])
  /\ UNCHANGED <<pointer, launcher, loader, running, files, request, others>>

NoteReady(s) == Note(s, "ready", "stop", mem[s])

StopOld(s) ==
  LET o == mem[s].old
  IN /\ Go(s, "stop", "snap")
     /\ IF o # None /\ ~mem[s].moved
        THEN /\ running' = Stopped(o)
             /\ Write(s, [mem[s] EXCEPT !.healthy = running = o])
        ELSE UNCHANGED running /\ Write(s, mem[s])
     /\ UNCHANGED <<install, saved, stash, shot, request, others>>

\* Start-HwAgentCadenceDeploymentTransaction copies the deployment below GetTempPath.
Snapshot(s) ==
  /\ Go(s, "snap", "launcher")
  /\ IF skip
     THEN UNCHANGED <<mem, paper, shot>>
     ELSE /\ shot' = [shot EXCEPT ![s] = loader]
          /\ Write(s, [mem[s] EXCEPT !.snap = TRUE])
  /\ UNCHANGED <<install, running, saved, stash, request, others>>

ReplaceLauncher(s) ==
  /\ Go(s, "launcher", "replaced")
  /\ launcher' = target[s]
  /\ Keep(s, [mem[s] EXCEPT !.replaced = TRUE])
  /\ UNCHANGED <<pointer, tree, loader, running, files, request, others>>

NoteReplaced(s) == Note(s, "replaced", "intend", mem[s])

NoteIntent(s) == Note(s, "intend", "commit", [mem[s] EXCEPT !.committing = TRUE])

\* The metadata Setup writes: a runtime that replaces itself keeps its predecessor.
Installed(s) == [active |-> target[s],
                 previous |-> IF mem[s].old = target[s] THEN mem[s].original.previous
                                                        ELSE mem[s].old]
Commit(s) ==
  /\ Go(s, "commit", "committed")
  /\ pointer' = Installed(s)
  /\ Keep(s, [mem[s] EXCEPT !.committed = TRUE])
  /\ UNCHANGED <<tree, launcher, loader, running, files, request, others>>

NoteCommitted(s) == Note(s, "committed", "deploy", mem[s])

Deploy(s) ==
  /\ Go(s, "deploy", "serve")
  /\ IF skip
     THEN UNCHANGED <<loader, mem, paper>>
     ELSE loader' = target[s] /\ Write(s, mem[s])
  /\ UNCHANGED <<pointer, tree, launcher, running, saved, stash, shot, request, others>>

Serve(s) ==
  /\ Go(s, "serve", "finish")
  /\ running' = target[s]
  /\ UNCHANGED <<install, files, locals, others>>

\* Slip: the phase is written where the outcome belongs.
FinishPhase(s) ==
  /\ Go(s, "finish", "clean")
  /\ outcome' = [outcome EXCEPT ![s] = "runtime_verified"]
  /\ journal' = [journal EXCEPT ![s] = mem[s]]
  /\ UNCHANGED <<install, running, dir, saved, stash, shot, locals, others>>

Finish(s) ==
  /\ Go(s, "finish", "clean")
  /\ outcome' = [outcome EXCEPT ![s] = "completed"]
  /\ journal' = [journal EXCEPT ![s] = mem[s]]
  /\ UNCHANGED <<install, running, dir, saved, stash, shot, locals, others>>

\* What is left over once the journal says completed.
Clean(s) ==
  /\ Go(s, "clean", "unlink")
  /\ shot' = [shot EXCEPT ![s] = None]
  /\ IF mem[s].moved THEN SetStash(s, "absent") ELSE UNCHANGED stash
  /\ UNCHANGED <<install, running, paper, saved, locals, others>>

\* The directory goes file by file, journal.json before launcher-before.exe; at the end
\* of a setup that completed, and of one that has undone itself.
Unlink(s) ==
  /\ pc[s] \in {"unlink", "u_unlink"}
  /\ outcome' = [outcome EXCEPT ![s] = "none"]
  /\ journal' = [journal EXCEPT ![s] = NoNotes]
  /\ Goto(s, IF pc[s] = "unlink" THEN "drop" ELSE "u_drop")
  /\ UNCHANGED <<install, running, dir, saved, stash, shot, locals, others>>

Drop(s) ==
  /\ pc[s] \in {"drop", "u_drop"}
  /\ dir' = [dir EXCEPT ![s] = FALSE]
  /\ saved' = [saved EXCEPT ![s] = None]
  /\ Leave(s, IF pc[s] = "drop" THEN "done" ELSE "failed")
  /\ before' = [before EXCEPT ![s] = Nothing]
  /\ UNCHANGED <<install, running, outcome, journal, stash, shot, rec, from, given>>

-----------------------------------------------------------------------------
(* Setup: the catch block of a setup that has not completed *)

UndoStop(s) ==
  /\ Go(s, "u_stop", "u_pointer")
  /\ running' = IF mem[s].committed THEN Stopped(target[s]) ELSE running
  /\ UNCHANGED <<install, files, locals, others>>

\* installation.json is written back, or deleted when none was read.
UndoPointer(s) ==
  /\ Go(s, "u_pointer", "u_launcher")
  /\ pointer' = mem[s].original
  /\ UNCHANGED <<tree, launcher, loader, running, files, locals, others>>

\* Slip: a launcher this Setup brought is left.
UndoLauncherKept(s) ==
  /\ Go(s, "u_launcher", "u_loader")
  /\ launcher' = IF mem[s].existed /\ saved[s] # None THEN saved[s] ELSE launcher
  /\ UNCHANGED <<pointer, tree, loader, running, files, locals, others>>

UndoLauncher(s) ==
  /\ Go(s, "u_launcher", "u_loader")
  /\ launcher' = CASE mem[s].existed /\ saved[s] # None -> saved[s]
                   [] ~mem[s].existed -> None
                   [] OTHER -> launcher
  /\ UNCHANGED <<pointer, tree, loader, running, files, locals, others>>

UndoLoader(s) ==
  /\ Go(s, "u_loader", "u_remove")
  /\ loader' = IF mem[s].snap THEN shot[s] ELSE loader
  /\ shot' = [shot EXCEPT ![s] = None]
  /\ UNCHANGED <<pointer, tree, launcher, running, paper, saved, stash, locals, others>>

\* The runtime this setup made is removed; files a backend holds open stay, and the
\* deletion throws, which ends the undo.
UndoRemove(s) ==
  LET n == target[s]
      back == mem[s].moved /\ stash[s] # "absent"
      remove == \/ back
                \/ mem[s].created /\ (n # mem[s].old \/ ~mem[s].oldExisted)
      stuck == remove /\ running = n
  IN /\ pc[s] = "u_remove"
     /\ IF remove /\ tree[n] # "absent"
        THEN SetTree(n, IF stuck THEN "damaged" ELSE "absent") ELSE UNCHANGED tree
     /\ IF stuck THEN Leave(s, "failed")
                 ELSE Goto(s, IF back THEN "u_back" ELSE "u_start") /\ UNCHANGED <<mutex, locals>>
     /\ UNCHANGED <<pointer, launcher, loader, running, files, rec, from, given, before>>

UndoBack(s) ==
  /\ Go(s, "u_back", "u_start")
  /\ SetTree(target[s], stash[s])
  /\ SetStash(s, "absent")
  /\ UNCHANGED <<pointer, launcher, loader, running, paper, saved, shot, locals, others>>

UndoStart(s) ==
  /\ Go(s, "u_start", "u_unlink")
  /\ running' = IF mem[s].healthy THEN mem[s].old ELSE running
  /\ UNCHANGED <<install, files, locals, others>>

\* An operation throws: the catch block takes over, gives up when it is running itself,
\* and has nothing to do once transactionCommitted is set, which is before the journal
\* is written.  A deployment or a start that throws may have had its effect.
Throw(s) ==
  /\ faults < MaxFaults
  /\ faults' = faults + 1
  /\ \/ /\ pc[s] \in Forward \ {"finish"}
        /\ Goto(s, "u_stop")
        /\ loader' \in {loader} \union (IF pc[s] = "deploy" /\ ~skip THEN {target[s], None} ELSE {})
        /\ running' \in {running} \union (IF pc[s] = "serve" THEN {target[s]} ELSE {})
        /\ UNCHANGED <<mutex, locals>>
     \/ /\ pc[s] \in Undoing \ {"u_unlink", "u_drop"}
        /\ Leave(s, "failed")
        /\ UNCHANGED <<loader, running>>
     \/ /\ pc[s] \in {"finish", "unlink", "drop"}
        /\ Leave(s, "done")
        /\ UNCHANGED <<loader, running>>
  /\ UNCHANGED <<pointer, tree, launcher, files, rec, from, skip, crashes, updates, before>>

-----------------------------------------------------------------------------
(* SetupRecover.ps1, run by the launcher or by a Setup *)

Step(p, x) == rpc' = [rpc EXCEPT ![p] = x]
RGo(p, x, y) == rpc[p] = x /\ Step(p, y)

\* The script ends, well or with an exception; a Setup whose recovery failed ends too.
RecoverEnd(p, ok) ==
  /\ Step(p, IF p = Launcher /\ ok THEN "clear" ELSE "idle")
  /\ todo' = [todo EXCEPT ![p] = {}]
  /\ at' = [at EXCEPT ![p] = NoOne]
  /\ mutex' = IF mutex = p THEN NoOne ELSE mutex
  /\ pc' = [s \in Setups |-> IF s # p THEN pc[s] ELSE IF ok THEN "create" ELSE "failed"]
  /\ IF ok \/ p = Launcher THEN UNCHANGED locals ELSE Forget(p)

\* The launcher looks for a journal, and goes on when there is none.
Scan ==
  /\ rpc[Launcher] = "idle"
  /\ launcher # None
  /\ Step(Launcher, IF \E s \in Setups : dir[s] /\ outcome[s] # "none" THEN "wait" ELSE "clear")
  /\ UNCHANGED <<install, running, files, elsewhere>>

\* It then starts the active runtime, if it is one.
Launch ==
  /\ rpc[Launcher] = "clear"
  /\ Step(Launcher, "idle")
  /\ running' = IF pointer.active # None /\ tree[pointer.active] = "intact"
                THEN pointer.active ELSE running
  /\ UNCHANGED <<install, files, elsewhere>>

RecoverEnter(p) ==
  /\ RGo(p, "wait", "pick")
  /\ mutex = NoOne
  /\ mutex' = p
  /\ todo' = [todo EXCEPT ![p] = {s \in Setups : dir[s]}]
  /\ UNCHANGED <<install, running, files, pc, locals, at, from, given, before>>

RecoverTimeOut(p) ==
  /\ rpc[p] = "wait"
  /\ mutex # NoOne
  /\ RecoverEnd(p, FALSE)
  /\ UNCHANGED <<install, running, files, from, given, before>>

\* Slip: every directory is taken for one that is pending.
RecoverPickAny(p) ==
  /\ rpc[p] = "pick"
  /\ \E s \in todo[p] :
       IF outcome[s] = "none"
       THEN RecoverEnd(p, FALSE)
       ELSE /\ at' = [at EXCEPT ![p] = s]
            /\ todo' = [todo EXCEPT ![p] = @ \ {s}]
            /\ Step(p, "stop")
            /\ UNCHANGED <<mutex, pc, locals>>
  /\ UNCHANGED <<install, running, files, from, given, before>>

\* The directories are taken in the order of their random names; each must hold a journal.
RecoverPick(p) ==
  /\ rpc[p] = "pick"
  /\ \E s \in todo[p] :
       IF outcome[s] = "none"
       THEN RecoverEnd(p, FALSE)
       ELSE /\ at' = [at EXCEPT ![p] = s]
            /\ todo' = [todo EXCEPT ![p] = @ \ {s}]
            /\ Step(p, IF outcome[s] = "completed" THEN "stash" ELSE "stop")
            /\ UNCHANGED <<mutex, pc, locals>>
  /\ UNCHANGED <<install, running, files, from, given, before>>

RecoverLeave(p) ==
  /\ rpc[p] = "pick"
  /\ todo[p] = {}
  /\ RecoverEnd(p, TRUE)
  /\ UNCHANGED <<install, running, files, from, given, before>>

RecoverStop(p) ==
  LET j == journal[at[p]]
  IN /\ RGo(p, "stop", "remove")
     /\ running' = IF (j.created \/ j.moved \/ j.committed) /\ tree[j.new] # "absent"
                   THEN Stopped(j.new) ELSE running
     /\ UNCHANGED <<install, files, elsewhere>>

\* The runtime of this setup is removed; a moved runtime must still lie where it was
\* moved to.
RecoverRemove(p) ==
  LET s == at[p]
      j == journal[s]
      back == j.moved \/ (j.intent /\ stash[s] # "absent")
      remove == back \/ (j.created /\ j.new # j.old)
      stuck == remove /\ running = j.new
  IN /\ rpc[p] = "remove"
     /\ IF back /\ stash[s] = "absent"
        THEN RecoverEnd(p, FALSE) /\ UNCHANGED tree
        ELSE /\ IF remove /\ tree[j.new] # "absent"
                THEN SetTree(j.new, IF stuck THEN "damaged" ELSE "absent") ELSE UNCHANGED tree
             /\ IF stuck THEN RecoverEnd(p, FALSE)
                         ELSE /\ Step(p, IF back THEN "back" ELSE "pointer")
                              /\ UNCHANGED <<todo, at, mutex, pc, locals>>
     /\ UNCHANGED <<pointer, launcher, loader, running, files, from, given, before>>

RecoverBack(p) ==
  /\ RGo(p, "back", "pointer")
  /\ SetTree(journal[at[p]].new, stash[at[p]])
  /\ SetStash(at[p], "absent")
  /\ UNCHANGED <<pointer, launcher, loader, running, paper, saved, shot, elsewhere>>

\* Slip: the intent is not looked at.
RecoverPointerCommitted(p) ==
  LET j == journal[at[p]]
  IN /\ RGo(p, "pointer", "launcher")
     /\ pointer' = IF j.committed THEN j.original ELSE pointer
     /\ UNCHANGED <<tree, launcher, loader, running, files, elsewhere>>

RecoverPointer(p) ==
  LET j == journal[at[p]]
  IN /\ RGo(p, "pointer", "launcher")
     /\ pointer' = IF j.committing \/ j.committed THEN j.original ELSE pointer
     /\ UNCHANGED <<tree, launcher, loader, running, files, elsewhere>>

RecoverLauncher(p) ==
  LET j == journal[at[p]]
  IN /\ rpc[p] = "launcher"
     /\ IF j.replaced /\ j.existed /\ saved[at[p]] = None
        THEN RecoverEnd(p, FALSE) /\ UNCHANGED launcher
        ELSE /\ Step(p, "cadence")
             /\ launcher' = IF ~j.replaced THEN launcher
                            ELSE IF j.existed THEN saved[at[p]] ELSE None
             /\ UNCHANGED <<todo, at, mutex, pc, locals>>
     /\ UNCHANGED <<pointer, tree, loader, running, files, from, given, before>>

\* A Cadence snapshot must lie below the state root.  It lies below the temporary
\* directory, which is not there (Snapshot), so a journal that names one is refused.
SnapshotAccepted(j) == skip \/ ~j.snap

RecoverCadence(p) ==
  /\ rpc[p] = "cadence"
  /\ IF SnapshotAccepted(journal[at[p]])
     THEN Step(p, "unlink") /\ UNCHANGED <<todo, at, mutex, pc, locals>>
     ELSE RecoverEnd(p, FALSE)
  /\ UNCHANGED <<install, running, files, from, given, before>>

\* A completed setup only leaves things behind.
RecoverStash(p) ==
  /\ RGo(p, "stash", "unlink")
  /\ SetStash(at[p], "absent")
  /\ UNCHANGED <<install, running, paper, saved, shot, elsewhere>>

RecoverUnlink(p) ==
  /\ RGo(p, "unlink", "drop")
  /\ outcome' = [outcome EXCEPT ![at[p]] = "none"]
  /\ journal' = [journal EXCEPT ![at[p]] = NoNotes]
  /\ UNCHANGED <<install, running, dir, saved, stash, shot, elsewhere>>

RecoverDrop(p) ==
  /\ RGo(p, "drop", "pick")
  /\ dir' = [dir EXCEPT ![at[p]] = FALSE]
  /\ saved' = [saved EXCEPT ![at[p]] = None]
  /\ at' = [at EXCEPT ![p] = NoOne]
  /\ before' = [before EXCEPT ![at[p]] = Nothing]
  /\ UNCHANGED <<install, running, outcome, journal, stash, shot, pc, locals, todo, mutex, from,
                 given>>

RecoverThrow(p) ==
  /\ faults < MaxFaults
  /\ faults' = faults + 1
  /\ rpc[p] \in RecoverLocked
  /\ RecoverEnd(p, FALSE)
  /\ UNCHANGED <<install, running, files, from, skip, crashes, updates, before>>

-----------------------------------------------------------------------------
(* Around them *)

\* A Setup is killed, in its own code or in the recovery it runs.
Kill(s) ==
  /\ crashes < MaxCrashes
  /\ crashes' = crashes + 1
  /\ pc[s] \notin {"none"} \union Ended
  /\ Leave(s, "dead")
  /\ rpc' = [rpc EXCEPT ![s] = "idle"]
  /\ todo' = [todo EXCEPT ![s] = {}]
  /\ at' = [at EXCEPT ![s] = NoOne]
  /\ UNCHANGED <<install, running, files, from, skip, faults, updates, before>>

KillLauncher ==
  /\ crashes < MaxCrashes
  /\ crashes' = crashes + 1
  /\ rpc[Launcher] \in RecoverLocked
  /\ RecoverEnd(Launcher, FALSE)
  /\ UNCHANGED <<install, running, files, from, skip, faults, updates, before>>

\* An update from within the platform (module UpdateTransaction), as a whole: it holds
\* the mutex, and ends with a later release installed or with nothing changed.
UpdateBegin ==
  /\ updates < MaxUpdates
  /\ updates' = updates + 1
  /\ mutex = NoOne
  /\ running # None /\ running = pointer.active /\ tree[running] = "intact"
  /\ mutex' = Updater
  /\ from' = running
  /\ UNCHANGED <<install, running, files, pc, locals, rec, skip, faults, crashes, before>>

UpdateEnd ==
  /\ mutex = Updater
  /\ mutex' = NoOne
  /\ from' = None
  /\ \/ UNCHANGED <<install, running, before>>
     \/ \E v \in Versions :
          /\ v > from /\ tree[v] # "damaged"
          /\ pointer' = [active |-> v, previous |-> from]
          /\ SetTree(v, "intact")
          /\ loader' = IF skip THEN loader ELSE v
          /\ running' = v
          /\ before' = [s \in Setups |-> Nothing]
          /\ UNCHANGED launcher
  /\ UNCHANGED <<files, pc, locals, rec, given>>

SetupStep(s) ==
  \/ Create(s) \/ NoteInitialized(s) \/ Enter(s) \/ Read(s) \/ TimeOut(s) \/ Prepare(s)
  \/ SaveLauncher(s) \/ Place(s) \/ MoveAside(s) \/ NoteMoved(s) \/ MoveIn(s) \/ NoteReady(s) \/ StopOld(s)
  \/ Snapshot(s) \/ ReplaceLauncher(s) \/ NoteReplaced(s) \/ NoteIntent(s) \/ Commit(s) \/ NoteCommitted(s)
  \/ Deploy(s) \/ Serve(s) \/ Finish(s) \/ Clean(s) \/ Unlink(s) \/ Drop(s)
  \/ UndoStop(s) \/ UndoPointer(s) \/ UndoLauncher(s) \/ UndoLoader(s) \/ UndoRemove(s)
  \/ UndoBack(s) \/ UndoStart(s)

RecoverStep(p) ==
  \/ RecoverEnter(p) \/ RecoverTimeOut(p) \/ RecoverPick(p) \/ RecoverLeave(p) \/ RecoverStop(p)
  \/ RecoverRemove(p) \/ RecoverBack(p) \/ RecoverPointer(p) \/ RecoverLauncher(p)
  \/ RecoverCadence(p) \/ RecoverStash(p) \/ RecoverUnlink(p) \/ RecoverDrop(p)

Next ==
  \/ \E s \in Setups : Begin(s) \/ SetupStep(s) \/ Throw(s) \/ Kill(s)
  \/ \E p \in Procs : RecoverStep(p) \/ RecoverThrow(p)
  \/ Scan \/ Launch \/ KillLauncher \/ UpdateBegin \/ UpdateEnd

Spec == Init /\ [][Next]_vars

-----------------------------------------------------------------------------
(* What Setup promises *)

\* A Setup that got the mutex and has not ended: at work, cleaning up, or undoing itself.
Inside(s) == \/ pc[s] \in Forward \union Cleaning
             \/ pc[s] \in Undoing /\ before[s].taken

\* Mutual exclusion: a Setup that got the lifecycle mutex has it through its work, its
\* cleanup and its catch block, and a recovery past its wait has it, whoever else is killed,
\* throws or gives up waiting (Enter-HwV3LifecycleMutex).  The catch block of a Setup that
\* gave up waiting runs without it: what that does is FailedSetupIsUndone's question.
LockHeld ==
  /\ \A s \in Setups : Inside(s) => mutex = s
  /\ \A p \in Procs : rpc[p] \in RecoverLocked => mutex = p

\* The runtime a Setup found active is never lost while that Setup can still be undone: it
\* lies where it was or where Repair and Reinstall moved it, through every undo, every
\* interrupted recovery and every later Setup.
OldRuntimeKept ==
  \A s \in Setups :
    LET b == before[s]
        o == b.pointer.active
    IN b.taken /\ o # None /\ outcome[s] = "pending" => b.tree[o] \in {"absent", tree[o], stash[s]}

\* What the catch block takes for the installation.json Setup found: nothing, when the
\* exception came before it was read.
Found(b) == IF b.read THEN b.pointer ELSE NoPointer

\* A Setup that fails under the mutex and gets through its catch block has restored every
\* runtime, the launcher and the Cadence loader, and installation.json when it had read it.
\* When reading it is what failed the catch block has deleted it, and nothing else is lost.
SetupUndone ==
  \A s \in Setups : pc[s] = "u_unlink" /\ before[s].taken =>
    /\ pointer = Found(before[s])
    /\ tree = before[s].tree
    /\ launcher = before[s].launcher
    /\ loader = before[s].loader

\* A recovery that is about to delete the directory of an interrupted Setup has put back
\* what that Setup found: installation.json (unless it could not be read and the catch block
\* was at work), loader, the active runtime (one that had gone before may have been
\* replaced), and the launcher, unless Setup was killed between replacing it and saying so.
RecoveryUndone ==
  \A p \in Procs : rpc[p] = "unlink" /\ outcome[at[p]] = "pending" /\ before[at[p]].taken =>
    LET b == before[at[p]]
        j == journal[at[p]]
    IN /\ pointer \in {b.pointer, Found(b)}
       /\ loader = b.loader
       /\ b.pointer.active # None => b.tree[b.pointer.active] \in {"absent", tree[b.pointer.active]}
       /\ launcher = b.launcher \/ (~j.replaced /\ launcher = j.new)

\* A Setup that has completed stays completed: until its directory is gone, or an update
\* takes over, nobody takes back what it installed.
CompletedSetupStays ==
  \A s \in Setups : outcome[s] = "completed" /\ before[s].taken =>
    LET n == journal[s].new
    IN pointer.active = n /\ tree[n] = "intact" /\ launcher = n /\ (skip \/ loader = n)

\* What SetupRecover.ps1 requires of a pending journal before it will undo it.
Acceptable(s) == /\ journal[s].moved => stash[s] # "absent"
                 /\ journal[s].replaced /\ journal[s].existed => saved[s] # None
                 /\ SnapshotAccepted(journal[s])

\* Until the Cadence snapshot is taken, a Setup killed at any step leaves a journal that
\* recovery accepts: what the journal on disk says has been done and kept is there.
CrashIsRecoverable ==
  \A s \in Setups : pc[s] \in Forward /\ outcome[s] = "pending" /\ ~journal[s].snap => Acceptable(s)

\* HWAgent_Setup.iss:780 says of a Setup that failed that the previous version has been
\* restored: where there was an installation there is one.
FailedSetupIsUndone ==
  \A s \in Setups : pc[s] = "u_unlink" /\ before[s].pointer # NoPointer => pointer # NoPointer

\* docs/INSTALL.md:25 says that an interrupted Setup is recovered before anything else: what
\* a killed Setup leaves is something recovery accepts.
InterruptedSetupIsRecoverable ==
  \A s \in Setups : pc[s] = "dead" /\ outcome[s] = "pending" => Acceptable(s)
=============================================================================
