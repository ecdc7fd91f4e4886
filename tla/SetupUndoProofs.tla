--------------------------- MODULE SetupUndoProofs ---------------------------
(***************************************************************************)
(* What a Setup promises about undoing, for any number of Setups that run  *)
(* one after the other, of failures and of kills: the catch block and the  *)
(* recovery each put the installation back as the Setup found it, the      *)
(* runtime that was there is never lost, and a completed Setup stays.      *)
(*                                                                         *)
(* With two at once the properties are false: a Setup that waits for the   *)
(* mutex too long runs its catch block without it.                         *)
(***************************************************************************)
EXTENDS SetupTransactionProofs, FiniteSetTheorems

-----------------------------------------------------------------------------
(* One Setup at a time *)

\* No two Setups run.
OneOpen == \A s, t \in Open : s = t

\* One directory at a time, and nobody works next to that of another.
DirsApart == \A s, t \in Setups : dir[s] /\ (dir[t] \/ Working(t)) => s = t

\* The recovery of a Setup meets every directory there is.
RecoverSeesAll ==
  \A s, t \in Setups : rpc[s] \in RecoverLocked /\ dir[t] => t \in todo[s] \union {at[s]}

\* A journal lies in a directory.
JournalInDir == \A s \in Setups : /\ outcome[s] # "none" => dir[s]
                                  /\ outcome[s] = "none" => journal[s] = NoNotes

\* A runtime is moved aside once the journal says it may be.
StashNoted == \A s \in Setups : stash[s] # "absent" => journal[s].intent

\* Who holds the mutex works under it.
HolderWorks == \A s \in Setups : mutex = s => pc[s] \notin {"none", "create", "note", "enter"} \union Ended

\* What a Setup keeps on disk at each of its places.
Fresh(s) ==
  /\ pc[s] \in {"none", "recover", "create", "note", "drop", "u_drop"} => outcome[s] = "none"
  /\ pc[s] \in {"none", "recover", "create"} => ~dir[s]
  /\ pc[s] \in Outside \union Early \union {"save"} => saved[s] = None
  /\ Working(s) /\ pc[s] # "create" => mem[s].new = target[s]
  /\ pc[s] \in Forward \ Early => outcome[s] = "pending"
  /\ pc[s] \in {"clean", "unlink"} => outcome[s] = "completed"
  /\ outcome[s] = "completed" => pc[s] \in {"clean", "unlink"} \union Ended
  /\ pc[s] \in {"enter", "read"} /\ outcome[s] # "none" => journal[s] = mem[s]
  /\ pc[s] \in {"note", "enter", "read"} =>
       mem[s].original = NoPointer /\ mem[s].old = None /\ ~mem[s].oldExisted

\* A Setup that waits knows whether there is a launcher.
LauncherSeen == \A s \in Setups : pc[s] \in {"note", "enter"} => mem[s].existed = (launcher # None)

\* A Setup remembers what it found as long as it has the mutex, and from when it has.
Taken(s) ==
  /\ before[s].taken /\ pc[s] \in Undoing => mutex = s
  /\ mutex = s /\ pc[s] # "recover" => before[s].taken
  /\ pc[s] \in Outside => ~before[s].taken

\* The directory a recovery is at belongs to nobody who works under the mutex, and holds what the
\* place of the recovery says it does.
AtOutside(p) ==
  LET s == at[p]
      r == rpc[p]
  IN s # NoOne =>
       /\ pc[s] \in {"enter"} \union Undoing \union Ended
       /\ r = "drop" => outcome[s] = "none"
       /\ r = "back" => stash[s] # "absent" /\ (journal[s].moved \/ journal[s].intent)
       /\ outcome[s] = "completed" => r \in {"stash", "unlink", "drop"}
       /\ outcome[s] = "pending" => r # "stash"
       /\ r \in {"pointer", "launcher", "cadence", "unlink", "drop"} => stash[s] = "absent"

\* One Setup runs after the other, each next to no directory but its own.
AloneInv ==
  /\ OneOpen /\ DirsApart /\ RecoverSeesAll /\ JournalInDir /\ StashNoted /\ HolderWorks /\ LauncherSeen
  /\ \A s \in Setups : Fresh(s) /\ Taken(s)
  /\ \A p \in Procs : AtOutside(p)

\* What is proved of any number of Setups.
Base == ConstantsOK /\ TypeInv /\ ExclusionInv /\ NotesInv

\* Nobody else runs while a Setup works.
LEMMA Alone ==
  ASSUME Base, AloneInv, NEW s \in Setups, Working(s), NEW t \in Setups, t # s
  PROVE  /\ pc[t] \in {"none"} \union Ended
         /\ rpc[t] = "idle" /\ at[t] = NoOne
         /\ ~dir[t] /\ outcome[t] = "none" /\ journal[t] = NoNotes /\ stash[t] = "absent"
<1>1. s \in Open /\ pc[t] \in {"none"} \union Ended
  BY DEF AloneInv, OneOpen, Open, Working
<1>2. rpc[t] = "idle"
  BY <1>1, Places DEF Base, ExclusionInv, RecoversFirst
<1>3. at[t] = NoOne
  BY <1>2, Places DEF Base, TypeInv, AtKnown, Procs
<1>4. ~dir[t] /\ outcome[t] = "none" /\ journal[t] = NoNotes
  BY DEF AloneInv, DirsApart, JournalInDir
<1>5. stash[t] = "absent"
  BY <1>4, NothingNoted DEF AloneInv, StashNoted, Flagless
<1> QED BY <1>1, <1>2, <1>3, <1>4, <1>5

\* What a Setup does at its own directory.
LEMMA OwnAlone ==
  ASSUME Base, AloneInv, NEW s \in Setups, SetupStep(s)
  PROVE  /\ outcome'[s] # "none" => dir'[s]
         /\ outcome'[s] = "none" => journal'[s] = NoNotes
         /\ mutex' = s => pc'[s] \notin {"none", "create", "note", "enter"} \union Ended
         /\ Fresh(s)'
<1> USE DEF Forward, Cleaning, Undoing, Ended, Outside, Early, Go, Goto, Fresh, Working
<1>0. /\ mem[s] \in Notes /\ pc \in [Setups -> SetupPCs] /\ TypeOK /\ TypeInv /\ ConstantsOK
      /\ tree \in [Versions -> Contents] /\ saved \in [Setups -> Versions \union {None}] /\ stash \in [Setups -> Contents]
      /\ outcome \in [Setups -> {"none", "pending", "completed"}] /\ dir \in [Setups -> BOOLEAN]
      /\ journal \in [Setups -> Notes] /\ mem \in [Setups -> Notes]
      /\ pc[s] \in Forward \union Cleaning => mutex = s
  BY DEF Base, TypeInv, TypeOK, ExclusionInv, LockHeld, Inside
<1>h. /\ outcome[s] # "none" => dir[s]
      /\ outcome[s] = "none" => journal[s] = NoNotes
      /\ mutex = s => pc[s] \notin {"none", "create", "note", "enter"} \union Ended
      /\ Fresh(s)
  BY DEF AloneInv, JournalInDir, HolderWorks
<1>u. UNCHANGED paper => Unwritten(s)
  BY DEF paper, Unwritten
<1>1. CASE NoteInitialized(s) \/ NoteMoved(s) \/ NoteReady(s) \/ NoteReplaced(s)  \/ NoteCommitted(s)
  <2>1. Written(s) /\ mem'[s] = mem[s] /\ UNCHANGED <<saved, mutex, target>>
    BY <1>0, <1>1, WriteAt DEF NoteInitialized, NoteMoved, NoteReady, NoteReplaced,
       NoteCommitted, Note, others, request
  <2> QED BY <1>0, <1>h, <1>1, <2>1 DEF NoteInitialized, NoteMoved, NoteReady, NoteReplaced,
       NoteCommitted, Note, Written
<1>2. CASE Enter(s)
  BY <1>2, <1>0, <1>h DEF Enter, files, paper, locals, request
<1>22. CASE Read(s)
  BY <1>22, <1>0, <1>h, ReadNotes DEF Read, files, paper, request
<1>3. CASE TimeOut(s)
  BY <1>3, <1>0, <1>h DEF TimeOut, files, paper, locals, request
<1>4. CASE Create(s)
  BY <1>4, <1>0, <1>h, CreateNotes, CreateFinds DEF Create, others, request
<1>5. CASE SaveLauncher(s)
  BY <1>5, <1>0, <1>h DEF SaveLauncher, others, locals, request
<1>6. CASE Prepare(s)
  <2>1. UNCHANGED <<saved, mutex, target>> /\ pc[s] = "prepare"
    BY <1>6 DEF Prepare
  <2>2. CASE pc'[s] = "u_stop" /\ Quiet(s)
    BY <2>1, <2>2, <1>0, <1>h DEF Quiet, Unwritten
  <2>3. CASE pc'[s] = "save" /\ mem'[s] = mem[s] /\ Written(s)
    BY <2>1, <2>3, <1>0, <1>h DEF Written
  <2> QED BY <1>0, <1>6, <2>2, <2>3, SetupNotes
<1>7. CASE Place(s)
  <2>1. UNCHANGED <<saved, mutex, target>> /\ pc[s] = "place"
    BY <1>7 DEF Place, others, request
  <2>2. CASE pc'[s] = "ready" /\ Notes1(s, "created")
    BY <2>1, <2>2, <1>0, <1>h DEF Notes1, Unwritten, Adds, SameFound
  <2>3. CASE pc'[s] = "move" /\ Notes2(s, "intent")
    BY <2>1, <2>3, <1>0, <1>h DEF Notes2, Written, Adds, SameFound
  <2>4. CASE pc'[s] \in {"u_stop", "ready"} /\ Quiet(s)
    BY <2>1, <2>4, <1>0, <1>h DEF Quiet, Unwritten
  <2> QED BY <1>0, <1>7, <2>2, <2>3, <2>4, SetupNotes
<1>8. CASE MoveAside(s)
  <2>1. UNCHANGED <<saved, mutex, target>> /\ pc[s] = "move"
    BY <1>8 DEF MoveAside, others, request
  <2>2. CASE pc'[s] = "u_stop" /\ Quiet(s)
    BY <2>1, <2>2, <1>0, <1>h DEF Quiet, Unwritten
  <2>3. CASE pc'[s] = "moved" /\ Notes1(s, "moved")
    BY <2>1, <2>3, <1>0, <1>h DEF Notes1, Unwritten, Adds, SameFound
  <2> QED BY <1>0, <1>8, <2>2, <2>3, SetupNotes
<1>9. CASE MoveIn(s) \/ ReplaceLauncher(s) \/ Commit(s)
  <2>1. \E f : Notes1(s, f)
    BY <1>0, <1>9, SetupNotes
  <2> QED BY <1>0, <1>h, <1>9, <2>1 DEF MoveIn, ReplaceLauncher, Commit, files, request, others,
       Notes1, Unwritten, Adds, SameFound
<1>10. CASE StopOld(s) \/ NoteIntent(s)
  <2>1. \E f : Notes2(s, f)
    BY <1>0, <1>10, SetupNotes
  <2> QED BY <1>0, <1>h, <1>10, <2>1 DEF StopOld, NoteIntent, Note, install, request, others,
       Notes2, Written, Adds, SameFound
<1>11. CASE Snapshot(s) \/ Deploy(s)
  <2>1. UNCHANGED <<saved, mutex, target>> /\ pc[s] \in {"snap", "deploy"} /\ pc'[s] \in {"launcher", "serve"}
    BY <1>0, <1>11 DEF Snapshot, Deploy, others, request
  <2>2. CASE Quiet(s)
    BY <2>1, <2>2, <1>0, <1>h DEF Quiet, Unwritten
  <2>3. CASE \E f : Notes2(s, f)
    BY <2>1, <2>3, <1>0, <1>h DEF Notes2, Written, Adds, SameFound
  <2> QED BY <1>0, <1>11, <2>2, <2>3, SetupNotes
<1>16. CASE Serve(s) \/ Finish(s) \/ Clean(s)
  BY <1>0, <1>h, <1>16 DEF Serve, Finish, Clean, files, paper, install, locals, others, request
<1>17. CASE Unlink(s)
  BY <1>0, <1>h, <1>17 DEF Unlink, locals, others, request
<1>18. CASE Drop(s)
  BY <1>0, <1>h, <1>18 DEF Drop, Leave, ConstantsOK
<1>19. CASE UndoStop(s) \/ UndoPointer(s) \/ UndoLauncher(s) \/ UndoLoader(s)
  BY <1>0, <1>h, <1>19 DEF UndoStop, UndoPointer, UndoLauncher, UndoLoader, files, paper,
     locals, others, request
<1>20. CASE UndoRemove(s)
  <2>1. CASE Leave(s, "failed")
    BY <2>1, <1>0, <1>h, <1>20 DEF UndoRemove, Leave, files, paper, ConstantsOK
  <2>2. CASE pc'[s] \in {"u_start", "u_back"} /\ UNCHANGED <<mutex, locals>>
    BY <2>2, <1>20, <1>h DEF UndoRemove, locals, request, files, paper
  <2> QED BY <1>0, <1>20, <2>1, <2>2 DEF UndoRemove
<1>21. CASE UndoBack(s) \/ UndoStart(s)
  BY <1>0, <1>h, <1>21 DEF UndoBack, UndoStart, files, paper, locals, others, request
<1> QED BY <1>1, <1>2, <1>3, <1>4, <1>5, <1>6, <1>7, <1>8, <1>9, <1>10, <1>11, <1>16, <1>17,
     <1>18, <1>19, <1>20, <1>21, <1>22 DEF SetupStep

-----------------------------------------------------------------------------
(* What the installation looks like *)

\* The forward steps, by what has been done.
ToTree == Early \union {"save", "place", "move"}
FromTree == {"ready", "stop", "snap", "launcher", "replaced", "intend", "commit", "committed", "deploy",
             "serve", "finish"}
ToLauncher == ToTree \union {"moved", "movein", "ready", "stop", "snap", "launcher"}
FromLauncher == {"replaced", "intend", "commit", "committed", "deploy", "serve", "finish"}
FromCommit == {"committed", "deploy", "serve", "finish"}
FromSnap == {"launcher"} \union FromLauncher

\* A Setup at work noted what it found, and its journal lags its notes by one thing at most.
LiveNotes(s) ==
  LET b == before[s] m == mem[s] n == target[s] c == pc[s] j == journal[s] IN
      /\ c \in Forward => (b.read <=> c # "read")
      /\ m.original = Found(b) /\ m.old = Found(b).active
      /\ m.oldExisted = (m.old # None /\ b.tree[m.old] # "absent")
      /\ m.existed = (b.launcher # None)
      /\ outcome[s] = "pending" =>
           /\ j.snap = m.snap /\ j.new = n /\ j.existed = m.existed /\ j.intent = m.intent
           /\ j.replaced => m.replaced
           /\ m.committed => j.committing
           /\ j.committing \/ j.committed => j.original = m.original
           /\ j.created => m.created
           /\ j.moved => m.moved
           /\ j.created => j.moved = m.moved
      /\ c \in {"commit"} \union FromCommit => m.committing /\ j.committing
      /\ m.moved => m.intent
      /\ m.committed => m.committing
      /\ c = "move" => m.intent

\* The runtimes are as it found them, but for the one its notes say it moved aside or put in.
LiveTree(s) ==
  LET b == before[s] m == mem[s] n == target[s] c == pc[s] IN
      /\ \A v \in Versions \ {n} : tree[v] = b.tree[v]
      /\ m.moved => b.tree[n] # "absent"
      /\ m.created /\ ~m.moved => b.tree[n] = "absent"
      /\ ~m.created /\ ~m.moved => tree[n] = b.tree[n]
      /\ IF c \in {"u_start", "u_unlink"}
         THEN tree[n] = b.tree[n] /\ stash[s] = "absent"
         ELSE stash[s] = IF m.moved THEN b.tree[n] ELSE "absent"
      /\ c = "u_back" => m.moved
      /\ c = "move" => b.tree[n] # "absent"
      /\ c \in ToTree => ~m.moved /\ ~m.created
      /\ c = "moved" \/ c = "movein" => m.moved
      /\ c \in FromTree => tree[n] = "intact"

\* installation.json is as it found it until it commits.
LivePointer(s) ==
  LET b == before[s] c == pc[s] IN
      /\ c \in Forward \ FromCommit => pointer = b.pointer
      /\ c \in FromCommit => pointer.active = target[s] /\ mem[s].committed
      /\ c \in Undoing \ {"u_stop", "u_pointer"} => pointer = Found(b)
      /\ c \in {"u_stop", "u_pointer"} /\ ~mem[s].committed => pointer = b.pointer

\* The launcher is as it found it, or its own, with what it found saved.
LiveLauncher(s) ==
  LET b == before[s] m == mem[s] c == pc[s] IN
      /\ saved[s] = b.launcher \/ (saved[s] = None /\ launcher = b.launcher /\ ~m.replaced)
      /\ c \in Forward \ (Early \union {"save"}) => saved[s] = b.launcher
      /\ ~m.replaced => launcher = b.launcher
      /\ c \in ToLauncher => ~m.replaced
      /\ c \in FromLauncher => launcher = target[s] /\ m.replaced
      /\ c \in Undoing \ {"u_stop", "u_pointer", "u_launcher"} => launcher = b.launcher
      /\ launcher \in {b.launcher, target[s]}

\* The Cadence loader is as it found it, or it has a snapshot of it.
LiveLoader(s) ==
  LET b == before[s] m == mem[s] c == pc[s] IN
      /\ skip => ~m.snap
      /\ ~m.snap => loader = b.loader
      /\ m.snap /\ c \in Forward \union {"u_stop", "u_pointer", "u_launcher", "u_loader"} => shot[s] = b.loader
      /\ c \in Forward \ FromSnap => ~m.snap
      /\ c \in FromSnap => skip \/ m.snap
      /\ c \in {"serve", "finish"} => skip \/ loader = target[s]
      /\ c \in {"u_remove", "u_back", "u_start", "u_unlink"} => loader = b.loader

\* A Setup at work can undo what it did from what it remembers.
Live(s) == before[s].taken /\ pc[s] \in Forward \union (Undoing \ {"u_drop"}) =>
    LiveNotes(s) /\ LiveTree(s) /\ LivePointer(s) /\ LiveLauncher(s) /\ LiveLoader(s)

\* A recovery can undo what a Setup did from what it finds on disk.
Disk(s) ==
  LET b == before[s] j == journal[s] IN
    b.taken /\ outcome[s] = "pending" =>
      /\ (IF j.committing \/ j.committed THEN j.original ELSE pointer) \in {b.pointer, Found(b)}
      /\ skip \/ ~j.snap => loader = b.loader
      /\ IF ~j.replaced THEN launcher \in {b.launcher, j.new}
         ELSE IF j.existed THEN saved[s] = b.launcher ELSE b.launcher = None
      /\ \A v \in Versions \ {j.new} : tree[v] = b.tree[v]
      /\ stash[s] # "absent" => stash[s] = b.tree[j.new]
      /\ stash[s] = "absent" => tree[j.new] = b.tree[j.new] \/ b.tree[j.new] = "absent"
      /\ j.created /\ ~j.moved => b.tree[j.new] = "absent"
      /\ j.new \in Versions

\* A completed Setup is not undone, and leaves no backup when its directory goes.
Done(s) ==
  before[s].taken /\ outcome[s] = "completed" =>
    LET n == journal[s].new
    IN /\ pointer.active = n /\ tree[n] = "intact" /\ launcher = n /\ (skip \/ loader = n)
       /\ pc[s] = "clean" => (mem[s].moved \/ stash[s] = "absent")
       /\ pc[s] = "unlink" => stash[s] = "absent"

\* A recovery has put back what the steps it has done put back.
Repaired(p) == at[p] # NoOne => LET s == at[p] b == before[s] j == journal[s] IN
    b.taken /\ outcome[s] = "pending" =>
      /\ rpc[p] \in {"launcher", "cadence", "unlink"} => pointer \in {b.pointer, Found(b)}
      /\ rpc[p] \in {"cadence", "unlink"} => launcher = b.launcher \/ (~j.replaced /\ launcher = j.new)
      /\ rpc[p] = "unlink" => skip \/ ~j.snap

\* A runtime is moved aside only once the journal says so.
LEMMA OwnStash ==
  ASSUME Base, AloneInv, NEW s \in Setups, Live(s), Done(s), SetupStep(s)
  PROVE  stash'[s] # "absent" => journal'[s].intent
<1> USE DEF Forward, Cleaning, Undoing, Ended, Outside, Go, Goto
<1>0. /\ mem[s] \in Notes /\ pc \in [Setups -> SetupPCs] /\ TypeOK /\ TypeInv /\ ConstantsOK
      /\ stash \in [Setups -> Contents] /\ outcome \in [Setups -> {"none", "pending", "completed"}]
      /\ journal \in [Setups -> Notes]
  BY DEF Base, TypeInv, TypeOK
<1>1. stash[s] # "absent" => journal[s].intent
  BY DEF AloneInv, StashNoted
<1>2. pc[s] \in Forward \union Cleaning => before[s].taken
  BY DEF Base, ExclusionInv, LockHeld, Inside, AloneInv, Taken
<1>3. pc[s] \in Forward /\ stash[s] # "absent" => mem[s].intent
  BY <1>2 DEF Live, LiveTree, LiveNotes, ToTree
<1>4. pc[s] \in {"create", "note"} => stash[s] = "absent"
  BY <1>1 DEF Base, NotesInv, Waited, Flagless
<1>5. CASE UNCHANGED <<stash, journal>>
  BY <1>1, <1>5
<1>6. CASE NoteInitialized(s) \/ NoteMoved(s) \/ NoteReady(s) \/ NoteReplaced(s) \/ NoteCommitted(s) \/ NoteIntent(s) \/ StopOld(s)
  <2>1. \E f : Notes2(s, f)
    BY <1>0, <1>6, SetupNotes
  <2>2. UNCHANGED stash /\ pc[s] \in Forward \union {"note"}
    BY <1>6 DEF NoteInitialized, NoteMoved, NoteReady, NoteReplaced, NoteCommitted, NoteIntent,
       StopOld, Note
  <2> QED BY <2>1, <2>2, <1>3, <1>4 DEF Notes2, Written, Adds, Says
<1>7. CASE Prepare(s) \/ Place(s) \/ Snapshot(s) \/ Deploy(s)
  <2>1. UNCHANGED stash /\ pc[s] \in Forward
    BY <1>7 DEF Prepare, Place, Snapshot, Deploy, files, paper
  <2>2. CASE Quiet(s) \/ \E f : Notes1(s, f)
    BY <2>1, <2>2, <1>1 DEF Quiet, Notes1, Unwritten
  <2>3. CASE (\E f : Notes2(s, f)) \/ (mem'[s] = mem[s] /\ Written(s))
    BY <2>1, <2>3, <1>3 DEF Notes2, Written, Adds, Says
  <2> QED BY <1>0, <1>7, <2>2, <2>3, SetupNotes
<1>8. CASE MoveAside(s)
  <2>1. pc[s] = "move" /\ UNCHANGED paper
    BY <1>8 DEF MoveAside
  <2>2. journal[s].intent
    BY <2>1, <1>2 DEF Live, LiveNotes, AloneInv, Fresh, Early
  <2> QED BY <2>1, <2>2 DEF paper
<1>9. CASE Finish(s)
  <2>1. UNCHANGED stash /\ pc[s] = "finish" /\ journal'[s] = mem[s]
    BY <1>0, <1>9 DEF Finish
  <2> QED BY <2>1, <1>3
<1>10. CASE Clean(s)
  BY <1>0, <1>1, <1>10 DEF Clean, SetStash, paper
<1>11. CASE Unlink(s)
  <2>1. UNCHANGED stash
    BY <1>11 DEF Unlink
  <2>2. CASE before[s].taken
    <3>1. pc[s] = "u_unlink" => stash[s] = "absent"
      BY <2>2 DEF Live, LiveTree
    <3>2. pc[s] = "unlink" => stash[s] = "absent"
      BY <2>2, <1>1, <1>0, NothingNoted DEF Done, AloneInv, JournalInDir, Fresh, Flagless
    <3> QED BY <2>1, <3>1, <3>2, <1>11 DEF Unlink
  <2>3. CASE ~before[s].taken
    <3>1. pc[s] = "u_unlink" /\ mutex # s
      BY <2>3, <1>2, <1>11 DEF Unlink, AloneInv, Taken
    <3> QED BY <3>1, <2>1, <1>1 DEF Base, NotesInv, Waited, Flagless
  <2> QED BY <2>2, <2>3
<1>12. CASE UndoBack(s)
  BY <1>12, <1>0 DEF UndoBack, SetStash
<1> QED BY <1>5, <1>6, <1>7, <1>8, <1>9, <1>10, <1>11, <1>12
     DEF SetupStep, Create, Enter, Read, TimeOut, SaveLauncher, MoveIn, ReplaceLauncher, Commit, Serve, Drop,
         UndoStop, UndoPointer, UndoLauncher, UndoLoader, UndoRemove, UndoStart, files, paper

\* A Setup under the mutex has taken it, one that could not take it has not.
LEMMA OwnTaken ==
  ASSUME Base, AloneInv, NEW s \in Setups, SetupStep(s)
  PROVE  Taken(s)'
<1> USE DEF Forward, Cleaning, Undoing, Ended, Outside, Go, Goto, Taken
<1>0. /\ pc \in [Setups -> SetupPCs] /\ before \in [Setups -> Installations] /\ Taken(s)
      /\ pc[s] \in Forward \union Cleaning => mutex = s
      /\ NoOne # s
      /\ mutex = s => pc[s] \notin {"none", "create", "note", "enter"} \union Ended
  BY DEF Base, TypeInv, TypeOK, ExclusionInv, LockHeld, Inside, AloneInv, HolderWorks, ConstantsOK
<1>1. CASE Enter(s) \/ Read(s)
  BY <1>0, <1>1 DEF Enter, Read, Seen
<1>2. CASE TimeOut(s)
  <2>1. before'[s].taken = FALSE
    BY <1>0, <1>2 DEF TimeOut, Seen
  <2> QED BY <1>0, <1>2, <2>1 DEF TimeOut
<1>3. CASE Drop(s)
  BY <1>0, <1>3 DEF Drop, Leave, Nothing
<1>4. CASE UndoRemove(s)
  BY <1>0, <1>4 DEF UndoRemove, Leave
<1>5. CASE UNCHANGED <<mutex, before>>
  BY <1>0, <1>5
       DEF SetupStep, Create, NoteInitialized, Enter, Read, TimeOut, Prepare, SaveLauncher, Place, MoveAside, NoteMoved,
         MoveIn, NoteReady, StopOld, Snapshot, ReplaceLauncher, NoteReplaced, NoteIntent, Commit,
         NoteCommitted, Deploy, Serve, Finish, Clean, Unlink, Drop, UndoStop, UndoPointer, UndoLauncher,
         UndoLoader, UndoRemove, UndoBack, UndoStart, Note, Leave
<1> QED BY <1>1, <1>2, <1>3, <1>4, <1>5
       DEF SetupStep, Create, NoteInitialized, Prepare, SaveLauncher, Place, MoveAside, NoteMoved,
         MoveIn, NoteReady, StopOld, Snapshot, ReplaceLauncher, NoteReplaced, NoteIntent, Commit,
         NoteCommitted, Deploy, Serve, Finish, Clean, Unlink, UndoStop, UndoPointer, UndoLauncher,
         UndoLoader, UndoBack, UndoStart, Note, others

\* What a Setup that could not take the mutex does to its directory leaves a recovery at it where it is.
LEMMA OwnAtOutside ==
  ASSUME Base, AloneInv, NEW s \in Setups, SetupStep(s), NEW p \in Procs
  PROVE  AtOutside(p)'
<1> USE DEF Forward, Cleaning, Undoing, Ended, Outside, Go, Goto
<1>0. /\ pc \in [Setups -> SetupPCs] /\ AtOutside(p) /\ TypeOK /\ AtKnown /\ OnlyOf(s)
      /\ outcome \in [Setups -> {"none", "pending", "completed"}] /\ journal \in [Setups -> Notes]
      /\ stash \in [Setups -> Contents]
  BY StepIsOwn DEF Base, TypeInv, TypeOK, AloneInv
<1>1. rpc'[p] = rpc[p] /\ at'[p] = at[p]
  BY <1>0 DEF OnlyOf
<1>2. CASE at[p] # s
  BY <1>0, <1>1, <1>2 DEF OnlyOf, SameLocals, SameFiles, AtOutside, TypeOK
<1>3. CASE at[p] = s
  <2>1. at[p] # NoOne /\ rpc[p] \in RecoverLocked /\ mutex = p
    BY <1>0, <1>3 DEF AtKnown, Base, ConstantsOK, ExclusionInv, LockHeld, Inside
  <2>2. p # s
    BY <2>1, <1>0, Places DEF OnlyOf, Working, Base, ExclusionInv, RecoversFirst
  <2>3. mutex # s /\ mutex # NoOne /\ pc[s] \in {"enter"} \union Undoing
    BY <2>1, <2>2, <1>0, <1>3 DEF AtOutside, OnlyOf, Working, Base, ConstantsOK, Procs
  <2>4. pc[s] \in Undoing => Flagless(journal[s]) /\ Flagless(mem[s]) /\ pc[s] # "u_back"
    BY <2>3 DEF Base, NotesInv, Waited
  <2>5. CASE UNCHANGED <<outcome, journal, stash>> /\ pc'[s] \in Undoing \union Ended
    BY <2>5, <1>0, <1>1, <1>3 DEF AtOutside
  <2>6. CASE Unlink(s)
    BY <2>6, <2>3, <2>4, <1>0, <1>1, <1>3 DEF AtOutside, Unlink, Flagless
  <2> QED BY <2>3, <2>4, <2>5, <2>6, <1>0
       DEF SetupStep, Create, NoteInitialized, Enter, Read, TimeOut, Prepare, SaveLauncher, Place, MoveAside, NoteMoved,
         MoveIn, NoteReady, StopOld, Snapshot, ReplaceLauncher, NoteReplaced, NoteIntent, Commit,
         NoteCommitted, Deploy, Serve, Finish, Clean, Drop, UndoStop, UndoPointer, UndoLauncher,
         UndoLoader, UndoRemove, UndoBack, UndoStart, Note, files, paper, Leave
<1> QED BY <1>2, <1>3

\* A step of a Setup keeps to one Setup at a time.
LEMMA OwnKeepsAlone ==
  ASSUME Base, AloneInv, NEW s \in Setups, Live(s), Done(s), SetupStep(s)
  PROVE  AloneInv'
<1>0. /\ OnlyOf(s) /\ Working(s) /\ pc \in [Setups -> SetupPCs] /\ mutex \in Procs \union {Updater, NoOne}
      /\ Setups \subseteq Procs /\ ConstantsOK
  BY StepIsOwn DEF Base, TypeInv, TypeOK, OnlyOf, Procs
<1>1. ASSUME NEW t \in Setups, t # s
      PROVE  /\ pc[t] \in {"none"} \union Ended /\ rpc[t] = "idle" /\ at[t] = NoOne
             /\ ~dir[t] /\ outcome[t] = "none" /\ journal[t] = NoNotes /\ stash[t] = "absent"
             /\ SameLocals(t) /\ SameFiles(t)
  BY <1>0, <1>1, Alone DEF OnlyOf
<1>2. rpc'[s] = "idle" /\ rpc' = rpc
  BY <1>0 DEF OnlyOf, Working, Base, ExclusionInv, RecoversFirst
<1>3. OneOpen' /\ DirsApart'
  BY <1>1 DEF OneOpen, DirsApart, Open, SameLocals, SameFiles, Working
<1>4. RecoverSeesAll'
  BY <1>1, <1>2, Places DEF RecoverSeesAll
<1>5. JournalInDir'
  BY <1>1, OwnAlone DEF JournalInDir, SameFiles
<1>6. StashNoted'
  BY <1>1, OwnStash DEF StashNoted, SameFiles
<1>7. HolderWorks'
  <2>1. ASSUME NEW t \in Setups, t # s, mutex' = t PROVE FALSE
    BY <2>1, <1>0, <1>1, MutexMoves DEF AloneInv, HolderWorks, ConstantsOK
  <2> QED BY <2>1, OwnAlone DEF HolderWorks
<1>8. LauncherSeen'
  <2>1. ASSUME pc'[s] \in {"note", "enter"} PROVE mem'[s].existed = (launcher' # None)
    <3>1. CASE Create(s)
      BY <3>1, CreateNotes DEF Base, Create, install
    <3>2. CASE NoteInitialized(s)
      <4>1. mem'[s] = mem[s]
        BY <3>2, WriteAt DEF Base, TypeInv, NoteInitialized, Note
      <4> QED BY <4>1, <3>2 DEF NoteInitialized, Note, install, Go, AloneInv, LauncherSeen
    <3> QED BY <2>1, <3>1, <3>2, <1>0
       DEF SetupStep, Enter, Read, TimeOut, Prepare, SaveLauncher, Place, MoveAside, NoteMoved,
         MoveIn, NoteReady, StopOld, Snapshot, ReplaceLauncher, NoteReplaced, NoteIntent, Commit,
         NoteCommitted, Deploy, Serve, Finish, Clean, Unlink, Drop, UndoStop, UndoPointer, UndoLauncher,
         UndoLoader, UndoRemove, UndoBack, UndoStart, Note, Leave, Go, Goto
  <2> QED BY <2>1, <1>1 DEF LauncherSeen, SameLocals, Ended
<1>9. ASSUME NEW t \in Setups PROVE Fresh(t)' /\ Taken(t)'
  <2>1. CASE t = s
    BY <2>1, OwnAlone, OwnTaken
  <2>2. CASE t # s
    <3>1. Fresh(t) /\ Taken(t)
      BY DEF AloneInv
    <3>2. mutex' = t => mutex = t
      BY <2>2, <1>0, MutexMoves DEF ConstantsOK
    <3>3. mutex # t
      BY <2>2, <1>1 DEF AloneInv, HolderWorks
    <3>4. Fresh(t)'
      BY <3>1, <2>2, <1>1 DEF Fresh, SameLocals, SameFiles, Working
    <3>5. Taken(t)'
      BY <3>1, <3>2, <3>3, <2>2, <1>1 DEF Taken, SameLocals, SameFiles, Undoing, Ended
    <3> QED BY <3>4, <3>5
  <2> QED BY <2>1, <2>2
<1> QED BY <1>3, <1>4, <1>5, <1>6, <1>7, <1>8, <1>9, OwnAtOutside DEF AloneInv

\* A recovery that ends leaves everything but the steps of its own process.
Ending(p, ok) ==
  /\ RecoverEnd(p, ok) /\ rpc[p] \in RecoverLocked \union {"wait"}
  /\ ok => rpc[p] = "pick" /\ todo[p] = {}
  /\ UNCHANGED <<loader, pointer, files, before>>
  /\ launcher' = launcher

\* A recovery that ends keeps to one Setup at a time.
LEMMA EndKeepsAlone ==
  ASSUME Base, AloneInv, NEW p \in Procs, NEW ok \in BOOLEAN, Ending(p, ok)
  PROVE  AloneInv'
<1> USE DEF Ending
<1>0. /\ TypeOK /\ AtKnown /\ ConstantsOK /\ pc \in [Setups -> SetupPCs] /\ rpc \in [Procs -> RecoverPCs]
      /\ at \in [Procs -> Setups \union {NoOne}] /\ Setups \subseteq Procs
      /\ mutex \in Procs \union {Updater, NoOne} /\ mem \in [Setups -> Notes]
  BY DEF Base, TypeInv, TypeOK, Procs
<1>1. /\ UNCHANGED <<dir, outcome, journal, saved, stash, before, launcher>>
      /\ rpc' = [rpc EXCEPT ![p] = rpc'[p]] /\ rpc'[p] \in {"idle", "clear"}
      /\ todo' = [todo EXCEPT ![p] = {}]
      /\ at' = [at EXCEPT ![p] = NoOne]
      /\ mutex' = IF mutex = p THEN NoOne ELSE mutex
  BY <1>0 DEF RecoverEnd, Step, files, paper
<1>2. p \in Setups => pc[p] = "recover"
  BY Places DEF Base, ExclusionInv, RecoversFirst
<1>3. \A t \in Setups : t # p => pc'[t] = pc[t] /\ mem'[t] = mem[t] /\ target'[t] = target[t]
  BY <1>0 DEF RecoverEnd, Forget, Keep, TypeOK, locals, request
<1>4. p \in Setups => pc'[p] = IF ok THEN "create" ELSE "failed"
  BY DEF RecoverEnd
<1>5. OneOpen'
  BY <1>2, <1>3, <1>4 DEF AloneInv, OneOpen, Open, Ended
<1>6. p \in Setups /\ ok => \A t \in Setups : ~dir[t]
  <2>1. p \in Setups /\ ok => at[p] = NoOne
    BY <1>0 DEF AtKnown
  <2> QED BY <2>1, <1>0 DEF AloneInv, RecoverSeesAll, ConstantsOK, RecoverLocked
<1>7. DirsApart'
  <2> SUFFICES ASSUME NEW s \in Setups, NEW t \in Setups, dir'[s], dir'[t] \/ Working(t)' PROVE s = t
    BY DEF DirsApart
  <2>1. CASE dir'[t]
    BY <2>1, <1>1 DEF AloneInv, DirsApart
  <2>2. CASE Working(t)'
    <3>1. t # p
      BY <2>2, <1>1, <1>4, <1>6 DEF Working, Ended
    <3> QED BY <2>2, <3>1, <1>1, <1>3 DEF AloneInv, DirsApart, Working
  <2> QED BY <2>1, <2>2
<1>8. RecoverSeesAll'
  BY <1>0, <1>1, Places DEF AloneInv, RecoverSeesAll
<1>9. JournalInDir' /\ StashNoted'
  BY <1>1 DEF AloneInv, JournalInDir, StashNoted
<1>10. HolderWorks'
  BY <1>0, <1>1, <1>3 DEF AloneInv, HolderWorks, ConstantsOK
<1>11. LauncherSeen'
  BY <1>1, <1>3, <1>4 DEF AloneInv, LauncherSeen
<1>12. ASSUME NEW s \in Setups PROVE Fresh(s)' /\ Taken(s)'
  <2>1. CASE s # p
    BY <2>1, <1>0, <1>1, <1>3 DEF AloneInv, Fresh, Taken, Working, ConstantsOK
  <2>2. CASE s = p
    <3>1. Fresh(s) /\ Taken(s) /\ pc[s] = "recover" /\ ~before[s].taken
      BY <2>2, <1>2 DEF AloneInv, Taken, Outside
    <3>2. pc'[s] \in {"create", "failed"}
      BY <2>2, <1>4
    <3> QED BY <3>1, <3>2, <1>0, <1>1, <2>2 DEF Fresh, Taken, Working, Ended, Outside, Forward,
         Undoing, ConstantsOK
  <2> QED BY <2>1, <2>2
<1>13. ASSUME NEW q \in Procs PROVE AtOutside(q)'
  <2>1. CASE q = p
    BY <2>1, <1>0, <1>1 DEF AtOutside
  <2>2. CASE q # p
    <3>1. at[q] = p => pc[p] \in {"enter"} \union Undoing \union Ended
      <4>1. p # NoOne
        BY DEF Base, ConstantsOK, Procs
      <4> QED BY <4>1 DEF AloneInv, AtOutside
    <3>2. at[q] # NoOne => at[q] \in Setups /\ at[q] # p
      BY <1>0, <1>2, <2>2, <3>1 DEF Undoing, Ended
    <3> QED BY <3>2, <2>2, <1>0, <1>1, <1>3 DEF AloneInv, AtOutside
  <2> QED BY <2>1, <2>2
<1> QED BY <1>5, <1>7, <1>8, <1>9, <1>10, <1>11, <1>12, <1>13 DEF AloneInv

\* Who recovers is not who it recovers, and nobody works under the mutex meanwhile.
LEMMA AtApart ==
  ASSUME Base, AloneInv, NEW p \in Procs, at[p] # NoOne \/ rpc[p] \in RecoverLocked
  PROVE  /\ mutex = p /\ rpc[p] \in RecoverLocked
         /\ at[p] # NoOne => at[p] \in Setups /\ at[p] # p
         /\ \A s \in Setups : pc[s] \notin Forward \union Cleaning /\ (mutex = s => s = p /\ pc[s] = "recover")
         /\ \A q \in Procs : q # p => rpc[q] \notin RecoverLocked /\ at[q] = NoOne
<1>1. rpc[p] \in RecoverLocked /\ mutex = p
  BY DEF Base, TypeInv, AtKnown, ExclusionInv, LockHeld, Inside
<1>2. p \in Setups => pc[p] = "recover"
  BY <1>1, Places DEF Base, ExclusionInv, RecoversFirst
<1>3. \A s \in Setups : pc[s] \notin Forward \union Cleaning
  BY <1>1, <1>2 DEF Base, ExclusionInv, LockHeld, Inside, Forward, Cleaning
<1>4. at[p] # NoOne => at[p] \in Setups /\ at[p] # p
  BY <1>2 DEF AloneInv, AtOutside, Undoing, Ended, Base, TypeInv, TypeOK
<1>5. \A q \in Procs : q # p => rpc[q] \notin RecoverLocked /\ at[q] = NoOne
  BY <1>1 DEF Base, ExclusionInv, LockHeld, Inside, TypeInv, AtKnown
<1> QED BY <1>1, <1>2, <1>3, <1>4, <1>5

\* The directory of a recovery is the only one, unless it is gone.
LEMMA AtAlone ==
  ASSUME Base, AloneInv, NEW p \in Procs, at[p] # NoOne, NEW s \in Setups, s # at[p], dir[s] \/ Working(s)
  PROVE  LET x == at[p]
         IN /\ x \in Setups /\ outcome[x] = "none" /\ journal[x] = NoNotes /\ stash[x] = "absent"
            /\ Flagless(journal[x])
<1>1. at[p] \in Setups
  BY AtApart
<1>2. ~dir[at[p]]
  BY <1>1 DEF AloneInv, DirsApart
<1>3. outcome[at[p]] = "none" /\ journal[at[p]] = NoNotes
  BY <1>1, <1>2 DEF AloneInv, JournalInDir
<1>4. stash[at[p]] = "absent"
  BY <1>1, <1>3, NothingNoted DEF AloneInv, StashNoted, Flagless
<1> QED BY <1>1, <1>3, <1>4, NothingNoted

\* A recovery goes on within a directory; what it does to the launcher nobody who waits has seen.
AtWork(p, y) ==
  LET x == at[p]
  IN /\ rpc[p] \in AtDirectory /\ y \in AtDirectory /\ Step(p, y)
     /\ UNCHANGED <<todo, at, mutex, pc, locals, dir, saved, before>>
     /\ y = "drop" => outcome'[x] = "none"
     /\ y = "back" => stash'[x] # "absent" /\ (journal'[x].moved \/ journal'[x].intent)
     /\ outcome'[x] = "completed" => y \in {"stash", "unlink", "drop"}
     /\ outcome'[x] = "pending" => y # "stash"
     /\ y \in {"pointer", "launcher", "cadence", "unlink", "drop"} => stash'[x] = "absent"
     /\ \A t \in Setups : t # x => outcome'[t] = outcome[t] /\ journal'[t] = journal[t] /\ stash'[t] = stash[t]
     /\ \/ outcome'[x] = outcome[x] /\ journal'[x] = journal[x]
        \/ outcome'[x] = "none" /\ journal'[x] = NoNotes /\ stash[x] = "absent"
     /\ stash'[x] \in {stash[x], "absent"}
     /\ launcher' = launcher \/ journal[x].replaced

\* So it leaves one Setup running after the other.
LEMMA AtWorkKeepsAlone ==
  ASSUME Base, AloneInv, NEW p \in Procs, NEW y, AtWork(p, y)
  PROVE  AloneInv'
<1> USE DEF AtWork
<1>0. /\ TypeOK /\ AtKnown /\ ConstantsOK /\ rpc \in [Procs -> RecoverPCs] /\ at \in [Procs -> Setups \union {NoOne}]
      /\ Setups \subseteq Procs /\ pc \in [Setups -> SetupPCs]
  BY DEF Base, TypeInv, TypeOK, Procs
<1>1. at[p] # NoOne /\ rpc[p] \in RecoverLocked
  BY <1>0 DEF AtKnown, AtDirectory
<1>2. PICK x \in Setups : x = at[p] /\ x # p
  BY <1>1, AtApart
<1>3. rpc' = [rpc EXCEPT ![p] = y] /\ y \in RecoverLocked
  BY DEF Step, AtDirectory
<1>4. UNCHANGED <<pc, mem, target, mutex, todo, at, dir, saved, before>>
  BY DEF locals, request
<1>5. OneOpen' /\ DirsApart' /\ HolderWorks'
  BY <1>4 DEF AloneInv, OneOpen, Open, DirsApart, HolderWorks, Working
<1>6. RecoverSeesAll'
  BY <1>0, <1>1, <1>3, <1>4 DEF AloneInv, RecoverSeesAll
<1>7. JournalInDir' /\ StashNoted'
  BY <1>2, <1>4, NothingNoted DEF AloneInv, JournalInDir, StashNoted, Flagless
<1>8. LauncherSeen'
  <2>1. ASSUME NEW s \in Setups, pc[s] \in {"note", "enter"} PROVE launcher' = launcher
    <3>1. CASE s = x
      BY <1>2, <2>1, <3>1 DEF Base, NotesInv, Waited, Flagless, Outside
    <3>2. CASE s # x
      BY <1>1, <1>2, <2>1, <3>2, AtAlone DEF Working, Ended, Flagless
    <3> QED BY <3>1, <3>2
  <2> QED BY <2>1, <1>4 DEF AloneInv, LauncherSeen
<1>9. ASSUME NEW s \in Setups PROVE Fresh(s)' /\ Taken(s)'
  <2>1. Taken(s)'
    BY <1>4 DEF AloneInv, Taken
  <2>2. CASE s # x
    <3>1. /\ outcome'[s] = outcome[s] /\ journal'[s] = journal[s] /\ dir'[s] = dir[s] /\ saved'[s] = saved[s]
          /\ pc'[s] = pc[s] /\ mem'[s] = mem[s] /\ target'[s] = target[s]
      BY <2>2, <1>2, <1>4
    <3>2. Fresh(s)
      BY DEF AloneInv
    <3>3. Fresh(s)'
      BY <3>1, <3>2 DEF Fresh, Working
    <3> QED BY <2>1, <3>3
  <2>3. CASE s = x
    <3>1. pc[s] \notin Forward \union Cleaning
      BY <1>1, AtApart
    <3> QED BY <3>1, <2>1, <2>3, <1>2, <1>4 DEF AloneInv, Fresh, Working, Forward, Cleaning
  <2> QED BY <2>1, <2>2, <2>3
<1>10. ASSUME NEW q \in Procs PROVE AtOutside(q)'
  <2>1. CASE q = p
    BY <2>1, <1>0, <1>2, <1>3, <1>4 DEF AloneInv, AtOutside
  <2>2. CASE q # p
    BY <2>2, <1>1, <1>4, AtApart DEF AtOutside
  <2> QED BY <2>1, <2>2
<1> QED BY <1>5, <1>6, <1>7, <1>8, <1>9, <1>10 DEF AloneInv

\* The steps of a recovery, as one of these two kinds.
LEMMA RecoverKinds ==
  ASSUME Base, AloneInv, NEW p \in Procs, RecoverStep(p) \/ RecoverThrow(p)
  PROVE  \/ \E ok \in BOOLEAN : Ending(p, ok)
         \/ \E y \in AtDirectory : AtWork(p, y)
         \/ RecoverEnter(p) \/ RecoverDrop(p) \/ (RecoverPick(p) /\ at'[p] # NoOne)
<1> USE DEF AtDirectory, RecoverLocked, RGo, files, paper, install, elsewhere
<1>0. /\ TypeOK /\ AtKnown /\ ConstantsOK /\ at \in [Procs -> Setups \union {NoOne}]
      /\ outcome \in [Setups -> {"none", "pending", "completed"}] /\ journal \in [Setups -> Notes]
      /\ stash \in [Setups -> Contents] /\ NoOne \notin Setups /\ todo \in [Procs -> SUBSET Setups]
      /\ rpc \in [Procs -> RecoverPCs]
      /\ rpc[p] \in AtDirectory => at[p] \in Setups
  BY DEF Base, TypeInv, TypeOK, AtKnown, ConstantsOK
<1>1. AtOutside(p)
  BY DEF AloneInv
<1>2. CASE RecoverTimeOut(p) \/ RecoverLeave(p) \/ RecoverThrow(p)
  BY <1>2 DEF RecoverTimeOut, RecoverLeave, RecoverThrow, Ending
<1>3. CASE RecoverPick(p)
  <2>1. CASE RecoverEnd(p, FALSE)
    BY <2>1, <1>3 DEF RecoverPick, Ending
  <2>2. CASE \E s \in Setups : at' = [at EXCEPT ![p] = s]
    BY <2>2, <1>3, <1>0
  <2> QED BY <2>1, <2>2, <1>3, <1>0 DEF RecoverPick
<1>4. CASE RecoverStop(p) \/ RecoverPointer(p)
  BY <1>0, <1>1, <1>4 DEF RecoverStop, RecoverPointer, AtWork, AtOutside
<1>5. CASE RecoverRemove(p)
  <2>1. CASE RecoverEnd(p, FALSE)
    BY <1>5, <2>1 DEF RecoverRemove, Ending
  <2>2. CASE \E y \in {"back", "pointer"} : Step(p, y) /\ UNCHANGED <<todo, at, mutex, pc, locals>>
    <3>1. PICK y \in {"back", "pointer"} : Step(p, y)
      BY <2>2
    <3>2. LET x == at[p]
              back == journal[x].moved \/ (journal[x].intent /\ stash[x] # "absent")
          IN (y = "back" <=> back) /\ (back => stash[x] # "absent")
      BY <1>0, <1>5, <3>1 DEF RecoverRemove, Step, RecoverEnd
    <3>3. stash[at[p]] # "absent" => journal[at[p]].intent
      BY <1>0, <1>5 DEF AloneInv, StashNoted, RecoverRemove
    <3>4. UNCHANGED <<pointer, launcher, loader, running, files, before>> /\ rpc[p] = "remove"
      BY <1>5 DEF RecoverRemove
    <3>5. AtWork(p, y)
      BY <2>2, <3>1, <3>2, <3>3, <3>4, <1>0, <1>1 DEF AtWork, AtOutside
    <3> QED BY <3>1, <3>5
  <2> QED BY <1>5, <2>1, <2>2 DEF RecoverRemove
<1>6. CASE RecoverBack(p)
  BY <1>0, <1>1, <1>6 DEF RecoverBack, AtWork, AtOutside, SetStash
<1>7. CASE RecoverLauncher(p)
  BY <1>0, <1>1, <1>7 DEF RecoverLauncher, Ending, AtWork, AtOutside
<1>8. CASE RecoverCadence(p)
  BY <1>0, <1>1, <1>8 DEF RecoverCadence, Ending, AtWork, AtOutside
<1>9. CASE RecoverStash(p)
  BY <1>0, <1>1, <1>9 DEF RecoverStash, AtWork, AtOutside, SetStash
<1>10. CASE RecoverUnlink(p)
  BY <1>0, <1>1, <1>10 DEF RecoverUnlink, AtWork, AtOutside
<1> QED BY <1>2, <1>3, <1>4, <1>5, <1>6, <1>7, <1>8, <1>9, <1>10 DEF RecoverStep

\* A recovery that takes the mutex sees every directory there is.
LEMMA EnterKeepsAlone ==
  ASSUME Base, AloneInv, NEW p \in Procs, RecoverEnter(p)
  PROVE  AloneInv'
<1>0. /\ TypeOK /\ AtKnown /\ ConstantsOK /\ rpc \in [Procs -> RecoverPCs] /\ todo \in [Procs -> SUBSET Setups]
      /\ Setups \subseteq Procs /\ NoOne \notin Setups
  BY DEF Base, TypeInv, TypeOK, Procs, ConstantsOK
<1>1. /\ rpc[p] = "wait" /\ rpc' = [rpc EXCEPT ![p] = "pick"] /\ mutex = NoOne /\ mutex' = p
      /\ todo' = [todo EXCEPT ![p] = {s \in Setups : dir[s]}]
      /\ UNCHANGED <<pc, mem, target, at, dir, outcome, journal, stash, saved, before, launcher>>
  BY DEF RecoverEnter, RGo, Step, files, paper, install, locals, request
<1>2. p \in Setups => pc[p] = "recover"
  BY <1>1 DEF Base, ExclusionInv, RecoversFirst
<1>3. \A q \in Procs : at[q] = NoOne
  BY <1>0, <1>1, AtApart DEF ConstantsOK, Procs
<1>4. OneOpen' /\ DirsApart' /\ JournalInDir' /\ StashNoted' /\ LauncherSeen'
  BY <1>1 DEF AloneInv, OneOpen, Open, DirsApart, Working, JournalInDir, StashNoted, LauncherSeen
<1>5. HolderWorks'
  BY <1>1, <1>2 DEF HolderWorks, Ended
<1>6. RecoverSeesAll'
  BY <1>0, <1>1 DEF AloneInv, RecoverSeesAll
<1>7. ASSUME NEW s \in Setups PROVE Fresh(s)' /\ Taken(s)'
  BY <1>0, <1>1, <1>2 DEF AloneInv, Fresh, Taken, Working, Undoing
<1>8. \A q \in Procs : AtOutside(q)'
  BY <1>1, <1>3 DEF AtOutside
<1> QED BY <1>4, <1>5, <1>6, <1>7, <1>8 DEF AloneInv

\* A recovery that removed a directory goes on to the next.
LEMMA DropKeepsAlone ==
  ASSUME Base, AloneInv, NEW p \in Procs, RecoverDrop(p)
  PROVE  AloneInv'
<1>0. /\ TypeOK /\ AtKnown /\ ConstantsOK /\ rpc \in [Procs -> RecoverPCs] /\ at \in [Procs -> Setups \union {NoOne}]
      /\ Setups \subseteq Procs /\ NoOne \notin Setups
      /\ dir \in [Setups -> BOOLEAN] /\ before \in [Setups -> Installations] /\ saved \in [Setups -> Versions \union {None}]
  BY DEF Base, TypeInv, TypeOK, Procs, ConstantsOK
<1>1. rpc[p] = "drop"
  BY DEF RecoverDrop, RGo
<1>2. PICK x \in Setups : x = at[p] /\ x # p
  BY <1>0, <1>1, AtApart DEF AtKnown, RecoverLocked
<1>3. /\ rpc' = [rpc EXCEPT ![p] = "pick"] /\ at' = [at EXCEPT ![p] = NoOne]
      /\ dir' = [dir EXCEPT ![x] = FALSE] /\ saved' = [saved EXCEPT ![x] = None]
      /\ before' = [before EXCEPT ![x] = Nothing]
      /\ UNCHANGED <<pc, mem, target, mutex, todo, outcome, journal, stash, launcher>>
  BY <1>2 DEF RecoverDrop, RGo, Step, install, locals, request
<1>4. outcome[x] = "none" /\ mutex # x /\ pc[x] \notin Forward \union Cleaning
  BY <1>0, <1>1, <1>2, AtApart DEF AloneInv, AtOutside, RecoverLocked
<1>5. OneOpen' /\ DirsApart' /\ JournalInDir' /\ StashNoted' /\ LauncherSeen' /\ HolderWorks'
  BY <1>0, <1>3, <1>4 DEF AloneInv, OneOpen, Open, DirsApart, Working, JournalInDir, StashNoted,
     LauncherSeen, HolderWorks
<1>6. RecoverSeesAll'
  BY <1>0, <1>1, <1>2, <1>3 DEF AloneInv, RecoverSeesAll, RecoverLocked
<1>7. ASSUME NEW s \in Setups PROVE Fresh(s)' /\ Taken(s)'
  BY <1>0, <1>3, <1>4 DEF AloneInv, Fresh, Taken, Working, Nothing
<1>8. ASSUME NEW q \in Procs PROVE AtOutside(q)'
  <2>1. q # p => at[q] = NoOne
    BY <1>1, <1>2, <1>0, AtApart
  <2> QED BY <2>1, <1>0, <1>3 DEF AtOutside
<1> QED BY <1>5, <1>6, <1>7, <1>8 DEF AloneInv

\* A recovery that picks a directory picks one that holds a journal, or nothing.
LEMMA PickKeepsAlone ==
  ASSUME Base, AloneInv, NEW p \in Procs, RecoverPick(p), at'[p] # NoOne
  PROVE  AloneInv'
<1>0. /\ TypeOK /\ AtKnown /\ ConstantsOK /\ rpc \in [Procs -> RecoverPCs] /\ at \in [Procs -> Setups \union {NoOne}]
      /\ Setups \subseteq Procs /\ NoOne \notin Setups /\ todo \in [Procs -> SUBSET Setups]
      /\ outcome \in [Setups -> {"none", "pending", "completed"}]
  BY DEF Base, TypeInv, TypeOK, Procs, ConstantsOK
<1>1. rpc[p] = "pick" /\ at[p] = NoOne
  BY <1>0 DEF RecoverPick, AtKnown
<1>2. PICK x \in todo[p] :
        /\ outcome[x] # "none"
        /\ at' = [at EXCEPT ![p] = x] /\ todo' = [todo EXCEPT ![p] = @ \ {x}]
        /\ rpc' = [rpc EXCEPT ![p] = IF outcome[x] = "completed" THEN "stash" ELSE "stop"]
        /\ UNCHANGED <<mutex, pc, mem, target>>
  BY <1>0 DEF RecoverPick, RecoverEnd, Step, locals, request
<1>3. x \in Setups /\ UNCHANGED <<dir, outcome, journal, stash, saved, before, launcher>>
  BY <1>0, <1>2 DEF RecoverPick, files, paper, install
<1>4. mutex = p /\ (\A q \in Procs : q # p => at[q] = NoOne /\ rpc[q] \notin RecoverLocked)
  BY <1>1, AtApart DEF RecoverLocked
<1>5. pc[x] \in {"enter"} \union Undoing \union Ended
  <2>1. pc[x] \notin Forward \union Cleaning \union {"none", "recover", "create", "note"}
    BY <1>1, <1>2, <1>3, AtApart DEF RecoverLocked, AloneInv, Fresh
  <2>2. pc[x] \in SetupPCs
    BY <1>3 DEF Base, TypeInv, TypeOK
  <2> QED BY <2>1, <2>2 DEF SetupPCs
<1>6. OneOpen' /\ DirsApart' /\ JournalInDir' /\ StashNoted' /\ LauncherSeen' /\ HolderWorks'
  BY <1>2, <1>3 DEF AloneInv, OneOpen, Open, DirsApart, Working, JournalInDir, StashNoted,
     LauncherSeen, HolderWorks
<1>7. RecoverSeesAll'
  BY <1>0, <1>1, <1>2, <1>3 DEF AloneInv, RecoverSeesAll, RecoverLocked
<1>8. ASSUME NEW s \in Setups PROVE Fresh(s)' /\ Taken(s)'
  BY <1>2, <1>3 DEF AloneInv, Fresh, Taken, Working
<1>9. ASSUME NEW q \in Procs PROVE AtOutside(q)'
  <2>1. CASE q = p
    BY <2>1, <1>0, <1>2, <1>3, <1>5 DEF AtOutside
  <2>2. CASE q # p
    BY <2>2, <1>0, <1>2, <1>4 DEF AtOutside
  <2> QED BY <2>1, <2>2
<1> QED BY <1>6, <1>7, <1>8, <1>9 DEF AloneInv

\* When no two Setups run, one that begins is the only one.
LEMMA BeginsAlone ==
  ASSUME MaxOpen = 1, OneOpen, NEW s \in Setups, Begin(s)
  PROVE  Open = {}
<1>1. Cardinality(Open) < 1
  BY DEF Begin
<1>2. ASSUME NEW t \in Open PROVE FALSE
  <2>1. Open = {t}
    BY <1>2 DEF OneOpen
  <2>2. Cardinality(Open) = 1
    BY <2>1, FS_Singleton
  <2> QED BY <1>1, <2>2
<1> QED BY <1>2

\* A Setup that begins finds no other at work.
LEMMA BeginKeepsAlone ==
  ASSUME MaxOpen = 1, Base, AloneInv, NEW s \in Setups, Begin(s)
  PROVE  AloneInv'
<1>0. /\ TypeOK /\ AtKnown /\ ConstantsOK /\ rpc \in [Procs -> RecoverPCs] /\ pc \in [Setups -> SetupPCs]
      /\ target \in [Setups -> Versions \union {None}] /\ Setups \subseteq Procs
  BY DEF Base, TypeInv, TypeOK, Procs
<1>1. \A t \in Setups : pc[t] \in {"none"} \union Ended
  BY BeginsAlone DEF AloneInv, Open
<1>2. PICK y \in {"recover", "create"} :
        /\ pc[s] = "none" /\ pc' = [pc EXCEPT ![s] = y]
        /\ y = "create" => \A t \in Setups : ~dir[t]
        /\ \E z \in {"wait", "idle"} : rpc' = [rpc EXCEPT ![s] = z]
        /\ \A t \in Setups : t # s => target'[t] = target[t]
        /\ UNCHANGED <<mem, mutex, todo, at, dir, outcome, journal, saved, stash, before, launcher>>
  BY <1>0 DEF Begin, Goto, files, paper, install
<1>3. rpc[s] = "idle"
  BY <1>2 DEF Base, ExclusionInv, RecoversFirst
<1>4. mutex # s /\ outcome[s] = "none" /\ ~dir[s] /\ saved[s] = None /\ ~before[s].taken
  BY <1>2 DEF AloneInv, HolderWorks, Fresh, Outside, Taken
<1>5. OneOpen' /\ DirsApart' /\ JournalInDir' /\ StashNoted' /\ LauncherSeen' /\ HolderWorks'
  BY <1>0, <1>1, <1>2, <1>4 DEF AloneInv, OneOpen, Open, DirsApart, Working, JournalInDir,
     StashNoted, LauncherSeen, HolderWorks, Ended
<1>6. RecoverSeesAll'
  BY <1>0, <1>2, <1>3 DEF AloneInv, RecoverSeesAll, RecoverLocked
<1>7. ASSUME NEW t \in Setups PROVE Fresh(t)' /\ Taken(t)'
  <2>1. CASE t = s
    BY <2>1, <1>0, <1>2, <1>4 DEF Fresh, Taken, Working, Outside, Forward, Undoing
  <2>2. CASE t # s
    BY <2>2, <1>0, <1>2 DEF AloneInv, Fresh, Taken, Working
  <2> QED BY <2>1, <2>2
<1>8. ASSUME NEW q \in Procs PROVE AtOutside(q)'
  <2>1. at[q] # s
    BY <1>2 DEF AloneInv, AtOutside, Undoing, Ended, Base, ConstantsOK
  <2>2. q = s => at[q] = NoOne
    BY <1>0, <1>3 DEF AtKnown, RecoverLocked
  <2>3. q # s => rpc'[q] = rpc[q]
    BY <1>0, <1>2
  <2>4. at[q] # NoOne => pc'[at[q]] = pc[at[q]] /\ at[q] \in Setups
    BY <2>1, <1>0, <1>2 DEF TypeOK
  <2>5. AtOutside(q)
    BY DEF AloneInv
  <2> QED BY <2>2, <2>3, <2>4, <2>5, <1>2 DEF AtOutside
<1> QED BY <1>5, <1>6, <1>7, <1>8 DEF AloneInv

\* A Setup that ends leaves its directory to the next recovery.
LEMMA LeaveKeepsAlone ==
  ASSUME Base, AloneInv, NEW s \in Setups, Working(s) \/ pc[s] = "recover", NEW y \in Ended, Leave(s, y),
         \/ UNCHANGED rec /\ Working(s)
         \/ /\ rpc' = [rpc EXCEPT ![s] = "idle"]
            /\ todo' = [todo EXCEPT ![s] = {}]
            /\ at' = [at EXCEPT ![s] = NoOne],
         UNCHANGED <<files, before, launcher>>
  PROVE  AloneInv'
<1>0. /\ TypeOK /\ AtKnown /\ ConstantsOK /\ rpc \in [Procs -> RecoverPCs] /\ at \in [Procs -> Setups \union {NoOne}]
      /\ Setups \subseteq Procs /\ NoOne \notin Setups /\ todo \in [Procs -> SUBSET Setups]
      /\ pc \in [Setups -> SetupPCs] /\ mem \in [Setups -> Notes] /\ target \in [Setups -> Versions \union {None}]
  BY DEF Base, TypeInv, TypeOK, Procs, ConstantsOK
<1>1. /\ pc' = [pc EXCEPT ![s] = y] /\ mutex' = IF mutex = s THEN NoOne ELSE mutex
      /\ \A t \in Setups : t # s => mem'[t] = mem[t] /\ target'[t] = target[t]
      /\ UNCHANGED <<dir, outcome, journal, saved, stash, before, launcher>>
  BY <1>0 DEF Leave, Goto, Forget, Keep, files, paper
<1>2. /\ rpc'[s] = "idle" /\ at'[s] = NoOne
      /\ \A q \in Procs : q # s => rpc'[q] = rpc[q] /\ todo'[q] = todo[q] /\ at'[q] = at[q]
  <2>1. Working(s) => rpc[s] = "idle"
    BY DEF Base, ExclusionInv, RecoversFirst, Working
  <2>2. rpc[s] = "idle" => at[s] = NoOne
    BY <1>0 DEF AtKnown, RecoverLocked
  <2> QED BY <1>0, <2>1, <2>2 DEF rec
<1>3. OneOpen' /\ DirsApart' /\ JournalInDir' /\ StashNoted' /\ LauncherSeen' /\ HolderWorks'
  BY <1>0, <1>1 DEF AloneInv, OneOpen, Open, DirsApart, Working, JournalInDir, StashNoted,
     LauncherSeen, HolderWorks, Ended
<1>4. RecoverSeesAll'
  BY <1>0, <1>1, <1>2, Places DEF AloneInv, RecoverSeesAll
<1>5. ASSUME NEW t \in Setups PROVE Fresh(t)' /\ Taken(t)'
  <2>1. CASE t = s
    BY <2>1, <1>0, <1>1 DEF AloneInv, Fresh, Taken, Working, Outside, Early, Forward, Undoing, Ended
  <2>2. CASE t # s
    BY <2>2, <1>0, <1>1 DEF AloneInv, Fresh, Taken, Working
  <2> QED BY <2>1, <2>2
<1>6. ASSUME NEW q \in Procs PROVE AtOutside(q)'
  <2>1. CASE q = s
    BY <2>1, <1>2 DEF AtOutside
  <2>2. CASE q # s
    <3>1. at[q] # NoOne => at[q] \in Setups /\ pc'[at[q]] \in {pc[at[q]]} \union Ended
      BY <1>0, <1>1
    <3> QED BY <3>1, <2>2, <1>1, <1>2 DEF AloneInv, AtOutside
  <2> QED BY <2>1, <2>2
<1> QED BY <1>3, <1>4, <1>5, <1>6 DEF AloneInv

\* So does one that is killed; one in which an operation throws goes on to its catch block.
LEMMA ThrowKeepsAlone ==
  ASSUME Base, AloneInv, NEW s \in Setups, Throw(s) \/ Kill(s)
  PROVE  AloneInv'
<1>1. CASE Kill(s)
  <2>1. Working(s) \/ pc[s] = "recover"
    BY <1>1 DEF Kill, Working
  <2> QED BY <2>1, <1>1, LeaveKeepsAlone DEF Kill, install, Ended
<1>2. CASE Throw(s) /\ (Leave(s, "failed") \/ Leave(s, "done"))
  <2>1. pc[s] \in Forward \union Undoing \union Cleaning
    BY <1>2 DEF Throw, Forward, Cleaning
  <2>2. Working(s)
    BY <2>1 DEF Working, Forward, Undoing, Cleaning, Ended
  <2> QED BY <2>2, <1>2, LeaveKeepsAlone DEF Throw, Ended
<1>3. CASE Throw(s) /\ pc[s] \in Forward /\ Goto(s, "u_stop") /\ UNCHANGED <<mutex, locals>>
  <2>0. pc \in [Setups -> SetupPCs] /\ Working(s) /\ mutex = s /\ NoOne \notin Setups
    BY <1>3 DEF Base, TypeInv, TypeOK, Working, Forward, Ended, ExclusionInv, LockHeld, Inside, ConstantsOK
  <2>1. pc' = [pc EXCEPT ![s] = "u_stop"]
        /\ UNCHANGED <<mutex, mem, target, dir, outcome, journal, saved, stash, before, launcher, rpc, todo, at>>
    BY <1>3 DEF Throw, Goto, locals, request, files, paper, rec
  <2>2. OneOpen' /\ DirsApart' /\ JournalInDir' /\ StashNoted' /\ LauncherSeen' /\ HolderWorks' /\ RecoverSeesAll'
    BY <2>0, <2>1 DEF AloneInv, OneOpen, Open, DirsApart, Working, JournalInDir, StashNoted,
       LauncherSeen, HolderWorks, Ended, RecoverSeesAll
  <2>3. ASSUME NEW t \in Setups PROVE Fresh(t)' /\ Taken(t)'
    <3>1. CASE t = s
      BY <3>1, <2>0, <2>1, <1>3 DEF AloneInv, Fresh, Taken, Working, Outside, Early, Forward,
         Undoing, Ended
    <3>2. CASE t # s
      BY <3>2, <2>0, <2>1 DEF AloneInv, Fresh, Taken, Working
    <3> QED BY <3>1, <3>2
  <2>4. ASSUME NEW q \in Procs PROVE AtOutside(q)'
    <3>1. at[q] # NoOne => at[q] \in Setups /\ at[q] # s
      BY <1>3, AtApart
    <3>2. at[q] # NoOne => pc'[at[q]] = pc[at[q]]
      BY <3>1, <2>0, <2>1
    <3> QED BY <3>2, <2>1 DEF AloneInv, AtOutside
  <2> QED BY <2>2, <2>3, <2>4 DEF AloneInv
<1> QED BY <1>1, <1>2, <1>3 DEF Throw

\* An update runs while no Setup has the mutex.
LEMMA UpdateKeepsAlone ==
  ASSUME Base, AloneInv, UpdateBegin \/ UpdateEnd
  PROVE  AloneInv'
<1>0. NoOne \notin Setups /\ Updater \notin Setups /\ mutex \notin Setups /\ mutex' \notin Setups
  BY DEF UpdateBegin, UpdateEnd, Base, ConstantsOK
<1>1. /\ UNCHANGED <<pc, mem, target, rpc, todo, at, dir, outcome, journal, saved, stash, launcher>>
      /\ before' = before \/ before' = [s \in Setups |-> Nothing]
  BY DEF UpdateBegin, UpdateEnd, files, paper, install, locals, request, rec
<1>2. OneOpen' /\ DirsApart' /\ JournalInDir' /\ StashNoted' /\ LauncherSeen' /\ HolderWorks' /\ RecoverSeesAll'
  BY <1>0, <1>1 DEF AloneInv, OneOpen, Open, DirsApart, Working, JournalInDir, StashNoted,
     LauncherSeen, HolderWorks, RecoverSeesAll
<1>3. ASSUME NEW s \in Setups PROVE Fresh(s)' /\ Taken(s)'
  <2>1. Fresh(s)'
    BY <1>1 DEF AloneInv, Fresh, Working
  <2>2. ~before[s].taken \/ pc[s] \notin Undoing \union Outside
    BY <1>0 DEF AloneInv, Taken
  <2>3. Taken(s)'
    BY <1>0, <1>1, <2>2 DEF AloneInv, Taken, Nothing
  <2> QED BY <2>1, <2>3
<1>4. ASSUME NEW q \in Procs PROVE AtOutside(q)'
  BY <1>1 DEF AloneInv, AtOutside
<1> QED BY <1>2, <1>3, <1>4 DEF AloneInv

\* The launcher that starts or scans runs while nobody has the mutex either.
LEMMA LaunchKeepsAlone ==
  ASSUME Base, AloneInv, Scan \/ Launch \/ UNCHANGED vars
  PROVE  AloneInv'
<1>0. rpc \in [Procs -> RecoverPCs] /\ Launcher \in Procs /\ Launcher \notin Setups /\ AtKnown
  BY DEF Base, TypeInv, TypeOK, Procs, ConstantsOK
<1>1. /\ UNCHANGED <<pc, mem, target, mutex, todo, at, dir, outcome, journal, saved, stash, launcher, before>>
      /\ \A q \in Procs : q # Launcher => rpc'[q] = rpc[q]
      /\ rpc'[Launcher] = rpc[Launcher] \/ rpc[Launcher] \in {"idle", "clear"}
  BY <1>0 DEF Scan, Launch, vars, Step, files, paper, install, locals, request, elsewhere, rec
<1>2. OneOpen' /\ DirsApart' /\ JournalInDir' /\ StashNoted' /\ LauncherSeen' /\ HolderWorks' /\ RecoverSeesAll'
  BY <1>0, <1>1 DEF AloneInv, OneOpen, Open, DirsApart, Working, JournalInDir, StashNoted,
     LauncherSeen, HolderWorks, RecoverSeesAll, Procs
<1>3. ASSUME NEW s \in Setups PROVE Fresh(s)' /\ Taken(s)'
  BY <1>1 DEF AloneInv, Fresh, Taken, Working
<1>4. ASSUME NEW q \in Procs PROVE AtOutside(q)'
  <2>1. rpc[Launcher] \in {"idle", "clear"} => at[Launcher] = NoOne
    BY <1>0 DEF AtKnown, RecoverLocked
  <2> QED BY <2>1, <1>1 DEF AloneInv, AtOutside
<1> QED BY <1>2, <1>3, <1>4 DEF AloneInv

\* One Setup after the other stays so.
LEMMA AloneStep ==
  ASSUME MaxOpen = 1, Base, AloneInv, \A s \in Setups : Live(s) /\ Done(s), [Next]_vars
  PROVE  AloneInv'
<1>1. CASE KillLauncher
  <2>1. Ending(Launcher, FALSE) /\ Launcher \in Procs
    BY <1>1 DEF KillLauncher, Ending, install, Procs
  <2> QED BY <2>1, EndKeepsAlone
<1>2. ASSUME NEW p \in Procs, RecoverStep(p) \/ RecoverThrow(p) PROVE AloneInv'
  BY <1>2, RecoverKinds, EndKeepsAlone, AtWorkKeepsAlone, EnterKeepsAlone, DropKeepsAlone,
     PickKeepsAlone
<1> QED BY <1>1, <1>2, OwnKeepsAlone, BeginKeepsAlone, ThrowKeepsAlone, UpdateKeepsAlone,
     LaunchKeepsAlone DEF Next

\* The try block, and the catch block up to its last step.
LivePlaces == Forward \union (Undoing \ {"u_drop"})

\* The Setup works under the mutex, and what it found is as it was when it took it.
Lives(s) ==
  /\ before[s].taken /\ pc[s] \in LivePlaces /\ mutex = s
  /\ LiveNotes(s) /\ LiveTree(s) /\ LivePointer(s) /\ LiveLauncher(s) /\ LiveLoader(s)

\* The steps within the try block and the catch block.
Goes(s) ==
  /\ Base /\ AloneInv /\ Lives(s)
  /\ SetupStep(s) /\ ~Read(s) /\ pc'[s] \in LivePlaces
  /\ before'[s] = before[s] /\ target'[s] = target[s] /\ skip' = skip

\* What a Setup that is still at work found has not changed since its last step, unless it has just entered,
\* or read it.
LEMMA StillLives ==
  ASSUME Base, AloneInv, NEW s \in Setups, Live(s), SetupStep(s), before'[s].taken, pc'[s] \in LivePlaces
  PROVE  Enter(s) \/ Read(s) \/ Goes(s)
<1> USE DEF Forward, Cleaning, Undoing, Ended, Outside, Go, Goto, LivePlaces
<1>0. /\ pc \in [Setups -> SetupPCs] /\ before \in [Setups -> Installations] /\ Taken(s)
      /\ pc[s] \in Forward \union Cleaning => mutex = s
      /\ OnlyOf(s)
  BY StepIsOwn DEF Base, TypeInv, TypeOK, ExclusionInv, LockHeld, Inside, AloneInv
<1>1. CASE Enter(s) \/ Read(s)
  BY <1>1
<1>2. CASE Create(s) \/ NoteInitialized(s)
  BY <1>0, <1>2 DEF Create, NoteInitialized, Note
<1>3. CASE TimeOut(s)
  <2>1. before'[s].taken = FALSE
    BY <1>0, <1>3 DEF TimeOut, Seen
  <2> QED BY <2>1
<1>4. CASE Finish(s) \/ Clean(s) \/ Unlink(s) \/ Drop(s)
  BY <1>0, <1>4 DEF Finish, Clean, Unlink, Drop, Leave
<1>5. CASE pc[s] \in LivePlaces /\ before'[s] = before[s]
  <2>1. Lives(s)
    BY <1>0, <1>5 DEF Lives, Live, Taken
  <2>2. target'[s] = target[s] /\ skip' = skip
    BY <1>0 DEF OnlyOf
  <2> QED BY <2>1, <2>2, <1>1, <1>5 DEF Goes
<1> QED BY <1>0, <1>1, <1>2, <1>3, <1>4, <1>5
       DEF SetupStep, Prepare, SaveLauncher, Place, MoveAside, NoteMoved,
         MoveIn, NoteReady, StopOld, Snapshot, ReplaceLauncher, NoteReplaced, NoteIntent, Commit,
         NoteCommitted, Deploy, Serve, UndoStop, UndoPointer, UndoLauncher,
         UndoLoader, UndoRemove, UndoBack, UndoStart, Note, others

\* The notes and the journal, after a step within the try block or the catch block.
LEMMA GoesNotes ==
  ASSUME NEW s \in Setups, Goes(s)
  PROVE  LiveNotes(s)'
<1> USE DEF Forward, Cleaning, Undoing, Ended, Early, Go, Goto, LivePlaces
<1>0. /\ mem[s] \in Notes /\ pc \in [Setups -> SetupPCs] /\ TypeOK /\ TypeInv /\ ConstantsOK
      /\ outcome[s] \in {"none", "pending", "completed"}
      /\ journal[s] \in Notes /\ before'[s] = before[s] /\ target'[s] = target[s]
      /\ LiveNotes(s) /\ before[s].taken /\ pc'[s] \in LivePlaces
      /\ mem[s].new = target[s] /\ (pc[s] \in Forward \ Early => outcome[s] = "pending")
      /\ pc[s] \in {"prepare", "save", "place", "move"} => ~mem[s].moved /\ ~mem[s].created
      /\ pc[s] \in ToLauncher => ~mem[s].replaced
      /\ pc[s] = "prepare" => Flagless(mem[s])
  BY DEF Goes, Lives, Base, TypeInv, TypeOK, AloneInv, Fresh, Working, LiveTree, LiveLauncher,
     NotesInv, Waited, ToTree
<1>s. SetupStep(s)
  BY DEF Goes
<1>1. CASE Prepare(s)
  <2>1. pc[s] = "prepare" /\ pc'[s] \in {"u_stop", "save"}
    BY <1>0, <1>1 DEF Prepare
  <2>2. CASE Quiet(s)
    BY <1>0, <2>1, <2>2 DEF LiveNotes, Quiet, Unwritten, FromCommit
  <2>3. CASE mem'[s] = mem[s] /\ Written(s)
    BY <1>0, <2>1, <2>3 DEF LiveNotes, Written, Flagless, FromCommit
  <2> QED BY <1>0, <1>1, <2>2, <2>3, SetupNotes
<1>2. CASE Place(s)
  <2>1. pc[s] = "place"
    BY <1>2 DEF Place
  <2>2. CASE pc'[s] = "ready" /\ Notes1(s, "created")
    BY <1>0, <2>1, <2>2 DEF LiveNotes, Notes1, Unwritten, Adds, SameFound, Says, FromCommit
  <2>3. CASE pc'[s] = "move" /\ Notes2(s, "intent")
    <3>1. /\ SameFound(mem[s], mem'[s]) /\ mem'[s] \in Notes
          /\ Says(mem'[s], mem[s].created, TRUE, mem[s].moved, mem[s].replaced, mem[s].committing, mem[s].committed, mem[s].snap)
          /\ outcome'[s] = "pending" /\ journal'[s] = mem'[s]
      BY <2>3 DEF Notes2, Written, Adds
    <3> QED BY <1>0, <2>1, <2>3, <3>1 DEF LiveNotes, SameFound, Says, FromCommit, ToTree
  <2>4. CASE pc'[s] \in {"u_stop", "ready"} /\ Quiet(s)
    BY <1>0, <2>1, <2>4 DEF LiveNotes, Quiet, Unwritten, FromCommit
  <2> QED BY <1>0, <1>2, <2>2, <2>3, <2>4, SetupNotes
<1>3. CASE MoveAside(s)
  <2>1. pc[s] = "move"
    BY <1>3 DEF MoveAside
  <2>2. CASE pc'[s] = "u_stop" /\ Quiet(s)
    BY <1>0, <2>1, <2>2 DEF LiveNotes, Quiet, Unwritten, FromCommit
  <2>3. CASE pc'[s] = "moved" /\ Notes1(s, "moved")
    <3>1. /\ SameFound(mem[s], mem'[s]) /\ mem'[s] \in Notes
          /\ Says(mem'[s], mem[s].created, mem[s].intent, TRUE, mem[s].replaced, mem[s].committing, mem[s].committed, mem[s].snap)
          /\ outcome'[s] = outcome[s] /\ journal'[s] = journal[s]
      BY <2>3 DEF Notes1, Unwritten, Adds
    <3> QED BY <1>0, <2>1, <2>3, <3>1 DEF LiveNotes, SameFound, Says, FromCommit, ToTree
  <2> QED BY <1>0, <1>3, <2>2, <2>3, SetupNotes
<1>4. CASE MoveIn(s)
  <2>1. Notes1(s, "created") /\ pc[s] = "movein" /\ pc'[s] = "ready"
    BY <1>0, <1>4, SetupNotes DEF MoveIn
  <2> QED BY <1>0, <2>1 DEF LiveNotes, Notes1, Unwritten, Adds, SameFound, Says, FromCommit
<1>5. CASE ReplaceLauncher(s)
  <2>1. Notes1(s, "replaced") /\ pc[s] = "launcher" /\ pc'[s] = "replaced"
    BY <1>0, <1>5, SetupNotes DEF ReplaceLauncher
  <2> QED BY <1>0, <2>1 DEF LiveNotes, Notes1, Unwritten, Adds, SameFound, Says, FromCommit
<1>6. CASE Commit(s)
  <2>1. Notes1(s, "committed") /\ pc[s] = "commit" /\ pc'[s] = "committed"
    BY <1>0, <1>6, SetupNotes DEF Commit
  <2> QED BY <1>0, <2>1 DEF LiveNotes, Notes1, Unwritten, Adds, SameFound, Says, FromCommit
<1>7. CASE NoteMoved(s) \/ NoteReady(s) \/ NoteReplaced(s) \/ NoteCommitted(s) \/ StopOld(s)
  <2>1. Notes2(s, "") /\ (pc'[s] \in {"commit"} \union FromCommit => pc[s] \in FromCommit)
    BY <1>0, <1>7, SetupNotes DEF NoteMoved, NoteReady, NoteReplaced, NoteCommitted, StopOld,
       Note, FromCommit
  <2>2. pc[s] \in Forward \ {"read"} /\ pc'[s] \in Forward \ {"read", "move"}
    BY <1>0, <1>7 DEF NoteMoved, NoteReady, NoteReplaced, NoteCommitted, StopOld, Note
  <2> QED BY <1>0, <2>1, <2>2 DEF LiveNotes, Notes2, Written, Adds, SameFound, Says
<1>8. CASE NoteIntent(s)
  <2>1. Notes2(s, "committing") /\ pc[s] = "intend" /\ pc'[s] = "commit"
    BY <1>0, <1>8, SetupNotes DEF NoteIntent, Note
  <2>2. /\ SameFound(mem[s], mem'[s]) /\ mem'[s] \in Notes
        /\ Says(mem'[s], mem[s].created, mem[s].intent, mem[s].moved, mem[s].replaced, TRUE, mem[s].committed, mem[s].snap)
        /\ outcome'[s] = "pending" /\ journal'[s] = mem'[s]
    BY <2>1 DEF Notes2, Written, Adds
  <2> QED BY <1>0, <2>1, <2>2 DEF LiveNotes, SameFound, Says, FromCommit
<1>9. CASE Snapshot(s) \/ Deploy(s)
  <2>1. (pc[s] = "snap" /\ pc'[s] = "launcher") \/ (pc[s] = "deploy" /\ pc'[s] = "serve")
    BY <1>0, <1>9 DEF Snapshot, Deploy
  <2>2. CASE Quiet(s)
    BY <1>0, <2>1, <2>2 DEF LiveNotes, Quiet, Unwritten, FromCommit
  <2>3. CASE Notes2(s, "snap")
    <3>1. /\ SameFound(mem[s], mem'[s]) /\ mem'[s] \in Notes
          /\ Says(mem'[s], mem[s].created, mem[s].intent, mem[s].moved, mem[s].replaced, mem[s].committing, mem[s].committed, TRUE)
          /\ outcome'[s] = "pending" /\ journal'[s] = mem'[s]
      BY <2>3 DEF Notes2, Written, Adds
    <3> QED BY <1>0, <2>1, <2>3, <3>1 DEF LiveNotes, SameFound, Says, FromCommit, ToTree
  <2>4. CASE Notes2(s, "")
    <3>2. pc'[s] \in {"commit"} \union FromCommit => mem[s].committing
      BY <1>0, <2>1 DEF LiveNotes, FromCommit
    <3>3. pc[s] \in Forward \ {"read"} /\ pc'[s] \in Forward \ {"read", "move"}
      BY <2>1
    <3> QED BY <1>0, <2>4, <3>2, <3>3 DEF LiveNotes, Notes2, Written, Adds, SameFound, Says
  <2> QED BY <1>0, <1>9, <2>2, <2>3, <2>4, SetupNotes
<1>10. CASE /\ SaveLauncher(s) \/ Serve(s) \/ UndoStop(s) \/ UndoPointer(s) \/ UndoLauncher(s)
               \/ UndoLoader(s) \/ UndoRemove(s) \/ UndoBack(s) \/ UndoStart(s)
  <2>1. /\ UNCHANGED <<mem, outcome, journal>> \/ pc'[s] \in Ended
        /\ pc'[s] \in {"commit"} \union FromCommit => pc[s] \in FromCommit
        /\ pc'[s] \in Forward => pc[s] \in Forward \ {"read"} /\ pc'[s] \notin {"read", "move"}
    BY <1>0, <1>10
       DEF SaveLauncher, Serve, UndoStop, UndoPointer, UndoLauncher, UndoLoader, UndoRemove, UndoBack, UndoStart,
           Leave, files, paper, locals, FromCommit
  <2> QED BY <1>0, <2>1 DEF LiveNotes
<1>11. CASE Create(s) \/ NoteInitialized(s) \/ Enter(s) \/ Read(s) \/ TimeOut(s)
  BY <1>11 DEF Goes, Lives, Create, NoteInitialized, Note, Enter, Read, TimeOut
<1>12. CASE Finish(s) \/ Clean(s) \/ Unlink(s) \/ Drop(s)
  BY <1>0, <1>12 DEF Finish, Clean, Unlink, Drop, Leave
<1> QED BY <1>s, <1>1, <1>2, <1>3, <1>4, <1>5, <1>6, <1>7, <1>8, <1>9, <1>10, <1>11, <1>12 DEF
     SetupStep

\* The runtimes, after a step within the try block or the catch block.
LEMMA GoesTree ==
  ASSUME NEW s \in Setups, Goes(s)
  PROVE  LiveTree(s)'
<1> USE DEF Forward, Cleaning, Undoing, Ended, Early, Go, Goto, LivePlaces
<1> DEFINE n == target[s]
           Same == /\ tree' = tree /\ stash'[s] = stash[s]
                   /\ mem'[s].moved = mem[s].moved /\ mem'[s].created = mem[s].created
<1>0. /\ mem[s] \in Notes /\ pc \in [Setups -> SetupPCs] /\ TypeOK /\ TypeInv /\ ConstantsOK
      /\ tree \in [Versions -> Contents] /\ stash \in [Setups -> Contents]
      /\ before'[s] = before[s] /\ target'[s] = n /\ n \in Versions
      /\ LiveTree(s) /\ pc'[s] \in LivePlaces
  BY DEF Goes, Lives, Base, TypeInv, TypeOK, TargetKnown
<1>s. SetupStep(s)
  BY DEF Goes
<1>1. CASE Prepare(s)
  <2>1. pc[s] = "prepare" /\ pc'[s] \in {"u_stop", "save"} /\ UNCHANGED <<tree, stash>>
    BY <1>0, <1>1 DEF Prepare, install
  <2>2. mem'[s] = mem[s]
    BY <1>0, <1>1, SetupNotes DEF Quiet
  <2> QED BY <1>0, <2>1, <2>2 DEF LiveTree, ToTree, FromTree
<1>2. CASE Place(s)
  <2>1. pc[s] = "place" /\ UNCHANGED stash
    BY <1>2 DEF Place
  <2>2. CASE pc'[s] = "ready" /\ tree[n] = "absent" /\ SetTree(n, "intact") /\ Notes1(s, "created")
    BY <1>0, <2>1, <2>2 DEF LiveTree, SetTree, Notes1, Adds, Says, ToTree, FromTree
  <2>3. CASE pc'[s] = "move" /\ tree[n] # "absent" /\ UNCHANGED tree /\ Notes2(s, "intent")
    BY <1>0, <2>1, <2>3 DEF LiveTree, Notes2, Adds, Says, ToTree, FromTree
  <2>4. CASE (pc'[s] = "u_stop" \/ (pc'[s] = "ready" /\ tree[n] = "intact")) /\ UNCHANGED tree /\ Quiet(s)
    BY <1>0, <2>1, <2>4 DEF LiveTree, Quiet, ToTree, FromTree
  <2> QED BY <1>0, <1>2, <2>2, <2>3, <2>4, SetupNotes
<1>3. CASE MoveAside(s)
  <2>1. pc[s] = "move"
    BY <1>3 DEF MoveAside
  <2>2. CASE pc'[s] = "u_stop" /\ UNCHANGED <<tree, stash>> /\ Quiet(s)
    BY <1>0, <2>1, <2>2 DEF LiveTree, Quiet, ToTree, FromTree
  <2>3. CASE pc'[s] = "moved" /\ SetStash(s, tree[n]) /\ SetTree(n, "absent") /\ Notes1(s, "moved")
    BY <1>0, <2>1, <2>3 DEF LiveTree, SetTree, SetStash, Notes1, Adds, Says, ToTree, FromTree
  <2> QED BY <1>0, <1>3, <2>2, <2>3, SetupNotes
<1>4. CASE MoveIn(s)
  <2>1. Notes1(s, "created") /\ pc[s] = "movein" /\ pc'[s] = "ready" /\ SetTree(n, "intact") /\ UNCHANGED stash
    BY <1>0, <1>4, SetupNotes DEF MoveIn, files
  <2> QED BY <1>0, <2>1 DEF LiveTree, SetTree, Notes1, Adds, Says, ToTree, FromTree
<1>5. CASE ReplaceLauncher(s) \/ Commit(s)
  <2>1. Same /\ pc[s] \in FromTree /\ pc'[s] \in FromTree
    <3>1. \E f \in {"replaced", "committed"} : Notes1(s, f)
      BY <1>0, <1>5, SetupNotes
    <3> QED BY <1>0, <1>5, <3>1 DEF ReplaceLauncher, Commit, files, Notes1, Adds, Says, FromTree
  <2> QED BY <1>0, <2>1 DEF LiveTree, ToTree, FromTree
<1>6. CASE NoteReady(s) \/ NoteReplaced(s) \/ NoteCommitted(s) \/ StopOld(s) \/ NoteIntent(s)
  <2>1. Same /\ pc[s] \in FromTree /\ pc'[s] \in FromTree
    <3>1. \E f \in {"", "committing"} : Notes2(s, f)
      BY <1>0, <1>6, SetupNotes
    <3> QED BY <1>0, <1>6, <3>1
         DEF NoteReady, NoteReplaced, NoteCommitted, StopOld, NoteIntent, Note, install, Notes2, Adds, Says, FromTree
  <2> QED BY <1>0, <2>1 DEF LiveTree, ToTree, FromTree
<1>7. CASE NoteMoved(s)
  <2>1. Same /\ pc[s] = "moved" /\ pc'[s] = "movein"
    <3>1. Notes2(s, "")
      BY <1>0, <1>7, SetupNotes
    <3> QED BY <1>0, <1>7, <3>1 DEF NoteMoved, Note, install, Notes2, Adds, Says
  <2> QED BY <1>0, <2>1 DEF LiveTree, ToTree, FromTree
<1>8. CASE Snapshot(s) \/ Deploy(s)
  <2>1. Same /\ pc[s] \in FromTree /\ pc'[s] \in FromTree
    <3>1. Quiet(s) \/ \E f \in {"", "snap"} : Notes2(s, f)
      BY <1>0, <1>8, SetupNotes
    <3> QED BY <1>0, <1>8, <3>1 DEF Snapshot, Deploy, install, Quiet, Notes2, Adds, Says, FromTree
  <2> QED BY <1>0, <2>1 DEF LiveTree, ToTree, FromTree
<1>9. CASE SaveLauncher(s) \/ Serve(s) \/ UndoStop(s) \/ UndoPointer(s) \/ UndoLauncher(s) \/ UndoLoader(s)
  <2>1. Same /\ \/ pc[s] = "save" /\ pc'[s] \in {"place", "u_stop"}
                \/ pc[s] = "serve" /\ pc'[s] = "finish"
                \/ /\ pc[s] \in {"u_stop", "u_pointer", "u_launcher", "u_loader"}
                   /\ pc'[s] \in {"u_pointer", "u_launcher", "u_loader", "u_remove"}
    BY <1>0, <1>9 DEF SaveLauncher, Serve, UndoStop, UndoPointer, UndoLauncher, UndoLoader,
       install, files, locals
  <2> QED BY <1>0, <2>1 DEF LiveTree, ToTree, FromTree
<1>10. CASE UndoRemove(s)
  <2>1. mem[s].oldExisted = (mem[s].old # None /\ before[s].tree[mem[s].old] # "absent")
    BY DEF Goes, Lives, LiveNotes
  <2> DEFINE back == mem[s].moved /\ stash[s] # "absent"
             remove == back \/ (mem[s].created /\ (n # mem[s].old \/ ~mem[s].oldExisted))
  <2>2. /\ pc[s] = "u_remove" /\ pc'[s] = IF back THEN "u_back" ELSE "u_start"
        /\ UNCHANGED <<mem, stash>>
        /\ IF remove /\ tree[n] # "absent" THEN SetTree(n, "absent") ELSE UNCHANGED tree
    BY <1>0, <1>10 DEF UndoRemove, Leave, files, locals
  <2>3. \A v \in Versions \ {n} : tree'[v] = tree[v]
    BY <1>0, <2>2 DEF SetTree
  <2>4. tree'[n] = IF remove THEN "absent" ELSE tree[n]
    BY <1>0, <2>2 DEF SetTree
  <2>5. CASE back
    BY <1>0, <2>2, <2>3, <2>4, <2>5 DEF LiveTree, ToTree, FromTree
  <2>6. CASE ~back
    <3>1. ~mem[s].moved /\ stash[s] = "absent"
      BY <1>0, <2>2, <2>6 DEF LiveTree
    <3>2. tree'[n] = before[s].tree[n]
      BY <1>0, <2>1, <2>4, <2>6, <3>1 DEF LiveTree, ConstantsOK
    <3> QED BY <1>0, <2>2, <2>3, <2>6, <3>1, <3>2 DEF LiveTree, ToTree, FromTree
  <2> QED BY <2>5, <2>6
<1>11. CASE UndoBack(s)
  <2>1. pc[s] = "u_back" /\ pc'[s] = "u_start" /\ SetTree(n, stash[s]) /\ SetStash(s, "absent") /\ UNCHANGED mem
    BY <1>0, <1>11 DEF UndoBack, locals
  <2> QED BY <1>0, <2>1 DEF LiveTree, SetTree, SetStash, ToTree, FromTree
<1>12. CASE UndoStart(s)
  <2>1. Same /\ pc[s] = "u_start" /\ pc'[s] = "u_unlink"
    BY <1>0, <1>12 DEF UndoStart, install, files, locals
  <2> QED BY <1>0, <2>1 DEF LiveTree, ToTree, FromTree
<1>13. CASE Create(s) \/ NoteInitialized(s) \/ Enter(s) \/ Read(s) \/ TimeOut(s)
  BY <1>13 DEF Goes, Lives, Create, NoteInitialized, Note, Enter, Read, TimeOut
<1>14. CASE Finish(s) \/ Clean(s) \/ Unlink(s) \/ Drop(s)
  BY <1>0, <1>14 DEF Finish, Clean, Unlink, Drop, Leave
<1> QED BY <1>s, <1>1, <1>2, <1>3, <1>4, <1>5, <1>6, <1>7, <1>8, <1>9, <1>10, <1>11, <1>12,
     <1>13, <1>14 DEF SetupStep

\* installation.json.
LEMMA GoesPointer ==
  ASSUME NEW s \in Setups, Goes(s)
  PROVE  LivePointer(s)'
<1> USE DEF Forward, Cleaning, Undoing, Ended, Go, Goto, LivePlaces, FromCommit
<1>0. /\ mem[s] \in Notes /\ pc \in [Setups -> SetupPCs] /\ TypeOK /\ TypeInv /\ ConstantsOK
      /\ before'[s] = before[s] /\ target'[s] = target[s]
      /\ LivePointer(s) /\ pc'[s] \in LivePlaces /\ mem[s].original = Found(before[s])
  BY DEF Goes, Lives, Base, TypeInv, TypeOK, LiveNotes
<1>s. SetupStep(s)
  BY DEF Goes
<1>1. CASE Prepare(s) \/ SaveLauncher(s) \/ Place(s) \/ MoveAside(s)
  <2>1. /\ pointer' = pointer /\ pc[s] \in Forward \ FromCommit
        /\ pc'[s] \in (Forward \ FromCommit) \union {"u_stop"}
    BY <1>0, <1>1 DEF Prepare, SaveLauncher, Place, MoveAside, install
  <2> QED BY <1>0, <2>1 DEF LivePointer
<1>2. CASE NoteMoved(s) \/ MoveIn(s) \/ NoteReady(s) \/ StopOld(s) \/ Snapshot(s) \/ ReplaceLauncher(s) \/ NoteReplaced(s) \/ NoteIntent(s)
  <2>1. pointer' = pointer /\ pc[s] \in Forward \ FromCommit /\ pc'[s] \in Forward \ FromCommit
    BY <1>0, <1>2
       DEF NoteMoved, MoveIn, NoteReady, StopOld, Snapshot, ReplaceLauncher, NoteReplaced, NoteIntent, Note, install
  <2> QED BY <1>0, <2>1 DEF LivePointer
<1>3. CASE Commit(s)
  <2>1. pointer'.active = target[s] /\ pc'[s] = "committed"
    BY <1>0, <1>3 DEF Commit, Installed
  <2>2. mem'[s].committed
    BY <1>0, <1>3, SetupNotes DEF Notes1, Adds, Says
  <2> QED BY <1>0, <2>1, <2>2 DEF LivePointer
<1>4. CASE NoteCommitted(s) \/ Deploy(s) \/ Serve(s)
  <2>1. pointer' = pointer /\ pc[s] \in FromCommit /\ pc'[s] \in FromCommit
    BY <1>0, <1>4 DEF NoteCommitted, Deploy, Serve, Note, install
  <2>2. mem'[s].committed = mem[s].committed
    <3>1. mem'[s] = mem[s] \/ Adds(mem[s], mem'[s], "")
      BY <1>0, <1>4, SetupNotes DEF Quiet, Notes2, Serve, locals
    <3> QED BY <3>1 DEF Adds, Says
  <2> QED BY <1>0, <2>1, <2>2 DEF LivePointer
<1>5. CASE UndoStop(s)
  <2>1. UNCHANGED <<pointer, mem>> /\ pc[s] = "u_stop" /\ pc'[s] = "u_pointer"
    BY <1>0, <1>5 DEF UndoStop, install, locals
  <2> QED BY <1>0, <2>1 DEF LivePointer
<1>6. CASE UndoPointer(s)
  <2>1. pointer' = Found(before[s])
    BY <1>0, <1>6 DEF UndoPointer
  <2> QED BY <1>0, <1>6, <2>1 DEF LivePointer, UndoPointer
<1>7. CASE UndoLauncher(s) \/ UndoLoader(s) \/ UndoRemove(s) \/ UndoBack(s) \/ UndoStart(s)
  <2>1. /\ pointer' = pointer /\ pc[s] \in Undoing \ {"u_stop", "u_pointer"}
        /\ pc'[s] \in Undoing \ {"u_stop", "u_pointer"}
    BY <1>0, <1>7 DEF UndoLauncher, UndoLoader, UndoRemove, UndoBack, UndoStart, Leave, install
  <2> QED BY <1>0, <2>1 DEF LivePointer
<1>8. CASE Create(s) \/ NoteInitialized(s) \/ Enter(s) \/ Read(s) \/ TimeOut(s)
  BY <1>8 DEF Goes, Lives, Create, NoteInitialized, Note, Enter, Read, TimeOut
<1>9. CASE Finish(s) \/ Clean(s) \/ Unlink(s) \/ Drop(s)
  BY <1>0, <1>9 DEF Finish, Clean, Unlink, Drop, Leave
<1> QED BY <1>s, <1>1, <1>2, <1>3, <1>4, <1>5, <1>6, <1>7, <1>8, <1>9 DEF SetupStep

\* The launcher and the copy of it that was saved.
LEMMA GoesLauncher ==
  ASSUME NEW s \in Setups, Goes(s)
  PROVE  LiveLauncher(s)'
<1> USE DEF Forward, Cleaning, Undoing, Ended, Early, Go, Goto, LivePlaces, ToTree, ToLauncher, FromLauncher
<1> DEFINE Same == launcher' = launcher /\ saved'[s] = saved[s] /\ mem'[s].replaced = mem[s].replaced
<1>0. /\ mem[s] \in Notes /\ pc \in [Setups -> SetupPCs] /\ TypeOK /\ TypeInv /\ ConstantsOK
      /\ saved \in [Setups -> Versions \union {None}]
      /\ before'[s] = before[s] /\ target'[s] = target[s]
      /\ LiveLauncher(s) /\ pc'[s] \in LivePlaces
      /\ mem[s].existed = (before[s].launcher # None)
  BY DEF Goes, Lives, Base, TypeInv, TypeOK, LiveNotes
<1>s. SetupStep(s)
  BY DEF Goes
<1>1. CASE Prepare(s) \/ Place(s) \/ MoveAside(s)
  <2>1. mem'[s].replaced = mem[s].replaced
    <3>1. mem'[s] = mem[s] \/ \E f \in {"created", "intent", "moved"} : Adds(mem[s], mem'[s], f)
      BY <1>0, <1>1, SetupNotes DEF Quiet, Notes1, Notes2
    <3> QED BY <3>1 DEF Adds, Says
  <2>2. /\ Same
        /\ \/ pc[s] = "prepare" /\ pc'[s] \in {"save", "u_stop"}
           \/ pc[s] \in {"place", "move"} /\ pc'[s] \in {"move", "ready", "moved", "u_stop"}
    BY <1>0, <1>1, <2>1 DEF Prepare, Place, MoveAside, install
  <2> QED BY <1>0, <2>2 DEF LiveLauncher
<1>2. CASE SaveLauncher(s)
  <2>1. pc[s] = "save" /\ launcher' = launcher /\ mem' = mem /\ launcher = before[s].launcher
    BY <1>0, <1>2 DEF SaveLauncher, install, locals, LiveLauncher
  <2>2. CASE pc'[s] = "u_stop"
    <3>1. saved'[s] = saved[s]
      BY <1>0, <1>2, <2>2 DEF SaveLauncher
    <3> QED BY <1>0, <2>1, <2>2, <3>1 DEF LiveLauncher
  <2>3. CASE pc'[s] = "place"
    <3>1. saved'[s] = before[s].launcher
      BY <1>0, <1>2, <2>1, <2>3 DEF SaveLauncher
    <3> QED BY <1>0, <2>1, <2>3, <3>1 DEF LiveLauncher
  <2> QED BY <1>0, <1>2, <2>2, <2>3 DEF SaveLauncher
<1>3. CASE NoteMoved(s) \/ MoveIn(s) \/ NoteReady(s) \/ StopOld(s) \/ Snapshot(s)
  <2>1. mem'[s].replaced = mem[s].replaced
    <3>1. mem'[s] = mem[s] \/ \E f \in {"", "created", "snap"} : Adds(mem[s], mem'[s], f)
      BY <1>0, <1>3, SetupNotes DEF Quiet, Notes1, Notes2
    <3> QED BY <3>1 DEF Adds, Says
  <2>2. /\ Same /\ pc[s] \in {"moved", "movein", "ready", "stop", "snap"}
        /\ pc'[s] \in {"movein", "ready", "stop", "snap", "launcher"}
    BY <1>0, <1>3, <2>1 DEF NoteMoved, MoveIn, NoteReady, StopOld, Snapshot, Note, install, files
  <2> QED BY <1>0, <2>2 DEF LiveLauncher
<1>4. CASE ReplaceLauncher(s)
  <2>1. launcher' = target[s] /\ pc[s] = "launcher" /\ pc'[s] = "replaced" /\ saved' = saved
    BY <1>0, <1>4 DEF ReplaceLauncher, files
  <2>2. mem'[s].replaced
    BY <1>0, <1>4, SetupNotes DEF Notes1, Adds, Says
  <2> QED BY <1>0, <2>1, <2>2 DEF LiveLauncher
<1>5. CASE NoteReplaced(s) \/ NoteIntent(s) \/ Commit(s) \/ NoteCommitted(s) \/ Deploy(s) \/ Serve(s)
  <2>1. mem'[s].replaced = mem[s].replaced
    <3>1. mem'[s] = mem[s] \/ \E f \in {"", "committing", "committed"} : Adds(mem[s], mem'[s], f)
      BY <1>0, <1>5, SetupNotes DEF Quiet, Notes1, Notes2, Serve, locals
    <3> QED BY <3>1 DEF Adds, Says
  <2>2. Same /\ pc[s] \in FromLauncher /\ pc'[s] \in FromLauncher
    BY <1>0, <1>5, <2>1 DEF NoteReplaced, NoteIntent, Commit, NoteCommitted, Deploy, Serve,
       Note, install, files
  <2> QED BY <1>0, <2>2 DEF LiveLauncher
<1>6. CASE UndoLauncher(s)
  <2>1. pc[s] = "u_launcher" /\ pc'[s] = "u_loader" /\ UNCHANGED <<saved, mem>>
    BY <1>0, <1>6 DEF UndoLauncher, files, locals
  <2>2. launcher' = before[s].launcher
    BY <1>0, <1>6 DEF UndoLauncher, LiveLauncher
  <2> QED BY <1>0, <2>1, <2>2 DEF LiveLauncher
<1>7. CASE UndoStop(s) \/ UndoPointer(s)
  <2>1. Same /\ pc[s] \in {"u_stop", "u_pointer"} /\ pc'[s] \in {"u_pointer", "u_launcher"}
    BY <1>0, <1>7 DEF UndoStop, UndoPointer, install, files, locals
  <2> QED BY <1>0, <2>1 DEF LiveLauncher
<1>8. CASE UndoLoader(s) \/ UndoRemove(s) \/ UndoBack(s) \/ UndoStart(s)
  <2>1. /\ Same /\ pc[s] \in Undoing \ {"u_stop", "u_pointer", "u_launcher"}
        /\ pc'[s] \in Undoing \ {"u_stop", "u_pointer", "u_launcher"}
    BY <1>0, <1>8 DEF UndoLoader, UndoRemove, UndoBack, UndoStart, Leave, install, files, locals
  <2> QED BY <1>0, <2>1 DEF LiveLauncher
<1>9. CASE Create(s) \/ NoteInitialized(s) \/ Enter(s) \/ Read(s) \/ TimeOut(s)
  BY <1>9 DEF Goes, Lives, Create, NoteInitialized, Note, Enter, Read, TimeOut
<1>10. CASE Finish(s) \/ Clean(s) \/ Unlink(s) \/ Drop(s)
  BY <1>0, <1>10 DEF Finish, Clean, Unlink, Drop, Leave
<1> QED BY <1>s, <1>1, <1>2, <1>3, <1>4, <1>5, <1>6, <1>7, <1>8, <1>9, <1>10 DEF SetupStep

\* The Cadence loader and its snapshot.
LEMMA GoesLoader ==
  ASSUME NEW s \in Setups, Goes(s)
  PROVE  LiveLoader(s)'
<1> USE DEF Forward, Cleaning, Undoing, Ended, Go, Goto, LivePlaces, FromLauncher, FromSnap
<1> DEFINE Same == loader' = loader /\ shot'[s] = shot[s] /\ mem'[s].snap = mem[s].snap
<1>0. /\ mem[s] \in Notes /\ pc \in [Setups -> SetupPCs] /\ TypeOK /\ TypeInv /\ ConstantsOK
      /\ shot \in [Setups -> Versions \union {None}]
      /\ before'[s] = before[s] /\ target'[s] = target[s] /\ skip' = skip
      /\ LiveLoader(s) /\ pc'[s] \in LivePlaces
  BY DEF Goes, Lives, Base, TypeInv, TypeOK
<1>s. SetupStep(s)
  BY DEF Goes
<1>1. CASE Prepare(s) \/ SaveLauncher(s) \/ Place(s) \/ MoveAside(s) \/ NoteMoved(s) \/ MoveIn(s) \/ NoteReady(s) \/ StopOld(s)
  <2>1. mem'[s].snap = mem[s].snap
    <3>1. mem'[s] = mem[s] \/ \E f \in {"", "created", "intent", "moved"} : Adds(mem[s], mem'[s], f)
      BY <1>0, <1>1, SetupNotes DEF Quiet, Notes1, Notes2, SaveLauncher, locals
    <3> QED BY <3>1 DEF Adds, Says
  <2>2. Same /\ pc[s] \in Forward \ FromSnap /\ pc'[s] \in (Forward \ FromSnap) \union {"u_stop"}
    BY <1>0, <1>1, <2>1
       DEF Prepare, SaveLauncher, Place, MoveAside, NoteMoved, MoveIn, NoteReady, StopOld, Note, install, files
  <2> QED BY <1>0, <2>2 DEF LiveLoader
<1>2. CASE Snapshot(s)
  <2>1. pc[s] = "snap" /\ pc'[s] = "launcher" /\ loader' = loader /\ loader = before[s].loader /\ ~mem[s].snap
    BY <1>0, <1>2 DEF Snapshot, install, LiveLoader
  <2>2. CASE skip
    BY <1>0, <1>2, <2>1, <2>2, SetupNotes DEF Snapshot, Quiet, LiveLoader
  <2>3. CASE ~skip
    <3>1. mem'[s].snap
      BY <1>0, <1>2, <2>3, SetupNotes DEF Notes2, Adds, Says
    <3>2. shot'[s] = loader
      BY <1>0, <1>2, <2>3 DEF Snapshot
    <3> QED BY <1>0, <2>1, <2>3, <3>1, <3>2 DEF LiveLoader
  <2> QED BY <2>2, <2>3
<1>3. CASE ReplaceLauncher(s) \/ NoteReplaced(s) \/ NoteIntent(s) \/ Commit(s) \/ NoteCommitted(s) \/ Serve(s)
  <2>1. mem'[s].snap = mem[s].snap
    <3>1. mem'[s] = mem[s] \/ \E f \in {"", "replaced", "committing", "committed"} : Adds(mem[s], mem'[s], f)
      BY <1>0, <1>3, SetupNotes DEF Quiet, Notes1, Notes2, Serve, locals
    <3> QED BY <3>1 DEF Adds, Says
  <2>2. /\ Same /\ pc[s] \in FromSnap /\ pc'[s] \in FromSnap
        /\ pc'[s] \in {"serve", "finish"} => pc[s] = "serve"
    BY <1>0, <1>3, <2>1 DEF ReplaceLauncher, NoteReplaced, NoteIntent, Commit, NoteCommitted,
       Serve, Note, install, files
  <2> QED BY <1>0, <2>2 DEF LiveLoader
<1>4. CASE Deploy(s)
  <2>1. pc[s] = "deploy" /\ pc'[s] = "serve" /\ shot' = shot /\ loader' = IF skip THEN loader ELSE target[s]
    BY <1>0, <1>4 DEF Deploy
  <2>2. mem'[s].snap = mem[s].snap
    BY <1>0, <1>4, SetupNotes DEF Quiet, Notes2, Adds, Says
  <2> QED BY <1>0, <2>1, <2>2 DEF LiveLoader
<1>5. CASE UndoLoader(s)
  <2>1. pc[s] = "u_loader" /\ pc'[s] = "u_remove" /\ UNCHANGED mem
    BY <1>0, <1>5 DEF UndoLoader, locals
  <2>2. loader' = before[s].loader
    BY <1>0, <1>5 DEF UndoLoader, LiveLoader
  <2> QED BY <1>0, <2>1, <2>2 DEF LiveLoader
<1>6. CASE UndoStop(s) \/ UndoPointer(s) \/ UndoLauncher(s)
  <2>1. /\ Same /\ pc[s] \in {"u_stop", "u_pointer", "u_launcher"}
        /\ pc'[s] \in {"u_pointer", "u_launcher", "u_loader"}
    BY <1>0, <1>6 DEF UndoStop, UndoPointer, UndoLauncher, install, files, locals
  <2> QED BY <1>0, <2>1 DEF LiveLoader
<1>7. CASE UndoRemove(s) \/ UndoBack(s) \/ UndoStart(s)
  <2>1. /\ Same /\ pc[s] \in {"u_remove", "u_back", "u_start"}
        /\ pc'[s] \in {"u_back", "u_start", "u_unlink"}
    BY <1>0, <1>7 DEF UndoRemove, UndoBack, UndoStart, Leave, install, files, locals
  <2> QED BY <1>0, <2>1 DEF LiveLoader
<1>8. CASE Create(s) \/ NoteInitialized(s) \/ Enter(s) \/ Read(s) \/ TimeOut(s)
  BY <1>8 DEF Goes, Lives, Create, NoteInitialized, Note, Enter, Read, TimeOut
<1>9. CASE Finish(s) \/ Clean(s) \/ Unlink(s) \/ Drop(s)
  BY <1>0, <1>9 DEF Finish, Clean, Unlink, Drop, Leave
<1> QED BY <1>s, <1>1, <1>2, <1>3, <1>4, <1>5, <1>6, <1>7, <1>8, <1>9 DEF SetupStep

\* A Setup that has just entered has changed nothing.
LEMMA EnterLives ==
  ASSUME Base, AloneInv, NEW s \in Setups, Enter(s)
  PROVE  Live(s)'
<1> USE DEF Go, Goto
<1>0. /\ pc \in [Setups -> SetupPCs] /\ before \in [Setups -> Installations] /\ TypeInv /\ ConstantsOK
      /\ mem[s] \in Notes /\ journal[s] \in Notes /\ Fresh(s) /\ Waited(s)
      /\ stash[s] # "absent" => journal[s].intent
      /\ target[s] \in Versions \union {None}
  BY DEF Base, TypeInv, TypeOK, AloneInv, StashNoted, NotesInv
<1>1. /\ pc[s] = "enter" /\ pc'[s] = "read" /\ before'[s] = Seen(TRUE, FALSE) /\ target' = target
      /\ UNCHANGED <<pointer, tree, launcher, loader, outcome, journal, saved, stash, shot>>
      /\ mem'[s] = mem[s]
  BY <1>0 DEF Enter, install, files, paper, locals, request
<1>2. /\ mem[s].existed = (launcher # None) /\ mem[s].new = target[s]
      /\ outcome[s] # "none" => journal[s] = mem[s]
      /\ saved[s] = None
  BY <1>0, <1>1 DEF AloneInv, LauncherSeen, Fresh, Working, Ended, Outside
<1>3. Flagless(mem[s]) /\ Flagless(journal[s]) /\ stash[s] = "absent"
  BY <1>0, <1>1 DEF Waited, Outside, Flagless
<1>4. /\ before'[s].pointer = pointer /\ before'[s].tree = tree
      /\ before'[s].launcher = launcher /\ before'[s].loader = loader /\ ~before'[s].read
      /\ Found(before'[s]) = NoPointer
  BY <1>1 DEF Seen, Found
<1> DEFINE k == mem'[s]
<1>5. /\ k.old = None /\ k.new = mem[s].new /\ k.original = NoPointer
      /\ k.existed = mem[s].existed /\ ~k.oldExisted /\ k.oldExisted \in BOOLEAN
      /\ LET m == mem[s] IN
         Says(k, m.created, m.intent, m.moved, m.replaced, m.committing, m.committed, m.snap)
  BY <1>0, <1>1 DEF Fresh, Says, Notes
<1>6. ~k.created /\ ~k.intent /\ ~k.moved /\ ~k.replaced /\ ~k.committing /\ ~k.committed /\ ~k.snap
  BY <1>3, <1>5 DEF Says, Flagless
<1>7. LiveNotes(s)'
  <2>1. /\ k.original = Found(before'[s]) /\ k.old = Found(before'[s]).active
        /\ k.oldExisted = (k.old # None /\ before'[s].tree[k.old] # "absent")
        /\ k.existed = (before'[s].launcher # None)
    BY <1>2, <1>4, <1>5 DEF NoPointer
  <2>2. outcome'[s] = "pending" =>
          /\ journal'[s].new = target'[s] /\ journal'[s].existed = k.existed
          /\ ~journal'[s].created /\ ~journal'[s].intent /\ ~journal'[s].moved /\ ~journal'[s].replaced
          /\ ~journal'[s].committing /\ ~journal'[s].committed /\ ~journal'[s].snap
    BY <1>1, <1>2, <1>3, <1>5 DEF Flagless
  <2>3. journal'[s].snap \in BOOLEAN /\ journal'[s].intent \in BOOLEAN /\ journal'[s].moved \in BOOLEAN
        /\ k.snap \in BOOLEAN /\ k.intent \in BOOLEAN /\ k.moved \in BOOLEAN
    BY <1>0, <1>1, <1>5 DEF Notes, Says
  <2> HIDE DEF k
  <2>4. /\ outcome'[s] = "pending" =>
             /\ journal'[s].snap = k.snap /\ journal'[s].intent = k.intent
             /\ journal'[s].created => journal'[s].moved = k.moved
    BY <2>2, <2>3, <1>6
  <2> USE DEF k
  <2> QED BY <2>1, <2>2, <2>4, <1>1, <1>4, <1>6 DEF LiveNotes, FromCommit
<1>8. LiveTree(s)'
  BY <1>1, <1>3, <1>4, <1>6 DEF LiveTree, ToTree, FromTree, Early
<1>9. LivePointer(s)'
  BY <1>1, <1>4 DEF LivePointer, FromCommit, Undoing
<1>10. LiveLauncher(s)'
  BY <1>1, <1>2, <1>4, <1>6 DEF LiveLauncher, Early, FromLauncher, Undoing
<1>11. LiveLoader(s)'
  BY <1>1, <1>4, <1>6 DEF LiveLoader, FromSnap, FromLauncher
<1> QED BY <1>7, <1>8, <1>9, <1>10, <1>11 DEF Live

\* One that has read what it found has noted it, and changed nothing.
LEMMA ReadLives ==
  ASSUME Base, AloneInv, NEW s \in Setups, Live(s), Read(s)
  PROVE  Live(s)'
<1> USE DEF Go, Goto
<1>0. /\ pc \in [Setups -> SetupPCs] /\ before \in [Setups -> Installations] /\ TypeInv /\ ConstantsOK
      /\ mem[s] \in Notes /\ journal[s] \in Notes /\ Fresh(s) /\ Waited(s)
      /\ stash[s] # "absent" => journal[s].intent
      /\ target[s] \in Versions \union {None}
  BY DEF Base, TypeInv, TypeOK, AloneInv, StashNoted, NotesInv
<1>1. /\ pc[s] = "read" /\ pc'[s] = "prepare" /\ before'[s] = Seen(TRUE, TRUE) /\ target' = target
      /\ UNCHANGED <<pointer, tree, launcher, loader, outcome, journal, saved, stash, shot>>
  BY <1>0 DEF Read, install, files, paper, request
<1>t. LiveNotes(s) /\ LiveLauncher(s)
  <2>1. mutex = s
    BY <1>1 DEF Base, ExclusionInv, LockHeld, Inside, Forward
  <2>2. before[s].taken
    BY <1>1, <2>1 DEF AloneInv, Taken
  <2> QED BY <1>1, <2>2 DEF Live, Forward
<1>2. /\ mem[s].existed = (launcher # None) /\ mem[s].new = target[s]
      /\ outcome[s] # "none" => journal[s] = mem[s]
      /\ saved[s] = None
  <2>1. Flagless(mem[s])
    BY <1>0, <1>1 DEF Waited, Early
  <2>2. mem[s].existed = (launcher # None)
    BY <1>t, <2>1 DEF LiveNotes, LiveLauncher, Flagless
  <2> QED BY <1>0, <1>1, <2>2 DEF Fresh, Working, Ended, Outside, Early
<1>3. Flagless(mem[s]) /\ Flagless(journal[s]) /\ stash[s] = "absent"
  BY <1>0, <1>1 DEF Waited, Early, Flagless
<1>4. /\ before'[s].pointer = pointer /\ before'[s].tree = tree
      /\ before'[s].launcher = launcher /\ before'[s].loader = loader /\ before'[s].read
      /\ Found(before'[s]) = pointer
  BY <1>1 DEF Seen, Found
<1> DEFINE k == mem'[s]
<1>5. /\ k.old = pointer.active /\ k.new = mem[s].new /\ k.original = pointer
      /\ k.existed = mem[s].existed
      /\ k.oldExisted = (pointer.active # None /\ tree[pointer.active] # "absent")
      /\ LET m == mem[s] IN
         Says(k, m.created, m.intent, m.moved, m.replaced, m.committing, m.committed, m.snap)
  BY <1>0, ReadNotes
<1>6. ~k.created /\ ~k.intent /\ ~k.moved /\ ~k.replaced /\ ~k.committing /\ ~k.committed /\ ~k.snap
  BY <1>3, <1>5 DEF Says, Flagless
<1>7. LiveNotes(s)'
  <2>1. /\ k.original = Found(before'[s]) /\ k.old = Found(before'[s]).active
        /\ k.oldExisted = (k.old # None /\ before'[s].tree[k.old] # "absent")
        /\ k.existed = (before'[s].launcher # None)
    BY <1>2, <1>4, <1>5
  <2>2. outcome'[s] = "pending" =>
          /\ journal'[s].new = target'[s] /\ journal'[s].existed = k.existed
          /\ ~journal'[s].created /\ ~journal'[s].intent /\ ~journal'[s].moved /\ ~journal'[s].replaced
          /\ ~journal'[s].committing /\ ~journal'[s].committed /\ ~journal'[s].snap
    BY <1>1, <1>2, <1>3, <1>5 DEF Flagless
  <2>3. journal'[s].snap \in BOOLEAN /\ journal'[s].intent \in BOOLEAN /\ journal'[s].moved \in BOOLEAN
        /\ k.snap \in BOOLEAN /\ k.intent \in BOOLEAN /\ k.moved \in BOOLEAN
    BY <1>0, <1>1, <1>5 DEF Notes, Says
  <2> HIDE DEF k
  <2>4. /\ outcome'[s] = "pending" =>
             /\ journal'[s].snap = k.snap /\ journal'[s].intent = k.intent
             /\ journal'[s].created => journal'[s].moved = k.moved
    BY <2>2, <2>3, <1>6
  <2> USE DEF k
  <2> QED BY <2>1, <2>2, <2>4, <1>1, <1>4, <1>6 DEF LiveNotes, FromCommit
<1>8. LiveTree(s)'
  BY <1>1, <1>3, <1>4, <1>6 DEF LiveTree, ToTree, FromTree, Early
<1>9. LivePointer(s)'
  BY <1>1, <1>4 DEF LivePointer, FromCommit, Undoing
<1>10. LiveLauncher(s)'
  BY <1>1, <1>2, <1>4, <1>6 DEF LiveLauncher, Early, FromLauncher, Undoing
<1>11. LiveLoader(s)'
  BY <1>1, <1>4, <1>6 DEF LiveLoader, FromSnap, FromLauncher
<1> QED BY <1>7, <1>8, <1>9, <1>10, <1>11 DEF Live

\* A step of Setup leaves it able to undo what it has done.
LEMMA OwnLives ==
  ASSUME Base, AloneInv, NEW s \in Setups, Live(s), SetupStep(s)
  PROVE  Live(s)'
<1>1. CASE ~(before'[s].taken /\ pc'[s] \in LivePlaces)
  BY <1>1 DEF Live, LivePlaces
<1>2. CASE before'[s].taken /\ pc'[s] \in LivePlaces
  <2>1. CASE Enter(s)
    BY <2>1, EnterLives
  <2>3. CASE Read(s)
    BY <2>3, ReadLives
  <2>2. CASE Goes(s)
    <3>1. LiveNotes(s)' /\ LiveTree(s)'
      BY <2>2, GoesNotes, GoesTree
    <3>2. LivePointer(s)' /\ LiveLauncher(s)' /\ LiveLoader(s)'
      BY <2>2, GoesPointer, GoesLauncher, GoesLoader
    <3> QED BY <3>1, <3>2 DEF Live
  <2> QED BY <1>2, <2>1, <2>2, <2>3, StillLives
<1> QED BY <1>1, <1>2

\* An operation that throws hands what was done to the catch block.
LEMMA ThrowLives ==
  ASSUME Base, AloneInv, NEW s \in Setups, Live(s), Throw(s)
  PROVE  Live(s)'
<1> USE DEF Forward, Undoing, Ended, Goto
<1>0. pc \in [Setups -> SetupPCs] /\ TypeInv /\ ConstantsOK
  BY DEF Base, TypeInv, TypeOK
<1>1. UNCHANGED <<pointer, tree, launcher, outcome, journal, saved, stash, shot, before, skip>>
  BY DEF Throw, files, paper
<1>2. CASE pc'[s] \in Ended
  BY <1>2 DEF Live
<1>3. CASE pc'[s] \notin Ended
  <2>1. /\ pc[s] \in Forward \ {"finish"} /\ pc'[s] = "u_stop" /\ UNCHANGED <<mem, target>>
        /\ pc[s] # "deploy" \/ skip => loader' = loader
    BY <1>0, <1>3 DEF Throw, Leave, locals, request
  <2>2. CASE before[s].taken
    <3>1. LiveNotes(s) /\ LiveTree(s) /\ LivePointer(s) /\ LiveLauncher(s) /\ LiveLoader(s)
      BY <2>1, <2>2 DEF Live
    <3>2. LiveNotes(s)'
      BY <3>1, <2>1, <1>1 DEF LiveNotes, FromCommit
    <3>3. LiveTree(s)'
      BY <3>1, <2>1, <1>1 DEF LiveTree, ToTree, FromTree, Early
    <3>4. LivePointer(s)'
      BY <3>1, <2>1, <1>1 DEF LivePointer, LiveNotes, FromCommit
    <3>5. LiveLauncher(s)'
      BY <3>1, <2>1, <1>1 DEF LiveLauncher, ToTree, Early, ToLauncher, FromLauncher
    <3>6. LiveLoader(s)'
      BY <3>1, <2>1, <1>1 DEF LiveLoader, FromSnap, FromLauncher
    <3> QED BY <3>2, <3>3, <3>4, <3>5, <3>6 DEF Live
  <2>3. CASE ~before[s].taken
    BY <2>3, <1>1 DEF Live
  <2> QED BY <2>2, <2>3
<1> QED BY <1>2, <1>3

\* What a Setup that can undo itself leaves on disk is enough for recovery to undo it.
LEMMA LiveDisk ==
  ASSUME NEW s \in Setups, TargetKnown', pc'[s] \in LivePlaces, Live(s)'
  PROVE  Disk(s)'
<1> SUFFICES ASSUME before'[s].taken, outcome'[s] = "pending" PROVE Disk(s)'
  BY DEF Disk
<1>1. LiveNotes(s)' /\ LiveTree(s)' /\ LivePointer(s)' /\ LiveLauncher(s)' /\ LiveLoader(s)'
  BY DEF Live, LivePlaces
<1> DEFINE b == before'[s]  j == journal'[s]  m == mem'[s]  n == target'[s]
<1>2. n \in Versions /\ j.new = n
  BY <1>1 DEF TargetKnown, LiveNotes, LivePlaces, Forward, Undoing, Ended
<1>3. (IF j.committing \/ j.committed THEN j.original ELSE pointer') \in {b.pointer, Found(b)}
  BY <1>1 DEF LiveNotes, LivePointer, LivePlaces, FromCommit
<1>4. skip' \/ ~j.snap => loader' = b.loader
  BY <1>1 DEF LiveNotes, LiveLoader
<1>5. IF ~j.replaced THEN launcher' \in {b.launcher, j.new}
      ELSE IF j.existed THEN saved'[s] = b.launcher ELSE b.launcher = None
  BY <1>1, <1>2 DEF LiveNotes, LiveLauncher
<1>6. \A v \in Versions \ {j.new} : tree'[v] = b.tree[v]
  BY <1>1, <1>2 DEF LiveTree
<1>7. /\ stash'[s] # "absent" => stash'[s] = b.tree[j.new]
      /\ stash'[s] = "absent" => tree'[j.new] = b.tree[j.new] \/ b.tree[j.new] = "absent"
  BY <1>1, <1>2 DEF LiveTree
<1>8. j.created /\ ~j.moved => b.tree[j.new] = "absent"
  BY <1>1, <1>2 DEF LiveTree, LiveNotes
<1> QED BY <1>2, <1>3, <1>4, <1>5, <1>6, <1>7, <1>8 DEF Disk

\* Nothing the three speak of changes; a Setup moves, if at all, out of their reach.
Untouched(s) ==
  /\ UNCHANGED <<skip, install>> /\ SameFiles(s)
  /\ SameLocals(s) \/ pc'[s] \notin LivePlaces \union Cleaning

\* Then they all hold on.
LEMMA UntouchedKeeps ==
  ASSUME NEW s \in Setups, Live(s), Disk(s), Done(s), Untouched(s)
  PROVE  Live(s)' /\ Disk(s)' /\ Done(s)'
<1>1. /\ UNCHANGED <<skip, pointer, tree, launcher, loader>>
      /\ outcome'[s] = outcome[s] /\ journal'[s] = journal[s] /\ before'[s] = before[s]
      /\ saved'[s] = saved[s] /\ stash'[s] = stash[s] /\ shot'[s] = shot[s]
  BY DEF Untouched, install, SameFiles
<1>2. Disk(s)'
  BY <1>1 DEF Disk
<1>3. CASE pc'[s] = pc[s] /\ target'[s] = target[s] /\ mem'[s] = mem[s]
  <2>1. /\ LiveNotes(s)' = LiveNotes(s) /\ LiveTree(s)' = LiveTree(s)
    BY <1>1, <1>3 DEF LiveNotes, LiveTree
  <2>2. /\ LivePointer(s)' = LivePointer(s) /\ LiveLauncher(s)' = LiveLauncher(s)
    BY <1>1, <1>3 DEF LivePointer, LiveLauncher
  <2>3. /\ LiveLoader(s)' = LiveLoader(s)
    BY <1>1, <1>3 DEF LiveLoader
  <2>4. Live(s)'
    BY <1>1, <1>3, <2>1, <2>2, <2>3 DEF Live
  <2>5. Done(s)'
    BY <1>1, <1>3 DEF Done
  <2> QED BY <1>2, <2>4, <2>5
<1>4. CASE pc'[s] \notin LivePlaces \union Cleaning
  <2>1. Live(s)'
    BY <1>4 DEF Live, LivePlaces
  <2>2. Done(s)'
    BY <1>1, <1>4 DEF Done, Cleaning
  <2> QED BY <1>2, <2>1, <2>2
<1> QED BY <1>3, <1>4 DEF Untouched, SameLocals

\* The undo that cannot remove a runtime in use leaves the backup, if there is one.
LEMMA StuckDisk ==
  ASSUME Base, AloneInv, NEW s \in Setups, Live(s), Disk(s), UndoRemove(s), pc'[s] \in Ended
  PROVE  Disk(s)'
<1> SUFFICES ASSUME before[s].taken, outcome[s] = "pending" PROVE Disk(s)'
  BY DEF Disk, UndoRemove, files, paper
<1> DEFINE n == target[s]  b == before[s]  j == journal[s]
<1>0. /\ pc \in [Setups -> SetupPCs] /\ tree \in [Versions -> Contents] /\ stash \in [Setups -> Contents]
      /\ pc[s] = "u_remove" /\ n \in Versions /\ ConstantsOK
  BY DEF Base, TypeInv, TypeOK, TargetKnown, UndoRemove, Ended
<1>1. LiveNotes(s) /\ LiveTree(s) /\ LiveLoader(s)
  BY <1>0 DEF Live, Undoing
<1>2. UNCHANGED <<pointer, launcher, loader, outcome, journal, saved, stash, shot, before, skip>>
  BY DEF UndoRemove, files, paper, given
<1>3. /\ \A v \in Versions \ {n} : tree'[v] = tree[v]
      /\ tree'[n] \in {tree[n], "damaged", "absent"}
      /\ tree'[n] = tree[n] \/ (mem[s].moved /\ stash[s] # "absent") \/ mem[s].created
  BY <1>0 DEF UndoRemove, SetTree
<1>4. j.new = n
  BY <1>1 DEF LiveNotes
<1>5. stash[s] = "absent" => tree'[n] = b.tree[n] \/ b.tree[n] = "absent"
  BY <1>0, <1>1, <1>3 DEF LiveTree
<1>6. /\ \A v \in Versions \ {j.new} : tree'[v] = b.tree[v]
  BY <1>0, <1>1, <1>3, <1>4 DEF LiveTree
<1> QED BY <1>2, <1>4, <1>5, <1>6 DEF Disk

\* A step of Setup leaves enough on disk.
LEMMA OwnDisk ==
  ASSUME Base, AloneInv, NEW s \in Setups, Live(s), Disk(s), SetupStep(s), TypeOK', TargetKnown'
  PROVE  Disk(s)'
<1> USE DEF Go, Goto
<1> SUFFICES ASSUME before'[s].taken, outcome'[s] = "pending" PROVE Disk(s)'
  BY DEF Disk
<1>0. /\ pc \in [Setups -> SetupPCs] /\ before \in [Setups -> Installations] /\ OnlyOf(s) /\ Working(s) /\ Taken(s)
      /\ Fresh(s)' /\ pc' \in [Setups -> SetupPCs]
  BY StepIsOwn, OwnAlone DEF Base, TypeInv, TypeOK, OnlyOf, AloneInv
<1>1. CASE pc'[s] \in LivePlaces
  BY <1>1, OwnLives, LiveDisk
<1>2. CASE pc'[s] \in Ended
  <2>1. CASE UndoRemove(s)
    BY <1>2, <2>1, StuckDisk
  <2>2. CASE Drop(s)
    <3>1. before'[s] = Nothing
      BY <1>0, <2>2 DEF Drop
    <3> QED BY <3>1 DEF Nothing
  <2> QED BY <1>0, <1>2, <2>1, <2>2
       DEF SetupStep, Create, NoteInitialized, Enter, Read, TimeOut, Prepare, SaveLauncher, Place, MoveAside, NoteMoved,
         MoveIn, NoteReady, StopOld, Snapshot, ReplaceLauncher, NoteReplaced, NoteIntent, Commit,
         NoteCommitted, Deploy, Serve, Finish, Clean, Unlink, UndoStop, UndoPointer, UndoLauncher,
         UndoLoader, UndoBack, UndoStart, Note, Ended
<1>3. CASE pc'[s] \in Outside
  <2>1. CASE Create(s) \/ NoteInitialized(s)
    <3>1. before'[s] = before[s] /\ pc[s] \in Outside
      BY <2>1 DEF Create, NoteInitialized, Note, others, Outside
    <3> QED BY <3>1, <1>0 DEF Taken
  <2> QED BY <1>0, <1>3, <2>1
       DEF SetupStep, Enter, Read, TimeOut, Prepare, SaveLauncher, Place, MoveAside, NoteMoved,
         MoveIn, NoteReady, StopOld, Snapshot, ReplaceLauncher, NoteReplaced, NoteIntent, Commit,
         NoteCommitted, Deploy, Serve, Finish, Clean, Unlink, Drop, UndoStop, UndoPointer, UndoLauncher,
         UndoLoader, UndoRemove, UndoBack, UndoStart, Note, Leave, Outside
<1>4. pc'[s] \notin Cleaning \union {"u_drop"}
  BY <1>0 DEF Fresh, Cleaning
<1> QED BY <1>0, <1>1, <1>2, <1>3, <1>4 DEF SetupPCs, LivePlaces, Forward, Undoing, Cleaning,
     Ended, Outside

\* A step of Setup completes it, or finds it completed and cleans up.
LEMMA OwnDone ==
  ASSUME Base, AloneInv, NEW s \in Setups, Live(s), Done(s), SetupStep(s)
  PROVE  Done(s)'
<1> USE DEF Go, Goto
<1> SUFFICES ASSUME before'[s].taken, outcome'[s] = "completed" PROVE Done(s)'
  BY DEF Done
<1>0. /\ pc \in [Setups -> SetupPCs] /\ before \in [Setups -> Installations] /\ Taken(s)
      /\ outcome \in [Setups -> {"none", "pending", "completed"}] /\ journal \in [Setups -> Notes]
      /\ stash \in [Setups -> Contents] /\ ConstantsOK /\ TypeInv
      /\ Fresh(s) /\ Fresh(s)' /\ pc' \in [Setups -> SetupPCs]
  <2>1. pc' \in [Setups -> SetupPCs]
    BY SetupStepTypes DEF Base, TypeInv, TypeOK
  <2> QED BY <2>1, OwnAlone DEF Base, TypeInv, TypeOK, AloneInv
<1>1. CASE Finish(s)
  <2>1. /\ pc[s] = "finish" /\ pc'[s] = "clean" /\ journal'[s] = mem[s] /\ before' = before
        /\ UNCHANGED <<pointer, tree, launcher, loader, skip, stash, mem>>
    BY <1>0, <1>1 DEF Finish, install, others, locals, given
  <2>2. LiveNotes(s) /\ LiveTree(s) /\ LivePointer(s) /\ LiveLauncher(s) /\ LiveLoader(s)
    BY <2>1 DEF Live, Forward
  <2>3. mem[s].new = target[s]
    BY <1>0, <2>1 DEF Fresh, Working, Ended
  <2>4. /\ pointer.active = target[s] /\ tree[target[s]] = "intact" /\ launcher = target[s]
        /\ skip \/ loader = target[s]
        /\ stash[s] = IF mem[s].moved THEN before[s].tree[target[s]] ELSE "absent"
    BY <2>1, <2>2 DEF LivePointer, LiveTree, LiveLauncher, LiveLoader, FromCommit, FromTree,
       FromLauncher
  <2> QED BY <2>1, <2>3, <2>4 DEF Done
<1>2. CASE Clean(s)
  <2>1. /\ pc[s] = "clean" /\ pc'[s] = "unlink" /\ UNCHANGED <<outcome, journal, before>>
        /\ UNCHANGED <<pointer, tree, launcher, loader, skip, mem>>
        /\ stash'[s] = IF mem[s].moved THEN "absent" ELSE stash[s]
    BY <1>0, <1>2 DEF Clean, install, others, locals, given, SetStash, paper
  <2> QED BY <2>1 DEF Done
<1>3. CASE Unlink(s)
  BY <1>0, <1>3 DEF Unlink
<1>4. CASE Drop(s)
  <2>1. before'[s] = Nothing
    BY <1>0, <1>4 DEF Drop
  <2> QED BY <2>1 DEF Nothing
<1>5. CASE UndoRemove(s)
  BY <1>0, <1>5 DEF UndoRemove, files, paper, Fresh, Ended
<1>6. pc'[s] \in {"clean", "unlink"} \union Ended
  BY <1>0 DEF Fresh
<1> QED BY <1>0, <1>1, <1>2, <1>3, <1>4, <1>5, <1>6
     DEF SetupStep, Create, NoteInitialized, Enter, Read, TimeOut, Prepare, SaveLauncher, Place, MoveAside, NoteMoved,
         MoveIn, NoteReady, StopOld, Snapshot, ReplaceLauncher, NoteReplaced, NoteIntent, Commit,
         NoteCommitted, Deploy, Serve, UndoStop, UndoPointer, UndoLauncher,
         UndoLoader, UndoBack, UndoStart, Note, Ended

\* Nor does anybody who is not a recovery touch what another Setup keeps.
LEMMA OthersUntouched ==
  ASSUME Base, AloneInv, NEW t \in Setups, SetupStep(t), NEW s \in Setups, s # t
  PROVE  Live(s)' /\ Disk(s)' /\ Done(s)'
<1>1. OnlyOf(t)
  BY StepIsOwn DEF Base, TypeInv
<1>2. pc[s] \in {"none"} \union Ended /\ outcome[s] = "none"
  BY <1>1, Alone DEF OnlyOf
<1>3. pc'[s] = pc[s] /\ outcome'[s] = outcome[s]
  BY <1>1 DEF OnlyOf, SameLocals, SameFiles
<1> QED BY <1>2, <1>3 DEF Live, Disk, Done, Forward, Undoing, Ended

\* An operation that throws takes nothing back that a Setup can undo from.
LEMMA ThrowKeepsLive ==
  ASSUME Base, AloneInv, NEW t \in Setups, Throw(t), TypeOK', TargetKnown',
         NEW s \in Setups, Live(s), Disk(s), Done(s)
  PROVE  Live(s)' /\ Disk(s)' /\ Done(s)'
<1> USE DEF Forward, Undoing, Ended, Goto
<1>0. pc \in [Setups -> SetupPCs] /\ mem \in [Setups -> Notes] /\ target \in [Setups -> Versions \union {None}]
      /\ Fresh(t)
  BY DEF Base, TypeInv, TypeOK, AloneInv
<1>1. /\ UNCHANGED <<skip, pointer, tree, launcher, files, before>>
      /\ pc'[t] = "u_stop" \/ (pc'[t] \in Ended /\ UNCHANGED loader)
      /\ Working(t)
  BY <1>0 DEF Throw, Leave, Working
<1>2. CASE s = t
  <2>1. Live(s)'
    BY <1>2, ThrowLives
  <2>2. CASE pc'[t] = "u_stop"
    <3>1. Disk(s)'
      BY <1>2, <2>1, <2>2, LiveDisk DEF LivePlaces
    <3>2. outcome[t] # "completed"
      <4>1. pc[t] \in Forward
        BY <1>0, <2>2 DEF Throw, Leave
      <4> QED BY <4>1, <1>0 DEF Fresh
    <3>3. Done(s)'
      BY <1>1, <1>2, <3>2 DEF Done, files, paper
    <3> QED BY <2>1, <3>1, <3>3
  <2>3. CASE pc'[t] \in Ended /\ UNCHANGED loader
    <3>1. Untouched(s)
      BY <1>1, <1>2, <2>3 DEF Untouched, SameFiles, files, paper, install, LivePlaces, Cleaning
    <3> QED BY <3>1, UntouchedKeeps
  <2> QED BY <1>1, <2>2, <2>3
<1>3. CASE s # t
  <2>1. pc[s] \in {"none"} \union Ended /\ outcome[s] = "none"
    BY <1>1, <1>3, Alone
  <2>2. pc'[s] = pc[s] /\ outcome'[s] = outcome[s]
    BY <1>0, <1>1, <1>3 DEF Throw, Leave, files, paper
  <2> QED BY <2>1, <2>2 DEF Live, Disk, Done
<1> QED BY <1>2, <1>3

\* Nor do the launcher, an update or the start of a Setup.
LEMMA RestKeepsLive ==
  ASSUME Base, AloneInv, NEW s \in Setups, Live(s), Disk(s), Done(s),
         \/ \E t \in Setups : Begin(t) \/ Kill(t)
         \/ Scan \/ Launch \/ KillLauncher \/ UpdateBegin \/ UpdateEnd \/ UNCHANGED vars
  PROVE  Live(s)' /\ Disk(s)' /\ Done(s)'
<1> USE DEF Goto, Untouched, SameFiles, SameLocals, files, paper, install
<1>0. /\ pc \in [Setups -> SetupPCs] /\ mem \in [Setups -> Notes] /\ target \in [Setups -> Versions \union {None}]
      /\ Launcher \notin Setups
  BY DEF Base, TypeInv, TypeOK, ConstantsOK
<1>1. CASE \E t \in Setups : Begin(t)
  <2>1. PICK t \in Setups : Begin(t)
    BY <1>1
  <2>2. UNCHANGED <<skip, install, files, before>>
    BY <2>1 DEF Begin, given
  <2>3. SameLocals(s) \/ pc'[s] \in {"recover", "create"}
    BY <1>0, <2>1 DEF Begin
  <2>4. Untouched(s)
    BY <2>2, <2>3 DEF LivePlaces, Forward, Undoing, Cleaning
  <2> QED BY <2>4, UntouchedKeeps
<1>2. CASE \E t \in Setups : Kill(t)
  <2>1. PICK t \in Setups : Kill(t)
    BY <1>2
  <2>2. UNCHANGED <<skip, install, files, before>>
    BY <2>1 DEF Kill
  <2>3. SameLocals(s) \/ pc'[s] = "dead"
    BY <1>0, <2>1 DEF Kill, Leave, Forget, Keep
  <2>4. Untouched(s)
    BY <2>2, <2>3 DEF LivePlaces, Forward, Undoing, Cleaning
  <2> QED BY <2>4, UntouchedKeeps
<1>3. CASE Scan \/ Launch \/ UpdateBegin \/ UNCHANGED vars
  <2>1. Untouched(s)
    BY <1>3 DEF Scan, Launch, UpdateBegin, vars, elsewhere, locals, request, given, rec
  <2> QED BY <2>1, UntouchedKeeps
<1>4. CASE KillLauncher
  <2>1. pc'[s] = pc[s] /\ UNCHANGED locals /\ UNCHANGED <<skip, install, files, before>>
    BY <1>0, <1>4 DEF KillLauncher, RecoverEnd
  <2>2. Untouched(s)
    BY <2>1 DEF locals, request
  <2> QED BY <2>2, UntouchedKeeps
<1>5. CASE UpdateEnd
  <2>1. CASE before' = [t \in Setups |-> Nothing]
    <3>1. ~before'[s].taken
      BY <2>1 DEF Nothing
    <3> QED BY <3>1 DEF Live, Disk, Done
  <2>2. CASE UNCHANGED <<install, running, before>>
    <3>1. Untouched(s)
      BY <1>5, <2>2 DEF UpdateEnd, locals, request, given
    <3> QED BY <3>1, UntouchedKeeps
  <2> QED BY <1>5, <2>1, <2>2 DEF UpdateEnd
<1> QED BY <1>1, <1>2, <1>3, <1>4, <1>5

\* While a recovery is at a directory no Setup can be about to undo.
LEMMA AtQuiet ==
  ASSUME Base, AloneInv, NEW p \in Procs, at[p] # NoOne, NEW s \in Setups, before[s].taken
  PROVE  pc[s] \notin LivePlaces \union Cleaning
<1>1. pc[s] \notin Forward \union Cleaning /\ (mutex = s => pc[s] = "recover")
  BY AtApart
<1>2. pc[s] \notin Undoing
  BY <1>1 DEF AloneInv, Taken, Undoing
<1> QED BY <1>1, <1>2 DEF LivePlaces, Undoing

\* The steps of a recovery that is at no directory, or looks without touching.
LEMMA LookingKeepsLive ==
  ASSUME Base, AloneInv, NEW p \in Procs, NEW s \in Setups, Live(s), Disk(s), Done(s),
         \/ RecoverEnter(p) \/ RecoverTimeOut(p) \/ RecoverPick(p) \/ RecoverLeave(p)
         \/ RecoverStop(p) \/ RecoverCadence(p) \/ RecoverThrow(p)
  PROVE  Live(s)' /\ Disk(s)' /\ Done(s)'
<1> USE DEF files, paper, install
<1>0. /\ pc \in [Setups -> SetupPCs] /\ mem \in [Setups -> Notes] /\ target \in [Setups -> Versions \union {None}]
  BY DEF Base, TypeInv, TypeOK
<1>1. UNCHANGED <<install, files, before, skip>>
  BY DEF RecoverEnter, RecoverTimeOut, RecoverPick, RecoverLeave, RecoverStop, RecoverCadence,
     RecoverThrow,
         elsewhere, given
<1>2. SameLocals(s) \/ pc'[s] \in {"create", "failed"}
  <2>1. CASE \E ok \in BOOLEAN : RecoverEnd(p, ok)
    BY <1>0, <2>1 DEF RecoverEnd, locals, request, Forget, Keep, SameLocals
  <2>2. CASE UNCHANGED <<pc, locals>>
    BY <2>2 DEF SameLocals, locals, request
  <2> QED BY <2>1, <2>2
      DEF RecoverEnter, RecoverTimeOut, RecoverPick, RecoverLeave, RecoverStop, RecoverCadence, RecoverThrow, elsewhere
<1>3. Untouched(s)
  BY <1>1, <1>2 DEF Untouched, SameFiles, LivePlaces, Forward, Undoing, Cleaning
<1> QED BY <1>3, UntouchedKeeps

\* A recovery that undoes puts back what the notes say was there.
LEMMA RemoveKeepsDisk ==
  ASSUME Base, AloneInv, NEW p \in Procs, RecoverRemove(p), NEW s \in Setups, Disk(s)
  PROVE  Disk(s)' /\ UNCHANGED <<pointer, launcher, loader, files, before, skip>>
<1>0. /\ rpc[p] = "remove" /\ UNCHANGED <<pointer, launcher, loader, files, before, skip>>
      /\ tree \in [Versions -> Contents] /\ at[p] # NoOne
  BY DEF RecoverRemove, given, Base, TypeInv, TypeOK, AtKnown, RecoverLocked
<1> SUFFICES ASSUME before[s].taken, outcome[s] = "pending" PROVE Disk(s)'
  BY <1>0 DEF Disk, files, paper
<1>1. at[p] \in Setups /\ dir[s]
  BY <1>0, AtApart DEF AloneInv, JournalInDir
<1> DEFINE j == journal[at[p]]
           back == j.moved \/ (j.intent /\ stash[at[p]] # "absent")
           remove == back \/ (j.created /\ j.new # j.old)
<1>2. \/ tree' = tree
      \/ /\ remove /\ (back => stash[at[p]] # "absent")
         /\ \E c \in {"damaged", "absent"} : SetTree(j.new, c)
  BY DEF RecoverRemove
<1>3. CASE s # at[p]
  <2>1. Flagless(j)
    BY <1>0, <1>1, <1>3, AtAlone
  <2>2. tree' = tree
    BY <1>2, <2>1 DEF Flagless
  <2> QED BY <1>0, <2>2 DEF Disk, files, paper
<1>4. CASE s = at[p]
  <2>1. CASE tree' = tree
    BY <1>0, <2>1 DEF Disk, files, paper
  <2>2. CASE remove /\ (back => stash[s] # "absent") /\ \E c \in {"damaged", "absent"} : SetTree(j.new, c)
    <3>1. j.new \in Versions
      BY <1>4 DEF Disk
    <3>2. \A v \in Versions \ {j.new} : tree'[v] = tree[v]
      BY <1>0, <2>2, <3>1 DEF SetTree
    <3>3. stash[s] = "absent" => before[s].tree[j.new] = "absent"
      BY <1>4, <2>2 DEF Disk
    <3> QED BY <1>0, <1>4, <3>1, <3>2, <3>3 DEF Disk, files, paper
  <2> QED BY <1>2, <1>4, <2>1, <2>2
<1> QED BY <1>3, <1>4

\* Moving the backup back is putting back what was there,
LEMMA BackKeepsDisk ==
  ASSUME Base, AloneInv, NEW p \in Procs, RecoverBack(p), NEW s \in Setups, Disk(s)
  PROVE  Disk(s)'
<1>0. /\ rpc[p] = "back" /\ UNCHANGED <<pointer, launcher, loader, paper, saved, shot, before, skip>>
      /\ tree \in [Versions -> Contents] /\ at[p] # NoOne /\ stash \in [Setups -> Contents]
      /\ SetTree(journal[at[p]].new, stash[at[p]]) /\ SetStash(at[p], "absent")
  BY DEF RecoverBack, RGo, given, elsewhere, Base, TypeInv, TypeOK, AtKnown, RecoverLocked
<1> SUFFICES ASSUME before[s].taken, outcome[s] = "pending" PROVE Disk(s)'
  BY <1>0 DEF Disk, files, paper
<1>1. at[p] \in Setups /\ dir[s] /\ stash[at[p]] # "absent"
  BY <1>0, AtApart DEF AloneInv, JournalInDir, AtOutside
<1>2. s = at[p]
  BY <1>0, <1>1, AtAlone
<1>3. journal[s].new \in Versions /\ stash[s] = before[s].tree[journal[s].new]
  BY <1>1, <1>2 DEF Disk
<1>4. /\ tree'[journal[s].new] = before[s].tree[journal[s].new]
      /\ \A v \in Versions \ {journal[s].new} : tree'[v] = tree[v]
      /\ stash'[s] = "absent"
  BY <1>0, <1>1, <1>2, <1>3 DEF SetTree, SetStash
<1> QED BY <1>0, <1>3, <1>4 DEF Disk, paper

\* so is writing installation.json and the launcher,
LEMMA PointerKeepsDisk ==
  ASSUME Base, AloneInv, NEW p \in Procs, RecoverPointer(p) \/ RecoverLauncher(p), NEW s \in Setups, Disk(s)
  PROVE  Disk(s)'
<1>0. /\ UNCHANGED <<tree, loader, files, before, skip>> /\ at[p] # NoOne
  BY DEF RecoverPointer, RecoverLauncher, RGo, given, elsewhere, Base, TypeInv, AtKnown,
     RecoverLocked
<1> SUFFICES ASSUME before[s].taken, outcome[s] = "pending" PROVE Disk(s)'
  BY <1>0 DEF Disk, files, paper
<1>1. at[p] \in Setups /\ dir[s]
  BY <1>0, AtApart DEF AloneInv, JournalInDir
<1> DEFINE j == journal[at[p]]
<1>2. /\ pointer' = pointer \/ ((j.committing \/ j.committed) /\ pointer' = j.original)
      /\ launcher' = launcher \/ j.replaced
  BY DEF RecoverPointer, RecoverLauncher
<1>3. CASE s # at[p]
  <2>1. Flagless(j)
    BY <1>0, <1>1, <1>3, AtAlone
  <2>2. UNCHANGED <<pointer, launcher>>
    BY <1>2, <2>1 DEF Flagless
  <2> QED BY <1>0, <2>2 DEF Disk, files, paper
<1>4. CASE s = at[p]
  BY <1>0, <1>2, <1>4 DEF Disk, files, paper
<1> QED BY <1>3, <1>4

\* and what is removed in the end is of no more use.
LEMMA TidyKeepsDisk ==
  ASSUME Base, AloneInv, NEW p \in Procs, RecoverStash(p) \/ RecoverUnlink(p) \/ RecoverDrop(p),
         NEW s \in Setups, Disk(s)
  PROVE  Disk(s)'
<1>0. /\ UNCHANGED <<install, skip>> /\ at[p] # NoOne
      /\ rpc[p] \in {"stash", "unlink", "drop"} /\ (rpc[p] = "stash" <=> RecoverStash(p))
      /\ outcome \in [Setups -> {"none", "pending", "completed"}] /\ journal \in [Setups -> Notes]
      /\ stash \in [Setups -> Contents] /\ before \in [Setups -> Installations]
      /\ saved \in [Setups -> Versions \union {None}]
  BY DEF RecoverStash, RecoverUnlink, RecoverDrop, RGo, given, elsewhere, Base, TypeInv, TypeOK,
     AtKnown, RecoverLocked
<1>1. at[p] \in Setups
  BY <1>0, AtApart
<1>2. CASE s # at[p]
  <2>1. /\ outcome'[s] = outcome[s] /\ journal'[s] = journal[s] /\ before'[s] = before[s]
        /\ saved'[s] = saved[s] /\ stash'[s] = stash[s]
    BY <1>0, <1>1, <1>2 DEF RecoverStash, RecoverUnlink, RecoverDrop, SetStash, paper, elsewhere
  <2> QED BY <1>0, <2>1 DEF Disk, install
<1>3. CASE s = at[p]
  <2>1. CASE RecoverStash(p)
    <3>1. outcome'[s] # "pending"
      BY <1>0, <1>3, <2>1 DEF AloneInv, AtOutside, RecoverStash, paper
    <3> QED BY <3>1 DEF Disk
  <2>2. CASE RecoverUnlink(p)
    <3>1. outcome'[s] = "none"
      BY <1>0, <1>3, <2>2 DEF RecoverUnlink
    <3> QED BY <3>1 DEF Disk
  <2>3. CASE RecoverDrop(p)
    <3>1. before'[s] = Nothing
      BY <1>0, <1>3, <2>3 DEF RecoverDrop
    <3> QED BY <3>1 DEF Disk, Nothing
  <2> QED BY <2>1, <2>2, <2>3
<1> QED BY <1>2, <1>3

\* And takes back nothing that was completed.
LEMMA UndoingKeepsDone ==
  ASSUME Base, AloneInv, NEW p \in Procs, NEW s \in Setups, Done(s),
         \/ RecoverRemove(p) \/ RecoverBack(p) \/ RecoverPointer(p) \/ RecoverLauncher(p)
         \/ RecoverStash(p) \/ RecoverUnlink(p) \/ RecoverDrop(p)
  PROVE  Live(s)' /\ Done(s)'
<1>0. /\ at[p] # NoOne /\ rpc[p] \in RecoverLocked
      /\ outcome \in [Setups -> {"none", "pending", "completed"}] /\ journal \in [Setups -> Notes]
      /\ stash \in [Setups -> Contents] /\ before \in [Setups -> Installations]
      /\ pc \in [Setups -> SetupPCs] /\ at \in [Procs -> Setups \union {NoOne}]
  BY DEF RecoverRemove, RecoverBack, RecoverPointer, RecoverLauncher, RecoverStash,
     RecoverUnlink, RecoverDrop,
         RGo, Base, TypeInv, TypeOK, AtKnown, RecoverLocked
<1>1. at[p] \in Setups
  BY <1>0, AtApart
<1>2. before'[s] = before[s] \/ before'[s] = Nothing
  BY <1>0, <1>1 DEF RecoverRemove, RecoverBack, RecoverPointer, RecoverLauncher, RecoverStash,
     RecoverUnlink, RecoverDrop,
         elsewhere
<1>3. pc'[s] \in {pc[s], "create", "failed"}
  BY <1>0 DEF RecoverRemove, RecoverBack, RecoverPointer, RecoverLauncher, RecoverStash,
     RecoverUnlink, RecoverDrop,
         RecoverEnd, elsewhere
<1>4. before'[s].taken => before'[s] = before[s] /\ pc[s] \notin LivePlaces \union Cleaning
  BY <1>0, <1>2, AtQuiet DEF Nothing
<1>5. before'[s].taken => pc'[s] \notin LivePlaces \union Cleaning
  BY <1>3, <1>4 DEF LivePlaces, Forward, Undoing, Cleaning
<1>6. Live(s)'
  BY <1>5 DEF Live, LivePlaces
<1> SUFFICES ASSUME before'[s].taken, outcome'[s] = "completed" PROVE Done(s)'
  BY <1>6 DEF Done
<1>7. outcome[s] = "completed" /\ journal'[s] = journal[s] /\ skip' = skip
  BY <1>0, <1>1 DEF RecoverRemove, RecoverBack, RecoverPointer, RecoverLauncher, RecoverStash,
     RecoverUnlink, RecoverDrop,
         elsewhere, files, paper, given
<1>8. dir[s]
  BY <1>7 DEF AloneInv, JournalInDir
<1>9. UNCHANGED <<pointer, tree, launcher, loader>>
  <2>1. CASE s = at[p]
    <3>1. rpc[p] \in {"stash", "unlink", "drop"}
      BY <1>0, <1>7, <2>1 DEF AloneInv, AtOutside
    <3> QED BY <3>1 DEF RecoverRemove, RecoverBack, RecoverPointer, RecoverLauncher,
         RecoverStash, RecoverUnlink,
                        RecoverDrop, RGo, install
  <2>2. CASE s # at[p]
    <3>1. Flagless(journal[at[p]]) /\ stash[at[p]] = "absent"
      BY <1>0, <1>8, <2>2, AtAlone
    <3>2. ~RecoverBack(p)
      BY <1>0, <3>1 DEF RecoverBack, RGo, AloneInv, AtOutside
    <3> QED BY <3>1, <3>2 DEF RecoverRemove, RecoverPointer, RecoverLauncher, RecoverStash,
         RecoverUnlink,
                        RecoverDrop, Flagless, install
  <2> QED BY <2>1, <2>2
<1> QED BY <1>4, <1>5, <1>7, <1>9 DEF Done, Cleaning

\* The recovery stays where it is, and what it has put back stays so.
RepairKept(p) ==
  LET s == at[p]
  IN /\ at'[p] = s /\ rpc'[p] = rpc[p]
     /\ \/ UNCHANGED <<pointer, launcher, skip>> /\ outcome'[s] = outcome[s] /\ journal'[s] = journal[s]
           /\ before'[s] = before[s]
        \/ outcome'[s] = "none" \/ ~before'[s].taken

\* Then it has still put back what it had.
LEMMA RepairStays ==
  ASSUME NEW p \in Procs, Repaired(p), at'[p] = NoOne \/ RepairKept(p)
  PROVE  Repaired(p)'
BY DEF Repaired, RepairKept

\* A Setup takes nothing back from a recovery at work.
LEMMA SetupKeepsRepaired ==
  ASSUME Base, AloneInv, NEW p \in Procs, at[p] # NoOne, NEW t \in Setups, SetupStep(t)
  PROVE  RepairKept(p)
<1> DEFINE s == at[p]
<1>0. /\ s \in Setups /\ mutex = p /\ OnlyOf(t) /\ Working(t)
      /\ pc \in [Setups -> SetupPCs] /\ before \in [Setups -> Installations] /\ p # NoOne
      /\ pc[t] \notin Forward \union Cleaning /\ (mutex = t => pc[t] = "recover")
      /\ s # NoOne /\ ConstantsOK
  BY AtApart, StepIsOwn DEF Base, TypeInv, TypeOK, OnlyOf, ConstantsOK, Procs
<1>1. UNCHANGED <<at, rpc>>
  BY <1>0 DEF OnlyOf
<1>2. CASE s # t
  <2>1. outcome[s] = "none" /\ outcome'[s] = outcome[s]
    BY <1>0, <1>2, Alone DEF OnlyOf, SameFiles
  <2> QED BY <1>1, <2>1 DEF RepairKept
<1>3. CASE s = t
  <2>1. ~before'[t].taken
    <3>1. mutex # t
      BY <1>0 DEF Working
    <3>2. pc[t] \in Undoing \union Outside => ~before[t].taken
      BY <3>1, <1>0 DEF AloneInv, Taken
    <3>3. CASE TimeOut(t)
      BY <1>0, <3>3 DEF TimeOut, Seen
    <3>4. CASE Drop(t)
      <4>1. before'[t] = Nothing
        BY <1>0, <3>4 DEF Drop
      <4> QED BY <4>1 DEF Nothing
    <3>5. ~Enter(t)
      BY <1>0 DEF Enter
    <3>6. pc[t] \in Undoing \union Outside
      BY <1>0 DEF SetupPCs, Working, Ended, Outside
    <3>7. CASE before'[t] = before[t]
      BY <3>2, <3>6, <3>7
    <3>8. ~Read(t)
      BY <3>6 DEF Read, Go, Undoing, Outside
    <3> QED BY <1>0, <3>3, <3>4, <3>5, <3>7, <3>8
       DEF SetupStep, Create, NoteInitialized, Prepare, SaveLauncher, Place, MoveAside, NoteMoved,
         MoveIn, NoteReady, StopOld, Snapshot, ReplaceLauncher, NoteReplaced, NoteIntent, Commit,
         NoteCommitted, Deploy, Serve, Finish, Clean, Unlink, UndoStop, UndoPointer, UndoLauncher,
         UndoLoader, UndoRemove, UndoBack, UndoStart, Note, others
  <2> QED BY <1>1, <1>3, <2>1 DEF RepairKept
<1> QED BY <1>2, <1>3

\* Nor does anybody else.
LEMMA RestKeepsRepaired ==
  ASSUME Base, AloneInv, NEW p \in Procs, at[p] # NoOne,
         \/ \E t \in Setups : Begin(t) \/ Throw(t) \/ Kill(t)
         \/ Scan \/ Launch \/ KillLauncher \/ UpdateBegin \/ UpdateEnd \/ UNCHANGED vars
  PROVE  at'[p] = NoOne \/ RepairKept(p)
<1>0. /\ rpc \in [Procs -> RecoverPCs] /\ at \in [Procs -> Setups \union {NoOne}] /\ Setups \subseteq Procs
      /\ mutex = p /\ rpc[p] \in RecoverLocked /\ ConstantsOK /\ Launcher \in Procs
      /\ \A t \in Setups : rpc[t] # "idle" => pc[t] = "recover"
  BY AtApart DEF Base, TypeInv, TypeOK, Procs, ExclusionInv, RecoversFirst
<1> USE DEF files, paper, install, RepairKept
<1>1. CASE \E t \in Setups : Begin(t)
  BY <1>0, <1>1 DEF Begin, given, RecoverLocked
<1>2. CASE \E t \in Setups : Throw(t)
  BY <1>2 DEF Throw, rec
<1>3. CASE \E t \in Setups : Kill(t)
  BY <1>0, <1>3 DEF Kill
<1>4. CASE Scan \/ Launch
  BY <1>0, <1>4 DEF Scan, Launch, RecoverLocked, Step, elsewhere, given
<1>5. CASE KillLauncher
  BY <1>0, <1>5 DEF KillLauncher, RecoverEnd, Step
<1>6. CASE UNCHANGED vars
  BY <1>6 DEF vars, rec, given
<1>7. ~UpdateBegin /\ ~UpdateEnd
  BY <1>0 DEF UpdateBegin, UpdateEnd, ConstantsOK, Procs
<1> QED BY <1>1, <1>2, <1>3, <1>4, <1>5, <1>6, <1>7

\* A recovery puts the files back one after the other.
LEMMA RecoveryRepairs ==
  ASSUME Base, AloneInv, NEW p \in Procs, Repaired(p), \A s \in Setups : Disk(s),
         NEW q \in Procs, RecoverStep(q) \/ RecoverThrow(q)
  PROVE  Repaired(p)'
<1>0. /\ rpc \in [Procs -> RecoverPCs] /\ at \in [Procs -> Setups \union {NoOne}] /\ ConstantsOK
      /\ journal \in [Setups -> Notes] /\ outcome \in [Setups -> {"none", "pending", "completed"}]
      /\ NoOne \notin Procs
  BY DEF Base, TypeInv, TypeOK, Procs, ConstantsOK
<1>1. CASE q # p /\ at[p] # NoOne
  <2>1. rpc[q] \notin RecoverLocked /\ mutex = p
    BY <1>1, AtApart
  <2>2. RecoverTimeOut(q)
    BY <1>0, <2>1 DEF RecoverStep, RecoverThrow, RecoverEnter, RecoverPick, RecoverLeave,
       RecoverStop, RecoverRemove,
         RecoverBack, RecoverPointer, RecoverLauncher, RecoverCadence, RecoverStash, RecoverUnlink, RecoverDrop,
         RGo, RecoverLocked
  <2>3. RepairKept(p)
    BY <1>0, <1>1, <2>2 DEF RecoverTimeOut, RecoverEnd, Step, RepairKept, install, files, paper,
       given
  <2> QED BY <2>3, RepairStays
<1>2. CASE q # p /\ at[p] = NoOne
  <2>1. at'[p] = NoOne
    BY <1>0, <1>2
       DEF RecoverStep, RecoverThrow, RecoverEnter, RecoverTimeOut, RecoverPick, RecoverLeave, RecoverStop, RecoverRemove,
         RecoverBack, RecoverPointer, RecoverLauncher, RecoverCadence, RecoverStash, RecoverUnlink, RecoverDrop,
         RecoverEnd, elsewhere
  <2> QED BY <2>1, RepairStays
<1>3. CASE q = p
  <2> SUFFICES ASSUME at'[p] # NoOne, rpc'[p] \in {"launcher", "cadence", "unlink"} PROVE Repaired(p)'
    BY DEF Repaired
  <2>1. CASE RecoverEnter(p) \/ RecoverPick(p) \/ RecoverStop(p) \/ RecoverBack(p) \/ RecoverUnlink(p) \/ RecoverDrop(p)
    BY <1>0, <2>1 DEF RecoverEnter, RecoverPick, RecoverStop, RecoverBack, RecoverUnlink,
       RecoverDrop, RecoverEnd, RGo, Step
  <2>2. CASE RecoverTimeOut(p) \/ RecoverLeave(p) \/ RecoverThrow(p) \/ RecoverRemove(p)
    BY <1>0, <2>2 DEF RecoverTimeOut, RecoverLeave, RecoverThrow, RecoverRemove, RecoverEnd, Step
  <2>3. RecoverPointer(p) \/ RecoverLauncher(p) \/ RecoverCadence(p) \/ RecoverStash(p)
          => at[p] # NoOne /\ at[p] \in Setups
    BY AtApart DEF RecoverPointer, RecoverLauncher, RecoverCadence, RecoverStash, RGo, Base,
       TypeInv, AtKnown,
                   RecoverLocked
  <2>4. at[p] # NoOne /\ at[p] \in Setups => Disk(at[p]) /\ AtOutside(p)
    BY DEF AloneInv
  <2>5. CASE RecoverPointer(p)
    <3>1. /\ at' = at /\ UNCHANGED <<launcher, outcome, journal, before>>
          /\ rpc'[p] = "launcher"
          /\ LET j == journal[at[p]] IN pointer' = IF j.committing \/ j.committed THEN j.original ELSE pointer
      BY <1>0, <2>5 DEF RecoverPointer, RGo, Step, files, paper, elsewhere
    <3> QED BY <3>1, <2>3, <2>4, <2>5 DEF Repaired, Disk
  <2>6. CASE RecoverLauncher(p)
    <3>1. /\ at' = at /\ UNCHANGED <<pointer, outcome, journal, before>>
          /\ rpc[p] = "launcher" /\ rpc'[p] = "cadence"
          /\ LET j == journal[at[p]]
             IN launcher' = IF ~j.replaced THEN launcher ELSE IF j.existed THEN saved[at[p]] ELSE None
      BY <1>0, <2>3, <2>6 DEF RecoverLauncher, RecoverEnd, Step, files, paper
    <3> QED BY <3>1, <2>3, <2>4, <2>6 DEF Repaired, Disk
  <2>7. CASE RecoverCadence(p)
    <3>1. /\ at' = at /\ UNCHANGED <<pointer, launcher, outcome, journal, before, skip>>
          /\ rpc[p] = "cadence" /\ rpc'[p] = "unlink"
          /\ skip \/ ~journal[at[p]].snap
      BY <1>0, <2>3, <2>7 DEF RecoverCadence, RecoverEnd, Step, files, paper, install, given,
         SnapshotAccepted
    <3> QED BY <3>1, <2>3, <2>7 DEF Repaired
  <2>8. CASE RecoverStash(p)
    <3>1. outcome'[at'[p]] # "pending"
      BY <2>3, <2>4, <2>8 DEF RecoverStash, RGo, AtOutside, paper, elsewhere
    <3> QED BY <3>1 DEF Repaired
  <2> QED BY <1>3, <2>1, <2>2, <2>5, <2>6, <2>7, <2>8 DEF RecoverStep
<1> QED BY <1>1, <1>2, <1>3

-----------------------------------------------------------------------------
(* What Setup promises, when one runs after the other *)

\* The inductive invariant of the properties about undoing.
UndoInv ==
  /\ Base /\ AloneInv
  /\ \A s \in Setups : Live(s) /\ Disk(s) /\ Done(s)
  /\ \A p \in Procs : Repaired(p)

\* It holds before anybody has begun,
LEMMA UndoInvStart ==
  ASSUME ConstantsOK, Init
  PROVE  UndoInv
<1>1. Base
  BY TypesStart, InitIsExclusive, NotesStart DEF Base
<1>2. AloneInv
  BY DEF Init, AloneInv, OneOpen, Open, DirsApart, RecoverSeesAll, JournalInDir, StashNoted,
     HolderWorks, LauncherSeen,
         Fresh, Taken, AtOutside, Nothing, Forward, Cleaning, Undoing, Ended, Outside, Working, RecoverLocked, ConstantsOK
<1>3. ASSUME NEW s \in Setups PROVE Live(s) /\ Disk(s) /\ Done(s)
  BY DEF Init, Live, Disk, Done, Nothing
<1>4. ASSUME NEW p \in Procs PROVE Repaired(p)
  BY DEF Init, Repaired
<1> QED BY <1>1, <1>2, <1>3, <1>4 DEF UndoInv

\* every step keeps it when Setups run one after the other,
LEMMA UndoStep ==
  ASSUME MaxOpen = 1, ConstantsOK, UndoInv, [Next]_vars
  PROVE  UndoInv'
<1>0. Base /\ AloneInv /\ TypeInv
  BY DEF UndoInv, Base
<1>1. Base'
  <2>1. TypeInv' /\ ExclusionInv'
    BY StepTypes, KnownStep, StepKeeps DEF UndoInv, Base, TypeInv
  <2>2. NotesInv'
    BY NotesStep DEF UndoInv, Base
  <2> QED BY <2>1, <2>2 DEF Base, ConstantsOK
<1>2. AloneInv'
  BY AloneStep DEF UndoInv
<1>3. TypeOK' /\ TargetKnown'
  BY <1>1 DEF Base, TypeInv
<1>4. ASSUME NEW s \in Setups PROVE Live(s)' /\ Disk(s)' /\ Done(s)'
  <2>0. Live(s) /\ Disk(s) /\ Done(s)
    BY DEF UndoInv
  <2>1. ASSUME NEW t \in Setups, SetupStep(t) PROVE Live(s)' /\ Disk(s)' /\ Done(s)'
    <3>1. CASE s = t
      BY <1>0, <1>3, <2>0, <2>1, <3>1, OwnLives, OwnDisk, OwnDone
    <3>2. CASE s # t
      BY <1>0, <2>1, <3>2, OthersUntouched
    <3> QED BY <3>1, <3>2
  <2>2. ASSUME NEW p \in Procs, RecoverStep(p) \/ RecoverThrow(p) PROVE Live(s)' /\ Disk(s)' /\ Done(s)'
    <3>1. CASE \/ RecoverEnter(p) \/ RecoverTimeOut(p) \/ RecoverPick(p) \/ RecoverLeave(p)
               \/ RecoverStop(p) \/ RecoverCadence(p) \/ RecoverThrow(p)
      BY <1>0, <2>0, <3>1, LookingKeepsLive
    <3>2. CASE \/ RecoverRemove(p) \/ RecoverBack(p) \/ RecoverPointer(p) \/ RecoverLauncher(p)
               \/ RecoverStash(p) \/ RecoverUnlink(p) \/ RecoverDrop(p)
      <4>1. Disk(s)'
        BY <1>0, <2>0, <3>2, RemoveKeepsDisk, BackKeepsDisk, PointerKeepsDisk, TidyKeepsDisk
      <4>2. Live(s)' /\ Done(s)'
        BY <1>0, <2>0, <3>2, UndoingKeepsDone
      <4> QED BY <4>1, <4>2
    <3> QED BY <2>2, <3>1, <3>2 DEF RecoverStep
  <2>3. ASSUME NEW t \in Setups, Throw(t) PROVE Live(s)' /\ Disk(s)' /\ Done(s)'
    BY <1>0, <1>3, <2>0, <2>3, ThrowKeepsLive
  <2>4. CASE \/ \E t \in Setups : Begin(t) \/ Kill(t)
             \/ Scan \/ Launch \/ KillLauncher \/ UpdateBegin \/ UpdateEnd \/ UNCHANGED vars
    BY <1>0, <2>0, <2>4, RestKeepsLive
  <2> QED BY <2>1, <2>2, <2>3, <2>4 DEF Next
<1>5. ASSUME NEW p \in Procs PROVE Repaired(p)'
  <2>0. Repaired(p) /\ (at[p] = NoOne \/ at[p] # NoOne)
    BY DEF UndoInv
  <2>1. ASSUME NEW q \in Procs, RecoverStep(q) \/ RecoverThrow(q) PROVE Repaired(p)'
    BY <1>0, <2>0, <2>1, RecoveryRepairs DEF UndoInv
  <2>2. CASE /\ at[p] # NoOne
             /\ \/ \E t \in Setups : SetupStep(t)
                \/ \E t \in Setups : Begin(t) \/ Throw(t) \/ Kill(t)
                \/ Scan \/ Launch \/ KillLauncher \/ UpdateBegin \/ UpdateEnd \/ UNCHANGED vars
    <3>1. at'[p] = NoOne \/ RepairKept(p)
      BY <1>0, <2>2, SetupKeepsRepaired, RestKeepsRepaired
    <3> QED BY <2>0, <3>1, RepairStays
  <2>3. CASE /\ at[p] = NoOne
             /\ \/ \E t \in Setups : SetupStep(t)
                \/ \E t \in Setups : Begin(t) \/ Throw(t) \/ Kill(t)
                \/ Scan \/ Launch \/ KillLauncher \/ UpdateBegin \/ UpdateEnd \/ UNCHANGED vars
    <3>0. at \in [Procs -> Setups \union {NoOne}] /\ TypeOK
      BY <1>0 DEF TypeInv, TypeOK
    <3>1. at'[p] = NoOne
      <4>1. ASSUME NEW t \in Setups, SetupStep(t) PROVE at' = at
        BY <3>0, <4>1, <1>0, StepIsOwn DEF OnlyOf
      <4> QED BY <2>3, <3>0, <4>1 DEF Begin, Throw, Kill, Scan, Launch, KillLauncher,
           RecoverEnd, UpdateBegin, UpdateEnd, vars,
                                   rec, elsewhere
    <3> QED BY <3>1 DEF Repaired
  <2> QED BY <2>0, <2>1, <2>2, <2>3 DEF Next
<1> QED BY <1>1, <1>2, <1>4, <1>5 DEF UndoInv

\* and it implies the four promises.
LEMMA UndoMeans ==
  ASSUME UndoInv
  PROVE  OldRuntimeKept /\ SetupUndone /\ RecoveryUndone /\ CompletedSetupStays
<1>0. /\ TypeOK /\ TargetKnown /\ ConstantsOK /\ AtKnown
      /\ before \in [Setups -> Installations]
      /\ \A s \in Setups : /\ before[s].pointer \in Pointers /\ before[s].pointer.active \in Versions \union {None}
                           /\ before[s].tree \in [Versions -> Contents]
      /\ tree \in [Versions -> Contents]
  BY DEF UndoInv, Base, TypeInv, TypeOK, Installations, Pointers
<1>1. OldRuntimeKept
  <2> SUFFICES ASSUME NEW s \in Setups, before[s].taken, before[s].pointer.active # None, outcome[s] = "pending"
               PROVE  before[s].tree[before[s].pointer.active] \in {"absent", tree[before[s].pointer.active], stash[s]}
    BY DEF OldRuntimeKept
  <2>1. Disk(s) /\ before[s].pointer.active \in Versions
    BY <1>0 DEF UndoInv
  <2> QED BY <2>1 DEF Disk
<1>2. SetupUndone
  <2> SUFFICES ASSUME NEW s \in Setups, pc[s] = "u_unlink", before[s].taken
               PROVE  /\ pointer = Found(before[s]) /\ tree = before[s].tree
                      /\ launcher = before[s].launcher /\ loader = before[s].loader
    BY DEF SetupUndone
  <2>1. LiveTree(s) /\ LivePointer(s) /\ LiveLauncher(s) /\ LiveLoader(s)
    BY DEF UndoInv, Live, Undoing
  <2>2. target[s] \in Versions
    BY <1>0 DEF TargetKnown, Ended
  <2>3. \A v \in Versions : tree[v] = before[s].tree[v]
    BY <2>1, <2>2 DEF LiveTree
  <2>4. pointer = Found(before[s]) /\ launcher = before[s].launcher /\ loader = before[s].loader
    BY <2>1 DEF LivePointer, LiveLauncher, LiveLoader, Undoing
  <2>5. tree = before[s].tree
    <3>1. tree \in [Versions -> Contents] /\ before[s].tree \in [Versions -> Contents]
      BY <1>0
    <3> QED BY <2>3, <3>1
  <2> QED BY <2>4, <2>5
<1>3. RecoveryUndone
  <2> SUFFICES ASSUME NEW p \in Procs, rpc[p] = "unlink", outcome[at[p]] = "pending", before[at[p]].taken
               PROVE  LET b == before[at[p]]
                          j == journal[at[p]]
                      IN /\ pointer \in {b.pointer, Found(b)} /\ loader = b.loader
                         /\ b.pointer.active # None => b.tree[b.pointer.active] \in {"absent", tree[b.pointer.active]}
                         /\ launcher = b.launcher \/ (~j.replaced /\ launcher = j.new)
    BY DEF RecoveryUndone
  <2>1. at[p] # NoOne /\ at[p] \in Setups
    <3>1. at[p] # NoOne
      BY <1>0 DEF AtKnown, RecoverLocked
    <3> QED BY <3>1, AtApart DEF UndoInv
  <2>2. Repaired(p) /\ Disk(at[p]) /\ stash[at[p]] = "absent"
    BY <2>1 DEF UndoInv, AloneInv, AtOutside
  <2>3. before[at[p]].pointer.active \in Versions \union {None}
    BY <1>0, <2>1
  <2> QED BY <2>1, <2>2, <2>3 DEF Repaired, Disk
<1>4. CompletedSetupStays
  BY DEF UndoInv, Done, CompletedSetupStays
<1> QED BY <1>1, <1>2, <1>3, <1>4

\* so it holds in every reachable state.
LEMMA SetupUndoInv ==
  ASSUME MaxOpen = 1
  PROVE  Spec => []UndoInv
<1>1. Init => UndoInv
  BY UndoInvStart, ConstantsOK
<1>2. UndoInv /\ [Next]_vars => UndoInv'
  BY UndoStep, ConstantsOK
<1> QED BY <1>1, <1>2, PTL DEF Spec

\* The runtime a Setup found active is never lost while that Setup can still be undone: it lies
\* where it was or where Repair and Reinstall moved it (SetupRecover.ps1, the catch block).
THEOREM SetupKeepsOldRuntime ==
  ASSUME MaxOpen = 1
  PROVE  Spec => []OldRuntimeKept
BY SetupUndoInv, UndoMeans, PTL

\* A Setup that fails under the mutex and gets through its catch block has restored everything it
\* found; of installation.json, what it had read, and nothing when reading it is what failed.
THEOREM SetupUndoes ==
  ASSUME MaxOpen = 1
  PROVE  Spec => []SetupUndone
BY SetupUndoInv, UndoMeans, PTL

\* A recovery that is about to delete the directory of a Setup that was killed, at whatever step,
\* has put back what that Setup found; installation.json, unless Setup could not read it and its
\* catch block had begun.
THEOREM RecoveryUndoes ==
  ASSUME MaxOpen = 1
  PROVE  Spec => []RecoveryUndone
BY SetupUndoInv, UndoMeans, PTL

\* Nobody takes back what a completed Setup installed: neither its own clean-up, nor a recovery
\* that meets its directory.
THEOREM CompletedSetupIsKept ==
  ASSUME MaxOpen = 1
  PROVE  Spec => []CompletedSetupStays
BY SetupUndoInv, UndoMeans, PTL
=============================================================================
